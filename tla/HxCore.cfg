SPECIFICATION CoreSpec
CONSTANTS
    adm = adm
    p1 = p1
    p2 = p2
    Thread = {adm, p1, p2}
    Admin = adm
    NoLine = NoLine
    MaxLines = 2
    Configs <- MCBlock
    Budget <- NoFlush
    AdminBudget <- MCAdmin
    Fatal <- NoFatal
    AllocMayFail = TRUE
    ThreadMayFail = FALSE
SYMMETRY Symmetry
INVARIANTS
    ReconfigureLosesNothing
    DrainReachesSinks
    PublishedModeHasEngine
    NoDoubleDelivery
