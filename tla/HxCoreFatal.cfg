SPECIFICATION CoreSpec
CONSTANTS
    adm = adm
    p1 = p1
    Thread = {adm, p1}
    Admin = adm
    NoLine = NoLine
    MaxLines = 2
    Configs <- MCBlock
    Budget <- NoFlush
    AdminBudget <- MCInit
    Fatal <- MCFatal
    AllocMayFail = FALSE
    ThreadMayFail = FALSE
INVARIANT
    FatalIsFlushed
