SPECIFICATION CoreSpec
CONSTANTS
    adm = adm
    p1 = p1
    Thread = {adm, p1}
    Admin = adm
    NoLine = NoLine
    MaxLines = 2
    Configs <- MCBlock
    Budget <- NoFlush
    AdminBudget <- MCDown
    Fatal <- NoFatal
    AllocMayFail = FALSE
    ThreadMayFail = FALSE
INVARIANT
    RefusedLineIsWritten
