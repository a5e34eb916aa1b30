SPECIFICATION CoreFairSpec
CONSTANTS
    adm = adm
    p1 = p1
    p2 = p2
    Thread = {adm, p1, p2}
    Admin = adm
    NoLine = NoLine
    MaxLines = 1
    Configs <- MCBlock
    Budget <- MCBudget
    AdminBudget <- MCLive
    Fatal <- OneFatal
    AllocMayFail = FALSE
    ThreadMayFail = TRUE
PROPERTY
    CallsReturn
