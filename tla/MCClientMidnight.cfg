CONSTANTS
    setupKey = setupKey
    otherKey = otherKey
    a1 = a1
    BadAddress = BadAddress
    BadDate = BadDate
    VKBytes = setupKey
    Days <- MCDays
    Calendar <- MCCalendar
    DaySeconds = 6
    SecondTicks = 1
    MaxDuration = 20000
    FieldOrder = 32749
    Births <- MCBirths
    Keys <- MCKeys
    Addresses = {a1}
    Account = a1
    Adult <- MCAdult
    Child <- MCChild
    FutureDay <- Jan2035
    Txs <- MCTxs
    MaxTime = 9
    MaxMempool = 3
    MaxBlockTxs = 3
    AllowExport = FALSE
    StartClock = 4
    MaxClock = 7
    WaitTicks = 2
    SleepTicks = 1
    Programs = {"positive"}
    KeyFiles = {setupKey}
    Offsets = {0}
SPECIFICATION ClientSpec
INVARIANTS PromptProofIsAccepted
