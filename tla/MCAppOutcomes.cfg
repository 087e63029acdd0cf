CONSTANTS
    a1 = a1
    a2 = a2
    setupKey = setupKey
    otherKey = otherKey
    BadAddress = BadAddress
    BadDate = BadDate
    VKBytes = setupKey
    Days <- MCDays
    Calendar <- MCCalendar
    DaySeconds = 2
    SecondTicks = 2
    MaxDuration = 2000
    FieldOrder = 32749
    Births <- People
    Keys <- MCKeys
    Addresses = {a1}
    Txs <- OutcomeTxs
    MaxTime = 11
    MaxMempool = 1
    MaxBlockTxs = 1
    AllowExport = TRUE
SPECIFICATION FairSpec
INVARIANTS
    TypeOK
    EveryRecordHasAnAdult
    TodaysProofIsAccepted
PROPERTIES
    DecidedBlocksCommit
