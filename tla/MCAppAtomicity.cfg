CONSTANTS
    a1 = a1
    a2 = a2
    setupKey = setupKey
    otherKey = otherKey
    BadAddress = BadAddress
    BadDate = BadDate
    VKBytes = setupKey
    Days <- MCDays
    Calendar <- MCCalendar
    DaySeconds = 2
    SecondTicks = 2
    MaxDuration = 2000
    FieldOrder = 32749
    Births <- People
    Keys <- MCKeys
    Addresses = {a1,a2}
    Txs <- AtomicityTxs
    MaxTime = 8
    MaxMempool = 2
    MaxBlockTxs = 2
    AllowExport = FALSE
SPECIFICATION Spec
INVARIANTS
    BlockEffectIsItsSuccesses
    QueriesServable
PROPERTIES
    ImplementsRegistry
