CONSTANTS
    MaxSetups = 2
    BadAddress = BadAddress
    BadDate = BadDate
    Addresses = {a1}
    MinAges = {0, 18}
    Days = {0, 1}
    Calendar <- MCCalendar
    DaySeconds = 2
    SecondTicks = 2
    MaxDuration = 2000
    FieldOrder = 32749
    Births <- People
    Keys <- MCKeys
SPECIFICATION VerdictsSpec
INVARIANTS ReadmeReachesTheNode
