CONSTANTS
    setupKey = setupKey
    BadDate = BadDate
    FieldOrder = 32749
    Births <- MCBirths
    Keys <- MCKeys
    BirthFlags <- MCBirthFlags
    MinAgeFlags <- MCMinAgeFlags
    OverrideFlags <- MCOverrideFlags
    Todays <- MCTodays
    KeyFiles <- MCKeyFiles
SPECIFICATION Spec
INVARIANTS
    TypeOK
    ProofMeansOldEnough
    OldEnoughIsNotRefused
    PrintedDateIsTheProvedOne
CHECK_DEADLOCK FALSE
