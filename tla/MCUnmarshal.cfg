\* Messages as they are marshalled, items in every order, whole and cut, and
\* bytes that nobody marshalled.
CONSTANTS
    WordBits = 15
    MaxInt <- MCMaxInt
    FieldMod = 256
    Inputs <- AllInputs
SPECIFICATION Spec
INVARIANTS RoundTrip WholeItemsAreRead WithinBuffer
PROPERTIES RoundsAdvance Terminates
\* A call ends.
CHECK_DEADLOCK FALSE
