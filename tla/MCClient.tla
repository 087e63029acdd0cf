------------------------------ MODULE MCClient ------------------------------
(***************************************************************************)
(* A small instance of the client and the node: a day has six ticks, a     *)
(* program starts two ticks before midnight, waits two ticks for a result, *)
(* or one if it is demo.sh.                                                *)
(***************************************************************************)
EXTENDS Client, TLC

CONSTANTS
    a1,                     \* the address
    setupKey, otherKey      \* two generations of keys

Date(y, m, d) == [year |-> y, month |-> m, day |-> d]
Jan2035 == 1000
MCDays  == -1 .. 2 \union {Jan2035}
MCCalendar ==
    -1 :> Date(2026, 2, 26) @@ 0 :> Date(2026, 2, 27) @@
    1  :> Date(2026, 2, 28) @@ 2 :> Date(2026, 3, 1) @@
    Jan2035 :> Date(2035, 1, 1)
MCAdult == Date(2000, 6, 15)
MCChild == Date(2015, 1, 1)
MCBirths == {MCAdult, MCChild}
MCKeys  == {setupKey, otherKey}
AnyKeyFile == MCKeys \union {"missing"}

\* No client but the program: CheckTx happens in SubmitStep only.
MCTxs == ProgramTxs
AllPrograms == {"positive", "negative", "script"}
TimeZones == {-2, 0}
=============================================================================
