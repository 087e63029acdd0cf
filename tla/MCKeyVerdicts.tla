---------------------------- MODULE MCKeyVerdicts ---------------------------
(***************************************************************************)
(* Three generations of keys, an adult and a child, and a day on which     *)
(* proofs are made for an age of 18 and for any age.                       *)
(***************************************************************************)
EXTENDS KeyVerdicts, TLC

Date(y, m, d) == [year |-> y, month |-> m, day |-> d]
MCCalendar == 0 :> Date(2026, 2, 27) @@ 1 :> Date(2026, 2, 28)
People == {Date(2000, 6, 15), Date(2015, 1, 1)}
MCKeys == 0 .. MaxSetups
=============================================================================
