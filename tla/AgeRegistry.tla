---------------------------- MODULE AgeRegistry -----------------------------
(***************************************************************************)
(* What the chain promises to the readers of its verification records, and *)
(* nothing about how: a registry of timestamps that only moves forward.    *)
(* One step records a set of addresses at one instant, which it may do     *)
(* only when somebody with a birth date on record would be old enough on a *)
(* day no further than a day away from that instant.                       *)
(***************************************************************************)
EXTENDS CivilTime

CONSTANTS
    Addresses,   \* the addresses that can be looked up
    Births,      \* the birth dates people claim
    Threshold    \* the age that counts as adult

VARIABLES
    registry,    \* the timestamp of each address, -1 for none
    now          \* the instant of the last step

vars == <<registry, now>>

\* Somebody is old enough on a day that begins within a day of instant t.
AdultAround(t) ==
    \E birth \in Births, d \in Days :
       /\ Midnight(d) - t \in -DayTicks .. DayTicks
       /\ AgeOn(birth, Calendar[d]) >= Threshold

Init ==
    /\ registry = [a \in Addresses |-> -1]
    /\ now = 0

Record(S) ==
    /\ now' \in Nat
    /\ now' > now
    /\ S # {} => AdultAround(now')
    /\ registry' =
         [a \in Addresses |-> IF a \in S THEN Stamp(now') ELSE registry[a]]

Next == \E S \in SUBSET Addresses : Record(S)

Spec == Init /\ [][Next]_vars

=============================================================================
