---------------------------- MODULE AgeReference ----------------------------
(***************************************************************************)
(* Civil dates and the reference definition of age: the full years         *)
(* completed on a date.  It is what the circuit is meant to compute and is *)
(* stated without MMDD codes, bits or field elements.                      *)
(***************************************************************************)
EXTENDS Integers

\* A civil date as a four-digit year, a month and a day of the month.
CivilDate == [year : 0..9999, month : 1..12, day : 1..31]

\* The date of d is not earlier than the date of c.
NotEarlier(c, d) ==
    \/ c.year < d.year
    \/ c.year = d.year /\ c.month < d.month
    \/ c.year = d.year /\ c.month = d.month /\ c.day <= d.day

\* In the year of the date, the birthday comes later.
BirthdayStillAhead(birth, date) ==
    \/ date.month < birth.month
    \/ date.month = birth.month /\ date.day < birth.day

AgeOn(birth, date) ==
    date.year - birth.year - (IF BirthdayStillAhead(birth, date) THEN 1 ELSE 0)

=============================================================================
