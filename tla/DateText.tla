----------------------------- MODULE DateText -------------------------------
(***************************************************************************)
(* The eight digits that carry the date from the prover to the chain: the  *)
(* prover prints three integers with "%04d%02d%02d", the chain parses the  *)
(* text with the layout "20060102".  A text is a sequence of digits 0..9   *)
(* and Minus.                                                              *)
(***************************************************************************)
EXTENDS AgeReference, Sequences, FiniteSetsExt

CONSTANT BadDate   \* what time.Parse returns instead of a date

Minus == 10

\* The numbers printed here have at most MaxDigits digits.
MaxDigits == 9
Numbers == -10^MaxDigits + 1 .. 10^MaxDigits - 1

-----------------------------------------------------------------------------
\* How many characters %0wd takes: at least w, more if needed.
Width(n, w) == Min({k \in 1 .. MaxDigits : k >= w /\ n < 10^k})

\* A slip: quotients are printed whole, not their last digit.
UnreducedNat(n, w) ==
    [i \in 1 .. Width(n, w) |-> n \div 10^(Width(n, w) - i)]

\* The verb %0wd on digits alone; Padded counts a sign into the width.
PaddedNat(n, w) ==
    [i \in 1 .. Width(n, w) |-> (n \div 10^(Width(n, w) - i)) % 10]

Padded(n, w) ==
    IF n >= 0 THEN PaddedNat(n, w) ELSE <<Minus>> \o PaddedNat(-n, w - 1)

\* A slip: day and month are swapped.
SprintfDayFirst(date) ==
    Padded(date.year, 4) \o Padded(date.day, 2) \o Padded(date.month, 2)

SprintfDate(date) ==
    Padded(date.year, 4) \o Padded(date.month, 2) \o Padded(date.day, 2)

-----------------------------------------------------------------------------
Leap(year) == year % 4 = 0 /\ (year % 100 = 0 => year % 400 = 0)

DaysIn(year, month) ==
    CASE month \in {4, 6, 9, 11} -> 30
      [] month = 2               -> IF Leap(year) THEN 29 ELSE 28
      [] OTHER                   -> 31

\* A day that exists.
IsRealDate(date) ==
    /\ date.year \in 0 .. 9999
    /\ date.month \in 1 .. 12
    /\ date.day \in 1 .. DaysIn(date.year, date.month)

TwoDigits(text, i) == 10 * text[i] + text[i + 1]

\* time.Parse("20060102", text): fixed widths, nothing left over, a real day.
ParseDate(text) ==
    IF Len(text) # 8 \/ \E i \in 1 .. Len(text) : text[i] = Minus
    THEN BadDate
    ELSE LET date == [ year  |-> 100 * TwoDigits(text, 1) + TwoDigits(text, 3),
                       month |-> TwoDigits(text, 5),
                       day   |-> TwoDigits(text, 7) ]
         IN  IF IsRealDate(date) THEN date ELSE BadDate

=============================================================================
