---------------------------- MODULE ProverProofs ----------------------------
(***************************************************************************)
(* The prover prints a date the chain reads back as the one it proved for, *)
(* a printed proof means the age, and an adult is not refused.             *)
(***************************************************************************)
EXTENDS Prover, AgeCircuitProofs, WellFoundedInduction

\* Numbers without a sign, widths the format asks for, and digits.
Naturals9 == 0 .. 10^MaxDigits - 1
Widths == {1, 2, 3, 4}
Digits == 0 .. 9
Below100 == 0 .. 99
Below10000 == 0 .. 9999

-----------------------------------------------------------------------------
(***************************************************************************)
(* Decimal notation.                                                       *)
(***************************************************************************)
Less == {p \in Nat \X Nat : p[1] < p[2]}

\* Min finds the least of some naturals: they are well-founded.
LEMMA LeastNatural ==
    ASSUME NEW S, S \subseteq Nat, S # {}
    PROVE  Min(S) \in S /\ \A k \in S : Min(S) <= k
<1>1. IsWellFoundedOn(Less, Nat)
  BY NatLessThanWellFounded DEF Less, OpToRel
<1>2. \E k \in S : \A j \in S : <<j, k>> \notin Less
  BY <1>1, WFMin
<1>3. PICK least \in S : \A j \in S : <<j, least>> \notin Less
  BY <1>2
<1>4. \A j \in S : least <= j
  <2> TAKE j \in S
  <2>1. <<j, least>> \in Nat \X Nat /\ <<j, least>>[1] = j /\ <<j, least>>[2] = least
    OBVIOUS
  <2>2. ~(j < least)
    BY <1>3, <2>1 DEF Less
  <2>3. QED
    BY <2>2
<1>5. QED
  BY <1>4 DEF Min

\* The powers of ten the format needs.
LEMMA PowersOfTen ==
    ASSUME NEW k \in 0 .. 9
    PROVE  10^k \in Nat \ {0}
<1>1. /\ 10^0 = 1 /\ 10^1 = 10 /\ 10^2 = 100 /\ 10^3 = 1000 /\ 10^4 = 10000
      /\ 10^5 = 100000 /\ 10^6 = 1000000 /\ 10^7 = 10000000
      /\ 10^8 = 100000000 /\ 10^9 = 1000000000
  BY SMT
<1>2. k = 0 \/ k = 1 \/ k = 2 \/ k = 3 \/ k = 4 \/ k = 5 \/ k = 6 \/ k = 7 \/ k = 8 \/ k = 9
  BY SMT
<1>3. \A p \in {10^0, 10^1, 10^2, 10^3, 10^4, 10^5, 10^6, 10^7, 10^8, 10^9} : p \in Nat \ {0}
  BY <1>1, SMT
<1>4. 10^k \in {10^0, 10^1, 10^2, 10^3, 10^4, 10^5, 10^6, 10^7, 10^8, 10^9}
  BY <1>2, Zenon
<1>5. QED
  BY <1>3, <1>4

\* A text is longer than asked for exactly when the number does not fit.
LEMMA WidthFits ==
    ASSUME NEW n \in Naturals9, NEW w \in Widths
    PROVE  /\ Width(n, w) \in w .. 9
           /\ Width(n, w) = w <=> n < 10^w
<1> DEFINE fitting == {k \in 1 .. MaxDigits : k >= w /\ n < 10^k}
<1>1. w \in 1 .. 9 /\ MaxDigits = 9
  BY DEF Widths, MaxDigits
<1>2. n < 10^MaxDigits
  <2>1. 10^MaxDigits \in Nat
    BY <1>1, PowersOfTen
  <2>2. QED
    BY <2>1 DEF Naturals9
<1>3. MaxDigits \in fitting
  BY <1>1, <1>2
<1>4. Min(fitting) \in fitting /\ \A k \in fitting : Min(fitting) <= k
  <2>1. fitting \subseteq Nat
    OBVIOUS
  <2> HIDE DEF fitting
  <2>2. fitting # {}
    BY <1>3
  <2>3. QED
    BY <2>1, <2>2, LeastNatural
<1>5. Width(n, w) = Min(fitting)
  BY DEF Width
<1> HIDE DEF fitting
<1>6. Width(n, w) \in fitting /\ \A k \in fitting : Width(n, w) <= k
  BY <1>4, <1>5
<1>7. Width(n, w) \in w .. 9
  BY <1>1, <1>6 DEF fitting
<1>8. n < 10^w => w \in fitting
  BY <1>1 DEF fitting
<1>9. QED
  BY <1>1, <1>6, <1>7, <1>8 DEF fitting

LEMMA FunctionIsSequence ==
    ASSUME NEW S, NEW size \in Nat, NEW f \in [1 .. size -> S]
    PROVE  f \in Seq(S) /\ Len(f) = size /\ \A i \in 1 .. size : f[i] \in S
OBVIOUS

\* The text of a number without a sign is made of digits.
LEMMA PaddedNatText ==
    ASSUME NEW n \in Naturals9, NEW w \in Widths
    PROVE  /\ PaddedNat(n, w) \in Seq(Digits)
           /\ Len(PaddedNat(n, w)) = Width(n, w)
<1>1. Width(n, w) \in 1 .. 9
  BY WidthFits DEF Widths
<1>2. \A i \in 1 .. Width(n, w) : (n \div 10^(Width(n, w) - i)) % 10 \in Digits
  <2> TAKE i \in 1 .. Width(n, w)
  <2>1. Width(n, w) - i \in 0 .. 9
    BY <1>1
  <2>2. 10^(Width(n, w) - i) \in Nat \ {0}
    BY <2>1, PowersOfTen
  <2>3. n \div 10^(Width(n, w) - i) \in Int
    BY <2>2 DEF Naturals9
  <2>4. QED
    BY <2>3 DEF Digits
<1>3. PaddedNat(n, w) \in [1 .. Width(n, w) -> Digits]
  BY <1>2 DEF PaddedNat
<1>4. Width(n, w) \in Nat
  BY <1>1
<1>5. QED
  BY <1>3, <1>4, FunctionIsSequence

\* The texts of a number that fits its width, and of one that does not.
Fits(n, w) == n >= 0 /\ n < 10^w

LEMMA PaddedFits ==
    ASSUME NEW n \in Numbers, NEW w \in {2, 4}, Fits(n, w)
    PROVE  /\ Padded(n, w) \in Seq(Digits)
           /\ Len(Padded(n, w)) = w
           /\ \A i \in 1 .. w : Padded(n, w)[i] = (n \div 10^(w - i)) % 10
<1>1. n \in Naturals9
  BY DEF Fits, Numbers, Naturals9
<1>2. w \in Widths /\ w \in Nat
  BY DEF Widths
<1>3. Width(n, w) = w
  BY <1>1, <1>2, WidthFits DEF Fits
<1>4. Padded(n, w) = PaddedNat(n, w)
  BY DEF Fits, Padded
<1>5. \A i \in 1 .. w : PaddedNat(n, w)[i] = (n \div 10^(w - i)) % 10
  BY <1>2, <1>3 DEF PaddedNat
<1>6. QED
  BY <1>1, <1>2, <1>3, <1>4, <1>5, PaddedNatText

Characters == 0 .. Minus

LEMMA DigitsAreCharacters ==
    ASSUME NEW text \in Seq(Digits)
    PROVE  text \in Seq(Characters)
<1>1. \A i \in 1 .. Len(text) : text[i] \in Characters
  <2> TAKE i \in 1 .. Len(text)
  <2>1. text[i] \in Digits
    OBVIOUS
  <2>2. QED
    BY <2>1 DEF Digits, Characters, Minus
<1>2. Len(text) \in Nat /\ text \in [1 .. Len(text) -> Characters]
  BY <1>1
<1>3. QED
  BY <1>2, FunctionIsSequence

LEMMA PaddedTooLong ==
    ASSUME NEW n \in Numbers, NEW w \in {2, 4}, ~Fits(n, w)
    PROVE  /\ Padded(n, w) \in Seq(Characters)
           /\ Len(Padded(n, w)) >= w
           /\ Len(Padded(n, w)) > w \/ Padded(n, w)[1] = Minus
<1>1. n \in Int /\ w \in Widths /\ w - 1 \in Widths /\ w \in Nat
  <2>1. 10^MaxDigits \in Nat
    BY PowersOfTen DEF MaxDigits
  <2>2. n \in Int
    BY <2>1 DEF Numbers
  <2>3. QED
    BY <2>2 DEF Widths
<1>3. CASE n >= 0
  <2>1. n \in Naturals9
    BY <1>1, <1>3 DEF Numbers, Naturals9
  <2>2. Padded(n, w) = PaddedNat(n, w)
    BY <1>3 DEF Padded
  <2>3. Width(n, w) \in w .. 9 /\ Width(n, w) # w
    BY <1>1, <1>3, <2>1, WidthFits DEF Fits
  <2>4. PaddedNat(n, w) \in Seq(Characters)
    BY <1>1, <2>1, PaddedNatText, DigitsAreCharacters
  <2>5. QED
    BY <1>1, <2>1, <2>2, <2>3, <2>4, PaddedNatText
<1>4. CASE ~(n >= 0)
  <2>1. -n \in Naturals9
    BY <1>1, <1>4, PowersOfTen DEF Numbers, Naturals9, MaxDigits
  <2>2. Padded(n, w) = <<Minus>> \o PaddedNat(-n, w - 1)
    BY <1>4 DEF Padded
  <2>3. Width(-n, w - 1) \in w - 1 .. 9
    BY <1>1, <2>1, WidthFits
  <2>4. /\ PaddedNat(-n, w - 1) \in Seq(Characters)
        /\ Len(PaddedNat(-n, w - 1)) = Width(-n, w - 1)
    BY <1>1, <2>1, PaddedNatText, DigitsAreCharacters
  <2>5. Minus \in Characters
    BY DEF Characters, Minus
  <2>6. QED
    BY <1>1, <2>2, <2>3, <2>4, <2>5
<1>5. QED
  BY <1>3, <1>4

\* Two digits and four digits give the number back.
LEMMA TwoDigitsOf ==
    ASSUME NEW n \in Below100
    PROVE  10 * ((n \div 10) % 10) + (n % 10) = n
<1>1. n \div 10 \in 0 .. 9
  BY DEF Below100
<1>2. (n \div 10) % 10 = n \div 10
  BY <1>1
<1>3. 10 * (n \div 10) + (n % 10) = n
  BY DEF Below100
<1>4. QED
  BY <1>2, <1>3

LEMMA LastDigit ==
    ASSUME NEW high \in Below100, NEW low \in Below100
    PROVE  (100 * high + low) % 10 = low % 10
<1>1. \A k \in Int, b \in 0 .. 9 : (10 * k + b) % 10 = b
  OBVIOUS
<1>2. low % 10 \in 0 .. 9 /\ low \div 10 \in Int /\ low = 10 * (low \div 10) + (low % 10)
  BY DEF Below100
<1>3. /\ 10 * high + (low \div 10) \in Int
      /\ 100 * high + low = 10 * (10 * high + (low \div 10)) + (low % 10)
  BY <1>2 DEF Below100
<1>4. QED
  BY <1>1, <1>2, <1>3

LEMMA DivTwice ==
    ASSUME NEW n \in Below10000
    PROVE  /\ n \div 100 \in Below100
           /\ n % 100 \in Below100
           /\ n = 100 * (n \div 100) + (n % 100)
           /\ (n \div 1000) % 10 = ((n \div 100) \div 10) % 10
           /\ (n \div 10) % 10 = ((n % 100) \div 10) % 10
           /\ n % 10 = (n % 100) % 10
<1> USE DEF Below10000, Below100
<1>1. n \div 100 \in Below100 /\ n % 100 \in Below100 /\ n = 100 * (n \div 100) + (n % 100)
  OBVIOUS
<1>2. n \div 1000 = (n \div 100) \div 10
  <2>1. \E q \in 0 .. 9, r \in 0 .. 999 : n = 1000 * q + r
    <3>1. n = 1000 * (n \div 1000) + (n % 1000) /\ n \div 1000 \in 0 .. 9 /\ n % 1000 \in 0 .. 999
      OBVIOUS
    <3>2. QED
      BY <3>1
  <2>2. PICK q \in 0 .. 9, r \in 0 .. 999 : n = 1000 * q + r
    BY <2>1
  <2>3. n \div 1000 = q
    BY <2>2
  <2>4. \E s \in 0 .. 9, t \in 0 .. 99 : r = 100 * s + t
    <3>1. r = 100 * (r \div 100) + (r % 100) /\ r \div 100 \in 0 .. 9 /\ r % 100 \in 0 .. 99
      OBVIOUS
    <3>2. QED
      BY <3>1
  <2>5. PICK s \in 0 .. 9, t \in 0 .. 99 : r = 100 * s + t
    BY <2>4
  <2>6. n \div 100 = 10 * q + s
    BY <2>2, <2>5
  <2>7. (10 * q + s) \div 10 = q
    OBVIOUS
  <2>8. QED
    BY <2>3, <2>6, <2>7
<1>3. (n \div 10) % 10 = ((n % 100) \div 10) % 10
  <2>1. \A high \in 0 .. 99, low \in 0 .. 99 : (100 * high + low) \div 10 = 10 * high + (low \div 10)
    OBVIOUS
  <2>2. \A high \in Int, ten \in 0 .. 9 : (10 * high + ten) % 10 = ten
    OBVIOUS
  <2>3. n \div 10 = 10 * (n \div 100) + ((n % 100) \div 10)
    BY <1>1, <2>1
  <2>4. (n % 100) \div 10 \in 0 .. 9 /\ n \div 100 \in Int
    BY <1>1
  <2>5. (n \div 10) % 10 = (n % 100) \div 10
    BY <2>2, <2>3, <2>4
  <2>6. ((n % 100) \div 10) % 10 = (n % 100) \div 10
    BY <2>4
  <2>7. QED
    BY ONLY <2>5, <2>6
<1>4. n % 10 = (n % 100) % 10
  <2>1. n = 100 * (n \div 100) + (n % 100)
    BY <1>1
  <2>2. n % 10 = (n % 100) % 10
    BY <1>1, <2>1, LastDigit
  <2>3. QED
    BY <2>2
<1>5. QED
  BY ONLY <1>1, <1>2, <1>3, <1>4

-----------------------------------------------------------------------------
(***************************************************************************)
(* The eight characters.                                                   *)
(***************************************************************************)
\* text is a, b and c, one after the other, over S.
JoinOf(text, a, b, c, S) ==
    /\ text \in Seq(S)
    /\ Len(text) = Len(a) + Len(b) + Len(c)
    /\ \A i \in 1 .. Len(a) : text[i] = a[i]
    /\ \A i \in 1 .. Len(b) : text[Len(a) + i] = b[i]
    /\ \A i \in 1 .. Len(c) : text[Len(a) + Len(b) + i] = c[i]

\* What is read at each place of three sequences in a row.
LEMMA ThreeParts ==
    ASSUME NEW S, NEW a \in Seq(S), NEW b \in Seq(S), NEW c \in Seq(S),
           NEW text, text = a \o b \o c
    PROVE  JoinOf(text, a, b, c, S)
BY DEF JoinOf

NumberDate(date) ==
    /\ date \in [year : Int, month : Int, day : Int]
    /\ date.year \in Numbers /\ date.month \in Numbers /\ date.day \in Numbers

FitsEight(date) == Fits(date.year, 4) /\ Fits(date.month, 2) /\ Fits(date.day, 2)

\* Any text the prover can print is one of characters.
LEMMA SprintfIsText ==
    ASSUME NEW date, NumberDate(date)
    PROVE  SprintfDate(date) \in Seq(Characters)
<1>1. \A n \in Numbers, w \in {2, 4} : Padded(n, w) \in Seq(Characters)
  BY PaddedFits, PaddedTooLong, DigitsAreCharacters
<1>2. QED
  BY <1>1, ThreeParts DEF JoinOf, NumberDate, SprintfDate

\* What fits four or two characters.
LEMMA FitsIn ==
    ASSUME NEW n \in Int
    PROVE  /\ Fits(n, 4) <=> n \in Below10000
           /\ Fits(n, 2) <=> n \in Below100
<1>1. Fits(n, 4) <=> n \in Below10000
  BY DEF Fits, Below10000
<1>2. Fits(n, 2) <=> n \in Below100
  BY DEF Fits, Below100
<1>3. QED
  BY ONLY <1>1, <1>2

\* A real day is inside the calendar's ranges.
CalendarMonths == 1 .. 12
CalendarDays   == 1 .. 31

LEMMA RealDateRanges ==
    ASSUME NEW date, IsRealDate(date)
    PROVE  /\ date.year \in Below10000
           /\ date.month \in CalendarMonths
           /\ date.day \in CalendarDays
<1>1. DaysIn(date.year, date.month) \in 28 .. 31
  BY DEF DaysIn
<1>2. \A d \in 28 .. 31 : 1 .. d \subseteq CalendarDays
  BY DEF CalendarDays
<1>3. date.day \in CalendarDays
  BY <1>1, <1>2 DEF IsRealDate
<1>4. date.year \in Below10000
  BY ONLY IsRealDate(date) DEF IsRealDate, Below10000
<1>5. date.month \in CalendarMonths
  BY ONLY IsRealDate(date) DEF IsRealDate, CalendarMonths
<1>6. QED
  BY ONLY <1>3, <1>4, <1>5

LEMMA CalendarNumbers ==
    /\ \A n \in Below10000 : n \in Nat /\ n >= 0
    /\ \A n \in CalendarMonths : n \in Nat /\ n >= 0 /\ n \in Below100 /\ n \in Months
    /\ \A n \in CalendarDays : n \in Nat /\ n >= 0 /\ n \in Below100 /\ n \in MonthDays
BY DEF Below10000, CalendarMonths, CalendarDays, Below100, Months, MonthDays

\* A real day fits the eight characters.
LEMMA RealDateFits ==
    ASSUME NEW date, NumberDate(date), IsRealDate(date)
    PROVE  FitsEight(date)
<1>1. date.year \in Below10000 /\ date.month \in Below100 /\ date.day \in Below100
  BY RealDateRanges, CalendarNumbers
<1>2. date.year \in Int /\ date.month \in Int /\ date.day \in Int
  BY DEF NumberDate
<1>3. QED
  BY <1>1, <1>2, FitsIn DEF FitsEight

\* What is too long, or has a sign, is not parsed.
LEMMA TooLongIsRefused ==
    ASSUME NEW date, NumberDate(date), ~FitsEight(date)
    PROVE  ParseDate(SprintfDate(date)) = BadDate
<1> DEFINE a == Padded(date.year, 4)
           b == Padded(date.month, 2)
           c == Padded(date.day, 2)
           text == a \o b \o c
<1>1. /\ date.year \in Numbers /\ date.month \in Numbers /\ date.day \in Numbers
      /\ 4 \in {2, 4} /\ 2 \in {2, 4}
  BY DEF NumberDate
<1>2. \A n \in Numbers, w \in {2, 4} :
        /\ Padded(n, w) \in Seq(Characters)
        /\ Len(Padded(n, w)) >= w
        /\ Len(Padded(n, w)) = w /\ ~Fits(n, w) => Padded(n, w)[1] = Minus
  <2> TAKE n \in Numbers, w \in {2, 4}
  <2>1. CASE Fits(n, w)
    BY <2>1, PaddedFits, DigitsAreCharacters
  <2>2. CASE ~Fits(n, w)
    BY <2>2, PaddedTooLong
  <2>3. QED
    BY <2>1, <2>2
<1>3. /\ a \in Seq(Characters) /\ b \in Seq(Characters) /\ c \in Seq(Characters)
      /\ Len(a) >= 4 /\ Len(b) >= 2 /\ Len(c) >= 2
      /\ \/ Len(a) # 4 \/ a[1] = Minus
         \/ Len(b) # 2 \/ b[1] = Minus
         \/ Len(c) # 2 \/ c[1] = Minus
  BY <1>1, <1>2 DEF FitsEight
<1>4. SprintfDate(date) = text
  BY DEF SprintfDate
<1> HIDE DEF a, b, c
<1> HIDE DEF text
<1>5. /\ Len(text) = Len(a) + Len(b) + Len(c)
      /\ \A i \in 1 .. Len(a) : text[i] = a[i]
      /\ \A i \in 1 .. Len(b) : text[Len(a) + i] = b[i]
      /\ \A i \in 1 .. Len(c) : text[Len(a) + Len(b) + i] = c[i]
  <2>1. a \in Seq(Characters) /\ b \in Seq(Characters) /\ c \in Seq(Characters)
    BY <1>3
  <2>2. text = a \o b \o c
    BY DEF text
  <2>3. JoinOf(text, a, b, c, Characters)
    BY ONLY <2>1, <2>2, ThreeParts
  <2>4. QED
    BY ONLY <2>3 DEF JoinOf
<1>6. Len(a) \in Nat /\ Len(b) \in Nat /\ Len(c) \in Nat
  BY <1>3
<1>7. Len(text) # 8 \/ \E i \in 1 .. Len(text) : text[i] = Minus
  <2>1. SUFFICES ASSUME Len(text) = 8
                 PROVE  \E i \in 1 .. Len(text) : text[i] = Minus
    OBVIOUS
  <2>2. Len(a) = 4 /\ Len(b) = 2 /\ Len(c) = 2
    <3>1. \A k, m, n \in Nat : k >= 4 /\ m >= 2 /\ n >= 2 /\ k + m + n = 8
                                 => k = 4 /\ m = 2 /\ n = 2
      OBVIOUS
    <3>2. Len(a) + Len(b) + Len(c) = 8
      BY <1>5, <2>1
    <3>3. QED
      BY ONLY <1>3, <1>6, <3>1, <3>2
  <2>3. text[1] = a[1] /\ text[5] = b[1] /\ text[7] = c[1]
    BY <1>5, <2>2
  <2>4. text[1] = Minus \/ text[5] = Minus \/ text[7] = Minus
    BY <1>3, <2>2, <2>3
  <2>5. QED
    BY <2>1, <2>4
<1>8. QED
  BY <1>4, <1>7 DEF ParseDate

\* What fits is read back digit by digit.
LEMMA EightDigitsAreRead ==
    ASSUME NEW date, NumberDate(date), FitsEight(date)
    PROVE  ParseDate(SprintfDate(date)) = IF IsRealDate(date) THEN date ELSE BadDate
<1> DEFINE a == Padded(date.year, 4)
           b == Padded(date.month, 2)
           c == Padded(date.day, 2)
           text == a \o b \o c
<1>1. /\ date.year \in Below10000 /\ date.month \in Below100 /\ date.day \in Below100
      /\ date.year \in Numbers /\ date.month \in Numbers /\ date.day \in Numbers
  BY FitsIn DEF NumberDate, FitsEight
<1>2. /\ a \in Seq(Digits) /\ Len(a) = 4
      /\ b \in Seq(Digits) /\ Len(b) = 2
      /\ c \in Seq(Digits) /\ Len(c) = 2
  BY <1>1, PaddedFits DEF FitsEight
<1>3. /\ a[1] = (date.year \div 1000) % 10 /\ a[2] = (date.year \div 100) % 10
      /\ a[3] = (date.year \div 10) % 10 /\ a[4] = date.year % 10
  <2>1. \A i \in 1 .. 4 : a[i] = (date.year \div 10^(4 - i)) % 10
    BY <1>1, PaddedFits DEF FitsEight
  <2>2. a[1] = (date.year \div 10^3) % 10 /\ a[2] = (date.year \div 10^2) % 10
        /\ a[3] = (date.year \div 10^1) % 10 /\ a[4] = (date.year \div 10^0) % 10
    BY <2>1
  <2>3. QED
    <3>1. 10^3 = 1000 /\ 10^2 = 100 /\ 10^1 = 10 /\ 10^0 = 1
      BY SMT
    <3>2. date.year \div 1 = date.year
      <4>1. \A n \in Below10000 : n \div 1 = n
        BY DEF Below10000
      <4>2. QED
        BY ONLY <1>1, <4>1
    <3>3. QED
      BY ONLY <2>2, <3>1, <3>2
<1>4. /\ b[1] = (date.month \div 10) % 10 /\ b[2] = date.month % 10
      /\ c[1] = (date.day \div 10) % 10 /\ c[2] = date.day % 10
  <2>1. \A i \in 1 .. 2 : /\ b[i] = (date.month \div 10^(2 - i)) % 10
                          /\ c[i] = (date.day \div 10^(2 - i)) % 10
    BY <1>1, PaddedFits DEF FitsEight
  <2>2. b[1] = (date.month \div 10^1) % 10 /\ b[2] = (date.month \div 10^0) % 10
        /\ c[1] = (date.day \div 10^1) % 10 /\ c[2] = (date.day \div 10^0) % 10
    BY <2>1
  <2>3. QED
    BY <1>1, <2>2 DEF Below100
<1>5. SprintfDate(date) = text
  BY DEF SprintfDate
<1> HIDE DEF a, b, c
<1>6. /\ text \in Seq(Digits) /\ Len(text) = Len(a) + Len(b) + Len(c)
      /\ \A i \in 1 .. Len(a) : text[i] = a[i]
      /\ \A i \in 1 .. Len(b) : text[Len(a) + i] = b[i]
      /\ \A i \in 1 .. Len(c) : text[Len(a) + Len(b) + i] = c[i]
  <2>1. text = a \o b \o c
    OBVIOUS
  <2> HIDE DEF text
  <2>2. a \in Seq(Digits) /\ b \in Seq(Digits) /\ c \in Seq(Digits)
    BY <1>2
  <2>3. JoinOf(text, a, b, c, Digits)
    BY ONLY <2>1, <2>2, ThreeParts
  <2>4. QED
    BY ONLY <2>3 DEF JoinOf
<1> HIDE DEF text
<1>7. /\ text \in Seq(Digits) /\ Len(text) = 8
      /\ text[1] = a[1] /\ text[2] = a[2] /\ text[3] = a[3] /\ text[4] = a[4]
      /\ text[5] = b[1] /\ text[6] = b[2] /\ text[7] = c[1] /\ text[8] = c[2]
  <2>1. Len(a) = 4 /\ Len(b) = 2 /\ Len(c) = 2
    BY ONLY <1>2
  <2>2. text \in Seq(Digits) /\ Len(text) = 8
    BY ONLY <1>6, <2>1
  <2>3. \A i \in 1 .. 4 : text[i] = a[i]
    BY ONLY <1>6, <2>1
  <2>4. \A i \in 1 .. 2 : text[4 + i] = b[i]
    BY ONLY <1>6, <2>1
  <2>5. \A i \in 1 .. 2 : text[4 + 2 + i] = c[i]
    BY ONLY <1>6, <2>1
  <2>6. text[5] = b[1] /\ text[6] = b[2]
    BY ONLY <2>4
  <2>7. text[7] = c[1] /\ text[8] = c[2]
    BY ONLY <2>5
  <2>8. text[1] = a[1] /\ text[2] = a[2] /\ text[3] = a[3] /\ text[4] = a[4]
    BY ONLY <2>3
  <2>9. QED
    BY ONLY <2>2, <2>6, <2>7, <2>8
<1>8. ~ \E i \in 1 .. Len(text) : text[i] = Minus
  <2>1. text \in Seq(Digits)
    BY <1>7
  <2>2. \A i \in 1 .. Len(text) : text[i] \in Digits
    BY ONLY <2>1
  <2>3. Minus \notin Digits
    BY DEF Digits, Minus
  <2>4. QED
    BY <2>2, <2>3
<1>9. 100 * TwoDigits(text, 1) + TwoDigits(text, 3) = date.year
  <2>1. TwoDigits(text, 1) = date.year \div 100
    <3>1. TwoDigits(text, 1) = 10 * (((date.year \div 100) \div 10) % 10) + ((date.year \div 100) % 10)
      BY <1>1, <1>3, <1>7, DivTwice DEF TwoDigits
    <3>2. QED
      BY <1>1, <3>1, DivTwice, TwoDigitsOf
  <2>2. TwoDigits(text, 3) = date.year % 100
    <3>1. TwoDigits(text, 3) = 10 * (((date.year % 100) \div 10) % 10) + ((date.year % 100) % 10)
      BY <1>1, <1>3, <1>7, DivTwice DEF TwoDigits
    <3>2. QED
      BY <1>1, <3>1, DivTwice, TwoDigitsOf
  <2>3. QED
    BY <1>1, <2>1, <2>2, DivTwice
<1>10. TwoDigits(text, 5) = date.month /\ TwoDigits(text, 7) = date.day
  <2>1. /\ TwoDigits(text, 5) = 10 * ((date.month \div 10) % 10) + (date.month % 10)
        /\ TwoDigits(text, 7) = 10 * ((date.day \div 10) % 10) + (date.day % 10)
    BY <1>4, <1>7 DEF TwoDigits
  <2>2. QED
    BY <1>1, <2>1, TwoDigitsOf
<1>11. date = [ year  |-> 100 * TwoDigits(text, 1) + TwoDigits(text, 3),
                month |-> TwoDigits(text, 5),
                day   |-> TwoDigits(text, 7) ]
  BY <1>9, <1>10 DEF NumberDate
<1>12. QED
  BY <1>5, <1>7, <1>8, <1>11 DEF ParseDate

\* PrintedDateIsRead: the chain reads a printed date back exactly when it is a
\* real day, and refuses every other text (prover/main.go:142-144,
\* msg_server_submit_age_proof.go:33-40).
THEOREM PrintedDateIsRead ==
    ASSUME NEW date, NumberDate(date)
    PROVE  ParseDate(SprintfDate(date)) = IF IsRealDate(date) THEN date ELSE BadDate
BY RealDateFits, TooLongIsRefused, EightDigitsAreRead

-----------------------------------------------------------------------------
(***************************************************************************)
(* The states of one run.                                                  *)
(***************************************************************************)
\* A small integer is given to the circuit as the element that stands for it.
LEMMA ElementOfSmall ==
    ASSUME NEW x, IsSmall(x)
    PROVE  x \in SmallInts /\ Element(x) = ElementOf(x) /\ Element(x) \in Field
<1>1. FieldOrder \in Nat /\ FieldOrder > 20000
  BY FieldAssumption
<1>2. x \in Int /\ -(FieldOrder - 12000) <= x /\ x <= FieldOrder - 12000
  BY <1>1 DEF IsSmall, Reach
<1>3. x \in SmallInts
  BY <1>1, <1>2 DEF SmallInts
<1>4. Element(x) \in Field /\ Element(x) \in Int
  BY <1>1, <1>2 DEF Element, Field
<1>5. CASE x >= 0
  <2>1. \A n \in Nat : n < FieldOrder => n % FieldOrder = n
    BY <1>1
  <2>2. QED
    BY <1>1, <1>2, <1>3, <1>4, <1>5, <2>1 DEF Element, ElementOf
<1>6. CASE ~(x >= 0)
  <2>1. \A n \in Int : n < 0 /\ n > -FieldOrder => n % FieldOrder = n + FieldOrder
    BY <1>1
  <2>2. QED
    BY <1>1, <1>2, <1>3, <1>4, <1>6, <2>1 DEF Element, ElementOf
<1>7. QED
  BY <1>5, <1>6

\* What a run keeps: small numbers, a key once it is read, and the constraints
\* decided the way it ended.
RunInvariant ==
    /\ /\ pc \in {"flags", "key", "prove", "printed",
                  "exitUsage", "exitKey", "exitUnsatisfied"}
       /\ SmallDate(flags.birth) /\ SmallDate(flags.override) /\ SmallDate(today)
       /\ IsSmall(flags.minAge)
       /\ SmallDate(current)
    /\ pc \in {"prove", "printed"} => keyFile \in Keys
    /\ pc = "exitUnsatisfied" => ~Satisfied(PrivateInputs, PublicWitness)
    /\ pc = "printed" =>
         /\ Satisfied(PrivateInputs, PublicWitness)
         /\ output = [ proof |-> ProofOf(keyFile, PublicWitness),
                       date  |-> SprintfDate(current) ]
    /\ pc # "printed" => output = NoOutput

LEMMA RunInit == Init => RunInvariant
<1>1. SmallDate(NoDateYet)
  <2>1. 0 \in Numbers
    BY PowersOfTen DEF Numbers, MaxDigits
  <2>2. 0 \in -Reach .. Reach
    BY FieldAssumption DEF Reach
  <2>3. QED
    BY <2>1, <2>2 DEF SmallDate, IsSmall, NoDateYet
<1>2. SUFFICES ASSUME Init PROVE RunInvariant
  OBVIOUS
<1>3. flags.birth \in BirthFlags /\ flags.override \in OverrideFlags /\ flags.minAge \in MinAgeFlags
  BY <1>2 DEF Init
<1>4. SmallDate(flags.birth) /\ SmallDate(flags.override) /\ SmallDate(today) /\ IsSmall(flags.minAge)
  BY <1>2, <1>3, FlagsAssumption DEF Init
<1>5. QED
  BY <1>1, <1>2, <1>4 DEF Init, RunInvariant

LEMMA RunStep == RunInvariant /\ [Next]_vars => RunInvariant'
<1> SUFFICES ASSUME RunInvariant, [Next]_vars PROVE RunInvariant'
  OBVIOUS
<1> USE DEF RunInvariant
<1>1. CASE ExitUsage
  BY <1>1 DEF ExitUsage
<1>2. CASE ChooseDate
  <2>1. SmallDate(current')
    BY <1>2 DEF ChooseDate, SmallDate, Override
  <2>2. QED
    BY <1>2, <2>1 DEF ChooseDate
<1>3. CASE LoadKey
  BY <1>3 DEF LoadKey
<1>4. CASE ExitKey
  BY <1>4 DEF ExitKey
<1>5. CASE ExitUnsatisfied
  <2>1. PrivateInputs' = PrivateInputs /\ PublicWitness' = PublicWitness
    BY <1>5 DEF ExitUnsatisfied, PrivateInputs, PublicWitness
  <2>2. QED
    BY <1>5, <2>1 DEF ExitUnsatisfied
<1>6. CASE ProveAndPrint
  <2>1. PrivateInputs' = PrivateInputs /\ PublicWitness' = PublicWitness
    BY <1>6 DEF ProveAndPrint, PrivateInputs, PublicWitness
  <2>2. QED
    BY <1>6, <2>1 DEF ProveAndPrint
<1>7. CASE UNCHANGED vars
  <2>1. PrivateInputs' = PrivateInputs /\ PublicWitness' = PublicWitness
    BY <1>7 DEF vars, PrivateInputs, PublicWitness
  <2>2. QED
    BY <1>7, <2>1 DEF vars
<1>8. QED
  BY <1>1, <1>2, <1>3, <1>4, <1>5, <1>6, <1>7 DEF Next

LEMMA RunAlways == Spec => []RunInvariant
BY RunInit, RunStep, PTL DEF Spec

\* The witness is made of field elements.
LEMMA WitnessIsOfField ==
    RunInvariant => PrivateInputs \in BirthDates /\ PublicWitness \in PublicInputs
<1> SUFFICES ASSUME RunInvariant
             PROVE  PrivateInputs \in BirthDates /\ PublicWitness \in PublicInputs
  OBVIOUS
<1>1. /\ Element(flags.birth.year) \in Field
      /\ Element(flags.birth.month) \in Field
      /\ Element(flags.birth.day) \in Field
      /\ Element(flags.minAge) \in Field
      /\ Element(current.year) \in Field
      /\ Element(current.month) \in Field
      /\ Element(current.day) \in Field
  BY ElementOfSmall DEF RunInvariant, SmallDate
<1>2. QED
  BY <1>1 DEF PrivateInputs, PublicWitness, BirthDates, PublicInputs

\* On a day that exists the witness is the day's and the circuit tells the age.
LEMMA WitnessTellsAge ==
    ASSUME RunInvariant, IsRealDate(current)
    PROVE  Satisfied(PrivateInputs, PublicWitness)
             <=> /\ InRange(PrivateInputs)
                 /\ AgeOn(PrivateInputs, current) \in flags.minAge .. flags.minAge + 255
<1>2. /\ current.year \in Below10000
      /\ current.month \in CalendarMonths
      /\ current.day \in CalendarDays
  BY RealDateRanges
<1>3. current \in CivilDate
  <2>1. current \in [year : Int, month : Int, day : Int]
    BY DEF RunInvariant, SmallDate
  <2>2. CivilDate = [year : Below10000, month : CalendarMonths, day : CalendarDays]
    BY DEF CivilDate, Below10000, CalendarMonths, CalendarDays
  <2>3. QED
    BY <1>2, <2>1, <2>2
<1>4. /\ Element(current.year) = current.year
      /\ Element(current.month) = current.month
      /\ Element(current.day) = current.day
  <2>1. IsSmall(current.year) /\ IsSmall(current.month) /\ IsSmall(current.day)
    BY DEF RunInvariant, SmallDate
  <2>2. current.year >= 0 /\ current.month >= 0 /\ current.day >= 0
    BY <1>2, CalendarNumbers
  <2>3. QED
    BY <2>1, <2>2, ElementOfSmall DEF ElementOf
<1>5. flags.minAge \in SmallInts /\ Element(flags.minAge) = ElementOf(flags.minAge)
  BY ElementOfSmall DEF RunInvariant
<1>6. PublicWitness = PublicOfDate(current, ElementOf(flags.minAge))
  BY <1>4, <1>5 DEF PublicWitness, PublicOfDate
<1>7. PrivateInputs \in BirthDates
  BY WitnessIsOfField
<1>8. QED
  BY <1>3, <1>5, <1>6, <1>7, SatisfiedExactly

\* Only a number that is in a bit range is the element in it: a negative one
\* wraps around the field's order to an element far above them all.
LEMMA ElementWraps ==
    ASSUME NEW x, IsSmall(x)
    PROVE  /\ x \in Int /\ Element(x) \in Int
           /\ x >= 0 => Element(x) = x
           /\ x < 0 => Element(x) >= 12000
<1>1. x \in SmallInts /\ Element(x) = ElementOf(x)
  BY ElementOfSmall
<1>2. FieldOrder \in Nat /\ x \in Int /\ x >= -(FieldOrder - 12000)
  BY <1>1, FieldAssumption DEF SmallInts
<1>3. x >= 0 => Element(x) = x
  BY <1>1 DEF ElementOf
<1>4. x < 0 => Element(x) = x + FieldOrder
  BY <1>1, <1>2 DEF ElementOf
<1>5. QED
  BY <1>2, <1>3, <1>4

LEMMA ElementInRange ==
    ASSUME NEW x, IsSmall(x)
    PROVE  /\ Element(x) \in 1 .. 16 <=> x \in 1 .. 16
           /\ Element(x) \in 1 .. 32 <=> x \in 1 .. 32
           /\ Element(x) \in 1900 .. 2155 <=> x \in 1900 .. 2155
<1>1. CASE x >= 0
  BY <1>1, ElementWraps
<1>2. CASE ~(x >= 0)
  BY <1>2, ElementWraps
<1>3. QED
  BY ONLY <1>1, <1>2

LEMMA BirthInTheField ==
    ASSUME RunInvariant
    PROVE  /\ InRange(PrivateInputs) <=> InRange(flags.birth)
           /\ InRange(flags.birth) => PrivateInputs = flags.birth
<1>1. /\ SmallDate(flags.birth) /\ IsSmall(flags.birth.year)
      /\ IsSmall(flags.birth.month) /\ IsSmall(flags.birth.day)
  BY DEF RunInvariant, SmallDate
<1>2. InRange(PrivateInputs) <=> InRange(flags.birth)
  <2>1. /\ Element(flags.birth.month) \in 1 .. 16 <=> flags.birth.month \in 1 .. 16
        /\ Element(flags.birth.day) \in 1 .. 32 <=> flags.birth.day \in 1 .. 32
        /\ Element(flags.birth.year) \in 1900 .. 2155 <=> flags.birth.year \in 1900 .. 2155
    BY <1>1, ElementInRange
  <2>2. QED
    BY <2>1 DEF InRange, PrivateInputs
<1>3. ASSUME InRange(flags.birth)
      PROVE  PrivateInputs = flags.birth
  <2>1. flags.birth.month >= 0 /\ flags.birth.day >= 0 /\ flags.birth.year >= 0
    BY <1>3 DEF InRange
  <2>2. /\ Element(flags.birth.month) = flags.birth.month
        /\ Element(flags.birth.day) = flags.birth.day
        /\ Element(flags.birth.year) = flags.birth.year
    BY <1>1, <2>1, ElementOfSmall DEF ElementOf
  <2>3. QED
    BY <1>1, <2>2 DEF PrivateInputs, SmallDate
<1>4. QED
  BY <1>2, <1>3

-----------------------------------------------------------------------------
\* TypeCorrect: TypeOK of the prover, for all flags and clocks: what it prints
\* are field elements under a key and a text of digits and signs.
THEOREM TypeCorrect == Spec => []TypeOK
<1>1. RunInvariant => TypeOK
  <2> SUFFICES ASSUME RunInvariant PROVE TypeOK
    OBVIOUS
  <2>1. current \in [year : Int, month : Int, day : Int] /\ NumberDate(current)
    BY DEF RunInvariant, SmallDate, NumberDate, IsSmall
  <2>2. CASE pc = "printed"
    <3>1. ProofOf(keyFile, PublicWitness) \in Proofs
      BY <2>2, WitnessIsOfField DEF RunInvariant, ProofOf, Proofs, ProofObjects
    <3>2. SprintfDate(current) \in Seq(Characters)
      BY <2>1, SprintfIsText
    <3>3. QED
      BY <2>1, <2>2, <3>1, <3>2 DEF RunInvariant, TypeOK, Characters
  <2>3. CASE pc # "printed"
    <3>1. output = NoOutput
      BY <2>3 DEF RunInvariant
    <3>2. NoOutput \in [proof : Proofs, date : Seq(0 .. Minus)]
      BY DEF NoOutput, Proofs
    <3>3. QED
      BY <2>1, <3>1, <3>2 DEF RunInvariant, TypeOK
  <2>4. QED
    BY <2>2, <2>3
<1>2. QED
  BY <1>1, RunAlways, PTL

\* PrintedDateCorrect: PrintedDateIsTheProvedOne, for all dates and overrides.
THEOREM PrintedDateCorrect == Spec => []PrintedDateIsTheProvedOne
<1>1. RunInvariant => PrintedDateIsTheProvedOne
  <2> SUFFICES ASSUME RunInvariant, pc = "printed" PROVE PrintedDateIsTheProvedOne
    BY DEF PrintedDateIsTheProvedOne
  <2>1. NumberDate(current)
    BY DEF RunInvariant, SmallDate, NumberDate, IsSmall
  <2>2. output.date = SprintfDate(current)
    BY DEF RunInvariant
  <2>3. QED
    BY <2>1, <2>2, PrintedDateIsRead DEF PrintedDateIsTheProvedOne
<1>2. QED
  BY <1>1, RunAlways, PTL

\* PrintedProofIsOfAge: ProofMeansOldEnough, for all flags: whatever birth date
\* was typed, negative numbers and months no calendar has included.
THEOREM PrintedProofIsOfAge == Spec => []ProofMeansOldEnough
<1>1. RunInvariant => ProofMeansOldEnough
  <2> SUFFICES ASSUME RunInvariant, pc = "printed", IsRealDate(current)
               PROVE  AgeOn(flags.birth, current) >= flags.minAge
    BY DEF ProofMeansOldEnough
  <2>1. /\ InRange(PrivateInputs)
        /\ AgeOn(PrivateInputs, current) \in flags.minAge .. flags.minAge + 255
    BY WitnessTellsAge DEF RunInvariant
  <2>2. PrivateInputs = flags.birth
    BY <2>1, BirthInTheField
  <2>3. flags.minAge \in Int
    BY ElementOfSmall DEF RunInvariant, SmallInts
  <2>4. QED
    BY <2>1, <2>2, <2>3
<1>2. QED
  BY <1>1, RunAlways, PTL

\* AdultsAreNotRefused: OldEnoughIsNotRefused, for all flags: the constraints
\* reject no real date of birth whose age is in the window.
THEOREM AdultsAreNotRefused == Spec => []OldEnoughIsNotRefused
<1>1. RunInvariant => OldEnoughIsNotRefused
  <2> SUFFICES ASSUME RunInvariant, pc = "exitUnsatisfied", IsRealDate(current),
                      IsRealDate(flags.birth), flags.birth.year \in 1900 .. 2155
               PROVE  AgeOn(flags.birth, current) \notin flags.minAge .. flags.minAge + 255
    BY DEF OldEnoughIsNotRefused
  <2>1. flags.birth.month \in Months /\ flags.birth.day \in MonthDays
    BY RealDateRanges, CalendarNumbers
  <2>2. InRange(flags.birth)
    BY <2>1 DEF InRange, Months, MonthDays
  <2>3. ~Satisfied(PrivateInputs, PublicWitness)
    BY DEF RunInvariant
  <2>4. QED
    BY <2>2, <2>3, BirthInTheField, WitnessTellsAge
<1>2. QED
  BY <1>1, RunAlways, PTL

=============================================================================
