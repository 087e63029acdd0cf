-------------------------- MODULE AgeCircuitProofs --------------------------
(***************************************************************************)
(* The circuit computes the reference age: for every birth date a prover   *)
(* can put into the field, every civil date and every reasonable minimum   *)
(* age, it is satisfied exactly by the birth dates in its bit ranges whose *)
(* age lies in a window of 256 years.                                      *)
(***************************************************************************)
EXTENDS AgeCircuit, AgeReference, TLAPS

\* The public inputs the chain builds from a civil date and a minimum age.
PublicOfDate(date, minAge) ==
    [ year   |-> date.year,
      month  |-> date.month,
      day    |-> date.day,
      minAge |-> minAge ]

\* Birth dates as the range checks of Define leave them.
InRange(birth) ==
    /\ birth.month \in 1 .. 16
    /\ birth.day \in 1 .. 32
    /\ birth.year \in 1900 .. 2155

\* Bounded sets of integers the lemmas quantify over.  They have names so that
\* a lemma can be instantiated without expanding them.
Indicators == {0, 1}
MonthDayCodes == 0 .. 1700
Months     == 1 .. 16
MonthDays  == 1 .. 32
Years      == 0 .. 9999
BirthYears == 1900 .. 2155
MinAges    == 0 .. 1000
Ages       == -2200 .. 10000

\* Product of a small month by 100: no reduction modulo the field's order.
LEMMA MonthTimes100 ==
    ASSUME NEW month \in 0 .. 16
    PROVE  FieldMul(month, 100) = month * 100
<1>1. month * 100 \in 0 .. 1600
  OBVIOUS
<1>2. \A x \in Nat : x < FieldOrder => x % FieldOrder = x
  BY FieldAssumption
<1>3. QED
  BY <1>1, <1>2, FieldAssumption DEF FieldMul

\* Month and day codes of in-range dates, as integers.
LEMMA MMDDValue ==
    ASSUME NEW date, date.month \in 0 .. 16, date.day \in 0 .. 32
    PROVE  MMDD(date) = date.month * 100 + date.day
<1>1. FieldMul(date.month, 100) = date.month * 100
  BY MonthTimes100
<1>2. date.month * 100 + date.day < FieldOrder
  BY FieldAssumption
<1>3. QED
  BY <1>1, <1>2 DEF MMDD, FieldAdd

\* The range checks, read off the field subtractions.
LEMMA RangeChecks ==
    ASSUME NEW birth \in BirthDates
    PROVE  BirthInRange(birth) <=> InRange(birth)
BY FieldAssumption
   DEF BirthDates, Field, BirthInRange, InRange, FitsInBits, FieldSub

\* The comparator leaves exactly one indicator, the right one.
LEMMA IndicatorUnique ==
    ASSUME NEW indicator \in Indicators, NEW a \in MonthDayCodes, NEW b \in MonthDayCodes
    PROVE  IsLessAllows(indicator, a, b) <=> indicator = (IF a < b THEN 1 ELSE 0)
BY FieldAssumption DEF IsLessAllows, FitsInBits, FieldSub, Indicators, MonthDayCodes

\* Codes of month and day order as pairs do: a day is less than 100.
LEMMA CodeOrder ==
    ASSUME NEW m \in Months, NEW d \in MonthDays, NEW n \in Months, NEW e \in MonthDays
    PROVE  m * 100 + d < n * 100 + e <=> (m < n \/ (m = n /\ d < e))
<1> USE DEF Months, MonthDays
<1>1. CASE m < n
  BY <1>1
<1>2. CASE m = n
  BY <1>2
<1>3. CASE m > n
  BY <1>3
<1>4. QED
  BY <1>1, <1>2, <1>3

\* Comparing MMDD codes is comparing month and day.
LEMMA MMDDOrder ==
    ASSUME NEW birth \in BirthDates, InRange(birth), NEW date \in CivilDate
    PROVE  /\ MMDD(date) \in MonthDayCodes
           /\ MMDD(birth) \in MonthDayCodes
           /\ MMDD(date) < MMDD(birth) <=> BirthdayStillAhead(birth, date)
<1>1. /\ date.month \in 1 .. 12 /\ date.day \in 1 .. 31
      /\ birth.month \in 1 .. 16 /\ birth.day \in 1 .. 32
  BY DEF CivilDate, InRange
<1>2. MMDD(date) = date.month * 100 + date.day
  <2>1. date.month \in 0 .. 16 /\ date.day \in 0 .. 32
    BY <1>1
  <2>2. QED
    BY <2>1, MMDDValue
<1>3. MMDD(birth) = birth.month * 100 + birth.day
  <2>1. birth.month \in 0 .. 16 /\ birth.day \in 0 .. 32
    BY <1>1
  <2>2. QED
    BY <2>1, MMDDValue
<1>4. MMDD(date) \in MonthDayCodes /\ MMDD(birth) \in MonthDayCodes
  <2>1. date.month * 100 + date.day \in MonthDayCodes
    BY <1>1 DEF MonthDayCodes
  <2>2. birth.month * 100 + birth.day \in MonthDayCodes
    BY <1>1 DEF MonthDayCodes
  <2>3. QED
    BY <1>2, <1>3, <2>1, <2>2
<1>5. date.month * 100 + date.day < birth.month * 100 + birth.day
        <=> BirthdayStillAhead(birth, date)
  <2>1. /\ date.month \in Months /\ date.day \in MonthDays
        /\ birth.month \in Months /\ birth.day \in MonthDays
    BY <1>1 DEF Months, MonthDays
  <2>2. QED
    BY <2>1, CodeOrder DEF BirthdayStillAhead
<1>6. QED
  BY <1>2, <1>3, <1>4, <1>5

\* Together: the comparator tells whether the birthday is still ahead.
LEMMA Comparator ==
    ASSUME NEW birth \in BirthDates, InRange(birth), NEW date \in CivilDate,
           NEW indicator \in Indicators
    PROVE  IsLessAllows(indicator, MMDD(date), MMDD(birth))
             <=> indicator = (IF BirthdayStillAhead(birth, date) THEN 1 ELSE 0)
<1>1. /\ MMDD(date) \in MonthDayCodes
      /\ MMDD(birth) \in MonthDayCodes
      /\ MMDD(date) < MMDD(birth) <=> BirthdayStillAhead(birth, date)
  BY MMDDOrder
<1>2. IsLessAllows(indicator, MMDD(date), MMDD(birth))
        <=> indicator = (IF MMDD(date) < MMDD(birth) THEN 1 ELSE 0)
  BY <1>1, IndicatorUnique
<1>3. QED
  BY <1>1, <1>2

\* Integers far from the field's order on both sides, and the element that
\* stands for each: a negative one is taken modulo the order.
SmallInts == -(FieldOrder - 12000) .. FieldOrder - 12000
ElementOf(x) == IF x >= 0 THEN x ELSE x + FieldOrder

\* Two subtractions in the field give the element of the age, be it negative.
LEMMA AgeElement ==
    ASSUME NEW year \in Years, NEW birthYear \in BirthYears, NEW ahead \in Indicators
    PROVE  /\ year - birthYear - ahead \in Ages
           /\ FieldSub(FieldSub(year, birthYear), ahead)
                = ElementOf(year - birthYear - ahead)
<1>1. year - birthYear - ahead \in Ages
  BY DEF Years, BirthYears, Indicators, Ages
<1>2. FieldSub(FieldSub(year, birthYear), ahead) = ElementOf(year - birthYear - ahead)
  <2> USE DEF Years, BirthYears, Indicators
  <2>1. CASE year >= birthYear
    BY <2>1, FieldAssumption DEF FieldSub, ElementOf
  <2>2. CASE ~(year >= birthYear)
    BY <2>2, FieldAssumption DEF FieldSub, ElementOf
  <2>3. QED
    BY ONLY <2>1, <2>2
<1>3. QED
  BY ONLY <1>1, <1>2

\* The third one and its bit check: a window of 256 above the minimum.
LEMMA WindowOfElements ==
    ASSUME NEW age \in Ages, NEW minAge \in SmallInts
    PROVE  FieldSub(ElementOf(age), ElementOf(minAge)) < 256
             <=> age \in minAge .. minAge + 255
<1> DEFINE gap == FieldSub(ElementOf(age), ElementOf(minAge))
<1>1. /\ FieldOrder \in Int /\ FieldOrder > 20000
      /\ age \in Int /\ -2200 <= age /\ age <= 10000
      /\ minAge \in Int /\ -(FieldOrder - 12000) <= minAge /\ minAge <= FieldOrder - 12000
  BY FieldAssumption DEF Ages, SmallInts
<1>2. CASE age >= minAge /\ age - minAge < 256
  <2>1. gap = age - minAge
    BY <1>1, <1>2 DEF FieldSub, ElementOf
  <2>2. QED
    BY <1>1, <1>2, <2>1
<1>3. CASE age < minAge
  <2>1. gap = age - minAge + FieldOrder
    BY <1>1, <1>3 DEF FieldSub, ElementOf
  <2>2. gap >= 256
    BY <1>1, <2>1
  <2>3. QED
    BY <1>1, <1>3, <2>2, <2>1
<1>4. CASE age >= minAge /\ age - minAge >= 256
  <2>1. gap = age - minAge
    BY <1>1, <1>4 DEF FieldSub, ElementOf
  <2>2. QED
    BY <1>1, <1>4, <2>1
<1>5. QED
  BY <1>1, <1>2, <1>3, <1>4

\* The last bit decomposition is the window check on the age.
LEMMA AgeWindow ==
    ASSUME NEW birth \in BirthDates, InRange(birth),
           NEW date \in CivilDate, NEW minAge \in SmallInts, NEW ahead \in Indicators
    PROVE  OldEnough(birth, PublicOfDate(date, ElementOf(minAge)), ahead)
             <=> date.year - birth.year - ahead \in minAge .. minAge + 255
<1>1. birth.year \in BirthYears /\ date.year \in Years
  BY DEF InRange, CivilDate, BirthYears, Years
<1>2. OldEnough(birth, PublicOfDate(date, ElementOf(minAge)), ahead)
        <=> FieldSub(FieldSub(FieldSub(date.year, birth.year), ahead), ElementOf(minAge)) < 256
  BY DEF OldEnough, PublicOfDate, FitsInBits
<1>3. QED
  BY <1>1, <1>2, AgeElement, WindowOfElements

\* SatisfiedExactly: the constraints of Define, over the field, say the same
\* as the reference age over the integers (age_circuit.go:41-127), also for
\* a minimum age that is negative or larger than any age.  The month and day
\* ranges are wider than the calendar's; the age is right there too.
THEOREM SatisfiedExactly ==
    ASSUME NEW birth \in BirthDates, NEW date \in CivilDate, NEW minAge \in SmallInts
    PROVE  Satisfied(birth, PublicOfDate(date, ElementOf(minAge)))
             <=> InRange(birth) /\ AgeOn(birth, date) \in minAge .. minAge + 255
<1> DEFINE public == PublicOfDate(date, ElementOf(minAge))
           ahead == IF BirthdayStillAhead(birth, date) THEN 1 ELSE 0
<1>1. CASE ~InRange(birth)
  BY <1>1, RangeChecks DEF Satisfied
<1>2. CASE InRange(birth)
  <2>1. MMDD(public) = MMDD(date)
    BY DEF MMDD, PublicOfDate
  <2>2. \A i \in Indicators : IsLessAllows(i, MMDD(public), MMDD(birth)) <=> i = ahead
    BY <1>2, <2>1, Comparator
  <2>3. ahead \in Indicators
    BY DEF Indicators
  <2>4. AgeOn(birth, date) = date.year - birth.year - ahead
    BY DEF AgeOn
  <2> HIDE DEF ahead, public
  <2>5. Satisfied(birth, public) <=> OldEnough(birth, public, ahead)
    BY <1>2, <2>2, <2>3, RangeChecks DEF Satisfied, Indicators
  <2>6. OldEnough(birth, public, ahead)
          <=> date.year - birth.year - ahead \in minAge .. minAge + 255
    BY <1>2, <2>3, AgeWindow DEF public
  <2>7. QED
    BY <1>2, <2>4, <2>5, <2>6 DEF public
<1>3. QED
  BY <1>1, <1>2

\* CircuitCorrect: the same for the minimum ages a verifier asks for.
THEOREM CircuitCorrect ==
    ASSUME NEW birth \in BirthDates, NEW date \in CivilDate, NEW minAge \in MinAges
    PROVE  Satisfied(birth, PublicOfDate(date, minAge))
             <=> InRange(birth) /\ AgeOn(birth, date) \in minAge .. minAge + 255
<1>1. minAge \in SmallInts
  BY FieldAssumption DEF MinAges, SmallInts
<1>2. ElementOf(minAge) = minAge
  BY DEF MinAges, ElementOf
<1>3. QED
  BY <1>1, <1>2, SatisfiedExactly

=============================================================================
