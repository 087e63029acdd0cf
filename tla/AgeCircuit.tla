---------------------------- MODULE AgeCircuit ------------------------------
(***************************************************************************)
(* The arithmetic circuit of zk/circuit/age_circuit.go.  Its variables are *)
(* elements of a prime field, so a difference that would be negative is a  *)
(* huge number; the circuit is satisfied when every bit decomposition it   *)
(* asks for exists.  Satisfied(birth, public) is the relation a Groth16    *)
(* proof attests: some private birth date fits the public inputs.          *)
(*                                                                         *)
(* A private input is a record [year, month, day]; a public input is a     *)
(* record [year, month, day, minAge].                                      *)
(***************************************************************************)
EXTENDS Integers

CONSTANT FieldOrder   \* order of the scalar field (about 2^254 for BN254)

\* Larger than every sum of in-range inputs; nothing else about it matters.
ASSUME FieldAssumption == FieldOrder \in Nat /\ FieldOrder > 20000

Field == 0 .. FieldOrder - 1

BirthDates   == [year : Field, month : Field, day : Field]
PublicInputs == [year : Field, month : Field, day : Field, minAge : Field]

-----------------------------------------------------------------------------
\* The frontend API of gnark: field arithmetic and bit decomposition.
FieldSub(a, b) == IF a >= b THEN a - b ELSE a - b + FieldOrder
FieldAdd(a, b) == IF a + b < FieldOrder THEN a + b ELSE a + b - FieldOrder
FieldMul(a, b) == (a * b) % FieldOrder

\* api.ToBinary(x, n) with bound = 2^n can be satisfied.
FitsInBits(x, bound) == x < bound

\* Slips: the hint is trusted when it says "not less", or ten bits are taken
\* for differences up to 1130.
IsLessTrustingHint(indicator, a, b) ==
    \/ indicator = 1 /\ FitsInBits(FieldSub(FieldSub(b, a), 1), 2048)
    \/ indicator = 0

IsLessTenBits(indicator, a, b) ==
    \/ indicator = 1 /\ FitsInBits(FieldSub(FieldSub(b, a), 1), 1024)
    \/ indicator = 0 /\ FitsInBits(FieldSub(a, b), 1024)

\* std/math/cmp's BoundedComparator.IsLess(a, b) for an upper bound of 1130
\* on |a - b|: the solver is handed an indicator by a hint, the constraints
\* force the side it names to fit in bitlen(1130) = 11 bits.
IsLessAllows(indicator, a, b) ==
    \/ indicator = 1 /\ FitsInBits(FieldSub(FieldSub(b, a), 1), 2048)
    \/ indicator = 0 /\ FitsInBits(FieldSub(a, b), 2048)

-----------------------------------------------------------------------------
\* Step 1 of Define: the approximate range checks on the private inputs.
BirthInRange(birth) ==
    /\ FitsInBits(FieldSub(birth.month, 1), 16)
    /\ FitsInBits(FieldSub(birth.day, 1), 32)
    /\ FitsInBits(FieldSub(birth.year, 1900), 256)

\* Month and day in one comparable number.
MMDD(date) == FieldAdd(FieldMul(date.month, 100), date.day)

\* Steps 2 to 5 of Define, once the comparator's indicator is fixed.
OldEnough(birth, public, birthdayNotPassed) ==
    LET baseAge     == FieldSub(public.year, birth.year)
        adjustedAge == FieldSub(baseAge, birthdayNotPassed)
    IN  FitsInBits(FieldSub(adjustedAge, public.minAge), 256)

\* Define: the solver finds values for every internal variable.
Satisfied(birth, public) ==
    /\ BirthInRange(birth)
    /\ \E birthdayNotPassed \in {0, 1} :
          /\ IsLessAllows(birthdayNotPassed, MMDD(public), MMDD(birth))
          /\ OldEnough(birth, public, birthdayNotPassed)

=============================================================================
