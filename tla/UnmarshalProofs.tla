--------------------------- MODULE UnmarshalProofs --------------------------
(***************************************************************************)
(* Theorems about the decoder, for every width of the words, every largest *)
(* int and every input.                                                    *)
(*                                                                         *)
(* That it stays within its buffer and moves forward follows from          *)
(* DecoderInv, about the variables alone.  That it reads what was written  *)
(* is about the document the bytes are (module WireFormat): for each one   *)
(* the buffer is, or begins, Tracks says at every step which token of it   *)
(* the decoder is at and how much of that token it has read; Follows says  *)
(* so of all of them, and is inductive with DecoderInv.                    *)
(***************************************************************************)
EXTENDS WireFormat, TLAPS, WellFoundedInduction

Ints  == 0 .. MaxInt         \* the values a length or an index can have
Words == 0 .. WordMod - 1    \* uint64

-----------------------------------------------------------------------------
\* A sum of two lengths is right, or negative because it wrapped.
LEMMA SumWraps ==
    ASSUME NEW a \in Ints, NEW b \in Ints
    PROVE  /\ Plus(a, b) \in Int
           /\ Plus(a, b) < 0 \/ (Plus(a, b) = a + b /\ Plus(a, b) \in Ints)
  BY WordAssumption DEF Ints, Plus, ToInt, WordMod

\* A word is an int that is negative or at most MaxInt.
LEMMA IntOfWord ==
    ASSUME NEW w \in Words
    PROVE  ToInt(w) \in Int /\ (ToInt(w) < 0 \/ ToInt(w) \in Ints)
  BY WordAssumption DEF Ints, Words, ToInt, WordMod

\* What a varint loop starts with.
LEMMA FreshLoop == 0 \in Words /\ 128 \in Bytes
  BY WordAssumption DEF Words, WordMod, Bytes

\* What a byte adds to a word.
LEMMA BitsAreInts == \A b \in Bytes, s \in Nat : (b % 128) * 2^s \in Int
  <1> TAKE b \in Bytes, s \in Nat
  <1>1. b % 128 \in Int
    BY DEF Bytes
  <1>2. 2^s \in Int
    OBVIOUS
  <1> QED
    BY <1>1, <1>2

LEMMA SmallInts ==
    /\ 0 \in Ints /\ 4 \in Ints /\ 8 \in Ints
    /\ MaxInt \in Nat
    /\ \A a \in Ints : a \in Nat /\ a >= a
  BY WordAssumption DEF Ints

\* The inductive invariant: where a round stands, relative to its beginning.
Positions ==
    /\ input \in Inputs
    /\ pc \in Loops \union {"next", "done"}
    /\ byte \in Bytes
    /\ word \in Words
    /\ shift \in Nat
    /\ start \in Nat /\ base \in Nat /\ idx \in Nat
    /\ base + idx <= Len(data)

\* Outside a skip the index counts from the buffer's beginning, and it is past
\* the byte the round began with as soon as a tag has been read; in a skip it
\* counts from that byte, and it is positive as soon as a tag has been read.
Advanced ==
    /\ pc \in {"next", "tag", "value", "length"} => base = 0
    /\ pc = "tag" => idx >= start /\ (byte < 128 => idx > start)
    /\ pc \in {"value", "length"} => idx > start
    /\ pc \in SkipLoops => base = start
    /\ pc = "skipTag" /\ byte < 128 => idx > 0
    /\ pc \in {"skipVarint", "skipLength"} => idx > 0

DecoderInv == Positions /\ Advanced

LEMMA InitHolds == Init => DecoderInv
  <1> SUFFICES ASSUME Init PROVE DecoderInv
    OBVIOUS
  <1>1. Len(data) \in Nat
    BY InputsAssumption DEF Init, data
  <1> QED
    BY <1>1, FreshLoop DEF Init, DecoderInv, Positions, Advanced, Loops, SkipLoops

\* A refusal moves nothing.
LEMMA FailKeeps ==
    ASSUME DecoderInv, NEW error, Fail(error)
    PROVE  DecoderInv' /\ pc' = "done"
  BY DEF DecoderInv, Positions, Advanced, Fail, Loops, SkipLoops, data

LEMMA BufferFacts ==
    ASSUME DecoderInv
    PROVE  /\ Len(data) \in Ints
           /\ data \in Seq(Bytes)
           /\ base \in Ints /\ idx \in Ints
           /\ Limit \in Ints /\ Limit = Len(data) - base
  <1>1. data \in Seq(Bytes) /\ Len(data) <= MaxInt
    BY InputsAssumption DEF DecoderInv, Positions, data
  <1>2. Len(data) \in Nat
    BY <1>1
  <1> QED
    BY <1>1, <1>2, WordAssumption DEF DecoderInv, Positions, Ints, Limit

\* A varint loop begins, at a place within the buffer.
LEMMA LoopBegins ==
    ASSUME DecoderInv, NEW loop \in Loops, Reading(loop), input' = input,
           start' \in Nat, base' \in Nat, idx' \in Nat, base' + idx' <= Len(data)
    PROVE  Positions' /\ pc' = loop /\ byte' = 128
  <1>1. data' = data
    BY DEF data
  <1> QED
    BY <1>1, FreshLoop DEF Reading, DecoderInv, Positions

-----------------------------------------------------------------------------
\* DecoderInv is inductive: one lemma for each action, and for what several of them do.
LEMMA NextFieldKeeps == DecoderInv /\ NextField => DecoderInv'
  <1> SUFFICES ASSUME DecoderInv, NextField PROVE DecoderInv'
    OBVIOUS
  <1> QED
    BY FreshLoop DEF NextField, Reading, DecoderInv, Positions, Advanced, Loops, SkipLoops, data

LEMMA ReturnKeeps == DecoderInv /\ Return => DecoderInv' /\ pc' = "done"
  BY FailKeeps DEF Return

LEMMA ReadByteKeeps == DecoderInv /\ ReadByte => DecoderInv' /\ pc' # "next"
  <1> SUFFICES ASSUME DecoderInv, ReadByte PROVE DecoderInv' /\ pc' # "next"
    OBVIOUS
  <1>1. CASE shift >= WordBits \/ idx >= Limit
    BY <1>1, FailKeeps DEF ReadByte
  <1>2. CASE ~(shift >= WordBits) /\ ~(idx >= Limit)
    <2> DEFINE b == data[base + idx + 1]
    <2>1. base + idx + 1 \in 1 .. Len(data)
      BY <1>2, BufferFacts DEF DecoderInv, Positions, Ints
    <2>2. b \in Bytes
      BY <2>1, BufferFacts
    <2>3. /\ word' = (word + (b % 128) * 2^shift) % WordMod
          /\ shift' = shift + 7
          /\ idx' = idx + 1
          /\ byte' = b
          /\ UNCHANGED <<input, msg, pc, start, base, number, depth, err>>
      BY <1>2 DEF ReadByte
    <2>4. word' \in Words
      <3>1. (b % 128) * 2^shift \in Int
        BY <2>2, BitsAreInts DEF DecoderInv, Positions
      <3>2. \A x \in Int : x % WordMod \in Words
        BY WordAssumption DEF Words, WordMod
      <3>3. word \in Int
        BY WordAssumption DEF DecoderInv, Positions, Words, WordMod
      <3> HIDE DEF b
      <3>4. word + (b % 128) * 2^shift \in Int
        BY <3>1, <3>3
      <3> QED
        BY <2>3, <3>2, <3>4
    <2>5. byte' \in Bytes
      BY <2>2, <2>3
    <2> HIDE DEF b
    <2>6. Positions'
      BY <2>1, <2>3, <2>4, <2>5, BufferFacts DEF DecoderInv, Positions, data
    <2>7. Advanced'
      <3>1. idx' = idx + 1 /\ UNCHANGED <<pc, start, base>> /\ idx \in Nat /\ start \in Nat
        BY <2>3 DEF DecoderInv, Positions
      <3>2. byte \in Int /\ byte' \in Int
        BY <2>5 DEF DecoderInv, Positions, Bytes
      <3>3. byte >= 128
        BY DEF ReadByte
      <3> QED
        BY <3>1, <3>2, <3>3 DEF DecoderInv, Advanced, SkipLoops
    <2> QED
      BY <2>3, <2>6, <2>7 DEF DecoderInv, ReadByte, Loops, SkipLoops
  <1> QED
    BY <1>1, <1>2

LEMMA TagReadKeeps == DecoderInv /\ TagRead => DecoderInv' /\ pc' # "next"
  <1> SUFFICES ASSUME DecoderInv, TagRead PROVE DecoderInv' /\ pc' # "next"
    OBVIOUS
  <1> DEFINE n == FieldNumber(word)
  <1>1. CASE \E error : Fail(error)
    BY <1>1, FailKeeps
  <1>2. CASE SkipUnknownField
    <2>1. start <= Len(data)
      BY BufferFacts DEF TagRead, DecoderInv, Positions, Advanced, Ints
    <2>2. /\ Reading("skipTag") /\ base' = start /\ idx' = 0
          /\ start' = start /\ input' = input
      BY <1>2 DEF SkipUnknownField
    <2>3. Positions' /\ pc' = "skipTag" /\ byte' = 128
      <3>1. start \in Nat /\ start + 0 <= Len(data)
        BY <2>1 DEF DecoderInv, Positions
      <3>2. "skipTag" \in Loops
        BY DEF Loops, SkipLoops
      <3> QED
        BY <2>2, <3>1, <3>2, LoopBegins
    <2>4. Advanced'
      <3>1. start \in Nat
        BY DEF DecoderInv, Positions
      <3> QED
        BY <2>2, <2>3, <3>1 DEF Advanced, SkipLoops
    <2> QED
      BY <2>3, <2>4 DEF DecoderInv
  <1>3. CASE ReadKnownField(n)
    <2>1. pc' \in {"value", "length"} /\ byte' = 128 /\ word' = 0 /\ shift' = 0
      BY <1>3 DEF ReadKnownField, Reading
    <2>2. UNCHANGED <<input, start, base, idx>>
      BY <1>3 DEF ReadKnownField
    <2> QED
      BY <2>1, <2>2, FreshLoop DEF TagRead, DecoderInv, Positions, Advanced, Loops, SkipLoops, data
  <1> QED
    BY <1>1, <1>2, <1>3 DEF TagRead

\* The end of a round, within the buffer and behind where it began.
LEMMA EndsField ==
    ASSUME DecoderInv, pc' = "next", base' = 0, idx' \in Nat,
           idx' > start, idx' <= Len(data),
           UNCHANGED <<input, byte, word, shift, start>>
    PROVE  DecoderInv'
  <1>1. data' = data
    BY DEF data
  <1>2. base' + idx' <= Len(data)'
    BY <1>1
  <1>3. Positions'
    BY <1>2 DEF DecoderInv, Positions
  <1>4. Advanced'
    BY DEF Advanced, SkipLoops
  <1> QED
    BY <1>3, <1>4 DEF DecoderInv

LEMMA AssignKeeps ==
    ASSUME DecoderInv, pc \in {"value", "length"}, NEW value, NEW next \in Nat,
           next >= idx, next <= Len(data), Assign(value, next)
    PROVE  DecoderInv' /\ idx' > start
  <1>1. /\ pc' = "next" /\ idx' = next
        /\ UNCHANGED <<input, byte, word, shift, start, base>>
    BY DEF Assign
  <1>2. base = 0 /\ start \in Nat /\ idx \in Nat /\ idx > start
    BY DEF DecoderInv, Positions, Advanced
  <1> QED
    BY <1>1, <1>2, EndsField

LEMMA LengthReadKeeps ==
    DecoderInv /\ LengthRead => DecoderInv' /\ (pc' = "next" => idx' > start)
  <1> SUFFICES ASSUME DecoderInv, LengthRead
               PROVE  DecoderInv' /\ (pc' = "next" => idx' > start)
    OBVIOUS
  <1> DEFINE length == ToInt(word)
             post   == Plus(idx, length)
  <1>1. CASE length < 0 \/ post < 0 \/ post > Len(data)
    BY <1>1, FailKeeps DEF LengthRead
  <1>2. CASE ~(length < 0) /\ ~(post < 0) /\ ~(post > Len(data))
    <2>1. length \in Ints
      BY <1>2, IntOfWord DEF DecoderInv, Positions
    <2>2. post = idx + length
      BY <1>2, <2>1, SumWraps, BufferFacts
    <2>3. post \in Nat /\ post >= idx /\ post <= Len(data)
      BY <1>2, <2>1, <2>2, BufferFacts DEF Ints
    <2>4. Assign(SubSeq(data, idx + 1, post), post) /\ pc = "length"
      BY <1>2 DEF LengthRead
    <2> HIDE DEF post
    <2> QED
      BY <2>3, <2>4, AssignKeeps
  <1> QED
    BY <1>1, <1>2

LEMMA ValueReadKeeps == DecoderInv /\ ValueRead => DecoderInv' /\ idx' > start
  <1> SUFFICES ASSUME DecoderInv, ValueRead PROVE DecoderInv' /\ idx' > start
    OBVIOUS
  <1>1. idx \in Nat /\ idx <= Len(data)
    BY BufferFacts DEF ValueRead, DecoderInv, Positions, Advanced, Ints
  <1> QED
    BY <1>1, AssignKeeps DEF ValueRead, DecoderInv, Positions

-----------------------------------------------------------------------------
\* What a round of a skip makes of the index it arrives at.
LEMMA ItemSkippedKeeps ==
    ASSUME DecoderInv, pc \in SkipLoops, NEW a \in Nat, NEW groups, a > 0,
           NEW next \in Int, next < 0 \/ (next >= a /\ next \in Ints),
           ItemSkipped(next, groups)
    PROVE  DecoderInv' /\ (pc' = "next" => idx' > start)
  <1>1. CASE \E error : Fail(error)
    BY <1>1, FailKeeps
  <1>2. CASE ~(next < 0) /\ SkipReturns(next)
    <2> DEFINE after == Plus(base, next)
    <2>1. next \in Ints
      BY <1>2 DEF Ints
    <2>2. CASE after < 0 \/ after > Len(data)
      BY <1>2, <2>2, FailKeeps DEF SkipReturns
    <2>3. CASE ~(after < 0) /\ ~(after > Len(data))
      <3>1. after = base + next
        BY <2>1, <2>3, SumWraps, BufferFacts
      <3>2. /\ pc' = "next" /\ idx' = after /\ base' = 0
            /\ UNCHANGED <<input, byte, word, shift, start>>
        BY <1>2, <2>3 DEF SkipReturns
      <3>3. base = start
        BY DEF DecoderInv, Advanced
      <3>4. after \in Nat /\ after > start /\ after <= Len(data)
        BY <1>2, <2>1, <2>3, <3>1, <3>3, BufferFacts DEF Ints
      <3> HIDE DEF after
      <3> QED
        BY <3>2, <3>4, EndsField DEF DecoderInv
    <2> QED
      BY <2>2, <2>3
  <1>3. CASE /\ ~(next < 0) /\ ~(next >= Limit)
             /\ Reading("skipTag")
             /\ idx' = next
             /\ UNCHANGED <<input, start, base>>
    <2>1. next \in Nat /\ base + next <= Len(data)
      <3>1. Limit \in Int /\ Limit = Len(data) - base /\ Len(data) \in Int /\ base \in Int
        BY BufferFacts, SmallInts
      <3> QED
        BY <1>3, <3>1
    <2>2. Positions' /\ pc' = "skipTag" /\ byte' = 128
      BY <1>3, <2>1, LoopBegins DEF DecoderInv, Positions, Loops, SkipLoops
    <2>3. base = start
      BY DEF DecoderInv, Advanced
    <2>4. Advanced'
      BY <1>3, <2>1, <2>2, <2>3 DEF Advanced, SkipLoops
    <2> QED
      BY <2>2, <2>4 DEF DecoderInv
  <1> QED
    BY <1>1, <1>2, <1>3 DEF ItemSkipped

LEMMA SkipIntoKeeps ==
    ASSUME DecoderInv, pc = "skipTag", byte < 128, NEW loop \in {"skipVarint", "skipLength"},
           SkipInto(loop)
    PROVE  DecoderInv' /\ pc' # "next"
  <1> QED
    BY FreshLoop DEF SkipInto, Reading, DecoderInv, Positions, Advanced, Loops, SkipLoops, data

LEMMA SkipTagReadKeeps ==
    DecoderInv /\ SkipTagRead => DecoderInv' /\ (pc' = "next" => idx' > start)
  <1> SUFFICES ASSUME DecoderInv, SkipTagRead
               PROVE  DecoderInv' /\ (pc' = "next" => idx' > start)
    OBVIOUS
  <1>1. pc = "skipTag" /\ byte < 128 /\ pc \in SkipLoops /\ idx > 0 /\ idx \in Ints /\ idx \in Nat
    BY BufferFacts, SmallInts DEF SkipTagRead, DecoderInv, Advanced, SkipLoops, Ints
  <1>2. CASE \E error : Fail(error)
    BY <1>2, FailKeeps
  <1>3. CASE SkipInto("skipVarint") \/ SkipInto("skipLength")
    BY <1>1, <1>3, SkipIntoKeeps
  <1>4. CASE \E k \in {4, 8} : ItemSkipped(Plus(idx, k), depth)
    <2>1. PICK k \in {4, 8} : ItemSkipped(Plus(idx, k), depth)
      BY <1>4
    <2> DEFINE next == Plus(idx, k)
    <2>2. k \in Ints /\ k > 0
      BY SmallInts
    <2>3. next \in Int /\ (next < 0 \/ (next = idx + k /\ next \in Ints))
      BY <1>1, <2>2, SumWraps
    <2>4. ItemSkipped(next, depth)
      BY <2>1
    <2> HIDE DEF next
    <2>5. next < 0 \/ (next >= idx /\ next \in Ints)
      <3>1. idx \in Int /\ k \in Int
        BY <1>1, <2>2, SmallInts
      <3> QED
        BY <2>2, <2>3, <3>1
    <2> QED
      BY <1>1, <2>3, <2>4, <2>5, ItemSkippedKeeps
  <1>5. CASE \E groups : ItemSkipped(idx, groups)
    <2>1. idx \in Int /\ idx >= idx /\ idx \in Ints
      BY <1>1, SmallInts
    <2> QED
      BY <1>1, <1>5, <2>1, ItemSkippedKeeps
  <1> QED
    BY <1>2, <1>3, <1>4, <1>5 DEF SkipTagRead

LEMMA SkipVarintReadKeeps ==
    DecoderInv /\ SkipVarintRead => DecoderInv' /\ (pc' = "next" => idx' > start)
  <1> SUFFICES ASSUME DecoderInv, SkipVarintRead
               PROVE  DecoderInv' /\ (pc' = "next" => idx' > start)
    OBVIOUS
  <1>1. /\ pc \in SkipLoops /\ idx > 0 /\ idx \in Ints
        /\ idx \in Nat /\ idx \in Int /\ idx >= idx
    BY BufferFacts, SmallInts DEF SkipVarintRead, DecoderInv, Advanced, SkipLoops, Ints
  <1>2. ItemSkipped(idx, depth)
    BY DEF SkipVarintRead
  <1> QED
    BY <1>1, <1>2, ItemSkippedKeeps

LEMMA SkipLengthReadKeeps ==
    DecoderInv /\ SkipLengthRead => DecoderInv' /\ (pc' = "next" => idx' > start)
  <1> SUFFICES ASSUME DecoderInv, SkipLengthRead
               PROVE  DecoderInv' /\ (pc' = "next" => idx' > start)
    OBVIOUS
  <1>1. pc \in SkipLoops /\ idx > 0 /\ idx \in Ints /\ idx \in Nat
    BY BufferFacts, SmallInts DEF SkipLengthRead, DecoderInv, Advanced, SkipLoops
  <1>2. CASE ToInt(word) < 0
    BY <1>2, FailKeeps DEF SkipLengthRead
  <1>3. CASE ~(ToInt(word) < 0)
    <2> DEFINE next == Plus(idx, ToInt(word))
    <2>1. ToInt(word) \in Ints
      BY <1>3, IntOfWord DEF DecoderInv, Positions
    <2>2. next \in Int /\ (next < 0 \/ (next = idx + ToInt(word) /\ next \in Ints))
      BY <1>1, <2>1, SumWraps
    <2>3. next < 0 \/ (next >= idx /\ next \in Ints)
      BY <1>1, <2>1, <2>2, SmallInts DEF Ints
    <2>4. ItemSkipped(next, depth)
      BY <1>3 DEF SkipLengthRead
    <2> HIDE DEF next
    <2> QED
      BY <1>1, <2>2, <2>3, <2>4, ItemSkippedKeeps
  <1> QED
    BY <1>2, <1>3

-----------------------------------------------------------------------------
LEMMA StepKeeps ==
    DecoderInv /\ [Next]_vars
       => DecoderInv' /\ (pc # "next" /\ pc' = "next" => idx' > start)
  <1> SUFFICES ASSUME DecoderInv, [Next]_vars
               PROVE  DecoderInv' /\ (pc # "next" /\ pc' = "next" => idx' > start)
    OBVIOUS
  <1>1. CASE NextField
    BY <1>1, NextFieldKeeps DEF NextField
  <1>2. CASE Return
    BY <1>2, ReturnKeeps
  <1>3. CASE ReadByte
    BY <1>3, ReadByteKeeps
  <1>4. CASE TagRead
    BY <1>4, TagReadKeeps
  <1>5. CASE LengthRead
    BY <1>5, LengthReadKeeps
  <1>6. CASE ValueRead
    BY <1>6, ValueReadKeeps
  <1>7. CASE SkipTagRead
    BY <1>7, SkipTagReadKeeps
  <1>8. CASE SkipVarintRead
    BY <1>8, SkipVarintReadKeeps
  <1>9. CASE SkipLengthRead
    BY <1>9, SkipLengthReadKeeps
  <1>10. CASE UNCHANGED vars
    BY <1>10 DEF vars, DecoderInv, Positions, Advanced, data
  <1> QED
    BY <1>1, <1>2, <1>3, <1>4, <1>5, <1>6, <1>7, <1>8, <1>9, <1>10 DEF Next

LEMMA SpecDecoderInv == Spec => []DecoderInv
  <1>1. DecoderInv /\ [Next]_vars => DecoderInv'
    BY StepKeeps
  <1> QED
    BY InitHolds, <1>1, PTL DEF Spec

\* No read and no slice of the decoder leaves its buffer, whatever the bytes
\* say, so a malformed message cannot make the node panic.
THEOREM DecoderStaysWithinBuffer == Spec => []WithinBuffer
  <1>1. DecoderInv => WithinBuffer
    BY DEF DecoderInv, Positions, WithinBuffer
  <1> QED
    BY SpecDecoderInv, <1>1, PTL

\* Every round of the decoder consumes at least a byte, so the number of rounds
\* is at most the number of bytes: the safety half of termination.
THEOREM DecoderAdvances == Spec => RoundsAdvance
  <1>1. DecoderInv /\ [Next]_vars => [pc # "next" /\ pc' = "next" => idx' > start]_vars
    BY StepKeeps
  <1> QED
    BY SpecDecoderInv, <1>1, PTL DEF Spec, RoundsAdvance

\* Induction over the natural numbers, for a property given as a set.
LEMMA SetInduction ==
    ASSUME NEW S, 0 \in S, \A n \in Nat : n \in S => n + 1 \in S
    PROVE  Nat \subseteq S
<1> DEFINE T == {n \in Nat : n \notin S}
           R == OpToRel(<, Nat)
<1>1. SUFFICES ASSUME T # {} PROVE FALSE
  OBVIOUS
<1>2. \E x \in T : \A y \in T : ~ (<<y, x>> \in R)
  <2>1. T \subseteq Nat
    OBVIOUS
  <2>2. IsWellFoundedOn(R, Nat)
    BY NatLessThanWellFounded
  <2> HIDE DEF T, R
  <2>3. QED
    BY <1>1, <2>1, <2>2, WFMin
<1>3. \A x, y \in Nat : y < x => <<y, x>> \in R
  BY DEF OpToRel
<1>4. PICK x \in T : \A y \in T : ~ (y < x)
  BY <1>2, <1>3
<1>5. x \in Nat /\ x # 0
  OBVIOUS
<1>6. x - 1 \in Nat /\ x - 1 < x /\ (x - 1) + 1 = x
  BY <1>5
<1>7. x - 1 \in S
  BY <1>4, <1>6
<1>8. QED
  BY <1>6, <1>7

\* A sum over a sequence of numbers exists.
IsSum(f, term, m) ==
    /\ f \in [0 .. m -> Int]
    /\ f[0] = 0 /\ \A n \in 1 .. m : f[n] = f[n - 1] + term[n]

\* A sum that is defined by recursion is one.
LEMMA RunningSum ==
    ASSUME NEW L \in Nat, NEW term \in [1 .. L -> Int]
    PROVE  \E f : IsSum(f, term, L)
<1> DEFINE S == {m \in Nat : m <= L => \E f : IsSum(f, term, m)}
<1>1. 0 \in S
  <2> DEFINE f == [n \in 0 .. 0 |-> 0]
  <2>1. IsSum(f, term, 0)
    BY DEF IsSum
  <2>2. QED
    BY <2>1
<1>2. ASSUME NEW m \in Nat, m \in S
      PROVE  m + 1 \in S
  <2>1. SUFFICES ASSUME m + 1 <= L
                 PROVE \E f : IsSum(f, term, m + 1)
    OBVIOUS
  <2>2. PICK g : IsSum(g, term, m)
    BY <1>2, <2>1
  <2>3. /\ g \in [0 .. m -> Int]
        /\ g[0] = 0 /\ \A n \in 1 .. m : g[n] = g[n - 1] + term[n]
    BY <2>2 DEF IsSum
  <2> DEFINE f == [n \in 0 .. m + 1 |-> IF n = m + 1 THEN g[m] + term[m + 1] ELSE g[n]]
  <2>4. f \in [0 .. m + 1 -> Int]
    <3>1. g[m] + term[m + 1] \in Int
      BY <2>1, <2>3
    <3>2. \A n \in 0 .. m + 1 : n # m + 1 => g[n] \in Int
      BY <2>3
    <3>3. QED
      BY <3>1, <3>2
  <2>5. f[0] = 0
    BY <2>3
  <2>6. ASSUME NEW n \in 1 .. m + 1 PROVE f[n] = f[n - 1] + term[n]
    <3>1. CASE n = m + 1
      BY <3>1
    <3>2. CASE n # m + 1
      BY <2>3, <3>2
    <3>3. QED
      BY <3>1, <3>2
  <2> HIDE DEF f
  <2>7. IsSum(f, term, m + 1)
    BY <2>4, <2>5, <2>6 DEF IsSum
  <2>8. QED
    BY <2>7
<1>3. L \in S
  <2> HIDE DEF S
  <2>1. QED
    BY <1>1, <1>2, SetInduction
<1>4. QED
  BY <1>3

\* The sums that a varint's value is the last of.
LEMMA GroupSumsStep ==
    ASSUME NEW bytes \in Seq(Bytes)
    PROVE  /\ GroupSums(bytes) \in [0 .. Len(bytes) -> Int]
           /\ GroupSums(bytes)[0] = 0
           /\ \A n \in 1 .. Len(bytes) :
                 GroupSums(bytes)[n] = GroupSums(bytes)[n - 1] + (bytes[n] % 128) * 2^(7 * (n - 1))
<1> DEFINE L == Len(bytes)
           term == [n \in 1 .. L |-> (bytes[n] % 128) * 2^(7 * (n - 1))]
           Body(g) == [n \in 0 .. L |-> IF n = 0 THEN 0
                                        ELSE g[n - 1] + (bytes[n] % 128) * 2^(7 * (n - 1))]
<1>1. L \in Nat
  OBVIOUS
<1>2. term \in [1 .. L -> Int]
  <2>1. ASSUME NEW n \in 1 .. L PROVE (bytes[n] % 128) * 2^(7 * (n - 1)) \in Int
    <3>1. bytes[n] % 128 \in Int
      <4>1. bytes[n] \in Bytes
        OBVIOUS
      <4>2. \A b \in Bytes : b % 128 \in Int
        BY DEF Bytes
      <4>3. QED
        BY <4>1, <4>2
    <3>2. 7 * (n - 1) \in Nat
      OBVIOUS
    <3>3. 2^(7 * (n - 1)) \in Int
      BY <3>2
    <3>4. QED
      BY <3>1, <3>3
  <2>2. QED
    BY <2>1
<1>3. \A n \in 1 .. L : term[n] = (bytes[n] % 128) * 2^(7 * (n - 1))
  OBVIOUS
<1>4. PICK f : IsSum(f, term, L)
  <2> HIDE DEF term, L
  <2>1. QED
    BY <1>1, <1>2, RunningSum
<1>5. /\ f \in [0 .. L -> Int]
      /\ f[0] = 0 /\ \A n \in 1 .. L : f[n] = f[n - 1] + (bytes[n] % 128) * 2^(7 * (n - 1))
  <2> HIDE DEF term, L
  <2>1. QED
    BY <1>3, <1>4 DEF IsSum
<1>6. f = Body(f)
  <2> HIDE DEF term
  <2>1. \A n \in 0 .. L : f[n] = IF n = 0 THEN 0
                                 ELSE f[n - 1] + (bytes[n] % 128) * 2^(7 * (n - 1))
    BY <1>5
  <2>2. QED
    BY <1>5, <2>1
<1>7. GroupSums(bytes) = CHOOSE g : g = Body(g)
  BY Zenon DEF GroupSums
<1> HIDE DEF term
<1>8. GroupSums(bytes) = Body(GroupSums(bytes))
  <2> HIDE DEF Body
  <2>1. QED
    BY <1>6, <1>7, Zenon
<1> DEFINE G == GroupSums(bytes)
<1>9. \A n \in 0 .. L : G[n] = IF n = 0 THEN 0
                               ELSE G[n - 1] + (bytes[n] % 128) * 2^(7 * (n - 1))
  <2> HIDE DEF G, L
  <2>1. G = Body(G)
    BY <1>8 DEF G
  <2>2. QED
    BY <2>1
<1>10. DOMAIN G = 0 .. L /\ G = [n \in 0 .. L |-> G[n]]
  <2> HIDE DEF G, L
  <2>1. G = Body(G)
    BY <1>8 DEF G
  <2>2. QED
    BY <2>1
<1> HIDE DEF G, L
<1>11. \A n \in 0 .. L : G[n] \in Int
  <2> DEFINE S == {m \in Nat : m <= L => G[m] \in Int}
  <2>1. 0 \in S
    BY <1>1, <1>9
  <2>2. ASSUME NEW m \in Nat, m \in S PROVE m + 1 \in S
    <3>1. SUFFICES ASSUME m + 1 <= L PROVE G[m + 1] \in Int
      OBVIOUS
    <3>2. m + 1 \in 0 .. L /\ m + 1 # 0 /\ m + 1 \in 1 .. L /\ (m + 1) - 1 = m
      BY <1>1, <3>1
    <3>3. G[m + 1] = G[m] + (bytes[m + 1] % 128) * 2^(7 * m)
      BY <1>9, <3>2
    <3>4. (bytes[m + 1] % 128) * 2^(7 * m) \in Int
      BY <1>2, <1>3, <3>2
    <3>5. G[m] \in Int
      BY <2>2, <3>1, <1>1
    <3>6. QED
      BY ONLY <3>3, <3>4, <3>5
  <2> HIDE DEF S
  <2>3. Nat \subseteq S
    BY <2>1, <2>2, SetInduction
  <2>4. QED
    BY <1>1, <2>3 DEF S
<1>12. G \in [0 .. L -> Int]
  BY <1>10, <1>11
<1>13. G[0] = 0
  BY <1>1, <1>9
<1>14. \A n \in 1 .. L : G[n] = G[n - 1] + (bytes[n] % 128) * 2^(7 * (n - 1))
  <2>1. \A n \in 1 .. L : n \in 0 .. L /\ n # 0
    BY <1>1
  <2>2. QED
    BY <1>9, <2>1
<1>15. QED
  BY <1>12, <1>13, <1>14 DEF G, L

\* A remainder is the only number of its range.
LEMMA RemainderIsUnique ==
    ASSUME NEW M \in Nat, M > 0, NEW q \in Int, NEW r \in 0 .. M - 1
    PROVE  (M * q + r) % M = r
  OBVIOUS

\* A sum of remainders has the remainder of the sum.
LEMMA RemainderOfSum ==
    ASSUME NEW M \in Nat, M > 0, NEW x \in Int, NEW y \in Int
    PROVE  ((x % M) + y) % M = (x + y) % M
<1> DEFINE r == x % M
           q == x \div M
           s == (r + y) % M
           p == (r + y) \div M
<1>1. r \in Int /\ q \in Int /\ x = M * q + r
  OBVIOUS
<1> HIDE DEF r, q
<1>2. s \in 0 .. M - 1 /\ p \in Int /\ r + y = M * p + s
  BY <1>1
<1> HIDE DEF s, p
<1>3. x + y = M * q + (M * p + s)
  BY <1>1, <1>2
<1>4. M * q + M * p = M * (q + p)
  BY <1>1, <1>2
<1>5. x + y = M * (q + p) + s
  <2>1. M * q \in Int /\ M * p \in Int /\ M * (q + p) \in Int /\ s \in Int
    BY <1>1, <1>2
  <2>2. QED
    BY ONLY <1>3, <1>4, <2>1
<1>6. (M * (q + p) + s) % M = s
  BY <1>1, <1>2, RemainderIsUnique
<1>7. QED
  BY <1>5, <1>6 DEF s, r

\* A word holds every int.
LEMMA WordModPositive == WordMod \in Nat /\ WordMod > 0 /\ WordMod > MaxInt /\ MaxInt \in Nat
  BY WordAssumption DEF WordMod

-----------------------------------------------------------------------------
\* part stands in the buffer from the byte behind its first n ones, as far as the
\* buffer goes.
Stands(part, n) == \A k \in 1 .. Len(part) : n + k <= Len(data) => data[n + k] = part[k]

\* A varint loop has read the first k bytes of a varint that begins behind from.
HasRead(bytes, from, k) ==
    /\ base + idx = from + k
    /\ shift = 7 * k
    /\ word = GroupSums(bytes)[k] % WordMod
    /\ byte = IF k = 0 THEN 128 ELSE bytes[k]
ReadingVarint(bytes, from) == \E k \in 0 .. Len(bytes) : HasRead(bytes, from, k)

\* The sequence that a varint is.
LEMMA VarintFacts ==
    ASSUME NEW bytes, IsVarint(bytes)
    PROVE  /\ bytes \in Seq(Bytes) /\ Len(bytes) \in Nat /\ Len(bytes) > 0
           /\ 7 * (Len(bytes) - 1) < WordBits
           /\ \A n \in 1 .. Len(bytes) : bytes[n] \in Bytes /\ (bytes[n] < 128 <=> n = Len(bytes))
  BY DEF IsVarint

\* A loop begins.
LEMMA VarintBegins ==
    ASSUME NEW bytes, IsVarint(bytes), NEW from \in Nat,
           byte' = 128, word' = 0, shift' = 0, (base + idx)' = from
    PROVE  ReadingVarint(bytes, from)'
<1>1. 0 \in 0 .. Len(bytes)
  BY VarintFacts
<1>2. GroupSums(bytes)[0] = 0
  BY VarintFacts, GroupSumsStep
<1>3. 0 % WordMod = 0
  BY ONLY WordModPositive
<1>4. HasRead(bytes, from, 0)'
  BY <1>2, <1>3 DEF HasRead
<1>5. QED
  BY <1>1, <1>4 DEF ReadingVarint

\* A loop that has read a byte below 128 has read its varint.
LEMMA VarintEnds ==
    ASSUME NEW bytes, IsVarint(bytes), NEW from, ReadingVarint(bytes, from), byte < 128
    PROVE  base + idx = from + Len(bytes) /\ word = VarintValue(bytes)
<1>1. PICK k \in 0 .. Len(bytes) : HasRead(bytes, from, k)
  BY DEF ReadingVarint
<1>2. k # 0
  BY <1>1 DEF HasRead
<1>3. k \in 1 .. Len(bytes)
  BY <1>2, VarintFacts
<1>4. bytes[k] < 128
  BY <1>1, <1>2 DEF HasRead
<1>5. k = Len(bytes)
  BY <1>3, <1>4, VarintFacts
<1>6. QED
  BY <1>1, <1>5 DEF HasRead, VarintValue

\* Another round reads the varint's next byte, or finds the buffer at its end.
LEMMA VarintGoesOn ==
    ASSUME DecoderInv, NEW bytes, IsVarint(bytes), NEW from \in Nat, Stands(bytes, from),
           ReadingVarint(bytes, from), ReadByte
    PROVE  \/ /\ Len(data) < from + Len(bytes)
              /\ \E error : error # "nil" /\ Fail(error)
           \/ /\ ReadingVarint(bytes, from)'
              /\ UNCHANGED <<input, msg, pc, start, base, number, depth, err>>
<1>1. PICK k \in 0 .. Len(bytes) : HasRead(bytes, from, k)
  BY DEF ReadingVarint
<1>2. k \in Nat /\ k + 1 \in 1 .. Len(bytes) /\ Len(bytes) \in Nat /\ k <= Len(bytes) - 1
  <2>1. k \in 0 .. Len(bytes) /\ byte >= 128 /\ byte = IF k = 0 THEN 128 ELSE bytes[k]
    BY <1>1 DEF HasRead, ReadByte
  <2>2. k # Len(bytes)
    BY <2>1, VarintFacts DEF Bytes
  <2>3. QED
    BY <2>1, <2>2, VarintFacts
<1>3. base + idx = from + k /\ shift = 7 * k /\ word = GroupSums(bytes)[k] % WordMod
  BY <1>1 DEF HasRead
<1>4. ~(shift >= WordBits)
  <2>1. Len(bytes) \in Nat /\ 7 * (Len(bytes) - 1) < WordBits
    BY VarintFacts
  <2>2. WordBits \in Nat
    BY WordAssumption
  <2>3. QED
    BY ONLY <1>2, <1>3, <2>1, <2>2
<1>5. base \in Nat /\ idx \in Nat /\ Len(data) \in Nat /\ Limit = Len(data) - base
  BY BufferFacts DEF Ints, DecoderInv, Positions
<1>6. CASE idx >= Limit
  <2>1. Fail("UnexpectedEOF")
    BY <1>4, <1>6 DEF ReadByte
  <2>2. Len(data) < from + Len(bytes)
    BY ONLY <1>2, <1>3, <1>5, <1>6, from \in Nat
  <2>3. QED
    BY <2>1, <2>2
<1>7. CASE ~(idx >= Limit)
  <2> DEFINE b == data[base + idx + 1]
  <2>1. /\ word' = (word + (b % 128) * 2^shift) % WordMod
        /\ shift' = shift + 7
        /\ idx' = idx + 1
        /\ byte' = b
        /\ UNCHANGED <<input, msg, pc, start, base, number, depth, err>>
    BY <1>4, <1>7 DEF ReadByte
  <2>2. from + (k + 1) <= Len(data) /\ base + idx + 1 = from + (k + 1)
    BY ONLY <1>2, <1>3, <1>5, <1>7, from \in Nat
  <2>3. b = bytes[k + 1] /\ bytes[k + 1] \in Bytes
    BY <1>2, <2>2, VarintFacts DEF Stands
  <2> HIDE DEF b
  <2> DEFINE G == GroupSums(bytes)
             y == (bytes[k + 1] % 128) * 2^(7 * k)
  <2>4. G[k + 1] = G[k] + y /\ G[k] \in Int
    <3>1. bytes \in Seq(Bytes)
      BY VarintFacts
    <3>2. (k + 1) - 1 = k /\ k \in 0 .. Len(bytes)
      BY <1>2
    <3>3. QED
      BY <1>2, <3>1, <3>2, GroupSumsStep, ZenonT(30)
  <2>5. y \in Int
    <3>1. 7 * k \in Nat
      BY ONLY <1>2
    <3>2. QED
      BY <2>3, <3>1, BitsAreInts
  <2> HIDE DEF G, y
  <2>6. word' = G[k + 1] % WordMod
    <3>1. word' = ((G[k] % WordMod) + y) % WordMod
      BY ONLY <2>1, <2>3, <1>3 DEF y, G
    <3>2. ((G[k] % WordMod) + y) % WordMod = (G[k] + y) % WordMod
      BY ONLY <2>4, <2>5, WordModPositive, RemainderOfSum
    <3>3. QED
      BY ONLY <3>1, <3>2, <2>4
  <2>7. HasRead(bytes, from, k + 1)'
    <3>1. base' + idx' = from + (k + 1) /\ shift' = 7 * (k + 1) /\ k + 1 # 0
      BY ONLY <1>2, <1>3, <1>5, <2>1, <2>2
    <3>2. QED
      BY <2>1, <2>3, <2>6, <3>1 DEF HasRead, G
  <2>8. k + 1 \in 0 .. Len(bytes)
    BY ONLY <1>2
  <2>9. ReadingVarint(bytes, from)'
    BY <2>7, <2>8 DEF ReadingVarint
  <2>10. QED
    BY <2>1, <2>9
<1>8. QED
  BY <1>6, <1>7

\* The three parts of a token, one behind the other.
LEMMA HoldsParts ==
    ASSUME NEW bytes, NEW n \in Nat,
           NEW a \in Seq(Bytes), NEW b \in Seq(Bytes), NEW c \in Seq(Bytes),
           Holds(bytes, n, a \o b \o c)
    PROVE  /\ Holds(bytes, n, a)
           /\ Holds(bytes, n + Len(a), b)
           /\ Holds(bytes, n + Len(a) + Len(b), c)
<1> DEFINE L == Len(a)
           M == Len(b)
           P == Len(c)
           s == a \o b \o c
<1>1. L \in Nat /\ M \in Nat /\ P \in Nat /\ Len(s) = L + M + P
  OBVIOUS
<1>2. \A k \in 1 .. L : s[k] = a[k]
  OBVIOUS
<1>3. \A k \in 1 .. M : s[L + k] = b[k]
  OBVIOUS
<1>4. \A k \in 1 .. P : s[L + M + k] = c[k]
  <2>1. (a \o b) \in Seq(Bytes) /\ Len(a \o b) = L + M
    OBVIOUS
  <2>2. QED
    BY <2>1
<1>5. \A k \in 1 .. L + M + P : bytes[n + k] = s[k]
  BY <1>1 DEF Holds
<1> HIDE DEF s
<1>6. ASSUME NEW k \in 1 .. L PROVE bytes[n + k] = a[k]
  <2> HIDE DEF L, M, P
  <2>1. k \in 1 .. L + M + P
    BY <1>1
  <2>2. QED
    BY <1>2, <1>5, <2>1
<1>7. ASSUME NEW k \in 1 .. M PROVE bytes[n + L + k] = b[k]
  <2> HIDE DEF L, M, P
  <2>1. L + k \in 1 .. L + M + P /\ n + (L + k) = n + L + k
    BY <1>1
  <2>2. QED
    BY <1>3, <1>5, <2>1
<1>8. ASSUME NEW k \in 1 .. P PROVE bytes[n + L + M + k] = c[k]
  <2> HIDE DEF L, M, P
  <2>1. L + M + k \in 1 .. L + M + P /\ n + (L + M + k) = n + L + M + k
    BY <1>1
  <2>2. QED
    BY <1>4, <1>5, <2>1
<1>9. QED
  BY <1>6, <1>7, <1>8 DEF Holds

-----------------------------------------------------------------------------
\* Where a token of a document stands.
LEMMA TokenStands ==
    ASSUME NEW type, NEW doc, IsDocument(type, doc), NEW i \in 1 .. Len(doc.tokens)
    PROVE  LET token == doc.tokens[i]
               at    == doc.at[i]
               T     == Len(token.tag)
               P     == Len(token.prefix)
               B     == Len(token.body)
           IN  /\ token.tag \in Seq(Bytes) /\ T \in Nat /\ T > 0
               /\ token.prefix \in Seq(Bytes) /\ P \in Nat
               /\ token.body \in Seq(Bytes) /\ B \in Nat
               /\ at \in Nat /\ doc.at[i + 1] = at + T + P + B
               /\ doc.at[i + 1] \in Nat /\ at < doc.at[i + 1]
               /\ doc.at[i + 1] <= Len(doc.bytes)
               /\ Holds(doc.bytes, at, token.tag)
               /\ Holds(doc.bytes, at + T, token.prefix)
               /\ Holds(doc.bytes, at + T + P, token.body)
<1> DEFINE N     == Len(doc.tokens)
           L     == Len(doc.bytes)
           token == doc.tokens[i]
           at    == doc.at[i]
           T     == Len(token.tag)
           P     == Len(token.prefix)
           B     == Len(token.body)
<1>1. i \in Int /\ i + 1 \in 1 .. N + 1 /\ i \in 1 .. N + 1
  <2>1. N \in Nat /\ i \in 1 .. N
    BY DEF IsDocument
  <2> HIDE DEF N
  <2>2. QED
    BY <2>1
<1>2. doc.bytes \in Seq(Bytes)
  BY DEF IsDocument
<1>3. L \in Nat
  BY <1>2
<1>4. at \in 0 .. L /\ doc.at[i + 1] \in 0 .. L
  <2>1. doc.at \in [1 .. N + 1 -> 0 .. L]
    BY DEF IsDocument
  <2> HIDE DEF N, L
  <2>2. QED
    BY <1>1, <2>1
<1>5. IsToken(token) /\ doc.at[i + 1] = at + Extent(token)
      /\ Holds(doc.bytes, at, token.tag \o token.prefix \o token.body)
  BY DEF IsDocument
<1>6. IsVarint(token.tag) /\ token.prefix \in Seq(Bytes) /\ token.body \in Seq(Bytes)
  BY <1>5 DEF IsToken
<1>7. token.tag \in Seq(Bytes) /\ T \in Nat /\ T > 0
  BY <1>6, VarintFacts
<1>8. P \in Nat /\ B \in Nat
  BY <1>6
<1>9. doc.at[i + 1] = at + T + P + B
  <2>1. Extent(token) = (T + P) + B
    BY DEF Extent, LenTagged
  <2> HIDE DEF T, P, B, L
  <2>2. QED
    BY <1>3, <1>4, <1>5, <1>7, <1>8, <2>1
<1>10. at \in Nat /\ doc.at[i + 1] \in Nat /\ doc.at[i + 1] <= L
  BY ONLY <1>3, <1>4
<1>11. /\ Holds(doc.bytes, at, token.tag)
       /\ Holds(doc.bytes, at + T, token.prefix)
       /\ Holds(doc.bytes, at + T + P, token.body)
  BY ONLY <1>5, <1>6, <1>7, <1>10, HoldsParts
<1>12. at < doc.at[i + 1]
  <2> HIDE DEF T, P, B, at
  <2>1. QED
    BY ONLY <1>7, <1>8, <1>9, <1>10
<1>13. QED
  BY <1>6, <1>7, <1>8, <1>9, <1>10, <1>11, <1>12

(***************************************************************************)
(* Reading a document.                                                     *)
(***************************************************************************)
\* The buffer is the document, or the beginning of it.
Reads(doc) ==
    /\ IsDocument(input.type, doc)
    /\ Len(data) <= Len(doc.bytes)
    /\ \A n \in 1 .. Len(data) : data[n] = doc.bytes[n]

\* The decoder is before, or in, the part of the message that token i is of, and has
\* made of the tokens before it what they mean.
BeforeToken(doc, i) ==
    /\ pc = "next" /\ base = 0
    /\ idx = doc.at[i] /\ doc.depth[i] = 0
    /\ msg = doc.msgs[i]

InTag(doc, i) ==
    /\ pc = "tag" /\ base = 0
    /\ start = doc.at[i] /\ doc.depth[i] = 0
    /\ ReadingVarint(doc.tokens[i].tag, doc.at[i])

InField(doc, i) ==
    LET token == doc.tokens[i]
    IN  /\ IsKnown(input.type, token) /\ number = Number(token)
        /\ pc = IF CaseOf(input.type, token).wire = Varint THEN "value" ELSE "length"
        /\ base = 0 /\ doc.depth[i] = 0
        /\ ReadingVarint(token.prefix, doc.at[i] + Len(token.tag))

InSkip(doc, i) ==
    LET token == doc.tokens[i]
        wire  == WireType(TagOf(token))
    IN  /\ depth = doc.depth[i]
        /\ depth > 0 \/ ~IsKnown(input.type, token)
        /\ \/ pc = "skipTag" /\ ReadingVarint(token.tag, doc.at[i])
           \/ pc = "skipVarint" /\ wire = Varint
              /\ ReadingVarint(token.prefix, doc.at[i] + Len(token.tag))
           \/ pc = "skipLength" /\ wire = Delimited
              /\ ReadingVarint(token.prefix, doc.at[i] + Len(token.tag))

InToken(doc, i) == msg = doc.msgs[i] /\ (InTag(doc, i) \/ InField(doc, i) \/ InSkip(doc, i))

\* The call has returned: nil at the end of a field, an error if bytes are missing.
Returned(doc) ==
    /\ pc = "done"
    /\ err = "nil" => \E i \in 1 .. Len(doc.tokens) + 1 :
                          doc.depth[i] = 0 /\ doc.at[i] = Len(data) /\ msg = doc.msgs[i]
    /\ err # "nil" => Len(data) < Len(doc.bytes)

Tracks(doc) ==
    \/ \E i \in 1 .. Len(doc.tokens) + 1 : BeforeToken(doc, i)
    \/ \E i \in 1 .. Len(doc.tokens) : InToken(doc, i)
    \/ Returned(doc)

-----------------------------------------------------------------------------
\* Parts of the document are where the buffer has not ended.
LEMMA StandsWhereHeld ==
    ASSUME NEW doc, Reads(doc), NEW part \in Seq(Bytes), NEW n \in Nat,
           Holds(doc.bytes, n, part)
    PROVE  Stands(part, n)
<1>1. SUFFICES ASSUME NEW k \in 1 .. Len(part), n + k <= Len(data)
               PROVE  data[n + k] = part[k]
  BY DEF Stands
<1>2. Len(part) \in Nat
  OBVIOUS
<1>3. n + k \in 1 .. Len(data)
  BY <1>1, <1>2
<1>4. QED
  BY <1>3 DEF Reads, Holds

\* An error is returned where bytes are missing.
LEMMA Refused ==
    ASSUME NEW doc, NEW error, error # "nil", Fail(error), Len(data) < Len(doc.bytes)
    PROVE  Tracks(doc)'
  BY DEF Fail, Tracks, Returned, data

\* Positions within a document are sums that do not wrap.
LEMMA PlusIsExact ==
    ASSUME NEW a \in Nat, NEW b \in Nat, a + b <= MaxInt
    PROVE  Plus(a, b) = a + b
  BY WordAssumption DEF Plus, ToInt

\* The shape of the buffer while it is read.
LEMMA ReadFacts ==
    ASSUME DecoderInv, NEW doc, Reads(doc)
    PROVE  /\ Len(data) \in Nat /\ Len(doc.bytes) \in Nat /\ Len(doc.bytes) <= MaxInt
           /\ Len(data) <= Len(doc.bytes) /\ MaxInt \in Nat
           /\ base \in Nat /\ idx \in Nat /\ start \in Nat /\ Limit = Len(data) - base
           /\ Len(doc.tokens) \in Nat
  <1>1. Len(data) \in Nat /\ Limit = Len(data) - base /\ MaxInt \in Nat
    BY BufferFacts, SmallInts DEF Ints
  <1>2. doc.bytes \in Seq(Bytes) /\ Len(doc.bytes) <= MaxInt /\ Len(doc.tokens) \in Nat
    BY DEF Reads, IsDocument
  <1>3. Len(doc.bytes) \in Nat
    BY <1>2
  <1>4. QED
    BY <1>1, <1>2, <1>3 DEF Reads, DecoderInv, Positions

\* The groups open behind a token, and the message.
LEMMA TokenChanges ==
    ASSUME NEW type, NEW doc, IsDocument(type, doc), NEW i \in 1 .. Len(doc.tokens)
    PROVE  /\ IsToken(doc.tokens[i])
           /\ i + 1 \in 1 .. Len(doc.tokens) + 1
           /\ i + 1 = Len(doc.tokens) + 1 \/ i + 1 \in 1 .. Len(doc.tokens)
           /\ doc.depth[i] \in Nat /\ doc.depth[i + 1] \in Nat
           /\ doc.depth[i + 1] = DepthAfter(doc.tokens[i], doc.depth[i])
           /\ doc.depth[i] = 0 => IsField(type, doc.tokens[i])
           /\ doc.msgs[i + 1] = Updated(type, doc.msgs[i], doc.depth[i], doc.tokens[i])
           /\ doc.depth[Len(doc.tokens) + 1] = 0
<1> DEFINE N == Len(doc.tokens)
<1>1. N \in Nat /\ i \in 1 .. N
  BY DEF IsDocument
<1>2. doc.depth \in [1 .. N + 1 -> Nat]
  BY DEF IsDocument
<1>3. i + 1 \in 1 .. N + 1 /\ i \in 1 .. N + 1 /\ (i + 1 = N + 1 \/ i + 1 \in 1 .. N)
  <2> HIDE DEF N
  <2>1. QED
    BY <1>1
<1>4. doc.depth[i] \in Nat /\ doc.depth[i + 1] \in Nat
  <2> HIDE DEF N
  <2>1. QED
    BY <1>2, <1>3
<1>5. QED
  BY <1>3, <1>4 DEF IsDocument

-----------------------------------------------------------------------------
\* The end of a token that is skipped.
LEMMA SkippedTracks ==
    ASSUME DecoderInv, NEW doc, Reads(doc), NEW i \in 1 .. Len(doc.tokens),
           pc \in SkipLoops, msg = doc.msgs[i],
           doc.depth[i] > 0 \/ ~IsKnown(input.type, doc.tokens[i]),
           NEW next \in Nat, base + next = doc.at[i + 1],
           NEW groups, groups = doc.depth[i + 1],
           ItemSkipped(next, groups)
    PROVE  Tracks(doc)'
<1> DEFINE N == Len(doc.tokens)
<1>1. IsDocument(input.type, doc)
  BY DEF Reads
<1>2. doc.at[i + 1] \in Nat /\ doc.at[i + 1] <= Len(doc.bytes)
  BY <1>1, TokenStands, ReadFacts
<1>3. /\ i + 1 \in 1 .. N + 1
      /\ groups \in Nat /\ doc.depth[i] \in Nat
      /\ groups # 0 => i + 1 \in 1 .. N
  BY <1>1, TokenChanges
<1>4. doc.msgs[i + 1] = msg
  <2>1. doc.msgs[i + 1] = Updated(input.type, doc.msgs[i], doc.depth[i], doc.tokens[i])
    BY <1>1, TokenChanges
  <2>2. ~(doc.depth[i] = 0 /\ IsKnown(input.type, doc.tokens[i]))
    BY <1>3
  <2>3. QED
    BY <2>1, <2>2, Zenon DEF Updated
<1>5. ~(next < 0)
  OBVIOUS
<1>6. CASE groups = 0
  <2>1. SkipReturns(next)
    BY <1>5, <1>6 DEF ItemSkipped
  <2>2. Plus(base, next) = doc.at[i + 1]
    <3>1. base \in Nat /\ base + next <= MaxInt
      BY <1>2, ReadFacts
    <3>2. QED
      BY <3>1, PlusIsExact
  <2>3. CASE doc.at[i + 1] > Len(data)
    <3>1. Fail("UnexpectedEOF")
      BY <1>2, <2>1, <2>2, <2>3 DEF SkipReturns
    <3>2. Len(data) < Len(doc.bytes)
      BY <1>2, <2>3, ReadFacts, SMTT(30)
    <3>3. QED
      BY <3>1, <3>2, Refused
  <2>4. CASE ~(doc.at[i + 1] > Len(data))
    <3>1. /\ pc' = "next" /\ idx' = doc.at[i + 1] /\ base' = 0
          /\ UNCHANGED msg
      BY <1>2, <2>1, <2>2, <2>4 DEF SkipReturns
    <3>2. BeforeToken(doc, i + 1)'
      BY <1>4, <1>6, <3>1 DEF BeforeToken
    <3>3. QED
      BY <1>3, <3>2 DEF Tracks
  <2>5. QED
    BY <2>3, <2>4
<1>7. CASE groups # 0
  <2>1. i + 1 \in 1 .. N
    BY <1>3, <1>7
  <2>2. CASE next >= Limit
    <3>1. Fail("UnexpectedEOF")
      BY <1>5, <1>7, <2>2 DEF ItemSkipped
    <3>2. doc.at[i + 1] < Len(doc.bytes)
      <4>1. doc.at[i + 1] < doc.at[(i + 1) + 1] /\ doc.at[(i + 1) + 1] \in Nat
            /\ doc.at[(i + 1) + 1] <= Len(doc.bytes)
        BY <1>1, <2>1, TokenStands
      <4>2. Len(doc.bytes) \in Nat
        BY ReadFacts
      <4>3. QED
        BY ONLY <1>2, <4>1, <4>2
    <3>3. Len(data) <= base + next
      BY <2>2, ReadFacts
    <3>4. Len(data) < Len(doc.bytes)
      BY <1>2, <3>2, <3>3, ReadFacts
    <3>5. QED
      BY <3>1, <3>4, Refused
  <2>3. CASE ~(next >= Limit)
    <3>1. /\ Reading("skipTag") /\ idx' = next /\ depth' = groups
          /\ UNCHANGED <<input, msg, base>>
      BY <1>5, <1>7, <2>3 DEF ItemSkipped
    <3>2. ReadingVarint(doc.tokens[i + 1].tag, doc.at[i + 1])'
      <4>1. IsVarint(doc.tokens[i + 1].tag)
        BY <1>1, <2>1, TokenChanges DEF IsToken
      <4>2. (base + idx)' = doc.at[i + 1]
        BY <3>1
      <4>3. byte' = 128 /\ word' = 0 /\ shift' = 0
        BY <3>1 DEF Reading
      <4>4. QED
        BY <1>2, <4>1, <4>2, <4>3, VarintBegins
    <3>3. groups > 0
      BY <1>3, <1>7
    <3>4. InSkip(doc, i + 1)'
      BY <3>1, <3>2, <3>3 DEF InSkip, Reading
    <3>5. InToken(doc, i + 1)'
      BY <1>4, <3>1, <3>4 DEF InToken
    <3>6. QED
      BY <2>1, <3>5 DEF Tracks
  <2>4. QED
    BY <2>2, <2>3
<1>8. QED
  BY <1>6, <1>7

-----------------------------------------------------------------------------
\* Tracks is inductive with DecoderInv: one lemma for each action.
LEMMA NextFieldTracks ==
    ASSUME DecoderInv, NEW doc, Reads(doc), Tracks(doc), NextField
    PROVE  Tracks(doc)'
<1> DEFINE N == Len(doc.tokens)
<1>1. PICK i \in 1 .. N + 1 : BeforeToken(doc, i)
  BY DEF NextField, Tracks, InToken, InTag, InField, InSkip, Returned
<1>2. IsDocument(input.type, doc)
  BY DEF Reads
<1>3. i \in 1 .. N
  <2>1. doc.at[N + 1] = Len(doc.bytes)
    BY <1>2 DEF IsDocument
  <2>2. idx = doc.at[i] /\ idx < Len(data)
    BY <1>1 DEF BeforeToken, NextField
  <2>3. i # N + 1
    BY <2>1, <2>2, ReadFacts
  <2>4. N \in Nat
    BY ReadFacts
  <2> HIDE DEF N
  <2>5. QED
    BY <2>3, <2>4
<1>4. /\ Reading("tag") /\ start' = idx
      /\ UNCHANGED <<input, msg, base, idx>>
  BY DEF NextField
<1>5. base = 0 /\ idx = doc.at[i] /\ doc.depth[i] = 0 /\ msg = doc.msgs[i]
  BY <1>1 DEF BeforeToken
<1>6. ReadingVarint(doc.tokens[i].tag, doc.at[i])'
  <2>1. IsVarint(doc.tokens[i].tag)
    BY <1>2, <1>3, TokenChanges DEF IsToken
  <2>2. idx \in Nat /\ (base + idx)' = doc.at[i]
    <3>1. idx \in Nat /\ 0 + idx = idx
      BY ReadFacts
    <3>2. QED
      BY <1>4, <1>5, <3>1
  <2>3. byte' = 128 /\ word' = 0 /\ shift' = 0
    BY <1>4 DEF Reading
  <2>4. QED
    BY <1>5, <2>1, <2>2, <2>3, VarintBegins
<1>7. InTag(doc, i)' /\ msg' = doc.msgs[i]
  BY <1>4, <1>5, <1>6 DEF InTag, Reading
<1>8. QED
  BY <1>3, <1>7 DEF Tracks, InToken

LEMMA ReturnTracks ==
    ASSUME DecoderInv, NEW doc, Reads(doc), Tracks(doc), Return
    PROVE  Tracks(doc)'
<1>1. PICK i \in 1 .. Len(doc.tokens) + 1 : BeforeToken(doc, i)
  BY DEF Return, Tracks, InToken, InTag, InField, InSkip, Returned
<1>2. base = 0 /\ idx = doc.at[i] /\ doc.depth[i] = 0 /\ msg = doc.msgs[i]
  BY <1>1 DEF BeforeToken
<1>3. idx = Len(data) /\ Fail("nil")
  <2>1. base + idx <= Len(data)
    BY DEF DecoderInv, Positions
  <2>2. idx >= Len(data)
    BY DEF Return
  <2>3. idx = Len(data) /\ ~(idx > Len(data))
    BY <1>2, <2>1, <2>2, ReadFacts
  <2>4. QED
    BY <2>3 DEF Return
<1>4. Returned(doc)'
  BY <1>2, <1>3 DEF Returned, Fail, data
<1>5. QED
  BY <1>4 DEF Tracks

-----------------------------------------------------------------------------
\* The cases of the switch ask for a varint or for a length.
LEMMA CasesWires ==
    ASSUME NEW type \in Types, NEW n \in DOMAIN Cases(type)
    PROVE  Cases(type)[n].wire \in {Varint, Delimited}
  BY DEF Types, Cases, SubmitAgeProofCases, SubmitAgeProofResponseCases,
         StatusRequestCases, StatusResponseCases, Varint, Delimited

\* Calls are made for the messages there are.
LEMMA InputType == DecoderInv => input.type \in Types
  BY InputsAssumption DEF DecoderInv, Positions

\* A round of the loop that reads part, a varint of token i.
LEMMA PartTracks ==
    ASSUME DecoderInv, NEW doc, Reads(doc), NEW i \in 1 .. Len(doc.tokens),
           NEW part, IsVarint(part), NEW from \in Nat, Stands(part, from),
           from + Len(part) <= Len(doc.bytes), ReadingVarint(part, from),
           ReadingVarint(part, from)' /\ UNCHANGED <<input, msg, pc, start, base, number, depth>>
               => InToken(doc, i)',
           ReadByte
    PROVE  Tracks(doc)'
<1>1. CASE Len(data) < from + Len(part) /\ \E error : error # "nil" /\ Fail(error)
  <2>1. Len(data) < Len(doc.bytes)
    <3>1. Len(part) \in Nat
      BY VarintFacts
    <3>2. QED
      BY <1>1, <3>1, ReadFacts
  <2>2. QED
    BY <1>1, <2>1, Refused
<1>2. CASE ReadingVarint(part, from)'
           /\ UNCHANGED <<input, msg, pc, start, base, number, depth, err>>
  BY <1>2 DEF Tracks
<1>3. QED
  BY <1>1, <1>2, VarintGoesOn

LEMMA ReadByteTracks ==
    ASSUME DecoderInv, NEW doc, Reads(doc), Tracks(doc), ReadByte
    PROVE  Tracks(doc)'
<1>1. PICK i \in 1 .. Len(doc.tokens) : InToken(doc, i)
  BY DEF ReadByte, Loops, SkipLoops, Tracks, BeforeToken, Returned
<1> DEFINE token == doc.tokens[i]
           wire  == WireType(TagOf(token))
<1>2. IsDocument(input.type, doc) /\ IsToken(token)
  BY TokenChanges DEF Reads
<1>3. /\ token.tag \in Seq(Bytes) /\ token.prefix \in Seq(Bytes)
      /\ doc.at[i] \in Nat /\ doc.at[i] + Len(token.tag) \in Nat
      /\ Stands(token.tag, doc.at[i])
      /\ Stands(token.prefix, doc.at[i] + Len(token.tag))
      /\ doc.at[i] + Len(token.tag) <= Len(doc.bytes)
      /\ doc.at[i] + Len(token.tag) + Len(token.prefix) <= Len(doc.bytes)
  <2> DEFINE T == Len(token.tag)
             P == Len(token.prefix)
             B == Len(token.body)
             at == doc.at[i]
  <2>1. /\ token.tag \in Seq(Bytes) /\ T \in Nat
        /\ token.prefix \in Seq(Bytes) /\ P \in Nat /\ B \in Nat
        /\ at \in Nat /\ doc.at[i + 1] = at + T + P + B
        /\ doc.at[i + 1] <= Len(doc.bytes)
        /\ Holds(doc.bytes, at, token.tag)
        /\ Holds(doc.bytes, at + T, token.prefix)
    BY <1>2, TokenStands
  <2>2. at + T \in Nat
    BY ONLY <2>1
  <2>3. Stands(token.tag, at) /\ Stands(token.prefix, at + T)
    BY ONLY <2>1, <2>2, StandsWhereHeld, Reads(doc)
  <2>4. Len(doc.bytes) \in Nat
    BY ReadFacts
  <2>5. at + T <= Len(doc.bytes) /\ at + T + P <= Len(doc.bytes)
    <3> HIDE DEF at, T, P, B
    <3>1. QED
      BY ONLY <2>1, <2>4
  <2>6. QED
    BY <2>1, <2>2, <2>3, <2>5
<1> HIDE DEF token
<1> DEFINE Kept == UNCHANGED <<input, msg, pc, start, base, number, depth>>
<1>4. \/ /\ ReadingVarint(token.tag, doc.at[i])
         /\ ReadingVarint(token.tag, doc.at[i])' /\ Kept => InToken(doc, i)'
      \/ /\ IsVarint(token.prefix)
         /\ ReadingVarint(token.prefix, doc.at[i] + Len(token.tag))
         /\ ReadingVarint(token.prefix, doc.at[i] + Len(token.tag))' /\ Kept => InToken(doc, i)'
  <2>1. CASE InTag(doc, i)
    BY <1>1, <2>1 DEF InToken, InTag, token
  <2>2. CASE InField(doc, i)
    <3>1. IsVarint(token.prefix)
      <4>1. IsKnown(input.type, token) /\ doc.depth[i] = 0
        BY <2>2 DEF InField, token
      <4>2. WireType(TagOf(token)) = CaseOf(input.type, token).wire
        BY <1>2, <4>1, TokenChanges DEF IsField, token
      <4>3. CaseOf(input.type, token).wire \in {Varint, Delimited}
        BY <4>1, InputType, CasesWires DEF IsKnown, CaseOf
      <4>4. QED
        BY <1>2, <4>2, <4>3 DEF IsToken, Varint, Delimited, Fixed64, Fixed32, StartGroup, EndGroup
    <3>2. QED
      BY <1>1, <2>2, <3>1 DEF InToken, InField, token
  <2>3. CASE InSkip(doc, i)
    <3>1. CASE pc = "skipTag"
      BY <1>1, <2>3, <3>1 DEF InToken, InSkip, token
    <3>2. CASE pc # "skipTag"
      <4>1. wire \in {Varint, Delimited}
        BY <2>3, <3>2 DEF InSkip, token
      <4>2. IsVarint(token.prefix)
        BY <1>2, <4>1 DEF IsToken, Varint, Delimited, Fixed64, Fixed32, StartGroup, EndGroup
      <4>3. QED
        BY <1>1, <2>3, <3>2, <4>2 DEF InToken, InSkip, token
    <3>3. QED
      BY <3>1, <3>2
  <2>4. QED
    BY <1>1, <2>1, <2>2, <2>3 DEF InToken
<1>5. QED
  <2> HIDE DEF Kept
  <2>1. CASE ReadingVarint(token.tag, doc.at[i])
             /\ (ReadingVarint(token.tag, doc.at[i])' /\ Kept => InToken(doc, i)')
    BY <1>2, <1>3, <2>1, PartTracks DEF Kept, IsToken
  <2>2. CASE /\ IsVarint(token.prefix)
             /\ ReadingVarint(token.prefix, doc.at[i] + Len(token.tag))
             /\ (ReadingVarint(token.prefix, doc.at[i] + Len(token.tag))' /\ Kept
                     => InToken(doc, i)')
    BY <1>3, <2>2, PartTracks DEF Kept
  <2>3. QED
    BY <1>4, <2>1, <2>2

\* A tag is read: the token is for a field of the type, or is skipped.
LEMMA TagReadTracks ==
    ASSUME DecoderInv, NEW doc, Reads(doc), Tracks(doc), TagRead
    PROVE  Tracks(doc)'
<1>1. PICK i \in 1 .. Len(doc.tokens) : InToken(doc, i)
  BY DEF TagRead, Tracks, BeforeToken, Returned
<1> DEFINE token == doc.tokens[i]
           n     == Number(token)
           wire  == WireType(TagOf(token))
<1>2. InTag(doc, i) /\ msg = doc.msgs[i]
  <2>1. CaseOf(input.type, token).wire = Varint \/ CaseOf(input.type, token).wire # Varint
    OBVIOUS
  <2>2. QED
    BY <1>1 DEF TagRead, InToken, InField, InSkip
<1>3. IsDocument(input.type, doc) /\ IsToken(token)
  BY TokenChanges DEF Reads
<1>4. base = 0 /\ start = doc.at[i] /\ doc.depth[i] = 0
      /\ ReadingVarint(token.tag, doc.at[i])
  BY <1>2 DEF InTag
<1>5. base + idx = doc.at[i] + Len(token.tag) /\ word = TagOf(token)
  BY <1>3, <1>4, VarintEnds DEF IsToken, TagRead, TagOf
<1>6. wire \in {Varint, Fixed64, Delimited, StartGroup, Fixed32} \/ wire = EndGroup
  BY <1>3 DEF IsToken
<1>7. wire # EndGroup
  <2>1. SUFFICES ASSUME wire = EndGroup PROVE FALSE
    OBVIOUS
  <2>2. DepthAfter(token, 0) = 0 - 1
    BY <2>1 DEF DepthAfter, EndGroup, StartGroup
  <2>3. DepthAfter(token, 0) \in Nat
    BY <1>3, <1>4, TokenChanges
  <2>4. QED
    BY <2>2, <2>3
<1>8. wire # 4 /\ n > 0 /\ IsField(input.type, token)
  BY <1>3, <1>4, <1>7, TokenChanges DEF EndGroup, IsField
<1>9. FieldNumber(word) = n /\ WireType(word) = wire
  BY <1>5 DEF Number
<1>10. doc.at[i] \in Nat /\ doc.at[i] + Len(token.tag) \in Nat
  <2>1. doc.at[i] \in Nat /\ Len(token.tag) \in Nat
    BY <1>3, TokenStands
  <2>2. QED
    BY <2>1
<1> HIDE DEF n, wire
<1>11. ~(n <= 0)
  <2>1. n \in Int
    <3>1. word \in Int
      BY WordAssumption DEF DecoderInv, Positions, Words, WordMod
    <3>2. FieldNumber(word) \in Int
      BY <3>1, WordAssumption DEF FieldNumber
    <3>3. QED
      BY <1>9, <3>2
  <2>2. QED
    BY <1>8, <2>1 DEF n
<1>12. CASE ~KnownField(n)
  <2>1. SkipUnknownField
    BY <1>8, <1>9, <1>11, <1>12 DEF TagRead
  <2>2. /\ Reading("skipTag") /\ base' = start /\ idx' = 0 /\ depth' = 0
        /\ UNCHANGED <<input, msg>>
    BY <2>1 DEF SkipUnknownField
  <2>3. ~IsKnown(input.type, token)
    BY <1>12 DEF IsKnown, KnownField, n
  <2>4. ReadingVarint(token.tag, doc.at[i])'
    <3>1. IsVarint(token.tag)
      BY <1>3 DEF IsToken
    <3>2. (base + idx)' = doc.at[i]
      BY <1>4, <1>10, <2>2
    <3>3. byte' = 128 /\ word' = 0 /\ shift' = 0
      BY <2>2 DEF Reading
    <3>4. QED
      BY <1>10, <3>1, <3>2, <3>3, VarintBegins
  <2>5. InSkip(doc, i)'
    BY <1>4, <2>2, <2>3, <2>4 DEF InSkip, Reading
  <2>6. InToken(doc, i)'
    BY <1>2, <2>2, <2>5 DEF InToken
  <2>7. QED
    BY <2>6 DEF Tracks
<1>13. CASE KnownField(n)
  <2>1. IsKnown(input.type, token)
    BY <1>13 DEF IsKnown, KnownField, n
  <2>2. Cases(input.type)[n].wire = wire /\ wire \in {Varint, Delimited}
    <3>1. WireType(TagOf(token)) = CaseOf(input.type, token).wire
      BY <1>8, <2>1 DEF IsField
    <3>2. CaseOf(input.type, token) = Cases(input.type)[n]
      BY DEF CaseOf, n
    <3>3. Cases(input.type)[n].wire \in {Varint, Delimited}
      BY <1>13, InputType, CasesWires DEF KnownField
    <3>4. QED
      BY <3>1, <3>2, <3>3 DEF wire
  <2>3. ReadKnownField(n)
    BY <1>8, <1>9, <1>11, <1>13, <2>2 DEF TagRead
  <2>4. /\ pc' = (IF Cases(input.type)[n].wire = Varint THEN "value" ELSE "length")
        /\ byte' = 128 /\ word' = 0 /\ shift' = 0
        /\ number' = n
        /\ UNCHANGED <<input, msg, base, idx>>
    BY <2>3 DEF ReadKnownField, Reading
  <2>5. ReadingVarint(token.prefix, doc.at[i] + Len(token.tag))'
    <3>1. IsVarint(token.prefix)
      BY <1>3, <2>2 DEF IsToken, wire, Varint, Delimited, Fixed64, Fixed32, StartGroup, EndGroup
    <3>2. (base + idx)' = doc.at[i] + Len(token.tag)
      BY <1>5, <2>4
    <3>3. QED
      BY <1>10, <2>4, <3>1, <3>2, VarintBegins
  <2>6. InField(doc, i)'
    BY <1>4, <2>1, <2>4, <2>5 DEF InField, CaseOf, n
  <2>7. InToken(doc, i)'
    BY <1>2, <2>4, <2>6 DEF InToken
  <2>8. QED
    BY <2>7 DEF Tracks
<1>14. QED
  BY <1>12, <1>13

-----------------------------------------------------------------------------
\* The value of a known field replaces the one before.
LEMMA AssignTracks ==
    ASSUME DecoderInv, NEW doc, Reads(doc), NEW i \in 1 .. Len(doc.tokens),
           msg = doc.msgs[i], base = 0, doc.depth[i] = 0,
           IsKnown(input.type, doc.tokens[i]), number = Number(doc.tokens[i]),
           Assign(ValueOf(input.type, doc.tokens[i]), doc.at[i + 1])
    PROVE  Tracks(doc)'
<1> DEFINE token == doc.tokens[i]
           type  == input.type
<1>1. /\ msg' = [msg EXCEPT ![Cases(type)[number].field] = ValueOf(type, token)]
      /\ pc' = "next" /\ idx' = doc.at[i + 1] /\ UNCHANGED base
  BY DEF Assign
<1>2. IsDocument(type, doc)
  BY DEF Reads
<1>3. doc.msgs[i + 1] = Updated(type, doc.msgs[i], doc.depth[i], token)
  BY <1>2, TokenChanges
<1>4. Updated(type, doc.msgs[i], doc.depth[i], token)
        = [doc.msgs[i] EXCEPT ![CaseOf(type, token).field] = ValueOf(type, token)]
  BY Zenon DEF Updated
<1>5. CaseOf(type, token) = Cases(type)[number]
  BY Zenon DEF CaseOf
<1>6. msg' = doc.msgs[i + 1]
  BY <1>1, <1>3, <1>4, <1>5, Zenon
<1>7. doc.depth[i + 1] = 0
  <2>1. WireType(TagOf(token)) \in {Varint, Delimited}
    <3>1. IsField(type, token)
      BY <1>2, TokenChanges
    <3>2. CaseOf(type, token).wire \in {Varint, Delimited}
      BY InputType, CasesWires DEF CaseOf, IsKnown
    <3>3. QED
      BY <3>1, <3>2 DEF IsField
  <2>2. DepthAfter(token, 0) = 0
    BY <2>1 DEF DepthAfter, Varint, Delimited, StartGroup, EndGroup
  <2>3. QED
    BY <1>2, <2>2, TokenChanges
<1>8. BeforeToken(doc, i + 1)'
  BY <1>1, <1>6, <1>7 DEF BeforeToken
<1>9. i + 1 \in 1 .. Len(doc.tokens) + 1
  BY <1>2, TokenChanges
<1>10. QED
  BY <1>8, <1>9 DEF Tracks

LEMMA ValueReadTracks ==
    ASSUME DecoderInv, NEW doc, Reads(doc), Tracks(doc), ValueRead
    PROVE  Tracks(doc)'
<1>1. PICK i \in 1 .. Len(doc.tokens) : InToken(doc, i)
  BY DEF ValueRead, Tracks, BeforeToken, Returned
<1> DEFINE token == doc.tokens[i]
<1>2. InField(doc, i) /\ msg = doc.msgs[i] /\ byte < 128
  BY <1>1 DEF ValueRead, InToken, InTag, InSkip
<1>3. IsDocument(input.type, doc) /\ IsToken(token)
  BY TokenChanges DEF Reads
<1>4. /\ base = 0 /\ doc.depth[i] = 0
      /\ IsKnown(input.type, token) /\ number = Number(token)
      /\ ReadingVarint(token.prefix, doc.at[i] + Len(token.tag))
  BY <1>2 DEF InField
<1>5. CaseOf(input.type, token).wire = Varint
  BY <1>2 DEF InField, ValueRead
<1>6. IsVarint(token.prefix) /\ token.body = << >>
  <2>1. WireType(TagOf(token)) = Varint
    BY <1>3, <1>4, <1>5, TokenChanges DEF IsField
  <2>2. QED
    BY <1>3, <2>1 DEF IsToken, Varint, Delimited, Fixed64, Fixed32, StartGroup, EndGroup
<1>7. base + idx = doc.at[i] + Len(token.tag) + Len(token.prefix) /\ word = Prefix(token)
  BY <1>2, <1>4, <1>6, VarintEnds DEF Prefix
<1>8. idx = doc.at[i + 1]
  <2>1. doc.at[i + 1] = doc.at[i] + Len(token.tag) + Len(token.prefix) + Len(token.body)
        /\ doc.at[i + 1] \in Nat /\ doc.at[i] \in Nat
        /\ Len(token.tag) \in Nat /\ Len(token.prefix) \in Nat
    BY <1>3, TokenStands
  <2>2. Len(token.body) = 0
    BY <1>6
  <2>3. idx \in Nat
    BY ReadFacts
  <2> HIDE DEF token
  <2>4. QED
    BY ONLY <1>4, <1>7, <2>1, <2>2, <2>3
<1>9. ValueOf(input.type, token) = (word # 0)
  BY <1>5, <1>7 DEF ValueOf
<1>10. QED
  BY <1>2, <1>4, <1>8, <1>9, AssignTracks DEF ValueRead

\* A slice that holds what part has is part.
LEMMA SliceIs ==
    ASSUME NEW s \in Seq(Bytes), NEW part \in Seq(Bytes), NEW n \in Nat,
           n + Len(part) <= Len(s), \A k \in 1 .. Len(part) : s[n + k] = part[k]
    PROVE  SubSeq(s, n + 1, n + Len(part)) = part
<1> DEFINE B == Len(part)
           t == SubSeq(s, n + 1, n + B)
<1>1. B \in Nat /\ Len(s) \in Nat
  OBVIOUS
<1>2. t \in Seq(Bytes) /\ Len(t) = B
  <2>1. n + 1 \in Int /\ n + B \in Int /\ n + 1 >= 1
    BY <1>1
  <2>2. \A k \in n + 1 .. n + B : s[k] \in Bytes
    BY <1>1
  <2>3. QED
    BY <1>1, <2>1, <2>2
<1>3. \A k \in 1 .. B : t[k] = s[n + k]
  BY <1>1
<1> HIDE DEF t
<1>4. \A k \in 1 .. B : t[k] = part[k]
  BY <1>3
<1>5. t = part
  <2>1. Len(part) = B
    OBVIOUS
  <2> HIDE DEF B
  <2>2. QED
    BY ONLY <1>2, <1>4, <2>1, part \in Seq(Bytes)
<1>6. QED
  BY <1>5 DEF t

LEMMA LengthReadTracks ==
    ASSUME DecoderInv, NEW doc, Reads(doc), Tracks(doc), LengthRead
    PROVE  Tracks(doc)'
<1>1. PICK i \in 1 .. Len(doc.tokens) : InToken(doc, i)
  BY DEF LengthRead, Tracks, BeforeToken, Returned
<1> DEFINE token == doc.tokens[i]
           B     == Len(token.body)
<1>2. InField(doc, i) /\ msg = doc.msgs[i] /\ byte < 128
  BY <1>1 DEF LengthRead, InToken, InTag, InSkip
<1>3. IsDocument(input.type, doc) /\ IsToken(token)
  BY TokenChanges DEF Reads
<1>4. /\ base = 0 /\ doc.depth[i] = 0
      /\ IsKnown(input.type, token) /\ number = Number(token)
      /\ ReadingVarint(token.prefix, doc.at[i] + Len(token.tag))
  BY <1>2 DEF InField
<1>5. CaseOf(input.type, token).wire = Delimited
  <2>1. CaseOf(input.type, token).wire # Varint
    BY <1>2 DEF InField, LengthRead
  <2>2. QED
    BY <1>4, <2>1, InputType, CasesWires DEF IsKnown, CaseOf
<1>6. IsVarint(token.prefix) /\ ToInt(Prefix(token)) = B
  <2>1. WireType(TagOf(token)) = Delimited
    BY <1>3, <1>4, <1>5, TokenChanges DEF IsField
  <2>2. QED
    BY <1>3, <2>1 DEF IsToken, Varint, Delimited, Fixed64, Fixed32, StartGroup, EndGroup
<1>7. base + idx = doc.at[i] + Len(token.tag) + Len(token.prefix) /\ word = Prefix(token)
  BY <1>2, <1>4, <1>6, VarintEnds DEF Prefix
<1>8. /\ doc.at[i + 1] = idx + B /\ B \in Nat /\ idx \in Nat
      /\ idx + B <= Len(doc.bytes) /\ Holds(doc.bytes, idx, token.body)
      /\ token.body \in Seq(Bytes)
  <2>1. /\ doc.at[i + 1] = doc.at[i] + Len(token.tag) + Len(token.prefix) + B
        /\ doc.at[i + 1] <= Len(doc.bytes)
        /\ doc.at[i + 1] \in Nat /\ doc.at[i] \in Nat /\ B \in Nat
        /\ Len(token.tag) \in Nat /\ Len(token.prefix) \in Nat
        /\ Holds(doc.bytes, doc.at[i] + Len(token.tag) + Len(token.prefix), token.body)
        /\ token.body \in Seq(Bytes)
    BY <1>3, TokenStands
  <2>2. idx \in Nat
    BY ReadFacts
  <2> HIDE DEF token, B
  <2>3. idx = doc.at[i] + Len(token.tag) + Len(token.prefix)
    BY ONLY <1>4, <1>7, <2>1, <2>2
  <2>4. QED
    BY ONLY <2>1, <2>2, <2>3
<1> HIDE DEF B
<1>9. ToInt(word) = B /\ Plus(idx, B) = idx + B
  <2>1. idx + B <= MaxInt
    BY <1>8, ReadFacts
  <2>2. QED
    BY <1>6, <1>7, <1>8, <2>1, PlusIsExact
<1>10. CASE idx + B > Len(data)
  <2>1. Fail("UnexpectedEOF")
    BY <1>8, <1>9, <1>10 DEF LengthRead
  <2>2. Len(data) < Len(doc.bytes)
    BY <1>8, <1>10, ReadFacts
  <2>3. QED
    BY <2>1, <2>2, Refused
<1>11. CASE ~(idx + B > Len(data))
  <2>1. Assign(SubSeq(data, idx + 1, idx + B), idx + B)
    BY <1>8, <1>9, <1>11 DEF LengthRead
  <2>2. SubSeq(data, idx + 1, idx + B) = token.body
    <3>1. data \in Seq(Bytes) /\ Len(data) \in Nat
      BY BufferFacts, ReadFacts
    <3>2. idx + B <= Len(data)
      BY <1>8, <1>11, <3>1
    <3>3. \A k \in 1 .. B : data[idx + k] = token.body[k]
      <4>1. Stands(token.body, idx)
        BY <1>8, StandsWhereHeld
      <4>2. \A k \in 1 .. B : idx + k <= Len(data)
        BY ONLY <1>8, <3>1, <3>2
      <4>3. QED
        BY <4>1, <4>2 DEF Stands, B
    <3>4. QED
      BY <1>8, <3>1, <3>2, <3>3, SliceIs DEF B
  <2>3. ValueOf(input.type, token) = token.body
    BY <1>5 DEF ValueOf, Varint, Delimited
  <2>4. QED
    BY <1>2, <1>4, <1>8, <2>1, <2>2, <2>3, AssignTracks
<1>12. QED
  BY <1>10, <1>11

\* What is left of a token behind what a loop of a skip has read of it.
LEMMA SkipTagReadTracks ==
    ASSUME DecoderInv, NEW doc, Reads(doc), Tracks(doc), SkipTagRead
    PROVE  Tracks(doc)'
<1>1. PICK i \in 1 .. Len(doc.tokens) : InToken(doc, i)
  BY DEF SkipTagRead, Tracks, BeforeToken, Returned
<1> DEFINE token == doc.tokens[i]
           wire  == WireType(TagOf(token))
           T     == Len(token.tag)
           P     == Len(token.prefix)
           B     == Len(token.body)
<1>2. InSkip(doc, i) /\ msg = doc.msgs[i] /\ byte < 128 /\ pc = "skipTag" /\ pc \in SkipLoops
  <2>1. ~ InField(doc, i)
    BY Zenon DEF SkipTagRead, InField
  <2>2. QED
    BY <1>1, <2>1 DEF SkipTagRead, InToken, InTag, SkipLoops
<1>3. IsDocument(input.type, doc) /\ IsToken(token)
  BY TokenChanges DEF Reads
<1>4. /\ depth = doc.depth[i] /\ depth \in Nat
      /\ doc.depth[i] > 0 \/ ~IsKnown(input.type, token)
      /\ ReadingVarint(token.tag, doc.at[i])
  BY <1>2, <1>3, TokenChanges DEF InSkip
<1>5. base + idx = doc.at[i] + T /\ word = TagOf(token)
  BY <1>2, <1>3, <1>4, VarintEnds DEF IsToken, TagOf
<1>6. /\ doc.at[i + 1] = doc.at[i] + T + P + B
      /\ doc.at[i + 1] <= Len(doc.bytes)
      /\ doc.at[i + 1] \in Nat /\ doc.at[i] \in Nat
      /\ T \in Nat /\ P \in Nat /\ B \in Nat
  BY <1>3, TokenStands
<1>7. doc.depth[i + 1] = DepthAfter(token, depth)
  BY <1>3, <1>4, TokenChanges
<1>8. WireType(word) = wire
  BY <1>5
<1>9. wire \in Int
  BY <1>3 DEF IsToken, Varint, Delimited, Fixed64, Fixed32, StartGroup, EndGroup
<1> HIDE DEF T, P, B
<1>10. CASE wire \in {Varint, Delimited}
  <2>1. SkipInto(IF wire = Varint THEN "skipVarint" ELSE "skipLength")
    BY <1>8, <1>10 DEF SkipTagRead, Varint, Delimited
  <2>2. IsVarint(token.prefix)
    BY <1>3, <1>10 DEF IsToken, Varint, Delimited, Fixed64, Fixed32, StartGroup, EndGroup
  <2>3. /\ pc' = (IF wire = Varint THEN "skipVarint" ELSE "skipLength")
        /\ byte' = 128 /\ word' = 0 /\ shift' = 0
        /\ UNCHANGED <<input, msg, base, idx, depth>>
    BY <2>1 DEF SkipInto, Reading
  <2>4. ReadingVarint(token.prefix, doc.at[i] + T)'
    <3>1. doc.at[i] + T \in Nat
      BY <1>6, SMTT(30)
    <3>2. (base + idx)' = doc.at[i] + T
      BY <1>5, <2>3
    <3>3. QED
      BY <2>2, <2>3, <3>1, <3>2, VarintBegins
  <2> HIDE DEF wire
  <2>5. InSkip(doc, i)'
    BY <1>2, <1>4, <1>10, <2>3, <2>4 DEF InSkip, wire, T
  <2>6. InToken(doc, i)'
    BY <1>2, <2>3, <2>5 DEF InToken
  <2>7. QED
    BY <2>6 DEF Tracks
<1>11. CASE wire \in {Fixed64, Fixed32}
  <2>1. token.prefix = << >> /\ ((wire = Fixed64 /\ B = 8) \/ (wire = Fixed32 /\ B = 4))
    <3>1. \/ wire \in {0, 2, 3, 4}
          \/ wire = Fixed64 /\ token.prefix = << >> /\ Len(token.body) = 8
          \/ wire = Fixed32 /\ token.prefix = << >> /\ Len(token.body) = 4
      BY <1>3, Zenon DEF IsToken, Varint, Delimited, StartGroup, EndGroup
    <3>2. wire \notin {0, 2, 3, 4}
      BY <1>11 DEF Fixed64, Fixed32
    <3>3. QED
      BY <3>1, <3>2, Zenon DEF B
  <2>2. P = 0
    BY <2>1 DEF P
  <2>3. ItemSkipped(Plus(idx, B), depth)
    <3>1. CASE wire = 1 /\ B = 8
      BY <1>8, <3>1 DEF SkipTagRead
    <3>2. CASE wire = 5 /\ B = 4
      BY <1>8, <3>2 DEF SkipTagRead
    <3>3. QED
      BY <2>1, <3>1, <3>2 DEF Fixed64, Fixed32
  <2>4. idx + B \in Nat /\ base + (idx + B) = doc.at[i + 1] /\ idx \in Nat
    <3>1. base \in Nat /\ idx \in Nat
      BY ReadFacts
    <3>2. QED
      BY ONLY <1>5, <1>6, <2>2, <3>1, SMTT(30)
  <2>5. Plus(idx, B) = idx + B
    <3>1. idx + B <= MaxInt
      <4>1. base \in Nat /\ Len(doc.bytes) \in Nat /\ MaxInt \in Nat /\ Len(doc.bytes) <= MaxInt
        BY ReadFacts
      <4>2. QED
        BY ONLY <1>6, <2>4, <4>1
    <3>2. QED
      BY <1>6, <2>4, <3>1, PlusIsExact
  <2>6. doc.depth[i + 1] = depth
    BY <1>7, <1>11 DEF DepthAfter, Fixed64, Fixed32, StartGroup, EndGroup
  <2>7. ItemSkipped(idx + B, depth)
    BY <2>3, <2>5
  <2>8. QED
    BY ONLY DecoderInv, Reads(doc), <1>2, <1>4, <2>4, <2>6, <2>7, SkippedTracks
<1>12. CASE wire \in {StartGroup, EndGroup}
  <2> DEFINE groups == IF wire = StartGroup THEN depth + 1 ELSE depth - 1
  <2>1. P = 0 /\ B = 0
    BY <1>3, <1>12 DEF IsToken, P, B, Varint, Delimited, Fixed64, Fixed32, StartGroup, EndGroup
  <2>2. doc.depth[i + 1] = groups /\ groups \in Nat
    <3>1. doc.depth[i + 1] = groups
      BY <1>7, <1>12 DEF DepthAfter, StartGroup, EndGroup
    <3>2. doc.depth[i + 1] \in Nat
      BY <1>3, TokenChanges
    <3>3. QED
      BY <3>1, <3>2
  <2>3. ItemSkipped(idx, groups)
    <3>1. CASE wire = StartGroup
      BY <1>8, <3>1 DEF SkipTagRead, StartGroup
    <3>2. CASE wire = EndGroup
      <4>1. wire = 4 /\ wire # StartGroup
        BY <3>2 DEF StartGroup, EndGroup
      <4>2. depth # 0
        BY <1>4, <2>2, <4>1
      <4>3. QED
        BY <1>8, <4>1, <4>2 DEF SkipTagRead
    <3>3. QED
      BY <1>12, <3>1, <3>2
  <2> HIDE DEF groups
  <2>4. idx \in Nat /\ base + idx = doc.at[i + 1]
    BY <1>5, <1>6, <2>1, ReadFacts
  <2>5. QED
    BY ONLY DecoderInv, Reads(doc), <1>2, <1>4, <2>2, <2>3, <2>4, SkippedTracks
<1>13. QED
  BY <1>3, <1>10, <1>11, <1>12 DEF IsToken

LEMMA SkipVarintReadTracks ==
    ASSUME DecoderInv, NEW doc, Reads(doc), Tracks(doc), SkipVarintRead
    PROVE  Tracks(doc)'
<1>1. PICK i \in 1 .. Len(doc.tokens) : InToken(doc, i)
  BY DEF SkipVarintRead, Tracks, BeforeToken, Returned
<1> DEFINE token == doc.tokens[i]
           T     == Len(token.tag)
           P     == Len(token.prefix)
           B     == Len(token.body)
<1>2. InSkip(doc, i) /\ msg = doc.msgs[i] /\ byte < 128 /\ pc = "skipVarint" /\ pc \in SkipLoops
  <2>1. ~ InField(doc, i)
    BY Zenon DEF SkipVarintRead, InField
  <2>2. QED
    BY <1>1, <2>1 DEF SkipVarintRead, InToken, InTag, SkipLoops
<1>3. IsDocument(input.type, doc) /\ IsToken(token)
  BY TokenChanges DEF Reads
<1>4. /\ depth = doc.depth[i] /\ depth \in Nat
      /\ doc.depth[i] > 0 \/ ~IsKnown(input.type, token)
      /\ WireType(TagOf(token)) = Varint
      /\ ReadingVarint(token.prefix, doc.at[i] + T)
  BY <1>2, <1>3, TokenChanges DEF InSkip
<1>5. IsVarint(token.prefix) /\ B = 0
  BY <1>3, <1>4 DEF IsToken, Varint, Delimited, Fixed64, Fixed32, StartGroup, EndGroup
<1>6. base + idx = doc.at[i] + T + P
  BY <1>2, <1>4, <1>5, VarintEnds
<1>7. /\ doc.at[i + 1] = doc.at[i] + T + P + B
      /\ doc.at[i] \in Nat /\ T \in Nat /\ P \in Nat
  BY <1>3, TokenStands
<1>8. doc.depth[i + 1] = depth
  BY <1>3, <1>4, TokenChanges DEF DepthAfter, Varint, StartGroup, EndGroup
<1> HIDE DEF T, P, B
<1>9. idx \in Nat /\ base + idx = doc.at[i + 1]
  BY <1>5, <1>6, <1>7, ReadFacts
<1>10. ItemSkipped(idx, depth)
  BY DEF SkipVarintRead
<1>11. QED
  BY ONLY DecoderInv, Reads(doc), <1>2, <1>4, <1>8, <1>9, <1>10, SkippedTracks

LEMMA SkipLengthReadTracks ==
    ASSUME DecoderInv, NEW doc, Reads(doc), Tracks(doc), SkipLengthRead
    PROVE  Tracks(doc)'
<1>1. PICK i \in 1 .. Len(doc.tokens) : InToken(doc, i)
  BY DEF SkipLengthRead, Tracks, BeforeToken, Returned
<1> DEFINE token == doc.tokens[i]
           T     == Len(token.tag)
           P     == Len(token.prefix)
           B     == Len(token.body)
<1>2. InSkip(doc, i) /\ msg = doc.msgs[i] /\ byte < 128 /\ pc = "skipLength" /\ pc \in SkipLoops
  <2>1. ~ InField(doc, i)
    BY Zenon DEF SkipLengthRead, InField
  <2>2. QED
    BY <1>1, <2>1 DEF SkipLengthRead, InToken, InTag, SkipLoops
<1>3. IsDocument(input.type, doc) /\ IsToken(token)
  BY TokenChanges DEF Reads
<1>4. /\ depth = doc.depth[i] /\ depth \in Nat
      /\ doc.depth[i] > 0 \/ ~IsKnown(input.type, token)
      /\ WireType(TagOf(token)) = Delimited
      /\ ReadingVarint(token.prefix, doc.at[i] + T)
  BY <1>2, <1>3, TokenChanges DEF InSkip
<1>5. IsVarint(token.prefix) /\ ToInt(Prefix(token)) = B
  BY <1>3, <1>4 DEF IsToken, Varint, Delimited, Fixed64, Fixed32, StartGroup, EndGroup
<1>6. base + idx = doc.at[i] + T + P /\ word = Prefix(token)
  BY <1>2, <1>4, <1>5, VarintEnds DEF Prefix
<1>7. /\ doc.at[i + 1] = doc.at[i] + T + P + B
      /\ doc.at[i + 1] <= Len(doc.bytes) /\ doc.at[i + 1] \in Nat
      /\ doc.at[i] \in Nat /\ T \in Nat /\ P \in Nat /\ B \in Nat
  BY <1>3, TokenStands
<1>8. doc.depth[i + 1] = depth
  BY <1>3, <1>4, TokenChanges DEF DepthAfter, Delimited, StartGroup, EndGroup
<1>9. ToInt(word) = B
  BY <1>5, <1>6
<1> HIDE DEF T, P, B
<1>10. idx + B \in Nat /\ base + (idx + B) = doc.at[i + 1] /\ Plus(idx, B) = idx + B
  <2>1. idx + B \in Nat /\ base + (idx + B) = doc.at[i + 1] /\ idx \in Nat
    <3>1. base \in Nat /\ idx \in Nat
      BY ReadFacts
    <3>2. QED
      BY ONLY <1>6, <1>7, <3>1
  <2>2. idx + B <= MaxInt
    <3>1. base \in Nat /\ Len(doc.bytes) \in Nat /\ MaxInt \in Nat /\ Len(doc.bytes) <= MaxInt
      BY ReadFacts
    <3>2. QED
      BY ONLY <1>7, <2>1, <3>1
  <2>3. QED
    BY <1>7, <2>1, <2>2, PlusIsExact
<1>11. ItemSkipped(idx + B, depth)
  BY <1>7, <1>9, <1>10 DEF SkipLengthRead
<1>12. QED
  BY ONLY DecoderInv, Reads(doc), <1>2, <1>4, <1>8, <1>10, <1>11, SkippedTracks

-----------------------------------------------------------------------------
\* The decoder begins before the first token, and stays with the document it was given.
LEMMA InitTracks ==
    ASSUME Init, NEW doc, Reads(doc)
    PROVE  Tracks(doc)
<1>1. BeforeToken(doc, 1)
  BY DEF Init, Reads, IsDocument, BeforeToken
<1>2. 1 \in 1 .. Len(doc.tokens) + 1
  BY DEF Reads, IsDocument
<1>3. QED
  BY <1>1, <1>2 DEF Tracks

LEMMA InputStays == [Next]_vars => input' = input
  BY DEF Next, vars, NextField, Return, ReadByte, TagRead, LengthRead, ValueRead, SkipTagRead,
         SkipVarintRead, SkipLengthRead, Fail, SkipUnknownField, ReadKnownField, Assign,
         ItemSkipped, SkipReturns, SkipInto

LEMMA StepTracks ==
    ASSUME DecoderInv, NEW doc, Reads(doc), Tracks(doc), [Next]_vars
    PROVE  Reads(doc)' /\ Tracks(doc)'
<1>1. Reads(doc)'
  BY InputStays DEF Reads, data
<1>2. SUFFICES Tracks(doc)'
  BY <1>1
<1>3. CASE NextField
  BY <1>3, NextFieldTracks
<1>4. CASE Return
  BY <1>4, ReturnTracks
<1>5. CASE ReadByte
  BY <1>5, ReadByteTracks
<1>6. CASE TagRead
  BY <1>6, TagReadTracks
<1>7. CASE LengthRead
  BY <1>7, LengthReadTracks
<1>8. CASE ValueRead
  BY <1>8, ValueReadTracks
<1>9. CASE SkipTagRead
  BY <1>9, SkipTagReadTracks
<1>10. CASE SkipVarintRead
  BY <1>10, SkipVarintReadTracks
<1>11. CASE SkipLengthRead
  BY <1>11, SkipLengthReadTracks
<1>12. CASE UNCHANGED vars
  <2>1. \A part, from : ReadingVarint(part, from) => ReadingVarint(part, from)'
    BY <1>12 DEF vars, ReadingVarint, HasRead
  <2>2. ASSUME NEW i
        PROVE  BeforeToken(doc, i) => BeforeToken(doc, i)'
    BY <1>12 DEF vars, BeforeToken
  <2>3. ASSUME NEW i
        PROVE  InToken(doc, i) => InToken(doc, i)'
    <3>1. InTag(doc, i) => InTag(doc, i)'
      BY <1>12, <2>1 DEF vars, InTag
    <3>2. InField(doc, i) => InField(doc, i)'
      BY <1>12, <2>1 DEF vars, InField
    <3>3. InSkip(doc, i) => InSkip(doc, i)'
      BY <1>12, <2>1 DEF vars, InSkip
    <3>4. QED
      BY <1>12, <3>1, <3>2, <3>3 DEF vars, InToken
  <2>4. Returned(doc) => Returned(doc)'
    BY <1>12 DEF vars, Returned, data
  <2>5. QED
    BY <2>2, <2>3, <2>4 DEF Tracks
<1>13. QED
  BY <1>3, <1>4, <1>5, <1>6, <1>7, <1>8, <1>9, <1>10, <1>11, <1>12 DEF Next

\* Whatever document the buffer is, or begins: the decoder follows it.
Follows == \A doc : Reads(doc) => Tracks(doc)

\* Follows is an invariant.
LEMMA SpecFollows == Spec => []Follows
<1>1. Init => Follows
  BY InitTracks DEF Follows
<1>2. DecoderInv /\ Follows /\ [Next]_vars => Follows'
  <2>1. SUFFICES ASSUME DecoderInv, Follows, [Next]_vars, NEW doc, Reads(doc)'
                 PROVE  Tracks(doc)'
    BY DEF Follows
  <2>2. Reads(doc)
    BY <2>1, InputStays DEF Reads, data
  <2>3. Tracks(doc)
    BY <2>1, <2>2 DEF Follows
  <2>4. QED
    BY <2>1, <2>2, <2>3, StepTracks
<1>3. QED
  BY <1>1, <1>2, SpecDecoderInv, PTL DEF Spec

\* A document is read to its end.
LEMMA DocumentIsRead ==
    ASSUME DecoderInv, Follows, pc = "done",
           NEW doc, IsDocument(input.type, doc), data = doc.bytes
    PROVE  err = "nil" /\ msg = Meaning(doc)
<1> DEFINE N == Len(doc.tokens)
<1>1. Reads(doc)
  <2>1. Len(data) <= Len(doc.bytes)
    BY BufferFacts, SmallInts
  <2>2. QED
    BY <2>1 DEF Reads
<1>2. Returned(doc)
  BY <1>1 DEF Follows, Tracks, BeforeToken, InToken, InTag, InField, InSkip, Returned
<1>3. err = "nil"
  <2>1. ~(Len(data) < Len(doc.bytes))
    BY BufferFacts, SmallInts
  <2>2. QED
    BY <1>2, <2>1 DEF Returned
<1>4. PICK i \in 1 .. N + 1 : doc.at[i] = Len(data) /\ msg = doc.msgs[i]
  BY <1>2, <1>3 DEF Returned
<1>5. N \in Nat
  BY <1>1, ReadFacts
<1>6. i = N + 1
  <2>1. SUFFICES ASSUME i \in 1 .. N PROVE FALSE
    <3> HIDE DEF N
    <3>1. QED
      BY <1>5
  <2>2. doc.at[i] < doc.at[i + 1] /\ doc.at[i + 1] <= Len(doc.bytes)
        /\ doc.at[i] \in Nat /\ doc.at[i + 1] \in Nat
    BY <2>1, TokenStands
  <2>3. QED
    BY <1>4, <2>2
<1>7. QED
  BY <1>3, <1>4, <1>6 DEF Meaning

\* Its beginning is read to the end of a field, or refused.
LEMMA CutIsRefused ==
    ASSUME DecoderInv, Follows, pc = "done",
           NEW doc, IsDocument(input.type, doc), IsCut(data, doc)
    PROVE  err # "nil"
<1>1. Reads(doc)
  <2>1. Len(data) <= Len(doc.bytes) /\ data = SubSeq(doc.bytes, 1, Len(data))
    BY DEF IsCut
  <2>2. doc.bytes \in Seq(Bytes) /\ Len(data) \in Nat
    BY BufferFacts, SmallInts DEF IsDocument
  <2>3. \A n \in 1 .. Len(data) : SubSeq(doc.bytes, 1, Len(data))[n] = doc.bytes[n]
    <3> DEFINE L == Len(data)
    <3> HIDE DEF L
    <3>1. \A n \in 1 .. L : SubSeq(doc.bytes, 1, L)[n] = doc.bytes[n]
      <4>1. L \in Nat /\ L <= Len(doc.bytes)
        BY <2>1, <2>2 DEF L
      <4>2. QED
        BY <2>2, <4>1
    <3>2. QED
      BY <3>1 DEF L
  <2>4. QED
    BY <2>1, <2>3 DEF Reads
<1>2. Returned(doc)
  BY <1>1 DEF Follows, Tracks, BeforeToken, InToken, InTag, InField, InSkip, Returned
<1>3. QED
  BY <1>2 DEF Returned, IsCut

\* WholeItems: for every document of fields, of unknown fields and of groups, in any order,
\* repeated or padded, that a buffer can hold, Unmarshal returns nil and what the document
\* means; and for every prefix that ends within a token or a group it returns an error
\* (tx.pb.go:374-550, 601-678).
THEOREM WholeItems == Spec => []WholeItemsAreRead
<1>1. DecoderInv /\ Follows => WholeItemsAreRead
  <2>1. SUFFICES ASSUME DecoderInv, Follows, pc = "done"
                 PROVE  /\ input.expect.kind = "items" => err = "nil" /\ msg = input.expect.msg
                        /\ input.expect.kind = "cut"   => err # "nil"
    BY DEF WholeItemsAreRead
  <2>2. input \in Inputs
    BY <2>1 DEF DecoderInv, Positions
  <2>3. CASE input.expect.kind = "items"
    <3>1. /\ IsDocument(input.type, input.expect.doc)
          /\ input.data = input.expect.doc.bytes
          /\ input.expect.msg = Meaning(input.expect.doc)
      BY <2>2, <2>3, ExpectAssumption
    <3>2. QED
      BY <2>1, <2>3, <3>1, DocumentIsRead DEF data
  <2>4. CASE input.expect.kind = "cut"
    <3>1. IsDocument(input.type, input.expect.doc) /\ IsCut(input.data, input.expect.doc)
      BY <2>2, <2>4, ExpectAssumption
    <3>2. QED
      BY <2>1, <2>4, <3>1, CutIsRefused DEF data
  <2>5. QED
    BY <2>3, <2>4
<1>2. QED
  BY <1>1, SpecDecoderInv, SpecFollows, PTL

=============================================================================
