----------------------------- MODULE Unmarshal ------------------------------
(***************************************************************************)
(* The decoder that protoc-gen-gogo generates for the module's messages in *)
(* types/tx.pb.go and types/query.pb.go, as the loop it is.  One behaviour *)
(* is one call of Unmarshal on a buffer that may hold anything: bytes this *)
(* code has marshalled, fields of a newer version, a truncated transfer.   *)
(*                                                                         *)
(* All four messages share the loop; they differ in the cases of its       *)
(* switch.  A varint is read byte by byte by one action, whatever it is    *)
(* for, and another action acts on its value.                              *)
(***************************************************************************)
EXTENDS Integers, Sequences

CONSTANTS
    WordBits,    \* width of uint64 and int, 64 in Go
    MaxInt,      \* the largest int, 2^63 - 1 in Go
    FieldMod,    \* number of values of int32, 2^32 in Go
    Inputs       \* the calls: [type, data, expect], see the properties for expect

ASSUME WordAssumption ==
    /\ WordBits \in Nat
    /\ MaxInt \in Nat /\ MaxInt >= 127
    /\ 2 * (MaxInt + 1) = 2^WordBits
    /\ FieldMod \in Nat /\ FieldMod >= 16

Bytes == 0 .. 255
Types == { "MsgSubmitAgeProof", "MsgSubmitAgeProofResponse",
           "QueryVerificationStatusRequest", "QueryVerificationStatusResponse" }

\* A slice of Go is never longer than an int can say.  What a call is expected
\* to do plays no part in the decoder.
ASSUME InputsAssumption ==
    \A in \in Inputs :
       /\ in.type \in Types
       /\ in.data \in Seq(Bytes)
       /\ Len(in.data) <= MaxInt

-----------------------------------------------------------------------------
\* The switch over the field number: the field each case assigns and the wire
\* type it asks for.
Varint    == 0
Delimited == 2

SubmitAgeProofCases ==
    << [field |-> "creator",        wire |-> Delimited],
       [field |-> "proof",          wire |-> Delimited],
       [field |-> "public_witness", wire |-> Delimited],
       [field |-> "current_date",   wire |-> Delimited] >>
SubmitAgeProofResponseCases == << >>
StatusRequestCases  == << [field |-> "address", wire |-> Delimited] >>
StatusResponseCases ==
    << [field |-> "verified",    wire |-> Varint],
       [field |-> "verified_at", wire |-> Delimited] >>

Cases(type) ==
    CASE type = "MsgSubmitAgeProof"               -> SubmitAgeProofCases
      [] type = "MsgSubmitAgeProofResponse"       -> SubmitAgeProofResponseCases
      [] type = "QueryVerificationStatusRequest"  -> StatusRequestCases
      [] type = "QueryVerificationStatusResponse" -> StatusResponseCases

\* A message is a function of its fields; a new one holds Go's zero values.
Fields(type) == {Cases(type)[n].field : n \in 1 .. Len(Cases(type))}
NewMessage(type) ==
    [f \in Fields(type) |-> IF f = "verified" THEN FALSE ELSE << >>]

-----------------------------------------------------------------------------
\* uint64, int and int32, with the wrap-around of Go's conversions and sums.
WordMod == 2 * (MaxInt + 1)
ToInt(word) == IF word > MaxInt THEN word - WordMod ELSE word
Plus(a, b)  == ToInt(a + b)     \* for a and b that are not negative

FieldNumber(wire) ==
    LET n == (wire \div 8) % FieldMod
    IN  IF n < FieldMod \div 2 THEN n ELSE n - FieldMod
WireType(wire) == wire % 8

VARIABLES
    input,    \* the call: dAtA and the type of the receiver
    msg,      \* the receiver's fields
    pc,       \* the loop that runs, or how the call ended
    byte,     \* b, the byte of that loop read last: below 128 when it is the varint's last
    word,     \* its value so far
    shift,    \* the bits read of it so far
    start,    \* preIndex: where the current field begins
    base,     \* start of the slice that idx counts from: 0, or preIndex in a skip
    idx,      \* iNdEx
    number,   \* fieldNum of the current field
    depth,    \* groups that are open in a skip
    err       \* the error returned, or "nil"

vars == <<input, msg, pc, byte, word, shift, start, base, idx, number, depth, err>>

data  == input.data
Limit == Len(data) - base

\* Loops that read a varint, and the ones of them that belong to a skip.
SkipLoops == {"skipTag", "skipVarint", "skipLength"}
Loops     == {"tag", "value", "length"} \union SkipLoops

Init ==
    /\ input \in Inputs
    /\ msg = NewMessage(input.type)
    /\ pc = "next"
    /\ byte = 128
    /\ word = 0 /\ shift = 0
    /\ start = 0 /\ base = 0 /\ idx = 0
    /\ number = 0 /\ depth = 0
    /\ err = "nil"

-----------------------------------------------------------------------------
\* The call returns an error; nobody looks at its variables again.
Fail(error) ==
    /\ pc' = "done"
    /\ err' = error
    /\ UNCHANGED <<input, msg, byte, word, shift, start, base, idx, number, depth>>

\* Enter a varint loop.
Reading(loop) ==
    /\ pc' = loop
    /\ byte' = 128
    /\ word' = 0
    /\ shift' = 0

\* The head of the loop over the fields.
NextField ==
    /\ pc = "next" /\ idx < Len(data)
    /\ Reading("tag")
    /\ start' = idx
    /\ UNCHANGED <<input, msg, base, idx, number, depth, err>>

Return ==
    /\ pc = "next" /\ idx >= Len(data)
    /\ IF idx > Len(data) THEN Fail("UnexpectedEOF") ELSE Fail("nil")

\* One round of a varint loop: for shift := 0; ; shift += 7.
ReadByte ==
    /\ pc \in Loops /\ byte >= 128
    /\ IF shift >= WordBits THEN Fail("IntOverflow")
       ELSE IF idx >= Limit THEN Fail("UnexpectedEOF")
       ELSE LET b == data[base + idx + 1]
            IN  /\ word' = (word + (b % 128) * 2^shift) % WordMod
                /\ shift' = shift + 7
                /\ idx' = idx + 1
                /\ byte' = b
                /\ UNCHANGED <<input, msg, pc, start, base, number, depth, err>>

\* The tag of a field: illegal, of a case of the switch, or to be skipped.
KnownField(n)    == n \in DOMAIN Cases(input.type)
SkipUnknownField ==
    /\ Reading("skipTag")
    /\ base' = start
    /\ idx' = 0
    /\ depth' = 0
    /\ UNCHANGED <<input, msg, start, number, err>>

ReadKnownField(n) ==
    /\ IF Cases(input.type)[n].wire = Varint THEN Reading("value") ELSE Reading("length")
    /\ number' = n
    /\ UNCHANGED <<input, msg, start, base, idx, depth, err>>

TagRead ==
    /\ pc = "tag" /\ byte < 128
    /\ LET n == FieldNumber(word)
       IN  IF WireType(word) = 4 THEN Fail("EndGroup")
           ELSE IF n <= 0 THEN Fail("IllegalTag")
           ELSE IF ~KnownField(n) THEN SkipUnknownField
           ELSE IF Cases(input.type)[n].wire # WireType(word) THEN Fail("WrongWireType")
           ELSE ReadKnownField(n)

Assign(value, next) ==
    /\ msg' = [msg EXCEPT ![Cases(input.type)[number].field] = value]
    /\ pc' = "next"
    /\ idx' = next
    /\ UNCHANGED <<input, byte, word, shift, start, base, number, depth, err>>

\* A slip: the sum of index and length is not looked at when it wraps.
LengthReadUnwrapped ==
    /\ pc = "length" /\ byte < 128
    /\ LET length == ToInt(word)
           post   == Plus(idx, length)
       IN  IF length < 0 THEN Fail("InvalidLength")
           ELSE IF post > Len(data) THEN Fail("UnexpectedEOF")
           ELSE Assign(SubSeq(data, idx + 1, post), post)

\* A slip: a negative length moves the index back.
LengthReadSigned ==
    /\ pc = "length" /\ byte < 128
    /\ LET post == idx + ToInt(word)
       IN  IF post < 0 THEN Fail("InvalidLength")
           ELSE IF post > Len(data) THEN Fail("UnexpectedEOF")
           ELSE Assign(SubSeq(data, idx + 1, post), post)

\* A string field: the length, then its bytes.
LengthRead ==
    /\ pc = "length" /\ byte < 128
    /\ LET length == ToInt(word)
           post   == Plus(idx, length)
       IN  IF length < 0 THEN Fail("InvalidLength")
           ELSE IF post < 0 THEN Fail("InvalidLength")
           ELSE IF post > Len(data) THEN Fail("UnexpectedEOF")
           ELSE Assign(SubSeq(data, idx + 1, post), post)

\* The bool of QueryVerificationStatusResponse.
ValueRead ==
    /\ pc = "value" /\ byte < 128
    /\ Assign(word # 0, idx)

-----------------------------------------------------------------------------
\* skipTx and skipQuery, on the slice that begins at the unknown field, and
\* the checks of Unmarshal on what they return.
SkipReturns(skippy) ==
    LET next == Plus(base, skippy)
    IN  IF next < 0 THEN Fail("InvalidLength")
        ELSE IF next > Len(data) THEN Fail("UnexpectedEOF")
        ELSE /\ pc' = "next"
             /\ idx' = next
             /\ base' = 0
             /\ UNCHANGED <<input, msg, byte, word, shift, start, number, depth, err>>

\* A slip: a skip ends with the first item, whatever group is open.
ItemSkippedFlat(next, groups) ==
    IF next < 0 THEN Fail("InvalidLength") ELSE SkipReturns(next)

\* The end of a round of the skip's loop: it goes on while a group is open.
ItemSkipped(next, groups) ==
    IF next < 0 THEN Fail("InvalidLength")
    ELSE IF groups = 0 THEN SkipReturns(next)
    ELSE IF next >= Limit THEN Fail("UnexpectedEOF")
    ELSE /\ Reading("skipTag")
         /\ idx' = next
         /\ depth' = groups
         /\ UNCHANGED <<input, msg, start, base, number, err>>

SkipInto(loop) ==
    /\ Reading(loop)
    /\ UNCHANGED <<input, msg, start, base, idx, number, depth, err>>

SkipTagRead ==
    /\ pc = "skipTag" /\ byte < 128
    /\ \/ WireType(word) = 0 /\ SkipInto("skipVarint")
       \/ WireType(word) = 1 /\ ItemSkipped(Plus(idx, 8), depth)
       \/ WireType(word) = 2 /\ SkipInto("skipLength")
       \/ WireType(word) = 3 /\ ItemSkipped(idx, depth + 1)
       \/ WireType(word) = 4 /\ IF depth = 0 THEN Fail("UnexpectedEndOfGroup")
                                ELSE ItemSkipped(idx, depth - 1)
       \/ WireType(word) = 5 /\ ItemSkipped(Plus(idx, 4), depth)
       \/ WireType(word) > 5 /\ Fail("IllegalWireType")

SkipVarintRead ==
    /\ pc = "skipVarint" /\ byte < 128
    /\ ItemSkipped(idx, depth)

SkipLengthRead ==
    /\ pc = "skipLength" /\ byte < 128
    /\ IF ToInt(word) < 0 THEN Fail("InvalidLength")
       ELSE ItemSkipped(Plus(idx, ToInt(word)), depth)

Next ==
    \/ NextField
    \/ Return
    \/ ReadByte
    \/ TagRead
    \/ LengthRead
    \/ ValueRead
    \/ SkipTagRead
    \/ SkipVarintRead
    \/ SkipLengthRead

\* A single goroutine runs the call to its end.
Spec == Init /\ [][Next]_vars /\ WF_vars(Next)

-----------------------------------------------------------------------------
(***************************************************************************)
(* Properties.                                                             *)
(***************************************************************************)
\* What a call must do depends on where its bytes come from, input.expect:
\* "sent" are the bytes of a marshalled message, "items" those of a sequence of
\* whole items, "cut" of one whose last item is incomplete; "any" may be anything.

\* RoundTrip: what one node marshals, the other unmarshals to the same message,
\* with empty fields left out, and two-byte lengths (tx.pb.go:263-297, 374-550).
RoundTrip ==
    pc = "done" /\ input.expect.kind = "sent" =>
        err = "nil" /\ msg = input.expect.msg

\* WholeItemsAreRead: fields in any order, repeated (the last one counts), with
\* padded lengths and between unknown fields and groups of a newer version are
\* read; bytes that end within an item are refused (tx.pb.go:374-550, 601-678).
WholeItemsAreRead ==
    /\ pc = "done" /\ input.expect.kind = "items" => err = "nil" /\ msg = input.expect.msg
    /\ pc = "done" /\ input.expect.kind = "cut"   => err # "nil"

\* WithinBuffer: the index never leaves the buffer, whatever lengths the bytes
\* claim and however their sums wrap, so no read or slice panics
\* (tx.pb.go:421-431, 536-541, 654-672).
WithinBuffer == base >= 0 /\ idx >= 0 /\ base + idx <= Len(data)

\* RoundsAdvance: a round of the loop over the fields ends behind the byte it
\* began with, also one that skips a field; a length must not move the index
\* back (tx.pb.go:422-431, 530-543).
RoundsAdvance == [][pc # "next" /\ pc' = "next" => idx' > start]_vars

\* Terminates: every buffer is decoded or refused (tx.pb.go:376, 605).
Terminates == <>(pc = "done")

=============================================================================
