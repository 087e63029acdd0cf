------------------------------ MODULE Marshal -------------------------------
(***************************************************************************)
(* The encoder that protoc-gen-gogo generates for the module's messages in *)
(* types/tx.pb.go and types/query.pb.go.  Size is computed first and a     *)
(* buffer of that length is filled from its end to its beginning, so the   *)
(* two have to agree to the byte.                                          *)
(***************************************************************************)
EXTENDS Integers, Sequences

\* A varint: groups of seven bits, low ones first.  Lengths here are below 2^30.
Len64(v) == CHOOSE n \in 0 .. 30 : v < 2^n /\ (n = 0 \/ v >= 2^(n - 1))
OrOne(v) == IF v = 0 THEN 1 ELSE v      \* as long as v|1

\* A slip: the length of a varint counted in groups of eight bits.
SovOctets(v) == (Len64(OrOne(v)) + 7) \div 8
Sov(v)       == (Len64(OrOne(v)) + 6) \div 7

\* What the loop of encodeVarint writes, while v >= 1<<7.
VarintBytes(v) ==
    LET last == CHOOSE n \in 1 .. 4 : v < 128^n /\ (n = 1 \/ v >= 128^(n - 1))
    IN  [n \in 1 .. last |-> ((v \div 128^(n - 1)) % 128) + (IF n < last THEN 128 ELSE 0)]

\* Writing bytes at an offset of the buffer, as copy and assignments do.
Put(buffer, offset, bytes) ==
    [n \in DOMAIN buffer |->
        IF n \in offset + 1 .. offset + Len(bytes) THEN bytes[n - offset] ELSE buffer[n]]

EncodeVarint(at, v) ==
    LET offset == at.i - Sov(v)
    IN  [i |-> offset, buffer |-> Put(at.buffer, offset, VarintBytes(v))]

Prepend(at, bytes) ==
    [i |-> at.i - Len(bytes), buffer |-> Put(at.buffer, at.i - Len(bytes), bytes)]

\* Fields that are empty or false are not written.
WriteString(at, tag, value) ==
    IF value = << >> THEN at
    ELSE Prepend(EncodeVarint(Prepend(at, value), Len(value)), <<tag>>)
WriteBool(at, tag, value) ==
    IF value THEN Prepend(Prepend(at, <<1>>), <<tag>>) ELSE at

StringSize(value) == IF value = << >> THEN 0 ELSE 1 + Len(value) + Sov(Len(value))
BoolSize(value)   == IF value THEN 2 ELSE 0

-----------------------------------------------------------------------------
\* The messages, their last fields written first.
SubmitAgeProofSize(m) ==
    StringSize(m.creator) + StringSize(m.proof)
        + StringSize(m.public_witness) + StringSize(m.current_date)
WriteSubmitAgeProof(at, m) ==
    LET date    == WriteString(at, 34, m.current_date)
        witness == WriteString(date, 26, m.public_witness)
        proof   == WriteString(witness, 18, m.proof)
    IN  WriteString(proof, 10, m.creator)

StatusRequestSize(m)      == StringSize(m.address)
WriteStatusRequest(at, m) == WriteString(at, 10, m.address)

StatusResponseSize(m)      == BoolSize(m.verified) + StringSize(m.verified_at)
WriteStatusResponse(at, m) == WriteBool(WriteString(at, 18, m.verified_at), 8, m.verified)

Size(type, m) ==
    CASE type = "MsgSubmitAgeProof"               -> SubmitAgeProofSize(m)
      [] type = "MsgSubmitAgeProofResponse"       -> 0
      [] type = "QueryVerificationStatusRequest"  -> StatusRequestSize(m)
      [] type = "QueryVerificationStatusResponse" -> StatusResponseSize(m)

MarshalToSizedBuffer(type, m, at) ==
    CASE type = "MsgSubmitAgeProof"               -> WriteSubmitAgeProof(at, m)
      [] type = "MsgSubmitAgeProofResponse"       -> at
      [] type = "QueryVerificationStatusRequest"  -> WriteStatusRequest(at, m)
      [] type = "QueryVerificationStatusResponse" -> WriteStatusResponse(at, m)

\* The buffer, filled from i = Size; what Marshal returns is dAtA[:n].
Marshal(type, m) ==
    LET n      == Size(type, m)
        filled == MarshalToSizedBuffer(type, m, [i |-> n, buffer |-> [k \in 1 .. n |-> 0]])
    IN  SubSeq(filled.buffer, 1, n - filled.i)

=============================================================================
