----------------------------- MODULE WireFormat -----------------------------
(***************************************************************************)
(* What the bytes of a message mean: the wire format of protocol buffers,  *)
(* stated without an order of reading or of writing.  Like AgeReference it *)
(* models no code: it is what Marshal and Unmarshal are compared with.     *)
(*                                                                         *)
(* A document is a sequence of tokens: a tag and what its wire type asks   *)
(* for.  A group is a token that opens it, the tokens within, and one that *)
(* closes it.                                                              *)
(***************************************************************************)
EXTENDS Unmarshal, Marshal

Fixed64    == 1
StartGroup == 3
EndGroup   == 4
Fixed32    == 5

\* Groups of seven bits, low ones first, each but the last with its high bit
\* set; padding is legal as long as a word is not exceeded.
IsVarint(bytes) ==
    /\ bytes \in Seq(Bytes)
    /\ Len(bytes) > 0 /\ 7 * (Len(bytes) - 1) < WordBits
    /\ \A n \in 1 .. Len(bytes) : bytes[n] < 128 <=> n = Len(bytes)

GroupSums(bytes) ==
    LET sum[n \in 0 .. Len(bytes)] ==
            IF n = 0 THEN 0 ELSE sum[n - 1] + (bytes[n] % 128) * 2^(7 * (n - 1))
    IN  sum
VarintValue(bytes) == GroupSums(bytes)[Len(bytes)] % WordMod

\* A token: its tag, then a varint or a length, then the bytes it is the length of.
TagOf(token)    == VarintValue(token.tag)
Prefix(token)   == VarintValue(token.prefix)
LenTagged(token) == Len(token.tag) + Len(token.prefix)
Extent(token)   == LenTagged(token) + Len(token.body)

IsToken(token) ==
    /\ IsVarint(token.tag)
    /\ token.prefix \in Seq(Bytes) /\ token.body \in Seq(Bytes)
    /\ LET wire == WireType(TagOf(token))
       IN  \/ wire = Varint /\ IsVarint(token.prefix) /\ token.body = << >>
           \/ wire = Fixed64 /\ token.prefix = << >> /\ Len(token.body) = 8
           \/ wire = Delimited /\ IsVarint(token.prefix) /\ ToInt(Prefix(token)) = Len(token.body)
           \/ wire \in {StartGroup, EndGroup} /\ token.prefix = << >> /\ token.body = << >>
           \/ wire = Fixed32 /\ token.prefix = << >> /\ Len(token.body) = 4

\* How many groups are open behind a token, if so many are before it.
DepthAfter(token, groups) ==
    CASE WireType(TagOf(token)) = StartGroup -> groups + 1
      [] WireType(TagOf(token)) = EndGroup   -> groups - 1
      [] OTHER -> groups

-----------------------------------------------------------------------------
\* The field a token of the message itself is for: of the message's type, or of a
\* newer version's.
Number(token)          == FieldNumber(TagOf(token))
IsKnown(type, token)   == Number(token) \in DOMAIN Cases(type)
CaseOf(type, token)    == Cases(type)[Number(token)]
ValueOf(type, token)   ==
    IF CaseOf(type, token).wire = Varint THEN Prefix(token) # 0 ELSE token.body

IsField(type, token) ==
    /\ Number(token) > 0
    /\ IsKnown(type, token) => WireType(TagOf(token)) = CaseOf(type, token).wire

\* The message when the token has been read; later values replace earlier ones.
Updated(type, m, groups, token) ==
    IF groups = 0 /\ IsKnown(type, token)
    THEN [m EXCEPT ![CaseOf(type, token).field] = ValueOf(type, token)]
    ELSE m

\* bytes has part behind its first n bytes.
Holds(bytes, n, part) == \A k \in 1 .. Len(part) : bytes[n + k] = part[k]

\* A document: its bytes and tokens, and before each token and behind the last one the
\* bytes that precede it (at), the groups open there (depth), and the message so far (msgs).
IsDocument(type, doc) ==
    LET N == Len(doc.tokens)
    IN  /\ N \in Nat
        /\ doc.bytes \in Seq(Bytes) /\ Len(doc.bytes) <= MaxInt
        /\ \A i \in 1 .. N : IsToken(doc.tokens[i])
        /\ doc.at \in [1 .. N + 1 -> 0 .. Len(doc.bytes)]
        /\ doc.depth \in [1 .. N + 1 -> Nat]
        /\ doc.at[1] = 0 /\ doc.depth[1] = 0 /\ doc.msgs[1] = NewMessage(type)
        /\ doc.at[N + 1] = Len(doc.bytes) /\ doc.depth[N + 1] = 0
        /\ \A i \in 1 .. N :
              LET token == doc.tokens[i]
              IN  /\ Holds(doc.bytes, doc.at[i], token.tag \o token.prefix \o token.body)
                  /\ doc.at[i + 1] = doc.at[i] + Extent(token)
                  /\ doc.depth[i + 1] = DepthAfter(token, doc.depth[i])
                  /\ doc.depth[i] = 0 => IsField(type, token)
                  /\ doc.msgs[i + 1] = Updated(type, doc.msgs[i], doc.depth[i], token)

Meaning(doc) == doc.msgs[Len(doc.tokens) + 1]

\* A prefix of a document that ends within a token or a group.
IsCut(bytes, doc) ==
    /\ Len(bytes) <= Len(doc.bytes)
    /\ bytes = SubSeq(doc.bytes, 1, Len(bytes))
    /\ \A i \in 1 .. Len(doc.tokens) + 1 : doc.depth[i] = 0 => doc.at[i] # Len(bytes)

-----------------------------------------------------------------------------
\* A message as a Go value.  Fields of 2^28 bytes and more are beyond VarintBytes.
IsMessage(type, m) ==
    /\ DOMAIN m = Fields(type)
    /\ m = [f \in Fields(type) |-> m[f]]
    /\ \A f \in Fields(type) :
          IF f = "verified" THEN m[f] \in BOOLEAN
          ELSE m[f] \in Seq(Bytes) /\ Len(m[f]) < 2^28

\* What is known of the calls: see the properties of Unmarshal.
ASSUME ExpectAssumption ==
    \A in \in Inputs :
       /\ in.expect.kind \in {"sent", "items", "cut", "any"}
       /\ in.expect.kind = "sent"  => /\ IsMessage(in.type, in.expect.msg)
                                      /\ in.data = Marshal(in.type, in.expect.msg)
       /\ in.expect.kind = "items" => /\ IsDocument(in.type, in.expect.doc)
                                      /\ in.data = in.expect.doc.bytes
                                      /\ in.expect.msg = Meaning(in.expect.doc)
       /\ in.expect.kind = "cut"   => /\ IsDocument(in.type, in.expect.doc)
                                      /\ IsCut(in.data, in.expect.doc)

=============================================================================
