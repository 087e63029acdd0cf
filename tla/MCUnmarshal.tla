----------------------------- MODULE MCUnmarshal ----------------------------
(***************************************************************************)
(* The codec for TLC.  A word has 15 bits, so that a varint of three bytes *)
(* fills it with one bit to spare, as one of ten bytes fills 64 bits, and  *)
(* an int ends at 2^14 - 1.                                                *)
(***************************************************************************)
EXTENDS WireFormat, SequencesExt

Request  == "QueryVerificationStatusRequest"
Response == "QueryVerificationStatusResponse"
Submit   == "MsgSubmitAgeProof"
Empty    == "MsgSubmitAgeProofResponse"

Call(type, bytes, expect) == [type |-> type, data |-> bytes, expect |-> expect]

-----------------------------------------------------------------------------
\* Messages as the nodes marshal them; 130 bytes need a length of two bytes.
Texts == { << >>, <<99>>, [n \in 1 .. 127 |-> 7], [n \in 1 .. 130 |-> 200] }
Messages ==
         {<<Submit, [creator |-> c, proof |-> p, public_witness |-> w, current_date |-> d]>> :
             c \in Texts, p \in Texts, w \in {<< >>, <<0>>}, d \in {<< >>, <<50, 48>>}}
  \union {<<Request, [address |-> a]>> : a \in Texts}
  \union {<<Response, [verified |-> v, verified_at |-> a]>> : v \in BOOLEAN, a \in Texts}
  \union {<<Empty, << >>>>}
SentInputs ==
    {Call(m[1], Marshal(m[1], m[2]), [kind |-> "sent", msg |-> m[2]]) : m \in Messages}

-----------------------------------------------------------------------------
\* Items: tokens and the field they set, "none" for one no case of the switch knows.
Token(tag, prefix, body)   == [tag |-> tag, prefix |-> prefix, body |-> body]
Item(token, field, value)  == [tokens |-> <<token>>, field |-> field, value |-> value]
Unknown(tokens)            == [tokens |-> tokens, field |-> "none", value |-> 0]

NewerItems ==
    { Unknown(<<Token(<<40>>, <<150, 1>>, << >>)>>),                   \* field 5, a varint
      Unknown(<<Token(<<49>>, << >>, <<10, 1, 0, 0, 255, 0, 0, 10>>)>>), \* field 6, fixed64
      Unknown(<<Token(<<58>>, <<130, 0>>, <<10, 0>>)>>),               \* field 7, padded length
      Unknown(<<Token(<<67>>, << >>, << >>),                           \* group 8, which holds
                Token(<<10>>, <<1>>, <<65>>),                          \* field 1
                Token(<<75>>, << >>, << >>),                           \* and group 9
                Token(<<8>>,  <<3>>, << >>),
                Token(<<76>>, << >>, << >>),
                Token(<<68>>, << >>, << >>)>>),
      Unknown(<<Token(<<77>>, << >>, <<10, 3, 0, 0>>)>>),              \* field 9, fixed32
      Unknown(<<Token(<<160, 1>>, <<7>>, << >>)>>) }                   \* field 20, two bytes
SubmitItems ==
    { Item(Token(<<10>>, <<1>>, <<99>>), "creator", <<99>>),
      Item(Token(<<10>>, <<0>>, << >>), "creator", << >>),
      Item(Token(<<18>>, <<130, 0>>, <<10, 0>>), "proof", <<10, 0>>),
      Item(Token(<<26>>, <<1>>, <<34>>), "public_witness", <<34>>),
      Item(Token(<<34>>, <<2>>, <<50, 48>>), "current_date", <<50, 48>>) }
ResponseItems ==
    { Item(Token(<<8>>, <<1>>, << >>), "verified", TRUE),
      Item(Token(<<8>>, <<128, 0>>, << >>), "verified", FALSE),
      Item(Token(<<8>>, <<128, 1>>, << >>), "verified", TRUE),
      Item(Token(<<18>>, <<1>>, <<84>>), "verified_at", <<84>>) }

BytesOf(tokens) ==
    FoldLeft(LAMBDA bytes, t : bytes \o t.tag \o t.prefix \o t.body, << >>, tokens)
TokensOf(items) == FoldLeft(LAMBDA tokens, item : tokens \o item.tokens, << >>, items)
SetBy(type, items) ==
    FoldLeft(LAMBDA m, item : IF item.field = "none" THEN m
                              ELSE [m EXCEPT ![item.field] = item.value],
             NewMessage(type), items)

DocumentOf(type, tokens) ==
    LET N == Len(tokens)
        at[i \in 1 .. N + 1] == IF i = 1 THEN 0 ELSE at[i - 1] + Extent(tokens[i - 1])
        open[i \in 1 .. N + 1] == IF i = 1 THEN 0 ELSE DepthAfter(tokens[i - 1], open[i - 1])
        msgs[i \in 1 .. N + 1] ==
            IF i = 1 THEN NewMessage(type)
            ELSE Updated(type, msgs[i - 1], open[i - 1], tokens[i - 1])
    IN  [bytes |-> BytesOf(tokens), tokens |-> tokens, at |-> at, depth |-> open, msgs |-> msgs]

\* A sequence of items, and the same one cut within its last item.
CallsOf(type, items) ==
    LET doc   == DocumentOf(type, TokensOf(items))
        whole == Len(BytesOf(TokensOf(Front(items))))
    IN  {Call(type, doc.bytes, [kind |-> "items", msg |-> SetBy(type, items), doc |-> doc])}
        \union {Call(type, SubSeq(doc.bytes, 1, n), [kind |-> "cut", doc |-> doc]) :
                   n \in whole + 1 .. Len(doc.bytes) - 1}

SequencesOf(items) == UNION {[1 .. n -> items] : n \in 1 .. 2}
ItemInputs ==
         UNION {CallsOf(Submit, s) : s \in SequencesOf(SubmitItems \union NewerItems)}
  \union UNION {CallsOf(Response, s) : s \in SequencesOf(ResponseItems \union NewerItems)}
  \union UNION {CallsOf(Empty, s) : s \in SequencesOf(NewerItems)}

MessageInputs == SentInputs \union ItemInputs

-----------------------------------------------------------------------------
\* Every sequence of up to four bytes of an alphabet that has tags of known and
\* unknown fields, opens and closes groups, and makes overlong varints, negative
\* lengths (252 255 1 is -4) and lengths whose sum with the index wraps (255 127).
Alphabet == {0, 1, 8, 10, 58, 67, 68, 127, 252, 255}
Strings(n) == UNION {[1 .. k -> Alphabet] : k \in 0 .. n}
AnyCall(type, bytes) == Call(type, bytes, [kind |-> "any"])
GarbageInputs ==
         {AnyCall(Submit, s) : s \in Strings(4)}
  \union {AnyCall(Response, s) : s \in Strings(3)}
  \union {AnyCall(Submit, <<t>> \o s) :
             t \in {59, 60, 62, 63, 2, 6}, s \in Strings(2)}
  \* field 257, which is field 1 modulo FieldMod, and field 129, which is negative
  \union {AnyCall(Submit, s) : s \in {<<138, 16, 1, 5>>, <<136, 8, 1>>}}

AllInputs == MessageInputs \union GarbageInputs

MCMaxInt == 2^14 - 1
=============================================================================
