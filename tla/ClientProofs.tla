---------------------------- MODULE ClientProofs ----------------------------
(***************************************************************************)
(* Theorems about a demo program and the node it talks to.  The node is    *)
(* that of module AgeVerifyApp, so what is proved there holds here too     *)
(* (ClientRunsTheNode).  What a program says in the end rests on           *)
(*                                                                         *)
(*   Marks              no program sends one transaction twice, hence      *)
(*   InOnePlace         a transaction has at most one result;              *)
(*   Judged             a program goes on when that is the one it wants;   *)
(*   KeyUsed            a step that proves has had a key;                  *)
(*   ResultsAndRecord   the account is recorded if a result is 0, and only *)
(*                      if one was, published or lost;                     *)
(*   IndexVerdicts      results are the handler's verdicts.                *)
(***************************************************************************)
EXTENDS Client, AgeRegistryProofs

-----------------------------------------------------------------------------
(***************************************************************************)
(* The three lists of steps.                                               *)
(***************************************************************************)
Wants == {"accepted", "rejected"}
Waits == {"wait", "look"}
Before(n) == 1 .. n

\* A submitted transaction is waited for, or looked for, in the next step, and
\* a step that waits follows a submission.
WellFormed(steps) ==
    /\ Len(steps) \in Nat
    /\ \A k \in 1 .. Len(steps) :
         /\ steps[k].do = "prove" => steps[k].minAge \in {0, 18}
         /\ steps[k].do = "submit" =>
              /\ k + 1 \in 1 .. Len(steps)
              /\ steps[k + 1].do \in Waits
              /\ steps[k + 1].want \in Wants
         /\ steps[k].do \in Waits => k > 1 /\ steps[k - 1].do = "submit"
         /\ steps[k].do = "look" =>
              steps[k].missing = IF steps[k].want = "accepted" THEN 99 ELSE 0

LEMMA PositiveWellFormed == WellFormed(PositiveDemo)
<1>1. Len(PositiveDemo) = 6
  BY DEF PositiveDemo
<1>2. /\ PositiveDemo[1].do = "connect" /\ PositiveDemo[2].do = "ask"
      /\ PositiveDemo[3].do = "prove" /\ PositiveDemo[3].minAge = 18
      /\ PositiveDemo[4].do = "submit"
      /\ PositiveDemo[5].do = "wait" /\ PositiveDemo[5].want = "accepted"
      /\ PositiveDemo[6].do = "ask"
  BY DEF PositiveDemo, Connect, Ask, Prove, Submit, Wait
<1>3. 1 .. 6 = {1, 2, 3, 4, 5, 6}
  OBVIOUS
<1>4. QED
  BY <1>1, <1>2, <1>3 DEF WellFormed, Waits, Wants

LEMMA NegativeWellFormed == WellFormed(NegativeDemo)
<1>1. Len(NegativeDemo) = 11
  BY DEF NegativeDemo
<1>2. /\ NegativeDemo[1].do = "connect" /\ NegativeDemo[2].do = "mustRefuse"
      /\ NegativeDemo[3].do = "prove" /\ NegativeDemo[3].minAge = 0
      /\ NegativeDemo[4].do = "submit"
      /\ NegativeDemo[5].do = "wait" /\ NegativeDemo[5].want = "rejected"
      /\ NegativeDemo[6].do = "prove" /\ NegativeDemo[6].minAge = 18
      /\ NegativeDemo[7].do = "submit"
      /\ NegativeDemo[8].do = "wait" /\ NegativeDemo[8].want = "rejected"
      /\ NegativeDemo[9].do = "submit"
      /\ NegativeDemo[10].do = "wait" /\ NegativeDemo[10].want = "rejected"
      /\ NegativeDemo[11].do = "ask"
  BY DEF NegativeDemo, Connect, Ask, Prove, Submit, Wait, MustRefuse
<1>3. 1 .. 11 = {1, 2, 3, 4, 5, 6, 7, 8, 9, 10, 11}
  OBVIOUS
<1>4. QED
  BY <1>1, <1>2, <1>3 DEF WellFormed, Waits, Wants

LEMMA ScriptWellFormed == WellFormed(ScriptDemo)
<1>1. Len(ScriptDemo) = 8
  BY DEF ScriptDemo
<1>2. /\ ScriptDemo[1].do = "connect"
      /\ ScriptDemo[2].do = "prove" /\ ScriptDemo[2].minAge = 18
      /\ ScriptDemo[3].do = "submit"
      /\ ScriptDemo[4].do = "look" /\ ScriptDemo[4].want = "accepted"
      /\ ScriptDemo[4].missing = 99
      /\ ScriptDemo[5].do = "ask"
      /\ ScriptDemo[6].do = "submit"
      /\ ScriptDemo[7].do = "look" /\ ScriptDemo[7].want = "rejected"
      /\ ScriptDemo[7].missing = 0
      /\ ScriptDemo[8].do = "mustRefuse"
  BY DEF ScriptDemo, Connect, Ask, Prove, Submit, Look, MustRefuse
<1>3. 1 .. 8 = {1, 2, 3, 4, 5, 6, 7, 8}
  OBVIOUS
<1>4. QED
  BY <1>1, <1>2, <1>3 DEF WellFormed, Waits, Wants

Demos == {"positive", "negative", "script"}

LEMMA StepsWellFormed == program \in Demos => WellFormed(Steps)
BY PositiveWellFormed, NegativeWellFormed, ScriptWellFormed DEF Demos, Steps

-----------------------------------------------------------------------------
(***************************************************************************)
(* The node under the program.                                             *)
(***************************************************************************)
ClientTypes ==
    /\ program \in Demos
    /\ at \in Nat /\ at >= 1 /\ at <= Len(Steps) + 1
    /\ clock \in StartClock .. MaxClock
    /\ offset \in Offsets
    /\ lastTime \in Nat /\ block.time \in Nat
    /\ proof.object \in ProgramProofs
    /\ proof.date \in Days \union {BadDate}

\* What every step of a program has in common.
LEMMA StepsOfClient ==
    ASSUME ClientStep
    PROVE  /\ UNCHANGED <<program, keyFile, offset, clock, publishing, index>>
           /\ \/ at' = at + 1 /\ at <= Len(Steps) /\ ending' = ending
              \/ at' = at /\ UNCHANGED sent
           /\ ProveStep \/ UNCHANGED proof
           /\ SubmitStep \/ UNCHANGED <<vars, sent>>
           /\ at' # at => /\ Step.do = "prove" => ProveStep /\ keyFile \in Keys
                          /\ Step.do = "submit" => SubmitStep
           /\ ending' = "complete" => ending = "complete" \/ at > Len(Steps)
<1> USE DEF Here, GoOn, Exit, NodeUnchanged, indexer, Judge
<1>1. CASE ConnectStep
  BY <1>1 DEF ConnectStep
<1>2. CASE ProveStep
  BY <1>2 DEF ProveStep, ProverSucceeds
<1>3. CASE MustRefuseStep
  BY <1>3 DEF MustRefuseStep
<1>4. CASE SubmitStep
  BY <1>4 DEF SubmitStep
<1>5. CASE FindResult
  BY <1>5 DEF FindResult
<1>6. CASE GiveUp
  BY <1>6 DEF GiveUp
<1>7. CASE LookStep
  BY <1>7 DEF LookStep
<1>8. CASE AskStep
  BY <1>8 DEF AskStep
<1>9. CASE Complete
  BY <1>9 DEF Complete
<1>10. QED
  BY <1>1, <1>2, <1>3, <1>4, <1>5, <1>6, <1>7, <1>8, <1>9 DEF ClientStep

LEMMA LocalDayInCalendar ==
    ASSUME ClientTypes
    PROVE  LocalDay \in Days /\ LocalDay # FutureDay
BY LocalDatesAssumption DEF ClientTypes, LocalDay

\* Whatever a program submits is a transaction the node may be sent.
LEMMA SubmitIsCheckTx ==
    ASSUME ClientTypes, SubmitStep
    PROVE  \/ UNCHANGED <<vars, sent>> /\ at' = at
           \/ /\ CheckTx(<<MsgOf(Step.what, Step.day)>>)
              /\ <<MsgOf(Step.what, Step.day)>> \in ProgramTxs
              /\ sent' = Append(sent, [tx   |-> <<MsgOf(Step.what, Step.day)>>,
                                       want |-> Steps[at + 1].want])
              /\ at' = at + 1
<1> DEFINE msg == MsgOf(Step.what, Step.day)
<1>1. \E p \in ProgramProofs, w \in {"matching", "other"}, d \in Days \union {BadDate} :
        msg = [creator |-> Account, proof |-> p, witness |-> w, date |-> d]
  <2> DEFINE p == IF Step.what = "fake" THEN NotAProof ELSE proof.object
             w == IF Step.what = "fake" THEN "other" ELSE "matching"
             d == IF Step.day = "today" THEN LocalDay ELSE proof.date
  <2>1. NotAProof \in ProgramProofs
    BY DEF ProgramProofs
  <2>2. p \in ProgramProofs
    BY <2>1 DEF ClientTypes
  <2>3. w \in {"matching", "other"}
    OBVIOUS
  <2>4. d \in Days \union {BadDate}
    BY LocalDayInCalendar DEF ClientTypes
  <2>5. msg = [creator |-> Account, proof |-> p, witness |-> w, date |-> d]
    BY DEF MsgOf
  <2>6. QED
    BY <2>2, <2>3, <2>4, <2>5
<1>2. <<msg>> \in ProgramTxs
  BY <1>1 DEF ProgramTxs
<1>3. QED
  BY <1>2 DEF SubmitStep, GoOn, Exit

\* Each step of the client's system is one of the node, or none of it.
LEMMA ClientStepsAreNodes == ClientTypes /\ [ClientNext]_allVars => [Next]_vars
<1> SUFFICES ASSUME ClientTypes, [ClientNext]_allVars PROVE [Next]_vars
  OBVIOUS
<1>1. CASE ClientStep
  BY <1>1, StepsOfClient, SubmitIsCheckTx, ProgramTxsAssumption DEF Next
<1>2. CASE Tick
  BY <1>2 DEF Tick
<1>3. CASE NodeStep
  <2>1. ASSUME NEW n \in 0 .. MaxBlockTxs, NEW t \in lastTime + 1 .. clock, DecideBlock(n, t)
        PROVE  Next
    <3>1. t \in 1 .. MaxTime
      BY ClientAssumption, AppAssumption DEF ClientTypes
    <3>2. QED
      BY <2>1, <3>1 DEF Next
  <2>2. QED
    BY <1>3, <2>1 DEF NodeStep, CommitAndPublish, IndexBlock, CrashNode, Next
<1>4. CASE UNCHANGED allVars
  BY <1>4 DEF allVars
<1>5. QED
  BY <1>1, <1>2, <1>3, <1>4 DEF ClientNext

LEMMA ClientTypesInvariant == ClientSpec => []ClientTypes
<1>1. ClientInit => ClientTypes
  <2> SUFFICES ASSUME ClientInit PROVE ClientTypes
    OBVIOUS
  <2>1. program \in Demos /\ WellFormed(Steps)
    BY ClientAssumption, StepsWellFormed DEF ClientInit, Demos
  <2>2. at \in Nat /\ at >= 1 /\ at <= Len(Steps) + 1
    BY <2>1 DEF ClientInit, WellFormed
  <2>3. clock \in StartClock .. MaxClock
    BY ClientAssumption DEF ClientInit
  <2>4. QED
    BY <2>1, <2>2, <2>3 DEF ClientInit, Init, NoBlock, NoProof, ProgramProofs, ClientTypes
<1>2. ClientTypes /\ [ClientNext]_allVars => ClientTypes'
  <2> SUFFICES ASSUME ClientTypes, [ClientNext]_allVars PROVE ClientTypes'
    OBVIOUS
  <2>1. WellFormed(Steps)
    BY StepsWellFormed DEF ClientTypes
  <2>2. CASE ClientStep
    <3>1. Steps' = Steps
      BY <2>2, StepsOfClient DEF Steps
    <3>2. at' \in Nat /\ at' >= 1 /\ at' <= Len(Steps) + 1
      BY <2>1, <2>2, StepsOfClient DEF ClientTypes, WellFormed
    <3>3. UNCHANGED <<lastTime, block>>
      BY <2>2, StepsOfClient, SubmitIsCheckTx DEF CheckTx, vars, disk
    <3>4. CASE ProveStep
      <4>1. Step.do = "prove" /\ at \in 1 .. Len(Steps)
        BY <3>4 DEF ProveStep, Here, ClientTypes
      <4>2. Step.minAge \in {0, 18}
        BY <2>1, <4>1 DEF WellFormed, Step
      <4>3. DayOf(Step.day) \in Days
        BY LocalDayInCalendar, ClientAssumption DEF DayOf
      <4>4. keyFile \in Keys => ProofOf(keyFile, StepPublic) \in ProgramProofs
        BY <4>2, <4>3 DEF StepPublic, ProgramProofs
      <4>5. proof' = proof \/ (/\ proof'.object \in ProgramProofs
                               /\ proof'.date \in Days \union {BadDate})
        BY <3>4, <4>3, <4>4 DEF ProveStep, ProverSucceeds
      <4>6. QED
        BY <2>2, <3>1, <3>2, <3>3, <4>5, StepsOfClient DEF ClientTypes
    <3>5. CASE UNCHANGED proof
      BY <2>2, <3>1, <3>2, <3>3, <3>5, StepsOfClient DEF ClientTypes
    <3>6. QED
      BY <2>2, <3>4, <3>5, StepsOfClient
  <2>3. CASE Tick
    <3>1. clock' \in StartClock .. MaxClock
      BY <2>3, ClientAssumption DEF Tick, ClientTypes
    <3>2. QED
      BY <2>3, <3>1 DEF Tick, ClientTypes, Steps, vars, disk
  <2>4. CASE NodeStep /\ UNCHANGED <<client, clock>>
    <3>1. lastTime' \in Nat /\ block'.time \in Nat
      BY <2>4 DEF NodeStep, CommitAndPublish, IndexBlock, CrashNode, vars, InitChain, Restart, Crash, MsgFails, TxPasses,
                  Commit, DecideBlock, disk, NoBlock, ClientTypes
    <3>2. QED
      BY <2>4, <3>1 DEF client, ClientTypes, Steps
  <2>5. CASE UNCHANGED allVars
    BY <2>5 DEF allVars, vars, disk, client, ClientTypes, Steps
  <2>6. QED
    BY <2>2, <2>3, <2>4, <2>5 DEF ClientNext
<1>3. QED
  BY <1>1, <1>2, PTL DEF ClientSpec

\* ClientRunsTheNode: the system of a demo program and a node is a run of the
\* node's own specification, so every theorem about that holds under a client.
THEOREM ClientRunsTheNode == ClientSpec => Spec
<1>1. ClientInit => Init
  BY DEF ClientInit
<1>2. QED
  BY <1>1, ClientTypesInvariant, ClientStepsAreNodes, PTL DEF ClientSpec, Spec

-----------------------------------------------------------------------------
(***************************************************************************)
(* Sequences of transactions.                                              *)
(***************************************************************************)
TxsOf(seq)        == {seq[k] : k \in 1 .. Len(seq)}
AllDifferent(seq) == \A j, k \in 1 .. Len(seq) : seq[j] = seq[k] => j = k

LEMMA EmptyHasNone == TxsOf(<<>>) = {} /\ AllDifferent(<<>>)
BY DEF TxsOf, AllDifferent

LEMMA AppendElements ==
    ASSUME NEW S, NEW seq \in Seq(S), NEW x \in S
    PROVE  /\ Len(seq) \in Nat /\ Len(Append(seq, x)) = Len(seq) + 1
           /\ Append(seq, x)[Len(seq) + 1] = x
           /\ \A k \in 1 .. Len(seq) : Append(seq, x)[k] = seq[k]
           /\ \A k \in 1 .. Len(seq) + 1 : k \in 1 .. Len(seq) \/ k = Len(seq) + 1
           /\ \A k \in 1 .. Len(seq) : k \in 1 .. Len(seq) + 1 /\ k # Len(seq) + 1
           /\ Len(seq) + 1 \in 1 .. Len(seq) + 1
OBVIOUS

LEMMA AppendTxs ==
    ASSUME NEW S, NEW seq \in Seq(S), NEW x \in S
    PROVE  /\ TxsOf(Append(seq, x)) = TxsOf(seq) \union {x}
           /\ AllDifferent(seq) /\ x \notin TxsOf(seq) => AllDifferent(Append(seq, x))
<1> DEFINE n == Len(seq)
           more == Append(seq, x)
<1>1. /\ Len(more) = n + 1
      /\ more[n + 1] = x
      /\ \A k \in 1 .. n : more[k] = seq[k]
      /\ \A k \in 1 .. n + 1 : k \in 1 .. n \/ k = n + 1
      /\ \A k \in 1 .. n : k \in 1 .. n + 1 /\ k # n + 1
      /\ n + 1 \in 1 .. n + 1
  BY AppendElements
<1> HIDE DEF n, more
<1>2. TxsOf(more) = {seq[k] : k \in 1 .. n} \union {x}
  BY <1>1 DEF TxsOf
<1>3. (\A j, k \in 1 .. n : seq[j] = seq[k] => j = k) /\ x \notin {seq[k] : k \in 1 .. n}
        => AllDifferent(more)
  BY <1>1 DEF AllDifferent
<1>4. QED
  BY <1>2, <1>3 DEF TxsOf, AllDifferent, n, more

\* A sequence of different transactions cut in two.
LEMMA CutTxs ==
    ASSUME NEW S, NEW seq \in Seq(S), NEW n \in Nat, n <= Len(seq), AllDifferent(seq)
    PROVE  LET front == SubSeq(seq, 1, n)
               back  == SubSeq(seq, n + 1, Len(seq))
           IN  /\ AllDifferent(front) /\ AllDifferent(back)
               /\ TxsOf(front) \cap TxsOf(back) = {}
               /\ TxsOf(front) \union TxsOf(back) \subseteq TxsOf(seq)
<1> DEFINE len == Len(seq)
           front == SubSeq(seq, 1, n)
           back  == SubSeq(seq, n + 1, len)
<1>1. /\ len \in Nat
      /\ Len(front) = n /\ \A k \in 1 .. n : front[k] = seq[k]
      /\ Len(back) = len - n /\ \A k \in 1 .. len - n : back[k] = seq[k + n]
  OBVIOUS
<1>2. /\ \A k \in 1 .. n : k \in 1 .. len
      /\ \A k \in 1 .. len - n : k + n \in 1 .. len
      /\ \A j \in 1 .. n, k \in 1 .. len - n : j # k + n
      /\ \A j, k \in 1 .. len - n : j + n = k + n => j = k
  BY <1>1
<1> HIDE DEF front, back, len
<1>3. \A j, k \in 1 .. len : seq[j] = seq[k] => j = k
  BY DEF AllDifferent, len
<1>4. AllDifferent(front)
  BY <1>1, <1>2, <1>3 DEF AllDifferent
<1>5. AllDifferent(back)
  BY <1>1, <1>2, <1>3 DEF AllDifferent
<1>6. TxsOf(front) \cap TxsOf(back) = {}
  BY <1>1, <1>2, <1>3 DEF TxsOf
<1>7. TxsOf(front) \union TxsOf(back) \subseteq TxsOf(seq)
  BY <1>1, <1>2 DEF TxsOf, len
<1>8. QED
  BY <1>4, <1>5, <1>6, <1>7 DEF front, back, len

-----------------------------------------------------------------------------
(***************************************************************************)
(* What is sent.                                                           *)
(***************************************************************************)
SentTypes == sent \in Seq([tx : ProgramTxs, want : Wants])
Sent      == {sent[i].tx : i \in 1 .. Len(sent)}

LEMMA SentTypesInvariant == ClientSpec => []SentTypes
<1>1. ClientInit => SentTypes
  BY DEF ClientInit, SentTypes
<1>2. ClientTypes /\ SentTypes /\ [ClientNext]_allVars => SentTypes'
  <2> SUFFICES ASSUME ClientTypes, SentTypes, [ClientNext]_allVars PROVE SentTypes'
    OBVIOUS
  <2>1. CASE SubmitStep
    <3>1. Step.do = "submit" /\ at \in 1 .. Len(Steps) /\ WellFormed(Steps)
      BY <2>1, StepsWellFormed DEF SubmitStep, Here, ClientTypes
    <3>2. Steps[at + 1].want \in Wants
      BY <3>1 DEF WellFormed, Step
    <3>3. CASE UNCHANGED <<vars, sent>>
      BY <3>3 DEF SentTypes
    <3>4. ASSUME NEW tx \in ProgramTxs,
                 sent' = Append(sent, [tx |-> tx, want |-> Steps[at + 1].want])
          PROVE  SentTypes'
      <4>1. [tx |-> tx, want |-> Steps[at + 1].want] \in [tx : ProgramTxs, want : Wants]
        BY <3>2
      <4>2. QED
        BY <3>4, <4>1 DEF SentTypes
    <3>5. QED
      BY <2>1, <3>3, <3>4, SubmitIsCheckTx
  <2>2. CASE UNCHANGED sent
    BY <2>2 DEF SentTypes
  <2>3. QED
    BY <2>1, <2>2, StepsOfClient DEF ClientNext, Tick, client, allVars
<1>3. QED
  BY <1>1, <1>2, ClientTypesInvariant, PTL DEF ClientSpec

\* What a submission adds.
LEMMA SentAfter ==
    ASSUME SentTypes, NEW tx \in ProgramTxs, NEW want \in Wants,
           sent' = Append(sent, [tx |-> tx, want |-> want])
    PROVE  /\ Len(sent) \in Nat /\ Len(sent') = Len(sent) + 1
           /\ sent'[Len(sent')] = [tx |-> tx, want |-> want]
           /\ \A i \in 1 .. Len(sent) : sent'[i] = sent[i]
           /\ \A i \in 1 .. Len(sent') : i \in 1 .. Len(sent) \/ i = Len(sent')
           /\ Sent' = Sent \union {tx}
<1> DEFINE rec == [tx |-> tx, want |-> want]
           n == Len(sent)
<1>1. sent \in Seq([tx : ProgramTxs, want : Wants]) /\ rec \in [tx : ProgramTxs, want : Wants]
  BY DEF SentTypes
<1>2. /\ n \in Nat /\ Len(sent') = n + 1
      /\ sent'[n + 1] = rec
      /\ \A k \in 1 .. n : sent'[k] = sent[k]
      /\ \A k \in 1 .. n + 1 : k \in 1 .. n \/ k = n + 1
      /\ \A k \in 1 .. n : k \in 1 .. n + 1 /\ k # n + 1
      /\ n + 1 \in 1 .. n + 1
  BY <1>1, AppendElements
<1>3. rec.tx = tx
  OBVIOUS
<1> HIDE DEF rec, n
<1>4. Sent' = {sent[i].tx : i \in 1 .. n} \union {tx}
  BY <1>2, <1>3 DEF Sent
<1>5. QED
  BY <1>2, <1>4 DEF Sent, rec, n
-----------------------------------------------------------------------------
(***************************************************************************)
(* No program sends a transaction twice.                                   *)
(***************************************************************************)

\* What tells the transactions of a program apart: the witness in demo.sh, the
\* minimum age and then the date in the negative demo.
PositiveMarks == at <= 4 => sent = <<>>

ScriptMarks ==
    /\ at <= 3 => sent = <<>>
    /\ at <= 6 => \A tx \in Sent : tx[1].witness = "matching"

MinAgeOf(p) == p.public.minAge
NegativeMarks ==
    /\ at <= 4 => sent = <<>>
    /\ at \in 4 .. 6 => MinAgeOf(proof.object) = 0
    /\ at \in 7 .. 9 => MinAgeOf(proof.object) = 18 /\ proof.date = FutureDay
    /\ at <= 7 => \A tx \in Sent : MinAgeOf(tx[1].proof) = 0
    /\ at <= 9 => \A tx \in Sent : MinAgeOf(tx[1].proof) = 0 \/ tx[1].date = FutureDay

Marks ==
    /\ program = "positive" => PositiveMarks
    /\ program = "script"   => ScriptMarks
    /\ program = "negative" => NegativeMarks

LEMMA PositiveSteps ==
    ASSUME program = "positive", at \in 1 .. Len(Steps)
    PROVE  /\ Step.do = "submit" <=> at = 4
           /\ at = 4 => Step.what = "proof" /\ Step.day = "itsOwn"
           /\ Step.do = "prove" <=> at = 3
           /\ at = 3 => Step.birth = Adult /\ Step.minAge = 18
           /\ Step.do # "look"
<1>1. Steps = PositiveDemo /\ Len(PositiveDemo) = 6
  BY DEF Steps, PositiveDemo
<1>2. at \in {1, 2, 3, 4, 5, 6}
  BY <1>1
<1>3. QED
  BY <1>1, <1>2 DEF Step, PositiveDemo, Connect, Ask, Prove, Submit, Wait

LEMMA ScriptSteps ==
    ASSUME program = "script", at \in 1 .. Len(Steps)
    PROVE  /\ Step.do = "submit" <=> at \in {3, 6}
           /\ at = 3 => Step.what = "proof"
           /\ at = 6 => Step.what = "fake"
<1>1. Steps = ScriptDemo /\ Len(ScriptDemo) = 8
  BY DEF Steps, ScriptDemo
<1>2. at \in {1, 2, 3, 4, 5, 6, 7, 8}
  BY <1>1
<1>3. QED
  BY <1>1, <1>2 DEF Step, ScriptDemo, Connect, Ask, Prove, Submit, Look, MustRefuse

LEMMA NegativeSteps ==
    ASSUME program = "negative", at \in 1 .. Len(Steps)
    PROVE  /\ Step.do = "submit" <=> at \in {4, 7, 9}
           /\ at \in {4, 7, 9} => Step.what = "proof"
           /\ at \in {4, 7} => Step.day = "itsOwn"
           /\ at = 9 => Step.day = "today"
           /\ Step.do = "prove" <=> at \in {3, 6}
           /\ at = 3 => Step.minAge = 0
           /\ at = 6 => Step.minAge = 18 /\ Step.day = "future"
<1>1. Steps = NegativeDemo /\ Len(NegativeDemo) = 11
  BY DEF Steps, NegativeDemo
<1>2. at \in {1, 2, 3, 4, 5, 6, 7, 8, 9, 10, 11}
  BY <1>1
<1>3. QED
  BY <1>1, <1>2 DEF Step, NegativeDemo, Connect, Ask, Prove, Submit, Wait, MustRefuse

\* The part of a step that is the client's.
LEMMA ClientMoves ==
    ASSUME ClientTypes, [ClientNext]_allVars
    PROVE  \/ ClientStep /\ at \in 1 .. Len(Steps) + 1
           \/ UNCHANGED <<program, at, ending, keyFile, proof, sent>>
BY DEF ClientNext, Tick, client, allVars, ClientTypes

LEMMA SubmitAdds ==
    ASSUME ClientTypes, SentTypes, SubmitStep
    PROVE  \/ UNCHANGED <<vars, sent>> /\ at' = at
           \/ /\ CheckTx(<<MsgOf(Step.what, Step.day)>>)
              /\ <<MsgOf(Step.what, Step.day)>> \in ProgramTxs
              /\ Steps[at + 1].want \in Wants
              /\ sent' = Append(sent, [tx   |-> <<MsgOf(Step.what, Step.day)>>,
                                       want |-> Steps[at + 1].want])
              /\ Sent' = Sent \union {<<MsgOf(Step.what, Step.day)>>}
              /\ at' = at + 1
<1>1. Step.do = "submit" /\ at \in 1 .. Len(Steps) /\ WellFormed(Steps)
  BY StepsWellFormed DEF SubmitStep, Here, ClientTypes
<1>2. Steps[at + 1].want \in Wants
  BY <1>1 DEF WellFormed, Step
<1>3. QED
  BY <1>2, SubmitIsCheckTx, SentAfter

LEMMA MarksInvariant == ClientSpec => []Marks
<1>1. ClientInit => Marks
  BY DEF ClientInit, Marks, PositiveMarks, ScriptMarks, NegativeMarks, Sent
<1>2. ClientTypes /\ SentTypes /\ Marks /\ [ClientNext]_allVars => Marks'
  <2> SUFFICES ASSUME ClientTypes, SentTypes, Marks, [ClientNext]_allVars PROVE Marks'
    OBVIOUS
  <2> DEFINE msg == MsgOf(Step.what, Step.day)
  <2>1. CASE UNCHANGED <<program, at, ending, keyFile, proof, sent>>
    BY <2>1 DEF Marks, PositiveMarks, ScriptMarks, NegativeMarks, Sent
  <2>2. ASSUME ClientStep, at \in 1 .. Len(Steps) + 1 PROVE Marks'
    <3>1. program' = program /\ at \in Nat /\ program \in Demos
      BY <2>2, StepsOfClient DEF ClientTypes
    <3>2. at' = at \/ at' = at + 1
      BY <2>2, StepsOfClient
    <3>3. <<msg>>[1] = msg
      OBVIOUS
    <3>4. CASE SubmitStep
      <4>1. /\ Step.do = "submit" /\ at \in 1 .. Len(Steps)
            /\ UNCHANGED proof
        BY <3>4 DEF SubmitStep, Here, ClientTypes
      <4>2. CASE UNCHANGED sent
        <5>1. UNCHANGED Sent
          BY <4>2 DEF Sent
        <5>2. CASE program = "positive"
          BY <3>1, <3>2, <4>2, <5>2 DEF Marks, PositiveMarks
        <5>3. CASE program = "script"
          BY <3>1, <3>2, <4>2, <5>1, <5>3 DEF Marks, ScriptMarks
        <5>4. CASE program = "negative"
          <6>1. at \in {4, 7, 9}
            BY <4>1, <5>4, NegativeSteps
          <6>2. QED
            BY <3>1, <3>2, <4>1, <4>2, <5>1, <5>4, <6>1 DEF Marks, NegativeMarks
        <5>5. QED
          BY <3>1, <5>2, <5>3, <5>4 DEF Demos
      <4>3. CASE at' = at + 1 /\ Sent' = Sent \union {<<msg>>}
        <5>1. CASE program = "positive"
          BY <3>1, <4>1, <4>3, <5>1, PositiveSteps DEF Marks, PositiveMarks
        <5>2. CASE program = "script"
          <6>1. at \in {3, 6} /\ (at = 3 => msg.witness = "matching")
            BY <4>1, <5>2, ScriptSteps DEF MsgOf
          <6>2. QED
            BY <3>1, <3>3, <4>3, <5>2, <6>1 DEF Marks, ScriptMarks, Sent
        <5>3. CASE program = "negative"
          <6>1. /\ at \in {4, 7, 9}
                /\ msg.proof = proof.object
                /\ at \in {4, 7} => msg.date = proof.date
            BY <4>1, <5>3, NegativeSteps DEF MsgOf
          <6> HIDE DEF msg
          <6>2. CASE at = 4
            BY <3>1, <3>3, <4>1, <4>3, <5>3, <6>1, <6>2 DEF Marks, NegativeMarks, Sent
          <6>3. CASE at = 7
            BY <3>1, <3>3, <4>1, <4>3, <5>3, <6>1, <6>3 DEF Marks, NegativeMarks, Sent
          <6>4. CASE at = 9
            BY <3>1, <3>3, <4>1, <4>3, <5>3, <6>1, <6>4 DEF Marks, NegativeMarks, Sent
          <6>5. QED
            BY <6>1, <6>2, <6>3, <6>4
        <5>4. QED
          BY <3>1, <5>1, <5>2, <5>3 DEF Demos
      <4>4. QED
        BY <3>4, <4>2, <4>3, SubmitAdds
    <3>5. CASE ~SubmitStep
      <4>1. UNCHANGED sent /\ UNCHANGED Sent
        BY <2>2, <3>5, StepsOfClient DEF Sent
      <4>2. at' = at \/ (at \in 1 .. Len(Steps) /\ Step.do # "submit")
        BY <2>2, <3>5, StepsOfClient DEF ClientTypes
      <4>3. CASE program = "positive"
        BY <3>1, <3>2, <4>1, <4>2, <4>3, PositiveSteps DEF Marks, PositiveMarks
      <4>4. CASE program = "script"
        BY <3>1, <3>2, <4>1, <4>2, <4>4, ScriptSteps DEF Marks, ScriptMarks
      <4>5. CASE program = "negative"
        <5>1. CASE ProveStep
          <6>1. at \in {3, 6}
            BY <4>5, <5>1, NegativeSteps DEF ProveStep, Here, ClientTypes
          <6>2. \/ at' = at /\ UNCHANGED proof
                \/ /\ at' = at + 1
                   /\ MinAgeOf(proof'.object) = IF at = 3 THEN 0 ELSE 18
                   /\ at = 6 => proof'.date = FutureDay
            BY <4>5, <5>1, NegativeSteps
            DEF ProveStep, Here, GoOn, ClientTypes, Exit, MinAgeOf, ProofOf, StepPublic,
                BuildPublicWitness, DayOf
          <6>3. QED
            BY <3>1, <4>1, <4>5, <6>1, <6>2 DEF Marks, NegativeMarks
        <5>2. CASE UNCHANGED proof /\ ~ProveStep
          <6>1. at' = at \/ (at' = at + 1 /\ at \notin {3, 6, 4, 7, 9})
            BY <2>2, <3>5, <4>2, <4>5, <5>2, StepsOfClient, NegativeSteps DEF ClientTypes
          <6>2. QED
            BY <3>1, <4>1, <4>5, <5>2, <6>1 DEF Marks, NegativeMarks
        <5>3. QED
          BY <2>2, <5>1, <5>2, StepsOfClient
      <4>6. QED
        BY <3>1, <4>3, <4>4, <4>5 DEF Demos
    <3>6. QED
      BY <3>4, <3>5
  <2>3. QED
    BY <2>1, <2>2, ClientMoves
<1>3. QED
  BY <1>1, <1>2, ClientTypesInvariant, SentTypesInvariant, PTL DEF ClientSpec

\* What is submitted has not been sent before.
LEMMA SubmitIsNew ==
    ASSUME ClientTypes, SentTypes, Marks, SubmitStep
    PROVE  <<MsgOf(Step.what, Step.day)>> \notin Sent
<1> DEFINE msg == MsgOf(Step.what, Step.day)
<1>1. Step.do = "submit" /\ at \in 1 .. Len(Steps) /\ at \in Nat
  BY DEF SubmitStep, Here, ClientTypes
<1>2. <<msg>>[1] = msg /\ (sent = <<>> => Sent = {})
  BY DEF Sent
<1>3. CASE program = "positive"
  BY <1>1, <1>2, <1>3, PositiveSteps DEF Marks, PositiveMarks
<1>4. CASE program = "script"
  <2>1. at \in {3, 6} /\ (at = 6 => msg.witness = "other")
    BY <1>1, <1>4, ScriptSteps DEF MsgOf
  <2>2. QED
    BY <1>1, <1>2, <1>4, <2>1 DEF Marks, ScriptMarks
<1>5. CASE program = "negative"
  <2>1. /\ at \in {4, 7, 9}
        /\ msg.proof = proof.object
        /\ at \in {4, 7} => msg.date = proof.date
        /\ at = 9 => msg.date = LocalDay
    BY <1>1, <1>5, NegativeSteps DEF MsgOf
  <2>2. LocalDay # FutureDay
    BY LocalDayInCalendar
  <2> HIDE DEF msg
  <2>3. CASE at = 4
    BY <1>2, <1>5, <2>3 DEF Marks, NegativeMarks
  <2>4. CASE at = 7
    <3>1. \A tx \in Sent : MinAgeOf(tx[1].proof) = 0
      BY <1>5, <2>4 DEF Marks, NegativeMarks
    <3>2. MinAgeOf(msg.proof) = 18
      BY <1>5, <2>1, <2>4 DEF Marks, NegativeMarks
    <3>3. QED
      BY <1>2, <3>1, <3>2 DEF msg
  <2>5. CASE at = 9
    <3>1. \A tx \in Sent : MinAgeOf(tx[1].proof) = 0 \/ tx[1].date = FutureDay
      BY <1>5, <2>5 DEF Marks, NegativeMarks
    <3>2. MinAgeOf(msg.proof) = 18 /\ msg.date # FutureDay
      BY <1>5, <2>1, <2>2, <2>5 DEF Marks, NegativeMarks
    <3>3. QED
      BY <1>2, <3>1, <3>2 DEF msg
  <2>6. QED
    BY <2>1, <2>3, <2>4, <2>5
<1>6. QED
  BY <1>3, <1>4, <1>5 DEF ClientTypes, Demos

-----------------------------------------------------------------------------
(***************************************************************************)
(* Where a transaction is.                                                 *)
(***************************************************************************)
\* The results that have not been lost.
Known   == index \union publishing
Indexed == {r.tx : r \in Known}
Pending == TxsOf(mempool) \union TxsOf(block.txs)

\* InOnePlace: a transaction waits in the mempool, or is in the block that is
\* decided, or has one result; a crash may lose it, or its result, but nothing
\* doubles it.
InOnePlace ==
    /\ AllDifferent(mempool) /\ AllDifferent(block.txs)
    /\ TxsOf(mempool) \cap TxsOf(block.txs) = {}
    /\ Pending \cap Indexed = {}
    /\ Pending \union Indexed \subseteq Sent
    /\ \A r, s \in Known : r.tx = s.tx => r = s

\* Besides a commit no step of the node makes results or records.
LEMMA NodeMoves ==
    ASSUME NodeStep
    PROVE  \/ CommitAndPublish
           \/ /\ Known' \subseteq Known /\ UNCHANGED committed
              /\ \/ mempool' \in {mempool, <<>>} /\ block' = block
                 \/ \E n \in 0 .. MaxBlockTxs, t \in lastTime + 1 .. clock : DecideBlock(n, t)
<1>1. CASE IndexBlock
  <2>1. OldestBlock \subseteq publishing
    BY DEF OldestBlock
  <2>2. QED
    BY <1>1, <2>1 DEF IndexBlock, Known, vars, memory, disk
<1>2. CASE CrashNode
  BY <1>2 DEF CrashNode, Crash, Known, disk
<1>3. CASE UNCHANGED indexer
  <2>1. Known' = Known
    BY <1>3 DEF indexer, Known
  <2>2. QED
    BY <1>3, <2>1
    DEF NodeStep, IndexBlock, CrashNode, InitChain, Restart, Crash, MsgFails, TxPasses,
        DecideBlock, vars, memory, disk
<1>4. QED
  BY <1>1, <1>2, <1>3 DEF NodeStep

\* What is read from the index stays in it.
LEMMA IndexGrows == [ClientNext]_allVars => index \subseteq index'
BY StepsOfClient
DEF ClientNext, Tick, NodeStep, CommitAndPublish, IndexBlock, CrashNode, indexer, allVars

LEMMA CommitKnown ==
    ASSUME CommitAndPublish
    PROVE  Known' = Known \union BlockResults
BY DEF CommitAndPublish, Known

LEMMA BlockResultsAre ==
    /\ \A r \in BlockResults :
          \E i \in 1 .. Len(block.txs) :
             r.tx = block.txs[i] /\ r.code = results[i] /\ r.time = block.time
    /\ \A i \in 1 .. Len(block.txs) :
          \E r \in BlockResults :
             r.tx = block.txs[i] /\ r.code = results[i] /\ r.time = block.time
    /\ \A r, q \in BlockResults :
          r.tx = q.tx /\ AllDifferent(block.txs) => r = q
<1> DEFINE entry(i) == [tx |-> block.txs[i], code |-> results[i], time |-> block.time]
<1>1. BlockResults = {entry(i) : i \in 1 .. Len(block.txs)}
  BY DEF BlockResults
<1>2. \A i \in 1 .. Len(block.txs) :
        /\ entry(i).tx = block.txs[i] /\ entry(i).code = results[i]
        /\ entry(i).time = block.time
  OBVIOUS
<1> HIDE DEF entry
<1>3. QED
  BY <1>1, <1>2 DEF AllDifferent

\* A block is a front of the mempool.
LEMMA DecideMoves ==
    ASSUME TypeOK, InOnePlace, NEW n \in 0 .. MaxBlockTxs,
           NEW t \in lastTime + 1 .. clock, DecideBlock(n, t)
    PROVE  /\ AllDifferent(block.txs)' /\ AllDifferent(mempool)'
           /\ TxsOf(block.txs)' \cap TxsOf(mempool)' = {}
           /\ TxsOf(block.txs)' \union TxsOf(mempool)' \subseteq TxsOf(mempool)
<1>1. /\ n \in Nat /\ n <= Len(mempool) /\ mempool \in Seq(AdmittedTxs)
      /\ block'.txs = SubSeq(mempool, 1, n)
      /\ mempool' = SubSeq(mempool, n + 1, Len(mempool))
  BY DEF DecideBlock, TypeOK
<1>2. AllDifferent(mempool)
  BY DEF InOnePlace
<1> DEFINE front == SubSeq(mempool, 1, n)
           back  == SubSeq(mempool, n + 1, Len(mempool))
<1>3. /\ AllDifferent(front) /\ AllDifferent(back)
      /\ TxsOf(front) \cap TxsOf(back) = {}
      /\ TxsOf(front) \union TxsOf(back) \subseteq TxsOf(mempool)
  BY <1>1, <1>2, CutTxs
<1>4. block'.txs = front /\ mempool' = back
  BY <1>1
<1> HIDE DEF front, back
<1>5. AllDifferent(block'.txs) /\ AllDifferent(mempool')
  BY ONLY <1>3, <1>4, Zenon
<1>6. /\ TxsOf(block'.txs) \cap TxsOf(mempool') = {}
      /\ TxsOf(block'.txs) \union TxsOf(mempool') \subseteq TxsOf(mempool)
  BY ONLY <1>3, <1>4, Zenon
<1>7. QED
  BY ONLY <1>5, <1>6, Zenon DEF AllDifferent, TxsOf

LEMMA InOnePlaceInvariant == ClientSpec => []InOnePlace
<1>1. ClientInit => InOnePlace
  BY EmptyHasNone DEF ClientInit, Init, NoBlock, InOnePlace, Indexed, Known, Pending
<1>2. TypeOK /\ ClientTypes /\ SentTypes /\ Marks /\ InOnePlace /\ [ClientNext]_allVars
        => InOnePlace'
  <2> SUFFICES ASSUME TypeOK, ClientTypes, SentTypes, Marks, InOnePlace,
                      [ClientNext]_allVars
               PROVE  InOnePlace'
    OBVIOUS
  <2>1. mempool \in Seq(AdmittedTxs) /\ block.txs \in Seq(AdmittedTxs)
    BY DEF TypeOK
  <2>2. ASSUME UNCHANGED <<mempool, block, Known, sent>> PROVE InOnePlace'
    <3>1. UNCHANGED <<TxsOf(mempool), TxsOf(block.txs), Pending, Indexed, Sent>>
      BY <2>2 DEF TxsOf, Pending, Indexed, Sent
    <3>2. AllDifferent(mempool)' /\ AllDifferent(block.txs)'
      BY <2>2 DEF InOnePlace, AllDifferent
    <3>3. QED
      BY <2>2, <3>1, <3>2 DEF InOnePlace
  <2>3. CASE SubmitStep
    <3> DEFINE tx == <<MsgOf(Step.what, Step.day)>>
    <3>0. Known' = Known
      BY <2>3 DEF SubmitStep, indexer, Known
    <3>1. CASE UNCHANGED <<vars, sent>>
      BY <2>2, <3>0, <3>1 DEF vars, memory, disk
    <3>2. CASE CheckTx(tx) /\ tx \in ProgramTxs /\ Sent' = Sent \union {tx}
      <4>1. tx \in AdmittedTxs
        BY <3>2, ProgramTxsAssumption DEF CheckTx, ValidateBasic, AdmittedTxs
      <4>2. tx \notin Sent
        BY <2>3, SubmitIsNew
      <4>3. mempool' = Append(mempool, tx) /\ UNCHANGED block
        BY <3>2 DEF CheckTx, disk
      <4> HIDE DEF tx
      <4>4. TxsOf(mempool)' = TxsOf(mempool) \union {tx} /\ AllDifferent(mempool)'
        <5>1. AllDifferent(mempool) /\ tx \notin TxsOf(mempool)
          BY <4>2 DEF InOnePlace, Pending
        <5>2. /\ TxsOf(Append(mempool, tx)) = TxsOf(mempool) \union {tx}
              /\ AllDifferent(Append(mempool, tx))
          BY <2>1, <4>1, <5>1, AppendTxs
        <5>3. QED
          BY <4>3, <5>2 DEF TxsOf, AllDifferent
      <4>5. UNCHANGED <<TxsOf(block.txs), Indexed>> /\ AllDifferent(block.txs)'
        BY <3>0, <4>3 DEF TxsOf, Indexed, InOnePlace, AllDifferent
      <4>6. QED
        BY <3>0, <3>2, <4>2, <4>4, <4>5 DEF InOnePlace, Pending
    <3>3. QED
      BY <2>3, <3>1, <3>2, SubmitAdds
  <2>4. CASE UNCHANGED <<vars, sent, indexer>>
    BY <2>2, <2>4 DEF vars, memory, disk, indexer, Known
  <2>5. CASE NodeStep /\ UNCHANGED <<client, clock>>
    <3>1. UNCHANGED sent /\ UNCHANGED Sent
      BY <2>5 DEF client, Sent
    <3>2. CASE CommitAndPublish
      <4>1. UNCHANGED mempool /\ block'.txs = <<>>
        BY <3>2 DEF CommitAndPublish, Commit, NoBlock
      <4>2. Indexed' = Indexed \union TxsOf(block.txs)
        BY <3>2, CommitKnown, BlockResultsAre DEF Indexed, TxsOf
      <4>3. UNCHANGED TxsOf(mempool) /\ AllDifferent(mempool)'
              /\ TxsOf(block.txs)' = {} /\ AllDifferent(block.txs)'
        BY <4>1, EmptyHasNone DEF TxsOf, InOnePlace, AllDifferent
      <4>4. \A r, s \in Known' : r.tx = s.tx => r = s
        <5>1. \A r \in Known, s \in BlockResults : r.tx # s.tx
          BY BlockResultsAre DEF InOnePlace, TxsOf, Indexed, Pending
        <5>2. \A r, s \in BlockResults : r.tx = s.tx => r = s
          BY BlockResultsAre DEF InOnePlace
        <5>3. \A r, s \in Known : r.tx = s.tx => r = s
          BY DEF InOnePlace
        <5>4. QED
          BY <3>2, <5>1, <5>2, <5>3, CommitKnown
      <4>5. QED
        BY <3>1, <4>2, <4>3, <4>4 DEF InOnePlace, Pending
    <3>3. ASSUME Known' \subseteq Known, AllDifferent(mempool)', AllDifferent(block.txs)',
                 TxsOf(mempool)' \cap TxsOf(block.txs)' = {}, Pending' \subseteq Pending
          PROVE  InOnePlace'
      <4>1. Indexed' \subseteq Indexed
        BY <3>3 DEF Indexed
      <4>2. QED
        BY <3>1, <3>3, <4>1 DEF InOnePlace
    <3>4. CASE Known' \subseteq Known /\ mempool' \in {mempool, <<>>} /\ block' = block
      <4>1. TxsOf(mempool)' \subseteq TxsOf(mempool) /\ AllDifferent(mempool)'
        BY <3>4, EmptyHasNone DEF TxsOf, AllDifferent, InOnePlace
      <4>2. UNCHANGED TxsOf(block.txs) /\ AllDifferent(block.txs)'
        BY <3>4 DEF TxsOf, InOnePlace, AllDifferent
      <4>3. QED
        BY <3>3, <3>4, <4>1, <4>2 DEF InOnePlace, Pending
    <3>5. CASE /\ Known' \subseteq Known
               /\ \E n \in 0 .. MaxBlockTxs, t \in lastTime + 1 .. clock : DecideBlock(n, t)
      BY <3>3, <3>5, DecideMoves DEF Pending
    <3>6. QED
      BY <2>5, <3>2, <3>4, <3>5, NodeMoves
  <2>6. QED
    <3>1. CASE ClientStep
      BY <2>3, <2>4, <3>1, StepsOfClient DEF indexer
    <3>2. CASE Tick \/ UNCHANGED allVars
      BY <2>4, <3>2 DEF Tick, allVars, client
    <3>3. QED
      BY <2>5, <3>1, <3>2 DEF ClientNext
<1>3. QED
  BY <1>1, <1>2, ClientRunsTheNode, TypeCorrect, ClientTypesInvariant, SentTypesInvariant,
     MarksInvariant, PTL
  DEF ClientSpec

-----------------------------------------------------------------------------
(***************************************************************************)
(* What a program has seen when it goes on.                                *)
(***************************************************************************)
Waiting == at <= Len(Steps) /\ Step.do \in Waits

\* A transaction's result is the one the program wants.
AsWanted(s) == \E r \in index : r.tx = s.tx /\ (s.want = "accepted" <=> r.code = OK)

Judged ==
    /\ Waiting => Len(sent) >= 1 /\ sent[Len(sent)].want = Step.want
    /\ \A i \in 1 .. Len(sent) : AsWanted(sent[i]) \/ (i = Len(sent) /\ Waiting)
    /\ ending = "complete" => at > Len(Steps)

\* A program leaves a wait, or a look, behind with the result it wants.
LEMMA WaitsJudge ==
    ASSUME ClientTypes, Judged, ClientStep, Waiting, at' # at
    PROVE  AsWanted(sent[Len(sent)])
<1>1. /\ WellFormed(Steps) /\ at \in 1 .. Len(Steps) /\ Step.do \in Waits
      /\ Step.want = sent[Len(sent)].want
  BY StepsWellFormed DEF ClientTypes, Waiting, Judged
<1>2. Step.do # "look" \/ Step.missing = IF Step.want = "accepted" THEN 99 ELSE 0
  BY <1>1 DEF WellFormed, Step
<1>3. \A code : Judge(code) /\ at' # at => (Step.want = "accepted" <=> code = OK)
  BY DEF Judge, Exit
<1>4. ASSUME NEW r \in StepResults, Judge(r.code) PROVE AsWanted(sent[Len(sent)])
  BY <1>1, <1>3, <1>4 DEF AsWanted, StepResults
<1>5. FindResult \/ LookStep
  BY <1>1
  DEF ClientStep, ConnectStep, ProveStep, MustRefuseStep, SubmitStep, GiveUp, AskStep,
      Complete, Here, Exit, Waits
<1>6. CASE FindResult
  BY <1>4, <1>6 DEF FindResult
<1>7. CASE LookStep
  <2>1. ~Judge(Step.missing)
    BY <1>2, <1>3, <1>7 DEF LookStep, Here, OK
  <2>2. QED
    BY <1>4, <1>7, <2>1 DEF LookStep
<1>8. QED
  BY <1>5, <1>6, <1>7

LEMMA JudgedInvariant == ClientSpec => []Judged
<1>1. ClientInit => Judged
  <2> SUFFICES ASSUME ClientInit PROVE Judged
    OBVIOUS
  <2>1. program \in Demos /\ WellFormed(Steps)
    BY ClientAssumption, StepsWellFormed DEF ClientInit, Demos
  <2>2. ~Waiting
    BY <2>1 DEF ClientInit, WellFormed, Waiting, Step
  <2>3. QED
    BY <2>2 DEF ClientInit, Judged
<1>2. ClientTypes /\ SentTypes /\ Judged /\ [ClientNext]_allVars => Judged'
  <2> SUFFICES ASSUME ClientTypes, SentTypes, Judged, [ClientNext]_allVars PROVE Judged'
    OBVIOUS
  <2>1. WellFormed(Steps) /\ at \in Nat /\ at >= 1 /\ Len(sent) \in Nat /\ Len(Steps) \in Nat
    BY StepsWellFormed DEF ClientTypes, SentTypes, WellFormed
  <2>2. index \subseteq index' /\ Steps' = Steps
    <3>1. program' = program
      BY StepsOfClient DEF ClientNext, Tick, client, allVars
    <3>2. index \subseteq index'
      BY IndexGrows
    <3>3. QED
      BY <3>1, <3>2 DEF Steps
  <2>3. \A s : AsWanted(s) => AsWanted(s)'
    BY <2>2 DEF AsWanted
  <2>4. ASSUME UNCHANGED <<program, at, sent>>,
               ending' = "complete" => ending = "complete" \/ at > Len(Steps)
        PROVE  Judged'
    <3>1. Step' = Step /\ Waiting' = Waiting
      BY <2>2, <2>4 DEF Step, Waiting
    <3>2. QED
      BY <2>2, <2>3, <2>4, <3>1 DEF Judged, AsWanted
  <2>5. ASSUME ClientStep, at' # at PROVE Judged'
    <3>1. /\ at' = at + 1 /\ at \in 1 .. Len(Steps) /\ ending' = ending
          /\ Step.do = "submit" => SubmitStep
      BY <2>1, <2>5, StepsOfClient
    <3>2. ending' # "complete"
      BY <2>1, <3>1 DEF Judged
    <3>3. CASE SubmitStep
      <4>1. Step.do = "submit" /\ ~Waiting
        BY <3>3 DEF SubmitStep, Here, Waiting, Waits
      <4>2. /\ at + 1 \in 1 .. Len(Steps)
            /\ Steps[at + 1].do \in Waits /\ Steps[at + 1].want \in Wants
        BY <2>1, <3>1, <4>1 DEF WellFormed, Step
      <4>3. Waiting' /\ Step' = Steps[at + 1]
        BY <2>2, <3>1, <4>2 DEF Waiting, Step
      <4>4. /\ Len(sent') = Len(sent) + 1
            /\ sent'[Len(sent')].want = Steps[at + 1].want
            /\ \A i \in 1 .. Len(sent) : sent'[i] = sent[i]
            /\ \A i \in 1 .. Len(sent') : i \in 1 .. Len(sent) \/ i = Len(sent')
        BY <2>5, <3>3, <4>2, SubmitAdds, SentAfter
      <4>5. \A i \in 1 .. Len(sent) : AsWanted(sent[i])
        BY <4>1 DEF Judged
      <4>6. \A i \in 1 .. Len(sent') : AsWanted(sent[i])' \/ i = Len(sent')
        BY <2>3, <4>4, <4>5 DEF AsWanted
      <4>7. QED
        BY <2>1, <3>2, <4>3, <4>4, <4>6 DEF Judged, AsWanted
    <3>4. CASE ~SubmitStep
      <4>1. UNCHANGED sent /\ Step.do # "submit"
        BY <2>5, <3>1, <3>4, StepsOfClient
      <4>2. ~Waiting'
        <5>1. ASSUME at + 1 <= Len(Steps) PROVE Steps[at + 1].do \notin Waits
          <6>1. at + 1 \in 1 .. Len(Steps) /\ at + 1 - 1 = at
            BY <2>1, <5>1
          <6>2. QED
            BY <2>1, <4>1, <6>1 DEF WellFormed, Step
        <5>2. QED
          BY <2>2, <3>1, <5>1 DEF Waiting, Step
      <4>3. \A i \in 1 .. Len(sent) : AsWanted(sent[i])
        BY <2>5, WaitsJudge DEF Judged
      <4>4. QED
        BY <2>3, <3>2, <4>1, <4>2, <4>3 DEF Judged, AsWanted
    <3>5. QED
      BY <3>3, <3>4
  <2>6. QED
    <3>1. CASE ClientStep /\ at' = at
      <4>1. UNCHANGED <<program, sent>>
        BY <2>1, <3>1, StepsOfClient, SubmitAdds
      <4>2. QED
        BY <2>4, <3>1, <4>1, StepsOfClient
    <3>2. CASE ~ClientStep
      BY <2>4, <3>2, ClientMoves
    <3>3. QED
      BY <2>5, <3>1, <3>2
<1>3. QED
  BY <1>1, <1>2, ClientTypesInvariant, SentTypesInvariant, PTL DEF ClientSpec

-----------------------------------------------------------------------------
(***************************************************************************)
(* The key a program proves with.                                          *)
(***************************************************************************)
LEMMA EveryDemoProves ==
    program \in Demos => \E k \in 1 .. Len(Steps) : Steps[k].do = "prove"
<1>1. 3 \in 1 .. Len(PositiveDemo) /\ PositiveDemo[3].do = "prove"
  BY DEF PositiveDemo, Prove
<1>2. 3 \in 1 .. Len(NegativeDemo) /\ NegativeDemo[3].do = "prove"
  BY DEF NegativeDemo, Prove
<1>3. 2 \in 1 .. Len(ScriptDemo) /\ ScriptDemo[2].do = "prove"
  BY DEF ScriptDemo, Prove
<1>4. QED
  BY <1>1, <1>2, <1>3 DEF Demos, Steps

\* A step that proves is left behind with a key only.
KeyUsed == \A k \in 1 .. at - 1 : Steps[k].do = "prove" => keyFile \in Keys

LEMMA KeyUsedInvariant == ClientSpec => []KeyUsed
<1>1. ClientInit => KeyUsed
  BY DEF ClientInit, KeyUsed
<1>2. ClientTypes /\ KeyUsed /\ [ClientNext]_allVars => KeyUsed'
  <2> SUFFICES ASSUME ClientTypes, KeyUsed, [ClientNext]_allVars PROVE KeyUsed'
    OBVIOUS
  <2>1. CASE UNCHANGED <<program, at, ending, keyFile, proof, sent>>
    BY <2>1 DEF KeyUsed, Steps
  <2>2. ASSUME ClientStep PROVE KeyUsed'
    <3>1. Steps' = Steps /\ keyFile' = keyFile /\ at \in Nat
      BY <2>2, StepsOfClient DEF Steps, ClientTypes
    <3>2. CASE at' = at
      BY <3>1, <3>2 DEF KeyUsed
    <3>3. CASE at' = at + 1 /\ at' # at
      <4>1. Steps[at].do = "prove" => keyFile \in Keys
        BY <2>2, <3>3, StepsOfClient DEF Step
      <4>2. \A k \in 1 .. at' - 1 : k \in 1 .. at - 1 \/ k = at
        BY <3>1, <3>3
      <4>3. QED
        BY <3>1, <4>1, <4>2 DEF KeyUsed
    <3>4. QED
      BY <2>2, <3>1, <3>2, <3>3, StepsOfClient
  <2>3. QED
    BY <2>1, <2>2, ClientMoves
<1>3. QED
  BY <1>1, <1>2, ClientTypesInvariant, PTL DEF ClientSpec

-----------------------------------------------------------------------------
(***************************************************************************)
(* Results and the account's record.                                       *)
(***************************************************************************)
AccountStamp == GetVerified(committed.ageverify, Account)

\* ResultsAndRecord: a result 0 goes with a record that is no older.  A record
\* comes from a transaction that has run, and that has the result 0 if its
\* result has not been lost.
ResultsAndRecord ==
    /\ \A r \in Known : r.time \in Nat /\ (r.code = OK => AccountStamp >= Stamp(r.time))
    /\ Recorded =>
         \E tx \in Sent \ Pending : \A r \in Known : r.tx = tx => r.code = OK

\* A program's transaction is one message of its account.
LEMMA OneMessage ==
    ASSUME NEW tx \in ProgramTxs
    PROVE  1 .. Len(tx) = {1} /\ Len(tx) = 1 /\ tx[1].creator = Account
<1>1. PICK m : tx = <<m>> /\ m.creator = Account
  BY DEF ProgramTxs
<1>2. Len(<<m>>) = 1 /\ <<m>>[1] = m
  OBVIOUS
<1>3. QED
  BY <1>1, <1>2

LEMMA SentRecords ==
    ASSUME SentTypes
    PROVE  \A i \in 1 .. Len(sent) : sent[i].tx \in ProgramTxs /\ sent[i].want \in Wants
<1> DEFINE S == [tx : ProgramTxs, want : Wants]
<1>1. sent \in Seq(S)
  BY DEF SentTypes
<1>2. \A s \in S : s.tx \in ProgramTxs /\ s.want \in Wants
  OBVIOUS
<1> HIDE DEF S
<1>3. QED
  BY <1>1, <1>2

\* The transactions of a block are those of the program.
LEMMA BlockOfProgram ==
    ASSUME SentTypes, InOnePlace, NEW i \in 1 .. Len(block.txs)
    PROVE  block.txs[i] \in ProgramTxs
<1>1. block.txs[i] \in Sent
  BY DEF InOnePlace, Pending, TxsOf
<1>2. QED
  BY <1>1, SentRecords DEF Sent

LEMMA CommittedBlockHasRun ==
    ASSUME TypeOK, Progress, Commit
    PROVE  Len(results) = Len(block.txs)
<1>1. results \in Seq(Codes) /\ block.txs \in Seq(AdmittedTxs)
  BY DEF TypeOK
<1>2. ~ (Len(results) < Len(block.txs))
  BY DEF Commit, Running
<1>3. Len(results) <= Len(block.txs)
  BY DEF Progress
<1>4. QED
  BY ONLY <1>1, <1>2, <1>3

\* A commit records the account at the time of the block if a result is 0.
LEMMA CommitStamps ==
    ASSUME TypeOK, Progress, BlockEffectIsItsSuccesses, NothingLater, SentTypes, InOnePlace,
           Commit
    PROVE  /\ AccountStamp \in Int /\ Stamp(block.time) \in Nat
           /\ AccountStamp' >= AccountStamp
           /\ (\E i \in 1 .. Len(block.txs) : results[i] = OK)
                => AccountStamp' = Stamp(block.time)
           /\ (\A i \in 1 .. Len(block.txs) : results[i] # OK)
                => AccountStamp' = AccountStamp
<1>1. Len(results) = Len(block.txs)
  BY CommittedBlockHasRun
<1>2. Account \in BlockCreators <=> \E i \in 1 .. Len(block.txs) : results[i] = OK
  <2>1. \A i \in 1 .. Len(block.txs) :
          1 .. Len(block.txs[i]) = {1} /\ block.txs[i][1].creator = Account
    BY BlockOfProgram, OneMessage
  <2>2. BlockCreators = CreatorsOf(block.txs, results)
    BY DEF BlockCreators, CreatorsOf, FirstCreators
  <2>3. \A i \in 1 .. Len(block.txs) :
          Account \in FirstCreators(block.txs[i], Len(block.txs[i]))
    BY <2>1 DEF FirstCreators
  <2>4. QED
    BY <1>1, <2>2, <2>3, CreatorsMember
<1>3. AccountStamp \in Int /\ AccountStamp <= Stamp(lastTime)
  BY ClientAssumption DEF AccountStamp, GetVerified, NothingLater, TypeOK, Stores, Stamps, NotFound
<1>4. /\ Stamp(lastTime) \in Nat /\ Stamp(block.time) \in Nat
      /\ Stamp(lastTime) <= Stamp(block.time)
  <2>1. lastTime \in Nat /\ block.time \in Nat /\ lastTime <= block.time
    BY CommitRecords DEF TypeOK
  <2>2. QED
    BY <2>1, StampMonotone, StampBounds
<1>5. AccountStamp' = IF Account \in BlockCreators THEN Stamp(block.time) ELSE AccountStamp
  BY CommitRecords, ClientAssumption DEF AccountStamp, GetVerified
<1>6. QED
  BY <1>2, <1>3, <1>4, <1>5

LEMMA ResultsAndRecordInvariant == ClientSpec => []ResultsAndRecord
<1>1. ClientInit => ResultsAndRecord
  BY ClientAssumption
  DEF ClientInit, Init, EmptyStores, EmptyStore, GetVerified, Recorded, Known,
      ResultsAndRecord
<1>2. TypeOK /\ Progress /\ BlockEffectIsItsSuccesses /\ NothingLater /\ ClientTypes
        /\ SentTypes /\ Marks /\ InOnePlace /\ ResultsAndRecord /\ [ClientNext]_allVars
        => ResultsAndRecord'
  <2> SUFFICES ASSUME TypeOK, Progress, BlockEffectIsItsSuccesses, NothingLater, ClientTypes,
                      SentTypes, Marks, InOnePlace, ResultsAndRecord, [ClientNext]_allVars
               PROVE  ResultsAndRecord'
    OBVIOUS
  <2>1. ASSUME Known' \subseteq Known, UNCHANGED committed,
               Sent \ Pending \subseteq Sent' \ Pending'
        PROVE  ResultsAndRecord'
    <3>1. AccountStamp' = AccountStamp /\ Recorded' = Recorded
      BY <2>1 DEF AccountStamp, Recorded, GetVerified
    <3>2. QED
      BY <2>1, <3>1 DEF ResultsAndRecord
  <2>2. CASE UNCHANGED <<vars, sent, indexer>>
    <3>1. UNCHANGED <<committed, Known, Pending, Sent>>
      BY <2>2 DEF vars, memory, disk, indexer, Known, Pending, Sent, TxsOf
    <3>2. QED
      BY <2>1, <3>1
  <2>3. CASE SubmitStep
    <3>1. UNCHANGED indexer
      BY <2>3 DEF SubmitStep
    <3> DEFINE tx == <<MsgOf(Step.what, Step.day)>>
    <3>2. ASSUME CheckTx(tx), tx \in ProgramTxs, Sent' = Sent \union {tx}
          PROVE  ResultsAndRecord'
      <4>1. mempool' = Append(mempool, tx) /\ UNCHANGED <<block, committed>>
        BY <3>2 DEF CheckTx, disk
      <4>2. tx \in AdmittedTxs /\ mempool \in Seq(AdmittedTxs)
        BY <3>2, ProgramTxsAssumption DEF CheckTx, ValidateBasic, AdmittedTxs, TypeOK
      <4>3. tx \notin Sent
        BY <2>3, SubmitIsNew
      <4> HIDE DEF tx
      <4>4. Pending' = Pending \union {tx}
        BY <4>1, <4>2, AppendTxs DEF Pending, TxsOf
      <4>5. Known' = Known
        BY <3>1 DEF indexer, Known
      <4>6. QED
        BY <2>1, <3>2, <4>1, <4>3, <4>4, <4>5
    <3>3. QED
      BY <2>2, <2>3, <3>1, <3>2, SubmitAdds
  <2>4. CASE CommitAndPublish /\ UNCHANGED client
    <3>1. Commit /\ UNCHANGED <<mempool, Sent>> /\ block'.txs = <<>>
      BY <2>4 DEF CommitAndPublish, Commit, NoBlock, client, Sent
    <3>2. Known' = Known \union BlockResults
      BY <2>4, CommitKnown
    <3>3. Pending' = TxsOf(mempool)
      BY <3>1, EmptyHasNone DEF Pending, TxsOf
    <3>4. \A r \in Known' : r.time \in Nat /\ (r.code = OK => AccountStamp' >= Stamp(r.time))
      <4>1. ASSUME NEW r \in Known
            PROVE  r.time \in Nat /\ (r.code = OK => AccountStamp' >= Stamp(r.time))
        <5>1. r.time \in Nat /\ (r.code = OK => AccountStamp >= Stamp(r.time))
          BY DEF ResultsAndRecord
        <5>2. AccountStamp \in Int /\ AccountStamp' >= AccountStamp /\ AccountStamp' \in Int
          BY <3>1, CommitStamps
        <5>3. Stamp(r.time) \in Nat
          BY <5>1, StampBounds
        <5>4. QED
          BY ONLY <5>1, <5>2, <5>3
      <4>2. ASSUME NEW r \in BlockResults
            PROVE  r.time \in Nat /\ (r.code = OK => AccountStamp' >= Stamp(r.time))
        <5>1. PICK i \in 1 .. Len(block.txs) : r.code = results[i] /\ r.time = block.time
          BY BlockResultsAre
        <5>2. block.time \in Nat
          BY DEF TypeOK
        <5>3. r.code = OK => AccountStamp' = Stamp(r.time) /\ Stamp(r.time) \in Nat
          BY <3>1, <5>1, CommitStamps
        <5>4. QED
          BY <5>1, <5>2, <5>3
      <4>3. QED
        BY <3>2, <4>1, <4>2
    <3>5. ASSUME Recorded'
          PROVE  \E tx \in Sent' \ Pending' : \A r \in Known' : r.tx = tx => r.code = OK
      <4>1. CASE \E i \in 1 .. Len(block.txs) : results[i] = OK
        <5>1. PICK i \in 1 .. Len(block.txs) : results[i] = OK
          BY <4>1
        <5>2. block.txs[i] \in TxsOf(block.txs)
          BY DEF TxsOf
        <5>3. block.txs[i] \in Sent' \ Pending'
          BY <3>1, <3>3, <5>2 DEF InOnePlace, Pending
        <5>4. \A r \in Known : r.tx # block.txs[i]
          BY <5>2 DEF InOnePlace, Pending, Indexed
        <5>5. \A r \in BlockResults : r.tx = block.txs[i] => r.code = OK
          BY <5>1, BlockResultsAre DEF InOnePlace, AllDifferent
        <5>6. QED
          BY <3>2, <5>3, <5>4, <5>5
      <4>2. CASE \A i \in 1 .. Len(block.txs) : results[i] # OK
        <5>1. Recorded
          BY <3>1, <3>5, <4>2, CommitStamps DEF Recorded, AccountStamp
        <5>2. PICK tx \in Sent \ Pending : \A r \in Known : r.tx = tx => r.code = OK
          BY <5>1 DEF ResultsAndRecord
        <5>3. tx \in Sent' \ Pending'
          BY <3>1, <3>3, <5>2 DEF Pending
        <5>4. \A r \in BlockResults : r.tx # tx
          BY <5>2, BlockResultsAre DEF Pending, TxsOf
        <5>5. QED
          BY <3>2, <5>2, <5>3, <5>4
      <4>3. QED
        BY <4>1, <4>2
    <3>6. QED
      BY <3>4, <3>5 DEF ResultsAndRecord
  <2>5. CASE NodeStep /\ UNCHANGED client
    <3>1. UNCHANGED Sent
      BY <2>5 DEF client, Sent
    <3>2. CASE mempool' \in {mempool, <<>>} /\ block' = block
      <4>1. Pending' \subseteq Pending
        BY <3>2, EmptyHasNone DEF Pending, TxsOf
      <4>2. QED
        BY <2>1, <2>4, <2>5, <3>1, <3>2, <4>1, NodeMoves
    <3>3. CASE \E n \in 0 .. MaxBlockTxs, t \in lastTime + 1 .. clock : DecideBlock(n, t)
      <4>1. Pending' \subseteq Pending
        BY <3>3, DecideMoves DEF Pending
      <4>2. QED
        BY <2>1, <2>4, <2>5, <3>1, <4>1, NodeMoves
    <3>4. QED
      BY <2>4, <2>5, <3>2, <3>3, NodeMoves
  <2>6. QED
    <3>1. CASE ClientStep
      BY <2>2, <2>3, <3>1, StepsOfClient DEF indexer
    <3>2. CASE Tick \/ UNCHANGED allVars
      BY <2>2, <3>2 DEF Tick, allVars, client
    <3>3. QED
      BY <2>5, <3>1, <3>2 DEF ClientNext
<1>3. QED
  BY <1>1, <1>2, ClientRunsTheNode, TypeCorrect, ProgressInvariant, BlockEffect,
     NothingLaterInvariant, ClientTypesInvariant, SentTypesInvariant, MarksInvariant,
     InOnePlaceInvariant, PTL
  DEF ClientSpec

\* ResultsStayTrue: a transaction has one result in the index, whatever blocks
\* a crash makes the node execute again, and an account that can read a result
\* 0 there has a record that is no older, for ever (chainlib.py:136-151,
\* msg_server_submit_age_proof.go:66-73).
THEOREM ResultsStayTrue == ClientSpec => []ResultsAreFinal
<1>1. InOnePlace /\ ResultsAndRecord => ResultsAreFinal
  BY DEF InOnePlace, ResultsAndRecord, ResultsAreFinal, Known, AccountStamp
<1>2. QED
  BY <1>1, InOnePlaceInvariant, ResultsAndRecordInvariant, PTL

\* DemosTellTheTruth: a demo that says COMPLETE has seen the results it claims,
\* of the transactions it sent, the account has a record exactly if one of them
\* was accepted, and the prover had a key, through crashes, lost and late
\* transactions, lost results, failed queries and wrong keys
\* (demo_positive.py:96, demo_negative.py:60, 93, demo.sh:157).
THEOREM DemosTellTheTruth == ClientSpec => []CompletionIsTrue
<1>1. ClientTypes /\ SentTypes /\ InOnePlace /\ Judged /\ KeyUsed /\ ResultsAndRecord
        => CompletionIsTrue
  <2> SUFFICES ASSUME ClientTypes, SentTypes, InOnePlace, Judged, KeyUsed, ResultsAndRecord,
                      ending = "complete"
               PROVE  CompletionIsTrue
    BY DEF CompletionIsTrue
  <2>a. at \in Nat /\ at > Len(Steps) /\ Len(Steps) \in Nat
    BY StepsWellFormed DEF ClientTypes, WellFormed, Judged
  <2>b. keyFile \in Keys
    <3>1. PICK k \in 1 .. Len(Steps) : Steps[k].do = "prove"
      BY EveryDemoProves DEF ClientTypes
    <3>2. k \in 1 .. at - 1
      BY <2>a
    <3>3. QED
      BY <3>1, <3>2 DEF KeyUsed
  <2>1. \A i \in 1 .. Len(sent) : AsWanted(sent[i]) /\ sent[i].want \in Wants
    <3>1. ~Waiting
      BY <2>a DEF Waiting
    <3>2. QED
      BY <3>1, SentRecords DEF Judged
  <2>2. \A r, s \in index : r.tx = s.tx => r = s
    BY DEF InOnePlace, Known
  <2>3. \A i \in 1 .. Len(sent) :
          \E r \in index : /\ CodesOf(sent[i].tx) = {r.code}
                           /\ sent[i].want = "accepted" <=> r.code = OK
    BY <2>1, <2>2 DEF AsWanted, CodesOf
  <2>4. \A tx \in Wanted("accepted") : CodesOf(tx) = {OK}
    BY <2>3 DEF Wanted
  <2>5. \A tx \in Wanted("rejected") : CodesOf(tx) # {} /\ OK \notin CodesOf(tx)
    BY <2>3 DEF Wanted
  <2>6. ASSUME Recorded PROVE Wanted("accepted") # {}
    <3>1. PICK tx \in Sent : \A r \in Known : r.tx = tx => r.code = OK
      BY <2>6 DEF ResultsAndRecord
    <3>2. PICK i \in 1 .. Len(sent) : tx = sent[i].tx
      BY DEF Sent
    <3>3. sent[i].want = "accepted"
      BY <2>1, <3>1, <3>2 DEF AsWanted, Known
    <3>4. QED
      BY <3>3 DEF Wanted
  <2>7. ASSUME Wanted("accepted") # {} PROVE Recorded
    <3>1. PICK r \in index : r.code = OK
      BY <2>1, <2>7 DEF Wanted, AsWanted
    <3>2. r.time \in Nat /\ AccountStamp >= Stamp(r.time)
      BY <3>1 DEF ResultsAndRecord, Known
    <3>3. Stamp(r.time) \in Nat
      BY <3>2, StampBounds
    <3>4. QED
      BY <3>2, <3>3 DEF AccountStamp, Recorded, NotFound
  <2>8. QED
    BY <2>b, <2>4, <2>5, <2>6, <2>7 DEF CompletionIsTrue
<1>2. QED
  BY <1>1, ClientTypesInvariant, SentTypesInvariant, InOnePlaceInvariant, JudgedInvariant,
     KeyUsedInvariant, ResultsAndRecordInvariant, PTL

-----------------------------------------------------------------------------
(***************************************************************************)
(* Why an adult may be refused.                                            *)
(***************************************************************************)

\* Results are the handler's verdicts at the time of their block.
IndexVerdicts == \A r \in Known : r.code = OK <=> SubmitCode(r.tx[1], r.time) = OK

LEMMA IndexVerdictsInvariant == ClientSpec => []IndexVerdicts
<1>1. ClientInit => IndexVerdicts
  BY DEF ClientInit, Known, IndexVerdicts
<1>2. TypeOK /\ Progress /\ Verdicts /\ ClientTypes /\ SentTypes /\ InOnePlace
        /\ IndexVerdicts /\ [ClientNext]_allVars => IndexVerdicts'
  <2> SUFFICES ASSUME TypeOK, Progress, Verdicts, ClientTypes, SentTypes, InOnePlace,
                      IndexVerdicts, [ClientNext]_allVars
               PROVE  IndexVerdicts'
    OBVIOUS
  <2>1. CASE Known' \subseteq Known
    BY <2>1 DEF IndexVerdicts
  <2>2. CASE CommitAndPublish
    <3>1. Len(results) = Len(block.txs)
      BY <2>2, CommittedBlockHasRun DEF CommitAndPublish
    <3>2. \A i \in 1 .. Len(block.txs) :
            results[i] = OK <=> SubmitCode(block.txs[i][1], block.time) = OK
      <4>1. \A i \in 1 .. Len(block.txs) : Len(block.txs[i]) = 1
        BY BlockOfProgram, OneMessage
      <4>2. \A tx, t : AllAccepted(tx, 1, t) <=> SubmitCode(tx[1], t) = OK
        BY DEF AllAccepted
      <4>3. QED
        BY <3>1, <4>1, <4>2 DEF Verdicts
    <3>3. QED
      BY <2>2, <3>2, CommitKnown, BlockResultsAre DEF IndexVerdicts
  <2>3. CASE UNCHANGED indexer
    BY <2>1, <2>3 DEF indexer, Known
  <2>4. QED
    BY <2>1, <2>2, <2>3, NodeMoves, StepsOfClient DEF ClientNext, Tick, allVars, indexer
<1>3. QED
  BY <1>1, <1>2, ClientRunsTheNode, TypeCorrect, ProgressInvariant, VerdictsInvariant,
     ClientTypesInvariant, SentTypesInvariant, InOnePlaceInvariant, PTL
  DEF ClientSpec

\* The positive demo proves, sends and sees refused one thing.
AdultPublic == BuildPublicWitness(Calendar[proof.date], 18)
AdultsProof ==
    program = "positive" /\ at >= 4 =>
      /\ keyFile \in Keys /\ proof.date \in Days
      /\ proof.object = ProofOf(keyFile, AdultPublic)
      /\ Satisfied(Adult, AdultPublic)
      /\ \A tx \in Sent : tx[1].proof = proof.object /\ tx[1].date = proof.date

LEMMA AdultsProofInvariant == ClientSpec => []AdultsProof
<1>1. ClientInit => AdultsProof
  BY DEF ClientInit, AdultsProof
<1>2. ClientTypes /\ SentTypes /\ Marks /\ AdultsProof /\ [ClientNext]_allVars => AdultsProof'
  <2> SUFFICES ASSUME ClientTypes, SentTypes, Marks, AdultsProof, [ClientNext]_allVars,
                      program' = "positive", at' >= 4
               PROVE  AdultsProof'
    BY DEF AdultsProof
  <2>1. at \in Nat
    BY DEF ClientTypes
  <2>2. CASE UNCHANGED <<program, at, keyFile, proof, sent>>
    <3>1. Sent' = Sent /\ AdultPublic' = AdultPublic
      BY <2>2 DEF Sent, AdultPublic
    <3>2. QED
      BY <2>2, <3>1 DEF AdultsProof
  <2>3. ASSUME ClientStep, at \in 1 .. Len(Steps) + 1 PROVE AdultsProof'
    <3>1. program = "positive" /\ keyFile' = keyFile /\ (at' = at \/ at' = at + 1)
      BY <2>3, StepsOfClient
    <3>2. CASE SubmitStep
      <4>1. /\ Step.do = "submit" /\ at \in 1 .. Len(Steps) /\ UNCHANGED proof
        BY <3>2 DEF SubmitStep, Here, ClientTypes
      <4>2. at = 4 /\ Step.what = "proof" /\ Step.day = "itsOwn"
        BY <3>1, <4>1, PositiveSteps
      <4> DEFINE msg == MsgOf(Step.what, Step.day)
      <4>3. msg.proof = proof.object /\ msg.date = proof.date /\ <<msg>>[1] = msg
        BY <4>2 DEF MsgOf
      <4>4. Sent' = Sent \/ Sent' = Sent \union {<<msg>>}
        BY <3>2, SubmitAdds DEF Sent
      <4>5. AdultPublic' = AdultPublic
        BY <4>1 DEF AdultPublic
      <4> HIDE DEF msg
      <4>6. QED
        BY <3>1, <4>1, <4>2, <4>3, <4>4, <4>5 DEF AdultsProof
    <3>3. CASE ProveStep
      <4>1. Step.do = "prove" /\ at \in 1 .. Len(Steps) /\ UNCHANGED sent
        BY <3>3 DEF ProveStep, Here, ClientTypes
      <4>2. at = 3 /\ at' = 4 /\ Step.birth = Adult /\ Step.minAge = 18
        BY <2>1, <3>1, <4>1, PositiveSteps
      <4>3. sent' = <<>> /\ Sent' = {}
        BY <3>1, <4>1, <4>2 DEF Marks, PositiveMarks, Sent
      <4>4. /\ ProverSucceeds
            /\ proof' = [object |-> ProofOf(keyFile, StepPublic),
                         date   |-> DayOf(Step.day),
                         made   |-> clock]
        BY <3>3, <4>2 DEF ProveStep, Exit
      <4>5. proof'.date \in Days
        BY <4>4, LocalDayInCalendar, ClientAssumption DEF DayOf
      <4>6. AdultPublic' = StepPublic
        BY <4>2, <4>4 DEF AdultPublic, StepPublic
      <4>7. QED
        BY <3>1, <4>2, <4>3, <4>4, <4>5, <4>6 DEF AdultsProof, ProverSucceeds
    <3>4. CASE ~SubmitStep /\ ~ProveStep
      <4>1. UNCHANGED <<proof, sent>>
        BY <2>3, <3>4, StepsOfClient
      <4>2. at >= 4
        <5>1. at = 3 => at' = at
          BY <2>3, <3>1, <3>4, StepsOfClient, PositiveSteps
        <5>2. QED
          BY <2>1, <3>1, <5>1
      <4>3. Sent' = Sent /\ AdultPublic' = AdultPublic
        BY <4>1 DEF Sent, AdultPublic
      <4>4. QED
        BY <3>1, <4>1, <4>2, <4>3 DEF AdultsProof
    <3>5. QED
      BY <3>2, <3>3, <3>4
  <2>4. QED
    BY <2>2, <2>3, ClientMoves
<1>3. QED
  BY <1>1, <1>2, ClientTypesInvariant, SentTypesInvariant, MarksInvariant, PTL DEF ClientSpec

\* The positive demo says the chain refused its proof when it did.
RefusalSeen ==
    program = "positive" /\ ending = "failedOnChain" =>
      at >= 4 /\ \E r \in index : r.code # OK

LEMMA RefusalSeenInvariant == ClientSpec => []RefusalSeen
<1>1. ClientInit => RefusalSeen
  BY DEF ClientInit, RefusalSeen
<1>2. ClientTypes /\ Judged /\ RefusalSeen /\ [ClientNext]_allVars => RefusalSeen'
  <2> SUFFICES ASSUME ClientTypes, Judged, RefusalSeen, [ClientNext]_allVars,
                      program' = "positive", ending' = "failedOnChain"
               PROVE  at' >= 4 /\ \E r \in index' : r.code # OK
    BY DEF RefusalSeen
  <2>1. at \in Nat /\ index \subseteq index' /\ program = "positive"
          /\ (at' = at \/ at' = at + 1)
    <3>1. at \in Nat
      BY DEF ClientTypes
    <3>2. index \subseteq index'
      BY IndexGrows
    <3>3. QED
      BY <3>1, <3>2, ClientMoves, StepsOfClient
  <2>2. CASE ending = "failedOnChain"
    BY <2>1, <2>2 DEF RefusalSeen
  <2>3. CASE ending # "failedOnChain"
    <3>1. ClientStep
      BY <2>3, ClientMoves
    <3>2. FindResult \/ LookStep
      BY <2>3, <3>1
      DEF ClientStep, ConnectStep, ProveStep, MustRefuseStep, SubmitStep, GiveUp, AskStep,
          Complete, Here, GoOn, Exit
    <3>3. Step.do \in Waits /\ at \in 1 .. Len(Steps)
      BY <3>2 DEF FindResult, LookStep, Here, Waits, ClientTypes
    <3>4. FindResult
      BY <2>1, <3>2, <3>3, PositiveSteps DEF LookStep, Here
    <3>5. PICK r \in index : Judge(r.code)
      BY <3>4 DEF FindResult, StepResults
    <3>6. r.code # OK
      BY <2>3, <3>5 DEF Judge, GoOn, Exit
    <3>7. at - 1 \in 1 .. Len(Steps) /\ at = 5
      <4>1. at > 1 /\ Steps[at - 1].do = "submit"
        BY <3>3, StepsWellFormed DEF WellFormed, Step, ClientTypes
      <4>2. Steps = PositiveDemo /\ Len(PositiveDemo) = 6
        BY <2>1 DEF Steps, PositiveDemo
      <4>3. at \in {2, 3, 4, 5, 6}
        BY <3>3, <4>1, <4>2
      <4>4. QED
        BY <4>1, <4>2, <4>3 DEF PositiveDemo, Connect, Ask, Prove, Submit, Wait
    <3>8. QED
      BY <2>1, <3>5, <3>6, <3>7
  <2>4. QED
    BY <2>2, <2>3
<1>3. QED
  BY <1>1, <1>2, ClientTypesInvariant, JudgedInvariant, PTL DEF ClientSpec

\* A date within a day of the block, in true ticks, passes the check.
LEMMA WithinADayIsNear ==
    ASSUME NEW d \in Days, NEW t \in Nat, t - Midnight(d) \in -DayTicks .. DayTicks
    PROVE  DateNearBlockTime(d, t)
<1> DEFINE m == Midnight(d)
<1>1. m \in Int /\ DayTicks \in Nat /\ MaxDuration \in Nat /\ DayTicks < MaxDuration
  BY MidnightInt, DayTicksPositive, ClockAssumption
<1>2. t - m \in -DayTicks .. DayTicks
  OBVIOUS
<1> HIDE DEF m
<1>3. TimeSub(t, m) = t - m
  BY <1>1, <1>2 DEF TimeSub, MinDuration
<1>4. QED
  BY <1>1, <1>2, <1>3 DEF DateNearBlockTime, DateTimeTolerance, Negated, MinDuration, m

\* A proof of the chain's own key for a date's public inputs verifies.
LEMMA OwnProofVerifies ==
    ASSUME VKBytes \in Keys, NEW d \in Days, NEW t, NEW msg,
           Satisfied(Adult, BuildPublicWitness(Calendar[d], RequiredMinAge)),
           msg.proof = ProofOf(VKBytes, BuildPublicWitness(Calendar[d], RequiredMinAge)),
           msg.date = d, DateNearBlockTime(d, t)
    PROVE  SubmitCode(msg, t) = OK
<1> DEFINE public == BuildPublicWitness(Calendar[d], RequiredMinAge)
<1>1. Satisfied(Adult, public) /\ msg.proof = ProofOf(VKBytes, public)
  OBVIOUS
<1> HIDE DEF public
<1>2. msg.proof.form = "groth16" /\ msg.proof.key = VKBytes /\ msg.proof.public = public
  BY <1>1 DEF ProofOf
<1>3. msg.proof # NotBase64 /\ msg.proof # NotAProof
  BY <1>2 DEF NotBase64, NotAProof
<1>4. Verifies(msg.proof, VKBytes, public)
  BY <1>1, <1>2, ClientAssumption DEF Verifies, Genuine
<1>5. ~VerifyAgeProofFails(msg.proof, public)
  BY <1>3, <1>4 DEF VerifyAgeProofFails
<1>6. QED
  BY <1>3, <1>5, KeeperAssumption DEF SubmitCode, LoadVerificationKeyFails, public

\* AdultsAreRefusedForLatenessOnly: when the positive demo, run with the key
\* the chain embeds, says that its proof failed on the chain, the block was
\* more than a day away from the midnight of the proof's date
\* (msg_server_submit_age_proof.go:34-47, demo_positive.py:76-78).
THEOREM AdultsAreRefusedForLatenessOnly == ClientSpec => []OnlyLatenessRefusesAdults
<1>1. InOnePlace /\ ResultsAndRecord /\ IndexVerdicts /\ AdultsProof /\ RefusalSeen
        => OnlyLatenessRefusesAdults
  <2> SUFFICES ASSUME InOnePlace, ResultsAndRecord, IndexVerdicts, AdultsProof, RefusalSeen,
                      program = "positive", ending = "failedOnChain", keyFile = VKBytes
               PROVE  \E r \in index :
                        r.time - Midnight(proof.date) \notin -DayTicks .. DayTicks
    BY DEF OnlyLatenessRefusesAdults
  <2>1. at >= 4
    BY DEF RefusalSeen
  <2>2. PICK r \in index : r.code # OK
    BY DEF RefusalSeen
  <2>3. r.tx \in Sent
    BY DEF InOnePlace, Indexed, Known
  <2>4. SubmitCode(r.tx[1], r.time) # OK /\ r.time \in Nat
    BY <2>2 DEF IndexVerdicts, ResultsAndRecord, Known
  <2>5. /\ VKBytes \in Keys /\ proof.date \in Days
        /\ r.tx[1].proof = ProofOf(VKBytes, AdultPublic) /\ r.tx[1].date = proof.date
        /\ Satisfied(Adult, AdultPublic)
    BY <2>1, <2>3 DEF AdultsProof
  <2>6. AdultPublic = BuildPublicWitness(Calendar[proof.date], RequiredMinAge)
    BY DEF AdultPublic, RequiredMinAge
  <2>7. ~DateNearBlockTime(proof.date, r.time)
    BY <2>4, <2>5, <2>6, OwnProofVerifies
  <2>8. QED
    BY <2>4, <2>5, <2>7, WithinADayIsNear
<1>2. QED
  BY <1>1, InOnePlaceInvariant, ResultsAndRecordInvariant, IndexVerdictsInvariant,
     AdultsProofInvariant, RefusalSeenInvariant, PTL

=============================================================================
