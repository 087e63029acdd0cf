------------------------------- MODULE Client -------------------------------
(***************************************************************************)
(* A demo program against a node: demo/demo_positive.py, demo_negative.py  *)
(* and scripts/demo.sh, with the helpers of demo/chainlib.py, the command  *)
(* lines of x/ageverify/client/cli and the prover they run.                *)
(*                                                                         *)
(* A program is a list of steps.  It shares a clock with the node: block   *)
(* times lie in the past of the clock, the prover dates its proof by the   *)
(* local date, and the program waits for so long and no longer.  The node  *)
(* crashes, loses its mempool and restarts whenever it likes.              *)
(*                                                                         *)
(* A program learns a transaction's result from the node's index, which    *)
(* CometBFT fills behind the chain: a committed block's results go through *)
(* an event bus in memory to the indexer, and a crash on the way loses     *)
(* them for good, as a committed block is not executed again.              *)
(***************************************************************************)
EXTENDS AgeVerifyApp

CONSTANTS
    Programs,      \* which of "positive", "negative" and "script" is run
    Account,       \* the address of the program's account
    Adult, Child,  \* birth dates: the ones the programs name
    FutureDay,     \* the first of January 2035
    KeyFiles,      \* what zk/keys/proving.key may hold
    Offsets,       \* local time minus UTC, in ticks
    StartClock,    \* when the program starts
    MaxClock,      \* bound on the clock
    WaitTicks,     \* the timeout of wait_for_tx
    SleepTicks     \* the sleep of demo.sh

ASSUME ClientAssumption ==
    /\ Programs \subseteq {"positive", "negative", "script"}
    /\ Account \in Addresses
    /\ {Adult, Child} \subseteq Births
    /\ FutureDay \in Days
    /\ StartClock \in Nat /\ MaxClock \in StartClock .. MaxTime
    /\ WaitTicks \in Nat \ {0} /\ SleepTicks \in Nat \ {0}

\* The calendar has every local date of the run, and 2035 is none of them.
ASSUME LocalDatesAssumption ==
    \A t \in StartClock .. MaxClock, o \in Offsets :
       /\ o \in Int
       /\ (t + o) \div DayTicks \in Days \ {FutureDay}

\* The transactions the programs may make are among those the node may get.
ProgramProofs ==
    {NotAProof} \union
    {ProofOf(key, BuildPublicWitness(Calendar[d], minAge)) :
        key \in Keys, d \in Days, minAge \in {0, 18}}
ProgramTxs ==
    {<<[creator |-> Account, proof |-> p, witness |-> w, date |-> d]>> :
        p \in ProgramProofs, w \in {"matching", "other"}, d \in Days \union {BadDate}}

ASSUME ProgramTxsAssumption == ProgramTxs \subseteq Txs

VARIABLES
    program,   \* the program that runs
    at,        \* its next step
    ending,    \* "running", or how it ended
    keyFile,   \* zk/keys/proving.key
    offset,    \* the offset of the machine's time zone
    proof,     \* the proof the prover printed last: [object, date, made]
    sent,      \* the transactions broadcast, in order, each with the result wanted
    left,      \* the ticks it is still willing to wait
    clock,     \* the time
    publishing, \* results of committed blocks on their way to the index
    index      \* the node's index of transactions: [tx, code, time]

client  == <<program, at, ending, keyFile, offset, proof, sent, left>>
indexer == <<publishing, index>>
allVars == <<vars, client, clock, indexer>>

-----------------------------------------------------------------------------
\* Steps of a program.
Connect              == [do |-> "connect"]
Ask(want)            == [do |-> "ask", want |-> want]
Prove(who, min, day) == [do |-> "prove", birth |-> who, minAge |-> min, day |-> day]
MustRefuse(who)      == [do |-> "mustRefuse", birth |-> who, minAge |-> 18, day |-> "today"]
Submit(what, day)    == [do |-> "submit", what |-> what, day |-> day]
Wait(want)           == [do |-> "wait", want |-> want]
Look(want, missing)  == [do |-> "look", want |-> want, missing |-> missing]

PositiveDemo ==
    << Connect, Ask(FALSE), Prove(Adult, 18, "today"), Submit("proof", "itsOwn"),
       Wait("accepted"), Ask(TRUE) >>

NegativeDemo ==
    << Connect, MustRefuse(Child),
       Prove(Child, 0, "today"), Submit("proof", "itsOwn"), Wait("rejected"),
       Prove(Child, 18, "future"), Submit("proof", "itsOwn"), Wait("rejected"),
       Submit("proof", "today"), Wait("rejected"),
       Ask(FALSE) >>

\* demo.sh: a missing result has the code 99 the first time, 0 the second.
ScriptDemo ==
    << Connect, Prove(Adult, 18, "today"), Submit("proof", "itsOwn"),
       Look("accepted", 99), Ask(TRUE),
       Submit("fake", "itsOwn"), Look("rejected", 0), MustRefuse(Child) >>

Steps == CASE program = "positive" -> PositiveDemo
           [] program = "negative" -> NegativeDemo
           [] program = "script"   -> ScriptDemo
Step  == Steps[at]
Here(do) == ending = "running" /\ at <= Len(Steps) /\ Step.do = do

-----------------------------------------------------------------------------
NoProof == [object |-> NotAProof, date |-> BadDate, made |-> 0]

ClientInit ==
    /\ Init
    /\ program \in Programs
    /\ at = 1
    /\ ending = "running"
    /\ keyFile \in KeyFiles
    /\ offset \in Offsets
    /\ proof = NoProof
    /\ sent = <<>>
    /\ left = 0
    /\ clock = StartClock
    /\ publishing = {}
    /\ index = {}

\* How a step ends: the program goes on, or exits with a message.
GoOn == at' = at + 1 /\ UNCHANGED ending
Exit(how) == ending' = how /\ UNCHANGED at
NodeUnchanged == UNCHANGED <<vars, clock, indexer>>

\* require_chain_live.
ConnectStep ==
    /\ Here("connect")
    /\ IF booted THEN GoOn ELSE Exit("unreachable")
    /\ UNCHANGED <<program, keyFile, offset, proof, sent, left>>
    /\ NodeUnchanged

\* The local date, and the date the prover works with.
LocalDay == (clock + offset) \div DayTicks
DayOf(name) == IF name = "future" THEN FutureDay ELSE LocalDay
StepPublic == BuildPublicWitness(Calendar[DayOf(Step.day)], Step.minAge)
ProverSucceeds == keyFile \in Keys /\ Satisfied(Step.birth, StepPublic)

\* generate_proof: whatever makes the prover fail is a ProofRefused.
ProveStep ==
    /\ Here("prove")
    /\ IF ProverSucceeds
       THEN /\ proof' = [object |-> ProofOf(keyFile, StepPublic),
                         date   |-> DayOf(Step.day),
                         made   |-> clock]
            /\ GoOn
       ELSE Exit("proofRefused") /\ UNCHANGED proof
    /\ UNCHANGED <<program, keyFile, offset, sent, left>>
    /\ NodeUnchanged

MustRefuseStep ==
    /\ Here("mustRefuse")
    /\ IF ProverSucceeds THEN Exit("proofForAMinor") ELSE GoOn
    /\ UNCHANGED <<program, keyFile, offset, proof, sent, left>>
    /\ NodeUnchanged

\* CmdSubmitAgeProof: one message, in the name of the signing account.
MsgOf(what, day) ==
    [ creator |-> Account,
      proof   |-> IF what = "fake" THEN NotAProof ELSE proof.object,
      witness |-> IF what = "fake" THEN "other" ELSE "matching",
      date    |-> IF day = "today" THEN LocalDay ELSE proof.date ]

\* Broadcast in sync mode: CheckTx has answered, nothing is executed yet.
SubmitStep ==
    /\ Here("submit")
    /\ LET next == Steps[at + 1]
           tx   == <<MsgOf(Step.what, Step.day)>>
       IN  IF booted
           THEN /\ CheckTx(tx)
                /\ sent' = Append(sent, [tx |-> tx, want |-> next.want])
                /\ left' = IF next.do = "wait" THEN WaitTicks ELSE SleepTicks
                /\ GoOn
           ELSE Exit("notBroadcast") /\ UNCHANGED <<vars, sent, left>>
    /\ UNCHANGED <<program, keyFile, offset, proof, clock, indexer>>

\* The results of the transaction whose hash the program holds, the last sent.
StepResults == {r \in index : r.tx = sent[Len(sent)].tx}
Judge(code) ==
    IF Step.want = "accepted"
    THEN IF code = OK THEN GoOn ELSE Exit("failedOnChain")
    ELSE IF code # OK THEN GoOn ELSE Exit("chainAcceptedAFalseProof")

\* wait_for_tx finds the result.
FindResult ==
    /\ Here("wait") /\ left > 0
    /\ booted
    /\ \E r \in StepResults : Judge(r.code)
    /\ UNCHANGED <<program, keyFile, offset, proof, sent, left>>
    /\ NodeUnchanged

\* Slips: a timeout counts as a refusal, or nobody looks at the deadline.
GiveUpJudging ==
    /\ Here("wait") /\ left = 0
    /\ Judge(99)
    /\ UNCHANGED <<program, keyFile, offset, proof, sent, left>>
    /\ NodeUnchanged
GiveUpNever == FALSE /\ UNCHANGED allVars

\* wait_for_tx returns None, and every caller fails.
GiveUp ==
    /\ Here("wait") /\ left = 0
    /\ Exit("timeout")
    /\ UNCHANGED <<program, keyFile, offset, proof, sent, left>>
    /\ NodeUnchanged

\* demo.sh looks once, after its sleep.
LookStep ==
    /\ Here("look") /\ left = 0
    /\ IF booted /\ StepResults # {}
       THEN \E r \in StepResults : Judge(r.code)
       ELSE Judge(Step.missing)
    /\ UNCHANGED <<program, keyFile, offset, proof, sent, left>>
    /\ NodeUnchanged

\* query_status, and the query of demo.sh: a node that cannot answer is a
\* verified = false to the first, and ends the second.
Answer(address) ==
    booted /\ versioned /\ VerificationStatus(committed.ageverify, address).verified
AskStep ==
    /\ Here("ask")
    /\ IF program = "script" /\ ~(booted /\ versioned) THEN Exit("queryFailed")
       ELSE IF Answer(Account) = Step.want THEN GoOn
       ELSE Exit(IF Step.want THEN "notVerified" ELSE "alreadyVerified")
    /\ UNCHANGED <<program, keyFile, offset, proof, sent, left>>
    /\ NodeUnchanged

Complete ==
    /\ ending = "running" /\ at > Len(Steps)
    /\ Exit("complete")
    /\ UNCHANGED <<program, keyFile, offset, proof, sent, left>>
    /\ NodeUnchanged

ClientStep ==
    \/ ConnectStep
    \/ ProveStep
    \/ MustRefuseStep
    \/ SubmitStep
    \/ FindResult
    \/ GiveUp
    \/ LookStep
    \/ AskStep
    \/ Complete

-----------------------------------------------------------------------------
\* Time passes.  The clock stops at its bound, a wait ends all the same.
Tick ==
    /\ clock < MaxClock \/ left > 0
    /\ clock' = IF clock < MaxClock THEN clock + 1 ELSE clock
    /\ left' = IF left > 0 THEN left - 1 ELSE 0
    /\ UNCHANGED <<vars, program, at, ending, keyFile, offset, proof, sent, indexer>>

BlockResults ==
    {[tx |-> block.txs[i], code |-> results[i], time |-> block.time] :
        i \in 1 .. Len(block.txs)}

\* A slip: the results are published when the block has run, before the commit.
PublishBeforeCommit ==
    /\ Commit \/ (booted /\ Decided /\ ~Running /\ UNCHANGED vars)
    /\ publishing' = publishing \union BlockResults
    /\ UNCHANGED index

\* After the commit the block's results are published.
CommitAndPublish ==
    /\ Commit
    /\ publishing' = publishing \union BlockResults
    /\ UNCHANGED index

\* The indexer writes a block's results, in one batch and in order of blocks.
OldestBlock == {r \in publishing : \A s \in publishing : r.time <= s.time}
IndexBlock ==
    /\ publishing # {}
    /\ index' = index \union OldestBlock
    /\ publishing' = publishing \ OldestBlock
    /\ UNCHANGED vars

\* The event bus dies with the process.
CrashNode ==
    /\ Crash
    /\ publishing' = {}
    /\ UNCHANGED index

NodeStep ==
    \/ /\ \/ InitChain
          \/ Restart
          \/ MsgFails
          \/ TxPasses
          \/ \E n \in 0 .. MaxBlockTxs, t \in lastTime + 1 .. clock : DecideBlock(n, t)
       /\ UNCHANGED indexer
    \/ CommitAndPublish
    \/ IndexBlock
    \/ CrashNode

ClientNext ==
    \/ ClientStep
    \/ Tick
    \/ NodeStep /\ UNCHANGED <<client, clock>>

\* A program that can go on does, and time passes; the node owes nothing.
ClientSpec ==
    ClientInit /\ [][ClientNext]_allVars /\ WF_allVars(ClientStep) /\ WF_allVars(Tick)

-----------------------------------------------------------------------------
Wanted(want) == {sent[i].tx : i \in {i \in 1 .. Len(sent) : sent[i].want = want}}
CodesOf(tx)  == {r.code : r \in {r \in index : r.tx = tx}}
Recorded     == GetVerified(committed.ageverify, Account) # NotFound

\* CompletionIsTrue: when a demo says COMPLETE, every transaction it sent is in
\* a block with the result it claims, the account's record is there exactly if
\* one was to be accepted, and the prover had a key it could prove with, so what
\* it refused it refused for the age; whatever crashes, late blocks, lost
\* results, failed queries and wrong keys the demo met (demo_positive.py:96,
\* demo_negative.py:60, 93, demo.sh:147-157).
CompletionIsTrue ==
    ending = "complete" =>
      /\ keyFile \in Keys
      /\ \A tx \in Wanted("accepted") : CodesOf(tx) = {OK}
      /\ \A tx \in Wanted("rejected") : CodesOf(tx) # {} /\ OK \notin CodesOf(tx)
      /\ Recorded <=> Wanted("accepted") # {}

\* ResultsAreFinal: what a program can read about a transaction stays true: it
\* has one result, whatever is executed again after a crash, and with the result
\* 0 goes a record that is no older and that no crash takes back, although the
\* index is filled behind the chain (chainlib.py:136-151).
ResultsAreFinal ==
    \A r \in index :
       /\ \A other \in index : other.tx = r.tx => other = r
       /\ r.code = OK =>
            GetVerified(committed.ageverify, Account) >= Stamp(r.time)

\* OnlyLatenessRefusesAdults: an adult with the right proving key is refused on
\* the chain for one reason only: the block is more than a day away from the
\* midnight of the proof's date (msg_server_submit_age_proof.go:34-47).
OnlyLatenessRefusesAdults ==
    program = "positive" /\ ending = "failedOnChain" /\ keyFile = VKBytes =>
      \E r \in index : r.time - Midnight(proof.date) \notin -DayTicks .. DayTicks

\* ClientEnds: a demo ends, also when its transaction is lost in a crash or the
\* node stops making blocks (chainlib.py:133-155).
ClientEnds == <>(ending # "running")

-----------------------------------------------------------------------------
(***************************************************************************)
(* Claims of the programs, comments and documents that do not hold.        *)
(***************************************************************************)
\* AlarmsAreTrue: "Chain accepted invalid proof" is said when the chain did
\* (demo.sh:139-140).
AlarmsAreTrue ==
    ending = "chainAcceptedAFalseProof" =>
      \E tx \in Wanted("rejected") : OK \in CodesOf(tx)

\* NotFoundIsNotCommitted: "tx was not committed within the timeout": when the
\* positive demo gives up and no result is there or still to come, its account
\* has no record (demo_positive.py:68).
NotFoundIsNotCommitted ==
    program = "positive" /\ ending = "timeout" /\ StepResults \union publishing = {}
      => ~Recorded

\* PromptProofIsAccepted: "Proof generation and tx submission rarely span more
\* than minutes; 24h is generous but safe": an adult's proof in a block within
\* WaitTicks is accepted (docs/architecture.md:106).
PromptProofIsAccepted ==
    \A r \in index :
       program = "positive" /\ keyFile = VKBytes /\ r.time - proof.made \in 0 .. WaitTicks
         => r.code = OK

=============================================================================
