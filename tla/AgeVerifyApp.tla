---------------------------- MODULE AgeVerifyApp ----------------------------
(***************************************************************************)
(* The ageverifyd node: chain/app/app.go, which wires the x/ageverify      *)
(* module into baseapp, and the consensus engine that drives it.           *)
(*                                                                         *)
(* A transaction is a sequence of messages.  It waits in the mempool, is   *)
(* put into a block, and runs message by message on a branch of the        *)
(* block's state: one failing message drops the whole branch.  Commit      *)
(* makes the block's state the one queries read.  A crash loses everything *)
(* in memory; the consensus engine keeps a block it has decided and hands  *)
(* it to the restarted node again.                                         *)
(*                                                                         *)
(* NewApp installs no ante handler: no step of a transaction's execution   *)
(* precedes its messages, and CheckTx runs ValidateBasic only.             *)
(***************************************************************************)
EXTENDS AgeVerifyKeeper, Sequences, FiniteSets

CONSTANTS
    Txs,           \* the transactions that clients send
    MaxTime,       \* bound on block times
    MaxMempool,    \* bound on the mempool
    MaxBlockTxs,   \* bound on the transactions of a block
    AllowExport    \* the operator may restart the chain from an export

ASSUME AppAssumption ==
    /\ \A tx \in Txs : tx \in Seq(Messages) /\ tx # <<>>
    /\ MaxTime \in Nat /\ MaxMempool \in Nat /\ MaxBlockTxs \in Nat
    /\ AllowExport \in BOOLEAN

VARIABLES
    mempool,     \* transactions that passed CheckTx, in order of arrival
    block,       \* the block decided by consensus, or NoBlock
    results,     \* codes of the transactions of the block that have run
    branch,      \* the cached context of the running transaction
    deliver,     \* the state of the block in execution, not yet committed
    committed,   \* the last committed version of the stores
    versioned,   \* some version has been committed
    genesis,     \* the module's section of the genesis file
    booted,      \* the node is running and its stores are loaded
    lastTime     \* time of the last committed block

memory == <<mempool, results, branch, deliver, booted>>
disk   == <<block, committed, versioned, genesis, lastTime>>
vars   == <<memory, disk>>

-----------------------------------------------------------------------------
NoBlock == [time |-> 0, txs |-> <<>>]
Decided == block # NoBlock

\* The stores the application mounts, the ones whose emptiness matters, and
\* what a block or a transaction in execution adds to them.
EmptyStores == [ageverify |-> EmptyStore, params |-> FALSE]
WithNoEvents(stores) ==
    [ageverify |-> stores.ageverify, params |-> stores.params, events |-> {}]
StoresOf(state) == [ageverify |-> state.ageverify, params |-> state.params]

\* A transaction about to run its first message on a branch of a state.
BranchOff(state) == [next |-> 1, state |-> state]

Running    == Decided /\ Len(results) < Len(block.txs)
CurrentTx  == block.txs[Len(results) + 1]
CurrentMsg == CurrentTx[branch.next]
CurrentCode == SubmitCode(CurrentMsg, block.time)

\* The branch after the current message has succeeded.
AfterMsg ==
    [branch.state EXCEPT
       !.ageverify = SubmitStore(@, CurrentMsg, block.time),
       !.events    = @ \union {AgeVerifiedEvent(CurrentMsg, block.time)}]

Init ==
    /\ mempool = <<>>
    /\ block = NoBlock
    /\ results = <<>>
    /\ deliver = WithNoEvents(EmptyStores)
    /\ branch = BranchOff(deliver)
    /\ committed = EmptyStores
    /\ versioned = FALSE
    /\ genesis = EmptyGenesis
    /\ booted = FALSE
    /\ lastTime = 0

-----------------------------------------------------------------------------
\* InitChainer: genesis of the modules, then the sentinel of the params store.
\* It runs at every start until a first block is committed.
InitChain ==
    /\ ~booted /\ ~versioned
    /\ booted' = TRUE
    /\ deliver' = [ ageverify |-> InitGenesis(genesis, EmptyStore),
                    params    |-> TRUE,
                    events    |-> {} ]
    /\ branch' = BranchOff(deliver')
    /\ UNCHANGED <<mempool, results, disk>>

\* LoadLatestVersion on start; a decided block is then executed again.
Restart ==
    /\ ~booted /\ versioned
    /\ booted' = TRUE
    /\ deliver' = WithNoEvents(committed)
    /\ branch' = BranchOff(deliver')
    /\ UNCHANGED <<mempool, results, disk>>

\* CheckTx: without an ante handler only ValidateBasic of each message.
CheckTx(tx) ==
    /\ booted
    /\ \A i \in 1 .. Len(tx) : ValidateBasic(tx[i])
    /\ Len(mempool) < MaxMempool
    /\ mempool' = Append(mempool, tx)
    /\ UNCHANGED <<results, branch, deliver, booted, disk>>

\* Consensus decides a block: the first n transactions of the mempool and a
\* time later than the last block's.
DecideBlock(n, t) ==
    /\ booted /\ ~Decided
    /\ n <= Len(mempool)
    /\ t > lastTime
    /\ block' = [time |-> t, txs |-> SubSeq(mempool, 1, n)]
    /\ mempool' = SubSeq(mempool, n + 1, Len(mempool))
    /\ UNCHANGED <<results, branch, deliver, booted>>
    /\ UNCHANGED <<committed, versioned, genesis, lastTime>>

\* Slips: the writes of earlier messages survive, or the block's execution
\* does not move past the failed transaction.
MsgFailsKeepingWrites ==
    /\ booted /\ Running
    /\ CurrentCode # OK
    /\ results' = Append(results, CurrentCode)
    /\ deliver' = branch.state
    /\ branch' = BranchOff(branch.state)
    /\ UNCHANGED <<mempool, booted, disk>>

MsgFailsForever ==
    /\ booted /\ Running
    /\ CurrentCode # OK
    /\ branch' = BranchOff(deliver)
    /\ UNCHANGED <<mempool, results, deliver, booted, disk>>

\* A message's handler returns an error: the transaction's branch is dropped.
MsgFails ==
    /\ booted /\ Running
    /\ CurrentCode # OK
    /\ results' = Append(results, CurrentCode)
    /\ branch' = BranchOff(deliver)
    /\ UNCHANGED <<mempool, deliver, booted, disk>>

\* A message succeeds and the transaction has another one.
MsgPasses ==
    /\ booted /\ Running
    /\ CurrentCode = OK
    /\ branch.next < Len(CurrentTx)
    /\ branch' = [next |-> branch.next + 1, state |-> AfterMsg]
    /\ UNCHANGED <<mempool, results, deliver, booted, disk>>

\* The last message succeeds: the branch is written to the block's state.
TxPasses ==
    /\ booted /\ Running
    /\ CurrentCode = OK
    /\ branch.next = Len(CurrentTx)
    /\ results' = Append(results, OK)
    /\ deliver' = AfterMsg
    /\ branch' = BranchOff(AfterMsg)
    /\ UNCHANGED <<mempool, booted, disk>>

\* Every transaction has run: the block's state becomes the committed one.
\* Results and events went to the consensus engine when the block had run; what
\* becomes of them is part of module Client.
Commit ==
    /\ booted /\ Decided /\ ~Running
    /\ committed' = StoresOf(deliver)
    /\ versioned' = TRUE
    /\ lastTime' = block.time
    /\ block' = NoBlock
    /\ results' = <<>>
    /\ deliver' = WithNoEvents(StoresOf(deliver))
    /\ branch' = BranchOff(deliver')
    /\ UNCHANGED <<mempool, genesis, booted>>

\* The process dies: what only memory holds is gone.
Crash ==
    /\ booted
    /\ booted' = FALSE
    /\ mempool' = <<>>
    /\ results' = <<>>
    /\ deliver' = WithNoEvents(EmptyStores)
    /\ branch' = BranchOff(deliver')
    /\ UNCHANGED disk

\* The operator exports the state of the stopped node and starts a new chain
\* from the exported genesis.
ExportImport ==
    /\ AllowExport
    /\ ~booted /\ versioned
    /\ genesis' = ExportGenesis(committed.ageverify)
    /\ committed' = EmptyStores
    /\ versioned' = FALSE
    /\ block' = NoBlock
    /\ UNCHANGED <<memory, lastTime>>

ExecuteBlock == MsgFails \/ MsgPasses \/ TxPasses \/ Commit

Next ==
    \/ InitChain
    \/ Restart
    \/ \E tx \in Txs : CheckTx(tx)
    \/ \E n \in 0 .. MaxBlockTxs, t \in 1 .. MaxTime : DecideBlock(n, t)
    \/ MsgFails
    \/ MsgPasses
    \/ TxPasses
    \/ Commit
    \/ Crash
    \/ ExportImport

\* The process manager restarts the node and the node executes what was
\* decided; nobody has to send anything, and nothing forces a crash.
Fairness == WF_vars(InitChain \/ Restart) /\ WF_vars(ExecuteBlock)

Spec     == Init /\ [][Next]_vars
FairSpec == Spec /\ Fairness

-----------------------------------------------------------------------------
(***************************************************************************)
(* Properties.                                                             *)
(***************************************************************************)
Event == [address : Addresses, verifiedAt : Stamps]
States == [ageverify : Stores, params : BOOLEAN, events : SUBSET Event]

\* Transactions that CheckTx lets into the mempool.
AdmittedTxs == {tx \in Txs : \A i \in 1 .. Len(tx) : tx[i].creator \in Addresses}

\* Type invariant: every variable keeps its shape; in particular no creator
\* that ValidateBasic refuses reaches the handler, the store or an event.
TypeOK ==
    /\ mempool \in Seq(AdmittedTxs)
    /\ block \in [time : Nat, txs : Seq(AdmittedTxs)]
    /\ results \in Seq(Codes)
    /\ branch \in [next : Nat \ {0}, state : States]
    /\ deliver \in States
    /\ committed \in [ageverify : Stores, params : BOOLEAN]
    /\ versioned \in BOOLEAN
    /\ genesis = EmptyGenesis
    /\ booted \in BOOLEAN
    /\ lastTime \in Nat

\* A record made at stamp s is backed: some birth date typed by a user is 18
\* years back, or more, on a day that begins within a day of the block.
BackedStamp(s) ==
    \E birth \in Births, d \in Days :
       /\ Midnight(d) \in s - DayTicks .. s + SecondTicks - 1 + DayTicks
       /\ AgeOn(birth, Calendar[d]) >= RequiredMinAge

\* Nobody claims to be born after the year of genesis.
BornByGenesis == \A birth \in Births : birth.year <= Calendar[0].year

\* EveryRecordHasAnAdult: whatever proofs, dates and minimum ages are sent, a
\* record, committed or about to be, means that somebody really was an adult
\* around the time it carries (msg_server_submit_age_proof.go:49-54).  It
\* needs BornByGenesis: see the finding on far dates.
RecordsBacked(store) ==
    \A a \in Addresses :
       GetVerified(store, a) # NotFound => BackedStamp(GetVerified(store, a))

EveryRecordHasAnAdult ==
    /\ RecordsBacked(committed.ageverify)
    /\ RecordsBacked(deliver.ageverify)
    /\ RecordsBacked(branch.state.ageverify)

\* TodaysProofIsAccepted: a transaction of proofs made by the honest prover on
\* the day of the block, for dates of birth since 1900 that are old enough that
\* day, never fails (msg_server_submit_age_proof.go:14 against the date's
\* granularity).
MadeToday(msg, t) ==
    /\ msg.date \in Days
    /\ t \in Midnight(msg.date) .. Midnight(msg.date) + DayTicks - 1
    /\ msg.proof = ProofOf(VKBytes,
                       BuildPublicWitness(Calendar[msg.date], RequiredMinAge))
    /\ \E birth \in Births :
          /\ birth \in CivilDate /\ birth.year \in 1900 .. 2155
          /\ AgeOn(birth, Calendar[msg.date]) \in RequiredMinAge .. RequiredMinAge + 255

TodaysProofIsAccepted ==
    \A i \in 1 .. Len(results) :
       (\A j \in 1 .. Len(block.txs[i]) : MadeToday(block.txs[i][j], block.time))
         => results[i] = OK

\* BlockEffectIsItsSuccesses: while a block runs, its state is the committed
\* one changed by exactly the transactions whose result is 0, each of them as
\* a whole, and its events name exactly those creators.
BlockCreators ==
    UNION { {block.txs[i][j].creator : j \in 1 .. Len(block.txs[i])} :
            i \in {i \in 1 .. Len(results) : results[i] = OK} }

BlockEffectIsItsSuccesses ==
    booted =>
      /\ deliver.ageverify.verified =
           [a \in Addresses |->
              IF a \in BlockCreators THEN Stamp(block.time)
              ELSE GetVerified(committed.ageverify, a)]
      /\ deliver.events =
           {[address |-> a, verifiedAt |-> Stamp(block.time)] :
              a \in BlockCreators}

\* QueriesServable: once a version exists no mounted store is empty, so IAVL
\* can serve queries of it (app.go:295-299, module.go:71-74).
QueriesServable ==
    versioned => ~IsEmptyStore(committed.ageverify) /\ committed.params

\* NeverForgets: a verified address stays verified and its timestamp never
\* moves back (docs/limitations.md #5: "The record stays in state
\* indefinitely").
NeverForgets ==
    [][\A a \in Addresses :
          GetVerified(committed.ageverify, a)'
            >= GetVerified(committed.ageverify, a)]_vars

\* DecidedBlocksCommit: once the node stops crashing, a decided block is
\* committed, whichever of its messages fail.
DecidedBlocksCommit == (<>[]booted) => (Decided ~> ~Decided)

\* ImplementsRegistry: the node, seen through its committed records, is the
\* abstract registry of module AgeRegistry.
Registry == INSTANCE AgeRegistry WITH
    registry  <- committed.ageverify.verified,
    now       <- lastTime,
    Threshold <- RequiredMinAge
ImplementsRegistry == Registry!Spec

-----------------------------------------------------------------------------
(***************************************************************************)
(* A claim of a comment that the code does not keep.                       *)
(***************************************************************************)
\* AcceptedDatesAreNear: a transaction that succeeded carried only dates
\* within 24 hours of the block time (msg_server_submit_age_proof.go:34-36).
Succeeded == {i \in 1 .. Len(results) : results[i] = OK}

AcceptedDatesAreNear ==
    \A i \in Succeeded : \A j \in 1 .. Len(block.txs[i]) :
       Midnight(block.txs[i][j].date) - block.time \in -DayTicks .. DayTicks

=============================================================================
