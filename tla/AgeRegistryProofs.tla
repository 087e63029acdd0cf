------------------------- MODULE AgeRegistryProofs --------------------------
(***************************************************************************)
(* Theorems about the records the node has committed: they only move       *)
(* forward, and together with the time of the last block they are the      *)
(* registry of module AgeRegistry.                                         *)
(*                                                                         *)
(* Both come from what the one step that changes them does: a commit       *)
(* records the creators of the block's successful transactions at a time   *)
(* later than every earlier one (CommitRecords).                           *)
(***************************************************************************)
EXTENDS AgeVerifyAppProofs

-----------------------------------------------------------------------------
(***************************************************************************)
(* Later instants have no earlier stamps.                                  *)
(***************************************************************************)
LEMMA CutMonotone ==
    ASSUME NEW s \in Nat, NEW t \in Nat, NEW n \in Nat \ {0}, s <= t
    PROVE  s - (s % n) <= t - (t % n)
OBVIOUS

LEMMA StampMonotone ==
    ASSUME NEW s \in Nat, NEW t \in Nat, s <= t
    PROVE  Stamp(s) <= Stamp(t)
BY CutMonotone, ClockAssumption DEF Stamp

-----------------------------------------------------------------------------
(***************************************************************************)
(* The one step that records.                                              *)
(***************************************************************************)
LEMMA CreatorsAreAddresses ==
    ASSUME TypeOK, Progress
    PROVE  BlockCreators \subseteq Addresses
<1>1. \A i \in 1 .. Len(results) : block.txs[i] \in AdmittedTxs
  BY DEF TypeOK, Progress
<1>2. QED
  BY <1>1 DEF BlockCreators, AdmittedTxs

\* CommitRecords: what a commit does to records and clock.
LEMMA CommitRecords ==
    ASSUME TypeOK, Progress, BlockEffectIsItsSuccesses, Commit
    PROVE  /\ lastTime' \in Nat /\ lastTime' = block.time /\ lastTime' > lastTime
           /\ committed'.ageverify.verified =
                [a \in Addresses |->
                   IF a \in BlockCreators THEN Stamp(lastTime')
                   ELSE committed.ageverify.verified[a]]
<1>1. lastTime' \in Nat /\ lastTime' = block.time /\ lastTime' > lastTime
  BY DEF Commit, TypeOK, Progress
<1>2. committed'.ageverify = deliver.ageverify
  BY DEF Commit, StoresOf
<1>3. QED
  BY <1>1, <1>2 DEF Commit, BlockEffectIsItsSuccesses, GetVerified

\* Besides a commit only an export changes them.
LEMMA OnlyCommitsRecord ==
    [Next]_vars => \/ Commit
                   \/ ExportImport
                   \/ UNCHANGED <<committed, lastTime>>
<1> SUFFICES ASSUME [Next]_vars, ~Commit, ~ExportImport
             PROVE  UNCHANGED <<committed, lastTime>>
  OBVIOUS
<1>1. CASE \E tx \in Txs : CheckTx(tx)
  BY <1>1 DEF CheckTx, disk
<1>2. CASE \E n \in 0 .. MaxBlockTxs, t \in 1 .. MaxTime : DecideBlock(n, t)
  BY <1>2 DEF DecideBlock
<1>3. CASE InitChain \/ Restart \/ MsgFails \/ MsgPasses \/ TxPasses \/ Crash \/ UNCHANGED vars
  BY <1>3 DEF InitChain, Restart, MsgFails, MsgPasses, TxPasses, Crash, vars, disk
<1>4. QED
  BY <1>1, <1>2, <1>3 DEF Next

-----------------------------------------------------------------------------
(***************************************************************************)
(* Records and the clock.                                                  *)
(***************************************************************************)

\* No record is later than the last block.
NothingLater ==
    \A a \in Addresses : GetVerified(committed.ageverify, a) <= Stamp(lastTime)

LEMMA NothingLaterInvariant == Spec => []NothingLater
<1>1. Init => NothingLater
  <2>1. Stamp(0) \in Nat
    BY StampBounds
  <2>2. QED
    BY <2>1 DEF Init, NothingLater, EmptyStores, EmptyStore, GetVerified, NotFound
<1>2. TypeOK /\ Progress /\ BlockEffectIsItsSuccesses /\ NothingLater /\ [Next]_vars
        => NothingLater'
  <2> SUFFICES ASSUME TypeOK, Progress, BlockEffectIsItsSuccesses, NothingLater, [Next]_vars
               PROVE  NothingLater'
    OBVIOUS
  <2>1. CASE Commit
    <3>1. Stamp(lastTime) <= Stamp(lastTime')
            /\ Stamp(lastTime) \in Nat /\ Stamp(lastTime') \in Nat
      <4>1. lastTime \in Nat /\ lastTime' \in Nat /\ lastTime <= lastTime'
        BY <2>1, CommitRecords DEF TypeOK
      <4>2. QED
        BY <4>1, StampMonotone, StampBounds
    <3>2. \A a \in Addresses : committed.ageverify.verified[a] \in Int
      BY DEF TypeOK, Stores, Stamps, NotFound
    <3>3. \A a \in Addresses : committed'.ageverify.verified[a] <= Stamp(lastTime')
      BY <2>1, <3>1, <3>2, CommitRecords DEF NothingLater, GetVerified
    <3>4. QED
      BY <3>3 DEF NothingLater, GetVerified
  <2>2. CASE ExportImport
    <3>1. Stamp(lastTime) \in Nat
      BY StampBounds DEF TypeOK
    <3>2. QED
      BY <2>2, <3>1
      DEF ExportImport, NothingLater, EmptyStores, EmptyStore, GetVerified, NotFound
  <2>3. CASE UNCHANGED <<committed, lastTime>>
    BY <2>3 DEF NothingLater
  <2>4. QED
    BY <2>1, <2>2, <2>3, OnlyCommitsRecord
<1>3. QED
  BY <1>1, <1>2, TypeCorrect, ProgressInvariant, BlockEffect, PTL DEF Spec

-----------------------------------------------------------------------------
(***************************************************************************)
(* Without exports: nothing is forgotten, and the registry is implemented. *)
(***************************************************************************)

\* RecordsOnlyMoveForward: in a chain that is not restarted from an export a
\* verified address stays verified and its timestamp never moves back
\* (docs/limitations.md #5).
THEOREM RecordsOnlyMoveForward ==
    ASSUME ~AllowExport
    PROVE  Spec => NeverForgets
<1> DEFINE Forward == \A a \in Addresses :
                        GetVerified(committed.ageverify, a)'
                          >= GetVerified(committed.ageverify, a)
<1>1. TypeOK /\ TypeOK' /\ Progress /\ BlockEffectIsItsSuccesses /\ NothingLater
        /\ [Next]_vars => [Forward]_vars
  <2> SUFFICES ASSUME TypeOK, TypeOK', Progress, BlockEffectIsItsSuccesses, NothingLater,
                      [Next]_vars, NEW a \in Addresses
               PROVE  committed'.ageverify.verified[a] >= committed.ageverify.verified[a]
    BY DEF GetVerified
  <2>1. committed.ageverify.verified[a] \in Int
    BY DEF TypeOK, Stores, Stamps, NotFound
  <2>2. CASE Commit
    <3>1. lastTime \in Nat /\ lastTime' \in Nat /\ lastTime <= lastTime'
      BY <2>2, CommitRecords DEF TypeOK
    <3>2. Stamp(lastTime) <= Stamp(lastTime')
            /\ Stamp(lastTime) \in Nat /\ Stamp(lastTime') \in Nat
      BY <3>1, StampMonotone, StampBounds
    <3>3. committed.ageverify.verified[a] <= Stamp(lastTime)
      BY DEF NothingLater, GetVerified
    <3>4. committed'.ageverify.verified[a] =
            IF a \in BlockCreators THEN Stamp(lastTime')
            ELSE committed.ageverify.verified[a]
      BY <2>2, CommitRecords
    <3>5. QED
      BY <2>1, <3>2, <3>3, <3>4
  <2>3. CASE UNCHANGED <<committed, lastTime>>
    BY <2>1, <2>3
  <2>4. QED
    BY <2>2, <2>3, OnlyCommitsRecord DEF ExportImport
<1>2. QED
  BY <1>1, TypeCorrect, ProgressInvariant, BlockEffect, NothingLaterInvariant, PTL
  DEF Spec, NeverForgets

\* A block with a successful transaction has an adult around its time.
LEMMA SuccessNeedsAdult ==
    ASSUME BornByGenesis, TypeOK, Progress, Verdicts, BlockCreators # {}
    PROVE  Registry!AdultAround(block.time)
<1>1. PICK i \in 1 .. Len(results) :
        results[i] = OK /\ \E j \in 1 .. Len(block.txs[i]) : TRUE
  BY DEF BlockCreators
<1> PICK j \in 1 .. Len(block.txs[i]) : TRUE
  BY <1>1
<1>2. block.txs[i] \in Seq(Messages) /\ block.time \in Nat
  <2>1. i \in 1 .. Len(block.txs) /\ block.txs \in Seq(AdmittedTxs)
    BY DEF TypeOK, Progress
  <2>2. QED
    BY <2>1, AppAssumption DEF AdmittedTxs, TypeOK
<1>3. SubmitCode(block.txs[i][j], block.time) = OK
  BY <1>1 DEF Verdicts, AllAccepted
<1>4. PICK birth \in Births, d \in Days :
        /\ Midnight(d) - block.time \in -DayTicks .. DayTicks
        /\ AgeOn(birth, Calendar[d]) \in RequiredMinAge .. RequiredMinAge + 255
  BY <1>2, <1>3, AcceptedIsNear
<1>5. AgeOn(birth, Calendar[d]) >= RequiredMinAge
  <2>1. \A x \in RequiredMinAge .. RequiredMinAge + 255 : x >= RequiredMinAge
    BY DEF RequiredMinAge
  <2>2. QED
    BY <1>4, <2>1
<1>6. QED
  BY <1>4, <1>5
  DEF Registry!AdultAround, Registry!Midnight, Registry!DayTicks, Registry!AgeOn,
      Registry!BirthdayStillAhead, Midnight, DayTicks, AgeOn, BirthdayStillAhead

\* NodeImplementsRegistry: a chain that is not restarted from an export, and
\* whose people were born by the year of its genesis, is the abstract registry:
\* a commit is one step that records the block's successful creators at its
\* time, everything else a stutter (app.go:104-301, submit handler).
THEOREM NodeImplementsRegistry ==
    ASSUME BornByGenesis, ~AllowExport
    PROVE  Spec => ImplementsRegistry
<1>1. Init => Registry!Init
  BY DEF Init, Registry!Init, EmptyStores, EmptyStore, NotFound
<1>2. TypeOK /\ Progress /\ BlockEffectIsItsSuccesses /\ Verdicts /\ [Next]_vars
        => [Registry!Next]_Registry!vars
  <2> SUFFICES ASSUME TypeOK, Progress, BlockEffectIsItsSuccesses, Verdicts, [Next]_vars
               PROVE  [Registry!Next]_Registry!vars
    OBVIOUS
  <2>1. CASE Commit
    <3>1. BlockCreators \in SUBSET Addresses
      BY CreatorsAreAddresses
    <3>2. lastTime' \in Nat /\ lastTime' > lastTime
      BY <2>1, CommitRecords
    <3>3. BlockCreators # {} => Registry!AdultAround(lastTime')
      BY <2>1, CommitRecords, SuccessNeedsAdult
    <3>4. committed'.ageverify.verified =
            [a \in Addresses |->
               IF a \in BlockCreators THEN Registry!Stamp(lastTime')
               ELSE committed.ageverify.verified[a]]
      BY <2>1, CommitRecords DEF Stamp, Registry!Stamp
    <3>5. Registry!Record(BlockCreators)
      BY <3>2, <3>3, <3>4 DEF Registry!Record
    <3>6. QED
      BY <3>1, <3>5 DEF Registry!Next
  <2>2. CASE UNCHANGED <<committed, lastTime>>
    BY <2>2 DEF Registry!vars
  <2>3. QED
    BY <2>1, <2>2, OnlyCommitsRecord DEF ExportImport
<1>3. QED
  BY <1>1, <1>2, TypeCorrect, ProgressInvariant, BlockEffect, VerdictsInvariant, PTL
  DEF Spec, ImplementsRegistry, Registry!Spec

=============================================================================
