------------------------- MODULE AgeVerifyAppProofs -------------------------
(***************************************************************************)
(* Theorems about the node for every set of addresses, transactions, birth *)
(* dates, key pairs, calendars and clock resolutions.                      *)
(*                                                                         *)
(* TypeOK is inductive.  EveryRecordHasAnAdult is inductive together with  *)
(* it, because it also speaks of the block in execution and of the branch  *)
(* of the running transaction; its heart is the lemma AcceptedIsBacked     *)
(* about one call of the handler.                                          *)
(***************************************************************************)
EXTENDS AgeVerifyApp, AgeCircuitProofs

-----------------------------------------------------------------------------
(***************************************************************************)
(* Facts about clocks and stores.                                          *)
(***************************************************************************)

\* A timestamp is a natural number and the second its instant falls in.
LEMMA StampBounds ==
    ASSUME NEW t \in Nat
    PROVE  Stamp(t) \in Nat /\ Stamp(t) <= t /\ t < Stamp(t) + SecondTicks
<1>1. t % SecondTicks \in 0 .. SecondTicks - 1
  BY ClockAssumption
<1>2. t % SecondTicks <= t
  BY ClockAssumption
<1>3. QED
  BY <1>1, <1>2, ClockAssumption DEF Stamp

LEMMA DayTicksPositive == DayTicks \in Nat \ {0}
BY ClockAssumption DEF DayTicks

LEMMA MidnightInt == ASSUME NEW d \in Days PROVE Midnight(d) \in Int
BY DayTicksPositive, DaysAssumption DEF Midnight

LEMMA EmptyStoreType == EmptyStore \in Stores
BY DEF EmptyStore, Stores, Stamps, NotFound

LEMMA SubmitStoreType ==
    ASSUME NEW store \in Stores, NEW msg, NEW t \in Nat
    PROVE  SubmitStore(store, msg, t) \in Stores
BY StampBounds DEF SubmitStore, SetVerified, Stores, Stamps

\* States that start from typed stores are typed.
LEMMA WithNoEventsType ==
    ASSUME NEW stores \in [ageverify : Stores, params : BOOLEAN]
    PROVE  WithNoEvents(stores) \in States
BY DEF WithNoEvents, States

LEMMA BranchOffType ==
    ASSUME NEW state \in States
    PROVE  BranchOff(state) \in [next : Nat \ {0}, state : States]
BY DEF BranchOff

LEMMA EmptyStoresType == EmptyStores \in [ageverify : Stores, params : BOOLEAN]
BY EmptyStoreType DEF EmptyStores

LEMMA CodesType == ASSUME NEW msg, NEW t PROVE SubmitCode(msg, t) \in Codes
BY DEF SubmitCode, Codes

-----------------------------------------------------------------------------
(***************************************************************************)
(* The running transaction and what a successful message makes of it.      *)
(***************************************************************************)
LEMMA CurrentTxAdmitted ==
    ASSUME TypeOK, Running
    PROVE  /\ CurrentTx \in AdmittedTxs
           /\ CurrentTx \in Seq(Messages)
<1>1. results \in Seq(Codes) /\ block.txs \in Seq(AdmittedTxs)
  BY DEF TypeOK
<1>2. Len(results) + 1 \in 1 .. Len(block.txs)
  BY <1>1 DEF Running
<1>3. CurrentTx \in AdmittedTxs
  BY <1>1, <1>2 DEF CurrentTx
<1>4. QED
  BY <1>3, AppAssumption DEF AdmittedTxs

LEMMA CurrentMsgAdmitted ==
    ASSUME TypeOK, Running, branch.next <= Len(CurrentTx)
    PROVE  CurrentMsg \in Messages /\ CurrentMsg.creator \in Addresses
<1>1. CurrentTx \in AdmittedTxs /\ CurrentTx \in Seq(Messages)
  BY CurrentTxAdmitted
<1>2. branch.next \in 1 .. Len(CurrentTx)
  BY <1>1 DEF TypeOK
<1>3. QED
  BY <1>1, <1>2 DEF CurrentMsg, AdmittedTxs

LEMMA AfterMsgType ==
    ASSUME TypeOK, Running, branch.next <= Len(CurrentTx)
    PROVE  AfterMsg \in States
<1>1. CurrentMsg.creator \in Addresses
  BY CurrentMsgAdmitted
<1>2. block.time \in Nat /\ branch.state \in States
  BY DEF TypeOK
<1>3. AgeVerifiedEvent(CurrentMsg, block.time) \in Event
  BY <1>1, <1>2, StampBounds DEF AgeVerifiedEvent, Event, Stamps
<1>4. SubmitStore(branch.state.ageverify, CurrentMsg, block.time) \in Stores
  BY <1>2, SubmitStoreType DEF States
<1>5. QED
  BY <1>2, <1>3, <1>4 DEF AfterMsg, States

-----------------------------------------------------------------------------
\* TypeCorrect: the type invariant, with the admission of transactions that
\* CheckTx performs, holds in every reachable state (app.go:104-301).
THEOREM TypeCorrect == Spec => []TypeOK
<1>1. Init => TypeOK
  <2> SUFFICES ASSUME Init PROVE TypeOK
    OBVIOUS
  <2>1. deliver \in States /\ branch \in [next : Nat \ {0}, state : States]
    BY EmptyStoresType, WithNoEventsType, BranchOffType DEF Init
  <2>2. mempool \in Seq(AdmittedTxs) /\ results \in Seq(Codes)
    BY DEF Init
  <2>3. block \in [time : Nat, txs : Seq(AdmittedTxs)]
    BY DEF Init, NoBlock
  <2>4. QED
    BY <2>1, <2>2, <2>3, EmptyStoresType DEF Init, TypeOK
<1>2. TypeOK /\ [Next]_vars => TypeOK'
  <2> SUFFICES ASSUME TypeOK, [Next]_vars PROVE TypeOK'
    OBVIOUS
  <2>1. CASE InitChain
    <3>1. InitGenesis(genesis, EmptyStore) \in Stores
      BY EmptyStoreType DEF InitGenesis, SetInitialized, Stores
    <3>2. deliver' \in States
      BY <2>1, <3>1 DEF InitChain, States
    <3>3. branch' \in [next : Nat \ {0}, state : States]
      BY <2>1, <3>2, BranchOffType DEF InitChain
    <3>4. QED
      BY <2>1, <3>2, <3>3 DEF InitChain, TypeOK, disk
  <2>2. CASE Restart
    <3>1. deliver' \in States
      BY <2>2, WithNoEventsType DEF Restart, TypeOK
    <3>2. branch' \in [next : Nat \ {0}, state : States]
      BY <2>2, <3>1, BranchOffType DEF Restart
    <3>3. QED
      BY <2>2, <3>1, <3>2 DEF Restart, TypeOK, disk
  <2>3. CASE \E tx \in Txs : CheckTx(tx)
    <3>1. PICK tx \in Txs : CheckTx(tx)
      BY <2>3
    <3>2. tx \in AdmittedTxs
      BY <3>1 DEF CheckTx, ValidateBasic, AdmittedTxs
    <3>3. mempool' \in Seq(AdmittedTxs)
      BY <3>1, <3>2 DEF CheckTx, TypeOK
    <3>4. QED
      BY <3>1, <3>3 DEF CheckTx, TypeOK, disk
  <2>4. CASE \E n \in 0 .. MaxBlockTxs, t \in 1 .. MaxTime : DecideBlock(n, t)
    <3>1. PICK n \in 0 .. MaxBlockTxs, t \in 1 .. MaxTime : DecideBlock(n, t)
      BY <2>4
    <3>2. n \in Nat /\ t \in Nat
      BY AppAssumption
    <3>3. mempool \in Seq(AdmittedTxs) /\ Len(mempool) \in Nat /\ n <= Len(mempool)
      BY <3>1 DEF DecideBlock, TypeOK
    <3>4. SubSeq(mempool, 1, n) \in Seq(AdmittedTxs)
      BY <3>2, <3>3
    <3>5. SubSeq(mempool, n + 1, Len(mempool)) \in Seq(AdmittedTxs)
      BY <3>2, <3>3
    <3>6. QED
      BY <3>1, <3>2, <3>4, <3>5 DEF DecideBlock, TypeOK
  <2>5. CASE MsgFails
    <3>1. results' \in Seq(Codes)
      BY <2>5, CodesType DEF MsgFails, CurrentCode, TypeOK
    <3>2. branch' \in [next : Nat \ {0}, state : States]
      BY <2>5, BranchOffType DEF MsgFails, TypeOK
    <3>3. QED
      BY <2>5, <3>1, <3>2 DEF MsgFails, TypeOK, disk
  <2>6. CASE MsgPasses
    <3>1. branch.next \in Nat \ {0} /\ branch.next <= Len(CurrentTx)
      BY <2>6, CurrentTxAdmitted DEF MsgPasses, TypeOK
    <3>2. AfterMsg \in States
      BY <2>6, <3>1, AfterMsgType DEF MsgPasses
    <3>3. branch' \in [next : Nat \ {0}, state : States]
      BY <2>6, <3>1, <3>2 DEF MsgPasses
    <3>4. QED
      BY <2>6, <3>3 DEF MsgPasses, TypeOK, disk
  <2>7. CASE TxPasses
    <3>1. branch.next <= Len(CurrentTx)
      BY <2>7, CurrentTxAdmitted DEF TxPasses
    <3>2. AfterMsg \in States
      BY <2>7, <3>1, AfterMsgType DEF TxPasses
    <3>3. branch' \in [next : Nat \ {0}, state : States]
      BY <2>7, <3>2, BranchOffType DEF TxPasses
    <3>4. results' \in Seq(Codes)
      BY <2>7 DEF TxPasses, TypeOK, Codes
    <3>5. QED
      BY <2>7, <3>2, <3>3, <3>4 DEF TxPasses, TypeOK, disk
  <2>8. CASE Commit
    <3>1. StoresOf(deliver) \in [ageverify : Stores, params : BOOLEAN]
      BY DEF TypeOK, States, StoresOf
    <3>2. deliver' \in States
      BY <2>8, <3>1, WithNoEventsType DEF Commit
    <3>3. branch' \in [next : Nat \ {0}, state : States]
      BY <2>8, <3>2, BranchOffType DEF Commit
    <3>4. block' \in [time : Nat, txs : Seq(AdmittedTxs)] /\ results' \in Seq(Codes)
      BY <2>8 DEF Commit, NoBlock
    <3>5. QED
      BY <2>8, <3>1, <3>2, <3>3, <3>4 DEF Commit, TypeOK
  <2>9. CASE Crash
    <3>1. deliver' \in States
      BY <2>9, EmptyStoresType, WithNoEventsType DEF Crash
    <3>2. branch' \in [next : Nat \ {0}, state : States]
      BY <2>9, <3>1, BranchOffType DEF Crash
    <3>3. mempool' \in Seq(AdmittedTxs) /\ results' \in Seq(Codes)
      BY <2>9 DEF Crash
    <3>4. QED
      BY <2>9, <3>1, <3>2, <3>3 DEF Crash, TypeOK, disk
  <2>10. CASE ExportImport
    <3>1. block' \in [time : Nat, txs : Seq(AdmittedTxs)]
      BY <2>10 DEF ExportImport, NoBlock
    <3>2. QED
      BY <2>10, <3>1, EmptyStoresType DEF ExportImport, ExportGenesis, TypeOK, memory
  <2>11. CASE UNCHANGED vars
    BY <2>11 DEF vars, memory, disk, TypeOK
  <2>12. QED
    BY <2>1, <2>2, <2>3, <2>4, <2>5, <2>6, <2>7, <2>8, <2>9, <2>10, <2>11 DEF Next
<1>3. QED
  BY <1>1, <1>2, PTL DEF Spec

-----------------------------------------------------------------------------
(***************************************************************************)
(* What one accepted message means.                                        *)
(***************************************************************************)

\* The handler's date check, on saturating and wrapping Durations, admits the
\* days that begin within a day of the block, and days beyond the overflow.
LEMMA NearOrOverflowing ==
    ASSUME NEW d \in Days, NEW t \in Nat, DateNearBlockTime(d, t)
    PROVE  \/ Midnight(d) - t \in -DayTicks .. DayTicks
           \/ Midnight(d) > MaxDuration
<1> DEFINE m == Midnight(d)
           diff == TimeSub(t, m)
<1>1. m \in Int /\ DayTicks \in Nat /\ MaxDuration \in Nat /\ DayTicks < MaxDuration
  BY MidnightInt, DayTicksPositive, ClockAssumption
<1>2. (IF diff < 0 THEN Negated(diff) ELSE diff) <= DayTicks
  BY DEF DateNearBlockTime, DateTimeTolerance
<1> HIDE DEF m
<1>3. CASE t - m > MaxDuration
  <2>1. diff = MaxDuration
    BY <1>1, <1>3 DEF TimeSub, MinDuration
  <2>2. QED
    BY <1>1, <1>2, <2>1
<1>4. CASE t - m <= MinDuration
  BY <1>1, <1>4 DEF MinDuration, m
<1>5. CASE MinDuration < t - m /\ t - m <= MaxDuration
  <2>1. diff = t - m
    BY <1>1, <1>5 DEF TimeSub, MinDuration
  <2>2. -DayTicks <= t - m /\ t - m <= DayTicks
    BY <1>1, <1>2, <1>5, <2>1 DEF Negated, MinDuration
  <2>3. QED
    BY <1>1, <2>2 DEF m
<1>6. QED
  BY <1>1, <1>3, <1>4, <1>5 DEF MinDuration

\* A proof that verifies against the chain's witness has a birth date behind
\* it that is old enough, and not more than 255 years older than that.
LEMMA VerifiedMeansAdult ==
    ASSUME NEW proof, NEW d \in Days,
           ~VerifyAgeProofFails(proof, BuildPublicWitness(Calendar[d], RequiredMinAge))
    PROVE  \E birth \in Births :
              /\ birth.year \in Nat
              /\ AgeOn(birth, Calendar[d]) \in RequiredMinAge .. RequiredMinAge + 255
<1> DEFINE public == BuildPublicWitness(Calendar[d], RequiredMinAge)
<1>1. Calendar[d] \in CivilDate
  BY DaysAssumption
<1>2. RequiredMinAge \in MinAges
  BY DEF RequiredMinAge, MinAges
<1>3. public = PublicOfDate(Calendar[d], RequiredMinAge)
  BY DEF BuildPublicWitness, PublicOfDate
<1>4. proof.public = public /\ Genuine(proof)
  BY DEF VerifyAgeProofFails, Verifies
<1>5. PICK birth \in Births : Satisfied(birth, public)
  BY <1>4 DEF Genuine
<1>6. birth \in BirthDates
  BY BirthsAssumption
<1>7. AgeOn(birth, Calendar[d]) \in RequiredMinAge .. RequiredMinAge + 255
  BY <1>1, <1>2, <1>3, <1>5, <1>6, CircuitCorrect
<1>8. birth.year \in Nat
  BY <1>6, FieldAssumption DEF BirthDates, Field
<1>9. QED
  BY <1>7, <1>8

LEMMA CivilYear == ASSUME NEW date \in CivilDate PROVE date.year \in Nat
<1>1. date.year \in Years
  BY DEF CivilDate, Years
<1>2. \A year \in Years : year \in Nat
  BY DEF Years
<1>3. QED
  BY <1>1, <1>2

\* Where the date check overflows the circuit's last range check steps in: a
\* person born by the year of genesis would be more than 273 years old.
LEMMA NobodyIsThatOld ==
    ASSUME BornByGenesis, NEW birth \in Births, birth.year \in Nat,
           NEW d \in Days, Midnight(d) > MaxDuration
    PROVE  AgeOn(birth, Calendar[d]) \notin RequiredMinAge .. RequiredMinAge + 255
<1>1. birth.year <= Calendar[0].year
  BY DEF BornByGenesis
<1>2. Calendar[0].year + 292 <= Calendar[d].year
  BY OverflowAssumption DEF YearsToOverflow
<1>3. Calendar[0].year \in Nat /\ Calendar[d].year \in Nat
  <2>1. Calendar[0] \in CivilDate /\ Calendar[d] \in CivilDate
    BY DaysAssumption
  <2>2. QED
    BY <2>1, CivilYear
<1>4. AgeOn(birth, Calendar[d]) >= 291 /\ AgeOn(birth, Calendar[d]) \in Int
  BY <1>1, <1>2, <1>3 DEF AgeOn
<1>5. QED
  BY <1>4 DEF RequiredMinAge

\* One successful call of SubmitAgeProof: somebody is old enough on a day that
\* begins within a day of the block.
LEMMA AcceptedIsNear ==
    ASSUME BornByGenesis, NEW msg \in Messages, NEW t \in Nat,
           SubmitCode(msg, t) = OK
    PROVE  \E birth \in Births, d \in Days :
              /\ Midnight(d) - t \in -DayTicks .. DayTicks
              /\ AgeOn(birth, Calendar[d]) \in RequiredMinAge .. RequiredMinAge + 255
<1> DEFINE d == msg.date
<1>1. d # BadDate /\ DateNearBlockTime(d, t)
        /\ ~VerifyAgeProofFails(msg.proof,
              BuildPublicWitness(Calendar[d], RequiredMinAge))
  BY DEF SubmitCode, OK, ErrInvalidProof, ErrDateMismatch, ErrProofVerificationFailed
<1>2. d \in Days
  BY <1>1 DEF Messages
<1>3. PICK birth \in Births :
        /\ birth.year \in Nat
        /\ AgeOn(birth, Calendar[d]) \in RequiredMinAge .. RequiredMinAge + 255
  BY <1>1, <1>2, VerifiedMeansAdult
<1>4. ~(Midnight(d) > MaxDuration)
  BY <1>2, <1>3, NobodyIsThatOld
<1>5. Midnight(d) - t \in -DayTicks .. DayTicks
  BY <1>1, <1>2, <1>4, NearOrOverflowing
<1>6. QED
  BY <1>2, <1>3, <1>5

\* AcceptedIsBacked: the same, told by the timestamp the call writes.
LEMMA AcceptedIsBacked ==
    ASSUME BornByGenesis, NEW msg \in Messages, NEW t \in Nat,
           SubmitCode(msg, t) = OK
    PROVE  BackedStamp(Stamp(t))
<1>1. PICK birth \in Births, d \in Days :
        /\ Midnight(d) - t \in -DayTicks .. DayTicks
        /\ AgeOn(birth, Calendar[d]) \in RequiredMinAge .. RequiredMinAge + 255
  BY AcceptedIsNear
<1>2. Midnight(d) \in Stamp(t) - DayTicks .. Stamp(t) + SecondTicks - 1 + DayTicks
  BY <1>1, StampBounds, MidnightInt, DayTicksPositive, ClockAssumption
<1>3. AgeOn(birth, Calendar[d]) >= RequiredMinAge
  BY <1>1 DEF RequiredMinAge
<1>4. QED
  BY <1>2, <1>3 DEF BackedStamp

-----------------------------------------------------------------------------
\* Stores without a record are backed.
LEMMA EmptyIsBacked ==
    ASSUME NEW store, \A a \in Addresses : store.verified[a] = NotFound
    PROVE  RecordsBacked(store)
BY DEF RecordsBacked, GetVerified

\* A successful message keeps the branch's records backed.
LEMMA AfterMsgBacked ==
    ASSUME BornByGenesis, TypeOK, Running, branch.next <= Len(CurrentTx),
           CurrentCode = OK, RecordsBacked(branch.state.ageverify)
    PROVE  RecordsBacked(AfterMsg.ageverify)
<1> DEFINE old == branch.state.ageverify
           new == AfterMsg.ageverify
<1>1. BackedStamp(Stamp(block.time))
  BY CurrentMsgAdmitted, AcceptedIsBacked DEF CurrentCode, TypeOK
<1>2. new = SubmitStore(old, CurrentMsg, block.time)
  BY DEF AfterMsg, TypeOK, States
<1>3. \A a \in Addresses : \/ new.verified[a] = old.verified[a]
                           \/ new.verified[a] = Stamp(block.time)
  BY <1>2 DEF SubmitStore, SetVerified, TypeOK, States, Stores
<1>4. QED
  BY <1>1, <1>3 DEF RecordsBacked, GetVerified

\* AdultBehindEveryRecord: whatever transactions are sent and however often
\* the node crashes, a record means that a claimed birth date was 18 years
\* back on a day that begins within a day of its block, although the date
\* check overflows (msg_server_submit_age_proof.go:33-77).
THEOREM AdultBehindEveryRecord ==
    ASSUME BornByGenesis
    PROVE  Spec => []EveryRecordHasAnAdult
<1>1. Init => EveryRecordHasAnAdult
  BY EmptyIsBacked
  DEF Init, EveryRecordHasAnAdult, EmptyStores, EmptyStore, WithNoEvents, BranchOff
<1>2. TypeOK /\ EveryRecordHasAnAdult /\ [Next]_vars => EveryRecordHasAnAdult'
  <2> SUFFICES ASSUME TypeOK, EveryRecordHasAnAdult, [Next]_vars
               PROVE  EveryRecordHasAnAdult'
    OBVIOUS
  <2> USE DEF EveryRecordHasAnAdult
  <2>1. CASE InitChain
    <3>1. RecordsBacked(InitGenesis(genesis, EmptyStore))
      BY EmptyIsBacked DEF InitGenesis, SetInitialized, EmptyStore
    <3>2. QED
      BY <2>1, <3>1 DEF InitChain, BranchOff, disk
  <2>2. CASE Restart
    BY <2>2 DEF Restart, WithNoEvents, BranchOff, disk
  <2>3. CASE \E tx \in Txs : CheckTx(tx)
    BY <2>3 DEF CheckTx, disk
  <2>4. CASE \E n \in 0 .. MaxBlockTxs, t \in 1 .. MaxTime : DecideBlock(n, t)
    BY <2>4 DEF DecideBlock
  <2>5. CASE MsgFails
    BY <2>5 DEF MsgFails, BranchOff, disk
  <2>6. CASE MsgPasses
    <3>1. branch.next <= Len(CurrentTx)
      BY <2>6, CurrentTxAdmitted DEF MsgPasses, TypeOK
    <3>2. RecordsBacked(AfterMsg.ageverify)
      BY <2>6, <3>1, AfterMsgBacked DEF MsgPasses
    <3>3. QED
      BY <2>6, <3>2 DEF MsgPasses, disk
  <2>7. CASE TxPasses
    <3>1. branch.next <= Len(CurrentTx)
      BY <2>7, CurrentTxAdmitted DEF TxPasses
    <3>2. RecordsBacked(AfterMsg.ageverify)
      BY <2>7, <3>1, AfterMsgBacked DEF TxPasses
    <3>3. QED
      BY <2>7, <3>2 DEF TxPasses, BranchOff, disk
  <2>8. CASE Commit
    BY <2>8 DEF Commit, StoresOf, WithNoEvents, BranchOff
  <2>9. CASE Crash
    BY <2>9, EmptyIsBacked
    DEF Crash, EmptyStores, EmptyStore, WithNoEvents, BranchOff, disk
  <2>10. CASE ExportImport
    BY <2>10, EmptyIsBacked DEF ExportImport, EmptyStores, EmptyStore, memory
  <2>11. CASE UNCHANGED vars
    BY <2>11 DEF vars, memory, disk
  <2>12. QED
    BY <2>1, <2>2, <2>3, <2>4, <2>5, <2>6, <2>7, <2>8, <2>9, <2>10, <2>11 DEF Next
<1>3. QED
  BY <1>1, <1>2, TypeCorrect, PTL DEF Spec

-----------------------------------------------------------------------------
(***************************************************************************)
(* The genesis markers reach every version of the stores.                  *)
(***************************************************************************)
Marked(state) == state.ageverify.initialized /\ state.params

MarkersKept ==
    /\ versioned => Marked(committed)
    /\ booted => Marked(deliver) /\ Marked(branch.state)

LEMMA AfterMsgMarked ==
    ASSUME TypeOK, Marked(branch.state)
    PROVE  Marked(AfterMsg)
BY DEF TypeOK, States, Stores, Marked, AfterMsg, SubmitStore, SetVerified

\* QueriesAlwaysServable: the two markers written at genesis survive blocks,
\* failed transactions, crashes before and after the first commit and exports,
\* so no version that can be queried has an empty store (app.go:295-299).
THEOREM QueriesAlwaysServable == Spec => []QueriesServable
<1>1. Init => MarkersKept
  BY DEF Init, MarkersKept
<1>2. TypeOK /\ MarkersKept /\ [Next]_vars => MarkersKept'
  <2> SUFFICES ASSUME TypeOK, MarkersKept, [Next]_vars PROVE MarkersKept'
    OBVIOUS
  <2> USE DEF MarkersKept
  <2>1. CASE InitChain
    <3>1. deliver' = [ ageverify |-> InitGenesis(genesis, EmptyStore),
                       params    |-> TRUE,
                       events    |-> {} ]
          /\ branch' = BranchOff(deliver') /\ versioned' = versioned /\ ~versioned
      BY <2>1 DEF InitChain, disk
    <3>2. InitGenesis(genesis, EmptyStore).initialized
      BY DEF InitGenesis, SetInitialized, EmptyStore
    <3>3. Marked(deliver') /\ Marked(branch'.state)
      BY <3>1, <3>2 DEF Marked, BranchOff
    <3>4. QED
      BY <3>1, <3>3 DEF Marked
  <2>2. CASE Restart
    BY <2>2 DEF Restart, WithNoEvents, BranchOff, disk, Marked
  <2>3. CASE \E tx \in Txs : CheckTx(tx)
    BY <2>3 DEF CheckTx, disk, Marked
  <2>4. CASE \E n \in 0 .. MaxBlockTxs, t \in 1 .. MaxTime : DecideBlock(n, t)
    BY <2>4 DEF DecideBlock, Marked
  <2>5. CASE MsgFails
    BY <2>5 DEF MsgFails, BranchOff, disk, Marked
  <2>6. CASE MsgPasses
    <3>1. Marked(AfterMsg)
      BY <2>6, AfterMsgMarked DEF MsgPasses
    <3>2. QED
      BY <2>6, <3>1 DEF MsgPasses, disk, Marked
  <2>7. CASE TxPasses
    <3>1. Marked(AfterMsg)
      BY <2>7, AfterMsgMarked DEF TxPasses
    <3>2. QED
      BY <2>7, <3>1 DEF TxPasses, BranchOff, disk, Marked
  <2>8. CASE Commit
    BY <2>8 DEF Commit, StoresOf, WithNoEvents, BranchOff, Marked
  <2>9. CASE Crash
    BY <2>9 DEF Crash, disk, Marked
  <2>10. CASE ExportImport
    BY <2>10 DEF ExportImport, memory, Marked
  <2>11. CASE UNCHANGED vars
    BY <2>11 DEF vars, memory, disk, Marked
  <2>12. QED
    BY <2>1, <2>2, <2>3, <2>4, <2>5, <2>6, <2>7, <2>8, <2>9, <2>10, <2>11 DEF Next
<1>3. MarkersKept => QueriesServable
  BY DEF MarkersKept, Marked, QueriesServable, IsEmptyStore
<1>4. QED
  BY <1>1, <1>2, <1>3, TypeCorrect, PTL DEF Spec

-----------------------------------------------------------------------------
(***************************************************************************)
(* Theorems about the execution of blocks.  Three invariants carry them,   *)
(* each inductive with the ones before it:                                 *)
(*                                                                         *)
(*   Progress   how far the node is in its block, and in the transaction   *)
(*              that runs on the branch;                                   *)
(*   Effects    what the two states in memory are, as the committed one    *)
(*              changed by the messages that have succeeded;               *)
(*   Verdicts   which transactions have succeeded: those whose messages    *)
(*              the handler all accepts, and no others.                    *)
(*                                                                         *)
(* From these follow what a commit does, hence the refinement of module    *)
(* AgeRegistry and that timestamps never move back.                        *)
(***************************************************************************)

\* Progress: nothing has run without a block or a booted node; the branch is
\* within the running transaction, or idle on top of the block's state.
Progress ==
    /\ Decided => block.time > lastTime
    /\ ~Decided \/ ~booted => results = <<>>
    /\ Len(results) <= Len(block.txs)
    /\ booted /\ Running => branch.next <= Len(CurrentTx)
    /\ booted /\ (~Running \/ branch.next = 1) => branch = BranchOff(deliver)
    /\ ~versioned => committed = EmptyStores

\* The creators of the first messages of a transaction, and those of all
\* messages of the successful ones among transactions.
FirstCreators(tx, n) == {tx[j].creator : j \in 1 .. n}

CreatorsOf(txs, codes) ==
    UNION { FirstCreators(txs[i], Len(txs[i])) :
            i \in {i \in 1 .. Len(codes) : codes[i] = OK} }

\* A state is a store changed by records for some addresses, at one time.
ChangedBy(state, store, addresses, t) ==
    /\ state.ageverify.verified =
         [a \in Addresses |->
            IF a \in addresses THEN Stamp(t) ELSE GetVerified(store, a)]
    /\ state.events = {[address |-> a, verifiedAt |-> Stamp(t)] : a \in addresses}

Effects ==
    booted =>
      /\ ChangedBy(deliver, committed.ageverify,
                   CreatorsOf(block.txs, results), block.time)
      /\ Running => ChangedBy(branch.state, committed.ageverify,
                      CreatorsOf(block.txs, results)
                        \union FirstCreators(CurrentTx, branch.next - 1),
                      block.time)

AllAccepted(tx, n, t) == \A j \in 1 .. n : SubmitCode(tx[j], t) = OK

Verdicts ==
    /\ \A i \in 1 .. Len(results) :
          results[i] = OK <=> AllAccepted(block.txs[i], Len(block.txs[i]), block.time)
    /\ booted /\ Running => AllAccepted(CurrentTx, branch.next - 1, block.time)

-----------------------------------------------------------------------------
(***************************************************************************)
(* Progress.                                                               *)
(***************************************************************************)
LEMMA NoBlockHasNoTx == Len(NoBlock.txs) = 0
BY DEF NoBlock

\* Admitted transactions are not empty: a branch can run its first message.
LEMMA FirstMessage ==
    ASSUME TypeOK, Running
    PROVE  1 <= Len(CurrentTx)
<1>1. CurrentTx \in AdmittedTxs /\ CurrentTx \in Seq(Messages)
  BY CurrentTxAdmitted
<1>2. CurrentTx # <<>>
  BY <1>1, AppAssumption DEF AdmittedTxs
<1>3. QED
  BY <1>1, <1>2

LEMMA ProgressInvariant == Spec => []Progress
<1>1. TypeOK /\ Running => 1 <= Len(CurrentTx)
  BY FirstMessage
<1>2. (TypeOK /\ Running => 1 <= Len(CurrentTx))'
  BY <1>1, PTL
<1>3. Init => Progress
  BY NoBlockHasNoTx DEF Init, Progress, Decided, Running
<1>4. TypeOK /\ TypeOK' /\ Progress /\ [Next]_vars => Progress'
  <2> SUFFICES ASSUME TypeOK, TypeOK', Progress, [Next]_vars PROVE Progress'
    OBVIOUS
  <2> USE DEF Progress
  <2>0. Running' => 1 <= Len(CurrentTx')
    BY <1>2
  <2>1. CASE InitChain
    BY <2>0, <2>1 DEF InitChain, disk, BranchOff, Decided, Running, CurrentTx
  <2>2. CASE Restart
    BY <2>0, <2>2 DEF Restart, disk, BranchOff, Decided, Running, CurrentTx
  <2>3. CASE \E tx \in Txs : CheckTx(tx)
    BY <2>3 DEF CheckTx, disk, Decided, Running, CurrentTx
  <2>4. CASE \E n \in 0 .. MaxBlockTxs, t \in 1 .. MaxTime : DecideBlock(n, t)
    BY <2>0, <2>4 DEF DecideBlock, BranchOff, Decided, Running, CurrentTx
  <2>5. CASE MsgFails
    BY <2>0, <2>5 DEF MsgFails, disk, BranchOff, Decided, Running, CurrentTx
  <2>6. CASE MsgPasses
    <3>1. /\ branch'.next = branch.next + 1 /\ branch.next < Len(CurrentTx)
          /\ Running' /\ CurrentTx' = CurrentTx /\ booted
      BY <2>6 DEF MsgPasses, disk, Decided, Running, CurrentTx
    <3>2. branch.next \in Nat \ {0} /\ Len(CurrentTx) \in Nat
      BY <2>6, CurrentTxAdmitted DEF MsgPasses, TypeOK
    <3>3. branch'.next # 1 /\ branch'.next <= Len(CurrentTx')
      BY <3>1, <3>2
    <3>4. QED
      BY <2>6, <3>1, <3>3 DEF MsgPasses, disk, Decided
  <2>7. CASE TxPasses
    BY <2>0, <2>7 DEF TxPasses, disk, BranchOff, Decided, Running, CurrentTx
  <2>8. CASE Commit
    BY <2>0, <2>8 DEF Commit, BranchOff, Decided, Running, CurrentTx
  <2>9. CASE Crash
    BY <2>0, <2>9 DEF Crash, disk, BranchOff, Decided, Running, CurrentTx
  <2>10. CASE ExportImport
    BY <2>0, <2>10 DEF ExportImport, memory, BranchOff, Decided, Running, CurrentTx
  <2>11. CASE UNCHANGED vars
    BY <2>11 DEF vars, memory, disk, Decided, Running, CurrentTx
  <2>12. QED
    BY <2>1, <2>2, <2>3, <2>4, <2>5, <2>6, <2>7, <2>8, <2>9, <2>10, <2>11 DEF Next
<1>5. QED
  BY <1>3, <1>4, TypeCorrect, PTL DEF Spec

-----------------------------------------------------------------------------
(***************************************************************************)
(* Effects.                                                                *)
(***************************************************************************)
LEMMA CreatorsMember ==
    ASSUME NEW txs, NEW codes, NEW a
    PROVE  a \in CreatorsOf(txs, codes)
             <=> \E i \in 1 .. Len(codes) :
                    codes[i] = OK /\ a \in FirstCreators(txs[i], Len(txs[i]))
BY DEF CreatorsOf

LEMMA AppendedCode ==
    ASSUME NEW codes \in Seq(Codes), NEW code \in Codes
    PROVE  LET n == Len(codes)
           IN  /\ n \in Nat /\ Len(Append(codes, code)) = n + 1
               /\ Append(codes, code)[n + 1] = code
               /\ \A i \in 1 .. n + 1 : i # n + 1 => i \in 1 .. n
               /\ \A i \in 1 .. n : i \in 1 .. n + 1 /\ i # n + 1
               /\ \A i \in 1 .. n : Append(codes, code)[i] = codes[i]
OBVIOUS

\* A failed transaction adds no creator, a successful one all of its own.
LEMMA CreatorsAfter ==
    ASSUME NEW txs, NEW codes \in Seq(Codes), NEW code \in Codes
    PROVE  LET tx == txs[Len(codes) + 1]
           IN  CreatorsOf(txs, Append(codes, code))
                 = IF code = OK
                   THEN CreatorsOf(txs, codes) \union FirstCreators(tx, Len(tx))
                   ELSE CreatorsOf(txs, codes)
<1> DEFINE n == Len(codes)
           more == Append(codes, code)
           All(i) == FirstCreators(txs[i], Len(txs[i]))
<1>1. /\ n \in Nat /\ Len(more) = n + 1
      /\ more[n + 1] = code
      /\ \A i \in 1 .. n + 1 : i # n + 1 => i \in 1 .. n
      /\ \A i \in 1 .. n : i \in 1 .. n + 1 /\ i # n + 1
      /\ \A i \in 1 .. n : more[i] = codes[i]
  BY AppendedCode
<1>2. n + 1 \in 1 .. n + 1
  BY <1>1
<1> HIDE DEF more
<1>3. ASSUME NEW a
      PROVE  a \in CreatorsOf(txs, more)
               <=> a \in CreatorsOf(txs, codes) \/ (code = OK /\ a \in All(n + 1))
  <2>1. a \in CreatorsOf(txs, more) <=> \E i \in 1 .. Len(more) : more[i] = OK /\ a \in All(i)
    BY CreatorsMember
  <2>2. a \in CreatorsOf(txs, codes) <=> \E i \in 1 .. n : codes[i] = OK /\ a \in All(i)
    BY CreatorsMember
  <2> HIDE DEF n, All
  <2>3. QED
    BY <1>1, <1>2, <2>1, <2>2
<1>4. CreatorsOf(txs, more)
        = IF code = OK THEN CreatorsOf(txs, codes) \union All(n + 1)
                       ELSE CreatorsOf(txs, codes)
  BY <1>3
<1>5. QED
  BY <1>4 DEF more

LEMMA CreatorsOfNone == ASSUME NEW txs PROVE CreatorsOf(txs, <<>>) = {}
BY DEF CreatorsOf

LEMMA NoFirstCreators == ASSUME NEW tx PROVE FirstCreators(tx, 0) = {}
BY DEF FirstCreators

LEMMA OneMoreCreator ==
    ASSUME NEW tx, NEW n \in Nat \ {0}
    PROVE  FirstCreators(tx, n) = FirstCreators(tx, n - 1) \union {tx[n].creator}
<1>1. \A j : j \in 1 .. n <=> j \in 1 .. n - 1 \/ j = n
  OBVIOUS
<1>2. QED
  BY <1>1 DEF FirstCreators

\* A store without changes.
LEMMA Unchanged ==
    ASSUME NEW store \in Stores, NEW t, NEW params
    PROVE  ChangedBy([ageverify |-> store, params |-> params, events |-> {}], store, {}, t)
BY DEF ChangedBy, Stores, GetVerified

\* One more message that passes changes the branch by a record for its creator.
LEMMA AfterMsgChanges ==
    ASSUME TypeOK, Running, branch.next <= Len(CurrentTx),
           NEW store, NEW addresses,
           ChangedBy(branch.state, store, addresses, block.time)
    PROVE  ChangedBy(AfterMsg, store, addresses \union {CurrentMsg.creator}, block.time)
<1> DEFINE state == branch.state
           creator == CurrentMsg.creator
           stamp == Stamp(block.time)
<1>1. state \in States /\ creator \in Addresses
  BY CurrentMsgAdmitted DEF TypeOK
<1>2. AfterMsg.ageverify.verified = [state.ageverify.verified EXCEPT ![creator] = stamp]
  BY <1>1 DEF AfterMsg, SubmitStore, SetVerified, States, Stores
<1>3. AfterMsg.events = state.events \union {[address |-> creator, verifiedAt |-> stamp]}
  BY <1>1 DEF AfterMsg, AgeVerifiedEvent, States
<1>4. /\ state.ageverify.verified =
           [a \in Addresses |-> IF a \in addresses THEN stamp ELSE GetVerified(store, a)]
      /\ state.events = {[address |-> a, verifiedAt |-> stamp] : a \in addresses}
  BY DEF ChangedBy
<1> HIDE DEF state, creator, stamp
<1>5. AfterMsg.ageverify.verified =
        [a \in Addresses |-> IF a \in addresses \union {creator} THEN stamp
                             ELSE GetVerified(store, a)]
  BY <1>1, <1>2, <1>4
<1>6. AfterMsg.events =
        {[address |-> a, verifiedAt |-> stamp] : a \in addresses \union {creator}}
  BY <1>3, <1>4
<1>7. QED
  BY <1>5, <1>6 DEF ChangedBy, creator, stamp

\* With an idle branch there is only the block's state to look at.
LEMMA IdleBranch ==
    ASSUME branch = BranchOff(deliver),
           ChangedBy(deliver, committed.ageverify,
                     CreatorsOf(block.txs, results), block.time)
    PROVE  Effects
<1>1. FirstCreators(CurrentTx, branch.next - 1) = {} /\ branch.state = deliver
  BY NoFirstCreators DEF BranchOff
<1>2. QED
  BY <1>1 DEF Effects

LEMMA EffectsInvariant == Spec => []Effects
<1>1. branch = BranchOff(deliver)
        /\ ChangedBy(deliver, committed.ageverify,
                     CreatorsOf(block.txs, results), block.time)
        => Effects
  BY IdleBranch
<1>2. (branch = BranchOff(deliver)
        /\ ChangedBy(deliver, committed.ageverify,
                     CreatorsOf(block.txs, results), block.time)
        => Effects)'
  BY <1>1, PTL
<1>3. Init => Effects
  BY DEF Init, Effects
<1>4. TypeOK /\ Progress /\ Effects /\ [Next]_vars => Effects'
  <2> SUFFICES ASSUME TypeOK, Progress, Effects, [Next]_vars PROVE Effects'
    OBVIOUS
  <2> DEFINE creators == CreatorsOf(block.txs, results)
             passed   == FirstCreators(CurrentTx, branch.next - 1)
             store    == committed.ageverify
  <2>a. store \in Stores /\ results \in Seq(Codes) /\ block.time \in Nat
    BY DEF TypeOK
  <2>b. Running => branch.next \in Nat \ {0} /\ CurrentTx \in Seq(Messages)
    BY CurrentTxAdmitted DEF TypeOK
  <2>c. \A txs : CreatorsOf(txs, <<>>) = {}
    BY CreatorsOfNone
  <2>1. CASE InitChain
    <3>1. InitGenesis(genesis, EmptyStore) \in Stores
      BY EmptyStoreType DEF InitGenesis, SetInitialized, Stores
    <3>2. store.verified = InitGenesis(genesis, EmptyStore).verified
      BY <2>1 DEF InitChain, Progress, EmptyStores, InitGenesis, SetInitialized, EmptyStore
    <3>3. ChangedBy(deliver', store, {}, block.time)
      BY <2>1, <3>1, <3>2, Unchanged DEF InitChain, ChangedBy, GetVerified
    <3>4. QED
      BY <1>2, <2>1, <2>c, <3>3 DEF InitChain, disk, Progress
  <2>2. CASE Restart
    <3>1. ChangedBy(deliver', store, {}, block.time)
      BY <2>2, <2>a, Unchanged DEF Restart, WithNoEvents
    <3>2. QED
      BY <1>2, <2>2, <2>c, <3>1 DEF Restart, disk, Progress
  <2>3. CASE \E tx \in Txs : CheckTx(tx)
    BY <2>3 DEF CheckTx, disk, Effects, Decided, Running, CurrentTx
  <2>4. CASE \E n \in 0 .. MaxBlockTxs, t \in 1 .. MaxTime : DecideBlock(n, t)
    <3>1. booted /\ ~Running /\ results = <<>> /\ branch = BranchOff(deliver)
      BY <2>4 DEF DecideBlock, Progress, Running
    <3>2. ChangedBy(deliver, store, {}, block'.time)
      BY <2>c, <3>1 DEF Effects, ChangedBy
    <3>3. QED
      BY <1>2, <2>4, <2>c, <3>1, <3>2 DEF DecideBlock
  <2>5. CASE MsgFails
    <3>1. CurrentCode \in Codes /\ CurrentCode # OK
      BY <2>5, CodesType DEF MsgFails, CurrentCode
    <3>2. CreatorsOf(block.txs, results') = creators
      BY <2>5, <2>a, <3>1, CreatorsAfter DEF MsgFails
    <3>3. QED
      BY <1>2, <2>5, <3>2 DEF MsgFails, disk, Effects
  <2>6. CASE MsgPasses
    <3>1. /\ Running' /\ CurrentTx' = CurrentTx /\ booted /\ Running
          /\ branch' = [next |-> branch.next + 1, state |-> AfterMsg]
          /\ UNCHANGED <<results, deliver, block, committed>>
      BY <2>6 DEF MsgPasses, disk, Decided, Running, CurrentTx
    <3>2. branch.next <= Len(CurrentTx)
      BY <3>1 DEF Progress
    <3>3. ChangedBy(AfterMsg, store, creators \union passed \union {CurrentMsg.creator},
                    block.time)
      BY <3>1, <3>2, AfterMsgChanges DEF Effects
    <3>4. FirstCreators(CurrentTx, branch'.next - 1) = passed \union {CurrentMsg.creator}
      BY <2>b, <3>1, OneMoreCreator DEF CurrentMsg
    <3>5. QED
      BY <3>1, <3>3, <3>4 DEF Effects
  <2>7. CASE TxPasses
    <3>1. booted /\ Running /\ branch.next = Len(CurrentTx)
      BY <2>7 DEF TxPasses
    <3>2. ChangedBy(AfterMsg, store, creators \union passed \union {CurrentMsg.creator},
                    block.time)
      BY <2>b, <3>1, AfterMsgChanges DEF Effects
    <3>3. FirstCreators(CurrentTx, Len(CurrentTx)) = passed \union {CurrentMsg.creator}
      BY <2>b, <3>1, OneMoreCreator DEF CurrentMsg
    <3>4. CreatorsOf(block.txs, results') = creators \union FirstCreators(CurrentTx, Len(CurrentTx))
      BY <2>7, <2>a, CreatorsAfter DEF TxPasses, CurrentTx, Codes
    <3>5. QED
      BY <1>2, <2>7, <3>2, <3>3, <3>4 DEF TxPasses, disk
  <2>8. CASE Commit
    <3>1. deliver.ageverify \in Stores
      BY DEF TypeOK, States
    <3>2. ChangedBy(deliver', committed'.ageverify, {}, block'.time)
      BY <2>8, <3>1, Unchanged DEF Commit, WithNoEvents, StoresOf
    <3>3. QED
      BY <1>2, <2>8, <2>c, <3>2 DEF Commit
  <2>9. CASE Crash \/ ExportImport
    BY <2>9 DEF Crash, ExportImport, memory, Effects
  <2>10. CASE UNCHANGED vars
    BY <2>10 DEF vars, memory, disk, Effects, Decided, Running, CurrentTx
  <2>11. QED
    BY <2>1, <2>2, <2>3, <2>4, <2>5, <2>6, <2>7, <2>8, <2>9, <2>10 DEF Next
<1>5. QED
  BY <1>3, <1>4, TypeCorrect, ProgressInvariant, PTL DEF Spec

-----------------------------------------------------------------------------
\* BlockEffect: at every moment of a block's execution its state is the
\* committed one changed by exactly the transactions whose result is 0, each
\* as a whole, through failed messages, crashes and replays (app.go:104-301).
THEOREM BlockEffect == Spec => []BlockEffectIsItsSuccesses
<1>1. Effects => BlockEffectIsItsSuccesses
  BY DEF Effects, ChangedBy, CreatorsOf, FirstCreators,
         BlockEffectIsItsSuccesses, BlockCreators
<1>2. QED
  BY <1>1, EffectsInvariant, PTL

-----------------------------------------------------------------------------
(***************************************************************************)
(* Verdicts.                                                               *)
(***************************************************************************)
LEMMA NoneRejected == ASSUME NEW tx, NEW t PROVE AllAccepted(tx, 0, t)
BY DEF AllAccepted

LEMMA OneMoreAccepted ==
    ASSUME NEW tx, NEW n \in Nat \ {0}, NEW t
    PROVE  AllAccepted(tx, n, t) <=> AllAccepted(tx, n - 1, t) /\ SubmitCode(tx[n], t) = OK
<1>1. \A j : j \in 1 .. n <=> j \in 1 .. n - 1 \/ j = n
  OBVIOUS
<1>2. QED
  BY <1>1 DEF AllAccepted

\* What one more result adds to the verdicts on a block.
LEMMA VerdictsAfter ==
    ASSUME NEW txs, NEW t, NEW codes \in Seq(Codes), NEW code \in Codes,
           \A i \in 1 .. Len(codes) :
              codes[i] = OK <=> AllAccepted(txs[i], Len(txs[i]), t),
           LET tx == txs[Len(codes) + 1]
           IN  code = OK <=> AllAccepted(tx, Len(tx), t)
    PROVE  \A i \in 1 .. Len(Append(codes, code)) :
              Append(codes, code)[i] = OK <=> AllAccepted(txs[i], Len(txs[i]), t)
<1> DEFINE n == Len(codes)
           more == Append(codes, code)
<1>1. /\ n \in Nat /\ Len(more) = n + 1
      /\ more[n + 1] = code
      /\ \A i \in 1 .. n + 1 : i # n + 1 => i \in 1 .. n
      /\ \A i \in 1 .. n : more[i] = codes[i]
  BY AppendedCode
<1> HIDE DEF more
<1>2. SUFFICES ASSUME NEW i \in 1 .. n + 1
               PROVE  more[i] = OK <=> AllAccepted(txs[i], Len(txs[i]), t)
  BY <1>1 DEF more
<1>3. CASE i = n + 1
  BY <1>1, <1>3
<1>4. CASE i # n + 1
  BY <1>1, <1>4
<1>5. QED
  BY <1>3, <1>4

LEMMA VerdictsInvariant == Spec => []Verdicts
<1>1. Init => Verdicts
  BY DEF Init, Verdicts
<1>2. TypeOK /\ Progress /\ Verdicts /\ [Next]_vars => Verdicts'
  <2> SUFFICES ASSUME TypeOK, Progress, Verdicts, [Next]_vars PROVE Verdicts'
    OBVIOUS
  <2>a. ASSUME results' = <<>>, booted' /\ Running' => branch'.next = 1
        PROVE  Verdicts'
    <3>1. 1 .. Len(<<>>) = {} /\ 1 - 1 = 0
      OBVIOUS
    <3>2. QED
      BY <2>a, <3>1, NoneRejected DEF Verdicts
  <2>b. Running => /\ branch.next \in Nat \ {0}
                   /\ CurrentTx \in Seq(Messages)
                   /\ Len(CurrentTx) \in Nat \ {0}
                   /\ CurrentMsg = CurrentTx[branch.next]
    BY CurrentTxAdmitted, FirstMessage DEF TypeOK, CurrentMsg
  <2>c. ASSUME booted, Running, NEW code \in Codes,
               code = OK <=> AllAccepted(CurrentTx, Len(CurrentTx), block.time),
               results' = Append(results, code), branch'.next = 1, UNCHANGED block
        PROVE  Verdicts'
    <3>1. results \in Seq(Codes)
      BY DEF TypeOK
    <3>2. \A i \in 1 .. Len(results') :
             results'[i] = OK
               <=> AllAccepted(block.txs[i], Len(block.txs[i]), block.time)
      BY <2>c, <3>1, VerdictsAfter DEF Verdicts, CurrentTx
    <3>3. branch'.next - 1 = 0
      BY <2>c
    <3>4. QED
      BY <2>c, <3>2, <3>3, NoneRejected DEF Verdicts
  <2>1. CASE InitChain \/ Restart
    BY <2>1, <2>a DEF InitChain, Restart, disk, BranchOff, Progress
  <2>2. CASE \E tx \in Txs : CheckTx(tx)
    BY <2>2 DEF CheckTx, disk, Verdicts, Decided, Running, CurrentTx
  <2>3. CASE \E n \in 0 .. MaxBlockTxs, t \in 1 .. MaxTime : DecideBlock(n, t)
    BY <2>3, <2>a DEF DecideBlock, Progress, Running, BranchOff
  <2>4. CASE MsgFails
    <3>1. CurrentCode \in Codes /\ CurrentCode # OK
      BY <2>4, CodesType DEF MsgFails, CurrentCode
    <3>2. branch.next \in 1 .. Len(CurrentTx)
      BY <2>4, <2>b DEF MsgFails, Progress
    <3>3. ~AllAccepted(CurrentTx, Len(CurrentTx), block.time)
      BY <2>4, <2>b, <3>1, <3>2 DEF MsgFails, AllAccepted, CurrentCode
    <3>4. QED
      BY <2>4, <2>c, <3>1, <3>3 DEF MsgFails, disk, BranchOff
  <2>5. CASE MsgPasses
    <3>1. /\ Running /\ booted /\ CurrentTx' = CurrentTx
          /\ branch'.next - 1 = branch.next
          /\ UNCHANGED <<block, results>>
      BY <2>5, <2>b DEF MsgPasses, disk, Decided, Running, CurrentTx
    <3>2. AllAccepted(CurrentTx, branch.next, block.time)
      BY <2>5, <2>b, <3>1, OneMoreAccepted DEF MsgPasses, Verdicts, CurrentCode
    <3>3. QED
      BY <3>1, <3>2 DEF Verdicts
  <2>6. CASE TxPasses
    <3>1. AllAccepted(CurrentTx, Len(CurrentTx), block.time)
      BY <2>6, <2>b, OneMoreAccepted DEF TxPasses, Verdicts, CurrentCode
    <3>2. QED
      BY <2>6, <2>c, <3>1 DEF TxPasses, disk, BranchOff, Codes
  <2>7. CASE Commit \/ Crash \/ ExportImport
    BY <2>7, <2>a DEF Commit, Crash, ExportImport, memory, BranchOff, Progress
  <2>8. CASE UNCHANGED vars
    BY <2>8 DEF vars, memory, disk, Verdicts, Decided, Running, CurrentTx
  <2>9. QED
    BY <2>1, <2>2, <2>3, <2>4, <2>5, <2>6, <2>7, <2>8 DEF Next
<1>3. QED
  BY <1>1, <1>2, TypeCorrect, ProgressInvariant, PTL DEF Spec

-----------------------------------------------------------------------------
(***************************************************************************)
(* Honest proofs are accepted.                                             *)
(***************************************************************************)

\* On its own day a date is near the block, with no saturation and no wrap.
LEMMA OwnDayIsNear ==
    ASSUME NEW d \in Days, NEW t \in Nat, t \in Midnight(d) .. Midnight(d) + DayTicks - 1
    PROVE  DateNearBlockTime(d, t)
<1> DEFINE m == Midnight(d)
<1>1. m \in Int /\ DayTicks \in Nat /\ MaxDuration \in Nat /\ DayTicks < MaxDuration
  BY MidnightInt, DayTicksPositive, ClockAssumption
<1>2. t - m \in 0 .. DayTicks - 1
  BY <1>1
<1> HIDE DEF m
<1>3. TimeSub(t, m) = t - m
  BY <1>1, <1>2 DEF TimeSub, MinDuration
<1>4. QED
  BY <1>1, <1>2, <1>3 DEF DateNearBlockTime, DateTimeTolerance, m

\* A real date of birth since 1900 passes the circuit's range checks.
LEMMA CivilBirthInRange ==
    ASSUME NEW birth \in CivilDate, birth.year \in 1900 .. 2155
    PROVE  InRange(birth)
BY DEF CivilDate, InRange

\* The circuit has a solution for somebody old enough: the prover's proof for
\* the chain's own public inputs is genuine.
LEMMA AdultsProofVerifies ==
    ASSUME NEW msg \in Messages, NEW t \in Nat, MadeToday(msg, t)
    PROVE  /\ msg.proof # NotBase64
           /\ VKBytes \in Keys
           /\ ~VerifyAgeProofFails(msg.proof,
                 BuildPublicWitness(Calendar[msg.date], RequiredMinAge))
<1> DEFINE date == Calendar[msg.date]
           public == BuildPublicWitness(date, RequiredMinAge)
<1>1. /\ msg.date \in Days
      /\ msg.proof = ProofOf(VKBytes, public)
      /\ msg.proof \in Proofs
  BY DEF MadeToday, Messages
<1>2. PICK birth \in Births :
        /\ birth \in CivilDate /\ birth.year \in 1900 .. 2155
        /\ AgeOn(birth, date) \in RequiredMinAge .. RequiredMinAge + 255
  BY DEF MadeToday
<1>3. date \in CivilDate /\ RequiredMinAge \in MinAges /\ birth \in BirthDates
  <2>1. date \in CivilDate
    BY <1>1, DaysAssumption
  <2>2. RequiredMinAge \in MinAges
    BY DEF RequiredMinAge, MinAges
  <2>3. QED
    BY <2>1, <2>2, BirthsAssumption
<1>4. public = PublicOfDate(date, RequiredMinAge)
  BY DEF BuildPublicWitness, PublicOfDate
<1>5. Satisfied(birth, public)
  BY <1>2, <1>3, <1>4, CivilBirthInRange, CircuitCorrect
<1> HIDE DEF public
<1>6. msg.proof.form = "groth16" /\ msg.proof.key = VKBytes /\ msg.proof.public = public
  BY <1>1 DEF ProofOf
<1>7. msg.proof # NotBase64 /\ msg.proof # NotAProof
  BY <1>6 DEF NotBase64, NotAProof
<1>8. VKBytes \in Keys
  BY <1>1, <1>6, <1>7 DEF Proofs, ProofObjects
<1>9. Verifies(msg.proof, VKBytes, public)
  BY <1>5, <1>6 DEF Verifies, Genuine
<1>10. QED
  BY <1>7, <1>8, <1>9 DEF VerifyAgeProofFails, public

LEMMA TodaysMessageIsAccepted ==
    ASSUME NEW msg \in Messages, NEW t \in Nat, MadeToday(msg, t)
    PROVE  SubmitCode(msg, t) = OK
<1>1. msg.date \in Days /\ msg.date # BadDate /\ DateNearBlockTime(msg.date, t)
  BY OwnDayIsNear, KeeperAssumption DEF MadeToday
<1>2. QED
  BY <1>1, AdultsProofVerifies DEF SubmitCode, LoadVerificationKeyFails

\* HonestProofsAccepted: an adult's proof of the block's own day is never
\* refused, whatever key was set up and whatever else is in the block: the date
\* check, the circuit and the witness the chain rebuilds agree on that day
\* (msg_server_submit_age_proof.go:33-64).
THEOREM HonestProofsAccepted == Spec => []TodaysProofIsAccepted
<1>1. TypeOK /\ Progress /\ Verdicts => TodaysProofIsAccepted
  <2> SUFFICES ASSUME TypeOK, Progress, Verdicts, NEW i \in 1 .. Len(results),
                      \A j \in 1 .. Len(block.txs[i]) : MadeToday(block.txs[i][j], block.time)
               PROVE  results[i] = OK
    BY DEF TodaysProofIsAccepted
  <2>1. i \in 1 .. Len(block.txs) /\ block.txs \in Seq(AdmittedTxs) /\ block.time \in Nat
    BY DEF TypeOK, Progress
  <2>2. block.txs[i] \in Seq(Messages)
    BY <2>1, AppAssumption DEF AdmittedTxs
  <2>3. AllAccepted(block.txs[i], Len(block.txs[i]), block.time)
    BY <2>1, <2>2, TodaysMessageIsAccepted DEF AllAccepted
  <2>4. QED
    BY <2>3 DEF Verdicts
<1>2. QED
  BY <1>1, TypeCorrect, ProgressInvariant, VerdictsInvariant, PTL

=============================================================================
