-------------------------- MODULE AgeVerifyKeeper ---------------------------
(***************************************************************************)
(* The x/ageverify module: its message, the handler SubmitAgeProof, the    *)
(* two parts of its store, its query and its genesis.  The handler is an   *)
(* operator of a message, a block time and a store: baseapp decides when   *)
(* it runs and what becomes of its writes (module AgeVerifyApp).           *)
(***************************************************************************)
EXTENDS CivilTime, Groth16

CONSTANTS
    Addresses,   \* well-formed account addresses
    BadAddress,  \* a creator that is no bech32 address
    BadDate,     \* a current_date that time.Parse refuses
    VKBytes      \* the embedded verification key: a key pair or other bytes

ASSUME KeeperAssumption == BadDate \notin Days /\ BadAddress \notin Addresses

-----------------------------------------------------------------------------
\* MsgSubmitAgeProof.  The witness field is carried but nothing reads it.
Messages ==
    [ creator : Addresses \union {BadAddress},
      proof   : Proofs,
      witness : {"matching", "other", "garbage"},
      date    : Days \union {BadDate} ]

\* Codes of types/errors.go, and 0 for success.
OK                         == 0
ErrInvalidProof            == 1100
ErrDateMismatch            == 1102
ErrProofVerificationFailed == 1103
Codes == {OK, ErrInvalidProof, ErrDateMismatch, ErrProofVerificationFailed}

\* Tolerances a maintainer might choose instead: the one hour proposed by
\* docs/limitations.md #4, and two days.
HourTolerance   == DayTicks \div 24
TwoDayTolerance == 2 * DayTicks

DateTimeTolerance == DayTicks
RequiredMinAge    == 18

-----------------------------------------------------------------------------
\* The module's store: the genesis marker and a timestamp per address.  An
\* address that is not in the store has the stamp NotFound.
NotFound == -1
Stamps == Nat \union {NotFound}
Stores == [initialized : BOOLEAN, verified : [Addresses -> Stamps]]
EmptyStore ==
    [initialized |-> FALSE, verified |-> [a \in Addresses |-> NotFound]]

SetInitialized(store) == [store EXCEPT !.initialized = TRUE]
SetVerified(store, a, stamp) == [store EXCEPT !.verified[a] = stamp]
GetVerified(store, a) == store.verified[a]

\* No key was ever written: IAVL then refuses to serve any query.
IsEmptyStore(store) ==
    /\ ~store.initialized
    /\ \A a \in Addresses : store.verified[a] = NotFound

-----------------------------------------------------------------------------
\* Step 2 of SubmitAgeProof, on Durations as Go computes them.
DateNearBlockTime(date, blockTime) ==
    LET diff == TimeSub(blockTime, Midnight(date))
        abs  == IF diff < 0 THEN Negated(diff) ELSE diff
    IN  abs <= DateTimeTolerance

\* BuildPublicWitness: public inputs from the checked date and the chain's
\* own minimum age.
BuildPublicWitness(date, minAge) ==
    [ year   |-> date.year,
      month  |-> date.month,
      day    |-> date.day,
      minAge |-> minAge ]

LoadVerificationKeyFails == VKBytes \notin Keys

VerifyAgeProofFails(proof, witness) ==
    \/ proof = NotAProof
    \/ ~Verifies(proof, VKBytes, witness)

\* The code SubmitAgeProof returns for a message: its early returns, in order.
SubmitCode(msg, blockTime) ==
    IF msg.proof = NotBase64 THEN ErrInvalidProof
    ELSE IF msg.date = BadDate THEN ErrDateMismatch
    ELSE IF ~DateNearBlockTime(msg.date, blockTime) THEN ErrDateMismatch
    ELSE IF LoadVerificationKeyFails THEN ErrProofVerificationFailed
    ELSE IF VerifyAgeProofFails(msg.proof,
              BuildPublicWitness(Calendar[msg.date], RequiredMinAge))
         THEN ErrProofVerificationFailed
    ELSE OK

\* What it writes and the event it emits when the code is OK.
SubmitStore(store, msg, blockTime) ==
    SetVerified(store, msg.creator, Stamp(blockTime))

AgeVerifiedEvent(msg, blockTime) ==
    [address |-> msg.creator, verifiedAt |-> Stamp(blockTime)]

-----------------------------------------------------------------------------
\* A slip: no check at all.
ValidateNothing(msg) == TRUE

\* MsgSubmitAgeProof.ValidateBasic: only the creator's spelling is checked.
ValidateBasic(msg) == msg.creator \in Addresses

\* Query VerificationStatus.
VerificationStatus(store, a) ==
    LET stamp == GetVerified(store, a)
    IN  [verified |-> stamp # NotFound, verifiedAt |-> stamp]

\* Without the marker InitGenesis writes, as before its workaround.
InitGenesisUnmarked(genesis, store) == store

\* InitGenesis ignores its document, ExportGenesis writes an empty one.
EmptyGenesis == [ageverify |-> {}]
InitGenesis(genesis, store) == SetInitialized(store)
ExportGenesis(store) == EmptyGenesis

=============================================================================
