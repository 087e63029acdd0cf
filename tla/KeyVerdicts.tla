----------------------------- MODULE KeyVerdicts ----------------------------
(***************************************************************************)
(* Who says what of a proof while the keys change: the prover signs with   *)
(* the proving key it finds, zk/verify/main.go checks with the             *)
(* verification key it finds, and the node with the key it embeds.         *)
(***************************************************************************)
EXTENDS KeyLifecycle, Groth16, CivilTime

CONSTANTS
    Addresses, BadAddress, BadDate,   \* of module AgeVerifyKeeper
    MinAges                           \* values of the prover's --min-age

ASSUME KeysAreGenerations == Keys = Generations
ASSUME BadDateAssumption == BadDate \notin Days

\* The keeper of a node that embeds a key.
Chain(key) == INSTANCE AgeVerifyKeeper WITH VKBytes <- key

VARIABLE bundle    \* the JSON the prover printed last, or NoBundle

NoBundle == [proof |-> NotAProof, witness |-> NotAProof, date |-> BadDate]

-----------------------------------------------------------------------------
\* A slip: the witness of the input is read but not used.
RejectedAlone(input, vkFile) == ~VerifiesOwnInputs(input.proof, vkFile, input.witness)

\* groth16.Verify of the proof, the file's key and the prover's own witness.
Rejected(input, vkFile) == ~Verifies(input.proof, vkFile, input.witness)

\* zk/verify/main.go: how a run ends on what it reads from stdin and the
\* content of zk/keys/verification.key, its exits in order.
VerifyExit(input, vkFile) ==
    IF ~input.json THEN "cannotParseJSON"
    ELSE IF input.proof = NotBase64 THEN "cannotDecodeProof"
    ELSE IF input.witness = NotBase64 THEN "cannotDecodeWitness"
    ELSE IF vkFile = Missing THEN "cannotOpenKey"
    ELSE IF vkFile = Partial THEN "cannotReadKey"
    ELSE IF input.proof = NotAProof THEN "cannotDeserializeProof"
    ELSE IF input.witness = NotAProof THEN "cannotDeserializeWitness"
    ELSE IF Rejected(input, vkFile) THEN "failed"
    ELSE "passed"

\* A run of the prover for a birth date, a day and a minimum age.
Prove(birth, d, minAge) ==
    LET public == Chain(node)!BuildPublicWitness(Calendar[d], minAge)
    IN  /\ Whole(keys["pk"])
        /\ Satisfied(birth, public)
        /\ bundle' = [proof |-> ProofOf(keys["pk"], public), witness |-> public, date |-> d]
        /\ UNCHANGED vars

VerdictsInit == Init /\ bundle = NoBundle
VerdictsNext ==
    \/ Next /\ UNCHANGED bundle
    \/ \E birth \in Births, d \in Days, minAge \in MinAges : Prove(birth, d, minAge)
VerdictsSpec == VerdictsInit /\ [][VerdictsNext]_<<vars, bundle>>

-----------------------------------------------------------------------------
\* What may come out of the pipe between the prover and the two that judge:
\* the JSON as it was printed, or with parts replaced.
Piped ==
    {[json |-> j, proof |-> p, witness |-> w, date |-> d] :
        j \in BOOLEAN,
        p \in {bundle.proof, NotBase64, NotAProof},
        w \in {bundle.witness, NotBase64, NotAProof}
              \union {Chain(node)!BuildPublicWitness(Calendar[d], 18) : d \in Days},
        d \in Days}

ChainCode(input) ==
    Chain(node)!SubmitCode(
        [creator |-> BadAddress, proof |-> input.proof, witness |-> "matching",
         date |-> input.date],
        Midnight(input.date))
WitnessOfChain(input) ==
    input.witness = Chain(node)!BuildPublicWitness(Calendar[input.date], 18)

\* OffchainMatchesChain: while verification.key is the node's key, "passed" for
\* the witness the chain rebuilds from the date and code 0 on a block of that
\* day are the same, whatever came out of the pipe; and when it is an older or
\* newer key, the two never both accept (zk/verify/main.go:47, 79).
OffchainMatchesChain ==
    bundle # NoBundle =>
      \A input \in {i \in Piped : i.json /\ WitnessOfChain(i)} :
         LET passed   == VerifyExit(input, keys["vk"]) = "passed"
             accepted == ChainCode(input) = 0
         IN  IF keys["vk"] = node THEN passed <=> accepted ELSE ~(passed /\ accepted)

=============================================================================
