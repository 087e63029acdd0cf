------------------------------ MODULE Groth16 -------------------------------
(***************************************************************************)
(* The proof system the code calls (gnark's backend/groth16), idealised:   *)
(* a proof is an object made under one key pair for one vector of public   *)
(* inputs.  It verifies exactly under that key, for exactly those inputs,  *)
(* and only when a birth date somebody can type satisfies the circuit.     *)
(***************************************************************************)
EXTENDS AgeCircuit

CONSTANTS
    Births,   \* the birth dates users type into the prover
    Keys      \* the key pairs that runs of zk/setup have produced

ASSUME BirthsAssumption == Births \subseteq BirthDates

\* What a base64 string in a message can hold.
NotBase64 == [form |-> "not_base64"]    \* text that is not base64 at all
NotAProof == [form |-> "not_a_proof"]   \* bytes ReadFrom does not accept
ProofObjects == [form : {"groth16"}, key : Keys, public : PublicInputs]
Proofs == {NotBase64, NotAProof} \union ProofObjects

\* groth16.Prove: a proof object if the witness solves the circuit.
ProofOf(key, public) == [form |-> "groth16", key |-> key, public |-> public]

\* Knowledge soundness: somebody had a birth date to prove with.
Genuine(proof) == \E birth \in Births : Satisfied(birth, proof.public)

\* The design docs/limitations.md #0 records as fixed: the public inputs are
\* the transaction's own.
VerifiesOwnInputs(proof, key, public) ==
    /\ proof.key = key
    /\ Genuine(proof)

\* groth16.Verify of the chain's key and the witness it rebuilt.
Verifies(proof, key, public) ==
    /\ proof.key = key
    /\ proof.public = public
    /\ Genuine(proof)

=============================================================================
