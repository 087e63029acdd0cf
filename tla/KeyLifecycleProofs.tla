------------------------- MODULE KeyLifecycleProofs -------------------------
(***************************************************************************)
(* The order of the key's stages, and what the README's three steps leave  *)
(* in the binary, for any number of runs of setup, wherever they die; and  *)
(* the agreement of the two that judge a proof, the verifier and the node. *)
(***************************************************************************)
EXTENDS KeyVerdicts, TLAPS

\* Nothing is newer than the last setup, and a setup that writes a file has
\* written the ones before it.
Written ==
    /\ \A file \in Files : keys[file] <= latest
    /\ keeperSrc <= latest /\ binary <= latest /\ node <= latest
    /\ writing \in {"vk", "src"} => keys["pk"] = latest
    /\ writing = "src" => keys["vk"] = latest

\* How far the README's steps have carried the generation they were begun with,
\* or a newer one; and that one itself as long as no other setup has begun.
Carried ==
    /\ followed <= latest
    /\ readme >= 1 => keys["src"] = Partial \/ keys["src"] >= followed
    /\ readme >= 2 => keeperSrc = Partial \/ keeperSrc >= followed
    /\ readme >= 3 => binary >= followed
    /\ latest = followed =>
         /\ readme >= 1 => /\ writing = "none"
                           /\ keys["pk"] = latest /\ keys["vk"] = latest
                           /\ keys["src"] = latest
         /\ readme >= 2 => keeperSrc = latest
         /\ readme >= 3 => binary = latest

KeysInv == TypeOK /\ StagesInOrder /\ Written /\ Carried

\* StagesInOrder, pair by pair.
Pairs ==
    /\ NotAhead(node, binary) /\ NotAhead(node, keeperSrc)
    /\ NotAhead(binary, keeperSrc)
    /\ \A later \in {node, binary, keeperSrc} :
         /\ NotAhead(later, keys["src"])
         /\ NotAhead(later, keys["vk"])
         /\ NotAhead(later, keys["pk"])
    /\ NotAhead(keys["src"], keys["vk"]) /\ NotAhead(keys["src"], keys["pk"])
    /\ NotAhead(keys["vk"], keys["pk"])

LEMMA StagesArePairs == StagesInOrder <=> Pairs
  <1> DEFINE s == Stages
  <1>1. /\ s[1] = node /\ s[2] = binary /\ s[3] = keeperSrc
        /\ s[4] = keys["src"] /\ s[5] = keys["vk"] /\ s[6] = keys["pk"]
    BY DEF Stages
  <1>2. StagesInOrder <=> \A i, j \in 1 .. 6 : i < j => NotAhead(s[i], s[j])
    BY DEF StagesInOrder
  <1>3. 1 .. 6 = {1, 2, 3, 4, 5, 6}
    OBVIOUS
  <1> HIDE DEF s
  <1>4. (\A i, j \in 1 .. 6 : i < j => NotAhead(s[i], s[j]))
          <=> /\ NotAhead(s[1], s[2]) /\ NotAhead(s[1], s[3]) /\ NotAhead(s[1], s[4])
              /\ NotAhead(s[1], s[5]) /\ NotAhead(s[1], s[6])
              /\ NotAhead(s[2], s[3]) /\ NotAhead(s[2], s[4])
              /\ NotAhead(s[2], s[5]) /\ NotAhead(s[2], s[6])
              /\ NotAhead(s[3], s[4]) /\ NotAhead(s[3], s[5]) /\ NotAhead(s[3], s[6])
              /\ NotAhead(s[4], s[5]) /\ NotAhead(s[4], s[6])
              /\ NotAhead(s[5], s[6])
    BY <1>3
  <1> QED
    BY <1>1, <1>2, <1>4 DEF Pairs

LEMMA ContentFacts ==
    /\ 0 \in Generations
    /\ Generations \subseteq Contents \ {Missing}
    /\ Missing \in Contents /\ Partial \in Contents \ {Missing}
    /\ \A c \in Contents : Whole(c) => c \in Generations
  BY SetupsAssumption DEF Generations, Contents, Missing, Partial, Whole

-----------------------------------------------------------------------------
LEMMA InitHolds == Init => KeysInv
  <1> SUFFICES ASSUME Init PROVE KeysInv
    OBVIOUS
  <1>1. TypeOK
    <2>1. keys \in [Files -> Contents]
      BY ContentFacts DEF Init
    <2>2. latest \in Generations /\ binary \in Generations /\ node \in Generations
      BY ContentFacts DEF Init
    <2>3. keeperSrc \in Contents \ {Missing}
      BY ContentFacts DEF Init
    <2>4. writing \in Files \union {"none"} /\ opened \in BOOLEAN
      BY DEF Init
    <2>5. readme \in 0 .. 3 /\ followed \in Generations
      BY ContentFacts DEF Init
    <2> QED
      BY <2>1, <2>2, <2>3, <2>4, <2>5 DEF TypeOK
  <1>2. Written /\ Carried
    BY DEF Init, Written, Carried, Files, Missing
  <1>3. Pairs
    BY DEF Init, Pairs, NotAhead, Whole, Missing, Files
  <1> QED
    BY <1>1, <1>2, <1>3, StagesArePairs DEF KeysInv

LEMMA TypeKeeps == TypeOK /\ [Next]_vars => TypeOK'
  <1> SUFFICES ASSUME TypeOK, [Next]_vars PROVE TypeOK'
    OBVIOUS
  <1> USE ContentFacts DEF TypeOK, Files
  <1>1. CASE StartSetup
    <2>1. latest' \in Generations
      BY <1>1, SetupsAssumption DEF StartSetup, Generations
    <2>2. UNCHANGED <<keys, keeperSrc, binary, node, readme, followed>>
      BY <1>1 DEF StartSetup, chain, reader
    <2>3. writing' \in Files \union {"none"} /\ opened' \in BOOLEAN
      BY <1>1 DEF StartSetup
    <2> QED
      BY <2>1, <2>2, <2>3
  <1>2. CASE OpenFile
    BY <1>2 DEF OpenFile, chain, reader
  <1>3. CASE WriteFile
    <2>1. writing' \in Files \union {"none"}
      BY <1>3 DEF WriteFile, AfterFile
    <2>2. keys' \in [Files -> Contents]
      BY <1>3 DEF WriteFile
    <2>3. readme' \in 0 .. 3 /\ followed' \in Generations
      BY <1>3 DEF WriteFile, reader
    <2> QED
      BY <1>3, <2>1, <2>2, <2>3 DEF WriteFile, chain, reader
  <1>4. CASE SetupDies
    BY <1>4 DEF SetupDies, chain, reader
  <1>5. CASE CopyKey
    BY <1>5 DEF CopyKey
  <1>6. CASE Build
    BY <1>6 DEF Build, Whole
  <1>7. CASE RestartNode
    BY <1>7 DEF RestartNode, reader
  <1>8. CASE UNCHANGED vars
    BY <1>8 DEF vars, chain, reader
  <1> QED
    BY <1>1, <1>2, <1>3, <1>4, <1>5, <1>6, <1>7, <1>8 DEF Next

LEMMA WrittenKeeps == TypeOK /\ Written /\ [Next]_vars => Written'
  <1> SUFFICES ASSUME TypeOK, Written, [Next]_vars PROVE Written'
    OBVIOUS
  <1> USE SetupsAssumption DEF TypeOK, Written, Files, Contents, Generations, Missing, Partial
  <1>1. CASE StartSetup
    BY <1>1 DEF StartSetup, chain, reader
  <1>2. CASE OpenFile
    BY <1>2 DEF OpenFile, chain, reader
  <1>3. CASE WriteFile
    BY <1>3 DEF WriteFile, AfterFile, chain, reader
  <1>4. CASE SetupDies
    BY <1>4 DEF SetupDies, chain, reader
  <1>5. CASE CopyKey
    BY <1>5 DEF CopyKey
  <1>6. CASE Build
    BY <1>6 DEF Build, Whole
  <1>7. CASE RestartNode
    BY <1>7 DEF RestartNode, reader
  <1>8. CASE UNCHANGED vars
    BY <1>8 DEF vars, chain, reader
  <1> QED
    BY <1>1, <1>2, <1>3, <1>4, <1>5, <1>6, <1>7, <1>8 DEF Next

\* A file that becomes partial is not compared with anything; one that becomes
\* whole is the newest there is, and its successors in the order are whole.
LEMMA PairsKeep == KeysInv /\ Pairs /\ [Next]_vars => Pairs'
  <1> SUFFICES ASSUME KeysInv, Pairs, [Next]_vars PROVE Pairs'
    OBVIOUS
  <1> USE SetupsAssumption
      DEF KeysInv, TypeOK, Written, Pairs, NotAhead, Whole, Files, Contents, Generations,
          Missing, Partial
  <1>1. CASE StartSetup
    BY <1>1 DEF StartSetup, chain, reader
  <1>2. CASE OpenFile
    BY <1>2 DEF OpenFile, chain, reader
  <1>3. CASE WriteFile
    BY <1>3 DEF WriteFile, AfterFile, chain, reader
  <1>4. CASE SetupDies
    BY <1>4 DEF SetupDies, chain, reader
  <1>5. CASE CopyKey
    BY <1>5 DEF CopyKey
  <1>6. CASE Build
    BY <1>6 DEF Build
  <1>7. CASE RestartNode
    BY <1>7 DEF RestartNode, reader
  <1>8. CASE UNCHANGED vars
    BY <1>8 DEF vars, chain, reader
  <1> QED
    BY <1>1, <1>2, <1>3, <1>4, <1>5, <1>6, <1>7, <1>8 DEF Next

LEMMA CarriedKeeps == TypeOK /\ Written /\ Carried /\ [Next]_vars => Carried'
  <1> SUFFICES ASSUME TypeOK, Written, Carried, [Next]_vars PROVE Carried'
    OBVIOUS
  <1> USE SetupsAssumption
      DEF TypeOK, Written, Carried, Files, Contents, Generations, Missing, Partial
  <1>1. CASE StartSetup
    BY <1>1 DEF StartSetup, chain, reader
  <1>2. CASE OpenFile
    BY <1>2 DEF OpenFile, chain, reader
  <1>3. CASE WriteFile
    BY <1>3 DEF WriteFile, AfterFile, chain, reader
  <1>4. CASE SetupDies
    BY <1>4 DEF SetupDies, chain, reader
  <1>5. CASE CopyKey
    BY <1>5 DEF CopyKey
  <1>6. CASE Build
    BY <1>6 DEF Build, Whole
  <1>7. CASE RestartNode
    BY <1>7 DEF RestartNode, reader
  <1>8. CASE UNCHANGED vars
    BY <1>8 DEF vars, chain, reader
  <1> QED
    BY <1>1, <1>2, <1>3, <1>4, <1>5, <1>6, <1>7, <1>8 DEF Next

LEMMA SpecKeysInv == Spec => []KeysInv
  <1>1. KeysInv /\ [Next]_vars => KeysInv'
    <2> SUFFICES ASSUME KeysInv, [Next]_vars PROVE KeysInv'
      OBVIOUS
    <2>1. TypeOK' /\ Written' /\ Carried'
      BY TypeKeeps, WrittenKeeps, CarriedKeeps DEF KeysInv
    <2>2. Pairs
      BY StagesArePairs DEF KeysInv
    <2>3. Pairs'
      BY <2>2, PairsKeep
    <2>4. StagesInOrder'
      BY <2>3, StagesArePairs, PTL
    <2> QED
      BY <2>1, <2>4 DEF KeysInv
  <1> QED
    BY InitHolds, <1>1, PTL DEF Spec

-----------------------------------------------------------------------------
\* The files, the binary and the node keep their shape; the node always has a
\* whole key, although every file may be found half written.
THEOREM KeysTypeCorrect == Spec => []TypeOK
  <1>1. KeysInv => TypeOK
    BY DEF KeysInv
  <1> QED
    BY SpecKeysInv, <1>1, PTL

\* No stage of the key is ever ahead of an earlier one.
THEOREM KeyStagesInOrder == Spec => []StagesInOrder
  <1>1. KeysInv => StagesInOrder
    BY DEF KeysInv
  <1> QED
    BY SpecKeysInv, <1>1, PTL

\* The README's three steps put the generation they were begun with, or a newer
\* one, into the binary, and the same one into the prover's and the verifier's
\* files unless another setup has begun, whatever is run in between
\* (README.md:180-186).  It says nothing of the running node.
THEOREM ReadmeIsSufficient == Spec => []ReadmeSuffices
  <1>1. KeysInv => ReadmeSuffices
    BY DEF KeysInv, TypeOK, Carried, ReadmeSuffices
  <1> QED
    BY SpecKeysInv, <1>1, PTL

-----------------------------------------------------------------------------
(***************************************************************************)
(* The two judges of a proof.                                              *)
(***************************************************************************)
\* Runs of the prover leave the keys alone.
LEMMA VerdictsKeepKeys == VerdictsSpec => Spec
  <1>1. VerdictsInit => Init
    BY DEF VerdictsInit
  <1>2. [VerdictsNext]_<<vars, bundle>> => [Next]_vars
    BY DEF VerdictsNext, Prove
  <1> QED
    BY <1>1, <1>2, PTL DEF VerdictsSpec, Spec

\* On a block at the midnight of the proof's day the date check passes.
LEMMA MidnightIsNear ==
    ASSUME NEW d \in Days
    PROVE  Chain(node)!DateNearBlockTime(d, Midnight(d))
  <1>1. /\ DaySeconds \in Nat \ {0} /\ SecondTicks \in Nat \ {0}
        /\ MaxDuration \in Nat /\ d \in Int
    BY DaysAssumption, ClockAssumption
  <1>2. Chain(node)!DayTicks = DaySeconds * SecondTicks /\ DaySeconds * SecondTicks \in Nat
    BY <1>1 DEF Chain!DayTicks
  <1>3. Chain(node)!Midnight(d) = Midnight(d) /\ Midnight(d) \in Int
    BY <1>1, <1>2 DEF Chain!Midnight, Midnight, DayTicks
  <1>4. Chain(node)!TimeSub(Midnight(d), Midnight(d)) = 0
    BY <1>1, <1>3 DEF Chain!TimeSub, Chain!MinDuration
  <1> QED
    BY <1>2, <1>3, <1>4 DEF Chain!DateNearBlockTime, Chain!DateTimeTolerance

\* The proof system of the instance is the one of this module.
LEMMA SameProofSystem ==
    ASSUME NEW proof, NEW public
    PROVE  Chain(node)!Verifies(proof, node, public) <=> Verifies(proof, node, public)
  <1>1. \A birth : Chain(node)!Satisfied(birth, proof.public) <=> Satisfied(birth, proof.public)
    BY DEF Chain!Satisfied, Satisfied, Chain!BirthInRange, BirthInRange,
           Chain!IsLessAllows, IsLessAllows, Chain!OldEnough, OldEnough, Chain!MMDD, MMDD,
           Chain!FitsInBits, FitsInBits, Chain!FieldSub, FieldSub,
           Chain!FieldAdd, FieldAdd, Chain!FieldMul, FieldMul
  <1>2. Chain(node)!Genuine(proof) <=> Genuine(proof)
    BY <1>1 DEF Chain!Genuine, Genuine
  <1> QED
    BY <1>2 DEF Chain!Verifies, Verifies

\* The chain's answer to a proof dated by its own day.
LEMMA ChainAccepts ==
    ASSUME TypeOK, NEW input, input.date \in Days
    PROVE  ChainCode(input) = 0
             <=> /\ input.proof # NotBase64
                 /\ input.proof # NotAProof
                 /\ Verifies(input.proof, node,
                             Chain(node)!BuildPublicWitness(Calendar[input.date], 18))
  <1> DEFINE msg == [creator |-> BadAddress, proof |-> input.proof,
                     witness |-> "matching", date |-> input.date]
             public == Chain(node)!BuildPublicWitness(Calendar[input.date], 18)
  <1>1. msg.proof = input.proof /\ msg.date = input.date /\ msg.date # BadDate
    BY BadDateAssumption
  <1>2. Chain(node)!DateNearBlockTime(msg.date, Midnight(input.date))
    BY MidnightIsNear
  <1>3. ~Chain(node)!LoadVerificationKeyFails
    BY KeysAreGenerations DEF TypeOK, Chain!LoadVerificationKeyFails
  <1>4. Chain(node)!VerifyAgeProofFails(msg.proof, public)
          <=> input.proof = NotAProof \/ ~Verifies(input.proof, node, public)
    BY <1>1, SameProofSystem DEF Chain!VerifyAgeProofFails, Chain!NotAProof, NotAProof
  <1>5. Chain(node)!SubmitCode(msg, Midnight(input.date)) = 0
          <=> msg.proof # NotBase64 /\ ~Chain(node)!VerifyAgeProofFails(msg.proof, public)
    BY <1>1, <1>2, <1>3
    DEF Chain!SubmitCode, Chain!RequiredMinAge, Chain!NotBase64, NotBase64, Chain!OK,
        Chain!ErrInvalidProof, Chain!ErrDateMismatch, Chain!ErrProofVerificationFailed
  <1> QED
    BY <1>1, <1>4, <1>5 DEF ChainCode

\* The verifier's answer to JSON whose witness is a vector of public inputs.
LEMMA VerifierPasses ==
    ASSUME NEW input, NEW vkFile, input.json,
           input.witness # NotBase64, input.witness # NotAProof
    PROVE  VerifyExit(input, vkFile) = "passed"
             <=> /\ input.proof # NotBase64
                 /\ vkFile # Missing /\ vkFile # Partial
                 /\ input.proof # NotAProof
                 /\ Verifies(input.proof, vkFile, input.witness)
  BY DEF VerifyExit, Rejected

\* A vector of public inputs is no text and no bytes.
LEMMA WitnessIsInputs ==
    ASSUME NEW date, NEW minAge
    PROVE  /\ Chain(node)!BuildPublicWitness(date, minAge) # NotBase64
           /\ Chain(node)!BuildPublicWitness(date, minAge) # NotAProof
  <1> DEFINE public == Chain(node)!BuildPublicWitness(date, minAge)
  <1>1. "year" \in DOMAIN public
    BY DEF Chain!BuildPublicWitness
  <1>2. "year" \notin DOMAIN NotBase64 /\ "year" \notin DOMAIN NotAProof
    BY DEF NotBase64, NotAProof
  <1> QED
    BY <1>1, <1>2

\* VerdictsAgree: OffchainMatchesChain, for any keys, days and people: the
\* off-chain verifier and the chain can only differ because of their keys.
THEOREM VerdictsAgree == VerdictsSpec => []OffchainMatchesChain
  <1>1. TypeOK => OffchainMatchesChain
    <2> SUFFICES ASSUME TypeOK, NEW input \in Piped, input.json, WitnessOfChain(input)
                 PROVE  LET passed   == VerifyExit(input, keys["vk"]) = "passed"
                            accepted == ChainCode(input) = 0
                        IN  IF keys["vk"] = node THEN passed <=> accepted
                                                 ELSE ~(passed /\ accepted)
      BY DEF OffchainMatchesChain
    <2> DEFINE passed   == VerifyExit(input, keys["vk"]) = "passed"
               accepted == ChainCode(input) = 0
               public   == Chain(node)!BuildPublicWitness(Calendar[input.date], 18)
    <2>1. input.date \in Days
      BY DEF Piped
    <2>2. input.witness = public /\ public # NotBase64 /\ public # NotAProof
      BY WitnessIsInputs DEF WitnessOfChain
    <2>3. passed <=> /\ input.proof # NotBase64
                     /\ keys["vk"] # Missing /\ keys["vk"] # Partial
                     /\ input.proof # NotAProof
                     /\ Verifies(input.proof, keys["vk"], public)
      BY <2>2, VerifierPasses
    <2>4. accepted <=> /\ input.proof # NotBase64
                       /\ input.proof # NotAProof
                       /\ Verifies(input.proof, node, public)
      BY <2>1, ChainAccepts
    <2>5. node # Missing /\ node # Partial
      BY SetupsAssumption DEF TypeOK, Generations, Missing, Partial
    <2>6. Verifies(input.proof, keys["vk"], public) /\ Verifies(input.proof, node, public)
            => keys["vk"] = node
      BY DEF Verifies
    <2> HIDE DEF passed, accepted, public
    <2>7. IF keys["vk"] = node THEN passed <=> accepted ELSE ~(passed /\ accepted)
      BY <2>3, <2>4, <2>5, <2>6
    <2> QED
      BY <2>7 DEF passed, accepted
  <1> QED
    BY <1>1, VerdictsKeepKeys, KeysTypeCorrect, PTL

=============================================================================
