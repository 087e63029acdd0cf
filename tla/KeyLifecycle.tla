---------------------------- MODULE KeyLifecycle ----------------------------
(***************************************************************************)
(* The generations of Groth16 keys, from zk/setup to the running node.     *)
(*                                                                         *)
(* zk/setup/main.go writes four files into zk/keys, one after the other    *)
(* and each in place.  The prover reads one of them, the off-chain         *)
(* verifier another, and the fourth, a Go source, reaches the chain by     *)
(* hand: cp into the keeper's package, go build, and a restart of the      *)
(* node.  Any of these may happen at any time, and setup may die between   *)
(* two of its writes.                                                      *)
(*                                                                         *)
(* The README lists setup, cp and go build.  Somebody follows it while     *)
(* others run whatever they like in between.                               *)
(*                                                                         *)
(* A key pair is the number of the run of setup that made it; generation 0 *)
(* is the one whose Go source is committed to the repository.              *)
(***************************************************************************)
EXTENDS Integers

CONSTANT MaxSetups    \* bound on the runs of setup

ASSUME SetupsAssumption == MaxSetups \in Nat

Generations == 0 .. MaxSetups

\* A file that does not exist, and one that holds a part of a key.
Missing == -2
Partial == -1
Contents == Generations \union {Missing, Partial}
Whole(content) == content >= 0

VARIABLES
    keys,        \* the files of zk/keys
    latest,      \* the generation made last
    writing,     \* the file the running setup is at, "none" if none runs
    opened,      \* os.Create has truncated that file
    keeperSrc,   \* chain/x/ageverify/keeper/vk_embedded.go
    binary,      \* the VKBytes of the installed ageverifyd
    node,        \* the VKBytes of the running process
    readme,      \* how many of the README's three steps have been followed
    followed     \* the generation they were begun with

chain  == <<keeperSrc, binary, node>>
reader == <<readme, followed>>
vars   == <<keys, latest, writing, opened, chain, reader>>

Files == {"r1cs", "pk", "vk", "src"}

\* zk/keys is not under version control, vk_embedded.go in the keeper is.
Init ==
    /\ keys = [file \in Files |-> Missing]
    /\ latest = 0
    /\ writing = "none"
    /\ opened = FALSE
    /\ keeperSrc = 0 /\ binary = 0 /\ node = 0
    /\ readme = 0 /\ followed = 0

-----------------------------------------------------------------------------
\* Compile, groth16.Setup and MkdirAll; the files are still the old ones.
StartSetup ==
    /\ writing = "none"
    /\ latest < MaxSetups
    /\ latest' = latest + 1
    /\ writing' = "r1cs"
    /\ opened' = FALSE
    /\ UNCHANGED <<keys, chain, reader>>

\* Slips: the Go source is written before the keys, or the verification key is
\* left as it is.
AfterFileSourceFirst(file) ==
    CASE file = "r1cs" -> "src"
      [] file = "src"  -> "pk"
      [] file = "pk"   -> "vk"
      [] file = "vk"   -> "none"
AfterFileNoVK(file) ==
    CASE file = "r1cs" -> "pk"
      [] file = "pk"   -> "src"
      [] file = "src"  -> "none"
      [] file = "vk"   -> "none"

\* The order of the writes.
AfterFile(file) ==
    CASE file = "r1cs" -> "pk"
      [] file = "pk"   -> "vk"
      [] file = "vk"   -> "src"
      [] file = "src"  -> "none"

OpenFile ==
    /\ writing # "none" /\ ~opened
    /\ keys' = [keys EXCEPT ![writing] = Partial]
    /\ opened' = TRUE
    /\ UNCHANGED <<latest, writing, chain, reader>>

\* A run that ends may be the one that the reader of the README has started.
WriteFile ==
    /\ writing # "none" /\ opened
    /\ keys' = [keys EXCEPT ![writing] = latest]
    /\ writing' = AfterFile(writing)
    /\ opened' = FALSE
    /\ \/ UNCHANGED reader
       \/ writing' = "none" /\ readme' = 1 /\ followed' = latest
    /\ UNCHANGED <<latest, chain>>

\* A write fails and setup exits, or it is interrupted: nothing is undone.
SetupDies ==
    /\ writing # "none"
    /\ writing' = "none"
    /\ opened' = FALSE
    /\ UNCHANGED <<keys, latest, chain, reader>>

\* cp zk/keys/vk_embedded.go chain/x/ageverify/keeper/
CopyKey ==
    /\ keys["src"] # Missing
    /\ keeperSrc' = keys["src"]
    /\ readme' = IF readme = 1 THEN 2 ELSE readme
    /\ UNCHANGED <<keys, latest, writing, opened, binary, node, followed>>

\* A slip: whatever is in the source tree ends up in the binary.
BuildAnything ==
    /\ binary' = keeperSrc
    /\ readme' = IF readme = 2 THEN 3 ELSE readme
    /\ UNCHANGED <<keys, latest, writing, opened, keeperSrc, node, followed>>

\* go build: a source that stops within its byte literal does not compile.
Build ==
    /\ Whole(keeperSrc)
    /\ binary' = keeperSrc
    /\ readme' = IF readme = 2 THEN 3 ELSE readme
    /\ UNCHANGED <<keys, latest, writing, opened, keeperSrc, node, followed>>

\* The process keeps the VKBytes it was started with; the README has no such
\* step.
RestartNode ==
    /\ node' = binary
    /\ UNCHANGED <<keys, latest, writing, opened, keeperSrc, binary, reader>>

Next ==
    \/ StartSetup
    \/ OpenFile
    \/ WriteFile
    \/ SetupDies
    \/ CopyKey
    \/ Build
    \/ RestartNode

Spec == Init /\ [][Next]_vars

-----------------------------------------------------------------------------
\* Type invariant: the node never runs without a whole key.
TypeOK ==
    /\ keys \in [Files -> Contents]
    /\ latest \in Generations
    /\ writing \in Files \union {"none"}
    /\ opened \in BOOLEAN
    /\ keeperSrc \in Contents \ {Missing}
    /\ binary \in Generations
    /\ node \in Generations
    /\ readme \in 0 .. 3
    /\ followed \in Generations

\* StagesInOrder: whichever of setup, its crashes, cp, build and restart are
\* interleaved, no stage ever holds a key that is newer than an earlier stage:
\* a node may be behind the prover and the off-chain verifier, never ahead of
\* them (zk/setup/main.go:44-63, README.md:180-186).
NotAhead(later, earlier) == Whole(later) /\ Whole(earlier) => later <= earlier

Stages == <<node, binary, keeperSrc, keys["src"], keys["vk"], keys["pk"]>>
StagesInOrder ==
    \A i, j \in 1 .. 6 : i < j => NotAhead(Stages[i], Stages[j])

\* ReadmeSuffices: after the README's three commands, a setup that ran to its
\* end, cp and go build, with restarts and with whole and dying setups, copies
\* and builds of others in between, the binary has the generation they were
\* begun with or a newer one, and the prover and the off-chain verifier have
\* the same one unless somebody has begun another setup (README.md:180-186,
\* zk/setup/main.go:44-63).
ReadmeSuffices ==
    readme = 3 =>
      /\ binary >= followed
      /\ latest = followed =>
           /\ keys["pk"] = followed
           /\ keys["vk"] = followed
           /\ binary = followed

-----------------------------------------------------------------------------
(***************************************************************************)
(* A claim of the README that the code does not keep.                      *)
(***************************************************************************)
\* ReadmeReachesTheNode: "To regenerate it from scratch", it being the chain's
\* verification key: when the three commands have been run, and nobody has run
\* setup since, the node checks proofs with the key of the new proving key
\* (README.md:180-186).
ReadmeReachesTheNode ==
    readme = 3 /\ latest = followed => node = keys["pk"]

=============================================================================
