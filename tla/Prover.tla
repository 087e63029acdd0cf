------------------------------- MODULE Prover -------------------------------
(***************************************************************************)
(* One run of the command line prover, zk/prover/main.go: flags, the       *)
(* current date, the proving key, the proof and the JSON it prints.  Every *)
(* failure ends the process with exit status 1 and no output.              *)
(***************************************************************************)
EXTENDS Groth16, DateText

CONSTANTS
    BirthFlags,      \* values of --year, --month, --day, 0 when not given
    MinAgeFlags,     \* values of --min-age
    OverrideFlags,   \* values of --current-year/-month/-day, 0 when not given
    Todays,          \* local dates that time.Now() may return
    KeyFiles         \* what zk/keys/proving.key may hold

ASSUME KeyFilesAssumption == KeyFiles \subseteq Keys \union {"missing", "corrupt"}

\* The flags are Go ints and so far from the field's order, a number of 254
\* bits, on both sides; of them the ones with up to MaxDigits digits.
Reach == FieldOrder - 12000
IsSmall(n) == n \in Numbers /\ n \in -Reach .. Reach
SmallDate(date) ==
    /\ date \in [year : Int, month : Int, day : Int]
    /\ IsSmall(date.year) /\ IsSmall(date.month) /\ IsSmall(date.day)

ASSUME FlagsAssumption ==
    /\ \A date \in BirthFlags \union OverrideFlags \union Todays : SmallDate(date)
    /\ \A minAge \in MinAgeFlags : IsSmall(minAge)

VARIABLES
    pc,        \* the step main is at, or how the process ended
    flags,     \* the parsed flags: birth, minAge and override
    today,     \* the local date when time.Now() is called
    keyFile,   \* the content of the proving key's file
    current,   \* the current date the proof is for
    output     \* the JSON printed on stdout, or NoOutput

vars == <<pc, flags, today, keyFile, current, output>>

NoDateYet == [year |-> 0, month |-> 0, day |-> 0]
NoOutput  == [proof |-> NotAProof, date |-> <<>>]

\* An int given to gnark becomes a field element, negative ones too.
Element(x) == x % FieldOrder

\* The two halves of the assignment given to the circuit.
PrivateInputs ==
    [ year  |-> Element(flags.birth.year),
      month |-> Element(flags.birth.month),
      day   |-> Element(flags.birth.day) ]

PublicWitness ==
    [ year   |-> Element(current.year),
      month  |-> Element(current.month),
      day    |-> Element(current.day),
      minAge |-> Element(flags.minAge) ]

Init ==
    /\ pc = "flags"
    /\ flags \in [birth : BirthFlags, minAge : MinAgeFlags, override : OverrideFlags]
    /\ today \in Todays
    /\ keyFile \in KeyFiles
    /\ current = NoDateYet
    /\ output = NoOutput

-----------------------------------------------------------------------------
BirthMissing ==
    flags.birth.year = 0 \/ flags.birth.month = 0 \/ flags.birth.day = 0

ExitUsage ==
    /\ pc = "flags" /\ BirthMissing
    /\ pc' = "exitUsage"
    /\ UNCHANGED <<flags, today, keyFile, current, output>>

\* Today, with each part replaced by its own flag when that is given.
Override(flag, default) == IF flag # 0 THEN flag ELSE default

ChooseDate ==
    /\ pc = "flags" /\ ~BirthMissing
    /\ current' = [ year  |-> Override(flags.override.year, today.year),
                    month |-> Override(flags.override.month, today.month),
                    day   |-> Override(flags.override.day, today.day) ]
    /\ pc' = "key"
    /\ UNCHANGED <<flags, today, keyFile, output>>

\* The circuit is compiled, the witness built and the proving key read.
LoadKey ==
    /\ pc = "key" /\ keyFile \in Keys
    /\ pc' = "prove"
    /\ UNCHANGED <<flags, today, keyFile, current, output>>

ExitKey ==
    /\ pc = "key" /\ keyFile \notin Keys
    /\ pc' = "exitKey"
    /\ UNCHANGED <<flags, today, keyFile, current, output>>

\* groth16.Prove fails when no assignment of the wires solves the circuit.
ExitUnsatisfied ==
    /\ pc = "prove" /\ ~Satisfied(PrivateInputs, PublicWitness)
    /\ pc' = "exitUnsatisfied"
    /\ UNCHANGED <<flags, today, keyFile, current, output>>

ProveAndPrint ==
    /\ pc = "prove" /\ Satisfied(PrivateInputs, PublicWitness)
    /\ output' = [ proof |-> ProofOf(keyFile, PublicWitness),
                   date  |-> SprintfDate(current) ]
    /\ pc' = "printed"
    /\ UNCHANGED <<flags, today, keyFile, current>>

Next ==
    ExitUsage \/ ChooseDate \/ LoadKey \/ ExitKey \/ ExitUnsatisfied \/ ProveAndPrint

Spec == Init /\ [][Next]_vars

-----------------------------------------------------------------------------
(***************************************************************************)
(* Properties.  The age is the one of module AgeReference, computed from   *)
(* the integers the user typed: none of them mentions the circuit.         *)
(***************************************************************************)
\* Type invariant: the steps of main and what each variable holds.
TypeOK ==
    /\ pc \in {"flags", "key", "prove", "printed",
               "exitUsage", "exitKey", "exitUnsatisfied"}
    /\ current \in [year : Int, month : Int, day : Int]
    /\ output \in [proof : Proofs, date : Seq(0 .. Minus)]

\* ProofMeansOldEnough: a printed proof for a day that exists means the birth
\* date typed is at least min-age years back on that day, also for months and
\* days that no calendar has (age_circuit.go:36-40, docs/limitations.md #6).
ProofMeansOldEnough ==
    pc = "printed" /\ IsRealDate(current)
      => AgeOn(flags.birth, current) >= flags.minAge

\* OldEnoughIsNotRefused: for a real birth date and a real day, an adult up
\* to 255 years past min-age is never refused by the constraints
\* (age_circuit.go:115-122, prover/main.go:112-119).
OldEnoughIsNotRefused ==
    pc = "exitUnsatisfied" /\ IsRealDate(current) /\ IsRealDate(flags.birth)
      /\ flags.birth.year \in 1900 .. 2155
      => AgeOn(flags.birth, current) \notin flags.minAge .. flags.minAge + 255

\* PrintedDateIsTheProvedOne: the chain reads the printed date back as the
\* date in the witness, or not at all (prover/main.go:142-144).
PrintedDateIsTheProvedOne ==
    pc = "printed" =>
      ParseDate(output.date) = IF IsRealDate(current) THEN current ELSE BadDate

=============================================================================
