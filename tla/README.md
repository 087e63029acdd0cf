# Verification of zk-age-verify

TLA+ modules, TLC configurations and TLAPS proofs for the age verification
system in `src/`: a gnark circuit that proves "I am at least N years old on
date D" without the birth date, a command line prover, and a Cosmos SDK chain
that verifies such proofs and records the addresses that sent them.

Contents: [system](#the-system), [modules](#modules),
[runs](#what-the-runs-check), [proofs](#what-is-proved),
[findings](#findings), [limits](#what-is-not-modelled), [plan](#plan).

## The system

| Part | State | Operations | Talks to |
|---|---|---|---|
| Circuit, `zk/circuit` | none | `Define`: range checks, MMDD comparison, age window | compiled by prover and setup, imported by the keeper for its inputs |
| Setup, `zk/setup` | key files, Go source | writes circuit, proving key, verification key, `vk_embedded.go` | prover (proving key), chain build (embedded key) |
| Prover, `zk/prover` | none beyond one run | flags, local date, overrides, key, proof, JSON | client reads its stdout |
| Off-chain verifier, `zk/verify` | none | checks a proof file | prover's JSON, key file |
| Keeper, `chain/x/ageverify` | `verified/<address>` timestamps, `initialized` marker | `SubmitAgeProof`, `VerificationStatus`, genesis | called by baseapp with a context and a block time |
| Application, `chain/app`, `chain/cmd` | versioned multistore | `InitChainer`, load, deliver, commit, export | CometBFT on one side, modules on the other |
| Messages, `types/*.pb.go` | none beyond one call | `Marshal`, `Size`, `Unmarshal`, `skip` | bytes between clients and nodes |
| Client, `demo/`, `scripts/`, `client/cli` | none | init chain, prove, broadcast, poll, query | prover process, node RPC |

What is hard in each part, and so what its properties are about:

* **Circuit.** Everything is a field element: an age below the minimum is a
  huge number, an out-of-range month a large code. Only the chosen bit widths
  make the constraints say what they mean, and the comparator's indicator comes
  from an unconstrained hint. Correct means: satisfied exactly when the age,
  defined on the calendar, is in the window.
* **Prover.** The date in the witness, the date in the printed text and the
  date the chain parses must be one date, also when only part of it is
  overridden.
* **Keeper.** The date check is done with Go durations, which saturate in `Sub`
  and wrap in the negation; a date is a midnight and a block time is not. Correct
  means: a record has an adult behind it, and honest proofs are not refused.
* **Application.** Messages run on branches that are dropped when one fails;
  blocks are replayed after crashes; genesis is repeated until a first commit;
  an empty IAVL store cannot be queried. Correct means: the committed records
  are those of successful transactions, each as a whole, and only move forward.
* **Messages.** Lengths come from outside, become signed and are added to an
  index; unknown fields may be groups within groups. Correct means: the index
  stays in the buffer and moves forward on any bytes, and what is marshalled is
  read back.
* **Setup and keys.** Four files are written one after another in place, read
  by three programs, and one of them travels to the node by hand. Correct means:
  a node is never ahead of the prover, and the documented commands bring the key they
  made, or a newer one, into the binary, whoever else runs setup meanwhile.
* **Off-chain verifier.** It reads its own copy of the key and the prover's own
  public inputs, the node an embedded key and inputs it rebuilds. Correct means:
  they agree when they have one key.
* **Client.** It decides on timeouts, fixed waits and failed queries, against a
  node that may crash, and learns results from an index that is filled behind the
  chain. Correct means: what it claims in the end is on chain, what it has read stays
  true, and it always ends.

`PROJECT.json` lists every component and, under `hazards`, each of these
difficulties at its line with the properties about it.

## Modules

```
AgeReference ── DateText ─────────────┐
     │                                Prover ── MCProver
     │          AgeCircuit ─ Groth16 ─┤
     │               │                │
CivilTime ───────────┼─ AgeVerifyKeeper ── AgeVerifyApp ─┬─ MCAgeVerifyApp
     │               │           │            │ implements└─ Client ── MCClient
     └─ AgeRegistry ◄┼───────────┼────────────┘
                     │           │
     KeyLifecycle ── KeyVerdicts ┘── MCKeyVerdicts
     Marshal, Unmarshal ── WireFormat ── MCUnmarshal

Proofs: AgeCircuitProofs ─┬─ AgeVerifyAppProofs ── AgeRegistryProofs ── ClientProofs
                          └─ ProverProofs
        UnmarshalProofs ── MarshalProofs, KeyLifecycleProofs
```

**AgeReference** defines civil dates and age in full years, with no codes or bits.
It models no code: it is what the others are compared with.

**AgeCircuit** is `age_circuit.go`. Subtraction and addition are modular in a
field of order `FieldOrder`; `ToBinary(x, n)` becomes "x is less than 2^n", which
is when the decomposition exists; the comparator is a choice of an indicator and
the bit check that the indicator selects. `Satisfied` quantifies over the
indicator, as a proof only shows that some assignment of the wires exists.

**Groth16** idealises gnark: a proof object carries its key pair and its public
inputs, and verifies exactly under those, and only if some birth date in
`Births` satisfies the circuit. `Births` are the dates people *type*: nothing
binds them to a document (`docs/limitations.md` #1), so "adult" below always
means "for some claimed birth date". Forging with the setup's trapdoor
(`docs/limitations.md` #2) is outside the model.

**CivilTime** has the two clocks. Block time counts ticks; a second has
`SecondTicks` ticks because RFC3339 timestamps drop the fraction; days are
numbered from genesis and `Calendar` gives their dates. `TimeSub` saturates and
`Negated` wraps at `MaxDuration`, as `int64` nanoseconds do at 2^63 - 1. The only
assumption linking the two is that a day beyond `MaxDuration` is at least 292
years ahead, which is what 2^63 nanoseconds are.

**AgeVerifyKeeper** is the module `x/ageverify`. `SubmitCode` is the handler up
to step 5, with its early returns in order; `SubmitStore` and `AgeVerifiedEvent`
are steps 6 and 7. Values the handler ignores (`public_witness`) are still in the
message. A proof is one of: text that is not base64, bytes that are no proof, or a
proof object. Error 1101 has no case: `BuildPublicWitness` cannot fail on the
integers it is given.

**AgeVerifyApp** is the node. Its variables and what they stand for:

| Variable | In the program |
|---|---|
| `mempool` | CometBFT's mempool, lost in a crash |
| `block` | the decided block; CometBFT stores it before the application runs it |
| `results` | codes of the transactions of that block that have run |
| `branch` | the cached context baseapp runs a transaction's messages on |
| `deliver` | baseapp's finalize-block state and the events of the block |
| `committed`, `versioned` | the last version of the stores on disk |
| `genesis` | the module's section of `genesis.json` |
| `booted`, `lastTime` | process state, last block time |

One action per operation: `InitChain`, `Restart`, `CheckTx`, `DecideBlock`,
`MsgFails`, `MsgPasses`, `TxPasses`, `Commit`, `Crash`, `ExportImport`. `CheckTx`
runs `ValidateBasic` only, because `NewApp` sets no ante handler. The consensus
engine and baseapp are libraries; they are modelled by how the application uses
them: first-in-first-out blocks, block times that strictly increase, one branch
per transaction, replay of a decided block. The events of a block are in `deliver` while
it runs; indexing them is no part of `Commit` and belongs to `Client`.

**AgeRegistry** is the abstract specification: a map from addresses to
timestamps and a clock. One step records a set of addresses at one instant, and a
nonempty set needs an adult around that instant. `AgeVerifyApp` implements it with
`registry <- committed.ageverify.verified` and `now <- lastTime`.

**DateText** is `Sprintf("%04d%02d%02d")` and `time.Parse("20060102")` on sequences of
digits, for numbers of up to nine digits (`MaxDigits`). **Prover** is one run of
`zk/prover/main.go`, an action for each exit and each step with an outcome. Its flags
are Go ints, so they are small against the field (`FlagsAssumption`: up to nine digits,
and at least 12000 away from the field's order on both sides).

**Unmarshal** is the decoder protoc generates, as the loop it is. The code repeats one
pattern some twenty times: a varint is read byte by byte, then its value is acted on.
Here one action, `ReadByte`, is the round of every such loop, and `pc` says which
loop it is: `tag`, `length` and `value` in `Unmarshal`, `skipTag`, `skipVarint` and
`skipLength` in `skipTx` and `skipQuery`. In a skip the index counts from the unknown
field, as the code passes the slice `dAtA[preIndex:]`; `base` is that offset. `ToInt`
and `Plus` wrap as `int` does. The four messages differ in `Cases` only, and a file's
copy of the loop is mapped by whichever definition it shows best: `tx.pb.go` and
`query.pb.go` are the same text but for names. **Marshal** is the encoder: `Size`, then
fields from the last to the first into a buffer of that size.

**WireFormat** models no code either: it says what bytes mean, without an order of reading
or writing. A document is a sequence of tokens, a tag with what its wire type asks for,
where a group is the tokens between one that opens it and one that closes it; `Meaning` is
the message its last tokens for each field make. The decoder and the encoder are each
compared with it. `ExpectAssumption` is what the calls of `Inputs` are known to have been
given: a marshalled message, a document, a prefix of one, or anything; TLC evaluates it on
every input of the run.

**KeyLifecycle** has a key pair as the number of the run of setup that made it.

| Variable | In the program |
|---|---|
| `keys` | `zk/keys/{circuit.r1cs, proving.key, verification.key, vk_embedded.go}`: missing, partial or of a generation |
| `writing`, `opened`, `latest` | where the running setup is |
| `keeperSrc`, `binary`, `node` | the copied source, the compiled binary, the running process |
| `readme`, `followed` | history: how many of the README's three commands for new keys have been run in order, and the generation they were begun with |

`OpenFile` truncates, `WriteFile` completes, `SetupDies` leaves things as they are. A Go
source that ends within its byte literal does not compile, which is `Build`'s guard.
`RestartNode` may happen at any time and is none of the README's commands. Any setup that
ends may be the one the README's reader has run, or somebody else's.

**KeyVerdicts** adds the prover and the two that judge. `VerifyExit` is
`zk/verify/main.go` with its exits in order; the chain is module `AgeVerifyKeeper`
instantiated with `VKBytes <- node`.

**Client** composes the node with one of three programs, each a list of steps: connect,
ask, prove, submit, wait (`wait_for_tx`) or look (the fixed sleep of `demo.sh`). `clock`
is the time both live in: block times are not after it, the prover takes its local date
(`offset` is the time zone), `left` is what remains of a timeout. The node's actions are
those of `AgeVerifyApp`. CometBFT fills the transaction index that `/tx` reads behind the
chain: `CommitAndPublish` puts a block's results on their way (`publishing`, in memory),
`IndexBlock` writes the oldest block's into `index`, and `CrashNode` loses those between;
a committed block is not executed again, so they are lost for good. A transaction's hash is its content, as the contents a program sends are
distinct. `demo.sh` sends its fake in the name of `bob` if he exists; here it is the
same account, as when he does not. `LocalDatesAssumption` and `ProgramTxsAssumption` say
that the instance's calendar has every local date of the run, none of them the 2035 of
the negative demo, and that the node may be sent what the programs can make. Getting an unparsable answer to a broadcast and
getting none are one exit. `CheckTx` is always granted to a running node, as in the code.

Definitions introduced by a comment "a slip", "might choose", "the design ... records
as fixed" or "without the marker" are deliberate mistakes: each replaces one
definition to show that a property notices.

## What the runs check

The runs of the node alone use day 0 = 2026-02-27, days of two seconds of two ticks, and
durations that overflow at 2000 ticks; one day, number 1000 (2330-01-01), lies
beyond. Two people turn 18 on day 2, 2026-03-01, one of them born on 29 February,
and a third is a child. So there are blocks before, at and after the first instant
at which a record is legitimate, and nobody else makes the property hold vacuously.

| Run | Bounds | Shows |
|---|---|---|
| `outcomes` | 1 address, 12 kinds of message, one transaction of two, blocks of 1, times to 11, exports, unbounded crashes | `TypeOK`; `EveryRecordHasAnAdult`; `TodaysProofIsAccepted`; `DecidedBlocksCommit` |
| `atomicity` | 2 addresses, 6 transactions of 1 or 2 messages, blocks of 2, times to 8 | `BlockEffectIsItsSuccesses`; `QueriesServable`; `ImplementsRegistry` |
| `prover` | 120 birth dates, 8 overrides, 5 dates of today, 4 minimum ages | `TypeOK`; `ProofMeansOldEnough`; `OldEnoughIsNotRefused`; `PrintedDateIsTheProvedOne` |
| `codec` | 77 messages, 284 sequences of one or two items, whole and cut, all strings of up to 4 bytes over 10 byte values | `RoundTrip`; `WholeItemsAreRead`; `WithinBuffer`; `RoundsAdvance`; `Terminates` |
| `keys` | 2 setups, 2 days, 2 people | `TypeOK`; `StagesInOrder`; `ReadmeSuffices`; `OffchainMatchesChain` |
| `client` | 3 programs, 3 key files, 2 time zones, days of 6 ticks, waits of 2 and 1, times to 7 | `CompletionIsTrue`; `ResultsAreFinal`; `OnlyLatenessRefusesAdults`; `ClientEnds` |

* `EveryRecordHasAnAdult`: whatever is sent (proofs for minimum age 0, other dates,
  other keys, corrupted bytes), a record means some claimed birth date was 18 years
  back on a day that begins within 24 hours of its block.
* `TodaysProofIsAccepted`: a transaction of honest proofs of the block's own day, for
  birth dates since 1900, succeeds. It fails as soon as the tolerance is below a day: the hour that
  `docs/limitations.md` #4 proposes would refuse honest users most of the day.
* `BlockEffectIsItsSuccesses`: at every moment of a block's execution its state is
  the committed one changed by exactly its successful transactions.
* `QueriesServable`: no committed version has an empty store.
* `ImplementsRegistry`: the refinement; it also gives that timestamps never move back.
* `DecidedBlocksCommit`: assumes weak fairness of booting and of block execution.
  The code justifies both: a supervisor or operator restarts the process, and
  baseapp runs every message of a block in a loop without waiting for anything.
  Crashes may go on forever, so the property is about runs in which they stop.
  Nothing is assumed of clients, of consensus or of time.
* `RoundTrip`, `WholeItemsAreRead`: decoding inverts encoding, and on any sequence of
  whole items, of known fields and of a newer version's, it gives the message that
  the last item of each field says; bytes cut within an item are refused.
* `WithinBuffer`, `RoundsAdvance`, `Terminates`: on arbitrary bytes. `Terminates`
  assumes that the goroutine of the call runs.
* `StagesInOrder`: proving key, verification key, Go source, keeper source, binary and
  node never get ahead of each other. It rests on the order of writes in setup: with
  the Go source first, a setup that dies leaves a node with a key no prover has.
* `ReadmeSuffices`: after the README's setup, cp and go build, in this order, the binary
  has the generation they were begun with or a newer one, although others may copy, build,
  and run setups that die, in between; and prover and verifier have the same one unless
  another setup has begun. It says nothing of the running node: run `old_key` shows that
  the README's commands do not reach it.
* `OffchainMatchesChain`: on everything that may come out of the pipe, the verifier's
  "passed" for the chain's public inputs and the chain's code 0 coincide while both
  have one key, and exclude each other otherwise.
* `CompletionIsTrue`: COMPLETE means that every transaction sent is in a block with the
  claimed result, that the record is there exactly if one was to be accepted, and that
  the prover had a key, so that its refusals were about the age. Every failed query,
  timeout, missing key and lost transaction or result on the way leads elsewhere.
* `ResultsAreFinal`: one result per transaction in the index, although blocks are
  executed again after crashes, and with every result 0 a record that is no older and
  that stays. It rests on results being published after the commit.
* `OnlyLatenessRefusesAdults`: an adult's refusal has one cause, a block more than 24
  hours from the midnight of the proof's date.
* `ClientEnds`: assumes that the program's process runs and that time passes
  (`WF` of `ClientStep` and of `Tick`), and nothing of the node, which may crash, stay
  down or decide no block. Timeouts are what makes it hold.

Why the bounds are enough. The handler treats messages one at a time and its
checks depend on one date and one time, so one message per outcome and all times
around the boundary cover it. Atomicity needs a failing message before and after a
succeeding one, two transactions in a block and two addresses. In the prover each
birth date, override and date lies on or next to a boundary of the circuit: 1900,
2155, month 16, day 32, 29 February, 1 January and 31 December. `FieldOrder` is the
prime 32749, larger than any value that does not wrap; the theorem below removes
the bound. `CHECK_DEADLOCK FALSE` is set for the prover and the decoder, a process and a
call that end.

The decoder's words have 15 bits instead of 64: a varint of three bytes then fills a
word with one bit to spare, as one of ten bytes does in Go, so negative lengths, sums
that wrap and overlong varints are a few bytes long; the theorems have no such bound.
Strings of 127 and 130 bytes lie on both sides of a two-byte length. Two setups
give three generations, one more than any two stages can distinguish between; the
theorems hold for any number. The demo programs start two ticks before midnight UTC of a
six-tick day, so proving, inclusion and timeouts fall on both sides of it.

The bounds `MaxTime`, `MaxMempool` and `MaxBlockTxs` stand in guards of `CheckTx` and
`Next`, `MaxSetups` in `StartSetup`, `MaxClock` in `Tick`; the code has none of that
size. At `MaxClock` the clock stops and waits still run down, so that no program
hangs, or ends, because of the bound.

## What is proved

All theorems hold for all values of the constants that satisfy the assumptions named
in the modules; what a theorem assumes beyond them is in its statement.

**The circuit** (`AgeCircuitProofs`). `SatisfiedExactly`: for a field order above 20000 and
a minimum age that is a small integer, also a negative one, `Satisfied` holds exactly when
the birth date is in the bit ranges and its age, by the reference, is between `minAge` and
`minAge + 255`. No product reduces, so MMDD codes are integers (`MMDDValue`); codes order
as month and day do because a day is below 100 (`CodeOrder`); both sides of the comparator
are below 2048, so one indicator survives (`IndicatorUnique`); and the chain of
subtractions is in the window or wraps beyond it (`AgeElement`, `WindowOfElements`).
"Small" is 12000 away from the field's order, so that no difference of an age, which is
below 10000, and a minimum comes round the field into the window. `CircuitCorrect`
is the same for the minimum ages up to 1000.

**The prover** (`ProverProofs`), for any flags, dates and key files:

* `PrintedDateIsRead`: printing and parsing are inverse on every day from year 0 to year
  9999, and the parser refuses every other text the prover prints. A number below 10^w
  has w digits, which sum up to it (`Width` and the decimal lemmas); a number that is
  longer, or negative, makes a text of the wrong length, with a sign, or of no real day.
* `TypeCorrect`, `PrintedDateCorrect` (`PrintedDateIsTheProvedOne`), `PrintedProofIsOfAge`
  (`ProofMeansOldEnough`) and `AdultsAreNotRefused` (`OldEnoughIsNotRefused`) follow from one
  inductive invariant, `RunInvariant`: what each way to end says about key, constraints
  and output. The circuit enters through `SatisfiedExactly`; a negative flag becomes an
  element near the field's order, which the range checks refuse (`BirthInTheField`).

**The node** (`AgeVerifyAppProofs`, `AgeRegistryProofs`):

* `TypeCorrect`: `TypeOK` says that mempool and block hold admitted transactions, which
  makes it inductive: the event's address is one because `CheckTx` saw it.
* `AdultBehindEveryRecord` (`EveryRecordHasAnAdult`), if nobody claims to be born after the
  year of genesis. Its heart is `AcceptedIsBacked`, on one call of the handler: the date
  check admits days near the block *and* days beyond the overflow (`NearOrOverflowing`);
  for the latter the circuit's window refuses everybody, who would be older than 273
  (`NobodyIsThatOld`). So the chain's safety there rests on eight bits in the circuit.
* `QueriesAlwaysServable`: the genesis markers are in every loaded state.
* `BlockEffect` (`BlockEffectIsItsSuccesses`), not inductive as it stands: a transaction's
  last message merges a branch of which it says nothing. `Effects` says of block state
  *and* branch which creators they have recorded, and needs `Progress`, how far the node is
  in its block: the branch of an idle node is its block state, a running one is within its
  transaction. Both are inductive through crashes, which reset memory and keep the block.
* `HonestProofsAccepted` (`TodaysProofIsAccepted`): `Verdicts` ties every result to the handler's
  verdict on all messages of its transaction at the block's time; on its own day a date is
  near the block without saturation (`OwnDayIsNear`), and `CircuitCorrect` gives the proof.
* `RecordsOnlyMoveForward` (`NeverForgets`) and `NodeImplementsRegistry`
  (`ImplementsRegistry`) come from what the one step that changes records does:
  `CommitRecords`. The first needs that nothing recorded is later than the last block
  (`NothingLater`). Both assume `~AllowExport`, without which they are false (run
  `export`), the second also `BornByGenesis`; there the registry's `Record` is the node's
  `Commit`, and every other step a stutter.

**The decoder** (`UnmarshalProofs`). `DecoderStaysWithinBuffer` and `DecoderAdvances`, for any
width of words, any largest int and any input. `WithinBuffer` alone is not inductive: it has
to be known from where the index counts (`base`, which is 0 outside a skip) and that it has
passed the byte the round began with once a tag is read (`DecoderInv`). The two facts
about numbers are `SumWraps`, a sum of two lengths is right or negative, and `IntOfWord`.

`WholeItems` (`WholeItemsAreRead`), for documents of any number of tokens, groups of any
depth and varints of any padding. The invariant is `Follows`: for *every* document that the
buffer is, or begins, `Tracks` holds. `Tracks` names the token the decoder is at, says that
the message is the one before that token, and that `word` and `shift` are those of the
groups read so far (`ReadingVarint`). Quantifying over documents makes it inductive, since the
decoder does not know which one it reads, and covers cut buffers too: a step either goes
on within the document (`VarintGoesOn`) or stops for a byte that is missing (`Refused`).
`word` is a sum modulo the width (`RemainderOfSum`), and a token of a skipped group ends with
the depth the document has there (`SkippedTracks`). At the end the only position outside
a token where the bytes end is the last one (`DocumentIsRead`) or none (`CutIsRefused`).

**The encoder** (`MarshalProofs`). `SentMessages` (`RoundTrip`), whatever the fields hold.
`VarintRoundTrip` is about one number: its groups are as many as `Sov` counts, only the
last is below 128, and their sum is the number. `Filled` is the invariant of a buffer that is
written backwards: behind index `i` stand the bytes of the fields already written. Each
write keeps it and moves `i` by what `Size` counted, so `i` is 0 in the end and the buffer is
`MessageBytes` (`SubmitWritten`, `RequestWritten`, `ResponseWritten`, `EmptyWritten`). Field by
field those bytes are a document with the message as its meaning (`AnotherField`,
`MarshalledIsDocument`), a field that is not written because it is empty included
(`EmptyStaysEmpty`); `DocumentIsRead` does the rest.

What these assume: `WordAssumption`, that a word has one bit more than the largest int, which
is at least 127, and field numbers have at least four bits; `InputsAssumption`, that a
buffer's length is an int; and that a field is shorter than 2^28 bytes (`IsMessage`), because
`Len64` and `VarintBytes` are defined up to there. A transaction is much smaller.

Induction is over numbers only. `SetInduction` gets it from the well-foundedness of the
naturals in the library, for a property written as a set, which replaces the library's
theorems with an operator as a parameter; sums over a varint's bytes are recursive
functions with one lemma for their step (`GroupSumsStep`). Facts about a sequence's length
are drawn only where it is known to be in `Seq(S)`.

**Keys** (`KeyLifecycleProofs`), for any number of setups. `KeysTypeCorrect`, `KeyStagesInOrder`,
`ReadmeIsSufficient`: `KeysInv` adds to the properties that nothing is newer than the last
setup, that a setup at its n-th file has written the ones before (`Written`), and how far
the README's three commands have carried the generation they were begun with, or a newer
one (`Carried`: a file on the way is partial or at least that new). `VerdictsAgree`
(`OffchainMatchesChain`): both judges reduce to "the proof is genuine, under this key, for
these inputs" (`VerifierPasses`, `ChainAccepts`), the chain's on a block at the midnight of the
date; `BadDateAssumption` says that a date that does not parse is no day.

**The programs** (`ClientProofs`), for any clock, time zone, timeout, key file and calendar:

* `ClientRunsTheNode`: every step of the composed system is a step of the node or none of
  it, so all of the above holds under a client.
* `DemosTellTheTruth` (`CompletionIsTrue`). A program tells its transactions apart (`Marks`),
  so a transaction is in the mempool, or in the decided block, or has one result, indexed
  or on its way (`InOnePlace`, through cuts of the mempool, crashes and commits); a program
  goes on from a wait only with the result it wants, since a missing one counts as the
  other (`Judged`), and from a step that proves only with a key (`KeyUsed`). A record comes
  from a transaction that has run and whose result, unless a crash has lost it, is 0
  (`ResultsAndRecord`, from `BlockEffect`); a completed program has the results of all it
  sent, so none of them is lost.
* `ResultsStayTrue` (`ResultsAreFinal`), from `InOnePlace` and from the other half of
  `ResultsAndRecord`: a result 0 goes with a record no older than its block, which later
  commits only move forward (`CommitStamps`, by `NothingLater`).
* `AdultsAreRefusedForLatenessOnly` (`OnlyLatenessRefusesAdults`): the results in the index
  are the handler's verdicts at their block's time (`IndexVerdicts`), the message is the
  prover's proof of its own date (`AdultsProof`), and the handler has no reason left but
  the date (`OwnProofVerifies`, `WithinADayIsNear`).

Every inductive invariant named here was checked by TLC on the instance of its run before
it was proved; `Tracks` on the documents of that run.

Only model-checked:

* Liveness (`DecidedBlocksCommit`, `Terminates`, `ClientEnds`): the proof system does not
  handle fairness and `ENABLED`. Of `Terminates`, `DecoderAdvances` is the part that is about
  numbers: a round moves the index forward, within the buffer.

Every other property of a passing run is stated by a theorem.

## Findings

* `far_date` (code): a date over 292 years ahead passes the 24 hour check,
  `msg_server_submit_age_proof.go:42-48`.
* `midnight` (document): "24h is generous but safe" counts from the midnight UTC of the
  proof's local date, so the day of grace ends with the UTC day: a proof made in its last
  minutes and included in the next is refused, and in time zones west of Greenwich
  every proof of the evening is.
* `alarm` (code): `demo.sh` takes a late or lost transaction for an accepted forgery.
* `lost_result` (code): `demo_positive.py` says that its transaction was not committed when
  a crash has lost only the result; the record is there.
* `old_key` (document): after the commands of `README.md:183-185` for a new verification key
  the running node still verifies with the old one, and refuses what the new proving key
  signs, until somebody restarts it. `zk/verify/main.go:25-26` has the restart, and leaves
  out `cp` and `go build`.
* `export` (document): records do not survive an export and import.

Five more places were met while modelling and have no run of their own:

* `chainlib.py:178` reports a missing proving key as a false statement, and
* `chainlib.py:220` a node that cannot be reached as an address that is not verified
  (`CompletionIsTrue` shows that neither makes a demo complete with a claim that is not
  true);
* `verification_store.go:16` stores an address as it was spelled, upper or lower case;
* `msg_server_submit_age_proof.go:42-48` accepts a proof dated tomorrow, so that an
  accepted proof does not attest "age >= 18 as of now" (line 53) but as of a day up to one
  day later, as `docs/limitations.md:78` admits and `EveryRecordHasAnAdult` bounds;
* `SubmitAgeProof` never reads `public_witness`, so "Invalid base64 witness → error 1101"
  (`ZK_AGE_VERIFY_SPECS_V2.md:1291`) does not occur.

## What is not modelled

* The other SDK modules (auth, bank, staking, consensus): age records do not read them.
* Command wiring of `ageverifyd`: registration tables, flags and printing.
* Of the generated protobuf code: getters, reflection, descriptors and gRPC stubs, which
  are tables and delegations without state of their own.
* Cryptography: soundness and completeness of Groth16 are assumed, and the setup's
  trapdoor is nobody's.
* Account sequences and signatures: the application installs no ante handler.
* Two demo programs at once on one account; two spellings of one address.

## Plan

1. *(done)* Circuit, keeper, node, abstract registry; prover; first theorems.
2. *(done)* Key lifecycle and off-chain verifier; messages; clients.
3. *(done)* Proofs of the safety properties of every component.
4. *(done)* Proofs that the decoder reads what the wire format means and what the encoder
   wrote, for messages of any content.
5. Left: the spelling of addresses (`verification_store.go:16`), which needs the address codec.
