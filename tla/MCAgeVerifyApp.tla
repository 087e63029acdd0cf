--------------------------- MODULE MCAgeVerifyApp ---------------------------
(***************************************************************************)
(* A small instance of the node.  Genesis falls on 2026-02-27; a day has   *)
(* two seconds of two ticks each, and a Duration overflows between the     *)
(* ordinary days and day 1000, which lies more than 292 years ahead.  Two  *)
(* of the people turn 18 on day 2, 2026-03-01, one of them born on a leap  *)
(* day; the child is underage throughout.                                  *)
(***************************************************************************)
EXTENDS AgeVerifyApp, TLC

CONSTANTS
    a1, a2,        \* addresses
    setupKey,      \* the key pair whose public half is embedded
    otherKey       \* a key pair of another run of zk/setup

Date(y, m, d) == [year |-> y, month |-> m, day |-> d]

Far == 1000
MCDays == -1 .. 3 \union {Far}
MCCalendar ==
    -1  :> Date(2026, 2, 26) @@ 0 :> Date(2026, 2, 27) @@
    1   :> Date(2026, 2, 28) @@ 2 :> Date(2026, 3, 1)  @@
    3   :> Date(2026, 3, 2)  @@ Far :> Date(2330, 1, 1)

TurnsToday == Date(2008, 3, 1)
LeapDay    == Date(2008, 2, 29)
Child      == Date(2015, 1, 1)
Unborn     == Date(2100, 1, 1)

People        == {TurnsToday, LeapDay, Child}
PeopleAndTypo == People \union {Unborn}
MCKeys        == {setupKey, otherKey}

-----------------------------------------------------------------------------
\* Messages, by what the handler makes of them around day 2.
PublicOf(d, minAge) == BuildPublicWitness(MCCalendar[d], minAge)
Msg(a, d, proof) ==
    [creator |-> a, proof |-> proof, witness |-> "matching", date |-> d]

Dated(a, d)    == Msg(a, d, ProofOf(setupKey, PublicOf(d, 18)))
Good(a)        == Dated(a, 2)
Garbled(a)     == Msg(a, 2, NotBase64)
Corrupted(a)   == Msg(a, 2, NotAProof)
NoDate(a)      == Msg(a, BadDate, Good(a).proof)
Redated(a)     == Msg(a, 1, Good(a).proof)
ForAnyAge(a)   == Msg(a, 1, ProofOf(setupKey, PublicOf(1, 0)))
OtherSetup(a)  == Msg(a, 2, ProofOf(otherKey, PublicOf(2, 18)))
FarOver70(a)   == Msg(a, Far, ProofOf(setupKey, PublicOf(Far, 70)))

\* One message per transaction: every outcome of the handler, and a creator
\* that ValidateBasic refuses; and one that succeeds before one that fails.
OutcomeTxs ==
    { <<m>> : m \in { Good(a1), Dated(a1, 3), Dated(a1, -1), Garbled(a1),
                      Corrupted(a1), NoDate(a1), Redated(a1), ForAnyAge(a1),
                      OtherSetup(a1), Dated(a1, Far), FarOver70(a1),
                      Good(BadAddress) } }
      \union { <<Good(a1), Garbled(a1)>> }

\* Transactions of several messages, of which some fail.
AtomicityTxs ==
    UNION { { <<Good(a)>>, <<Good(a), Garbled(a)>> } : a \in Addresses }
      \union { <<Good(a1), Redated(a2)>>, <<Good(a2), Good(a1)>> }

PlainTxs == { <<Good(a1)>> }
FarTxs   == { <<Dated(a1, Far)>>, <<Good(a1)>> }

=============================================================================
