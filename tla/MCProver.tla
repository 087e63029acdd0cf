------------------------------ MODULE MCProver ------------------------------
(***************************************************************************)
(* Runs of the prover around every boundary of the circuit: birthdays      *)
(* yesterday, today and tomorrow, leap days, the ends of the bit ranges,   *)
(* months and days no calendar has, and overridden dates.                  *)
(***************************************************************************)
EXTENDS Prover

CONSTANT setupKey   \* the key pair made by zk/setup

Date(y, m, d) == [year |-> y, month |-> m, day |-> d]

MCBirthFlags ==
    { Date(y, md[1], md[2]) :
        y  \in {-1, 0, 1752, 1753, 1899, 1900, 2007, 2008, 2155, 2156},
        md \in {<<1, 1>>, <<2, 28>>, <<2, 29>>, <<3, 1>>, <<12, 31>>,
                <<0, 5>>, <<5, 0>>, <<1, 32>>, <<1, 33>>, <<16, 32>>,
                <<17, 1>>, <<-1, 1>>} }

MCMinAgeFlags == {-1, 0, 18, 128}

MCOverrideFlags ==
    { Date(0, 0, 0), Date(2100, 0, 0), Date(2173, 3, 1), Date(0, 13, 0),
      Date(0, 0, 32), Date(12026, 0, 0), Date(2026, 110, 5), Date(-3, 1, 1) }

MCTodays ==
    { Date(2026, 1, 1), Date(2026, 2, 28), Date(2026, 3, 1),
      Date(2028, 2, 29), Date(2026, 12, 31) }

MCKeys     == {setupKey}
MCKeyFiles == {setupKey, "missing"}
MCBirths   == {}

=============================================================================
