----------------------------- MODULE CivilTime ------------------------------
(***************************************************************************)
(* The two clocks of the system: block time, an instant of a chain that    *)
(* the keeper measures with Go's time.Duration, and civil dates, the       *)
(* year/month/day a proof is computed against.                             *)
(*                                                                         *)
(* An instant is a number of ticks since midnight UTC of day 0, the day    *)
(* the chain's genesis falls on.  A second has SecondTicks ticks, so that  *)
(* the truncation done by time.RFC3339 is visible; a day has DayTicks.     *)
(* Go's int64 duration is kept: it saturates in one place and wraps in     *)
(* another, at MaxDuration ticks instead of 2^63 - 1 nanoseconds.          *)
(***************************************************************************)
EXTENDS AgeReference

CONSTANTS
    Days,          \* the days a proof can be dated, numbered from genesis
    Calendar,      \* the civil date of each day
    DaySeconds,    \* seconds in a day (86400 in reality)
    SecondTicks,   \* ticks in a second (10^9 in reality)
    MaxDuration    \* largest time.Duration, about 292 years in reality

DayTicks == DaySeconds * SecondTicks

\* The instant at which a day begins: what time.Parse("20060102") returns.
Midnight(d) == d * DayTicks

ASSUME DaysAssumption ==
    /\ Days \subseteq Int
    /\ 0 \in Days
    /\ Calendar \in [Days -> CivilDate]
    /\ \A c, d \in Days : c <= d => NotEarlier(Calendar[c], Calendar[d])

ASSUME ClockAssumption ==
    /\ DaySeconds \in Nat \ {0}
    /\ SecondTicks \in Nat \ {0}
    /\ MaxDuration \in Nat
    /\ DayTicks < MaxDuration

\* A duration overflows only over many years: 2^63 nanoseconds are 292 years
\* and 98 days, so a day that far from genesis is in a year that far from it.
YearsToOverflow == 292

ASSUME OverflowAssumption ==
    \A d \in Days : Midnight(d) > MaxDuration
        => Calendar[d].year >= Calendar[0].year + YearsToOverflow

-----------------------------------------------------------------------------
MinDuration == -MaxDuration - 1

\* time.Time.Sub: the difference of two instants, saturated to a Duration.
TimeSub(t, u) ==
    CASE t - u > MaxDuration -> MaxDuration
      [] t - u < MinDuration -> MinDuration
      [] OTHER               -> t - u

\* Unary minus on a Duration, an int64: the least one is its own negation.
Negated(duration) == IF duration = MinDuration THEN MinDuration ELSE -duration

\* Time.Format(time.RFC3339) of a block time: the fraction of a second is cut.
Stamp(t) == t - (t % SecondTicks)

=============================================================================
