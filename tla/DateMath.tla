------------------------------ MODULE DateMath ------------------------------
(***************************************************************************)
(* internal/datemath: the bounds of a date range and the window texts of   *)
(* the plans, and what the same bounds say at their word.                  *)
(*                                                                         *)
(* Instants are minutes after the reference time, and amounts are tenths,  *)
(* so that a fraction can be written and truncated.  A time.Duration holds *)
(* less than 293 years either way and wraps; Wrapped is that, in minutes.  *)
(* A bound is a sequence of symbols: <<"now", "-", "1d", "/d">>.           *)
(*                                                                         *)
(* A definition named Broken... is a wrong variant of the one that follows *)
(* it, which the properties must reject.                                   *)
(***************************************************************************)
EXTENDS Integers, Sequences

CONSTANTS
    Amounts,    \* "1d" and the like, by symbol: [tenths : Nat, unit : {"m", "h", "d", "w", "M", "y"}]
    Calendar    \* absolute dates, by bound: minutes after the reference time

Minute == [m |-> 1, h |-> 60, d |-> 1440, w |-> 10080, M |-> 43200, y |-> 525600]

ASSUME AmountsAssumption ==
    \A a \in DOMAIN Amounts : Amounts[a].tenths \in Nat /\ Amounts[a].unit \in DOMAIN Minute

\* ParseDurationHuman refuses the empty text.
ASSUME EmptyTextAssumption == "" \notin DOMAIN Amounts

ASSUME CalendarAssumption == \A b \in DOMAIN Calendar : Calendar[b] \in Int

\* The length of a time.Duration's range in minutes: 2^64 nanoseconds.
Turn == 307445735

Longest == Turn \div 2

\* Overflow of a time.Duration.
Wrapped(x) == ((x + Longest) % Turn) - Longest

\* time.Duration(amount * hours) * time.Hour, and the same for minutes and
\* hours themselves: the fraction of the smaller unit is dropped.
Truncated(a) ==
    IF a.unit \in {"m", "h"}
    THEN (a.tenths \div 10) * Minute[a.unit]
    ELSE ((a.tenths * (Minute[a.unit] \div 60)) \div 10) * 60

\* ParseDurationHuman and the amount of parseRelative.
Length(amount) == Wrapped(Truncated(Amounts[amount]))

-----------------------------------------------------------------------------
Time(x) == [kind |-> "time", at |-> x]
Unknown == [kind |-> "bad"]

\* "*" leaves a bound out; the zero time cannot be told from it.
Missing == [kind |-> "missing"]

\* The rounding suffixes ParseDateMath removes: "/w" is not among them.
Rounding == {"/d", "/h", "/m", "/M", "/y"}

Unrounded(bound) == SelectSeq(bound, LAMBDA s : s \notin Rounding)

\* What relativeRE matches: one amount away from now.
Relative(b) == Len(b) = 3 /\ b[1] = "now" /\ b[2] \in {"+", "-"} /\ b[3] \in DOMAIN Amounts

Away(b, x) == IF b[2] = "-" THEN - x ELSE x

\* ParseDateMath, with parseRelative: now, an amount away from it, or a date.
ParseBound(bound) ==
    LET b == Unrounded(bound)
    IN  IF bound = <<"*">> THEN Missing
        ELSE IF b = <<"now">> THEN Time(0)
        ELSE IF Relative(b) THEN Time(Away(b, Length(b[3])))
        ELSE IF b \in DOMAIN Calendar THEN Time(Calendar[b])
        ELSE Unknown

BrokenDifference(lo, hi) == lo - hi

\* Time.Sub: the difference, or the longest duration.
Difference(lo, hi) ==
    IF hi - lo > Longest THEN Longest ELSE IF lo - hi > Longest THEN - Longest ELSE hi - lo

\* ParseWindow and Window.Duration: a range's kind and, if both its bounds are
\* there, its length.
Span(range) ==
    LET lo == ParseBound(range.low)
        hi == ParseBound(range.high)
    IN  IF Unknown \in {lo, hi} THEN [kind |-> "bad"]
        ELSE IF Missing \in {lo, hi} THEN [kind |-> "open"]
        ELSE [kind |-> "closed", length |-> Difference(lo.at, hi.at)]

-----------------------------------------------------------------------------
(* A bound the gate accepts, at its word.                                  *)

\* The instant meant: the whole amount, without the suffix, which rounds down
\* or up by less than its unit.
TrueAt(bound) ==
    LET b == Unrounded(bound)
    IN  IF b = <<"now">> THEN 0
        ELSE IF Relative(b)
        THEN Away(b, (Amounts[b[3]].tenths * Minute[Amounts[b[3]].unit]) \div 10)
        ELSE Calendar[b]

\* The most that truncation can drop from a bound: less than an hour, and
\* nothing of an amount without a fraction.
Fraction(bound) ==
    LET b == Unrounded(bound)
    IN  IF Relative(b) /\ Amounts[b[3]].tenths % 10 # 0 THEN 59 ELSE 0

\* The bounds whose amount a time.Duration can hold.
Holds(bound) ==
    LET b == Unrounded(bound) IN Relative(b) => Truncated(Amounts[b[3]]) <= Longest
=============================================================================
