------------------------------ MODULE Segments ------------------------------
(***************************************************************************)
(* One limit's stored rows in order of time, a row [ts, pct, ends] (ends   *)
(* is resets_at, or None): the reset-free segments everything is measured  *)
(* in (burn.py) and the silences of the collector (dashboard.py).          *)
(***************************************************************************)
EXTENDS Integers, SequencesExt

CONSTANTS
    ResetDrop,   \* RESET_DROP_PCT
    Threshold    \* the gap threshold: a longer silence is not observed

None == -1

(* Fault: without an expiry nothing says that a window ended.              *)
IsResetIfDated(prev, cur) ==
    prev.ends # None /\ cur.ends # None /\ prev.ends # cur.ends

(* Two dated rows are told apart by their expiry, whatever the percentage. *)
IsReset(prev, cur) ==
    IF prev.ends # None /\ cur.ends # None
    THEN prev.ends # cur.ends
    ELSE prev.pct - cur.pct > ResetDrop

(* split_at_resets: where each segment begins. *)
Cuts(rows) == {i \in DOMAIN rows : i = 1 \/ IsReset(rows[i - 1], rows[i])}

(* find_gaps: prior is the newest sample before the range, the start of the *)
(* range when history reaches back past it, or None.                       *)
Gaps(stamps, start, end, prior) ==
    LET seen == (IF prior = None THEN {} ELSE {Max({prior, start})})
                    \cup {t \in stamps : start <= t /\ t <= end}
        marks == IF seen = {} THEN {} ELSE seen \cup {end}
    IN  {g \in marks \X marks : /\ g[2] - g[1] > Threshold
                                /\ ~\E t \in marks : g[1] < t /\ t < g[2]}

(* statistics.median and its kin: the k-th smallest of the values of f.     *)
Smallest(f, k) ==
    CHOOSE x \in Range(f) : /\ Cardinality({i \in DOMAIN f : f[i] < x}) < k
                            /\ k <= Cardinality({i \in DOMAIN f : f[i] <= x})

Half(f) == Cardinality(DOMAIN f) \div 2
HalfUp(f) == (Cardinality(DOMAIN f) + 1) \div 2

Median2(f) == Smallest(f, HalfUp(f)) + Smallest(f, Half(f) + 1)   \* twice the median
MedianLow(f) == Smallest(f, HalfUp(f))
=============================================================================
