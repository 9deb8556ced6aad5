--------------------------- MODULE ReadingsProofs ---------------------------
(***************************************************************************)
(* What is derived from the readings of a window is what its stored rows   *)
(* say, for any percentages, thresholds and jitters, any number of polls   *)
(* and weeks, and deaths at any point: every week's end once in the ledger *)
(* and every boost in the events, unless its check never ran, and nothing  *)
(* else; and no level announced twice for one resets_at.                   *)
(*                                                                         *)
(* The records are about pairs of neighbouring rows, so the invariants are *)
(* stated with the index of the first row of a pair.  Polls are assumed to *)
(* be a second apart (MinGap = 1): the row of the same second is replaced, *)
(* and what was derived from it is not.                                    *)
(***************************************************************************)
EXTENDS Readings, FiniteSetTheorems, TLAPS

Closed == [closed : Nat, week : Nat]
Moments == Nat
Firsts == 1..Len(rows) - 1

Turns(i) == rows[i].week # rows[i + 1].week
Falls(i) == ~Turns(i) /\ rows[i].pct - rows[i + 1].pct >= BoostMinDrop

Typed ==
    /\ now \in Nat
    /\ rows \in Seq(Readable)
    /\ boosts \in Seq(Moments)
    /\ ledger \in Seq(Closed)
    /\ stage \in {"idle", "stored", "overage", "weeks", "notify", "down"}

(* Rows are in the order they were taken, and so are their weeks. *)
InOrder ==
    /\ \A i, j \in 1..Len(rows) :
          i < j => rows[i].ts < rows[j].ts /\ rows[i].week <= rows[j].week
    /\ \A i \in 1..Len(rows) : rows[i].ts <= now

(* What a poll compares are the two newest rows. *)
Compared ==
    Checking => /\ rows # <<>> /\ current = rows[Len(rows)] /\ current.ts = now
                /\ previous = IF Len(rows) = 1 THEN None ELSE rows[Len(rows) - 1]

LedgerOnce == \A i, j \in 1..Len(ledger) : ledger[i].closed = ledger[j].closed => i = j
LedgerOnly == Range(ledger) \subseteq ScanResets
LedgerHolds ==
    \A i \in Firsts : Turns(i) =>
        \/ Closing(rows[i]) \in Range(ledger)
        \/ rows[i + 1].ts \in unledgered
        \/ InFlight(rows[i + 1].ts) /\ stage # "notify"

BoostsOnce == \A i, j \in 1..Len(boosts) : boosts[i] = boosts[j] => i = j \/ boosts[i] \in raced
BoostsOnly == \A t \in Range(boosts) : \E i \in Firsts : ~Turns(i) /\ t = rows[i + 1].ts
BoostsHold ==
    \A i \in Firsts : Falls(i) =>
        \/ rows[i + 1].ts \in Range(boosts) \cup unboosted
        \/ stage = "stored" /\ current.ts = rows[i + 1].ts

(* A rescan was faster than the check that is still to come. *)
Overtaken == stage = "stored" /\ current.ts \in Range(boosts) => current.ts \in raced

LedgerInv == LedgerOnce /\ LedgerOnly /\ LedgerHolds
BoostsInv == BoostsOnce /\ BoostsOnly /\ BoostsHold /\ Overtaken
RowsInv == Typed /\ InOrder /\ Compared
IInv == RowsInv /\ LedgerInv /\ BoostsInv

-----------------------------------------------------------------------------
(* Sequences.                                                              *)

LEMMA AppendRange ==
    ASSUME NEW T, NEW s \in Seq(T), NEW e \in T
    PROVE  /\ Append(s, e) \in Seq(T) /\ Len(Append(s, e)) = Len(s) + 1
           /\ \A i \in 1..Len(s) : Append(s, e)[i] = s[i]
           /\ Append(s, e)[Len(s) + 1] = e
           /\ Range(Append(s, e)) = Range(s) \cup {e}
<1>1. /\ Append(s, e) \in Seq(T) /\ Len(Append(s, e)) = Len(s) + 1
      /\ \A i \in 1..Len(s) : Append(s, e)[i] = s[i]
      /\ Append(s, e)[Len(s) + 1] = e
    OBVIOUS
<1>2. DOMAIN Append(s, e) = DOMAIN s \cup {Len(s) + 1} /\ DOMAIN s = 1..Len(s)
    BY <1>1
<1>3. Range(Append(s, e)) = Range(s) \cup {e}
    BY <1>1, <1>2, Zenon DEF Range
<1> QED BY <1>1, <1>3

LEMMA Joined ==
    ASSUME NEW T, NEW s \in Seq(T), NEW l \in Seq(T)
    PROVE  /\ s \o l \in Seq(T) /\ Len(s \o l) = Len(s) + Len(l)
           /\ \A i \in 1..Len(s) : (s \o l)[i] = s[i]
           /\ \A i \in 1..Len(l) : (s \o l)[Len(s) + i] = l[i]
OBVIOUS

(* A listing of a set behind a sequence. *)
LEMMA ListRange ==
    ASSUME NEW T, NEW s \in Seq(T), NEW S \in SUBSET T, IsFiniteSet(S), NEW l \in Listings(S)
    PROVE  /\ l \in Seq(T) /\ s \o l \in Seq(T) /\ Len(s \o l) = Len(s) + Len(l)
           /\ DOMAIN l = 1..Len(l) /\ Len(l) \in Nat
           /\ \A i \in 1..Len(s) : (s \o l)[i] = s[i]
           /\ \A i \in 1..Len(l) : (s \o l)[Len(s) + i] = l[i] /\ l[i] \in S
           /\ Range(s \o l) = Range(s) \cup S
<1>1. Cardinality(S) \in Nat
    BY FS_CardinalityType
<1>2. l \in [1..Cardinality(S) -> S] /\ Range(l) = S
    BY DEF Listings
<1>3. l \in Seq(S) /\ l \in Seq(T) /\ Len(l) = Cardinality(S) /\ DOMAIN l = 1..Len(l)
    BY <1>1, <1>2
<1>4. /\ s \o l \in Seq(T) /\ Len(s \o l) = Len(s) + Len(l)
      /\ \A i \in 1..Len(s) : (s \o l)[i] = s[i]
      /\ \A i \in 1..Len(l) : (s \o l)[Len(s) + i] = l[i]
    BY <1>3
<1>5. \A i \in 1..Len(l) : l[i] \in S
    BY <1>2, <1>3
<1>6. Range(s \o l) \subseteq Range(s) \cup S
    <2> SUFFICES ASSUME NEW k \in 1..Len(s \o l) PROVE (s \o l)[k] \in Range(s) \cup S
        BY <1>4 DEF Range
    <2>1. CASE k \in 1..Len(s)
        BY <1>4, <2>1 DEF Range
    <2>2. CASE k \notin 1..Len(s)
        <3>1. k - Len(s) \in 1..Len(l) /\ k = Len(s) + (k - Len(s))
            BY <1>3, <1>4, <2>2
        <3> QED BY <1>4, <1>5, <3>1
    <2> QED BY <2>1, <2>2
<1>7. Range(s) \cup S \subseteq Range(s \o l)
    <2>1. ASSUME NEW k \in 1..Len(s) PROVE s[k] \in Range(s \o l)
        <3>1. k \in DOMAIN (s \o l) /\ (s \o l)[k] = s[k]
            BY <1>3, <1>4
        <3> QED BY <3>1 DEF Range
    <2>2. ASSUME NEW k \in 1..Len(l) PROVE l[k] \in Range(s \o l)
        <3>1. Len(s) + k \in DOMAIN (s \o l) /\ (s \o l)[Len(s) + k] = l[k]
            BY <1>3, <1>4
        <3> QED BY <3>1 DEF Range
    <2>3. Range(s) \subseteq Range(s \o l)
        BY <2>1 DEF Range
    <2>4. S \subseteq Range(s \o l)
        BY <1>2, <1>3, <2>2 DEF Range
    <2> QED BY <2>3, <2>4
<1> QED BY <1>3, <1>4, <1>5, <1>6, <1>7

-----------------------------------------------------------------------------
(* The scans of the history, by index.                                     *)

LEMMA Scans ==
    /\ ScanResets = {Closing(rows[i]) : i \in {k \in Firsts : Turns(k)}}
    /\ ScanBoosts = {rows[i + 1].ts : i \in {k \in Firsts : Falls(k)}}
<1> DEFINE resets == {Closing(rows[i]) : i \in {k \in Firsts : Turns(k)}}
           falls == {rows[i + 1].ts : i \in {k \in Firsts : Falls(k)}}
           pair(i) == <<rows[i], rows[i + 1]>>
<1>1. Pairs = {pair(i) : i \in Firsts}
    BY DEF Pairs, Firsts
<1>2. \A i : pair(i)[1] = rows[i] /\ pair(i)[2] = rows[i + 1]
    OBVIOUS
<1>3. \A i : /\ IsWeekReset(pair(i)[1], pair(i)[2]) <=> Turns(i)
             /\ IsBoost(pair(i)[1], pair(i)[2]) <=> Falls(i)
    BY <1>2 DEF IsWeekReset, IsBoost, ResetsAtChanged, Turns, Falls
<1> HIDE DEF pair
<1>4. ScanResets = resets
    <2>1. ScanResets = {Closing(p[1]) : p \in {q \in {pair(i) : i \in Firsts} : IsWeekReset(q[1], q[2])}}
        BY <1>1 DEF ScanResets
    <2>2. ASSUME NEW e \in ScanResets PROVE e \in resets
        <3>1. PICK i \in Firsts : IsWeekReset(pair(i)[1], pair(i)[2]) /\ e = Closing(pair(i)[1])
            BY <2>1
        <3> QED BY <3>1, <1>2, <1>3
    <2>3. ASSUME NEW i \in Firsts, Turns(i) PROVE Closing(rows[i]) \in ScanResets
        <3>1. pair(i) \in {q \in {pair(j) : j \in Firsts} : IsWeekReset(q[1], q[2])}
            BY <1>3, <2>3
        <3>2. Closing(pair(i)[1]) \in ScanResets
            BY <3>1, <2>1
        <3> QED BY <3>2, <1>2
    <2> QED BY <2>2, <2>3
<1>5. ScanBoosts = falls
    <2>1. ScanBoosts = {p[2].ts : p \in {q \in {pair(i) : i \in Firsts} : IsBoost(q[1], q[2])}}
        BY <1>1 DEF ScanBoosts
    <2>2. ASSUME NEW t \in ScanBoosts PROVE t \in falls
        <3>1. PICK i \in Firsts : IsBoost(pair(i)[1], pair(i)[2]) /\ t = pair(i)[2].ts
            BY <2>1
        <3> QED BY <3>1, <1>2, <1>3
    <2>3. ASSUME NEW i \in Firsts, Falls(i) PROVE rows[i + 1].ts \in ScanBoosts
        <3>1. pair(i) \in {q \in {pair(j) : j \in Firsts} : IsBoost(q[1], q[2])}
            BY <1>3, <2>3
        <3>2. pair(i)[2].ts \in ScanBoosts
            BY <3>1, <2>1
        <3> QED BY <3>2, <1>2
    <2> QED BY <2>2, <2>3
<1> QED BY <1>4, <1>5

LEMMA Rows ==
    ASSUME Typed
    PROVE  /\ Len(rows) \in Nat
           /\ \A i \in 1..Len(rows) : /\ rows[i] \in Readable /\ rows[i].ts \in Nat
                                      /\ rows[i].week \in Nat /\ rows[i].pct \in Nat
                                      /\ Closing(rows[i]) \in Closed
                                      /\ Closing(rows[i]).closed = rows[i].ts
                                      /\ Closing(rows[i]).week = rows[i].week
           /\ \A i \in Firsts : i \in 1..Len(rows) /\ i + 1 \in 1..Len(rows)
<1>1. Len(rows) \in Nat /\ \A i \in 1..Len(rows) : rows[i] \in Readable
    BY DEF Typed
<1>2. ASSUME NEW r \in Readable
      PROVE  /\ r.ts \in Nat /\ r.week \in Nat /\ r.pct \in Nat
             /\ Closing(r) \in Closed /\ Closing(r).closed = r.ts /\ Closing(r).week = r.week
    <2>1. r.ts \in Nat /\ r.week \in Nat /\ r.pct \in Nat
        <3>1. r.ts \in 0..MaxTime /\ r.week \in 0..MaxWeek /\ r.pct \in Pcts
            BY DEF Readable
        <3>2. Pcts \subseteq Nat /\ MaxTime \in Nat /\ MaxWeek \in Nat
            BY ReadingsAssumption
        <3>3. r.pct \in Nat
            BY <3>1, <3>2, Zenon
        <3> QED BY <3>1, <3>2, <3>3
    <2> QED BY <2>1 DEF Closing, Closed
<1>3. \A i \in Firsts : i \in 1..Len(rows) /\ i + 1 \in 1..Len(rows)
    BY <1>1 DEF Firsts
<1> QED BY <1>1, <1>2, <1>3

LEMMA ScansAreFinite ==
    ASSUME Typed
    PROVE  /\ ScanResets \in SUBSET Closed /\ IsFiniteSet(ScanResets)
           /\ ScanBoosts \in SUBSET Moments /\ IsFiniteSet(ScanBoosts)
<1> DEFINE n == Len(rows)
           closing == [i \in 1..n |-> Closing(rows[i])]
           moment == [i \in 1..n |-> rows[i].ts]
<1>1. IsFiniteSet(1..n)
    BY Rows, FS_Interval
<1>2. closing \in Surjection(1..n, Range(closing)) /\ moment \in Surjection(1..n, Range(moment))
    BY DEF Surjection, Range
<1>3. IsFiniteSet(Range(closing)) /\ IsFiniteSet(Range(moment))
    BY <1>1, <1>2, FS_Surjection
<1>4. \A i \in 1..n : Closing(rows[i]) \in Range(closing) /\ rows[i].ts \in Range(moment)
    BY DEF Range
<1>5. ScanResets \subseteq Range(closing) /\ ScanResets \subseteq Closed
    BY <1>4, Scans, Rows
<1>6. ScanBoosts \subseteq Range(moment) /\ ScanBoosts \subseteq Moments
    BY <1>4, Scans, Rows DEF Moments
<1> QED BY <1>3, <1>5, <1>6, FS_Subset

-----------------------------------------------------------------------------
(* The rows and the two readings of a poll.                                *)

LEMMA ClosingPrevious ==
    ASSUME RowsInv, Checking
    PROVE  /\ Len(rows) \in Nat \ {0} /\ rows[Len(rows)] \in Readable
           /\ current = rows[Len(rows)] /\ now = current.ts
           /\ previous # None <=> Len(rows) > 1
           /\ Len(rows) > 1 => /\ Len(rows) - 1 \in Firsts /\ (Len(rows) - 1) + 1 = Len(rows)
                               /\ previous = rows[Len(rows) - 1] /\ previous \in Readable
<1>1. Typed /\ Compared
    BY DEF RowsInv
<1>2. Len(rows) \in Nat \ {0} /\ rows[Len(rows)] \in Readable
    BY <1>1 DEF Compared, Typed
<1>3. CASE Len(rows) = 1
    BY <1>1, <1>2, <1>3 DEF Compared
<1>4. CASE Len(rows) > 1
    <2>1. previous = rows[Len(rows) - 1] /\ Len(rows) - 1 \in 1..Len(rows)
        BY <1>1, <1>2, <1>4 DEF Compared
    <2>2. previous \in Readable
        BY <1>1, <2>1, Rows
    <2>3. previous.ts \in Nat
        BY <2>2 DEF Readable
    <2>4. previous # None
        BY <2>3 DEF None
    <2> QED BY <1>1, <1>2, <1>4, <2>1, <2>2, <2>4 DEF Compared, Firsts
<1>5. Len(rows) = 1 \/ Len(rows) > 1
    <2>1. \A n \in Nat \ {0} : n = 1 \/ n > 1
        OBVIOUS
    <2> QED BY <1>2, <2>1, Zenon
<1> QED BY <1>3, <1>4, <1>5, Zenon

(* A collected reading is a new row, later than all the others. *)
LEMMA Collected ==
    ASSUME MinGap = 1, RowsInv, Collect
    PROVE  \E r \in Readable :
               /\ rows' = Append(rows, r) /\ Typed' /\ InOrder' /\ Compared'
               /\ r.ts = now /\ current' = r /\ stage' = "stored"
               /\ Len(rows') = Len(rows) + 1 /\ rows'[Len(rows) + 1] = r
               /\ \A i \in 1..Len(rows) : rows'[i] = rows[i] /\ rows[i].ts < now
               /\ UNCHANGED <<boosts, ledger, unboosted, unledgered, raced>>
<1>0. Typed /\ InOrder
    BY DEF RowsInv
<1>1. PICK r \in Answer : rows' = Stored(r) /\ previous' = Latest /\ current' = r
    BY DEF Collect
<1>2. r \in Readable /\ r.ts = now /\ r.ts \in Nat /\ r.week \in Nat
    BY <1>1, ReadingsAssumption DEF Answer, Readable
<1>3. Len(rows) \in Nat /\ (rows = <<>> <=> Len(rows) = 0)
    BY <1>0 DEF Typed
<1>4. ASSUME rows # <<>>
      PROVE  rows[Len(rows)].ts < now /\ Latest = rows[Len(rows)] /\ Latest.week <= r.week
    <2>1. Latest = rows[Len(rows)]
        BY <1>4 DEF Latest
    <2>2. rows[Len(rows)] \in Readable /\ rows[Len(rows)].ts \in Nat /\ rows[Len(rows)].week \in Nat
        BY <1>0, <1>3, <1>4, Rows
    <2>3. now - rows[Len(rows)].ts >= 1
        BY <1>4, <2>1 DEF Collect
    <2>4. r.week \in {Latest.week, Latest.week + 1}
        BY <1>1, <1>4 DEF Answer
    <2> QED BY <1>0, <2>1, <2>2, <2>3, <2>4 DEF Typed
<1>5. rows' = Append(rows, r)
    BY <1>1, <1>2, <1>3, <1>4, <1>0, Rows DEF Stored
<1>6. /\ rows' \in Seq(Readable) /\ Len(rows') = Len(rows) + 1 /\ rows'[Len(rows) + 1] = r
      /\ \A i \in 1..Len(rows) : rows'[i] = rows[i]
    BY <1>0, <1>2, <1>5, AppendRange DEF Typed
<1>7. \A i \in 1..Len(rows) : rows[i].ts < now /\ rows[i].week <= r.week
    <2> SUFFICES ASSUME NEW i \in 1..Len(rows) PROVE rows[i].ts < now /\ rows[i].week <= r.week
        OBVIOUS
    <2>1. rows # <<>> /\ Len(rows) \in 1..Len(rows)
        BY <1>3
    <2>2. /\ rows[i].ts \in Nat /\ rows[i].week \in Nat
          /\ rows[Len(rows)].ts \in Nat /\ rows[Len(rows)].week \in Nat
        BY <1>0, <2>1, Rows
    <2>3. i = Len(rows) \/ (rows[i].ts < rows[Len(rows)].ts /\ rows[i].week <= rows[Len(rows)].week)
        BY <1>0, <1>3, <2>1 DEF InOrder
    <2> QED BY <1>0, <1>2, <1>4, <2>1, <2>2, <2>3 DEF Typed
<1>8. Typed'
    BY <1>0, <1>6 DEF Typed, Collect, eventVars
<1>9. InOrder'
    <2>1. now' = now
        BY DEF Collect
    <2>2. ASSUME NEW i \in 1..Len(rows'), NEW j \in 1..Len(rows'), i < j
          PROVE  rows'[i].ts < rows'[j].ts /\ rows'[i].week <= rows'[j].week
        <3>1. i \in 1..Len(rows)
            BY <1>3, <1>6, <2>2
        <3>2. CASE j \in 1..Len(rows)
            BY <1>0, <1>6, <2>2, <3>1, <3>2 DEF InOrder
        <3>3. CASE j \notin 1..Len(rows)
            <4>1. j = Len(rows) + 1
                BY <1>3, <1>6, <3>3
            <4> QED BY <1>2, <1>6, <1>7, <3>1, <4>1
        <3> QED BY <3>2, <3>3
    <2>3. ASSUME NEW i \in 1..Len(rows') PROVE rows'[i].ts <= now
        <3>1. CASE i \in 1..Len(rows)
            BY <1>0, <1>6, <3>1 DEF InOrder
        <3>2. CASE i \notin 1..Len(rows)
            <4>1. i = Len(rows) + 1
                BY <1>3, <1>6, <3>2
            <4> QED BY <1>0, <1>2, <1>6, <4>1 DEF Typed
        <3> QED BY <3>1, <3>2
    <2> QED BY <2>1, <2>2, <2>3 DEF InOrder
<1>10. Compared'
    <2>1. rows' # <<>> /\ current' = rows'[Len(rows')] /\ current'.ts = now'
        BY <1>1, <1>2, <1>3, <1>6 DEF Collect
    <2>2. CASE rows = <<>>
        BY <1>1, <1>3, <1>6, <2>1, <2>2 DEF Compared, Latest
    <2>3. CASE rows # <<>>
        <3>1. Len(rows') # 1 /\ Len(rows') - 1 = Len(rows) /\ Len(rows) \in 1..Len(rows)
            BY <1>3, <1>6, <2>3
        <3>2. previous' = rows'[Len(rows') - 1]
            BY <1>1, <1>4, <1>6, <2>3, <3>1
        <3> QED BY <2>1, <3>1, <3>2 DEF Compared
    <2> QED BY <2>2, <2>3
<1> QED
    BY <1>1, <1>2, <1>5, <1>6, <1>7, <1>8, <1>9, <1>10 DEF Collect, eventVars, historyVars

(* The last pair of the rows is the pair of a poll. *)
LEMMA LastPair ==
    ASSUME RowsInv, Checking, NEW i \in Firsts, rows[i + 1].ts = current.ts
    PROVE  previous # None /\ previous = rows[i] /\ current = rows[i + 1] /\ i = Len(rows) - 1
<1>0. Typed /\ InOrder
    BY DEF RowsInv
<1>1. i + 1 \in 1..Len(rows) /\ Len(rows) \in 1..Len(rows)
    BY <1>0, Rows DEF Firsts
<1>2. i + 1 = Len(rows)
    <2>1. rows[i + 1].ts = rows[Len(rows)].ts /\ rows[i + 1].ts \in Nat
        BY <1>0, <1>1, ClosingPrevious, Rows
    <2>2. ~(i + 1 < Len(rows))
        BY <1>0, <1>1, <2>1 DEF InOrder
    <2> QED BY <1>1, <2>2
<1>3. Len(rows) > 1 /\ i = Len(rows) - 1
    BY <1>1, <1>2 DEF Firsts
<1> QED BY <1>2, <1>3, ClosingPrevious

-----------------------------------------------------------------------------
(* The one write path of the ledger, weeks._record.                        *)

LEMMA LiveIsScanned ==
    ASSUME RowsInv, Checking
    PROVE  /\ LiveReset \subseteq ScanResets
           /\ \A i \in Firsts : Turns(i) /\ rows[i + 1].ts = current.ts =>
                 Closing(rows[i]) \in LiveReset
<1>0. Typed /\ InOrder
    BY DEF RowsInv
<1>1. LiveReset \subseteq ScanResets
    <2>1. CASE previous # None /\ IsWeekReset(previous, current)
        <3> DEFINE i == Len(rows) - 1
        <3>1. i \in Firsts /\ previous = rows[i] /\ current = rows[i + 1]
            BY <2>1, ClosingPrevious
        <3>2. Turns(i)
            BY <2>1, <3>1 DEF Turns, IsWeekReset, ResetsAtChanged
        <3>3. Closing(previous) \in ScanResets
            BY <3>1, <3>2, Scans
        <3> QED BY <3>3 DEF LiveReset
    <2> QED BY <2>1 DEF LiveReset
<1>2. ASSUME NEW i \in Firsts, Turns(i), rows[i + 1].ts = current.ts
      PROVE  Closing(rows[i]) \in LiveReset
    <2>1. previous # None /\ previous = rows[i] /\ current = rows[i + 1]
        BY <1>2, LastPair
    <2>2. IsWeekReset(previous, current)
        BY <1>2, <2>1 DEF Turns, IsWeekReset, ResetsAtChanged
    <2> QED BY <2>1, <2>2 DEF LiveReset
<1> QED BY <1>1, <1>2

LEMMA Recorded ==
    ASSUME Typed, InOrder, LedgerOnce, LedgerOnly,
           NEW resets \in SUBSET ScanResets, RecordResets(resets)
    PROVE  /\ ledger' \in Seq(Closed) /\ LedgerOnce'
           /\ Range(ledger') = Range(ledger) \cup Missing(resets)
           /\ resets \subseteq Range(ledger') /\ Range(ledger') \subseteq ScanResets
<1>1. Missing(resets) \in SUBSET Closed /\ IsFiniteSet(Missing(resets))
    BY ScansAreFinite, FS_Subset DEF Missing
<1>2. PICK found \in InTimeOrder(Missing(resets)) : ledger' = ledger \o found
    BY DEF RecordResets
<1>3. found \in Listings(Missing(resets))
      /\ \A i, j \in DOMAIN found : i < j => found[i].closed < found[j].closed
    BY DEF InTimeOrder
<1>4. /\ found \in Seq(Closed) /\ ledger' \in Seq(Closed)
      /\ Len(ledger') = Len(ledger) + Len(found) /\ Len(found) \in Nat
      /\ DOMAIN found = 1..Len(found)
      /\ \A i \in 1..Len(ledger) : ledger'[i] = ledger[i]
      /\ \A i \in 1..Len(found) : ledger'[Len(ledger) + i] = found[i] /\ found[i] \in Missing(resets)
      /\ Range(ledger') = Range(ledger) \cup Missing(resets)
    <2>1. ledger \in Seq(Closed)
        BY DEF Typed
    <2>2. found \in Listings(Missing(resets))
        BY <1>3
    <2> DEFINE l == ledger \o found
    <2>3. /\ found \in Seq(Closed) /\ l \in Seq(Closed)
          /\ Len(l) = Len(ledger) + Len(found)
          /\ DOMAIN found = 1..Len(found) /\ Len(found) \in Nat
          /\ \A i \in 1..Len(ledger) : l[i] = ledger[i]
          /\ \A i \in 1..Len(found) :
                l[Len(ledger) + i] = found[i] /\ found[i] \in Missing(resets)
          /\ Range(l) = Range(ledger) \cup Missing(resets)
        BY <1>1, <2>1, <2>2, ListRange
    <2> QED BY <1>2, <2>3
<1>5. Len(ledger) \in Nat
    BY DEF Typed
<1>6. LedgerOnce'
    <2>1. ASSUME NEW i \in 1..Len(ledger), NEW k \in 1..Len(found)
          PROVE  ledger[i].closed # found[k].closed
        BY <1>4 DEF Missing
    <2>2. ASSUME NEW i \in 1..Len(found), NEW k \in 1..Len(found), i < k
          PROVE  found[i].closed # found[k].closed
        <3>1. found[i].closed < found[k].closed /\ found[i] \in Closed /\ found[k] \in Closed
            BY <1>1, <1>3, <1>4, <2>2
        <3> QED BY <3>1 DEF Closed
    <2>3. ASSUME NEW i \in 1..Len(ledger'), NEW j \in 1..Len(ledger'), i < j
          PROVE  ledger'[i].closed # ledger'[j].closed
        <3>1. CASE j \in 1..Len(ledger)
            <4>1. i \in 1..Len(ledger) /\ i # j
                BY <1>5, <2>3, <3>1
            <4> QED BY <1>4, <3>1, <4>1 DEF LedgerOnce
        <3>2. CASE j \notin 1..Len(ledger) /\ i \in 1..Len(ledger)
            <4>1. j - Len(ledger) \in 1..Len(found) /\ j = Len(ledger) + (j - Len(ledger))
                BY <1>4, <1>5, <3>2
            <4> QED BY <1>4, <2>1, <3>2, <4>1
        <3>3. CASE i \notin 1..Len(ledger)
            <4>1. /\ i - Len(ledger) \in 1..Len(found) /\ i = Len(ledger) + (i - Len(ledger))
                  /\ j - Len(ledger) \in 1..Len(found) /\ j = Len(ledger) + (j - Len(ledger))
                  /\ i - Len(ledger) < j - Len(ledger)
                BY <1>4, <1>5, <2>3, <3>3
            <4> QED BY <1>4, <2>2, <4>1
        <3> QED BY <3>1, <3>2, <3>3
    <2> SUFFICES ASSUME NEW i \in 1..Len(ledger'), NEW j \in 1..Len(ledger'),
                        ledger'[i].closed = ledger'[j].closed
                 PROVE  i = j
        BY DEF LedgerOnce
    <2>4. ~(i < j) /\ ~(j < i)
        BY <2>3
    <2> QED BY <2>4
<1>7. ASSUME NEW e \in resets, e \notin Missing(resets) PROVE e \in Range(ledger)
    <2>1. PICK k \in 1..Len(ledger) : ledger[k].closed = e.closed
        BY <1>7 DEF Missing
    <2>2. ledger[k] \in Range(ledger)
        BY <1>5 DEF Range, Typed
    <2>3. PICK i \in Firsts : Turns(i) /\ ledger[k] = Closing(rows[i])
        BY <2>2, Scans DEF LedgerOnly
    <2>4. PICK j \in Firsts : Turns(j) /\ e = Closing(rows[j])
        BY Scans
    <2>5. i \in 1..Len(rows) /\ j \in 1..Len(rows) /\ rows[i].ts = rows[j].ts /\ rows[i].ts \in Nat
        BY <2>1, <2>3, <2>4, Rows
    <2>6. i = j
        <3>1. ~(i < j) /\ ~(j < i)
            BY <2>5 DEF InOrder
        <3> QED BY <2>5, <3>1
    <2> QED BY <2>2, <2>3, <2>4, <2>6
<1>8. Missing(resets) \subseteq resets
    BY DEF Missing
<1> QED BY <1>4, <1>6, <1>7, <1>8 DEF LedgerOnly

-----------------------------------------------------------------------------
(* Every step keeps the order of the rows and what a poll compares.        *)
LEMMA RowsStep ==
    ASSUME MinGap = 1, RowsInv, LedgerOnce, LedgerOnly, [Next]_vars
    PROVE  RowsInv'
<1>0. Typed /\ InOrder /\ Compared
    BY DEF RowsInv
<1>1. CASE Collect
    BY <1>1, Collected DEF RowsInv
<1>2. CASE CheckBoost
    <2>1. boosts' \in Seq(Moments)
        <3>1. CASE boosts' = boosts
            BY <1>0, <3>1 DEF Typed
        <3>2. CASE boosts' = Append(boosts, now)
            BY <1>0, <3>2 DEF Typed, Moments
        <3> QED BY <1>2, <3>1, <3>2 DEF CheckBoost
    <2> QED BY <1>0, <1>2, <2>1 DEF CheckBoost, RowsInv, Typed, InOrder, Compared, Checking
<1>3. CASE Rescan
    <2>1. (ScanBoosts \ Range(boosts)) \in SUBSET Moments /\ IsFiniteSet(ScanBoosts \ Range(boosts))
        BY <1>0, ScansAreFinite, FS_Subset
    <2>2. PICK found \in Ascending(ScanBoosts \ Range(boosts)) : boosts' = boosts \o found
        BY <1>3 DEF Rescan
    <2>3. boosts' \in Seq(Moments)
        BY <1>0, <2>1, <2>2, ListRange DEF Ascending, Typed
    <2> QED BY <1>0, <1>3, <2>3 DEF Rescan, RowsInv, Typed, InOrder, Compared, Checking
<1>4. CASE OverageAnswered
    BY <1>0, <1>4 DEF OverageAnswered, RowsInv, Typed, InOrder, Compared, Checking, eventVars
<1>5. CASE OverageRejected
    BY <1>0, <1>5 DEF OverageRejected, RowsInv, Typed, InOrder, Compared, Checking, eventVars
<1>6. CASE CheckWeekReset
    <2>1. Checking
        BY <1>6 DEF CheckWeekReset, Checking
    <2>2. ledger' \in Seq(Closed)
        BY <1>0, <1>6, <2>1, LiveIsScanned, Recorded DEF CheckWeekReset, Typed
    <2> QED BY <1>0, <1>6, <2>2 DEF CheckWeekReset, RowsInv, Typed, InOrder, Compared, Checking
<1>7. CASE CheckNotify
    BY <1>0, <1>7 DEF CheckNotify, RowsInv, Typed, InOrder, Compared, Checking
<1>8. CASE Die
    BY <1>0, <1>8 DEF Die, RowsInv, Typed, InOrder, Compared, Checking, eventVars
<1>9. CASE Start
    <2>1. ledger' \in Seq(Closed)
        BY <1>0, <1>9, Recorded DEF Start, Typed
    <2> QED BY <1>0, <1>9, <2>1 DEF Start, RowsInv, Typed, InOrder, Compared, Checking
<1>10. CASE Tick
    <2>1. now' \in Nat /\ now <= now'
        BY <1>0, <1>10 DEF Tick, Typed
    <2>2. InOrder'
        <3>1. \A i \in 1..Len(rows) : rows[i].ts <= now'
            BY <1>0, <1>10, <2>1, Rows DEF InOrder, Tick, Typed
        <3> QED BY <1>0, <1>10, <3>1 DEF InOrder, Tick
    <2> QED BY <1>0, <1>10, <2>1, <2>2 DEF Tick, RowsInv, Typed, Compared, Checking, eventVars
<1>11. CASE UNCHANGED vars
    BY <1>0, <1>11 DEF vars, RowsInv, Typed, InOrder, Compared, Checking
<1> QED BY <1>1, <1>2, <1>3, <1>4, <1>5, <1>6, <1>7, <1>8, <1>9, <1>10, <1>11 DEF Next

-----------------------------------------------------------------------------
(* The ledger.                                                             *)

LEMMA LedgerStep ==
    ASSUME MinGap = 1, RowsInv, LedgerInv, [Next]_vars
    PROVE  LedgerInv'
<1>0. Typed /\ InOrder /\ LedgerOnce /\ LedgerOnly /\ LedgerHolds
    BY DEF RowsInv, LedgerInv
<1>1. CASE Collect
    <2>1. PICK r \in Readable :
              /\ rows' = Append(rows, r) /\ current' = r /\ stage' = "stored"
              /\ Len(rows') = Len(rows) + 1 /\ rows'[Len(rows) + 1] = r
              /\ \A i \in 1..Len(rows) : rows'[i] = rows[i]
              /\ UNCHANGED <<ledger, unledgered>>
        BY <1>1, Collected
    <2>2. Len(rows) \in Nat
        BY <1>0, Rows
    <2>3. Pairs \subseteq Pairs'
        BY <2>1, <2>2 DEF Pairs
    <2>4. ScanResets \subseteq ScanResets'
        BY <2>3 DEF ScanResets
    <2>5. LedgerOnce' /\ LedgerOnly'
        BY <1>0, <2>1, <2>4 DEF LedgerOnce, LedgerOnly
    <2>6. stage = "idle"
        BY <1>1 DEF Collect
    <2>7. ASSUME NEW i \in Firsts', Turns(i)'
          PROVE  \/ Closing(rows[i])' \in Range(ledger)
                 \/ rows'[i + 1].ts \in unledgered
                 \/ InFlight(rows[i + 1].ts)' /\ stage' # "notify"
        <3>1. CASE i \in Firsts
            <4>1. rows'[i] = rows[i] /\ rows'[i + 1] = rows[i + 1]
                BY <1>0, <2>1, <3>1, Rows
            <4>2. Turns(i)
                BY <2>7, <4>1 DEF Turns
            <4> QED BY <1>0, <2>6, <3>1, <4>1, <4>2 DEF LedgerHolds, InFlight, Checking, Closing
        <3>2. CASE i \notin Firsts
            <4>1. i = Len(rows)
                BY <2>1, <2>2, <3>2 DEF Firsts
            <4> QED BY <2>1, <4>1 DEF InFlight, Checking
        <3> QED BY <3>1, <3>2
    <2>8. LedgerHolds'
        BY <2>1, <2>7 DEF LedgerHolds
    <2> QED BY <2>5, <2>8 DEF LedgerInv
<1>2. ASSUME UNCHANGED <<rows, ledger, current>>, unledgered \subseteq unledgered',
             Checking /\ stage # "notify" =>
                \/ Checking' /\ stage' # "notify"
                \/ current.ts \in unledgered'
      PROVE  LedgerInv'
    <2>1. LedgerOnce' /\ LedgerOnly'
        BY <1>0, <1>2 DEF LedgerOnce, LedgerOnly, ScanResets, Pairs
    <2>2. LedgerHolds'
        BY <1>0, <1>2 DEF LedgerHolds, Firsts, Turns, InFlight
    <2> QED BY <2>1, <2>2 DEF LedgerInv
<1>3. ASSUME UNCHANGED <<rows, ledger>>, unledgered \subseteq unledgered',
             Checking /\ stage # "notify" => current.ts \in unledgered'
      PROVE  LedgerInv'
    <2>1. LedgerOnce' /\ LedgerOnly'
        BY <1>0, <1>3 DEF LedgerOnce, LedgerOnly, ScanResets, Pairs
    <2>2. LedgerHolds'
        BY <1>0, <1>3 DEF LedgerHolds, Firsts, Turns, InFlight
    <2> QED BY <2>1, <2>2 DEF LedgerInv
<1>4. CASE CheckBoost
    BY <1>2, <1>4 DEF CheckBoost, historyVars, Checking
<1>5. CASE Rescan
    BY <1>2, <1>5 DEF Rescan, Checking
<1>6. CASE OverageAnswered
    BY <1>2, <1>6 DEF OverageAnswered, eventVars, historyVars, Checking
<1>7. CASE OverageRejected
    BY <1>3, <1>7 DEF OverageRejected, eventVars, Checking
<1>8. CASE CheckWeekReset
    <2>1. CASE RecordResets(LiveReset) /\ UNCHANGED unledgered
        <3>1. Checking /\ stage # "notify" /\ UNCHANGED <<rows, current>>
            BY <1>8 DEF CheckWeekReset, Checking
        <3>2. /\ LedgerOnce' /\ Range(ledger') = Range(ledger) \cup Missing(LiveReset)
              /\ LiveReset \subseteq Range(ledger') /\ Range(ledger') \subseteq ScanResets
            BY <1>0, <2>1, <3>1, LiveIsScanned, Recorded
        <3>3. LedgerOnly'
            BY <3>1, <3>2 DEF LedgerOnly, ScanResets, Pairs
        <3>4. LedgerHolds'
            BY <1>0, <2>1, <3>1, <3>2, LiveIsScanned DEF LedgerHolds, Firsts, Turns, InFlight
        <3> QED BY <3>2, <3>3, <3>4 DEF LedgerInv
    <2>2. CASE UNCHANGED ledger /\ unledgered' = unledgered \cup {current.ts}
        BY <1>2, <1>8, <2>2 DEF CheckWeekReset
    <2> QED BY <1>8, <2>1, <2>2 DEF CheckWeekReset
<1>9. CASE CheckNotify
    BY <1>3, <1>9 DEF CheckNotify
<1>10. CASE Die
    BY <1>3, <1>10 DEF Die, eventVars, Checking
<1>11. CASE Start
    <2>1. CASE RecordResets(ScanResets)
        <3>1. /\ LedgerOnce' /\ ScanResets \subseteq Range(ledger')
              /\ Range(ledger') \subseteq ScanResets /\ UNCHANGED rows
            BY <1>0, <1>11, <2>1, Recorded DEF Start
        <3>2. LedgerOnly'
            BY <3>1 DEF LedgerOnly, ScanResets, Pairs
        <3>3. LedgerHolds'
            BY <3>1, Scans DEF LedgerHolds, Firsts, Turns
        <3> QED BY <3>1, <3>2, <3>3 DEF LedgerInv
    <2>2. CASE UNCHANGED <<ledger, unledgered>>
        BY <1>3, <1>11, <2>2 DEF Start, Checking
    <2> QED BY <1>11, <2>1, <2>2 DEF Start
<1>12. CASE Tick
    BY <1>2, <1>12 DEF Tick, eventVars, historyVars, Checking
<1>13. CASE UNCHANGED vars
    BY <1>2, <1>13 DEF vars, Checking
<1> QED BY <1>1, <1>4, <1>5, <1>6, <1>7, <1>8, <1>9, <1>10, <1>11, <1>12, <1>13 DEF Next

-----------------------------------------------------------------------------
(* The boosts.                                                             *)

(* Events added in one listing are each there once. *)
LEMMA BoostsAdded ==
    ASSUME Typed, BoostsOnce, NEW S \in SUBSET Moments, IsFiniteSet(S),
           NEW found \in Ascending(S), boosts' = boosts \o found,
           S \cap Range(boosts) \subseteq raced', raced \subseteq raced'
    PROVE  BoostsOnce' /\ Range(boosts') = Range(boosts) \cup S
<1>1. Len(boosts) \in Nat /\ DOMAIN boosts = 1..Len(boosts)
    BY DEF Typed
<1>2. found \in Listings(S) /\ \A i, j \in DOMAIN found : i < j => found[i] < found[j]
    BY DEF Ascending
<1>3. /\ found \in Seq(Moments) /\ Len(boosts') = Len(boosts) + Len(found)
      /\ DOMAIN found = 1..Len(found) /\ Len(found) \in Nat
      /\ \A i \in 1..Len(boosts) : boosts'[i] = boosts[i]
      /\ \A i \in 1..Len(found) : boosts'[Len(boosts) + i] = found[i] /\ found[i] \in S
      /\ Range(boosts') = Range(boosts) \cup S
    <2> DEFINE l == boosts \o found
    <2>1. boosts \in Seq(Moments) /\ found \in Listings(S)
        BY <1>2 DEF Typed
    <2>2. /\ found \in Seq(Moments) /\ Len(l) = Len(boosts) + Len(found)
          /\ DOMAIN found = 1..Len(found) /\ Len(found) \in Nat
          /\ \A i \in 1..Len(boosts) : l[i] = boosts[i]
          /\ \A i \in 1..Len(found) : l[Len(boosts) + i] = found[i] /\ found[i] \in S
          /\ Range(l) = Range(boosts) \cup S
        BY <2>1, ListRange
    <2> QED BY <2>2
<1>4. ASSUME NEW i \in 1..Len(boosts'), NEW j \in 1..Len(boosts'), i < j,
             boosts'[i] = boosts'[j]
      PROVE  boosts'[i] \in raced'
    <2>1. CASE j \in 1..Len(boosts)
        <3>1. i \in 1..Len(boosts) /\ i # j
            BY <1>1, <1>4, <2>1
        <3> QED BY <1>3, <1>4, <2>1, <3>1 DEF BoostsOnce
    <2>2. CASE j \notin 1..Len(boosts) /\ i \in 1..Len(boosts)
        <3>1. j - Len(boosts) \in 1..Len(found) /\ j = Len(boosts) + (j - Len(boosts))
            BY <1>1, <1>3, <2>2
        <3>2. boosts'[j] \in S /\ boosts'[i] \in Range(boosts)
            BY <1>1, <1>3, <2>2, <3>1 DEF Range
        <3> QED BY <1>4, <3>2
    <2>3. CASE i \notin 1..Len(boosts)
        <3>1. /\ i - Len(boosts) \in 1..Len(found) /\ i = Len(boosts) + (i - Len(boosts))
              /\ j - Len(boosts) \in 1..Len(found) /\ j = Len(boosts) + (j - Len(boosts))
              /\ i - Len(boosts) < j - Len(boosts)
            BY <1>1, <1>3, <1>4, <2>3
        <3>2. found[i - Len(boosts)] < found[j - Len(boosts)]
            BY <1>2, <1>3, <3>1
        <3>3. found[i - Len(boosts)] \in Nat /\ found[i - Len(boosts)] = found[j - Len(boosts)]
            BY <1>3, <1>4, <3>1 DEF Moments
        <3> QED BY <3>2, <3>3
    <2> QED BY <2>1, <2>2, <2>3
<1>5. BoostsOnce'
    <2> SUFFICES ASSUME NEW i \in 1..Len(boosts'), NEW j \in 1..Len(boosts'),
                        boosts'[i] = boosts'[j], i # j
                 PROVE  boosts'[i] \in raced'
        BY DEF BoostsOnce
    <2>1. i < j \/ j < i
        BY <1>1, <1>3
    <2> QED BY <1>4, <2>1
<1> QED BY <1>3, <1>5

LEMMA BoostsStep ==
    ASSUME MinGap = 1, RowsInv, BoostsInv, [Next]_vars
    PROVE  BoostsInv'
<1>0. Typed /\ InOrder /\ BoostsOnce /\ BoostsOnly /\ BoostsHold /\ Overtaken
    BY DEF RowsInv, BoostsInv
<1>1. CASE Collect
    <2>1. PICK r \in Readable :
              /\ rows' = Append(rows, r) /\ r.ts = now /\ current' = r /\ stage' = "stored"
              /\ Len(rows') = Len(rows) + 1 /\ rows'[Len(rows) + 1] = r
              /\ \A i \in 1..Len(rows) : rows'[i] = rows[i] /\ rows[i].ts < now
              /\ UNCHANGED <<boosts, unboosted, raced>>
        BY <1>1, Collected
    <2>2. Len(rows) \in Nat /\ stage = "idle"
        BY <1>0, <1>1, Rows DEF Collect
    <2>3. ASSUME NEW i \in Firsts
          PROVE  /\ i \in Firsts' /\ rows'[i] = rows[i] /\ rows'[i + 1] = rows[i + 1]
                 /\ (Turns(i)' <=> Turns(i)) /\ (Falls(i)' <=> Falls(i))
        <3>1. i \in Firsts' /\ rows'[i] = rows[i] /\ rows'[i + 1] = rows[i + 1]
            BY <1>0, <2>1, <2>2, Rows DEF Firsts
        <3> QED BY <3>1 DEF Turns, Falls
    <2>4. BoostsOnce'
        BY <1>0, <2>1 DEF BoostsOnce
    <2>5. BoostsOnly'
        BY <1>0, <2>1, <2>3 DEF BoostsOnly
    <2>6. ASSUME NEW i \in Firsts', Falls(i)'
          PROVE  \/ rows'[i + 1].ts \in Range(boosts) \cup unboosted
                 \/ stage' = "stored" /\ current'.ts = rows'[i + 1].ts
        <3>1. CASE i \in Firsts
            BY <1>0, <2>2, <2>3, <2>6, <3>1 DEF BoostsHold
        <3>2. CASE i \notin Firsts
            <4>1. i = Len(rows)
                BY <2>1, <2>2, <3>2 DEF Firsts
            <4> QED BY <2>1, <4>1
        <3> QED BY <3>1, <3>2
    <2>7. BoostsHold'
        BY <2>1, <2>6 DEF BoostsHold
    <2>8. now \notin Range(boosts)
        <3> SUFFICES ASSUME now \in Range(boosts) PROVE FALSE
            OBVIOUS
        <3>1. PICK i \in Firsts : now = rows[i + 1].ts
            BY <1>0 DEF BoostsOnly
        <3>2. rows[i + 1].ts < now /\ now \in Nat
            BY <1>0, <2>1, Rows DEF Typed
        <3> QED BY <3>1, <3>2
    <2>9. Overtaken'
        BY <2>1, <2>8 DEF Overtaken
    <2> QED BY <2>4, <2>5, <2>7, <2>9 DEF BoostsInv
<1>2. CASE CheckBoost
    <2>1. Checking /\ stage = "stored" /\ stage' = "overage" /\ UNCHANGED <<rows, current>>
          /\ UNCHANGED <<unboosted, raced>>
        BY <1>2 DEF CheckBoost, Checking, historyVars
    <2>2. now = current.ts /\ now \in Nat
        BY <1>0, <2>1, ClosingPrevious DEF Typed
    <2>3. CASE previous # None /\ IsBoost(previous, current)
        <3>1. boosts' = Append(boosts, now)
            BY <1>2, <2>3 DEF CheckBoost
        <3>2. /\ Len(boosts') = Len(boosts) + 1 /\ Len(boosts) \in Nat
              /\ \A i \in 1..Len(boosts) : boosts'[i] = boosts[i]
              /\ boosts'[Len(boosts) + 1] = now
              /\ Range(boosts') = Range(boosts) \cup {now}
            BY <1>0, <2>2, <3>1, AppendRange DEF Typed, Moments
        <3>3. ASSUME NEW i \in 1..Len(boosts), boosts[i] = now PROVE now \in raced
            <4>1. now \in Range(boosts)
                BY <1>0, <3>2, <3>3 DEF Range, Typed
            <4> QED BY <1>0, <2>1, <2>2, <4>1 DEF Overtaken
        <3>4. BoostsOnce'
            <4> SUFFICES ASSUME NEW i \in 1..Len(boosts'), NEW j \in 1..Len(boosts'),
                                boosts'[i] = boosts'[j], i # j
                         PROVE  boosts'[i] \in raced
                BY <2>1 DEF BoostsOnce
            <4>1. CASE i \in 1..Len(boosts) /\ j \in 1..Len(boosts)
                BY <1>0, <3>2, <4>1 DEF BoostsOnce
            <4>2. CASE i \notin 1..Len(boosts)
                <5>1. i = Len(boosts) + 1 /\ j \in 1..Len(boosts)
                    BY <3>2, <4>2
                <5> QED BY <3>2, <3>3, <5>1
            <4>3. CASE j \notin 1..Len(boosts)
                <5>1. j = Len(boosts) + 1 /\ i \in 1..Len(boosts)
                    BY <3>2, <4>3
                <5> QED BY <3>2, <3>3, <5>1
            <4> QED BY <4>1, <4>2, <4>3
        <3>5. BoostsOnly'
            <4> DEFINE k == Len(rows) - 1
            <4>1. k \in Firsts /\ previous = rows[k] /\ current = rows[k + 1]
                BY <2>1, <2>3, ClosingPrevious
            <4>2. ~Turns(k) /\ rows[k + 1].ts = now
                BY <2>2, <2>3, <4>1 DEF IsBoost, ResetsAtChanged, Turns
            <4> HIDE DEF k
            <4>3. \A t \in Range(boosts) \cup {now} :
                      \E i \in Firsts : ~Turns(i) /\ t = rows[i + 1].ts
                BY <1>0, <4>1, <4>2 DEF BoostsOnly
            <4> QED BY <2>1, <3>2, <4>3 DEF BoostsOnly, Firsts, Turns
        <3>6. BoostsHold'
            BY <1>0, <2>1, <2>2, <3>2 DEF BoostsHold, Firsts, Falls, Turns
        <3> QED BY <2>1, <3>4, <3>5, <3>6 DEF BoostsInv, Overtaken
    <2>4. CASE ~(previous # None /\ IsBoost(previous, current))
        <3>1. boosts' = boosts
            BY <1>2, <2>4 DEF CheckBoost
        <3>2. ASSUME NEW i \in Firsts, Falls(i), current.ts = rows[i + 1].ts PROVE FALSE
            <4>1. previous # None /\ previous = rows[i] /\ current = rows[i + 1]
                BY <2>1, <3>2, LastPair
            <4> QED BY <2>4, <3>2, <4>1 DEF Falls, Turns, IsBoost, ResetsAtChanged
        <3>3. BoostsHold'
            BY <1>0, <2>1, <3>1, <3>2 DEF BoostsHold, Firsts, Falls, Turns
        <3> QED
            BY <1>0, <2>1, <3>1, <3>3 DEF BoostsInv, BoostsOnce, BoostsOnly, Overtaken, Firsts, Turns
    <2> QED BY <2>3, <2>4
<1>3. CASE Rescan
    <2> DEFINE S == ScanBoosts \ Range(boosts)
    <2>1. PICK found \in Ascending(S) : boosts' = boosts \o found
        BY <1>3 DEF Rescan
    <2>2. S \in SUBSET Moments /\ IsFiniteSet(S)
        BY <1>0, ScansAreFinite, FS_Subset
    <2>3. raced \subseteq raced' /\ UNCHANGED <<rows, current, stage>>
        BY <1>3 DEF Rescan
    <2>4. S \cap Range(boosts) \subseteq raced'
        OBVIOUS
    <2> HIDE DEF S
    <2>5. BoostsOnce' /\ Range(boosts') = Range(boosts) \cup S
        BY <1>0, <2>1, <2>2, <2>3, <2>4, BoostsAdded
    <2>6. BoostsOnly'
        <3>1. \A t \in S : \E i \in Firsts : ~Turns(i) /\ t = rows[i + 1].ts
            BY Scans DEF S, Falls
        <3> QED BY <1>0, <2>3, <2>5, <3>1 DEF BoostsOnly, Firsts, Turns
    <2>7. BoostsHold'
        <3>1. \A i \in Firsts : Falls(i) => rows[i + 1].ts \in Range(boosts) \cup S
            BY Scans DEF S
        <3> QED BY <2>3, <2>5, <3>1 DEF BoostsHold, Firsts, Falls, Turns
    <2>8. Overtaken'
        BY <1>3 DEF Rescan, Overtaken
    <2> QED BY <2>5, <2>6, <2>7, <2>8 DEF BoostsInv
<1>4. ASSUME UNCHANGED <<rows, boosts, raced>>, unboosted \subseteq unboosted',
             stage' = "stored" => stage = "stored" /\ current' = current,
             stage = "stored" =>
                \/ stage' = "stored" /\ current' = current
                \/ current.ts \in Range(boosts) \cup unboosted'
      PROVE  BoostsInv'
    <2>1. BoostsOnce' /\ BoostsOnly' /\ Overtaken'
        BY <1>0, <1>4 DEF BoostsOnce, BoostsOnly, Overtaken, Firsts, Turns
    <2>2. BoostsHold'
        BY <1>0, <1>4 DEF BoostsHold, Firsts, Falls, Turns
    <2> QED BY <2>1, <2>2 DEF BoostsInv
<1>5. CASE OverageAnswered
    BY <1>4, <1>5 DEF OverageAnswered, eventVars, historyVars
<1>6. CASE OverageRejected
    BY <1>4, <1>6 DEF OverageRejected, eventVars
<1>7. CASE CheckWeekReset
    BY <1>4, <1>7 DEF CheckWeekReset
<1>8. CASE CheckNotify
    BY <1>4, <1>8 DEF CheckNotify
<1>9. CASE Die
    BY <1>4, <1>9 DEF Die, eventVars
<1>10. CASE Start
    BY <1>4, <1>10 DEF Start
<1>11. CASE Tick
    BY <1>4, <1>11 DEF Tick, eventVars, historyVars
<1>12. CASE UNCHANGED vars
    BY <1>4, <1>12 DEF vars
<1> QED BY <1>1, <1>2, <1>3, <1>5, <1>6, <1>7, <1>8, <1>9, <1>10, <1>11, <1>12 DEF Next

-----------------------------------------------------------------------------
LEMMA Initially == Init => IInv
<1> SUFFICES ASSUME Init PROVE IInv
    OBVIOUS
<1>1. rows = <<>> /\ boosts = <<>> /\ ledger = <<>> /\ stage = "idle" /\ now = 0
    BY DEF Init
<1>2. Firsts = {} /\ Range(boosts) = {} /\ Range(ledger) = {} /\ ~Checking
    BY <1>1 DEF Firsts, Range, Checking
<1>3. RowsInv
    BY <1>1, <1>2 DEF RowsInv, Typed, InOrder, Compared
<1>4. LedgerInv
    BY <1>1, <1>2 DEF LedgerInv, LedgerOnce, LedgerOnly, LedgerHolds
<1>5. BoostsInv
    BY <1>1, <1>2 DEF BoostsInv, BoostsOnce, BoostsOnly, BoostsHold, Overtaken
<1> QED BY <1>3, <1>4, <1>5 DEF IInv

(* The index forms say what the properties of the specification say. *)
LEMMA RecordsFollow == IInv => RecordsMatchHistory
<1> SUFFICES ASSUME IInv PROVE RecordsMatchHistory
    OBVIOUS
<1>0. /\ Typed /\ InOrder /\ LedgerOnce /\ LedgerOnly /\ LedgerHolds
      /\ BoostsOnce /\ BoostsOnly /\ BoostsHold
    BY DEF IInv, RowsInv, LedgerInv, BoostsInv
<1>1. Len(rows) \in Nat /\ Len(ledger) \in Nat
    BY <1>0 DEF Typed
<1>2. OneEventPerWeek
    <2> SUFFICES ASSUME NEW i \in 1..Len(ledger), NEW j \in 1..Len(ledger),
                        ledger[i].week = ledger[j].week
                 PROVE  i = j
        BY DEF OneEventPerWeek
    <2>1. ledger[i] \in ScanResets /\ ledger[j] \in ScanResets
        BY <1>0 DEF LedgerOnly, Range, Typed
    <2>2. PICK a \in Firsts : Turns(a) /\ ledger[i] = Closing(rows[a])
        BY <2>1, Scans
    <2>3. PICK b \in Firsts : Turns(b) /\ ledger[j] = Closing(rows[b])
        BY <2>1, Scans
    <2>4. /\ a \in 1..Len(rows) /\ a + 1 \in 1..Len(rows) /\ b \in 1..Len(rows)
          /\ b + 1 \in 1..Len(rows) /\ rows[a].week = rows[b].week
          /\ rows[a].week \in Nat /\ rows[a + 1].week \in Nat /\ rows[b + 1].week \in Nat
        BY <1>0, <2>2, <2>3, Rows
    <2>5. rows[a].week < rows[a + 1].week /\ rows[b].week < rows[b + 1].week
        BY <1>0, <2>2, <2>3, <2>4 DEF InOrder, Turns
    <2>6. ~(a < b)
        <3>1. a < b => rows[a + 1].week <= rows[b].week
            <4>1. a < b => a + 1 = b \/ a + 1 < b
                BY <2>4
            <4> QED BY <1>0, <2>4, <4>1 DEF InOrder
        <3> QED BY <2>4, <2>5, <3>1
    <2>7. ~(b < a)
        <3>1. b < a => rows[b + 1].week <= rows[a].week
            <4>1. b < a => b + 1 = a \/ b + 1 < a
                BY <2>4
            <4> QED BY <1>0, <2>4, <4>1 DEF InOrder
        <3> QED BY <2>4, <2>5, <3>1
    <2>8. a = b
        BY <2>4, <2>6, <2>7
    <2> QED BY <1>0, <2>2, <2>3, <2>8 DEF LedgerOnce
<1>3. ASSUME NEW p \in Pairs
      PROVE  \E i \in Firsts : p[1] = rows[i] /\ p[2] = rows[i + 1]
    BY <1>3 DEF Pairs, Firsts
<1>4. LedgerMatchesHistory
    <2> SUFFICES ASSUME NEW p \in Pairs, IsWeekReset(p[1], p[2])
                 PROVE  \/ \E i \in 1..Len(ledger) : ledger[i] = Closing(p[1])
                        \/ p[2].ts \in unledgered
                        \/ InFlight(p[2].ts) /\ stage # "notify"
        BY DEF LedgerMatchesHistory
    <2>1. PICK i \in Firsts : p[1] = rows[i] /\ p[2] = rows[i + 1]
        BY <1>3
    <2>2. Turns(i)
        BY <2>1 DEF IsWeekReset, ResetsAtChanged, Turns
    <2>3. Closing(p[1]) \in Range(ledger) => \E k \in 1..Len(ledger) : ledger[k] = Closing(p[1])
        BY <1>0 DEF Range, Typed
    <2> QED BY <1>0, <2>1, <2>2, <2>3 DEF LedgerHolds
<1>5. LedgerIsHistory
    BY <1>0 DEF LedgerIsHistory, LedgerOnly, Range, Typed
<1>6. BoostsMatchHistory
    <2>1. Range(boosts) \subseteq {p[2].ts : p \in {q \in Pairs : q[1].week = q[2].week}}
        <3> SUFFICES ASSUME NEW t \in Range(boosts)
                     PROVE  \E p \in Pairs : p[1].week = p[2].week /\ t = p[2].ts
            OBVIOUS
        <3>1. PICK i \in Firsts : ~Turns(i) /\ t = rows[i + 1].ts
            BY <1>0 DEF BoostsOnly
        <3>2. <<rows[i], rows[i + 1]>> \in Pairs
            BY DEF Pairs, Firsts
        <3> QED BY <3>1, <3>2 DEF Turns
    <2>2. \A p \in Pairs : p[1].week = p[2].week /\ p[1].pct - p[2].pct >= BoostMinDrop =>
              \/ p[2].ts \in Range(boosts) \cup unboosted
              \/ stage = "stored" /\ current.ts = p[2].ts
        BY <1>0, <1>3 DEF BoostsHold, Falls, Turns
    <2> QED BY <1>0, <2>1, <2>2 DEF BoostsMatchHistory, BoostsOnce
<1> QED BY <1>2, <1>4, <1>5, <1>6 DEF RecordsMatchHistory, LedgerIsTrue

(* The ledger and the boosts are what the stored rows say, each week's end *)
(* and each boost once, whenever the process dies and whenever a rescan    *)
(* runs, provided no two polls share a second.                             *)
THEOREM RecordsAreTrue ==
    ASSUME MinGap = 1
    PROVE  Spec => []RecordsMatchHistory
<1>1. Init => IInv
    BY Initially
<1>2. IInv /\ [Next]_vars => IInv'
    BY RowsStep, LedgerStep, BoostsStep DEF IInv, LedgerInv
<1>3. IInv => RecordsMatchHistory
    BY RecordsFollow
<1> QED BY <1>1, <1>2, <1>3, PTL DEF Spec

-----------------------------------------------------------------------------
(* Level crossings, whatever the distance of two polls.                    *)

Announcement == [key : (0..MaxWeek) \X Jitters, level : Thresholds]
CrossedInv ==
    /\ crossed \in Seq(Announcement)
    /\ Checking => current \in Readable
    /\ AnnouncedOnce

(* New events, no two alike and none among the old ones. *)
LEMMA JoinedOnce ==
    ASSUME NEW T, NEW s \in Seq(T), NEW l \in Seq(T),
           \A i, j \in 1..Len(s) : s[i] = s[j] => i = j,
           \A i, j \in 1..Len(l) : i < j => l[i] # l[j],
           \A i \in 1..Len(s), j \in 1..Len(l) : s[i] # l[j]
    PROVE  \A i, j \in 1..Len(s \o l) : (s \o l)[i] = (s \o l)[j] => i = j
<1>1. Len(s) \in Nat /\ Len(l) \in Nat
    OBVIOUS
<1>2. ASSUME NEW i \in 1..Len(s \o l), NEW j \in 1..Len(s \o l), i < j
      PROVE  (s \o l)[i] # (s \o l)[j]
    <2>1. CASE j \in 1..Len(s)
        <3>1. i \in 1..Len(s) /\ i # j
            BY <1>1, <1>2, <2>1
        <3> QED BY <2>1, <3>1, Joined
    <2>2. CASE j \notin 1..Len(s) /\ i \in 1..Len(s)
        <3>1. j - Len(s) \in 1..Len(l) /\ j = Len(s) + (j - Len(s))
            BY <1>1, <2>2, Joined
        <3> QED BY <2>2, <3>1, Joined
    <2>3. CASE i \notin 1..Len(s)
        <3>1. /\ i - Len(s) \in 1..Len(l) /\ i = Len(s) + (i - Len(s))
              /\ j - Len(s) \in 1..Len(l) /\ j = Len(s) + (j - Len(s))
              /\ i - Len(s) < j - Len(s)
            BY <1>1, <1>2, <2>3, Joined
        <3>2. (s \o l)[i] = l[i - Len(s)] /\ (s \o l)[j] = l[j - Len(s)]
            BY <3>1, Joined
        <3> QED BY <3>1, <3>2
    <2> QED BY <2>1, <2>2, <2>3
<1> SUFFICES ASSUME NEW i \in 1..Len(s \o l), NEW j \in 1..Len(s \o l),
                    (s \o l)[i] = (s \o l)[j]
             PROVE  i = j
    OBVIOUS
<1>3. ~(i < j) /\ ~(j < i)
    BY <1>2
<1> QED BY <1>1, <1>3, Joined

LEMMA Announced ==
    ASSUME CrossedInv, stage = "notify",
           NEW order \in Ascending(Crossings(previous, current)),
           crossed' = crossed \o
               [i \in DOMAIN order |-> [key |-> ResetsAt(current), level |-> order[i]]]
    PROVE  crossed' \in Seq(Announcement) /\ AnnouncedOnce'
<1> DEFINE name == ResetsAt(current)
           event(t) == [key |-> name, level |-> t]
           added == [i \in DOMAIN order |-> event(order[i])]
           S == Crossings(previous, current)
<1>1. name \in (0..MaxWeek) \X Jitters
    <2>1. current \in Readable
        BY DEF CrossedInv, Checking
    <2> QED BY <2>1 DEF ResetsAt, Readable
<1>2. S \subseteq Thresholds \ Fired(name) /\ IsFiniteSet(S)
    <2>1. S \subseteq Thresholds \ Fired(name)
        BY DEF Crossings
    <2>2. IsFiniteSet(Thresholds)
        BY ReadingsAssumption
    <2> QED BY <2>1, <2>2, FS_Subset
<1>3. Cardinality(S) \in Nat
    BY <1>2, FS_CardinalityType
<1>4. order \in [1..Cardinality(S) -> S] /\ \A i, j \in DOMAIN order : i < j => order[i] < order[j]
    BY DEF Ascending, Listings
<1>5. crossed \in Seq(Announcement) /\ \A i, j \in 1..Len(crossed) : crossed[i] = crossed[j] => i = j
    BY DEF CrossedInv, AnnouncedOnce
<1>6. \A t \in Thresholds : event(t) \in Announcement
    BY <1>1 DEF Announcement
<1>7. \A t, u : event(t) = event(u) => t = u
    <2> SUFFICES ASSUME NEW t, NEW u, event(t) = event(u) PROVE t = u
        OBVIOUS
    <2>1. event(t).level = t /\ event(u).level = u
        OBVIOUS
    <2> QED BY <2>1
<1>8. \A t \in S, i \in 1..Len(crossed) : crossed[i] # event(t)
    <2> SUFFICES ASSUME NEW t \in S, NEW i \in 1..Len(crossed), crossed[i] = event(t)
                 PROVE  FALSE
        OBVIOUS
    <2>1. crossed[i] \in Range(crossed) /\ crossed[i].key = name /\ crossed[i].level = t
        BY <1>5 DEF Range
    <2>2. t \in Fired(name)
        BY <2>1 DEF Fired
    <2> QED BY <1>2, <2>2
<1>9. crossed' = crossed \o added
    OBVIOUS
<1> HIDE DEF name, event, S
<1>10. /\ added \in Seq(Announcement) /\ Len(added) = Len(order) /\ Len(order) \in Nat
       /\ \A i \in 1..Len(order) : added[i] = event(order[i]) /\ order[i] \in S
    <2>1. DOMAIN order = 1..Len(order) /\ Len(order) = Cardinality(S)
          /\ \A i \in 1..Len(order) : order[i] \in S /\ order[i] \in Thresholds
        BY <1>2, <1>3, <1>4
    <2>2. \A i \in 1..Len(order) : event(order[i]) \in Announcement
        BY <1>6, <2>1
    <2>3. added \in [1..Len(order) -> Announcement]
        BY <2>1, <2>2
    <2>4. added \in Seq(Announcement) /\ Len(added) = Len(order)
        BY <1>3, <2>1, <2>3
    <2> QED BY <1>3, <2>1, <2>4
<1> HIDE DEF added
<1>11. ASSUME NEW i \in 1..Len(added), NEW j \in 1..Len(added), i < j
       PROVE  added[i] # added[j]
    <2>1. order[i] < order[j] /\ order[i] \in Nat
        <3>1. Thresholds \subseteq Nat
            BY ReadingsAssumption
        <3>2. i \in DOMAIN order /\ j \in DOMAIN order
            BY <1>3, <1>4, <1>10
        <3>3. order[i] \in Nat
            BY <1>2, <1>10, <3>1
        <3> QED BY <1>4, <1>11, <3>2, <3>3
    <2>2. order[i] # order[j]
        BY <2>1
    <2> QED BY <1>7, <1>10, <2>2
<1>12. \A i \in 1..Len(crossed), j \in 1..Len(added) : crossed[i] # added[j]
    BY <1>8, <1>10
<1>13. crossed \o added \in Seq(Announcement)
    BY <1>5, <1>10
<1>14. \A i, j \in 1..Len(crossed \o added) : (crossed \o added)[i] = (crossed \o added)[j] => i = j
    BY <1>5, <1>10, <1>11, <1>12, JoinedOnce
<1> QED BY <1>9, <1>13, <1>14 DEF AnnouncedOnce

(* A level is announced at most once for one resets_at: the events of      *)
(* earlier polls, and of earlier processes, are looked up.                 *)
THEOREM CrossingsAreAnnouncedOnce == Spec => []AnnouncedOnce
<1>1. Init => CrossedInv
    BY DEF Init, CrossedInv, Checking, AnnouncedOnce
<1>2. CrossedInv /\ [Next]_vars => CrossedInv'
    <2> SUFFICES ASSUME CrossedInv, [Next]_vars PROVE CrossedInv'
        OBVIOUS
    <2>1. ASSUME UNCHANGED crossed, Checking' => current' \in Readable
          PROVE  CrossedInv'
        BY <2>1 DEF CrossedInv, AnnouncedOnce
    <2>2. CASE Collect
        BY <2>1, <2>2 DEF Collect, Answer, eventVars
    <2>3. CASE CheckBoost
        BY <2>1, <2>3 DEF CheckBoost, CrossedInv, Checking
    <2>4. CASE Rescan
        BY <2>1, <2>4 DEF Rescan, CrossedInv, Checking
    <2>5. CASE OverageAnswered
        BY <2>1, <2>5 DEF OverageAnswered, CrossedInv, Checking, eventVars
    <2>6. CASE OverageRejected
        BY <2>1, <2>6 DEF OverageRejected, Checking, eventVars
    <2>7. CASE CheckWeekReset
        BY <2>1, <2>7 DEF CheckWeekReset, CrossedInv, Checking
    <2>8. CASE CheckNotify
        <3>1. stage = "notify" /\ ~Checking'
            BY <2>8 DEF CheckNotify, Checking
        <3>2. CASE UNCHANGED crossed
            BY <2>1, <3>1, <3>2
        <3>3. CASE \E order \in Ascending(Crossings(previous, current)) :
                      crossed' = crossed \o
                        [i \in DOMAIN order |-> [key |-> ResetsAt(current), level |-> order[i]]]
            BY <3>1, <3>3, Announced DEF CrossedInv
        <3> QED BY <2>8, <3>2, <3>3 DEF CheckNotify
    <2>9. CASE Die
        BY <2>1, <2>9 DEF Die, Checking, eventVars
    <2>10. CASE Start
        BY <2>1, <2>10 DEF Start, Checking
    <2>11. CASE Tick
        BY <2>1, <2>11 DEF Tick, CrossedInv, Checking, eventVars
    <2>12. CASE UNCHANGED vars
        BY <2>1, <2>12 DEF vars, CrossedInv, Checking
    <2> QED
        BY <2>2, <2>3, <2>4, <2>5, <2>6, <2>7, <2>8, <2>9, <2>10, <2>11, <2>12 DEF Next
<1>3. CrossedInv => AnnouncedOnce
    BY DEF CrossedInv
<1> QED BY <1>1, <1>2, <1>3, PTL DEF Spec
=============================================================================
