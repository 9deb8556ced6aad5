--------------------------- MODULE SessionsProofs ---------------------------
(***************************************************************************)
(* The session history, for any lengths, tolerances, jitters and periods   *)
(* and any number of polls, rebuilds, deaths, prunes and forgets, if no    *)
(* two polls share a second.                                               *)
(*                                                                         *)
(* What the loop over the rows groups is said without a loop (GroupsAre):  *)
(* the rows of one expiry of the vendor, under the first of them.  It is    *)
(* shown for the first second at which it would be wrong.                  *)
(*                                                                         *)
(* With jitter and nothing deleted, the table holds windows of the rows,   *)
(* and all of them that are older than one it holds, as they still derive  *)
(* (TableOf): so the tail, which holds every row of the two newest, makes  *)
(* up what is missing.                                                     *)
(*                                                                         *)
(* With deletions, a window in the table or on its way to it was forgotten *)
(* or can be derived or began before all rows (Accounted), and overlaps no *)
(* other (OfItsOwn): so what a start drops was forgotten.                  *)
(***************************************************************************)
EXTENDS Sessions, FiniteSetTheorems, WellFoundedInduction, TLAPS

(* A set of natural numbers has a smallest element. *)
LEMMA LeastThereIs ==
    ASSUME NEW N \in SUBSET Nat, N # {}
    PROVE  \E x \in N : \A y \in N : x <= y
<1> DEFINE R == OpToRel(<, Nat)
<1>1. \A x, y \in Nat : <<x, y>> \in R <=> x < y
    BY DEF OpToRel
<1>2. IsWellFoundedOn(R, Nat)
    BY NatLessThanWellFounded
<1> HIDE DEF R
<1>3. PICK x \in N : \A y \in N : ~(<<y, x>> \in R)
    BY <1>2, WFMin
<1>4. ASSUME NEW y \in N PROVE x <= y
    <2>1. x \in Nat /\ y \in Nat /\ ~(<<y, x>> \in R)
        BY <1>3
    <2>2. ~(y < x)
        BY <1>1, <2>1
    <2> QED BY <2>1, <2>2
<1> QED BY <1>4

LEMMA LargestThereIs ==
    ASSUME NEW n \in Nat, NEW N \in SUBSET (0..n), N # {}
    PROVE  \E x \in N : \A y \in N : y <= x
<1> DEFINE Below == {n - x : x \in N}
<1>1. Below \in SUBSET Nat /\ Below # {}
    <2>1. \A x \in N : n - x \in Nat
        OBVIOUS
    <2> QED BY <2>1
<1>2. PICK b \in Below : \A y \in Below : b <= y
    BY <1>1, LeastThereIs
<1>3. PICK x \in N : b = n - x
    OBVIOUS
<1>4. ASSUME NEW y \in N PROVE y <= x
    <2>1. n - y \in Below
        OBVIOUS
    <2>2. n - x <= n - y
        BY <1>2, <1>3, <2>1
    <2>3. x \in Int /\ y \in Int
        OBVIOUS
    <2> HIDE DEF Below
    <2> QED BY <2>2, <2>3
<1> QED BY <1>4

LEMMA MaxIs ==
    ASSUME NEW S \in SUBSET Int, NEW m \in S, \A y \in S : y <= m
    PROVE  Max(S) = m
<1>1. Max(S) \in S /\ \A y \in S : Max(S) >= y
    <2>1. \A y \in S : m >= y
        OBVIOUS
    <2> QED BY <2>1 DEF Max
<1>2. Max(S) <= m /\ Max(S) >= m /\ Max(S) \in Int
    BY <1>1
<1> QED BY <1>2

LEMMA MinIs ==
    ASSUME NEW S \in SUBSET Int, NEW m \in S, \A y \in S : m <= y
    PROVE  Min(S) = m
<1>1. Min(S) \in S /\ \A y \in S : Min(S) =< y
    BY DEF Min
<1>2. Min(S) <= m /\ Min(S) >= m /\ Min(S) \in Int
    BY <1>1
<1> QED BY <1>2

(***************************************************************************)
(* Rows.                                                                   *)
(***************************************************************************)
Live(rows) == {r \in rows : r.ends # None}

(* A row is taken while the window runs or after it, and two windows are   *)
(* further apart than a session is long.                                   *)
Honest(rows) ==
    /\ \A r \in rows : r.ts \in 0..now
    /\ \A p, q \in rows : p.ts = q.ts => p = q
    /\ \A r \in Live(rows) :
         /\ r.ends \in Int /\ r.of \in Int
         /\ r.of <= r.ends /\ r.ends <= r.of + Tolerance
         /\ r.of - Length <= r.ts
    /\ \A p, q \in Live(rows) : p.of < q.of => p.of <= q.of - Length /\ p.ts < q.ts

(* The first row of a window, and its group as it is at a moment. *)
Firsts(rows) == {f \in Live(rows) : \A r \in Live(rows) : r.of = f.of => f.ts <= r.ts}

GroupAt(rows, f, t) ==
    [ref  |-> f.ends,
     rows |-> {r \in Live(rows) : r.of = f.of /\ r.ts <= t /\ r.ts <= f.ends + Tolerance}]

GroupsTo(rows, gs, t) ==
    /\ gs \in Seq([ref : Int, rows : SUBSET rows])
    /\ \A i \in DOMAIN gs : \E f \in Firsts(rows) : f.ts <= t /\ gs[i] = GroupAt(rows, f, t)
    /\ \A f \in Firsts(rows) : f.ts <= t => \E i \in DOMAIN gs : gs[i] = GroupAt(rows, f, t)
    /\ \A i, j \in DOMAIN gs : gs[i].ref = gs[j].ref => i = j

(* Of the firsts of two windows one is later by more than a jitter can be. *)
LEMMA FirstsApart ==
    ASSUME SessionsAssumption, now \in Nat, NEW rows, Honest(rows),
           NEW p \in Live(rows), NEW q \in Live(rows)
    PROVE  /\ p.of = q.of <=> Near(p.ends, q.ends)
           /\ p.of < q.of <=> p.ends < q.ends - Tolerance
           /\ p.of < q.of => p.ends + Length - Tolerance <= q.ends
BY DEF SessionsAssumption, Honest, Near

LEMMA FirstThereIs ==
    ASSUME now \in Nat, NEW rows, Honest(rows), NEW r \in Live(rows)
    PROVE  \E f \in Firsts(rows) : f.of = r.of /\ f.ts <= r.ts
<1> DEFINE Times == {p.ts : p \in {q \in Live(rows) : q.of = r.of}}
<1>1. Times \in SUBSET Nat /\ Times # {}
    BY DEF Honest, Live
<1>2. PICK x \in Times : \A y \in Times : x <= y
    <2> HIDE DEF Times
    <2> QED BY <1>1, LeastThereIs
<1>3. PICK f \in Live(rows) : f.of = r.of /\ f.ts = x
    OBVIOUS
<1>4. \A q \in Live(rows) : q.of = r.of => f.ts <= q.ts
    BY <1>2, <1>3
<1> QED BY <1>3, <1>4 DEF Firsts

LEMMA FirstIsOne ==
    ASSUME now \in Nat, NEW rows, Honest(rows), NEW f \in Firsts(rows), NEW g \in Firsts(rows), f.of = g.of
    PROVE  f = g
<1>1. f.ts <= g.ts /\ g.ts <= f.ts /\ f.ts \in Int /\ g.ts \in Int
    BY DEF Firsts, Honest, Live
<1> QED BY <1>1 DEF Firsts, Honest, Live

(* Nothing happens in a second without a row. *)
LEMMA QuietSecond ==
    ASSUME now \in Nat, NEW rows, Honest(rows), NEW t \in 0..now, NEW gs, GroupsTo(rows, gs, t - 1),
           \A r \in Live(rows) : r.ts # t
    PROVE  GroupsTo(rows, gs, t)
<1>1. \A r \in Live(rows) : r.ts \in Int
    BY DEF Honest, Live
<1>2. \A r \in Live(rows) : r.ts <= t <=> r.ts <= t - 1
    BY <1>1
<1>3. \A f \in Firsts(rows) : GroupAt(rows, f, t) = GroupAt(rows, f, t - 1)
    BY <1>2 DEF GroupAt
<1>4. \A f \in Firsts(rows) : f.ts <= t <=> f.ts <= t - 1
    BY <1>2 DEF Firsts
<1> QED BY <1>3, <1>4 DEF GroupsTo

(* A row that is not the first of its window finds its group. *)
LEMMA JoinsItsGroup ==
    ASSUME SessionsAssumption, now \in Nat, NEW rows, Honest(rows), NEW t \in 0..now,
           NEW gs, GroupsTo(rows, gs, t - 1),
           NEW row \in Live(rows), row.ts = t, row \notin Firsts(rows)
    PROVE  GroupsTo(rows, Joined(gs, row), t)
<1>0. \A r \in Live(rows) : r.ts \in Int /\ r.ends \in Int /\ r.of \in Int
    BY DEF Honest, Live
<1>1. PICK f \in Firsts(rows) : f.of = row.of /\ f.ts <= row.ts
    BY FirstThereIs
<1>2. f \in Live(rows) /\ row # f
    BY <1>1 DEF Firsts
<1>3. f.ts # row.ts /\ f.ts <= t - 1
    BY <1>0, <1>1, <1>2 DEF Honest, Live
<1>4. PICK i \in DOMAIN gs : gs[i] = GroupAt(rows, f, t - 1)
    BY <1>3 DEF GroupsTo
<1>5. gs[i].ref = f.ends
    BY <1>4 DEF GroupAt
<1>6. {j \in DOMAIN gs : Near(row.ends, gs[j].ref)} = {i}
    <2>1. Near(row.ends, gs[i].ref)
        BY <1>1, <1>2, <1>5, FirstsApart
    <2>2. ASSUME NEW j \in DOMAIN gs, Near(row.ends, gs[j].ref) PROVE j = i
        <3>1. PICK g \in Firsts(rows) : gs[j] = GroupAt(rows, g, t - 1)
            BY DEF GroupsTo
        <3>2. g \in Live(rows) /\ gs[j].ref = g.ends
            BY <3>1 DEF Firsts, GroupAt
        <3>3. row.of = g.of
            BY <2>2, <3>2, FirstsApart
        <3>4. g = f
            BY <1>1, <3>3, FirstIsOne
        <3> QED BY <1>5, <3>2, <3>4 DEF GroupsTo
    <2> QED BY <2>1, <2>2
<1>7. i \in Int /\ Max({i}) = i
    <2>1. i \in Int
        BY DEF GroupsTo
    <2> QED BY <2>1, MaxIs
<1>8. Joined(gs, row) = IF row.ts > f.ends + Tolerance THEN gs
                        ELSE [gs EXCEPT ![i].rows = @ \cup {row}]
    BY <1>5, <1>6, <1>7 DEF Joined
<1>9. \A r \in Live(rows) : r.ts <= t <=> r.ts <= t - 1 \/ r = row
    <2>1. \A r \in Live(rows) : r.ts = t => r = row
        BY DEF Honest, Live
    <2> QED BY <1>0, <2>1
<1>10. \A g \in Firsts(rows) : g.ts <= t <=> g.ts <= t - 1
    BY <1>9 DEF Firsts
<1>11. \A g \in Firsts(rows) : g # f => GroupAt(rows, g, t) = GroupAt(rows, g, t - 1)
    <2>1. ASSUME NEW g \in Firsts(rows), g # f PROVE g.of # row.of
        BY <1>1, <2>1, FirstIsOne
    <2> QED BY <1>9, <2>1 DEF GroupAt
<1>12. GroupAt(rows, f, t) =
          IF row.ts > f.ends + Tolerance THEN GroupAt(rows, f, t - 1)
          ELSE [GroupAt(rows, f, t - 1) EXCEPT !.rows = @ \cup {row}]
    <2>0. f.ends + Tolerance \in Int
        BY <1>0, <1>2 DEF SessionsAssumption
    <2>1. CASE row.ts > f.ends + Tolerance
        <3>1. ~(row.ts <= f.ends + Tolerance)
            BY <1>0, <2>0, <2>1
        <3> QED BY <1>9, <2>1, <3>1 DEF GroupAt
    <2>2. CASE ~(row.ts > f.ends + Tolerance)
        <3>1. row.ts <= f.ends + Tolerance
            BY <1>0, <2>0, <2>2
        <3>2. GroupAt(rows, f, t).rows = GroupAt(rows, f, t - 1).rows \cup {row}
            BY <1>1, <1>9, <3>1 DEF GroupAt
        <3> QED BY <2>2, <3>2 DEF GroupAt
    <2> QED BY <2>1, <2>2
<1> DEFINE more == Joined(gs, row)
<1>13. /\ DOMAIN more = DOMAIN gs
       /\ more[i] = GroupAt(rows, f, t)
       /\ \A j \in DOMAIN gs : j # i => more[j] = gs[j]
    BY <1>4, <1>8, <1>12
<1>14. \A j \in DOMAIN gs : more[j].ref = gs[j].ref
    BY <1>4, <1>13 DEF GroupAt
<1>15. more \in Seq([ref : Int, rows : SUBSET rows])
    <2>1. GroupAt(rows, f, t) \in [ref : Int, rows : SUBSET rows]
        BY <1>0, <1>2 DEF GroupAt, Live
    <2>2. gs \in Seq([ref : Int, rows : SUBSET rows])
        BY DEF GroupsTo
    <2>3. more = [gs EXCEPT ![i] = GroupAt(rows, f, t)]
        <3>1. CASE row.ts > f.ends + Tolerance
            BY <1>4, <1>8, <1>12, <2>2, <3>1
        <3>2. CASE ~(row.ts > f.ends + Tolerance)
            <4>1. more = [gs EXCEPT ![i] = [gs[i] EXCEPT !.rows = @ \cup {row}]]
                BY <1>8, <3>2
            <4> QED BY <1>4, <1>12, <3>2, <4>1
        <3> QED BY <3>1, <3>2
    <2> HIDE DEF more
    <2> QED BY <2>1, <2>2, <2>3
<1> HIDE DEF more
<1>16. \A j \in DOMAIN more : \E g \in Firsts(rows) : g.ts <= t /\ more[j] = GroupAt(rows, g, t)
    <2> SUFFICES ASSUME NEW j \in DOMAIN gs
                 PROVE  \E g \in Firsts(rows) : g.ts <= t /\ more[j] = GroupAt(rows, g, t)
        BY <1>13
    <2>1. CASE j = i
        BY <1>1, <1>3, <1>10, <1>13, <2>1
    <2>2. CASE j # i
        <3>1. PICK g \in Firsts(rows) : g.ts <= t - 1 /\ gs[j] = GroupAt(rows, g, t - 1)
            BY DEF GroupsTo
        <3>2. g # f
            <4>1. gs[j].ref = g.ends
                BY <3>1 DEF GroupAt
            <4> QED BY <1>5, <2>2, <4>1 DEF GroupsTo
        <3> QED BY <1>10, <1>11, <1>13, <2>2, <3>1, <3>2
    <2> QED BY <2>1, <2>2
<1>17. \A g \in Firsts(rows) : g.ts <= t => \E j \in DOMAIN more : more[j] = GroupAt(rows, g, t)
    <2> SUFFICES ASSUME NEW g \in Firsts(rows), g.ts <= t, g # f
                 PROVE  \E j \in DOMAIN more : more[j] = GroupAt(rows, g, t)
        BY <1>13
    <2>1. PICK j \in DOMAIN gs : gs[j] = GroupAt(rows, g, t - 1)
        BY <1>10 DEF GroupsTo
    <2>2. j # i
        <3>1. gs[j].ref = g.ends /\ g \in Live(rows)
            BY <2>1 DEF GroupAt, Firsts
        <3>2. ASSUME g.ends = f.ends PROVE FALSE
            <4>1. Near(g.ends, f.ends)
                BY <1>0, <1>2, <3>1, <3>2 DEF Near, SessionsAssumption
            <4>2. g.of = f.of
                BY <1>2, <3>1, <4>1, FirstsApart
            <4> QED BY <4>2, FirstIsOne
        <3> QED BY <1>5, <3>1, <3>2
    <2> QED BY <1>11, <1>13, <2>1, <2>2
<1>18. \A j, k \in DOMAIN more : more[j].ref = more[k].ref => j = k
    BY <1>13, <1>14 DEF GroupsTo
<1>19. GroupsTo(rows, more, t)
    BY <1>15, <1>16, <1>17, <1>18 DEF GroupsTo
<1> QED BY <1>19 DEF more

(* The first row of a window opens its group. *)
LEMMA OpensAGroup ==
    ASSUME SessionsAssumption, now \in Nat, NEW rows, Honest(rows), NEW t \in 0..now,
           NEW gs, GroupsTo(rows, gs, t - 1),
           NEW row \in Firsts(rows), row.ts = t
    PROVE  GroupsTo(rows, Joined(gs, row), t)
<1>0. \A r \in Live(rows) : r.ts \in Int /\ r.ends \in Int /\ r.of \in Int
    BY DEF Honest, Live
<1>1. row \in Live(rows)
    BY DEF Firsts
<1>2. gs \in Seq([ref : Int, rows : SUBSET rows])
    BY DEF GroupsTo
<1>3. \A i \in DOMAIN gs : \E g \in Firsts(rows) :
         /\ g.ts <= t - 1 /\ g.of # row.of /\ g \in Live(rows)
         /\ gs[i] = GroupAt(rows, g, t - 1) /\ gs[i].ref = g.ends
    <2> TAKE i \in DOMAIN gs
    <2>1. PICK g \in Firsts(rows) : g.ts <= t - 1 /\ gs[i] = GroupAt(rows, g, t - 1)
        BY DEF GroupsTo
    <2>2. g \in Live(rows) /\ gs[i].ref = g.ends
        BY <2>1 DEF Firsts, GroupAt
    <2>3. ASSUME g.of = row.of PROVE FALSE
        <3>1. g = row
            BY <2>3, FirstIsOne
        <3> QED BY <1>0, <2>1, <2>2, <3>1
    <2> QED BY <2>1, <2>2, <2>3
<1>4. {j \in DOMAIN gs : Near(row.ends, gs[j].ref)} = {}
    <2>1. ASSUME NEW j \in DOMAIN gs, Near(row.ends, gs[j].ref) PROVE FALSE
        <3>1. PICK g \in Firsts(rows) : g.of # row.of /\ g \in Live(rows) /\ gs[j].ref = g.ends
            BY <1>3
        <3> QED BY <1>1, <2>1, <3>1, FirstsApart
    <2> QED BY <2>1
<1> DEFINE n == Len(gs) + 1
           opened == Append(gs, [ref |-> row.ends, rows |-> {}])
           more == Joined(gs, row)
<1>5. Len(gs) \in Nat /\ DOMAIN gs = 1..Len(gs) /\ n \notin DOMAIN gs /\ n \in Nat
    BY <1>2
<1>6. /\ opened \in Seq([ref : Int, rows : SUBSET rows])
      /\ Len(opened) = n /\ DOMAIN opened = DOMAIN gs \cup {n}
      /\ opened[n] = [ref |-> row.ends, rows |-> {}]
      /\ \A j \in DOMAIN gs : opened[j] = gs[j]
    BY <1>0, <1>1, <1>2, <1>5
<1>7. more = IF row.ts > row.ends + Tolerance THEN opened
             ELSE [opened EXCEPT ![n].rows = @ \cup {row}]
    BY <1>4, <1>6 DEF Joined
<1>8. \A r \in Live(rows) : r.ts <= t <=> r.ts <= t - 1 \/ r = row
    <2>1. \A r \in Live(rows) : r.ts = t => r = row
        BY <1>1 DEF Honest, Live
    <2> QED BY <1>0, <1>1, <2>1
<1>9. \A g \in Firsts(rows) : g.ts <= t <=> g.ts <= t - 1 \/ g = row
    BY <1>8 DEF Firsts
<1>10. \A g \in Firsts(rows) : g.of # row.of => GroupAt(rows, g, t) = GroupAt(rows, g, t - 1)
    BY <1>8 DEF GroupAt
<1>11. GroupAt(rows, row, t) =
          [ref |-> row.ends, rows |-> IF row.ts > row.ends + Tolerance THEN {} ELSE {row}]
    <2>1. \A r \in Live(rows) : r.of = row.of /\ r.ts <= t <=> r = row
        BY <1>0, <1>1, <1>8 DEF Firsts
    <2>2. row.ends + Tolerance \in Int
        BY <1>0, <1>1 DEF SessionsAssumption
    <2>3. row.ts > row.ends + Tolerance <=> ~(row.ts <= row.ends + Tolerance)
        BY <1>0, <1>1, <2>2
    <2>4. {r \in Live(rows) : r.of = row.of /\ r.ts <= t /\ r.ts <= row.ends + Tolerance}
             = IF row.ts > row.ends + Tolerance THEN {} ELSE {row}
        BY <1>1, <2>1, <2>3
    <2> QED BY <2>4 DEF GroupAt
<1>12. /\ more = [opened EXCEPT ![n] = GroupAt(rows, row, t)]
    <2>1. CASE row.ts > row.ends + Tolerance
        <3>1. more = opened /\ GroupAt(rows, row, t) = opened[n]
            BY <1>6, <1>7, <1>11, <2>1
        <3> HIDE DEF opened, more, n
        <3>2. opened = [j \in 1..Len(opened) |-> opened[j]] /\ n \in 1..Len(opened)
            <4>1. opened \in Seq([ref : Int, rows : SUBSET rows]) /\ Len(opened) = n /\ n \in Nat \ {0}
                <5>1. n \in Nat \ {0}
                    BY <1>5 DEF n
                <5> QED BY <1>6, <5>1
            <4> QED BY <4>1
        <3>3. opened = [opened EXCEPT ![n] = opened[n]]
            BY <3>2
        <3> QED BY <3>1, <3>3
    <2>2. CASE ~(row.ts > row.ends + Tolerance)
        <3>1. more = [opened EXCEPT ![n] = [opened[n] EXCEPT !.rows = @ \cup {row}]]
            BY <1>7, <2>2
        <3>2. [opened[n] EXCEPT !.rows = @ \cup {row}] = GroupAt(rows, row, t)
            <4> HIDE DEF opened, more, n
            <4>1. opened[n] = [ref |-> row.ends, rows |-> {}]
                  /\ GroupAt(rows, row, t) = [ref |-> row.ends, rows |-> {row}]
                BY <1>6, <1>11, <2>2
            <4> QED BY <4>1
        <3> QED BY <3>1, <3>2
    <2> QED BY <2>1, <2>2
<1>13. GroupAt(rows, row, t) \in [ref : Int, rows : SUBSET rows]
    BY <1>0, <1>1 DEF GroupAt, Live
<1> HIDE DEF opened, more, n
<1>14. /\ more \in Seq([ref : Int, rows : SUBSET rows])
       /\ DOMAIN more = DOMAIN gs \cup {n}
       /\ more[n] = GroupAt(rows, row, t)
       /\ \A j \in DOMAIN gs : more[j] = gs[j]
    BY <1>5, <1>6, <1>12, <1>13
<1>15. \A j \in DOMAIN more : \E g \in Firsts(rows) : g.ts <= t /\ more[j] = GroupAt(rows, g, t)
    <2> TAKE j \in DOMAIN more
    <2>1. CASE j = n
        BY <1>0, <1>1, <1>14, <2>1
    <2>2. CASE j # n
        BY <1>3, <1>9, <1>10, <1>14, <2>2
    <2> QED BY <2>1, <2>2
<1>16. \A g \in Firsts(rows) : g.ts <= t => \E j \in DOMAIN more : more[j] = GroupAt(rows, g, t)
    <2> SUFFICES ASSUME NEW g \in Firsts(rows), g.ts <= t, g # row
                 PROVE  \E j \in DOMAIN more : more[j] = GroupAt(rows, g, t)
        BY <1>14
    <2>1. g.ts <= t - 1 /\ g.of # row.of
        BY <1>9, FirstIsOne
    <2>2. PICK j \in DOMAIN gs : gs[j] = GroupAt(rows, g, t - 1)
        BY <2>1 DEF GroupsTo
    <2> QED BY <1>10, <1>14, <2>1, <2>2
<1>17. \A j, k \in DOMAIN more : more[j].ref = more[k].ref => j = k
    <2>1. \A j \in DOMAIN gs : more[j].ref # more[n].ref
        <3> TAKE j \in DOMAIN gs
        <3>1. PICK g \in Firsts(rows) : g.of # row.of /\ g \in Live(rows) /\ gs[j].ref = g.ends
            BY <1>3
        <3>2. more[n].ref = row.ends /\ more[j].ref = g.ends
            BY <1>14, <3>1 DEF GroupAt
        <3>3. ASSUME g.ends = row.ends PROVE FALSE
            <4>1. Near(g.ends, row.ends)
                BY <1>0, <1>1, <3>1, <3>3 DEF Near, SessionsAssumption
            <4> QED BY <1>1, <3>1, <4>1, FirstsApart
        <3> QED BY <3>2, <3>3
    <2>2. \A j, k \in DOMAIN gs : more[j].ref = more[k].ref => j = k
        BY <1>14 DEF GroupsTo
    <2> QED BY <1>14, <2>1, <2>2
<1>18. GroupsTo(rows, more, t)
    BY <1>14, <1>15, <1>16, <1>17 DEF GroupsTo
<1> QED BY <1>18 DEF more

(***************************************************************************)
(* The grouping, and what derives from it.                                 *)
(***************************************************************************)
Before(f, t) == IF t = 0 THEN <<>> ELSE f[t - 1]

RowsAt(rows, t) == {r \in rows : r.ts = t}

\* One second of the grouping.
Second(rows, gs, t) ==
    IF RowsAt(rows, t) = {} THEN gs ELSE Joined(gs, CHOOSE r \in RowsAt(rows, t) : TRUE)

LEMMA GroupedIs ==
    ASSUME now \in Nat, NEW rows
    PROVE  \E f : /\ Grouped(rows) = f[now]
                  /\ \A t \in 0..now : f[t] = Second(rows, Before(f, t), t)
<1> DEFINE Is(n, f) == f = [t \in 0..n |-> Second(rows, Before(f, t), t)]
           Stuck == {n \in 0..now : \A f : ~Is(n, f)}
<1>1. Stuck = {}
    <2> SUFFICES ASSUME Stuck # {} PROVE FALSE
        OBVIOUS
    <2>1. Stuck \in SUBSET Nat
        OBVIOUS
    <2>2. PICK n \in Stuck : \A m \in Stuck : n <= m
        <3> HIDE DEF Stuck
        <3> QED BY <2>1, LeastThereIs
    <2>3. n \in 0..now /\ n \in Nat
        OBVIOUS
    <2>4. CASE n = 0
        <3> DEFINE f == [t \in 0..0 |-> Second(rows, <<>>, 0)]
        <3>1. f = [t \in 0..0 |-> Second(rows, Before(f, t), t)]
            BY DEF Before
        <3> QED BY <2>4, <3>1
    <2>5. CASE n # 0
        <3>1. n - 1 \in 0..now /\ ~(n <= n - 1)
            BY <2>3, <2>5
        <3>2. n - 1 \notin Stuck
            BY <2>2, <3>1
        <3>3. PICK g : Is(n - 1, g)
            BY <3>1, <3>2
        <3> DEFINE f == [t \in 0..n |-> IF t = n THEN Second(rows, Before(g, n), n) ELSE g[t]]
        <3>4. ASSUME NEW t \in 0..n PROVE f[t] = Second(rows, Before(f, t), t)
            <4>1. CASE t = n
                <5>1. n - 1 \in 0..n /\ n - 1 # n
                    BY <2>3, <2>5
                <5>2. f[n - 1] = g[n - 1]
                    BY <5>1
                <5>3. f[n] = Second(rows, Before(g, n), n)
                    BY <2>3
                <5> HIDE DEF f
                <5>4. Before(f, n) = Before(g, n)
                    BY <2>5, <5>2 DEF Before
                <5> QED BY <4>1, <5>3, <5>4
            <4>2. CASE t # n
                <5>1. t \in 0..n - 1 /\ (t # 0 => t - 1 \in 0..n /\ t - 1 # n)
                    BY <2>3, <4>2
                <5>2. f[t] = g[t] /\ g[t] = Second(rows, Before(g, t), t)
                    BY <3>3, <4>2, <5>1
                <5>3. t # 0 => f[t - 1] = g[t - 1]
                    BY <5>1
                <5> HIDE DEF f
                <5>4. Before(f, t) = Before(g, t)
                    BY <5>3 DEF Before
                <5> QED BY <5>2, <5>4
            <4> QED BY <4>1, <4>2
        <3>5. Is(n, f)
            <4>1. f = [t \in 0..n |-> f[t]]
                OBVIOUS
            <4> HIDE DEF f
            <4> QED BY <3>4, <4>1
        <3> HIDE DEF f, Is
        <3> QED BY <2>2, <3>5
    <2> QED BY <2>4, <2>5
<1>2. \E f : Is(now, f)
    <2>1. now \in 0..now
        OBVIOUS
    <2> HIDE DEF Is
    <2> QED BY <1>1, <2>1
<1>3. \E f : Is(now, f) /\ Grouped(rows) = f[now]
    BY <1>2 DEF Grouped, Second, RowsAt, Before
<1>4. PICK f : Is(now, f) /\ Grouped(rows) = f[now]
    <2> HIDE DEF Is
    <2> QED BY <1>3
<1>5. \A t \in 0..now : f[t] = Second(rows, Before(f, t), t)
    BY <1>4
<1> QED BY <1>4, <1>5

(* What groups there are: one for each window of which a row was taken     *)
(* before it ended.                                                        *)
Found(rows) == {f \in Firsts(rows) : f.ts <= f.ends + Tolerance}

RowsOf(rows, f) == {r \in Live(rows) : r.of = f.of /\ r.ts <= f.ends + Tolerance}

LEMMA GroupsAre ==
    ASSUME SessionsAssumption, now \in Nat, NEW rows, Honest(rows)
    PROVE  Groups(rows) = {[ref |-> f.ends, rows |-> RowsOf(rows, f)] : f \in Found(rows)}
<1> DEFINE live == {r \in rows : r.ends # None}
<1>0. live = Live(rows) /\ Live(live) = live /\ Firsts(live) = Firsts(rows)
    BY DEF Live, Firsts
<1>1. Honest(live)
    BY <1>0 DEF Honest, Live
<1>2. \A r \in live : r.ts \in 0..now /\ r.ends \in Int
    BY <1>0, <1>1 DEF Honest
<1> HIDE DEF live
<1>3. PICK f : /\ Grouped(live) = f[now]
               /\ \A t \in 0..now : f[t] = Second(live, Before(f, t), t)
    BY GroupedIs
<1>4. ASSUME NEW t \in 0..now, NEW gs, GroupsTo(live, gs, t - 1)
      PROVE  GroupsTo(live, Second(live, gs, t), t)
    <2>1. CASE RowsAt(live, t) = {}
        <3>1. \A r \in live : r.ts # t
            BY <2>1 DEF RowsAt
        <3>2. GroupsTo(live, gs, t)
            BY <1>0, <1>1, <1>4, <3>1, QuietSecond
        <3> QED BY <2>1, <3>2 DEF Second
    <2>2. CASE RowsAt(live, t) # {}
        <3> DEFINE row == CHOOSE r \in RowsAt(live, t) : TRUE
        <3>1. row \in live /\ row.ts = t
            BY <2>2 DEF RowsAt
        <3>2. Second(live, gs, t) = Joined(gs, row)
            BY <2>2 DEF Second
        <3> HIDE DEF row
        <3>3. CASE row \in Firsts(live)
            BY <1>1, <1>4, <3>1, <3>2, <3>3, OpensAGroup
        <3>4. CASE row \notin Firsts(live)
            BY <1>0, <1>1, <1>4, <3>1, <3>2, <3>4, JoinsItsGroup
        <3> QED BY <3>3, <3>4
    <2> QED BY <2>1, <2>2
<1>5. GroupsTo(live, <<>>, -1)
    <2>1. \A r \in Firsts(live) : ~(r.ts <= -1)
        BY <1>0, <1>2 DEF Firsts
    <2> QED BY <2>1 DEF GroupsTo
<1> DEFINE Wrong == {t \in 0..now : ~GroupsTo(live, f[t], t)}
<1>6. Wrong = {}
    <2> SUFFICES ASSUME Wrong # {} PROVE FALSE
        OBVIOUS
    <2>1. Wrong \in SUBSET Nat
        OBVIOUS
    <2>2. PICK t \in Wrong : \A u \in Wrong : t <= u
        <3> HIDE DEF Wrong
        <3> QED BY <2>1, LeastThereIs
    <2>3. t \in 0..now /\ ~GroupsTo(live, f[t], t)
        OBVIOUS
    <2>4. GroupsTo(live, Before(f, t), t - 1)
        <3>1. CASE t = 0
            BY <1>5, <3>1 DEF Before
        <3>2. CASE t # 0
            <4>1. t - 1 \in 0..now /\ ~(t <= t - 1)
                BY <2>3, <3>2
            <4>2. t - 1 \notin Wrong
                BY <2>2, <4>1
            <4> QED BY <3>2, <4>1, <4>2 DEF Before
        <3> QED BY <3>1, <3>2
    <2> QED BY <1>3, <1>4, <2>3, <2>4
<1>7. GroupsTo(live, Grouped(live), now)
    BY <1>3, <1>6
<1>8. \A g \in Firsts(live) : GroupAt(live, g, now) = [ref |-> g.ends, rows |-> RowsOf(rows, g)]
    <2>1. \A r \in live : r.ts <= now
        BY <1>2
    <2> QED BY <1>0, <2>1 DEF GroupAt, RowsOf
<1>9. Range(Grouped(live)) = {[ref |-> g.ends, rows |-> RowsOf(rows, g)] : g \in Firsts(live)}
    <2>1. ASSUME NEW i \in DOMAIN Grouped(live)
          PROVE  \E g \in Firsts(live) : Grouped(live)[i] = [ref |-> g.ends, rows |-> RowsOf(rows, g)]
        BY <1>7, <1>8 DEF GroupsTo
    <2>2. ASSUME NEW g \in Firsts(live)
          PROVE  \E i \in DOMAIN Grouped(live) : Grouped(live)[i] = [ref |-> g.ends, rows |-> RowsOf(rows, g)]
        <3>1. g.ts <= now
            BY <1>0, <1>2 DEF Firsts
        <3> QED BY <1>7, <1>8, <3>1 DEF GroupsTo
    <2> QED BY <2>1, <2>2 DEF Range
<1>10. \A g \in Firsts(live) : RowsOf(rows, g) # {} <=> g.ts <= g.ends + Tolerance
    <2> TAKE g \in Firsts(live)
    <2>1. g \in Live(rows) /\ \A r \in Live(rows) : r.of = g.of => g.ts <= r.ts
        BY <1>0 DEF Firsts
    <2>2. Tolerance \in Int /\ g.ends \in Int /\ \A r \in Live(rows) : r.ts \in Int
        BY <1>0, <1>2, <2>1 DEF SessionsAssumption
    <2>3. ASSUME g.ts <= g.ends + Tolerance PROVE g \in RowsOf(rows, g)
        BY <2>1, <2>3 DEF RowsOf
    <2>4. ASSUME NEW r \in RowsOf(rows, g) PROVE g.ts <= g.ends + Tolerance
        BY <2>1, <2>2, <2>4 DEF RowsOf
    <2> QED BY <2>3, <2>4
<1>11. Groups(rows) = {g \in Range(Grouped(live)) : g.rows # {}}
    BY DEF Groups, live
<1> QED BY <1>0, <1>9, <1>10, <1>11 DEF Found

(* The window of a group; the running one is the newest, and of no window  *)
(* is a row newer than the rows of a later one.                            *)
Current(rows, f) == now < f.ends /\ \A h \in Found(rows) : h.of <= f.of

WindowOf(rows, f) ==
    [start |-> f.ends - Length, current |-> Current(rows, f), samples |-> Cardinality(RowsOf(rows, f))]

LEMMA LastIsOfTheRows ==
    ASSUME SessionsAssumption, now \in Nat, NEW rows, Honest(rows), NEW f \in Found(rows)
    PROVE  \E r \in RowsOf(rows, f) : r.ts = LastTs([ref |-> f.ends, rows |-> RowsOf(rows, f)])
<1> DEFINE Times == {r.ts : r \in RowsOf(rows, f)}
<1>1. f \in RowsOf(rows, f)
    BY DEF Found, Firsts, RowsOf
<1>2. Times \in SUBSET (0..now) /\ Times # {} /\ Times \in SUBSET Int
    <2>1. \A r \in RowsOf(rows, f) : r.ts \in 0..now
        BY DEF RowsOf, Live, Honest
    <2> QED BY <1>1, <2>1
<1>3. PICK x \in Times : \A y \in Times : y <= x
    <2> HIDE DEF Times
    <2> QED BY <1>2, LargestThereIs
<1>4. Max(Times) = x
    <2> HIDE DEF Times
    <2> QED BY <1>2, <1>3, MaxIs
<1>5. LastTs([ref |-> f.ends, rows |-> RowsOf(rows, f)]) = x
    BY <1>4 DEF LastTs
<1> QED BY <1>5

LEMMA DeriveIs ==
    ASSUME SessionsAssumption, now \in Nat, NEW rows, Honest(rows)
    PROVE  Derive(rows) = {WindowOf(rows, f) : f \in Found(rows)}
<1> DEFINE Gr(f) == [ref |-> f.ends, rows |-> RowsOf(rows, f)]
<1>1. Groups(rows) = {Gr(f) : f \in Found(rows)}
    BY GroupsAre
<1>2. ASSUME NEW f \in Found(rows), NEW h \in Found(rows)
      PROVE  LastTs(Gr(h)) <= LastTs(Gr(f)) <=> h.of <= f.of
    <2>1. PICK r \in RowsOf(rows, f) : r.ts = LastTs(Gr(f))
        BY LastIsOfTheRows
    <2>2. PICK q \in RowsOf(rows, h) : q.ts = LastTs(Gr(h))
        BY LastIsOfTheRows
    <2> HIDE DEF Gr
    <2>3. r \in Live(rows) /\ q \in Live(rows) /\ r.of = f.of /\ q.of = h.of
        BY DEF RowsOf
    <2>4. r.of \in Int /\ q.of \in Int /\ r.ts \in Int /\ q.ts \in Int
        BY <2>3 DEF Honest, Live
    <2>5. CASE r.of = q.of
        <3>1. f = h
            BY <2>3, <2>5, FirstIsOne DEF Found
        <3> QED BY <2>1, <2>3, <2>4, <3>1
    <2>6. CASE r.of < q.of
        <3>1. r.ts < q.ts
            BY <2>3, <2>6 DEF Honest
        <3> QED BY <2>1, <2>2, <2>3, <2>4, <2>6, <3>1
    <2>7. CASE q.of < r.of
        <3>1. q.ts < r.ts
            BY <2>3, <2>7 DEF Honest
        <3> QED BY <2>1, <2>2, <2>3, <2>4, <2>7, <3>1
    <2> QED BY <2>4, <2>5, <2>6, <2>7
<1>3. Derive(rows) = {[start   |-> g.ref - Length,
                       current |-> now < g.ref /\ \A h \in Groups(rows) : LastTs(h) <= LastTs(g),
                       samples |-> Cardinality(g.rows)] : g \in Groups(rows)}
    BY DEF Derive
<1>4. ASSUME NEW f \in Found(rows)
      PROVE  Current(rows, f) <=> now < Gr(f).ref /\ \A h \in Groups(rows) : LastTs(h) <= LastTs(Gr(f))
    <2>1. (\A h \in Groups(rows) : LastTs(h) <= LastTs(Gr(f)))
             <=> \A h \in Found(rows) : LastTs(Gr(h)) <= LastTs(Gr(f))
        BY <1>1
    <2>2. Gr(f).ref = f.ends
        OBVIOUS
    <2> HIDE DEF Gr
    <2> QED BY <1>2, <2>1, <2>2 DEF Current
<1> DEFINE Wi(g) == [start   |-> g.ref - Length,
                     current |-> now < g.ref /\ \A h \in Groups(rows) : LastTs(h) <= LastTs(g),
                     samples |-> Cardinality(g.rows)]
<1>5. \A f \in Found(rows) : Wi(Gr(f)) = WindowOf(rows, f)
    <2> TAKE f \in Found(rows)
    <2>1. Gr(f).ref = f.ends /\ Gr(f).rows = RowsOf(rows, f)
        OBVIOUS
    <2>2. Current(rows, f) = (now < Gr(f).ref /\ \A h \in Groups(rows) : LastTs(h) <= LastTs(Gr(f)))
        <3>1. Current(rows, f) \in BOOLEAN
            BY DEF Current
        <3> HIDE DEF Gr
        <3> QED BY <1>4, <3>1
    <2> HIDE DEF Gr
    <2> QED BY <2>1, <2>2 DEF WindowOf
<1>6. Derive(rows) = {Wi(g) : g \in Groups(rows)}
    BY <1>3
<1> HIDE DEF Wi, Gr
<1> QED BY <1>1, <1>5, <1>6

(***************************************************************************)
(* The rows, and what the vendor's expiry has to do with them.             *)
(***************************************************************************)
Clocked ==
    /\ now \in Nat /\ exact \in BOOLEAN
    /\ expiry = None \/ (expiry \in Int /\ Length <= expiry /\ expiry - Length <= now)

OfTheVendor ==
    \A r \in Live(quota) :
      /\ r.of \in Int /\ Length <= r.of
      /\ r.of = expiry \/ (r.of <= expiry - Length /\ r.ts <= expiry - Length)
      /\ exact => r.ends = r.of

InTurn ==
    /\ stage # "idle" => up
    /\ forgetting # "idle" => exact

RowsInv == Clocked /\ Honest(quota) /\ OfTheVendor /\ InTurn

LEMMA RowsBegin == ASSUME SessionsAssumption, Init PROVE RowsInv
BY DEF Init, RowsInv, Clocked, Honest, OfTheVendor, InTurn, Live

LEMMA FewerAreHonest ==
    ASSUME NEW rows, Honest(rows), NEW some \in SUBSET rows
    PROVE  Honest(some)
BY DEF Honest, Live

(* The rows of a recorded sample. *)
LEMMA RecordKeeps ==
    ASSUME SessionsAssumption, SameSecond = FALSE, RowsInv, Record, UNCHANGED exact
    PROVE  /\ Honest(quota)' /\ OfTheVendor'
           /\ \E row : /\ quota' = quota \cup {row} /\ row.ts = now
                       /\ row.ends # None => row.of = expiry
                       /\ \A r \in quota : r.ts < now
<1> USE DEF SessionsAssumption, RowsInv
<1>1. PICK ends \in Reported :
        quota' = {r \in quota : r.ts # now}
                   \cup {[ts |-> now, ends |-> ends, of |-> IF ends = None THEN None ELSE expiry]}
    BY DEF Record
<1> DEFINE row == [ts |-> now, ends |-> ends, of |-> IF ends = None THEN None ELSE expiry]
<1>2. \A r \in quota : r.ts \in 0..now /\ r.ts # now /\ r.ts < now
    BY DEF Record, Clocked, Honest
<1>3. quota' = quota \cup {row}
    BY <1>1, <1>2
<1>4. row.ts = now /\ row.ends = ends /\ (ends # None => row.of = expiry)
    OBVIOUS
<1>5. ends # None => /\ expiry # None /\ expiry \in Int /\ ends \in Int
                     /\ expiry <= ends /\ ends <= expiry + Tolerance
                     /\ exact => ends = expiry
    <2> SUFFICES ASSUME ends # None
                 PROVE  /\ expiry # None /\ expiry \in Int /\ ends \in Int
                        /\ expiry <= ends /\ ends <= expiry + Tolerance
                        /\ exact => ends = expiry
        OBVIOUS
    <2>1. expiry # None
        BY DEF Reported
    <2>2. PICK j \in IF exact THEN {0} ELSE Jitters : ends = expiry + j
        BY <2>1 DEF Reported
    <2>3. j \in 0..Tolerance /\ (exact => j = 0)
        BY <2>2
    <2> QED BY <2>1, <2>2, <2>3 DEF Clocked
<1>6. now' = now /\ expiry' = expiry /\ exact' = exact
    BY DEF Record
<1> HIDE DEF row
<1>7. Live(quota') = Live(quota) \cup (IF ends = None THEN {} ELSE {row})
    BY <1>3, <1>4 DEF Live
<1>8. \A r \in Live(quota) : r.ends \in Int /\ r.of \in Int /\ r.ts < now /\ r.ts \in Int
    BY <1>2 DEF Honest, Live
<1>9. ends # None => /\ row.of = expiry /\ row.ts = now /\ row.ends = ends
                     /\ expiry - Length <= now
    BY <1>4, <1>5 DEF Clocked
<1>10. OfTheVendor'
    <2>1. \A r \in Live(quota') : r \in Live(quota) \/ (ends # None /\ r = row)
        BY <1>7
    <2>2. ends # None => row.of \in Int /\ Length <= row.of
        BY <1>5, <1>9 DEF Clocked
    <2> QED BY <1>5, <1>6, <1>9, <2>1, <2>2 DEF OfTheVendor
<1>11. Honest(quota')
    <2>0. \A r \in Live(quota') : r \in Live(quota) \/ (ends # None /\ r = row)
        BY <1>7
    <2>1. \A r \in quota' : r.ts \in 0..now
        BY <1>2, <1>3, <1>4 DEF Clocked
    <2>2. \A p, q \in quota' : p.ts = q.ts => p = q
        BY <1>2, <1>3, <1>4 DEF Honest
    <2>3. \A r \in Live(quota') :
             /\ r.ends \in Int /\ r.of \in Int
             /\ r.of <= r.ends /\ r.ends <= r.of + Tolerance
             /\ r.of - Length <= r.ts
        BY <1>5, <1>9, <2>0 DEF Honest
    <2>4. \A p, q \in Live(quota') : p.of < q.of => p.of <= q.of - Length /\ p.ts < q.ts
        <3> TAKE p, q \in Live(quota')
        <3> HAVE p.of < q.of
        <3>1. CASE p \in Live(quota) /\ q \in Live(quota)
            BY <3>1 DEF Honest
        <3>2. CASE p \in Live(quota) /\ q = row /\ ends # None
            BY <1>5, <1>8, <1>9, <3>2 DEF OfTheVendor
        <3>3. CASE p = row /\ ends # None
            <4>1. q \in Live(quota)
                BY <1>5, <1>9, <2>0, <3>3
            <4> QED BY <1>5, <1>8, <1>9, <3>3, <4>1 DEF OfTheVendor
        <3> QED BY <2>0, <3>1, <3>2, <3>3
    <2> QED BY <2>1, <2>2, <2>3, <2>4 DEF Honest
<1>12. Honest(quota)'
    BY <1>6, <1>11 DEF Honest
<1> QED BY <1>2, <1>3, <1>4, <1>10, <1>12

LEMMA RowsStep ==
    ASSUME SessionsAssumption, SameSecond = FALSE, RowsInv, [Next]_vars
    PROVE  RowsInv'
<1>0. CASE UNCHANGED vars
    BY <1>0 DEF vars, serverVars, commandVars, RowsInv, Clocked, Honest, OfTheVendor, InTurn, Live
<1>1. CASE Message /\ UNCHANGED exact
    <2>1. now \in Nat /\ Length \in Nat /\ expiry' = now + Length /\ now' = now /\ quota' = quota
        BY <1>1 DEF Message, RowsInv, Clocked, SessionsAssumption
    <2>2. Clocked' /\ InTurn'
        BY <1>1, <2>1 DEF Message, RowsInv, Clocked, InTurn, serverVars, commandVars
    <2>3. Honest(quota)'
        BY <2>1 DEF RowsInv, Honest, Live
    <2>4. OfTheVendor'
        <3> SUFFICES ASSUME NEW r \in Live(quota)
                     PROVE  r.of <= expiry' - Length /\ r.ts <= expiry' - Length
            BY <1>1, <2>1 DEF OfTheVendor, RowsInv, Live
        <3>1. r.of \in Int /\ r.ts \in 0..now
            BY DEF RowsInv, Honest, Live
        <3>2. expiry \in Int /\ expiry <= now
            BY <1>1, <2>1 DEF RowsInv, Clocked, Message, None
        <3>3. r.of <= now
            BY <2>1, <3>1, <3>2 DEF RowsInv, OfTheVendor
        <3> QED BY <2>1, <3>1, <3>3
    <2> QED BY <2>2, <2>3, <2>4 DEF RowsInv
<1>2. CASE Record /\ UNCHANGED exact
    <2>1. Clocked' /\ InTurn'
        BY <1>2 DEF Record, RowsInv, Clocked, InTurn, commandVars
    <2> QED BY <1>2, <2>1, RecordKeeps DEF RowsInv
<1>3. CASE quota' \subseteq quota /\ now' = now /\ expiry' = expiry /\ exact' = exact /\ InTurn'
    <2>1. Honest(quota')
        BY <1>3, FewerAreHonest DEF RowsInv
    <2>2. Live(quota') \subseteq Live(quota)
        BY <1>3 DEF Live
    <2>3. Honest(quota)' /\ OfTheVendor' /\ Clocked'
        BY <1>3, <2>1, <2>2 DEF RowsInv, Honest, OfTheVendor, Clocked
    <2> QED BY <1>3, <2>3 DEF RowsInv
<1>4. CASE (DeriveRecent \/ WriteRecent \/ RebuildFailed \/ Down \/ Start) /\ UNCHANGED exact
    <2>1. InTurn'
        BY <1>4 DEF DeriveRecent, WriteRecent, RebuildFailed, Down, Start, commandVars, RowsInv, InTurn
    <2>2. quota' = quota /\ now' = now /\ expiry' = expiry /\ exact' = exact
        BY <1>4 DEF DeriveRecent, WriteRecent, RebuildFailed, Down, Start
    <2> QED BY <1>3, <2>1, <2>2
<1>5. CASE (Prune \/ (\E w \in table : ForgetDelete(w)) \/ ForgetDerive \/ ForgetReplace) /\ UNCHANGED exact
    <2>1. InTurn'
        BY <1>5 DEF Prune, ForgetDelete, ForgetDerive, ForgetReplace, serverVars, commandVars, RowsInv, InTurn
    <2>2. quota' \subseteq quota /\ now' = now /\ expiry' = expiry /\ exact' = exact
        BY <1>5 DEF Prune, ForgetDelete, ForgetDerive, ForgetReplace
    <2> QED BY <1>3, <2>1, <2>2
<1>6. CASE Tick /\ UNCHANGED exact
    <2>1. now' = now + 1 /\ now \in Nat /\ quota' = quota /\ expiry' = expiry /\ exact' = exact
        BY <1>6 DEF Tick, RowsInv, Clocked
    <2>2. Clocked' /\ OfTheVendor' /\ InTurn'
        <3>1. Clocked'
            BY <2>1 DEF RowsInv, Clocked, SessionsAssumption
        <3>2. OfTheVendor' /\ InTurn'
            BY <1>6, <2>1 DEF Tick, RowsInv, OfTheVendor, InTurn, serverVars, commandVars, Live
        <3> QED BY <3>1, <3>2
    <2>3. \A r \in quota : r.ts \in 0..now'
        BY <2>1 DEF RowsInv, Honest
    <2>4. Honest(quota)'
        BY <2>1, <2>3 DEF RowsInv, Honest, Live
    <2> QED BY <2>2, <2>4 DEF RowsInv
<1> QED BY <1>0, <1>1, <1>2, <1>4, <1>5, <1>6 DEF Next, Moves

(***************************************************************************)
(* With exact expiries and deletions.  Whatever window is in the table, or *)
(* about to be, was forgotten, can be derived, or began before all rows.   *)
(***************************************************************************)
Abroad == table \cup pending.windows \cup rederived

Derivable(rows, s) ==
    \E r \in Live(rows) : r.ends = s + Length /\ r.ts <= r.ends + Tolerance

Accounted(s) ==
    \/ s \in forgotten
    \/ Derivable(quota, s)
    \/ s < now /\ \A r \in quota : s < r.ts

\* No row is of a window that overlaps it.
OfItsOwn(s) ==
    /\ s \in Int
    /\ s + Length = expiry \/ s + Length <= expiry - Length
    /\ \A r \in Live(quota) : \/ r.of = s + Length
                              \/ r.of <= s
                              \/ r.of >= s + 2 * Length

HistoryInv == exact => \A w \in Abroad : Accounted(w.start) /\ OfItsOwn(w.start)

LEMMA HistoryBegins == ASSUME SessionsAssumption, Init PROVE HistoryInv
BY DEF Init, Nothing, HistoryInv, Abroad

LEMMA DerivedIsAccounted ==
    ASSUME SessionsAssumption, RowsInv, exact, NEW rows \in SUBSET quota, NEW w \in Derive(rows)
    PROVE  Accounted(w.start) /\ OfItsOwn(w.start) /\ Derivable(rows, w.start)
<1>1. Honest(rows) /\ now \in Nat
    BY FewerAreHonest DEF RowsInv, Clocked
<1>2. PICK f \in Found(rows) : w = WindowOf(rows, f)
    BY <1>1, DeriveIs
<1>3. f \in Live(rows) /\ f \in Live(quota) /\ f.ts <= f.ends + Tolerance
    BY DEF Found, Firsts, Live
<1>4. w.start = f.ends - Length /\ f.ends = f.of /\ f.of \in Int /\ Length \in Nat
    BY <1>2, <1>3 DEF WindowOf, RowsInv, OfTheVendor, Honest, SessionsAssumption
<1>5. Derivable(rows, w.start)
    BY <1>3, <1>4 DEF Derivable
<1>6. Derivable(quota, w.start)
    BY <1>3, <1>4 DEF Derivable
<1>7. expiry \in Int
    BY DEF RowsInv, Clocked, None
<1>8. \A r \in Live(quota) : r.of = f.of \/ r.of <= f.of - Length \/ r.of >= f.of + Length
    <2> TAKE r \in Live(quota)
    <2>1. r.of \in Int
        BY DEF RowsInv, Honest
    <2>2. r.of < f.of => r.of <= f.of - Length
        BY <1>3 DEF RowsInv, Honest
    <2>3. f.of < r.of => f.of <= r.of - Length
        BY <1>3 DEF RowsInv, Honest
    <2> QED BY <1>4, <2>1, <2>2, <2>3
<1>9. \A r \in Live(quota) : r.of \in Int
    BY DEF RowsInv, Honest
<1>10. f.of = expiry \/ f.of <= expiry - Length
    BY <1>3 DEF RowsInv, OfTheVendor
<1>11. OfItsOwn(w.start)
    BY <1>4, <1>7, <1>8, <1>9, <1>10 DEF OfItsOwn
<1> QED BY <1>5, <1>6, <1>11 DEF Accounted

LEMMA RecentIsAccounted ==
    ASSUME SessionsAssumption, RowsInv, exact, DeriveRecent
    PROVE  \A w \in pending'.windows : Accounted(w.start) /\ OfItsOwn(w.start)
<1>1. \A rows \in SUBSET quota : \A w \in Derive(rows) : Accounted(w.start) /\ OfItsOwn(w.start)
    BY DerivedIsAccounted
<1>2. pending'.windows \subseteq Derive(quota) \/ pending'.windows \subseteq Derive(TailRows(Previous))
    BY DEF DeriveRecent
<1>3. TailRows(Previous) \subseteq quota
    BY DEF TailRows
<1> QED BY <1>1, <1>2, <1>3

(* What an upsert leaves in the table. *)
LEMMA UpsertHolds ==
    ASSUME NEW ws, NEW new
    PROVE  /\ Upsert(ws, new) \subseteq ws \cup new
           /\ Starts(Upsert(ws, new)) = Starts(ws) \cup Starts(new)
BY DEF Upsert, Starts

LEMMA DemotedStarts ==
    ASSUME NEW ws, NEW since
    PROVE  Starts(Demoted(ws, since)) = Starts(ws)
<1> DEFINE D(w) == [start   |-> w.start,
                    current |-> w.current /\ w.start >= since,
                    samples |-> w.samples]
<1>1. \A w \in ws : D(w).start = w.start
    OBVIOUS
<1>2. Demoted(ws, since) = {D(w) : w \in ws}
    BY DEF Demoted
<1> HIDE DEF D
<1> QED BY <1>1, <1>2 DEF Starts

(* A window in the table or on its way to it was on its way or there, or   *)
(* has just been derived.                                                  *)
LEMMA WhereFrom ==
    ASSUME [Next]_vars, NEW w \in Abroad'
    PROVE  \/ \E v \in Abroad : v.start = w.start
           \/ \E rows \in SUBSET quota : w \in Derive(rows)
<1>1. CASE Abroad' \subseteq Abroad
    BY <1>1
<1>2. CASE DeriveRecent
    <2>1. table' = table /\ rederived' = rederived
        BY <1>2 DEF DeriveRecent, commandVars
    <2>2. pending'.windows \subseteq Derive(quota) \/ pending'.windows \subseteq Derive(TailRows(Previous))
        BY <1>2 DEF DeriveRecent
    <2>3. TailRows(Previous) \subseteq quota
        BY DEF TailRows
    <2> QED BY <1>1, <2>1, <2>2, <2>3 DEF Abroad
<1>3. CASE WriteRecent
    <2>1. pending' = Nothing /\ rederived' = rederived
        BY <1>3 DEF WriteRecent, commandVars
    <2>2. \A v \in Replaced(table, pending.windows, None) : v \in Abroad
        BY UpsertHolds DEF Replaced, Abroad
    <2>3. \A v \in Upsert(Demoted(table, pending.since), pending.windows) :
            \E u \in Abroad : u.start = v.start
        <3>1. Starts(Demoted(table, pending.since)) = Starts(table)
            BY DemotedStarts
        <3> QED BY <3>1, UpsertHolds DEF Starts, Abroad
    <2>4. w \in table' \/ w \in Abroad
        BY <2>1 DEF Abroad, Nothing
    <2> QED BY <1>3, <2>2, <2>3, <2>4 DEF WriteRecent
<1>4. CASE Start
    <2>1. pending' = pending /\ rederived' = rederived
        BY <1>4 DEF Start, commandVars
    <2>2. table' \subseteq table \cup Derive(quota)
        BY <1>4, UpsertHolds DEF Start, Replaced
    <2> QED BY <2>1, <2>2 DEF Abroad
<1>5. CASE ForgetDerive
    BY <1>5 DEF ForgetDerive, serverVars, Abroad
<1>6. CASE RebuildFailed \/ Down
    BY <1>1, <1>6 DEF RebuildFailed, Down, Nothing, Abroad, commandVars
<1>7. CASE Prune
    BY <1>1, <1>7 DEF Prune, Abroad, serverVars, commandVars
<1>8. CASE ForgetReplace
    <2>1. table' \subseteq table \cup rederived
        BY <1>8, UpsertHolds DEF ForgetReplace, Replaced
    <2>2. pending' = pending /\ rederived' = {}
        BY <1>8 DEF ForgetReplace, serverVars
    <2> QED BY <1>1, <2>1, <2>2 DEF Abroad
<1>9. CASE Message \/ Record \/ Tick \/ (\E v \in table : ForgetDelete(v)) \/ UNCHANGED vars
    BY <1>1, <1>9 DEF Message, Record, Tick, ForgetDelete, vars, serverVars, commandVars, Abroad
<1> QED BY <1>2, <1>3, <1>4, <1>5, <1>6, <1>7, <1>8, <1>9 DEF Next, Moves

(* A start that is accounted for stays so. *)
LEMMA StillAccounted ==
    ASSUME SessionsAssumption, SameSecond = FALSE, RowsInv, exact, HistoryInv, [Next]_vars,
           NEW s, Accounted(s), OfItsOwn(s)
    PROVE  Accounted(s)' /\ OfItsOwn(s)'
<1>0. /\ now \in Nat /\ s \in Int /\ expiry \in Int /\ Length \in Nat /\ Tolerance \in Nat
      /\ \A r \in quota : r.ts \in 0..now
      /\ \A r \in Live(quota) : r.of \in Int /\ r.ends = r.of /\ r.of - Length <= r.ts
    BY DEF SessionsAssumption, RowsInv, Clocked, None, OfItsOwn, Honest, OfTheVendor, Live
<1>1. CASE UNCHANGED <<now, expiry, quota, forgotten>>
    BY <1>1 DEF Accounted, OfItsOwn, Derivable, Live
<1>2. CASE Message
    <2>1. expiry <= now /\ expiry' = now + Length /\ now' = now /\ quota' = quota /\ forgotten' = forgotten
        BY <1>0, <1>2 DEF Message, None, commandVars
    <2>2. Accounted(s)'
        BY <2>1 DEF Accounted, Derivable, Live
    <2>3. s + Length <= expiry' - Length
        BY <1>0, <2>1 DEF OfItsOwn
    <2>4. OfItsOwn(s)'
        BY <2>1, <2>3 DEF OfItsOwn, Live
    <2> QED BY <2>2, <2>4
<1>3. CASE Record /\ UNCHANGED exact
    <2>1. PICK row : quota' = quota \cup {row} /\ row.ts = now /\ (row.ends # None => row.of = expiry)
        BY <1>3, RecordKeeps
    <2>2. now' = now /\ expiry' = expiry /\ forgotten' = forgotten
        BY <1>3 DEF Record, commandVars
    <2>3. \A r \in Live(quota') : r \in Live(quota) \/ r.of = expiry
        BY <2>1 DEF Live
    <2>4. OfItsOwn(s)'
        <3>1. expiry = s + Length \/ expiry >= s + 2 * Length
            BY <1>0 DEF OfItsOwn
        <3> QED BY <2>2, <2>3, <3>1 DEF OfItsOwn
    <2>5. Accounted(s)'
        <3>1. Derivable(quota, s) => Derivable(quota', s)
            BY <2>1 DEF Derivable, Live
        <3> QED BY <2>1, <2>2, <3>1 DEF Accounted, Derivable, Live
    <2> QED BY <2>4, <2>5
<1>4. CASE Prune
    <2>1. /\ quota' = {r \in quota : r.ts >= now - Retention}
          /\ now' = now /\ expiry' = expiry /\ forgotten' = forgotten
        BY <1>4 DEF Prune, commandVars
    <2>2. OfItsOwn(s)'
        BY <2>1 DEF OfItsOwn, Live
    <2>3. Retention \in Nat
        BY DEF SessionsAssumption
    <2>4. ASSUME s \in forgotten PROVE Accounted(s)'
        BY <2>1, <2>4 DEF Accounted, Derivable, Live
    <2>5. ASSUME s < now, \A r \in quota : s < r.ts PROVE Accounted(s)'
        BY <2>1, <2>5 DEF Accounted, Derivable, Live
    <2>6. ASSUME NEW r \in Live(quota), r.ends = s + Length, r.ts <= r.ends + Tolerance
          PROVE  Accounted(s)'
        <3>1. CASE r \in quota'
            <4>1. Derivable(quota', s)
                BY <2>6, <3>1 DEF Derivable, Live
            <4> QED BY <4>1 DEF Accounted, Derivable, Live
        <3>2. CASE r \notin quota'
            <4>1. r.ts < now - Retention /\ s <= r.ts
                BY <1>0, <2>1, <2>3, <2>6, <3>2 DEF Live
            <4>2. s < now /\ \A q \in quota' : s < q.ts
                BY <1>0, <2>1, <2>3, <4>1 DEF Live
            <4> QED BY <2>1, <4>2 DEF Accounted
        <3> QED BY <3>1, <3>2
    <2>7. Accounted(s)'
        BY <2>4, <2>5, <2>6 DEF Accounted, Derivable
    <2> QED BY <2>2, <2>7
<1>5. ASSUME NEW v \in table, ForgetDelete(v) PROVE Accounted(s)' /\ OfItsOwn(s)'
    <2>1. /\ quota' = {r \in quota : ~(/\ r.ends # None
                                       /\ Near(r.ends, v.start + Length)
                                       /\ r.ts <= r.ends + Tolerance)}
          /\ now' = now /\ expiry' = expiry /\ forgotten' = forgotten \cup {v.start}
        BY <1>5 DEF ForgetDelete
    <2>2. OfItsOwn(s)'
        BY <2>1 DEF OfItsOwn, Live
    <2>3. OfItsOwn(v.start)
        BY DEF HistoryInv, Abroad
    <2>4. ASSUME s \in forgotten \/ s = v.start PROVE Accounted(s)'
        BY <2>1, <2>4 DEF Accounted, Derivable, Live
    <2>5. ASSUME s < now, \A r \in quota : s < r.ts PROVE Accounted(s)'
        BY <2>1, <2>5 DEF Accounted, Derivable, Live
    <2>6. ASSUME NEW r \in Live(quota), r.ends = s + Length, r.ts <= r.ends + Tolerance, s # v.start
          PROVE  Accounted(s)'
        <3>1. ~Near(r.ends, v.start + Length)
            BY <1>0, <2>3, <2>6 DEF OfItsOwn, Near, SessionsAssumption
        <3>2. r \in quota'
            BY <2>1, <3>1 DEF Live
        <3>3. Derivable(quota', s)
            BY <2>6, <3>2 DEF Derivable, Live
        <3> QED BY <3>3 DEF Accounted, Derivable, Live
    <2>7. Accounted(s)'
        BY <2>4, <2>5, <2>6 DEF Accounted, Derivable
    <2> QED BY <2>2, <2>7
<1>6. CASE Tick
    <2>1. now' = now + 1 /\ quota' = quota /\ expiry' = expiry /\ forgotten' = forgotten
        BY <1>6 DEF Tick, commandVars
    <2>2. s < now => s < now'
        BY <1>0, <2>1
    <2> QED BY <2>1, <2>2 DEF Accounted, OfItsOwn, Derivable, Live
<1>7. CASE DeriveRecent \/ WriteRecent \/ RebuildFailed \/ Down \/ Start \/ ForgetDerive \/ ForgetReplace
           \/ UNCHANGED vars
    BY <1>1, <1>7
    DEF DeriveRecent, WriteRecent, RebuildFailed, Down, Start, ForgetDerive, ForgetReplace,
        vars, serverVars, commandVars
<1> QED BY <1>2, <1>3, <1>4, <1>5, <1>6, <1>7 DEF Next, Moves

LEMMA HistoryStep ==
    ASSUME SessionsAssumption, SameSecond = FALSE, RowsInv, HistoryInv, [Next]_vars
    PROVE  HistoryInv'
<1> SUFFICES ASSUME exact', NEW w \in Abroad' PROVE Accounted(w.start)' /\ OfItsOwn(w.start)'
    BY DEF HistoryInv
<1>1. exact
    BY DEF Next, vars
<1>2. Accounted(w.start) /\ OfItsOwn(w.start)
    <2>1. CASE \E v \in Abroad : v.start = w.start
        BY <1>1, <2>1 DEF HistoryInv
    <2>2. CASE \E rows \in SUBSET quota : w \in Derive(rows)
        BY <1>1, <2>2, DerivedIsAccounted
    <2> QED BY <2>1, <2>2, WhereFrom
<1>3. \A s : Accounted(s) /\ OfItsOwn(s) => Accounted(s)' /\ OfItsOwn(s)'
    BY <1>1, StillAccounted
<1> QED BY <1>2, <1>3

(* No step but the excused ones takes a window out of the table.           *)
LEMMA StepKeepsHistory ==
    ASSUME SessionsAssumption, RowsInv, HistoryInv, exact, Next
    PROVE  KeepsHistory
<1> SUFFICES ASSUME ~FullPass, ~ForgetReplace, quota # {},
                    NEW w \in table, w.start >= now - Floor, w.start \notin forgotten
             PROVE  w.start \in Starts(table')
    BY DEF KeepsHistory
<1>1. CASE table' = table
    BY <1>1 DEF Starts
<1>2. CASE WriteRecent
    <2>1. table' = Upsert(Demoted(table, pending.since), pending.windows)
        BY <1>2 DEF WriteRecent, FullPass
    <2>2. Starts(Demoted(table, pending.since)) = Starts(table)
        BY DemotedStarts
    <2>3. Starts(table') = Starts(table) \cup Starts(pending.windows)
        BY <2>1, <2>2, UpsertHolds
    <2> QED BY <2>3 DEF Starts
<1>3. CASE Prune
    BY <1>3 DEF Prune, Starts
<1>4. CASE Start
    <2> SUFFICES ASSUME table' = Replaced(table, Derive(quota), Oldest)
                 PROVE  w.start \in Starts(table')
        BY <1>1, <1>4 DEF Start
    <2> DEFINE Times == {r.ts : r \in quota}
    <2>1. Times \in SUBSET Nat /\ Times # {} /\ Times \in SUBSET Int
        BY DEF RowsInv, Honest
    <2>2. PICK x \in Times : \A y \in Times : x <= y
        <3> HIDE DEF Times
        <3> QED BY <2>1, LeastThereIs
    <2>3. Oldest = x
        <3>1. Oldest = Min(Times)
            BY DEF Oldest
        <3> HIDE DEF Times
        <3> QED BY <2>1, <2>2, <3>1, MinIs
    <2>4. PICK o \in quota : Oldest = o.ts
        BY <2>3
    <2>5. Oldest # None /\ Oldest \in Nat
        BY <2>1, <2>3 DEF None
    <2>6. Starts(table') = {v.start : v \in {u \in table : u.start < Oldest}} \cup Starts(Derive(quota))
        BY <2>5, UpsertHolds DEF Replaced, Starts
    <2>7. Accounted(w.start) /\ OfItsOwn(w.start)
        BY DEF HistoryInv, Abroad
    <2>8. CASE \A r \in quota : w.start < r.ts
        BY <2>4, <2>6, <2>8
    <2>9. ASSUME NEW r \in Live(quota), r.ends = w.start + Length, r.ts <= r.ends + Tolerance
          PROVE  w.start \in Starts(Derive(quota))
        <3>1. Honest(quota) /\ now \in Nat
            BY DEF RowsInv, Clocked
        <3>2. PICK f \in Firsts(quota) : f.of = r.of /\ f.ts <= r.ts
            BY <3>1, FirstThereIs
        <3>3. f.ends = r.ends /\ f.ts \in Int /\ r.ts \in Int /\ r.ends + Tolerance \in Int
            BY <3>2 DEF RowsInv, OfTheVendor, Firsts, Honest, Live, SessionsAssumption
        <3>4. f \in Found(quota)
            BY <2>9, <3>2, <3>3 DEF Found
        <3>5. WindowOf(quota, f) \in Derive(quota)
            BY <3>1, <3>4, DeriveIs
        <3>6. WindowOf(quota, f).start = w.start
            BY <2>7, <2>9, <3>3 DEF WindowOf, OfItsOwn, SessionsAssumption
        <3> QED BY <3>5, <3>6 DEF Starts
    <2> QED BY <2>6, <2>7, <2>8, <2>9 DEF Accounted, Derivable
<1> QED BY <1>1, <1>2, <1>3, <1>4
    DEF Next, Moves, Message, Record, DeriveRecent, RebuildFailed, Down, ForgetDelete, ForgetDerive, Tick

(***************************************************************************)
(* With jitter and no deletions.  The table holds windows of the rows, and *)
(* under the newest of them all there are, as they have stayed since.      *)
(***************************************************************************)
TableOf(ws, rows) ==
    /\ \A w \in ws : \E f \in Found(rows) : w.start = f.ends - Length
    /\ \A v, w \in ws : v.start = w.start => v = w
    /\ \A w \in ws : \A f \in Found(rows) :
         f.ends - Length < w.start =>
            \E v \in ws : v.start = f.ends - Length /\ v.samples = Cardinality(RowsOf(rows, f))
    /\ \A v, w \in ws : v.current /\ w.current => v = w

Recent ==
    IF Cardinality(table) < 2 THEN [windows |-> Derive(quota), since |-> None]
    ELSE [windows |-> {w \in Derive(TailRows(Previous)) : w.start >= Previous}, since |-> Previous]

TableInv ==
    ~exact => /\ TableOf(table, quota)
              /\ stage = "derived" => pending = Recent

LEMMA FoundApart ==
    ASSUME SessionsAssumption, now \in Nat, NEW rows, Honest(rows), NEW f \in Found(rows), NEW g \in Found(rows)
    PROVE  /\ f \in Live(rows) /\ f.ends \in Int /\ f.of \in Int /\ f.ts \in 0..now
           /\ f.of < g.of <=> f.ends < g.ends
           /\ f.of < g.of => f.ts < g.ts /\ f.ends + Length - Tolerance <= g.ends
           /\ f.of = g.of => f = g
           /\ Near(f.ends, g.ends) => f = g
<1>1. f \in Live(rows) /\ g \in Live(rows) /\ f \in Firsts(rows) /\ g \in Firsts(rows)
    BY DEF Found, Firsts
<1>2. /\ f.ends \in Int /\ g.ends \in Int /\ f.of \in Int /\ g.of \in Int /\ f.ts \in 0..now
      /\ Tolerance \in Nat /\ Length \in Nat /\ 2 * Tolerance < Length
    BY <1>1 DEF Honest, Live, SessionsAssumption
<1>3. f.of = g.of => f = g
    BY <1>1, FirstIsOne
<1>4. /\ f.of < g.of => f.ends + Length - Tolerance <= g.ends
      /\ g.of < f.of => g.ends + Length - Tolerance <= f.ends
      /\ Near(f.ends, g.ends) <=> f.of = g.of
    BY <1>1, FirstsApart
<1>5. f.of < g.of => f.ts < g.ts
    BY <1>1 DEF Honest
<1> QED BY <1>1, <1>2, <1>3, <1>4, <1>5

(* What is derived is such a table; every window of it is a session apart. *)
LEMMA DerivedIsTable ==
    ASSUME SessionsAssumption, now \in Nat, NEW rows, Honest(rows)
    PROVE  TableOf(Derive(rows), rows)
<1>1. Derive(rows) = {WindowOf(rows, f) : f \in Found(rows)}
    BY DeriveIs
<1>2. \A f, g \in Found(rows) : /\ f.ends \in Int /\ f.of \in Int /\ Length \in Int
                                /\ f.of = g.of => f = g
                                /\ f.of < g.of <=> f.ends < g.ends
    BY FoundApart DEF SessionsAssumption
<1>3. \A f \in Found(rows) : /\ WindowOf(rows, f).start = f.ends - Length
                             /\ WindowOf(rows, f).samples = Cardinality(RowsOf(rows, f))
                             /\ WindowOf(rows, f).current => Current(rows, f)
    BY DEF WindowOf
<1>4. \A w \in Derive(rows) : \E f \in Found(rows) : w = WindowOf(rows, f)
    BY <1>1
<1>5. \A v, w \in Derive(rows) : v.start = w.start => v = w
    <2> TAKE v, w \in Derive(rows)
    <2> HAVE v.start = w.start
    <2>1. PICK f \in Found(rows) : v = WindowOf(rows, f)
        BY <1>4
    <2>2. PICK g \in Found(rows) : w = WindowOf(rows, g)
        BY <1>4
    <2>3. f.ends = g.ends
        BY <1>2, <1>3, <2>1, <2>2
    <2>4. f = g
        BY <1>2, <2>3
    <2> QED BY <2>1, <2>2, <2>4
<1>6. \A v, w \in Derive(rows) : v.current /\ w.current => v = w
    <2> TAKE v, w \in Derive(rows)
    <2> HAVE v.current /\ w.current
    <2>1. PICK f \in Found(rows) : v = WindowOf(rows, f)
        BY <1>4
    <2>2. PICK g \in Found(rows) : w = WindowOf(rows, g)
        BY <1>4
    <2>3. g.of <= f.of /\ f.of <= g.of
        BY <1>3, <2>1, <2>2 DEF Current
    <2>4. f = g
        BY <1>2, <2>3
    <2> QED BY <2>1, <2>2, <2>4
<1>7. \A f \in Found(rows) : WindowOf(rows, f) \in Derive(rows)
    BY <1>1
<1> QED BY <1>3, <1>4, <1>5, <1>6, <1>7 DEF TableOf

LEMMA OneRowEach ==
    ASSUME SessionsAssumption, now \in Nat, NEW rows, Honest(rows), NEW ws, TableOf(ws, rows),
           NEW v \in ws, NEW w \in ws, Near(v.start, w.start)
    PROVE  v = w
<1>1. PICK f \in Found(rows) : v.start = f.ends - Length
    BY DEF TableOf
<1>2. PICK g \in Found(rows) : w.start = g.ends - Length
    BY DEF TableOf
<1>3. f.ends \in Int /\ g.ends \in Int /\ Length \in Int
    BY FoundApart DEF SessionsAssumption
<1>4. Near(f.ends, g.ends)
    BY <1>1, <1>2, <1>3 DEF Near
<1>5. f = g
    BY <1>4, FoundApart
<1> QED BY <1>1, <1>2, <1>5 DEF TableOf

(* A newer row leaves it one. *)
LEMMA TableGrows ==
    ASSUME SessionsAssumption, now \in Nat, NEW rows, Honest(rows), NEW ws, TableOf(ws, rows),
           NEW row, row.ts = now, \A r \in rows : r.ts < now, Honest(rows \cup {row})
    PROVE  TableOf(ws, rows \cup {row})
<1> DEFINE more == rows \cup {row}
<1>0. Honest(more)
    OBVIOUS
<1>1. \A r \in Live(more) : r \in Live(rows) \/ r = row
    BY DEF Live
<1>2. Live(rows) \subseteq Live(more)
    BY DEF Live
<1>3. \A f \in Firsts(rows) : f \in Firsts(more)
    <2> TAKE f \in Firsts(rows)
    <2>1. f \in Live(rows) /\ f.ts < now
        BY DEF Firsts, Live
    <2>2. f.ts \in Int
        BY <2>1 DEF Honest, Live
    <2>3. \A r \in Live(more) : r.of = f.of => f.ts <= r.ts
        <3> TAKE r \in Live(more)
        <3> HAVE r.of = f.of
        <3>1. r \in Live(rows) => f.ts <= r.ts
            BY DEF Firsts
        <3>2. r = row => f.ts <= r.ts
            BY <2>1, <2>2
        <3> QED BY <1>1, <3>1, <3>2
    <2> QED BY <1>2, <2>1, <2>3 DEF Firsts
<1>4. Found(rows) \subseteq Found(more)
    BY <1>3 DEF Found
<1>5. \A f \in Found(more) : f \in Found(rows) \/ f = row
    <2> TAKE f \in Found(more)
    <2>1. f \in Live(more) /\ f.ts <= f.ends + Tolerance /\ \A r \in Live(more) : r.of = f.of => f.ts <= r.ts
        BY DEF Found, Firsts
    <2> QED BY <1>1, <1>2, <2>1 DEF Found, Firsts
<1> HIDE DEF more
<1>6. \A f \in Found(rows) : f \in Live(more)
    BY <1>2 DEF Found, Firsts
<1>7. ASSUME NEW w \in ws, NEW f \in Found(more), f.ends - Length < w.start
      PROVE  \E v \in ws : v.start = f.ends - Length /\ v.samples = Cardinality(RowsOf(more, f))
    <2>1. PICK g \in Found(rows) : w.start = g.ends - Length
        BY DEF TableOf
    <2>2. g \in Found(more) /\ g.ts < now
        BY <1>4, <2>1 DEF Found, Firsts, Live
    <2>3. f.of < g.of /\ f.ts < g.ts /\ f.ts \in Int /\ g.ts \in Int
        <3>1. f.ends \in Int /\ g.ends \in Int /\ Length \in Int /\ f.ts \in Int /\ g.ts \in Int
            BY <1>0, <2>2, FoundApart DEF SessionsAssumption
        <3>2. f.ends < g.ends
            BY <1>7, <2>1, <3>1
        <3> QED BY <1>0, <2>2, <3>1, <3>2, FoundApart
    <2>4. f # row
        BY <2>2, <2>3
    <2>5. f \in Found(rows)
        BY <1>5, <2>4
    <2>6. row \in Live(more) => row.of # f.of
        <3> SUFFICES ASSUME row \in Live(more), row.of = f.of PROVE FALSE
            OBVIOUS
        <3>1. row.ts < g.ts
            BY <1>0, <1>6, <2>1, <2>3 DEF Honest
        <3> QED BY <2>2, <2>3, <3>1
    <2>7. RowsOf(more, f) = RowsOf(rows, f)
        BY <1>1, <1>2, <2>6 DEF RowsOf
    <2> QED BY <1>7, <2>5, <2>7 DEF TableOf
<1>8. TableOf(ws, more)
    BY <1>4, <1>7 DEF TableOf
<1> QED BY <1>8 DEF more

(* The two newest windows of the table, and the tail that they make read.  *)
LEMMA PreviousIs ==
    ASSUME SessionsAssumption, RowsInv, TableOf(table, quota), ~(Cardinality(table) < 2)
    PROVE  /\ Previous \in Nat
           /\ \E f \in Found(quota), w \in table : Previous = f.ends - Length /\ Previous < w.start
<1>0. now \in Nat /\ Honest(quota) /\ Length \in Nat /\ Tolerance \in Nat
    BY DEF RowsInv, Clocked, SessionsAssumption
<1> DEFINE last == now + Tolerance
<1>1. last \in Nat
    BY <1>0
<1>2. \A w \in table : w.start \in 0..last
    <2> TAKE w \in table
    <2>1. PICK f \in Found(quota) : w.start = f.ends - Length
        BY DEF TableOf
    <2>2. f \in Live(quota) /\ f.ends \in Int /\ f.of \in Int /\ f.ts \in 0..now
        BY <1>0, FoundApart
    <2>3. /\ Length <= f.of /\ f.of <= f.ends /\ f.ends <= f.of + Tolerance
          /\ f.of - Length <= f.ts
        BY <1>0, <2>2 DEF RowsInv, OfTheVendor, Honest
    <2> QED BY <1>0, <2>1, <2>2, <2>3
<1> HIDE DEF last
<1>3. Starts(table) \in SUBSET (0..last) /\ Starts(table) \in SUBSET Int
    BY <1>2 DEF Starts
<1>4. Starts(table) # {}
    <2>1. table # {}
        BY FS_EmptySet
    <2> QED BY <2>1 DEF Starts
<1>5. PICK x \in Starts(table) : \A y \in Starts(table) : y <= x
    BY <1>1, <1>3, <1>4, LargestThereIs
<1>6. Max(Starts(table)) = x
    BY <1>3, <1>5, MaxIs
<1> DEFINE others == Starts(table) \ {x}
<1>7. others # {}
    <2> SUFFICES ASSUME others = {} PROVE FALSE
        OBVIOUS
    <2>1. PICK w \in table : w.start = x
        BY DEF Starts
    <2>2. \A v \in table : v.start = x
        BY DEF Starts
    <2>3. table = {w}
        BY <2>1, <2>2 DEF TableOf
    <2>4. Cardinality(table) = 1
        BY <2>3, FS_Singleton
    <2> QED BY <2>4
<1>8. others \in SUBSET (0..last) /\ others \in SUBSET Int
    BY <1>3
<1>9. Previous = Max(others)
    BY <1>6 DEF Previous
<1>10. \A y \in others : y \in Starts(table) /\ y # x
    OBVIOUS
<1> HIDE DEF others
<1>11. PICK p \in others : \A y \in others : y <= p
    BY <1>1, <1>7, <1>8, LargestThereIs
<1>12. Previous = p
    BY <1>8, <1>9, <1>11, MaxIs
<1>13. p \in Starts(table) /\ p < x /\ p \in Nat
    BY <1>1, <1>3, <1>5, <1>10, <1>11
<1>14. PICK v \in table : v.start = p
    BY <1>13 DEF Starts
<1>15. PICK w \in table : w.start = x
    BY DEF Starts
<1>16. PICK f \in Found(quota) : v.start = f.ends - Length
    BY DEF TableOf
<1> QED BY <1>12, <1>13, <1>14, <1>15, <1>16

(* The tail holds every row of the previous window and of later ones; what *)
(* else it finds begins before.                                            *)
LEMMA TailAgrees ==
    ASSUME SessionsAssumption, now \in Nat, NEW rows, Honest(rows), NEW p \in Found(rows),
           NEW tail, tail = {r \in rows : r.ts >= p.ends - Length - Margin}
    PROVE  {w \in Derive(tail) : w.start >= p.ends - Length}
              = {WindowOf(rows, f) : f \in {g \in Found(rows) : g.of >= p.of}}
<1>0. Honest(tail) /\ Live(tail) \subseteq Live(rows)
    BY FewerAreHonest DEF Live
<1>1. /\ Tolerance \in Nat /\ Margin \in Nat /\ Length \in Nat
      /\ Tolerance <= Margin /\ 2 * Tolerance < Length
    BY DEF SessionsAssumption
<1>2. \A r \in Live(rows) : /\ r.ends \in Int /\ r.of \in Int /\ r.ts \in Int
                            /\ r.of <= r.ends /\ r.ends <= r.of + Tolerance
                            /\ r.of - Length <= r.ts
    BY DEF Honest, Live
<1>3. p \in Live(rows) /\ p \in Firsts(rows)
    BY DEF Found, Firsts
<1>4. \A r \in Live(rows) : r.of >= p.of => r \in Live(tail)
    <2> TAKE r \in Live(rows)
    <2> HAVE r.of >= p.of
    <2>1. r.ts >= p.ends - Length - Margin
        BY <1>1, <1>2, <1>3
    <2> QED BY <2>1 DEF Live
<1>5. \A r \in Live(tail) : r.of >= p.of => (r \in Firsts(tail) <=> r \in Firsts(rows))
    BY <1>0, <1>4 DEF Firsts
<1>6. \A f : f \in Found(tail) /\ f.of >= p.of <=> f \in Found(rows) /\ f.of >= p.of
    BY <1>0, <1>4, <1>5 DEF Found, Firsts
<1>7. \A f \in Found(rows) : f.of >= p.of => WindowOf(tail, f) = WindowOf(rows, f)
    <2> TAKE f \in Found(rows)
    <2> HAVE f.of >= p.of
    <2>1. RowsOf(tail, f) = RowsOf(rows, f)
        BY <1>0, <1>4 DEF RowsOf
    <2>2. \A h : h \in Found(tail) \/ h \in Found(rows) => h.of \in Int /\ p.of \in Int /\ f.of \in Int
        BY <1>0, <1>2, <1>3 DEF Found, Firsts
    <2>3. (\A h \in Found(tail) : h.of <= f.of) <=> (\A h \in Found(rows) : h.of <= f.of)
        <3>1. ASSUME NEW h, h.of \in Int, p.of \in Int, f.of \in Int, ~(h.of >= p.of), f.of >= p.of
              PROVE  h.of <= f.of
            BY <3>1
        <3>2. ASSUME \A h \in Found(tail) : h.of <= f.of, NEW h \in Found(rows) PROVE h.of <= f.of
            BY <1>6, <2>2, <3>1, <3>2
        <3>3. ASSUME \A h \in Found(rows) : h.of <= f.of, NEW h \in Found(tail) PROVE h.of <= f.of
            BY <1>6, <2>2, <3>1, <3>3
        <3> QED BY <3>2, <3>3
    <2>4. Current(tail, f) = Current(rows, f)
        BY <2>3 DEF Current
    <2> QED BY <2>1, <2>4 DEF WindowOf
<1>8. \A f \in Found(tail) : WindowOf(tail, f).start >= p.ends - Length <=> f.of >= p.of
    <2> TAKE f \in Found(tail)
    <2>1. WindowOf(tail, f).start = f.ends - Length
        BY DEF WindowOf
    <2>2. f \in Live(rows) /\ f.ends \in Int /\ f.of \in Int /\ p.ends \in Int /\ p.of \in Int
        BY <1>0, <1>2, <1>3 DEF Found, Firsts
    <2>3. CASE f.of >= p.of
        <3>1. f \in Found(rows)
            BY <1>6, <2>3
        <3>2. f.of = p.of => f = p
            BY <3>1, FoundApart
        <3>3. p.of < f.of => p.ends < f.ends
            BY <3>1, FoundApart
        <3> QED BY <1>1, <2>1, <2>2, <2>3, <3>2, <3>3
    <2>4. CASE ~(f.of >= p.of)
        <3>1. f.of < p.of
            BY <2>2, <2>4
        <3>2. f.ends < p.ends - Tolerance
            BY <1>3, <2>2, <3>1, FirstsApart
        <3> QED BY <1>1, <2>1, <2>2, <2>4, <3>2
    <2> QED BY <2>3, <2>4
<1>9. Derive(tail) = {WindowOf(tail, f) : f \in Found(tail)}
    <2>1. Honest(tail)
        BY <1>0
    <2> QED BY ONLY SessionsAssumption, now \in Nat, <2>1, DeriveIs
<1> QED BY <1>6, <1>7, <1>8, <1>9

(* So the incremental pass leaves what the full one would.                 *)
LEMMA TailIsEnough ==
    ASSUME SessionsAssumption, RowsInv, TableOf(table, quota), ~(Cardinality(table) < 2)
    PROVE  Upsert(Demoted(table, Previous), {w \in Derive(TailRows(Previous)) : w.start >= Previous})
              = Derive(quota)
<1>0. now \in Nat /\ Honest(quota) /\ Length \in Nat
    BY DEF RowsInv, Clocked, SessionsAssumption
<1>1. PICK p \in Found(quota), last \in table :
         Previous = p.ends - Length /\ Previous < last.start
    BY PreviousIs
<1> DEFINE new == {w \in Derive(TailRows(Previous)) : w.start >= Previous}
           From(f) == f.of >= p.of
<1>2. new = {WindowOf(quota, f) : f \in {g \in Found(quota) : From(g)}}
    <2>1. TailRows(Previous) = {r \in quota : r.ts >= p.ends - Length - Margin}
        BY <1>1 DEF TailRows
    <2> QED BY <1>0, <1>1, <2>1, TailAgrees
<1>3. Derive(quota) = {WindowOf(quota, f) : f \in Found(quota)}
    BY <1>0, DeriveIs
<1>4. \A f \in Found(quota) : /\ f.ends \in Int /\ f.of \in Int
                              /\ WindowOf(quota, f).start = f.ends - Length
                              /\ \A g \in Found(quota) : /\ f.ends = g.ends => f = g
                                                         /\ f.of < g.of <=> f.ends < g.ends
    <2> TAKE f \in Found(quota)
    <2>1. f.ends \in Int /\ f.of \in Int
        BY <1>0, FoundApart
    <2>2. \A g \in Found(quota) : /\ f.of < g.of <=> f.ends < g.ends
                                  /\ g.of < f.of <=> g.ends < f.ends
                                  /\ f.of = g.of => f = g
                                  /\ g.of \in Int /\ g.ends \in Int
        BY <1>0, FoundApart
    <2> QED BY <2>1, <2>2 DEF WindowOf
<1> HIDE DEF new
<1>5. \A f \in Found(quota) : From(f) <=> f.ends - Length \in Starts(new)
    <2> TAKE f \in Found(quota)
    <2>1. From(f) => f.ends - Length \in Starts(new)
        BY <1>2, <1>4 DEF Starts
    <2>2. ASSUME f.ends - Length \in Starts(new) PROVE From(f)
        <3>1. PICK g \in Found(quota) : From(g) /\ f.ends - Length = WindowOf(quota, g).start
            BY <1>2, <2>2 DEF Starts
        <3>2. f.ends = g.ends
            BY <1>0, <1>4, <3>1
        <3> QED BY <1>4, <3>1, <3>2
    <2> QED BY <2>1, <2>2
<1> DEFINE D(w) == [start   |-> w.start,
                    current |-> w.current /\ w.start >= Previous,
                    samples |-> w.samples]
<1>6. Demoted(table, Previous) = {D(w) : w \in table}
    BY DEF Demoted
\* What the table holds of a window before the previous one.
<1>7. ASSUME NEW f \in Found(quota), ~From(f), NEW w \in table, w.start = f.ends - Length
      PROVE  D(w) = WindowOf(quota, f)
    <2>1. f.of < p.of /\ f.ends < p.ends
        BY <1>4, <1>7
    <2>2. PICK l \in Found(quota) : last.start = l.ends - Length
        BY DEF TableOf
    <2>3. f.ends - Length < last.start
        BY <1>0, <1>1, <1>4, <2>1, <2>2
    <2>4. PICK v \in table : v.start = f.ends - Length /\ v.samples = Cardinality(RowsOf(quota, f))
        BY <2>3 DEF TableOf
    <2>5. v = w
        BY <1>7, <2>4 DEF TableOf
    <2>6. ~(w.start >= Previous)
        BY <1>0, <1>1, <1>4, <1>7, <2>1
    <2>7. Current(quota, f) = FALSE
        BY <1>4, <2>1 DEF Current
    <2>8. D(w) = [start |-> f.ends - Length, current |-> FALSE, samples |-> Cardinality(RowsOf(quota, f))]
        BY <1>7, <2>4, <2>5, <2>6
    <2> HIDE DEF D
    <2> QED BY <2>7, <2>8 DEF WindowOf
<1>8. \A w \in table : D(w).start = w.start
    OBVIOUS
<1> HIDE DEF D, From
<1>9. ASSUME NEW f \in Found(quota), ~From(f)
      PROVE  \E w \in table : w.start = f.ends - Length
    <2>1. f.of < p.of /\ f.ends < p.ends
        BY <1>4, <1>9 DEF From
    <2>2. PICK l \in Found(quota) : last.start = l.ends - Length
        BY DEF TableOf
    <2>3. f.ends - Length < last.start
        BY <1>0, <1>1, <1>4, <2>1, <2>2
    <2> QED BY <2>3 DEF TableOf
<1>10. Upsert(Demoted(table, Previous), new)
          = {w \in {D(v) : v \in table} : w.start \notin Starts(new)} \cup new
    BY <1>6 DEF Upsert
<1>11. ASSUME NEW w \in {D(v) : v \in table}, w.start \notin Starts(new)
       PROVE  w \in Derive(quota)
    <2>1. PICK v \in table : w = D(v)
        BY <1>11
    <2>2. PICK f \in Found(quota) : v.start = f.ends - Length
        BY DEF TableOf
    <2>3. ~From(f)
        BY <1>5, <1>8, <1>11, <2>1, <2>2
    <2>4. w = WindowOf(quota, f)
        BY <1>7, <2>1, <2>2, <2>3
    <2> QED BY <1>3, <2>4
<1>12. ASSUME NEW f \in Found(quota), ~From(f)
       PROVE  /\ WindowOf(quota, f) \in {D(v) : v \in table}
              /\ WindowOf(quota, f).start \notin Starts(new)
    <2>1. PICK w \in table : w.start = f.ends - Length
        BY <1>9, <1>12
    <2>2. WindowOf(quota, f) = D(w)
        BY <1>7, <1>12, <2>1
    <2> QED BY <1>4, <1>5, <1>12, <2>2
<1>13. \A f \in Found(quota) : From(f) => WindowOf(quota, f) \in new
    BY <1>2
<1>14. new \subseteq Derive(quota)
    BY <1>2, <1>3
<1>15. Upsert(Demoted(table, Previous), new) = Derive(quota)
    BY <1>3, <1>10, <1>11, <1>12, <1>13, <1>14
<1> QED BY <1>15 DEF new

LEMMA TableBegins == ASSUME SessionsAssumption, Init PROVE TableInv
BY DEF Init, TableInv, TableOf

LEMMA SameRecent ==
    ASSUME quota' = quota, table' = table, now' = now
    PROVE  Recent' = Recent
BY DEF Recent, Derive, Groups, Grouped, Joined, Near, LastTs, TailRows, Previous

(* What is written without deletions is what the full pass derives. *)
LEMMA WritesTheWhole ==
    ASSUME SessionsAssumption, RowsInv, TableInv, ~exact, WriteRecent
    PROVE  table' = Derive(quota)
<1>1. TableOf(table, quota) /\ pending = Recent
    BY DEF TableInv, WriteRecent
<1>2. CASE Cardinality(table) < 2
    <2>1. pending = [windows |-> Derive(quota), since |-> None]
        BY <1>1, <1>2 DEF Recent
    <2>2. table' = Replaced(table, Derive(quota), None)
        BY <2>1 DEF WriteRecent
    <2> QED BY <2>2 DEF Replaced, Upsert
<1>3. CASE ~(Cardinality(table) < 2)
    <2>1. pending = [windows |-> {w \in Derive(TailRows(Previous)) : w.start >= Previous}, since |-> Previous]
        BY <1>1, <1>3 DEF Recent
    <2>2. Previous # None
        BY <1>1, <1>3, PreviousIs DEF None
    <2>3. table' = Upsert(Demoted(table, Previous), {w \in Derive(TailRows(Previous)) : w.start >= Previous})
        BY <2>1, <2>2 DEF WriteRecent
    <2> QED BY <1>1, <1>3, <2>3, TailIsEnough
<1> QED BY <1>2, <1>3

LEMMA StartWritesTheWhole ==
    ASSUME SessionsAssumption, RowsInv, TableOf(table, quota), NEW since
    PROVE  Replaced(table, Derive(quota), since) = Derive(quota)
<1>1. now \in Nat /\ Honest(quota)
    BY DEF RowsInv, Clocked
<1>2. \A w \in table : w.start \in Starts(Derive(quota))
    <2> TAKE w \in table
    <2>1. PICK f \in Found(quota) : w.start = f.ends - Length
        BY DEF TableOf
    <2>2. WindowOf(quota, f) \in Derive(quota) /\ WindowOf(quota, f).start = w.start
        BY <1>1, <2>1, DeriveIs DEF WindowOf
    <2> QED BY <2>2 DEF Starts
<1> QED BY <1>2 DEF Replaced, Upsert

LEMMA TableStep ==
    ASSUME SessionsAssumption, SameSecond = FALSE, RowsInv, TableInv, [Next]_vars
    PROVE  TableInv'
<1> SUFFICES ASSUME ~exact' PROVE TableOf(table', quota') /\ (stage' = "derived" => pending' = Recent')
    BY DEF TableInv
<1>0. ~exact /\ TableOf(table, quota) /\ (stage = "derived" => pending = Recent)
    BY DEF Next, vars, TableInv
<1>a. now \in Nat /\ Honest(quota)
    BY DEF RowsInv, Clocked
<1>1. CASE /\ UNCHANGED <<quota, table, now>>
           /\ stage' = "derived" => pending' = pending /\ stage = "derived"
    BY <1>0, <1>1, SameRecent
<1>2. CASE Record /\ UNCHANGED exact
    <2>1. PICK row : quota' = quota \cup {row} /\ row.ts = now /\ \A r \in quota : r.ts < now
        BY <1>2, RecordKeeps
    <2>2. Honest(quota)' /\ now' = now
        BY <1>2, RecordKeeps DEF Record
    <2>3. Honest(quota \cup {row})
        BY <2>1, <2>2 DEF Honest
    <2>4. TableOf(table, quota \cup {row})
        BY <1>0, <1>a, <2>1, <2>3, TableGrows
    <2> QED BY <1>2, <2>1, <2>4 DEF Record
<1>3. CASE DeriveRecent
    <2>1. pending' = Recent /\ UNCHANGED <<quota, table, now>>
        BY <1>3 DEF DeriveRecent, Recent
    <2> QED BY <1>0, <2>1, SameRecent
<1>4. CASE WriteRecent
    <2>1. table' = Derive(quota) /\ quota' = quota /\ stage' = "idle"
        BY <1>0, <1>4, WritesTheWhole DEF WriteRecent, TableInv
    <2> QED BY <1>a, <2>1, DerivedIsTable
<1>5. CASE Start
    <2>1. stage # "derived" /\ stage' = stage /\ quota' = quota
        BY <1>5 DEF Start, RowsInv, InTurn
    <2>2. table' = Derive(quota) \/ table' = table
        BY <1>0, <1>5, StartWritesTheWhole DEF Start
    <2> QED BY <1>0, <1>a, <2>1, <2>2, DerivedIsTable
<1>6. CASE ForgetReplace \/ ForgetDerive \/ Prune \/ (\E w \in table : ForgetDelete(w))
    BY <1>0, <1>6 DEF ForgetReplace, ForgetDerive, Prune, ForgetDelete, RowsInv, InTurn
<1>7. CASE Message \/ RebuildFailed \/ Down \/ UNCHANGED vars
    BY <1>1, <1>7 DEF Message, RebuildFailed, Down, vars, serverVars, commandVars
<1>8. CASE Tick
    BY <1>0, <1>8 DEF Tick, serverVars
<1> QED BY <1>2, <1>3, <1>4, <1>5, <1>6, <1>7, <1>8 DEF Next, Moves

(***************************************************************************)
(* The invariant and the theorems.                                         *)
(***************************************************************************)
SessionsInv == RowsInv /\ HistoryInv /\ TableInv

LEMMA SessionsBegin == ASSUME SessionsAssumption, Init PROVE SessionsInv
BY RowsBegin, HistoryBegins, TableBegins DEF SessionsInv

LEMMA SessionsStep ==
    ASSUME SessionsAssumption, SameSecond = FALSE, SessionsInv, [Next]_vars
    PROVE  SessionsInv'
BY RowsStep, HistoryStep, TableStep DEF SessionsInv

LEMMA SessionsSafe == ASSUME SessionsAssumption, SessionsInv PROVE RowsAreSessions
<1> SUFFICES ASSUME ~exact PROVE OneRowPerSession /\ AtMostOneCurrent
    BY DEF RowsAreSessions
<1>1. now \in Nat /\ Honest(quota) /\ TableOf(table, quota)
    BY DEF SessionsInv, RowsInv, Clocked, TableInv
<1>2. OneRowPerSession
    BY <1>1, OneRowEach DEF OneRowPerSession
<1>3. AtMostOneCurrent
    BY <1>1 DEF TableOf, AtMostOneCurrent
<1> QED BY <1>2, <1>3

LEMMA SessionsHold ==
    ASSUME SameSecond = FALSE
    PROVE  Spec => []SessionsInv
<1>1. Init => SessionsInv
    BY SessionsAssumption, SessionsBegin
<1>2. SessionsInv /\ [Next]_vars => SessionsInv'
    BY SessionsAssumption, SessionsStep
<1> QED BY <1>1, <1>2, PTL DEF Spec

(* sessions._group_rate_rows: however the expiries jitter, one session is   *)
(* one row, whichever pass wrote it, and one row at most is current.       *)
THEOREM OneRowASession ==
    ASSUME SameSecond = FALSE
    PROVE  Spec => []RowsAreSessions
<1>1. SessionsInv => RowsAreSessions
    BY SessionsAssumption, SessionsSafe
<1> QED BY <1>1, SessionsHold, PTL

(* sessions.rebuild_recent: while nothing is deleted, writing the tail      *)
(* leaves the table a full rebuild would, after any failed rebuilds, deaths *)
(* and starts.                                                             *)
THEOREM TheTailIsEnough ==
    ASSUME SameSecond = FALSE
    PROVE  Spec => RecentEqualsFull
<1>1. SessionsInv /\ [Next]_vars => [~exact => WritesAll]_vars
    BY SessionsAssumption, WritesTheWhole DEF SessionsInv, WritesAll
<1> QED BY <1>1, SessionsHold, PTL DEF RecentEqualsFull, Spec

(* store.replace_sessions: no prune, incremental pass or start takes a      *)
(* window within the floor out of the table that nobody forgot, whatever a *)
(* `forget` of another process is in the middle of.                        *)
THEOREM NoWindowIsLost ==
    ASSUME SameSecond = FALSE
    PROVE  Spec => HistoryIsKept
<1>1. SessionsInv /\ [Next]_vars => [exact => KeepsHistory]_vars
    BY SessionsAssumption, StepKeepsHistory DEF SessionsInv
<1> QED BY <1>1, SessionsHold, PTL DEF HistoryIsKept, Spec
=============================================================================
