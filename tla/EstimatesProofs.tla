--------------------------- MODULE EstimatesProofs ---------------------------
(***************************************************************************)
(* What is proved of Estimates, for every instance and every history.      *)
(*                                                                         *)
(* Spend, Pace: the readings of spend depend on nothing but the blocks, and *)
(* a projection on nothing but the hour, the level and the weeks behind, so *)
(* that their types are all the invariant: the work is in what is computed *)
(* from them.                                                              *)
(* Parse: likewise; the readings of a payload are found entry by entry.    *)
(* Account: the invariant relates every two rows of the store, and a row   *)
(* and the account as it stands: what a session and a week show of what    *)
(* was used between them, and when they do not.                            *)
(* That time is accounted for needs when sessions opened too, and rests on *)
(* counting: a total is what the parts of a set hold when they are apart.  *)
(***************************************************************************)
EXTENDS Estimates, FiniteSets, FiniteSetTheorems, WellFoundedInduction, TLAPS

SpendTyped ==
    /\ spend \in E!AtMostOne(E!SpendBlocks)
    /\ extra \in E!AtMostOne(E!ExtraBlocks)
    /\ overage \in E!AtMostOne(E!OverageBlocks)

SpendReadingSet ==
    [used : Amounts, limit : E!OrAbsent(Amounts), exponent : PLAUSIBLE_EXPONENTS,
     until : E!OrAbsent(Untils), conflict : BOOLEAN]

(* _exponent never lets through what it should refuse. *)
LEMMA ExponentIsPlausible ==
    ASSUME E!SpendAssumption, NEW first, NEW second
    PROVE  E!Exponent(first, second) \subseteq PLAUSIBLE_EXPONENTS
BY DEF E!Exponent, E!SpendAssumption

(* What the two readers of the usage payload return. *)
LEMMA SpendReadings ==
    ASSUME E!SpendAssumption, SpendTyped
    PROVE  E!FromSpend \subseteq SpendReadingSet /\ \A r \in E!FromSpend : r.until = NotThere /\ ~r.conflict
<1> SUFFICES ASSUME NEW r \in E!FromSpend PROVE r \in SpendReadingSet /\ r.until = NotThere /\ ~r.conflict
    OBVIOUS
<1>1. PICK b \in spend : \E e \in E!Exponent(b.usedExp, b.limitExp) : r = E!Reading(b, e, NotThere)
    BY DEF E!FromSpend
<1>2. PICK e \in E!Exponent(b.usedExp, b.limitExp) : r = E!Reading(b, e, NotThere)
    BY <1>1
<1>3. b \in E!SpendBlocks
    BY DEF SpendTyped, E!AtMostOne
<1>4. e \in PLAUSIBLE_EXPONENTS
    BY ExponentIsPlausible
<1> QED BY <1>2, <1>3, <1>4 DEF E!Reading, SpendReadingSet, E!SpendBlocks, E!OrAbsent

(* The extra usage's may know when spending returns. *)
LEMMA ExtraReadings ==
    ASSUME E!SpendAssumption, SpendTyped
    PROVE  E!FromExtra \subseteq SpendReadingSet
<1> SUFFICES ASSUME NEW r \in E!FromExtra PROVE r \in SpendReadingSet
    OBVIOUS
<1>1. PICK b \in extra : \E e \in E!Exponent(b.exp, NotThere) : r = E!Reading(b, e, b.until)
    BY DEF E!FromExtra
<1>2. PICK e \in E!Exponent(b.exp, NotThere) : r = E!Reading(b, e, b.until)
    BY <1>1
<1>3. b \in E!ExtraBlocks
    BY DEF SpendTyped, E!AtMostOne
<1>4. e \in PLAUSIBLE_EXPONENTS
    BY ExponentIsPlausible
<1> QED BY <1>2, <1>3, <1>4 DEF E!Reading, SpendReadingSet, E!ExtraBlocks, E!OrAbsent

(* A block gives at most one reading, for it has at most one exponent. *)
LEMMA OneReadingEach ==
    ASSUME E!SpendAssumption, SpendTyped
    PROVE  /\ \A a \in E!FromSpend, b \in E!FromSpend : a = b
           /\ \A a \in E!FromExtra, b \in E!FromExtra : a = b
<1>1. ASSUME NEW first, NEW second, NEW d \in E!Exponent(first, second), NEW e \in E!Exponent(first, second)
      PROVE  d = e
    BY <1>1 DEF E!Exponent
<1>2. \A b, c \in spend : b = c
    BY DEF SpendTyped, E!AtMostOne
<1>3. \A b, c \in extra : b = c
    BY DEF SpendTyped, E!AtMostOne
<1>4. \A a \in E!FromSpend, b \in E!FromSpend : a = b
    BY <1>1, <1>2 DEF E!FromSpend
<1>5. \A a \in E!FromExtra, b \in E!FromExtra : a = b
    BY <1>1, <1>3 DEF E!FromExtra
<1> QED BY <1>4, <1>5

(* What is added for want of a moment changes nothing else. *)
LEMMA UntilIsAdded ==
    ASSUME E!SpendAssumption, SpendTyped, NEW r \in SpendReadingSet, NEW s \in E!WithDisabledUntil(r)
    PROVE  /\ s \in SpendReadingSet
           /\ s.used = r.used /\ s.limit = r.limit /\ s.exponent = r.exponent
           /\ s.conflict = r.conflict
           /\ s.until = NotThere => r.until = NotThere /\ \A b \in overage : b.until = NotThere
<1>1. CASE r.until # NotThere \/ overage = {}
    BY <1>1 DEF E!WithDisabledUntil
<1>2. CASE ~(r.until # NotThere \/ overage = {})
    <2>1. PICK b \in overage : s = [r EXCEPT !.until = b.until]
        BY <1>2 DEF E!WithDisabledUntil
    <2>2. b \in E!OverageBlocks /\ \A c \in overage : c = b
        BY DEF SpendTyped, E!AtMostOne
    <2> QED BY <1>2, <2>1, <2>2 DEF E!OverageBlocks, SpendReadingSet
<1> QED BY <1>1, <1>2

(* The reading of any three payloads is agreed. *)
LEMMA SpendIsAgreedTyped ==
    ASSUME E!SpendAssumption, SpendTyped
    PROVE  E!SpendIsAgreed
<1> SUFFICES ASSUME NEW s \in E!ParseSpend
             PROVE  /\ ~s.conflict => \A b \in E!FromSpend \cup E!FromExtra :
                           b.used = s.used /\ (b.limit = s.limit \/ NotThere \in {b.limit, s.limit})
                    /\ s.until = NotThere => \A b \in E!FromExtra \cup overage : b.until = NotThere
                    /\ s.exponent \in PLAUSIBLE_EXPONENTS
    BY DEF E!SpendIsAgreed, E!AmountsAreAgreed, E!ReturnIsTold
<1>1. CASE E!FromSpend = {} /\ E!FromExtra = {}
    <2>1. PICK b \in overage : s = E!Reading(b, DEFAULT_EXPONENT, b.until)
        BY <1>1 DEF E!ParseSpend, E!FromOverage
    <2>2. \A c \in overage : c = b
        BY DEF SpendTyped, E!AtMostOne
    <2> QED BY <1>1, <2>1, <2>2 DEF E!Reading, E!SpendAssumption
<1>2. CASE E!FromSpend = {} /\ E!FromExtra # {}
    <2>1. PICK r \in E!FromExtra : s \in E!WithDisabledUntil(r)
        BY <1>2 DEF E!ParseSpend
    <2>2. r \in SpendReadingSet /\ \A b \in E!FromExtra : b = r
        BY ExtraReadings, OneReadingEach
    <2> QED BY <1>2, <2>1, <2>2, UntilIsAdded DEF SpendReadingSet
<1>3. CASE E!FromSpend # {} /\ E!FromExtra = {}
    <2>1. PICK r \in E!FromSpend : s \in E!WithDisabledUntil(r)
        BY <1>3 DEF E!ParseSpend
    <2>2. r \in SpendReadingSet /\ \A b \in E!FromSpend : b = r
        BY SpendReadings, OneReadingEach
    <2> QED BY <1>3, <2>1, <2>2, UntilIsAdded DEF SpendReadingSet
<1>4. CASE E!FromSpend # {} /\ E!FromExtra # {}
    <2>1. PICK a \in E!FromSpend, b \in E!FromExtra : s \in E!WithDisabledUntil(E!Merged(a, b))
        BY <1>4 DEF E!ParseSpend
    <2>2. /\ a \in SpendReadingSet /\ b \in SpendReadingSet
          /\ \A c \in E!FromSpend : c = a
          /\ \A c \in E!FromExtra : c = b
        BY SpendReadings, ExtraReadings, OneReadingEach
    <2> DEFINE m == E!Merged(a, b)
    <2>3. /\ m \in SpendReadingSet /\ m.used = a.used /\ m.limit = a.limit /\ m.until = b.until
          /\ m.conflict = E!Conflict(a, b)
        BY <2>2 DEF E!Merged, E!Conflict, SpendReadingSet
    <2> HIDE DEF m
    <2>4. /\ s \in SpendReadingSet /\ s.used = m.used /\ s.limit = m.limit /\ s.conflict = m.conflict
          /\ s.until = NotThere => m.until = NotThere /\ \A c \in overage : c.until = NotThere
        BY <2>1, <2>3, UntilIsAdded DEF m
    <2>5. ~s.conflict => b.used = s.used /\ (b.limit = s.limit \/ NotThere \in {b.limit, s.limit})
        BY <2>3, <2>4 DEF E!Conflict
    <2> QED BY <2>2, <2>3, <2>4, <2>5 DEF SpendReadingSet
<1> QED BY <1>1, <1>2, <1>3, <1>4

-----------------------------------------------------------------------------
(* parse_spend, for every sequence of payloads: a reading without the mark  *)
(* of a conflict says what every readable block says, is of a currency      *)
(* that exists and tells when spending returns if any block does.           *)
THEOREM SpendAgreed == Spec => []SpendIsAgreed
<1> DEFINE Inv == task = "spend" => SpendTyped
<1>1. Init => Inv
    BY DEF Init, SpendTyped, E!Init, E!AtMostOne
<1>2. Inv /\ [Next]_allVars => Inv'
    <2> SUFFICES ASSUME Inv, [Next]_allVars, task' = "spend" PROVE SpendTyped'
        OBVIOUS
    <2>1. task = "spend" /\ [E!Next]_E!vars
        BY DEF Next, allVars, spendVars, E!vars
    <2> QED BY <2>1 DEF SpendTyped, E!Next, E!NextSpend, E!NextExtra, E!NextOverage, E!vars
<1>3. Inv => SpendIsAgreed
    BY SpendIsAgreedTyped, EstimatesAssumption DEF SpendIsAgreed
<1> QED BY <1>1, <1>2, <1>3, PTL DEF Spec

-----------------------------------------------------------------------------
(* Pace.                                                                   *)

(* Any numbers have a least. *)
LEMMA LeastThereIs ==
    ASSUME NEW N \in SUBSET Nat, N # {}
    PROVE  \E x \in N : \A y \in N : x <= y
<1> DEFINE R == OpToRel(<, Nat)
<1>1. \A x, y \in Nat : <<x, y>> \in R <=> x < y
    BY DEF OpToRel
<1>2. IsWellFoundedOn(R, Nat)
    BY NatLessThanWellFounded
<1> HIDE DEF R
<1>3. PICK x \in N : \A y \in N : ~(<<y, x>> \in R)
    BY <1>2, WFMin
<1>4. ASSUME NEW y \in N PROVE x <= y
    <2>1. x \in Nat /\ y \in Nat /\ ~(<<y, x>> \in R)
        BY <1>3
    <2>2. ~(y < x)
        BY <1>1, <2>1
    <2> QED BY <2>1, <2>2
<1> QED BY <1>4

(* Numbers that have a bound have a largest. *)
LEMMA LargestThereIs ==
    ASSUME NEW n \in Nat, NEW N \in SUBSET (0..n), N # {}
    PROVE  \E x \in N : \A y \in N : y <= x
<1> DEFINE Below == {n - x : x \in N}
<1>1. Below \in SUBSET Nat /\ Below # {}
    <2>1. \A x \in N : n - x \in Nat
        OBVIOUS
    <2> QED BY <2>1
<1>2. PICK b \in Below : \A y \in Below : b <= y
    BY <1>1, LeastThereIs
<1>3. PICK x \in N : b = n - x
    OBVIOUS
<1>4. ASSUME NEW y \in N PROVE y <= x
    <2>1. n - y \in Below
        OBVIOUS
    <2>2. n - x <= n - y
        BY <1>2, <1>3, <2>1
    <2>3. x \in Int /\ y \in Int
        OBVIOUS
    <2> HIDE DEF Below
    <2> QED BY <2>2, <2>3
<1> QED BY <1>4

(* Pace counts as FiniteSets does. *)
LEMMA PaceCounts == \A N : P!Cardinality(N) = Cardinality(N)
BY DEF P!Cardinality, Cardinality

(* The values of a function on a finite set have a bound. *)
LEMMA Bounded ==
    ASSUME NEW D, IsFiniteSet(D), NEW f \in [D -> Nat]
    PROVE  \E b \in Nat : \A d \in D : f[d] <= b
<1>1. PICK n \in Nat : \E g : g \in Bijection(1..n, D)
    BY FS_NatBijection DEF ExistsBijection
<1>2. PICK g : g \in Bijection(1..n, D)
    BY <1>1
<1>3. g \in [1..n -> D] /\ \A d \in D : \E j \in 1..n : g[j] = d
    BY <1>2 DEF Bijection, Surjection
<1> DEFINE Bound(m, b) == \A j \in 1..n : j <= m => f[g[j]] <= b
           N == {m \in 0..n : \A b \in Nat : ~Bound(m, b)}
<1>4. ASSUME N # {} PROVE FALSE
    <2>1. N \in SUBSET Nat
        OBVIOUS
    <2>2. PICK m \in N : \A k \in N : m <= k
        <3> HIDE DEF N
        <3> QED BY <1>4, <2>1, LeastThereIs
    <2>3. m # 0
        <3>1. Bound(0, 0)
            OBVIOUS
        <3> QED BY <2>2, <3>1
    <2>4. m - 1 \in 0..n /\ m - 1 \notin N /\ m \in 1..n
        <3>1. m \in 0..n
            BY <2>2
        <3>2. m - 1 \in 0..n /\ ~(m <= m - 1) /\ m \in 1..n
            BY <2>3, <3>1
        <3> HIDE DEF N
        <3> QED BY <2>2, <3>2
    <2>5. PICK b \in Nat : Bound(m - 1, b)
        BY <2>4
    <2>6. f[g[m]] \in Nat
        BY <1>3, <2>4
    <2>7. PICK c \in Nat : b <= c /\ f[g[m]] <= c
        BY <2>6
    <2>8. Bound(m, c)
        <3>1. ASSUME NEW j \in 1..n, j <= m PROVE f[g[j]] <= c
            <4>1. j = m \/ j <= m - 1
                BY <2>4, <3>1
            <4>2. j <= m - 1 => f[g[j]] <= b /\ f[g[j]] \in Nat
                BY <1>3, <2>5
            <4> QED BY <2>7, <4>1, <4>2
        <3> QED BY <3>1
    <2> QED BY <2>2, <2>8
<1>5. PICK b \in Nat : Bound(n, b)
    <2>1. n \in 0..n /\ n \notin N
        BY <1>4, SMTT(20)
    <2> HIDE DEF Bound
    <2> QED BY <2>1
<1> QED BY <1>3, <1>5

(* Min is the least of any numbers. *)
LEMMA PaceMin ==
    ASSUME NEW N \in SUBSET Nat, N # {}, NEW x, x = P!Min(N)
    PROVE  x \in N /\ x \in Nat /\ \A y \in N : x <= y
<1>1. \E z \in N : \A y \in N : z <= y
    BY LeastThereIs
<1>2. x \in N /\ \A y \in N : x <= y
    BY <1>1 DEF P!Min
<1> QED BY <1>2

(* Max is the largest of numbers that have a bound. *)
LEMMA PaceMax ==
    ASSUME NEW b \in Nat, NEW N \in SUBSET (0..b), N # {}, NEW x, x = P!Max(N)
    PROVE  x \in N /\ x \in Nat /\ \A y \in N : y <= x
<1>1. \E z \in N : \A y \in N : y <= z
    BY LargestThereIs
<1>2. x \in N /\ \A y \in N : y <= x
    BY <1>1 DEF P!Max
<1> QED BY <1>2

(* Min and Max of two numbers. *)
LEMMA PaceMin2 ==
    ASSUME NEW a \in Int, NEW b \in Int
    PROVE  /\ P!Min({a, b}) \in {a, b} /\ P!Min({a, b}) <= a /\ P!Min({a, b}) <= b
           /\ P!Max({a, b}) \in {a, b} /\ a <= P!Max({a, b}) /\ b <= P!Max({a, b})
<1>1. \E x \in {a, b} : \A y \in {a, b} : x <= y
    OBVIOUS
<1>2. \E x \in {a, b} : \A y \in {a, b} : x >= y
    OBVIOUS
<1> QED BY <1>1, <1>2 DEF P!Min, P!Max

(* Min of three. *)
LEMMA PaceMin3 ==
    ASSUME NEW a \in Int, NEW b \in Int, NEW c \in Int
    PROVE  /\ P!Min({a, b, c}) \in {a, b, c} /\ P!Min({a, b, c}) <= a
           /\ P!Min({a, b, c}) <= b /\ P!Min({a, b, c}) <= c
<1>1. \E z \in {a, b, c} : \A y \in {a, b, c} : z <= y
    OBVIOUS
<1> QED BY <1>1 DEF P!Min

(* The places whose value is below x, and those whose value is not above.   *)
Under(D, f, x) == {d \in D : f[d] < x}
UpTo(D, f, x) == {d \in D : f[d] <= x}

(* How many of the values lie below the k-th smallest, and how many do not  *)
(* lie above it.                                                           *)
LEMMA SmallestIs ==
    ASSUME NEW D, IsFiniteSet(D), NEW f \in [D -> Nat], NEW k \in 1..Cardinality(D),
           NEW x, x = P!Smallest(f, k)
    PROVE  /\ x \in Nat /\ \E d \in D : f[d] = x
           /\ Cardinality(Under(D, f, x)) < k
           /\ k <= Cardinality(UpTo(D, f, x))
<1> DEFINE below(y) == {d \in D : f[d] < y}
           upTo(y) == {d \in D : f[d] <= y}
           N == {y \in Nat : k <= Cardinality(upTo(y))}
<1>1. Cardinality(D) \in Nat /\ k \in Nat \ {0}
    BY FS_CardinalityType
<1>2. \A y : /\ IsFiniteSet(below(y)) /\ Cardinality(below(y)) \in Nat
             /\ IsFiniteSet(upTo(y)) /\ Cardinality(upTo(y)) \in Nat
    <2> SUFFICES ASSUME NEW y PROVE /\ IsFiniteSet(below(y)) /\ Cardinality(below(y)) \in Nat
                                    /\ IsFiniteSet(upTo(y)) /\ Cardinality(upTo(y)) \in Nat
        OBVIOUS
    <2>1. below(y) \in SUBSET D /\ upTo(y) \in SUBSET D
        OBVIOUS
    <2> HIDE DEF below, upTo
    <2> QED BY <2>1, FS_Subset, FS_CardinalityType
<1>3. N # {}
    <2>1. PICK b \in Nat : \A d \in D : f[d] <= b
        BY Bounded
    <2>2. upTo(b) = D
        BY <2>1
    <2> HIDE DEF upTo
    <2>3. k <= Cardinality(upTo(b))
        BY <1>1, <2>2
    <2> QED BY <2>3
<1>4. PICK y \in N : \A z \in N : y <= z
    <2>1. N \in SUBSET Nat
        OBVIOUS
    <2> HIDE DEF N
    <2> QED BY <1>3, <2>1, LeastThereIs
<1>5. y \in Nat /\ k <= Cardinality(upTo(y))
    BY <1>4
<1>6. Cardinality(below(y)) < k
    <2>1. CASE y = 0
        <3>1. below(y) = {}
            BY <2>1
        <3> HIDE DEF below
        <3> QED BY <1>1, <3>1, FS_EmptySet
    <2>2. CASE y # 0
        <3>1. below(y) = upTo(y - 1)
            BY <1>5, <2>2
        <3>2. y - 1 \in Nat /\ y - 1 \notin N
            BY <1>4, <1>5, <2>2
        <3>3. ~(k <= Cardinality(upTo(y - 1)))
            BY <3>2
        <3> HIDE DEF below, upTo
        <3> QED BY <1>1, <1>2, <3>1, <3>3
    <2> QED BY <2>1, <2>2
<1>7. \E d \in D : f[d] = y
    <2>1. ASSUME \A d \in D : f[d] # y PROVE FALSE
        <3>1. upTo(y) = below(y)
            BY <1>5, <2>1
        <3> HIDE DEF upTo, below
        <3> QED BY <1>1, <1>2, <1>5, <1>6, <3>1
    <2> QED BY <2>1
<1>8. y \in P!Range(f)
    BY <1>7 DEF P!Range
<1>9. x = CHOOSE z \in P!Range(f) : Cardinality(below(z)) < k /\ k <= Cardinality(upTo(z))
    BY PaceCounts DEF P!Smallest
<1> HIDE DEF below, upTo
<1>10. x \in P!Range(f) /\ Cardinality(below(x)) < k /\ k <= Cardinality(upTo(x))
    BY <1>5, <1>6, <1>8, <1>9
<1>11. x \in Nat /\ \E d \in D : f[d] = x
    BY <1>10 DEF P!Range
<1>12. below(x) = Under(D, f, x) /\ upTo(x) = UpTo(D, f, x)
    BY DEF below, upTo, Under, UpTo
<1> QED BY <1>10, <1>11, <1>12

(* The values of a function to the integers, on a finite set, have bounds. *)
LEMMA BoundedBothWays ==
    ASSUME NEW D, IsFiniteSet(D), NEW f \in [D -> Int]
    PROVE  \E b \in Nat : \A d \in D : 0 - b <= f[d] /\ f[d] <= b
<1> DEFINE g == [d \in D |-> IF f[d] < 0 THEN 0 - f[d] ELSE f[d]]
<1>1. g \in [D -> Nat] /\ \A d \in D : f[d] \in Int /\ f[d] <= g[d] /\ 0 - g[d] <= f[d]
    OBVIOUS
<1> HIDE DEF g
<1>2. PICK b \in Nat : \A d \in D : g[d] <= b
    BY <1>1, Bounded
<1>3. ASSUME NEW d \in D PROVE 0 - b <= f[d] /\ f[d] <= b
    <2>1. g[d] \in Nat /\ g[d] <= b /\ f[d] \in Int /\ f[d] <= g[d] /\ 0 - g[d] <= f[d]
        BY <1>1, <1>2
    <2> QED BY <2>1
<1> QED BY <1>3

(* The same of whole numbers: they are shifted by a bound. *)
LEMMA SmallestOfIntegers ==
    ASSUME NEW D, IsFiniteSet(D), NEW f \in [D -> Int], NEW k \in 1..Cardinality(D),
           NEW x, x = P!Smallest(f, k)
    PROVE  /\ x \in Int /\ \E d \in D : f[d] = x
           /\ Cardinality(Under(D, f, x)) < k
           /\ k <= Cardinality(UpTo(D, f, x))
<1>1. PICK b \in Nat : \A d \in D : 0 - b <= f[d] /\ f[d] <= b
    BY BoundedBothWays
<1> DEFINE g == [d \in D |-> f[d] + b]
           y == P!Smallest(g, k)
           z == y - b
<1>2. g \in [D -> Nat] /\ \A d \in D : f[d] \in Int /\ g[d] = f[d] + b
    BY <1>1
<1> HIDE DEF g
<1>3. /\ y \in Nat /\ \E d \in D : g[d] = y
      /\ Cardinality(Under(D, g, y)) < k /\ k <= Cardinality(UpTo(D, g, y))
    BY <1>2, SmallestIs
<1> HIDE DEF y
<1>4. z \in Int /\ \E d \in D : f[d] = z
    BY <1>2, <1>3
<1>5. Under(D, f, z) = Under(D, g, y) /\ UpTo(D, f, z) = UpTo(D, g, y)
    <2>1. ASSUME NEW d \in D PROVE (f[d] < z <=> g[d] < y) /\ (f[d] <= z <=> g[d] <= y)
        BY <1>2, <1>3
    <2> HIDE DEF z
    <2> QED BY <2>1 DEF Under, UpTo
<1> HIDE DEF z
<1>6. z \in P!Range(f)
    BY <1>4 DEF P!Range
<1>7. x = CHOOSE w \in P!Range(f) : Cardinality(Under(D, f, w)) < k /\ k <= Cardinality(UpTo(D, f, w))
    BY PaceCounts DEF P!Smallest, Under, UpTo
<1>8. x \in P!Range(f) /\ Cardinality(Under(D, f, x)) < k /\ k <= Cardinality(UpTo(D, f, x))
    BY <1>3, <1>5, <1>6, <1>7
<1>9. x \in Int /\ \E d \in D : f[d] = x
    BY <1>8 DEF P!Range
<1> QED BY <1>8, <1>9

(* The smallest values come in their order. *)
LEMMA SmallerFirst ==
    ASSUME NEW D, IsFiniteSet(D), NEW f \in [D -> Int],
           NEW j \in 1..Cardinality(D), NEW k \in 1..Cardinality(D), j <= k,
           NEW x, x = P!Smallest(f, j), NEW y, y = P!Smallest(f, k)
    PROVE  x <= y
<1>1. x \in Int /\ Cardinality(Under(D, f, x)) < j
    BY SmallestOfIntegers
<1>2. y \in Int /\ k <= Cardinality(UpTo(D, f, y))
    BY SmallestOfIntegers
<1>3. Cardinality(D) \in Nat
    BY FS_CardinalityType
<1>4. ASSUME y < x PROVE FALSE
    <2> DEFINE below == Under(D, f, x)
               upTo == UpTo(D, f, y)
    <2>1. upTo \in SUBSET below
        BY <1>1, <1>2, <1>4 DEF Under, UpTo
    <2>2. below \in SUBSET D
        BY DEF Under
    <2>a. Cardinality(below) < j /\ k <= Cardinality(upTo)
        BY <1>1, <1>2
    <2> HIDE DEF upTo, below
    <2>3. IsFiniteSet(below) /\ Cardinality(below) \in Nat
        BY <2>2, FS_Subset, FS_CardinalityType
    <2>4. Cardinality(upTo) <= Cardinality(below) /\ Cardinality(upTo) \in Nat
        BY <2>1, <2>3, FS_Subset, FS_CardinalityType
    <2> QED BY <1>3, <2>3, <2>4, <2>a
<1> QED BY <1>1, <1>2, <1>4

(* A quotient is the largest whole number of times. *)
LEMMA DividedIs ==
    ASSUME NEW a \in Int, NEW n \in Nat \ {0}
    PROVE  a \div n \in Int /\ n * (a \div n) <= a /\ a < n * (a \div n) + n
<1>1. a \div n \in Int
    OBVIOUS
<1>2. a = n * (a \div n) + (a % n)
    OBVIOUS
<1>3. a % n \in 0..(n - 1)
    OBVIOUS
<1>4. n * (a \div n) \in Int
    BY <1>1
<1> QED BY <1>1, <1>2, <1>3, <1>4

(* A product grows with its factor. *)
LEMMA TimesGrows ==
    ASSUME NEW a \in Int, NEW b \in Int, NEW n \in Nat, a <= b
    PROVE  n * a <= n * b /\ n * a \in Int /\ n * b \in Int
OBVIOUS

(* A factor is smaller where the product is. *)
LEMMA TimesStrict ==
    ASSUME NEW a \in Int, NEW b \in Int, NEW n \in Nat \ {0}, n * a < n * b
    PROVE  a < b
<1>1. ASSUME b <= a PROVE FALSE
    <2>1. n * b <= n * a /\ n * a \in Int /\ n * b \in Int
        BY <1>1, TimesGrows
    <2> QED BY <2>1
<1> QED BY <1>1

(* What the assumption says of the lengths and the limit. *)
LEMMA NumbersArePositive ==
    WeekHours \in Nat \ {0} /\ MinElapsed \in Nat \ {0} /\ Out \in Nat \ {0} /\ PaceDrop \in Nat \ {0}
BY EstimatesAssumption DEF P!PaceAssumption

(* On a straight line the limit is reached after now, for the week is not  *)
(* at its limit yet; and a line that ends below it does not cross.         *)
LEMMA LinearIs ==
    ASSUME NEW h \in 1..WeekHours, NEW used2 \in Nat, used2 < Out,
           NEW x, x = P!LinearCrossing(h, used2)
    PROVE  /\ x \in h + 1..P!Never
           /\ (2 * used2 * WeekHours) \div h \in Int
           /\ 2 * used2 <= (2 * used2 * WeekHours) \div h
           /\ x = P!Never => (2 * used2 * WeekHours) \div h < 2 * Out
<1>1. WeekHours \in Nat /\ Out \in Nat /\ h \in Nat \ {0} /\ P!Never = WeekHours + 1 /\ h <= WeekHours
    BY NumbersArePositive DEF P!Never
<1> DEFINE z == (2 * used2 * WeekHours) \div h
           g == h * Out + used2 - 1
<1>2. 2 * used2 * WeekHours \in Int /\ h * Out \in Int /\ g \in Int /\ used2 * WeekHours \in Int
    BY <1>1
<1>3. z \in Int /\ h * z <= 2 * used2 * WeekHours /\ 2 * used2 * WeekHours < h * z + h
    BY <1>1, <1>2, DividedIs
<1>a. 2 * used2 <= z
    <2> DEFINE m == 2 * used2
    <2>1. m \in Nat /\ m * h <= m * WeekHours /\ m * h \in Int
        BY <1>1, TimesGrows
    <2> HIDE DEF m, z
    <2>2. m * WeekHours < h * z + h
        BY <1>3 DEF m
    <2>3. h * (z + 1) = h * z + h /\ h * m = m * h /\ h * z \in Int /\ m * WeekHours \in Int
        BY <1>1, <1>3, <2>1
    <2>4. h * m < h * (z + 1)
        BY <2>1, <2>2, <2>3, <1>1
    <2>5. m < z + 1
        BY <1>1, <1>3, <2>1, <2>4, TimesStrict
    <2>6. m <= z
        BY <1>3, <2>1, <2>5
    <2> QED BY <2>6 DEF m
<1>4. CASE used2 = 0
    <2>1. x = P!Never
        BY <1>4 DEF P!LinearCrossing
    <2>2. 2 * used2 * WeekHours = 0
        BY <1>1, <1>4
    <2>3. h * z < h * (2 * Out)
        <3>1. h * (2 * Out) = 2 * (h * Out)
            BY <1>1
        <3>2. h * Out > 0
            BY <1>1, NumbersArePositive
        <3> HIDE DEF z
        <3>3. h * z \in Int
            BY <1>1, <1>3
        <3> QED BY <1>2, <1>3, <2>2, <3>1, <3>2, <3>3
    <2>4. z < 2 * Out
        <3> HIDE DEF z
        <3> QED BY <1>1, <1>3, <2>3, TimesStrict
    <2> QED BY <1>1, <1>3, <1>a, <2>1, <2>4
<1>5. CASE used2 # 0
    <2> DEFINE q == g \div used2
    <2>1. q \in Int /\ used2 * q <= g /\ g < used2 * q + used2 /\ used2 * q \in Int
        <3>1. used2 \in Nat \ {0}
            BY <1>5
        <3> HIDE DEF g
        <3> QED BY <1>2, <3>1, DividedIs
    <2>2. x = P!Min({P!Never, q})
        BY <1>5 DEF P!LinearCrossing
    <2>3. x \in {P!Never, q} /\ x <= q /\ x <= P!Never
        <3> HIDE DEF q
        <3> QED BY <1>1, <2>1, <2>2, PaceMin2
    <2>4. h < q
        <3>1. h * (used2 + 1) <= h * Out
            BY <1>1, TimesGrows
        <3>2. h * (used2 + 1) = used2 * h + h /\ used2 * h \in Int
            BY <1>1
        <3>3. used2 * h + used2 <= g
            BY <1>1, <1>2, <3>1, <3>2
        <3>4. used2 * h < used2 * q
            <4> HIDE DEF q, g
            <4> QED BY <1>2, <2>1, <3>2, <3>3
        <3> HIDE DEF q
        <3> QED BY <1>1, <1>5, <2>1, <3>4, TimesStrict
    <2>5. x \in h + 1..P!Never
        <3> HIDE DEF q
        <3> QED BY <1>1, <2>1, <2>3, <2>4
    <2>6. ASSUME x = P!Never PROVE z < 2 * Out
        <3>1. WeekHours + 1 <= q
            <4> HIDE DEF q
            <4> QED BY <1>1, <2>3, <2>6
        <3>2. used2 * (WeekHours + 1) <= used2 * q
            <4> HIDE DEF q
            <4> QED BY <1>1, <2>1, <3>1, TimesGrows
        <3>3. used2 * (WeekHours + 1) = used2 * WeekHours + used2
            BY <1>1
        <3>4. used2 * WeekHours < h * Out
            <4> HIDE DEF q
            <4> QED BY <1>2, <2>1, <3>2, <3>3
        <3>5. 2 * used2 * WeekHours = 2 * (used2 * WeekHours) /\ h * (2 * Out) = 2 * (h * Out)
            BY <1>1
        <3>6. h * z < h * (2 * Out)
            <4> HIDE DEF z
            <4>1. h * z \in Int
                BY <1>1, <1>3
            <4> QED BY <1>2, <1>3, <3>4, <3>5, <4>1
        <3> HIDE DEF z
        <3> QED BY <1>1, <1>3, <3>6, TimesStrict
    <2> QED BY <1>3, <1>a, <2>5, <2>6
<1> QED BY <1>4, <1>5

(* A stored week that counts, filled up hour by hour, has a percentage at  *)
(* every hour.                                                             *)
LEMMA FilledIs ==
    ASSUME NEW w \in P!Behind, P!IsComplete(w)
    PROVE  P!Hourly(w) \in [P!Hours -> Nat]
<1>1. WeekHours \in Nat /\ P!Hours = 0..WeekHours /\ Levels \in SUBSET Nat
    BY NumbersArePositive, EstimatesAssumption DEF P!Hours, P!PaceAssumption
<1>2. PICK c \in P!Curves, hours \in P!Observed : w = P!Readings(c, hours)
    BY DEF P!Behind
<1>3. c \in [P!Hours -> Nat]
    BY <1>1 DEF P!Curves
<1>4. hours \in SUBSET P!Hours
    BY DEF P!Observed
<1>5. DOMAIN w = hours /\ hours # {} /\ \A h \in hours : w[h] = c[h]
    BY <1>2 DEF P!Readings, P!IsComplete
<1>6. \A h \in hours : w[h] \in Nat
    BY <1>3, <1>4, <1>5
<1> DEFINE upTo(h) == {g \in hours : g <= h}
           from(h) == IF upTo(h) = {} THEN P!Min(hours) ELSE P!Max(upTo(h))
<1>7. P!Min(hours) \in hours
    <2>1. hours \in SUBSET Nat
        BY <1>1, <1>4
    <2> QED BY <1>5, <2>1, PaceMin
<1>8. ASSUME NEW h \in P!Hours PROVE from(h) \in hours
    <2>1. CASE upTo(h) = {}
        BY <1>7, <2>1
    <2>2. CASE upTo(h) # {}
        <3>1. upTo(h) \in SUBSET (0..WeekHours) /\ upTo(h) \in SUBSET hours
            BY <1>1, <1>4
        <3> HIDE DEF upTo
        <3>2. P!Max(upTo(h)) \in upTo(h)
            BY <1>1, <2>2, <3>1, PaceMax
        <3> QED BY <2>2, <3>1, <3>2
    <2> QED BY <2>1, <2>2
<1>9. P!Hourly(w) = [h \in P!Hours |-> w[from(h)]]
    BY <1>5 DEF P!Hourly
<1> HIDE DEF from
<1> QED BY <1>6, <1>8, <1>9

(* The weeks behind that count: some, and where each one's course from the *)
(* hour asked about would take this week.  One that ends at the limit      *)
(* reached it at some hour; one that ends lower than now fell from here.   *)
LEMMA EndsAre ==
    ASSUME NEW D, IsFiniteSet(D), D # {}, NEW curves, DOMAIN curves = D,
           \A i \in D : curves[i] \in [P!Hours -> Nat],
           NEW h \in 1..WeekHours, NEW used2 \in Nat, used2 < Out,
           NEW ends, ends = [i \in D |-> used2 + curves[i][WeekHours] - curves[i][h]],
           NEW crossings, crossings = [i \in D |-> P!Crossing(curves[i], h, used2)]
    PROVE  /\ ends \in [D -> Int]
           /\ \A i \in D : ends[i] < used2 => curves[i][WeekHours] < curves[i][h]
           /\ crossings \in [D -> h + 1..P!Never]
           /\ \A i \in D : ends[i] >= Out => crossings[i] <= WeekHours
<1>1. /\ WeekHours \in Nat /\ P!Hours = 0..WeekHours /\ Out \in Nat
      /\ h \in Nat /\ P!Never = WeekHours + 1 /\ h <= WeekHours
    BY NumbersArePositive DEF P!Hours, P!Never
<1> SUFFICES ASSUME NEW i \in D
             PROVE  /\ ends[i] \in Int
                    /\ ends[i] < used2 => curves[i][WeekHours] < curves[i][h]
                    /\ crossings[i] \in h + 1..P!Never
                    /\ ends[i] >= Out => crossings[i] <= WeekHours
    OBVIOUS
<1> DEFINE q == curves[i]
           there == {t \in h + 1..WeekHours : used2 + q[t] - q[h] >= Out}
<1>2. q \in [P!Hours -> Nat]
    OBVIOUS
<1>3. h \in P!Hours /\ WeekHours \in P!Hours
    BY <1>1
<1>4. q[h] \in Nat /\ q[WeekHours] \in Nat
    <2> HIDE DEF q
    <2> QED BY <1>2, <1>3
<1>5. ends[i] = used2 + q[WeekHours] - q[h]
    OBVIOUS
<1>6. ends[i] \in Int /\ (ends[i] < used2 => q[WeekHours] < q[h])
    <2> HIDE DEF q
    <2> QED BY <1>4, <1>5
<1>7. crossings[i] = P!Min(there \cup {P!Never})
    BY DEF P!Crossing
<1>8. there \cup {P!Never} \in SUBSET Nat
    BY <1>1
<1>9. /\ crossings[i] \in there \cup {P!Never}
      /\ \A y \in there \cup {P!Never} : crossings[i] <= y
    <2> HIDE DEF there
    <2> QED BY <1>7, <1>8, PaceMin
<1>10. crossings[i] \in h + 1..P!Never
    BY <1>1, <1>9
<1>11. ASSUME ends[i] >= Out PROVE crossings[i] <= WeekHours
    <2>1. h # WeekHours
        BY <1>4, <1>5, <1>11, <1>1
    <2>2. WeekHours \in there
        BY <1>1, <1>5, <1>11, <2>1
    <2> HIDE DEF there
    <2> QED BY <1>9, <2>2
<1> QED BY <1>6, <1>10, <1>11

(* What PaceHangsTogether says of one projection. *)
Together(p, h, used2, fell) ==
    /\ 2 * used2 <= p.low2 /\ p.low2 <= p.high2 /\ p.end2 <= p.high2
    /\ p.low2 <= p.end2 \/ (p.low2 = 2 * used2 /\ fell)
    /\ p.end2 = 2 * Out => p.runsOut
    /\ p.runsOut => /\ h < p.first /\ p.first <= p.at /\ p.at <= WeekHours
                    /\ p.last # P!None => p.at <= p.last /\ p.last <= WeekHours
    /\ p.runsOut /\ p.last = P!None => p.low2 < 2 * Out

(* The places of the middle. *)
LEMMA Middles ==
    ASSUME NEW f, IsFiniteSet(DOMAIN f), DOMAIN f # {}, NEW n, n = Cardinality(DOMAIN f)
    PROVE  /\ n \in Nat \ {0} /\ P!HalfUp(f) \in 1..n /\ P!Half(f) + 1 \in 1..n
           /\ P!HalfUp(f) <= P!Half(f) + 1 /\ P!HalfUp(f) + P!Half(f) = n
<1>1. n \in Nat /\ n # 0
    BY FS_CardinalityType, FS_EmptySet
<1>2. P!HalfUp(f) = (n + 1) \div 2 /\ P!Half(f) = n \div 2
    BY PaceCounts DEF P!HalfUp, P!Half
<1> QED BY <1>1, <1>2

(* The values of f are the bounds of its range. *)
LEMMA RangeIs ==
    ASSUME NEW D, IsFiniteSet(D), D # {}, NEW f \in [D -> Int], NEW N, N = P!Range(f)
    PROVE  /\ P!Min(N) \in Int /\ (\E d \in D : P!Min(N) = f[d]) /\ \A d \in D : P!Min(N) <= f[d]
           /\ P!Max(N) \in Int /\ \A d \in D : f[d] <= P!Max(N)
<1>1. PICK b \in Nat : \A d \in D : 0 - b <= f[d] /\ f[d] <= b
    BY BoundedBothWays
<1> DEFINE Shifted == {f[d] + b : d \in D}
<1>2. Shifted # {} /\ Shifted \in SUBSET (0..b + b) /\ b + b \in Nat
    <2>1. ASSUME NEW d \in D PROVE f[d] + b \in 0..b + b
        <3>1. f[d] \in Int /\ 0 - b <= f[d] /\ f[d] <= b
            BY <1>1
        <3> QED BY <3>1
    <2> QED BY <2>1
<1>3. \A y \in N : y \in Int /\ y + b \in Shifted
    BY DEF P!Range
<1>4. \A d \in D : f[d] \in N /\ f[d] \in Int
    BY DEF P!Range
<1>5. \E z \in N : \A y \in N : z <= y
    <2>1. PICK x \in Shifted : \A y \in Shifted : x <= y
        <3>1. Shifted \in SUBSET Nat
            BY <1>2
        <3> HIDE DEF Shifted
        <3> QED BY <1>2, <3>1, LeastThereIs
    <2>2. PICK d \in D : x = f[d] + b
        BY <2>1
    <2> HIDE DEF Shifted
    <2>3. ASSUME NEW y \in N PROVE f[d] <= y
        <3>1. f[d] + b <= y + b /\ y \in Int /\ f[d] \in Int
            BY <1>3, <1>4, <2>1, <2>2
        <3> QED BY <3>1
    <2> QED BY <1>4, <2>3
<1>6. \E z \in N : \A y \in N : y <= z
    <2>1. PICK x \in Shifted : \A y \in Shifted : y <= x
        <3> HIDE DEF Shifted
        <3> QED BY <1>2, LargestThereIs
    <2>2. PICK d \in D : x = f[d] + b
        BY <2>1
    <2> HIDE DEF Shifted
    <2>3. ASSUME NEW y \in N PROVE y <= f[d]
        <3>1. y + b <= f[d] + b /\ y \in Int /\ f[d] \in Int
            BY <1>3, <1>4, <2>1, <2>2
        <3> QED BY <3>1
    <2> QED BY <1>4, <2>3
<1>7. P!Min(N) \in N /\ \A y \in N : P!Min(N) <= y
    BY <1>5 DEF P!Min
<1>8. P!Max(N) \in N /\ \A y \in N : y <= P!Max(N)
    BY <1>6 DEF P!Max
<1>9. \E d \in D : P!Min(N) = f[d]
    BY <1>7 DEF P!Range
<1> QED BY <1>3, <1>4, <1>7, <1>8, <1>9

(* At least half the weeks end at a median or above it, so that a median   *)
(* at the limit makes half the weeks cross it.                             *)
LEMMA HalfCross ==
    ASSUME NEW D, IsFiniteSet(D), D # {}, NEW ends \in [D -> Int], NEW crossings \in [D -> Int],
           \A i \in D : ends[i] >= Out => crossings[i] <= WeekHours,
           P!Smallest(ends, P!Half(ends) + 1) >= Out
    PROVE  P!Central(crossings) <= WeekHours
<1> DEFINE n == Cardinality(D)
           b == P!Smallest(ends, P!Half(ends) + 1)
           c == P!Smallest(crossings, P!HalfUp(crossings))
<1>1. DOMAIN ends = D /\ DOMAIN crossings = D
    OBVIOUS
<1>2. n \in Nat /\ P!Half(ends) + 1 \in 1..n /\ P!HalfUp(crossings) \in 1..n
    BY <1>1, Middles
<1>3. P!Half(ends) = n \div 2 /\ P!HalfUp(crossings) = (n + 1) \div 2
    BY <1>1, PaceCounts DEF P!Half, P!HalfUp
<1>4. b \in Int /\ b >= Out /\ Cardinality(Under(D, ends, b)) < P!Half(ends) + 1
    BY <1>2, SmallestOfIntegers
<1>5. c \in Int /\ Cardinality(Under(D, crossings, c)) < P!HalfUp(crossings)
    BY <1>2, SmallestOfIntegers
<1>6. WeekHours \in Nat /\ Out \in Nat
    BY NumbersArePositive
<1>7. ASSUME WeekHours < c PROVE FALSE
    <2> DEFINE X == Under(D, ends, b)
               Y2 == Under(D, crossings, c)
    <2>1. D \in SUBSET (X \cup Y2)
        <3> SUFFICES ASSUME NEW i \in D, i \notin X PROVE i \in Y2
            OBVIOUS
        <3>1. ends[i] \in Int /\ ends[i] >= b
            BY <1>4 DEF Under
        <3>2. ends[i] >= Out
            <4> HIDE DEF b
            <4> QED BY <1>4, <1>6, <3>1
        <3>3. crossings[i] <= WeekHours /\ crossings[i] \in Int
            BY <3>2
        <3>4. crossings[i] < c
            <4> HIDE DEF c
            <4> QED BY <1>5, <1>6, <1>7, <3>3
        <3> QED BY <3>4 DEF Under
    <2>2. X \in SUBSET D /\ Y2 \in SUBSET D
        BY DEF Under
    <2> HIDE DEF X, Y2
    <2>3. IsFiniteSet(X) /\ IsFiniteSet(Y2) /\ Cardinality(X) \in Nat /\ Cardinality(Y2) \in Nat
        BY <2>2, FS_Subset, FS_CardinalityType
    <2>4. D = X \cup Y2
        BY <2>1, <2>2
    <2>5. n <= Cardinality(X) + Cardinality(Y2)
        <3>1. /\ Cardinality(X \cup Y2) = Cardinality(X) + Cardinality(Y2) - Cardinality(X \cap Y2)
              /\ Cardinality(X \cap Y2) \in Nat
            BY <2>3, FS_Union, FS_Intersection, FS_CardinalityType
        <3> QED BY <2>3, <2>4, <3>1
    <2>6. Cardinality(X) < n \div 2 + 1 /\ Cardinality(Y2) < (n + 1) \div 2
        BY <1>3, <1>4, <1>5 DEF X, Y2
    <2> HIDE DEF n
    <2> QED BY <1>2, <2>3, <2>5, <2>6
<1>8. P!Central(crossings) = c
    BY DEF P!Central, P!MedianLow
<1> HIDE DEF c
<1> QED BY <1>5, <1>6, <1>7, <1>8

(* Whatever weeks are behind, the projection of a week below its limit     *)
(* hangs together.                                                         *)
LEMMA ProjectIsSound ==
    ASSUME NEW D, IsFiniteSet(D), D # {}, NEW curves, DOMAIN curves = D,
           \A i \in D : curves[i] \in [P!Hours -> Nat],
           NEW h \in 1..WeekHours, NEW used2 \in Nat, used2 < Out,
           NEW p, p = P!Project(used2, h, curves)
    PROVE  Together(p, h, used2, \E i \in D : curves[i][WeekHours] < curves[i][h])
<1> DEFINE ends == [i \in D |-> used2 + curves[i][WeekHours] - curves[i][h]]
           linear2 == (2 * used2 * WeekHours) \div h
           crossings == [i \in D |-> P!Crossing(curves[i], h, used2)]
           linear == P!LinearCrossing(h, used2)
           every == P!Range(crossings) \cup {linear}
           central == P!Central(crossings)
           lowest == P!Min(P!Range(ends))
           highest == P!Max(P!Range(ends))
           a == P!Smallest(ends, P!HalfUp(ends))
           b == P!Smallest(ends, P!Half(ends) + 1)
           low == P!Min({2 * lowest, linear2, 2 * Out})
           high == P!Max({2 * highest, linear2})
           used4 == 2 * used2
           limit == 2 * Out
           sum == a + b
           fell == \E i \in D : curves[i][WeekHours] < curves[i][h]
<1>1. /\ WeekHours \in Nat /\ Out \in Nat /\ h \in Nat \ {0} /\ h <= WeekHours
      /\ P!Never = WeekHours + 1 /\ P!None = -1
    BY NumbersArePositive DEF P!Never, P!None
<1>2. /\ p.end2 = P!Min({a + b, 2 * Out})
      /\ p.low2 = P!Max({2 * used2, low})
      /\ p.high2 = P!Min({2 * Out, high})
      /\ p.runsOut = (central # P!Never)
      /\ p.at = IF central # P!Never THEN central ELSE P!None
      /\ p.first = IF central # P!Never THEN P!Min(every) ELSE P!None
      /\ p.last = IF central # P!Never /\ P!Never \notin every THEN P!Max(every) ELSE P!None
    BY DEF P!Project, P!Median2
<1>3. /\ ends \in [D -> Int] /\ \A i \in D : ends[i] < used2 => fell
      /\ crossings \in [D -> h + 1..P!Never]
      /\ \A i \in D : ends[i] >= Out => crossings[i] <= WeekHours
    <2>1. /\ ends = [i \in D |-> used2 + curves[i][WeekHours] - curves[i][h]]
          /\ crossings = [i \in D |-> P!Crossing(curves[i], h, used2)]
        OBVIOUS
    <2> HIDE DEF ends, crossings
    <2>2. /\ ends \in [D -> Int]
          /\ \A i \in D : ends[i] < used2 => curves[i][WeekHours] < curves[i][h]
          /\ crossings \in [D -> h + 1..P!Never]
          /\ \A i \in D : ends[i] >= Out => crossings[i] <= WeekHours
        BY <2>1, EndsAre
    <2> QED BY <2>2
<1>4. crossings \in [D -> Int]
    <2> HIDE DEF crossings
    <2> QED BY <1>1, <1>3
<1>5. /\ linear \in h + 1..P!Never /\ linear2 \in Int /\ 2 * used2 <= linear2
      /\ linear = P!Never => linear2 < 2 * Out
    BY LinearIs
<1> HIDE DEF ends, crossings, linear, linear2, fell
<1>6. DOMAIN ends = D /\ DOMAIN crossings = D
    BY <1>3, <1>4
<1>7. /\ lowest \in Int /\ (\E d \in D : lowest = ends[d]) /\ (\A d \in D : lowest <= ends[d])
      /\ highest \in Int /\ \A d \in D : ends[d] <= highest
    BY <1>3, RangeIs
<1>8. /\ P!HalfUp(ends) \in 1..Cardinality(D) /\ P!Half(ends) + 1 \in 1..Cardinality(D)
      /\ P!HalfUp(ends) <= P!Half(ends) + 1 /\ P!HalfUp(crossings) \in 1..Cardinality(D)
    BY <1>6, Middles
<1>9. a \in Int /\ \E d \in D : ends[d] = a
    BY <1>3, <1>8, SmallestOfIntegers
<1>10. b \in Int /\ \E d \in D : ends[d] = b
    BY <1>3, <1>8, SmallestOfIntegers
<1>11. a <= b
    BY <1>3, <1>8, SmallerFirst
<1>12. (\E d \in D : crossings[d] = central) /\ central \in h + 1..P!Never
    <2>1. \E d \in D : crossings[d] = P!Smallest(crossings, P!HalfUp(crossings))
        BY <1>4, <1>8, SmallestOfIntegers
    <2>2. \E d \in D : crossings[d] = central
        BY <2>1 DEF P!Central, P!MedianLow
    <2> HIDE DEF central
    <2> QED BY <1>3, <2>2
<1>13. b >= Out => central <= WeekHours
    BY <1>3, <1>4, HalfCross
<1> HIDE DEF a, b, central, lowest, highest
<1>14. /\ low \in {2 * lowest, linear2, 2 * Out}
       /\ low <= 2 * lowest /\ low <= linear2 /\ low <= 2 * Out
    <2> DEFINE l == 2 * lowest
    <2>1. l \in Int /\ limit \in Int /\ low = P!Min({l, linear2, limit})
        BY <1>1, <1>7
    <2> HIDE DEF l, limit, low
    <2>2. low \in {l, linear2, limit} /\ low <= l /\ low <= linear2 /\ low <= limit
        <3>1. linear2 \in Int
            BY <1>5
        <3>2. /\ P!Min({l, linear2, limit}) \in {l, linear2, limit}
              /\ P!Min({l, linear2, limit}) <= l
              /\ P!Min({l, linear2, limit}) <= linear2
              /\ P!Min({l, linear2, limit}) <= limit
            BY <2>1, <3>1, PaceMin3
        <3> QED BY <2>1, <3>2
    <2> QED BY <2>2 DEF l, limit
<1>15. high \in {2 * highest, linear2} /\ 2 * highest <= high /\ linear2 <= high
    <2> DEFINE l == 2 * highest
    <2>1. l \in Int /\ high = P!Max({l, linear2})
        BY <1>7
    <2> HIDE DEF l
    <2>2. high \in {l, linear2} /\ l <= high /\ linear2 <= high
        BY <1>5, <2>1, PaceMin2
    <2> QED BY <2>2 DEF l
<1>16. low \in Int /\ high \in Int
    BY <1>1, <1>5, <1>7, <1>14, <1>15
<1> HIDE DEF low, high
<1>17. p.end2 \in {a + b, 2 * Out} /\ p.end2 <= a + b /\ p.end2 <= 2 * Out
    <2>1. sum \in Int /\ limit \in Int /\ p.end2 = P!Min({sum, limit})
        BY <1>1, <1>2, <1>9, <1>10
    <2> HIDE DEF sum, limit
    <2>2. p.end2 \in {sum, limit} /\ p.end2 <= sum /\ p.end2 <= limit
        BY <2>1, PaceMin2
    <2> QED BY <2>2 DEF sum, limit
<1>18. p.low2 \in {2 * used2, low} /\ 2 * used2 <= p.low2 /\ low <= p.low2
    <2>1. used4 \in Int /\ p.low2 = P!Max({used4, low})
        BY <1>2
    <2> HIDE DEF used4
    <2>2. p.low2 \in {used4, low} /\ used4 <= p.low2 /\ low <= p.low2
        BY <1>16, <2>1, PaceMin2
    <2> QED BY <2>2 DEF used4
<1>19. p.high2 \in {2 * Out, high} /\ p.high2 <= 2 * Out
    <2>1. limit \in Int /\ p.high2 = P!Min({limit, high})
        BY <1>1, <1>2
    <2> HIDE DEF limit
    <2>2. p.high2 \in {limit, high} /\ p.high2 <= limit
        BY <1>16, <2>1, PaceMin2
    <2> QED BY <2>2 DEF limit
<1>20. lowest <= a /\ lowest <= b /\ a <= highest /\ b <= highest
    BY <1>3, <1>7, <1>9, <1>10
<1>a. 2 * used2 <= p.low2 /\ p.end2 <= p.high2
    BY <1>1, <1>7, <1>9, <1>10, <1>15, <1>16, <1>17, <1>18, <1>19, <1>20
<1>b. p.low2 <= p.high2
    <2>1. low <= high /\ 2 * used2 <= high
        BY <1>5, <1>14, <1>15, <1>16
    <2> QED BY <1>1, <1>14, <1>16, <1>18, <1>19, <2>1
<1>21. p.low2 <= p.end2 \/ (p.low2 = 2 * used2 /\ fell)
    <2>1. low <= p.end2
        BY <1>1, <1>7, <1>9, <1>10, <1>14, <1>16, <1>17, <1>20
    <2>2. ASSUME ~(p.low2 <= p.end2) PROVE p.low2 = 2 * used2 /\ fell
        <3>1. p.low2 = 2 * used2
            BY <1>18, <2>1, <2>2
        <3>2. a < used2
            BY <1>1, <1>9, <1>10, <1>11, <1>17, <2>2, <3>1
        <3>3. PICK d \in D : ends[d] = a
            BY <1>9
        <3> QED BY <1>3, <3>1, <3>2, <3>3
    <2> QED BY <2>2
<1>22. p.end2 = 2 * Out => p.runsOut
    <2> SUFFICES ASSUME p.end2 = 2 * Out PROVE central # P!Never
        BY <1>2
    <2>1. b >= Out
        BY <1>1, <1>9, <1>10, <1>11, <1>17
    <2>2. central <= WeekHours
        BY <1>13, <2>1
    <2> QED BY <1>1, <2>2
<1>23. every \in SUBSET (h + 1..P!Never) /\ central \in every /\ linear \in every
    <2>1. P!Range(crossings) = {crossings[d] : d \in D}
        BY <1>6 DEF P!Range
    <2> QED BY <1>3, <1>5, <1>12, <2>1
<1> HIDE DEF every
<1>24. P!Min(every) \in every /\ P!Min(every) <= central
    <2>1. every \in SUBSET Nat /\ every # {}
        BY <1>1, <1>23
    <2> QED BY <1>23, <2>1, PaceMin
<1>25. P!Max(every) \in every /\ central <= P!Max(every)
    <2>1. every \in SUBSET (0..WeekHours + 1) /\ every # {} /\ WeekHours + 1 \in Nat
        BY <1>1, <1>23
    <2> QED BY <1>23, <2>1, PaceMax
<1>26. ASSUME p.runsOut
       PROVE  /\ h < p.first /\ p.first <= p.at /\ p.at <= WeekHours
              /\ p.last # P!None => p.at <= p.last /\ p.last <= WeekHours
    <2>1. central # P!Never /\ p.at = central /\ p.first = P!Min(every)
        BY <1>2, <1>26
    <2>2. p.at <= WeekHours
        BY <1>1, <1>12, <2>1
    <2>3. h < p.first /\ p.first <= p.at
        <3>1. P!Min(every) \in h + 1..P!Never
            BY <1>23, <1>24
        <3> QED BY <1>1, <1>24, <2>1, <3>1
    <2>4. ASSUME p.last # P!None PROVE p.at <= p.last /\ p.last <= WeekHours
        <3>1. p.last = P!Max(every) /\ P!Never \notin every
            BY <1>2, <2>4
        <3>2. P!Max(every) \in h + 1..P!Never /\ P!Max(every) # P!Never
            BY <1>23, <1>25, <3>1
        <3> QED BY <1>1, <1>25, <2>1, <3>1, <3>2
    <2> QED BY <2>2, <2>3, <2>4
<1>27. ASSUME p.runsOut, p.last = P!None PROVE p.low2 < 2 * Out
    <2>1. P!Never \in every
        <3>1. P!Max(every) \in h + 1..P!Never
            BY <1>23, <1>25
        <3>2. P!Max(every) # P!None
            BY <1>1, <3>1
        <3> QED BY <1>2, <1>27, <3>2
    <2>2. low < 2 * Out
        <3>1. CASE linear = P!Never
            BY <1>1, <1>5, <1>14, <1>16, <3>1
        <3>2. CASE \E d \in D : crossings[d] = P!Never
            <4>1. PICK d \in D : crossings[d] = P!Never
                BY <3>2
            <4>2. ends[d] < Out /\ lowest <= ends[d] /\ ends[d] \in Int
                BY <1>1, <1>3, <1>7, <4>1
            <4> QED BY <1>1, <1>7, <1>14, <1>16, <4>2
        <3>3. every = {crossings[d] : d \in D} \cup {linear}
            BY <1>6 DEF every, P!Range
        <3> QED BY <2>1, <3>1, <3>2, <3>3
    <2> QED BY <1>1, <1>16, <1>18, <2>2
<1> QED BY <1>a, <1>b, <1>21, <1>22, <1>26, <1>27 DEF Together, fell

(* The types, all that the proof needs of a state. *)
PaceTyped ==
    /\ hour \in P!Hours /\ level \in 0..Out
    /\ behind \in Seq(P!Behind)

(* The page's pace hangs together in every state of the types. *)
LEMMA PaceTypedSound ==
    ASSUME PaceTyped
    PROVE  P!PaceHangsTogether
<1> SUFFICES ASSUME NEW p \in P!Pace PROVE Together(p, hour, level, P!FellFromHere)
    BY DEF P!PaceHangsTogether, Together
<1> USE DEF PaceTyped
<1>1. /\ ~(hour < MinElapsed) /\ P!Prior # {} /\ ~(level >= Out)
      /\ p = P!Project(level, hour, P!PriorCurves)
    BY DEF P!Pace
<1>2. hour \in 1..WeekHours /\ level \in Nat /\ level < Out
    BY <1>1, NumbersArePositive DEF P!Hours
<1>3. IsFiniteSet(P!Prior)
    <2>1. Len(behind) \in Nat /\ DOMAIN behind = 1..Len(behind)
        OBVIOUS
    <2>2. IsFiniteSet(1..Len(behind))
        BY <2>1, FS_Interval
    <2>3. P!Prior \in SUBSET (1..Len(behind))
        BY <2>1 DEF P!Prior
    <2> QED BY <2>2, <2>3, FS_Subset
<1>4. DOMAIN P!PriorCurves = P!Prior
    BY DEF P!PriorCurves
<1>5. ASSUME NEW i \in P!Prior PROVE P!PriorCurves[i] \in [P!Hours -> Nat]
    <2>1. behind[i] \in P!Behind /\ P!IsComplete(behind[i])
        BY DEF P!Prior
    <2>2. P!Hourly(behind[i]) \in [P!Hours -> Nat]
        BY <2>1, FilledIs
    <2> QED BY <2>2 DEF P!PriorCurves
<1> HIDE DEF PaceTyped
<1>6. Together(p, hour, level, \E i \in P!Prior : P!PriorCurves[i][WeekHours] < P!PriorCurves[i][hour])
    BY <1>1, <1>2, <1>3, <1>4, <1>5, ProjectIsSound
<1> QED BY <1>6 DEF P!FellFromHere

(* Pace, for weeks of any course, however many and however read: the hour  *)
(* of running out lies in its spread and the figure in its own, unless a   *)
(* week before fell from this hour on; and the figure and the hour agree   *)
(* on whether the week runs out.                                           *)
THEOREM PaceAgrees == Spec => []PaceHangsTogether
<1> DEFINE Inv == task = "pace" => PaceTyped
<1>1. Init => Inv
    BY NumbersArePositive DEF Init, PaceTyped, P!Init, P!Hours
<1>2. Inv /\ [Next]_allVars => Inv'
    <2> SUFFICES ASSUME Inv, [Next]_allVars, task' = "pace" PROVE PaceTyped'
        OBVIOUS
    <2>1. task = "pace" /\ [P!Next]_P!vars
        BY DEF Next, allVars, paceVars, P!vars
    <2>2. PaceTyped
        BY <2>1
    <2>3. CASE P!Read
        BY <2>2, <2>3, NumbersArePositive DEF PaceTyped, P!Read, P!Hours
    <2>4. CASE P!NextWeek
        <3>1. PICK readings \in P!Behind : behind' = <<readings>> \o behind
            BY <2>4 DEF P!NextWeek
        <3>2. behind' \in Seq(P!Behind)
            BY <2>2, <3>1 DEF PaceTyped
        <3> QED BY <2>4, <3>2, NumbersArePositive DEF PaceTyped, P!NextWeek, P!Hours
    <2>5. CASE UNCHANGED P!vars
        BY <2>2, <2>5 DEF PaceTyped, P!vars
    <2> QED BY <2>1, <2>3, <2>4, <2>5 DEF P!Next
<1>3. Inv => PaceHangsTogether
    BY PaceTypedSound DEF PaceHangsTogether
<1> QED BY <1>1, <1>2, <1>3, PTL DEF Spec

-----------------------------------------------------------------------------
(* Parse.                                                                  *)

Entries == [source : Y!Sources, pct : Int, reset : Int]

ParseTyped ==
    /\ top \in [Y!Blocks -> [pct : Int, reset : Int, shape : {"plain", "deep", "fair", "huge", "bare"}]]
    /\ limits \in Seq(Entries)

(* What the fold over the entries computes, entry by entry. *)
Folding(f, i) ==
    IF i = 0 THEN [by |-> Y!TopLevelWindows, ignored |-> Y!IgnoredBlocks]
    ELSE Y!FoldEntry(f[i - 1], i)

LEMMA FoldedIs ==
    ASSUME ParseTyped
    PROVE  \E f : /\ Y!FoldLimits = f[Len(limits)]
                  /\ \A i \in 0..Len(limits) : f[i] = Folding(f, i)
<1> DEFINE Is(n, f) == f = [i \in 0..n |-> Folding(f, i)]
           Stuck == {n \in 0..Len(limits) : \A f : ~Is(n, f)}
<1>0. Len(limits) \in Nat
    BY DEF ParseTyped
<1>1. Stuck = {}
    <2> SUFFICES ASSUME Stuck # {} PROVE FALSE
        OBVIOUS
    <2>1. Stuck \in SUBSET Nat
        OBVIOUS
    <2>2. PICK n \in Stuck : \A m \in Stuck : n <= m
        <3> HIDE DEF Stuck
        <3> QED BY <2>1, LeastThereIs
    <2>3. n \in 0..Len(limits) /\ n \in Nat
        BY <1>0
    <2>4. CASE n = 0
        <3> DEFINE f == [i \in 0..0 |-> [by |-> Y!TopLevelWindows, ignored |-> Y!IgnoredBlocks]]
        <3>1. f = [i \in 0..0 |-> Folding(f, i)]
            BY DEF Folding
        <3> QED BY <2>4, <3>1
    <2>5. CASE n # 0
        <3>1. n - 1 \in 0..Len(limits) /\ ~(n <= n - 1)
            BY <1>0, <2>3, <2>5
        <3>2. n - 1 \notin Stuck
            BY <2>2, <3>1
        <3>3. PICK g : Is(n - 1, g)
            BY <3>1, <3>2
        <3> DEFINE f == [i \in 0..n |-> IF i = n THEN Y!FoldEntry(g[n - 1], n) ELSE g[i]]
        <3>4. ASSUME NEW i \in 0..n PROVE f[i] = Folding(f, i)
            <4>1. CASE i = n
                <5>1. n - 1 \in 0..n /\ n - 1 # n
                    BY <2>3, <2>5
                <5>2. f[n - 1] = g[n - 1] /\ f[n] = Y!FoldEntry(g[n - 1], n)
                    BY <2>3, <5>1
                <5> HIDE DEF f
                <5> QED BY <2>5, <4>1, <5>2 DEF Folding
            <4>2. CASE i # n
                <5>1. i \in 0..n - 1 /\ (i # 0 => i - 1 \in 0..n /\ i - 1 # n)
                    BY <2>3, <4>2
                <5>2. f[i] = g[i] /\ g[i] = Folding(g, i)
                    BY <3>3, <4>2, <5>1
                <5>3. i # 0 => f[i - 1] = g[i - 1]
                    BY <5>1
                <5> HIDE DEF f
                <5> QED BY <5>2, <5>3 DEF Folding
            <4> QED BY <4>1, <4>2
        <3>5. Is(n, f)
            <4>1. f = [i \in 0..n |-> f[i]]
                OBVIOUS
            <4> HIDE DEF f
            <4> QED BY <3>4, <4>1
        <3> HIDE DEF f, Is
        <3> QED BY <2>2, <3>5
    <2> QED BY <2>4, <2>5
<1>2. \E f : Is(Len(limits), f)
    <2>1. Len(limits) \in 0..Len(limits)
        BY <1>0
    <2> HIDE DEF Is
    <2> QED BY <1>1, <2>1
<1>3. \E f : Is(Len(limits), f) /\ Y!FoldLimits = f[Len(limits)]
    BY <1>2 DEF Y!FoldLimits, Folding
<1>4. PICK f : Is(Len(limits), f) /\ Y!FoldLimits = f[Len(limits)]
    <2> HIDE DEF Is
    <2> QED BY <1>3
<1>5. \A i \in 0..Len(limits) : f[i] = Folding(f, i)
    BY <1>4
<1> QED BY <1>4, <1>5

(* A reading of the first n entries, which has a key made of its name. *)
IsOfLimit(r, n) ==
    \E i \in 1..n, m \in 1..n :
        r = Y!Reading(<<"limit", Y!NameOf(limits[i].source, i), m>>, limits[i], limits[i].source)

(* What has become of the i-th entry. *)
IsAccounted(by, ignored, i) ==
    \/ \E r \in by : /\ r.pct = limits[i].pct /\ r.reset = limits[i].reset
                     /\ r.source = limits[i].source
    \/ limits[i].source \notin Y!Scoped /\ Y!DuplicateOf(limits[i], by) # {}
    \/ <<"limits", i>> \in ignored

(* After n entries: each of them is accounted for, what the blocks gave is  *)
(* there, and no two readings have a key.                                   *)
FoldedTo(by, ignored, n) ==
    /\ Y!TopLevelWindows \subseteq by /\ Y!IgnoredBlocks \subseteq ignored
    /\ \A r \in by : r \in Y!TopLevelWindows \/ IsOfLimit(r, n)
    /\ \A r, other \in by : r.key = other.key => r = other
    /\ \A i \in 1..n : IsAccounted(by, ignored, i)

(* The keys of the blocks are none of the limits'. *)
LEMMA TopKeys ==
    ASSUME NEW r \in Y!TopLevelWindows
    PROVE  \E k \in Y!Blocks : r = Y!Reading(<<k>>, top[k], k) /\ r.key = <<k>> /\ Len(r.key) = 1
BY DEF Y!TopLevelWindows, Y!Reading

LEMMA LimitKeys ==
    ASSUME NEW n, NEW r, IsOfLimit(r, n)
    PROVE  \E i \in 1..n : \E m \in 1..n : 
               /\ r = Y!Reading(<<"limit", Y!NameOf(limits[i].source, i), m>>, limits[i], limits[i].source)
               /\ r.key = <<"limit", Y!NameOf(limits[i].source, i), m>>
               /\ Len(r.key) = 3 /\ r.key[2] = Y!NameOf(limits[i].source, i) /\ r.key[3] = m
BY DEF IsOfLimit, Y!Reading

(* One more reading makes no duplicate less of one, and loses no entry. *)
LEMMA StaysAccounted ==
    ASSUME NEW by, NEW more, by \subseteq more, NEW ignored, NEW rest, ignored \subseteq rest,
           NEW i, IsAccounted(by, ignored, i)
    PROVE  IsAccounted(more, rest, i)
<1>1. Y!DuplicateOf(limits[i], by) # {} => Y!DuplicateOf(limits[i], more) # {}
    <2> DEFINE mapped == {<<Y!WindowOfKind[k]>> : k \in {limits[i].source} \cap DOMAIN Y!WindowOfKind}
               Same(readings) == {r \in readings : /\ Len(r.key) = 1 /\ r.pct = limits[i].pct
                                                   /\ r.reset = limits[i].reset}
    <2>1. Y!DuplicateOf(limits[i], by) = IF mapped \cap Y!Keys(by) # {} THEN mapped ELSE Y!Keys(Same(by))
        BY DEF Y!DuplicateOf
    <2>2. Y!DuplicateOf(limits[i], more) = IF mapped \cap Y!Keys(more) # {} THEN mapped ELSE Y!Keys(Same(more))
        BY DEF Y!DuplicateOf
    <2>3. Y!Keys(by) \subseteq Y!Keys(more) /\ Y!Keys(Same(by)) \subseteq Y!Keys(Same(more))
        BY DEF Y!Keys
    <2> HIDE DEF mapped, Same
    <2> QED BY <2>1, <2>2, <2>3
<1> QED BY <1>1 DEF IsAccounted

LEMMA ParseMin ==
    ASSUME NEW N \in SUBSET Nat, N # {}
    PROVE  Y!Min(N) \in N
<1>1. \E z \in N : \A y \in N : z <= y
    BY LeastThereIs
<1> QED BY <1>1 DEF Y!Min

(* The key of the n-th entry is nobody's yet: the n - 1 before it have used *)
(* no suffix beyond n - 1.                                                  *)
ReadBefore(by, n) == \A r \in by : r \in Y!TopLevelWindows \/ IsOfLimit(r, n - 1)
FindsNewKey(by, name, n) ==
    \E m \in 1..n : /\ Y!LimitKey(name, by, n) = <<"limit", name, m>>
                    /\ \A r \in by : r.key # <<"limit", name, m>>

LEMMA KeyIsNew ==
    ASSUME NEW n \in Nat \ {0}, NEW by, NEW name, ReadBefore(by, n)
    PROVE  FindsNewKey(by, name, n)
<1> DEFINE Free == {m \in 1..n : <<"limit", name, m>> \notin Y!Keys(by)}
<1>1. n \in Free
    <2>0. SUFFICES ASSUME NEW r \in by, r.key = <<"limit", name, n>> PROVE FALSE
        BY DEF Y!Keys
    <2>1. Len(r.key) = 3
        BY <2>0
    <2>2. r \notin Y!TopLevelWindows
        <3>1. r \in Y!TopLevelWindows => Len(r.key) = 1
            BY TopKeys
        <3> QED BY <2>1, <3>1
    <2>3. PICK i \in 1..n - 1 : \E m \in 1..n - 1 : r.key[3] = m
        BY <2>2, LimitKeys DEF ReadBefore
    <2>4. r.key[3] = n
        BY <2>0
    <2>5. n \in 1..n - 1
        BY <2>3, <2>4
    <2> QED BY <2>5
<1>2. Free \in SUBSET Nat /\ Free # {}
    BY <1>1
<1>3. Y!Min(Free) \in Free
    <2> HIDE DEF Free
    <2> QED BY <1>2, ParseMin
<1>4. Y!LimitKey(name, by, n) = <<"limit", name, Y!Min(Free)>>
    BY DEF Y!LimitKey
<1> QED BY <1>3, <1>4 DEF Y!Keys, FindsNewKey

(* The next entry is accounted for as well. *)
LEMMA FoldsOne ==
    ASSUME ParseTyped, NEW n \in 1..Len(limits), NEW by, NEW ignored, FoldedTo(by, ignored, n - 1)
    PROVE  \E more, rest : /\ Y!FoldEntry([by |-> by, ignored |-> ignored], n) = [by |-> more, ignored |-> rest]
                           /\ FoldedTo(more, rest, n)
<1> DEFINE acc == [by |-> by, ignored |-> ignored]
           entry == limits[n]
           key == Y!LimitKey(Y!NameOf(entry.source, n), by, n)
           new == Y!Reading(key, entry, entry.source)
<1>0. n \in Nat \ {0} /\ 1..n = 1..n - 1 \cup {n}
    BY DEF ParseTyped
<1>1. \A i \in 1..n - 1 : IsAccounted(by, ignored, i)
    BY DEF FoldedTo
<1>2. \A r \in by : r \in Y!TopLevelWindows \/ IsOfLimit(r, n - 1)
    BY DEF FoldedTo
<1>3. \A r \in by : r \in Y!TopLevelWindows \/ IsOfLimit(r, n)
    BY <1>0, <1>2 DEF IsOfLimit
<1>4. CASE entry.source \notin Y!Scoped /\ Y!DuplicateOf(entry, by) # {}
    <2>1. Y!FoldEntry(acc, n) = acc
        BY <1>4 DEF Y!FoldEntry
    <2>2. IsAccounted(by, ignored, n)
        BY <1>4 DEF IsAccounted
    <2>3. FoldedTo(by, ignored, n)
        BY <1>0, <1>1, <1>3, <2>2 DEF FoldedTo
    <2> QED BY <2>1, <2>3
<1>5. CASE ~(entry.source \notin Y!Scoped /\ Y!DuplicateOf(entry, by) # {}) /\ entry.reset = Y!None
    <2> DEFINE rest == ignored \cup {<<"limits", n>>}
    <2>1. Y!FoldEntry(acc, n) = [by |-> by, ignored |-> rest]
        BY <1>5 DEF Y!FoldEntry
    <2>2. IsAccounted(by, rest, n)
        BY DEF IsAccounted
    <2>3. \A i \in 1..n - 1 : IsAccounted(by, rest, i)
        BY <1>1, StaysAccounted
    <2>4. Y!IgnoredBlocks \subseteq rest
        BY DEF FoldedTo
    <2> HIDE DEF rest
    <2>5. FoldedTo(by, rest, n)
        BY <1>0, <1>3, <2>2, <2>3, <2>4 DEF FoldedTo
    <2> QED BY <2>1, <2>5
<1>6. CASE ~(entry.source \notin Y!Scoped /\ Y!DuplicateOf(entry, by) # {}) /\ entry.reset # Y!None
    <2> DEFINE more == by \cup {new}
    <2>1. PICK m \in 1..n : /\ key = <<"limit", Y!NameOf(entry.source, n), m>>
                            /\ \A r \in by : r.key # <<"limit", Y!NameOf(entry.source, n), m>>
        <3> DEFINE name == Y!NameOf(entry.source, n)
        <3> HIDE DEF name
        <3>1. n \in Nat \ {0} /\ ReadBefore(by, n)
            BY <1>0, <1>2 DEF ReadBefore
        <3>2. FindsNewKey(by, name, n)
            BY <3>1, KeyIsNew
        <3> QED BY <3>2 DEF name, FindsNewKey
    <2>2. \A r \in by : r.key # key
        BY <2>1
    <2>3. new.key = key /\ new.pct = entry.pct /\ new.reset = entry.reset /\ new.source = entry.source
        BY DEF Y!Reading
    <2>4. Y!FoldEntry(acc, n) = [by |-> more, ignored |-> ignored]
        <3>1. Y!FoldEntry(acc, n) = [by |-> {r \in by : r.key # key} \cup {new}, ignored |-> ignored]
            BY <1>6 DEF Y!FoldEntry
        <3>2. {r \in by : r.key # key} = by
            BY <2>2
        <3> QED BY <3>1, <3>2
    <2>5. IsOfLimit(new, n)
        <3>1. new = Y!Reading(<<"limit", Y!NameOf(limits[n].source, n), m>>, limits[n], limits[n].source)
            BY <2>1
        <3> HIDE DEF new
        <3> QED BY <1>0, <3>1 DEF IsOfLimit
    <2> HIDE DEF new, key
    <2>6. IsAccounted(more, ignored, n)
        BY <2>3 DEF IsAccounted
    <2>7. \A i \in 1..n - 1 : IsAccounted(more, ignored, i)
        BY <1>1, StaysAccounted
    <2>8. \A r \in more : r \in Y!TopLevelWindows \/ IsOfLimit(r, n)
        BY <1>3, <2>5
    <2>9. \A r, other \in more : r.key = other.key => r = other
        BY <2>2, <2>3 DEF FoldedTo
    <2>10. Y!TopLevelWindows \subseteq more
        BY DEF FoldedTo
    <2>11. Y!IgnoredBlocks \subseteq ignored
        BY DEF FoldedTo
    <2> HIDE DEF more
    <2>12. FoldedTo(more, ignored, n)
        BY <1>0, <2>6, <2>7, <2>8, <2>9, <2>10, <2>11 DEF FoldedTo
    <2> QED BY <2>4, <2>12
<1> QED BY <1>4, <1>5, <1>6

(* What parse_usage folds, at the end. *)
LEMMA FoldIsSound ==
    ASSUME ParseTyped
    PROVE  FoldedTo(Y!FoldLimits.by, Y!FoldLimits.ignored, Len(limits))
<1>0. Len(limits) \in Nat
    BY DEF ParseTyped
<1>1. PICK f : /\ Y!FoldLimits = f[Len(limits)]
               /\ \A i \in 0..Len(limits) : f[i] = Folding(f, i)
    BY FoldedIs
<1> DEFINE Sound(n) == \E by, ignored : f[n] = [by |-> by, ignored |-> ignored] /\ FoldedTo(by, ignored, n)
           Wrong == {n \in 0..Len(limits) : ~Sound(n)}
<1>2. Wrong = {}
    <2> SUFFICES ASSUME Wrong # {} PROVE FALSE
        OBVIOUS
    <2>1. Wrong \in SUBSET Nat
        OBVIOUS
    <2>2. PICK n \in Wrong : \A m \in Wrong : n <= m
        <3> HIDE DEF Wrong
        <3> QED BY <2>1, LeastThereIs
    <2>3. n \in 0..Len(limits) /\ ~Sound(n) /\ f[n] = Folding(f, n)
        BY <1>1
    <2>4. CASE n = 0
        <3>1. \A r, other \in Y!TopLevelWindows : r.key = other.key => r = other
            BY DEF Y!TopLevelWindows, Y!Reading
        <3>2. FoldedTo(Y!TopLevelWindows, Y!IgnoredBlocks, 0)
            BY <3>1 DEF FoldedTo
        <3> QED BY <2>3, <2>4, <3>2 DEF Folding
    <2>5. CASE n # 0
        <3>1. n - 1 \in 0..Len(limits) /\ ~(n <= n - 1) /\ n \in 1..Len(limits)
            BY <1>0, <2>3, <2>5
        <3>2. Sound(n - 1)
            BY <2>2, <3>1
        <3>3. PICK by, ignored : f[n - 1] = [by |-> by, ignored |-> ignored] /\ FoldedTo(by, ignored, n - 1)
            BY <3>2
        <3>4. f[n] = Y!FoldEntry([by |-> by, ignored |-> ignored], n)
            BY <2>3, <2>5, <3>3 DEF Folding
        <3>5. Sound(n)
            BY <3>1, <3>3, <3>4, FoldsOne
        <3> QED BY <2>3, <3>5
    <2> QED BY <2>4, <2>5
<1>3. Sound(Len(limits))
    <2>1. Len(limits) \in 0..Len(limits)
        BY <1>0
    <2> HIDE DEF Sound
    <2> QED BY <1>2, <2>1
<1> QED BY <1>1, <1>3

(* The walk gives each place its own key. *)
LEMMA OneKeyInWalk ==
    ASSUME NEW r \in Y!Walk, NEW other \in Y!Walk, r.key = other.key
    PROVE  r = other
<1> DEFINE Block(x, k) == x = Y!Reading(<<k>>, top[k], k)
           Entry(x, i) == x = Y!Reading(<<"limits", i>>, limits[i], limits[i].source)
           Inner(x, k) == x = Y!Reading(<<k, "inside">>, [pct |-> Y!Min(Pcts), reset |-> Y!None], k)
<1>1. ASSUME NEW x \in Y!Walk
      PROVE  \/ \E k \in Y!Blocks : Block(x, k)
             \/ \E i \in DOMAIN limits : Entry(x, i)
             \/ \E k \in Y!Blocks : Inner(x, k)
    BY DEF Y!Walk
<1>2. \A x, k : Block(x, k) => x.key = <<k>>
    BY DEF Y!Reading
<1>3. \A x, i : Entry(x, i) => x.key = <<"limits", i>>
    BY DEF Y!Reading
<1>4. \A x, k : Inner(x, k) => x.key = <<k, "inside">>
    BY DEF Y!Reading
<1>5. "limits" \notin Y!Blocks
    BY DEF Y!Blocks, Y!KnownWindows
<1>6. CASE \E k \in Y!Blocks : Block(r, k)
    <2>1. PICK k \in Y!Blocks : Block(r, k)
        BY <1>6
    <2> HIDE DEF Block, Entry, Inner
    <2>2. Len(r.key) = 1 /\ r.key[1] = k
        BY <1>2, <2>1
    <2>3. ASSUME NEW i, Entry(other, i) PROVE FALSE
        <3>1. Len(other.key) = 2
            BY <1>3, <2>3
        <3> QED BY <2>2, <3>1
    <2>4. ASSUME NEW j, Inner(other, j) PROVE FALSE
        <3>1. Len(other.key) = 2
            BY <1>4, <2>4
        <3> QED BY <2>2, <3>1
    <2>5. PICK j \in Y!Blocks : Block(other, j)
        BY <1>1, <2>3, <2>4
    <2>6. other.key[1] = j
        BY <1>2, <2>5
    <2>7. j = k
        BY <2>2, <2>6
    <2> QED BY <2>1, <2>5, <2>7 DEF Block
<1>7. CASE \E i \in DOMAIN limits : Entry(r, i)
    <2>1. PICK i \in DOMAIN limits : Entry(r, i)
        BY <1>7
    <2> HIDE DEF Block, Entry, Inner
    <2>2. Len(r.key) = 2 /\ r.key[1] = "limits" /\ r.key[2] = i
        BY <1>3, <2>1
    <2>3. ASSUME NEW k, Block(other, k) PROVE FALSE
        <3>1. Len(other.key) = 1
            BY <1>2, <2>3
        <3> QED BY <2>2, <3>1
    <2>4. ASSUME NEW k \in Y!Blocks, Inner(other, k) PROVE FALSE
        <3>1. other.key[1] = k
            BY <1>4, <2>4
        <3> QED BY <1>5, <2>2, <3>1
    <2>5. PICK j \in DOMAIN limits : Entry(other, j)
        BY <1>1, <2>3, <2>4
    <2>6. other.key[2] = j
        BY <1>3, <2>5
    <2>7. j = i
        BY <2>2, <2>6
    <2> QED BY <2>1, <2>5, <2>7 DEF Entry
<1>8. CASE \E k \in Y!Blocks : Inner(r, k)
    <2>1. PICK k \in Y!Blocks : Inner(r, k)
        BY <1>8
    <2> HIDE DEF Block, Entry, Inner
    <2>2. Len(r.key) = 2 /\ r.key[1] = k
        BY <1>4, <2>1
    <2>3. ASSUME NEW j, Block(other, j) PROVE FALSE
        <3>1. Len(other.key) = 1
            BY <1>2, <2>3
        <3> QED BY <2>2, <3>1
    <2>4. ASSUME NEW i, Entry(other, i) PROVE FALSE
        <3>1. other.key[1] = "limits"
            BY <1>3, <2>4
        <3> QED BY <1>5, <2>2, <3>1
    <2>5. PICK j \in Y!Blocks : Inner(other, j)
        BY <1>1, <2>3, <2>4
    <2>6. other.key[1] = j
        BY <1>4, <2>5
    <2>7. j = k
        BY <2>2, <2>6
    <2> QED BY <2>1, <2>5, <2>7 DEF Inner
<1> QED BY <1>1, <1>6, <1>7, <1>8

(* What the blocks and the entries have told, as NoPercentageIsLost asks. *)
LEMMA NothingLost ==
    ASSUME ParseTyped
    PROVE  Y!NoPercentageIsLost
<1> DEFINE p == Y!ParseUsage
           by == Y!FoldLimits.by
           ignored == Y!FoldLimits.ignored
           Tells(r, of) == r.pct = of.pct /\ r.reset = of.reset
<1>0. Len(limits) \in Nat /\ DOMAIN limits = 1..Len(limits)
    BY DEF ParseTyped
<1>1. FoldedTo(by, ignored, Len(limits))
    BY FoldIsSound
<1>2. \/ by # {} /\ p = [readings |-> by, ignored |-> ignored, fallback |-> FALSE]
      \/ by = {} /\ p = [readings |-> Y!Walk, ignored |-> ignored, fallback |-> TRUE]
    BY DEF Y!ParseUsage
<1> HIDE DEF p, by, ignored
<1>3. ASSUME NEW key \in Y!Blocks, top[key].pct # Y!None
      PROVE  \/ \E r \in p.readings : r.key = <<key>> /\ Tells(r, top[key])
             \/ <<key>> \in p.ignored \cup Y!Grants
             \/ top[key].shape = "bare"
    <2>1. CASE Y!IsGrantBlock(key)
        <3>1. top[key].shape \in {"fair", "huge", "bare"}
            BY <2>1 DEF Y!IsGrantBlock, ParseTyped
        <3>2. top[key].shape = "fair" => <<key>> \in Y!Grants
            BY <2>1 DEF Y!Grants
        <3>3. top[key].shape = "huge" => <<key>> \in Y!IgnoredBlocks
            BY <2>1 DEF Y!IgnoredBlocks
        <3>4. Y!IgnoredBlocks \subseteq p.ignored
            BY <1>1, <1>2 DEF FoldedTo
        <3> QED BY <3>1, <3>2, <3>3, <3>4
    <2>2. CASE ~Y!IsGrantBlock(key)
        <3>1. Y!HasPct(key)
            BY <1>3, <2>2 DEF Y!HasPct
        <3> DEFINE r == Y!Reading(<<key>>, top[key], key)
        <3>2. r.key = <<key>> /\ Tells(r, top[key])
            BY DEF Y!Reading
        <3>3. r \in Y!Walk
            BY <3>1 DEF Y!Walk
        <3>4. top[key].reset # Y!None => r \in Y!TopLevelWindows
            BY <3>1 DEF Y!TopLevelWindows
        <3>5. top[key].reset = Y!None => <<key>> \in Y!IgnoredBlocks
            BY <3>1 DEF Y!IgnoredBlocks
        <3>6. Y!TopLevelWindows \subseteq by /\ Y!IgnoredBlocks \subseteq p.ignored
            BY <1>1, <1>2 DEF FoldedTo
        <3> HIDE DEF r, Tells
        <3>7. r \in p.readings \/ <<key>> \in p.ignored
            BY <1>2, <3>3, <3>4, <3>5, <3>6
        <3> QED BY <3>2, <3>7
    <2> QED BY <2>1, <2>2
<1>4. ASSUME NEW i \in DOMAIN limits
      PROVE  \/ \E r \in p.readings : Tells(r, limits[i]) /\ r.source = limits[i].source
             \/ limits[i].source \notin Y!Scoped /\ Y!DuplicateOf(limits[i], p.readings) # {}
             \/ <<"limits", i>> \in p.ignored
    <2>1. CASE by # {}
        <3>1. IsAccounted(by, ignored, i)
            BY <1>0, <1>1 DEF FoldedTo
        <3> QED BY <1>2, <2>1, <3>1 DEF IsAccounted
    <2>2. CASE by = {}
        <3> DEFINE r == Y!Reading(<<"limits", i>>, limits[i], limits[i].source)
        <3>1. r \in Y!Walk
            BY DEF Y!Walk
        <3>2. Tells(r, limits[i]) /\ r.source = limits[i].source
            BY DEF Y!Reading
        <3> HIDE DEF r, Tells
        <3> QED BY <1>2, <2>2, <3>1, <3>2
    <2> QED BY <2>1, <2>2
<1>5. ASSUME NEW r \in p.readings
      PROVE  \/ \E k \in Y!Blocks : r = Y!Reading(<<k>>, top[k], k)
             \/ Len(r.key) # 1
    <2>1. CASE by # {}
        <3>1. r \in Y!TopLevelWindows \/ IsOfLimit(r, Len(limits))
            BY <1>1, <1>2, <2>1 DEF FoldedTo
        <3>2. IsOfLimit(r, Len(limits)) => Len(r.key) = 3
            BY LimitKeys
        <3> QED BY <3>1, <3>2, TopKeys
    <2>2. CASE by = {}
        BY <1>2, <2>2 DEF Y!Walk, Y!Reading
    <2> QED BY <2>1, <2>2
<1>6. ASSUME NEW r \in p.readings, NEW key \in Y!Blocks, r.key = <<key>>
      PROVE  Tells(r, top[key])
    <2>1. Len(r.key) = 1 /\ r.key[1] = key
        BY <1>6
    <2>2. PICK k \in Y!Blocks : r = Y!Reading(<<k>>, top[k], k)
        BY <1>5, <2>1
    <2>3. r.key[1] = k /\ Tells(r, top[k])
        BY <2>2 DEF Y!Reading
    <2> QED BY <2>1, <2>3
<1>7. ASSUME NEW r \in p.readings, NEW other \in p.readings, r.key = other.key
      PROVE  r = other
    <2>1. CASE by # {}
        BY <1>1, <1>2, <1>7, <2>1 DEF FoldedTo
    <2>2. CASE by = {}
        BY <1>2, <1>7, <2>2, OneKeyInWalk
    <2> QED BY <2>1, <2>2
<1>8. ASSUME p.readings = {}
      PROVE  limits = <<>> /\ \A key \in Y!Blocks : ~Y!HasPct(key) /\ top[key].shape # "deep"
    <2>1. Y!Walk = {}
        BY <1>2, <1>8
    <2>2. DOMAIN limits = {}
        BY <2>1 DEF Y!Walk
    <2>3. limits = <<>>
        BY <1>0, <2>2 DEF ParseTyped
    <2> QED BY <2>1, <2>3 DEF Y!Walk
<1> HIDE DEF Tells
<1>9. /\ \A key \in Y!Blocks : top[key].pct # Y!None =>
            \/ \E r \in p.readings : r.key = <<key>> /\ Tells(r, top[key])
            \/ <<key>> \in p.ignored \cup Y!Grants
            \/ top[key].shape = "bare"
      /\ \A i \in DOMAIN limits :
            \/ \E r \in p.readings : Tells(r, limits[i]) /\ r.source = limits[i].source
            \/ limits[i].source \notin Y!Scoped /\ Y!DuplicateOf(limits[i], p.readings) # {}
            \/ <<"limits", i>> \in p.ignored
      /\ \A r \in p.readings, key \in Y!Blocks : r.key = <<key>> => Tells(r, top[key])
      /\ \A r, other \in p.readings : r.key = other.key => r = other
      /\ p.readings = {} =>
            limits = <<>> /\ \A key \in Y!Blocks : ~Y!HasPct(key) /\ top[key].shape # "deep"
    BY <1>3, <1>4, <1>6, <1>7, <1>8
<1> QED BY <1>9 DEF Y!NoPercentageIsLost, Tells, p

(* A key means its block, or a listed limit of its name. *)
LEMMA MeaningsAre ==
    ASSUME ParseTyped, NEW r \in Y!Meanings
    PROVE  \/ Len(r.key) = 1 /\ r.source = r.key[1]
           \/ Len(r.key) = 3 /\ \E i \in DOMAIN limits : r.source = limits[i].source
                                                        /\ r.key[2] = Y!NameOf(limits[i].source, i)
<1>0. DOMAIN limits = 1..Len(limits)
    BY DEF ParseTyped
<1>3. r \in Y!TopLevelWindows \/ IsOfLimit(r, Len(limits))
    BY FoldIsSound DEF FoldedTo, Y!Meanings
<1>4. CASE r \in Y!TopLevelWindows
    BY <1>4, TopKeys DEF Y!Reading
<1>5. CASE IsOfLimit(r, Len(limits))
    <2>1. PICK i \in 1..Len(limits) : \E m \in 1..Len(limits) :
               /\ r = Y!Reading(<<"limit", Y!NameOf(limits[i].source, i), m>>, limits[i], limits[i].source)
               /\ Len(r.key) = 3 /\ r.key[2] = Y!NameOf(limits[i].source, i)
        BY <1>5, LimitKeys
    <2>2. r.source = limits[i].source
        BY <2>1 DEF Y!Reading
    <2> QED BY <1>0, <2>1, <2>2
<1> QED BY <1>3, <1>4, <1>5

LEMMA ParseCounts == \A N : Y!Cardinality(N) = Cardinality(N)
BY DEF Y!Cardinality, Cardinality

LEMMA TwoCount == ASSUME NEW a, NEW b, a # b PROVE Cardinality({a, b}) = 2
<1> DEFINE one == {a}
<1>1. IsFiniteSet(one) /\ Cardinality(one) = 1
    BY FS_Singleton
<1>2. b \notin one /\ one \cup {b} = {a, b}
    OBVIOUS
<1> HIDE DEF one
<1>3. Cardinality(one \cup {b}) = Cardinality(one) + 1
    BY <1>1, <1>2, FS_AddElement
<1>4. 1 + 1 = 2
    OBVIOUS
<1> QED BY <1>1, <1>2, <1>3, <1>4

(* Two limits of a name on one list share it. *)
LEMMA TwoShare ==
    ASSUME NEW seq \in Seq(Entries), NEW i \in DOMAIN seq, NEW j \in DOMAIN seq, i # j,
           Y!NameOf(seq[i].source, i) = Y!NameOf(seq[j].source, j)
    PROVE  Y!Shared(seq, Y!NameOf(seq[i].source, i))
<1> DEFINE N == {k \in DOMAIN seq : Y!NameOf(seq[k].source, k) = Y!NameOf(seq[i].source, i)}
<1>1. IsFiniteSet(N) /\ {i, j} \subseteq N
    <2>0. Len(seq) \in Int /\ DOMAIN seq = 1..Len(seq)
        OBVIOUS
    <2>1. IsFiniteSet(1..Len(seq))
        BY <2>0, FS_Interval
    <2>2. N \subseteq 1..Len(seq)
        BY <2>0
    <2> QED BY <2>1, <2>2, FS_Subset
<1>2. Cardinality({i, j}) = 2
    BY TwoCount
<1>3. Cardinality(N) \in Nat /\ 2 <= Cardinality(N)
    <2> HIDE DEF N
    <2> QED BY <1>1, <1>2, FS_Subset, FS_CardinalityType
<1>4. Y!Cardinality(N) = Cardinality(N)
    BY ParseCounts
<1>5. Y!Cardinality(N) > 1
    <2> HIDE DEF N
    <2> QED BY <1>3, <1>4
<1> QED BY <1>5 DEF Y!Shared

(* A step takes one entry away or adds one, or shuffles them. *)
LEMMA ListsChangeByOne ==
    ASSUME ParseTyped, Y!Next
    PROVE  \/ \A i \in DOMAIN limits : \E j \in DOMAIN limits' : limits'[j] = limits[i]
           \/ \A j \in DOMAIN limits' : \E i \in DOMAIN limits : limits'[j] = limits[i]
<1> USE DEF ParseTyped
<1>1. CASE Y!ChangeBlock
    BY <1>1 DEF Y!ChangeBlock
<1>2. CASE Y!AddLimit
    <2>1. PICK e : limits' = Append(limits, e)
        BY <1>2 DEF Y!AddLimit
    <2>2. \A i \in DOMAIN limits : i \in DOMAIN limits' /\ limits'[i] = limits[i]
        BY <2>1
    <2> QED BY <2>2
<1>3. CASE Y!DropLimit
    <2>1. PICK i \in DOMAIN limits : limits' = Y!RemoveAt(limits, i)
        BY <1>3 DEF Y!DropLimit
    <2> DEFINE front == SubSeq(limits, 1, i - 1)
               back == SubSeq(limits, i + 1, Len(limits))
               n == Len(limits)
    <2>2. limits' = front \o back
        BY <2>1 DEF Y!RemoveAt
    <2>3. limits \in Seq(Entries) /\ n \in Nat /\ i \in 1..n /\ DOMAIN limits = 1..n
        OBVIOUS
    <2>4. front \in Seq(Entries) /\ Len(front) = i - 1 /\ \A j \in 1..i - 1 : front[j] = limits[j]
        BY <2>3
    <2>5. back \in Seq(Entries) /\ Len(back) = n - i /\ \A j \in 1..n - i : back[j] = limits[i + j]
        BY <2>3
    <2> HIDE DEF front, back, n
    <2>6. /\ DOMAIN limits' = 1..n - 1
          /\ \A j \in 1..n - 1 : limits'[j] = IF j <= i - 1 THEN front[j] ELSE back[j - (i - 1)]
        BY <2>2, <2>3, <2>4, <2>5
    <2>7. ASSUME NEW j \in DOMAIN limits' PROVE \E k \in DOMAIN limits : limits'[j] = limits[k]
        <3>1. CASE j <= i - 1
            <4>1. j \in 1..i - 1 /\ limits'[j] = front[j]
                BY <2>3, <2>6, <3>1
            <4>2. limits'[j] = limits[j] /\ j \in DOMAIN limits
                BY <2>3, <2>4, <4>1
            <4> QED BY <4>2
        <3>2. CASE ~(j <= i - 1)
            <4>1. j - (i - 1) \in 1..n - i /\ limits'[j] = back[j - (i - 1)]
                BY <2>3, <2>6, <3>2
            <4>2. limits'[j] = limits[i + (j - (i - 1))] /\ i + (j - (i - 1)) \in DOMAIN limits
                BY <2>3, <2>5, <4>1
            <4> QED BY <4>2
        <3> QED BY <3>1, <3>2
    <2> QED BY <2>7
<1>4. CASE Y!ReorderLimits
    <2>1. limits' = [i \in 1..Len(limits) |-> limits[Len(limits) - i + 1]]
        BY <1>4 DEF Y!ReorderLimits, Y!Reverse
    <2>2. ASSUME NEW j \in DOMAIN limits' PROVE \E k \in DOMAIN limits : limits'[j] = limits[k]
        <3>1. Len(limits) - j + 1 \in DOMAIN limits /\ limits'[j] = limits[Len(limits) - j + 1]
            BY <2>1
        <3> QED BY <3>1
    <2> QED BY <2>2
<1> QED BY <1>1, <1>2, <1>3, <1>4 DEF Y!Next

MeaningsTrue ==
    \A r \in Y!Meanings :
        \/ Len(r.key) = 1 /\ r.source = r.key[1]
        \/ Len(r.key) = 3 /\ \E i \in DOMAIN limits : r.source = limits[i].source
                                                     /\ r.key[2] = Y!NameOf(limits[i].source, i)

LEMMA MeaningsAreTrue == ParseTyped => MeaningsTrue
BY MeaningsAre DEF MeaningsTrue

(* The name of a limit that has one does not tell its place; the place of   *)
(* one that has none is told by its name.                                  *)
LEMMA NamesAndPlaces ==
    ASSUME NEW r, NEW s, NEW i, NEW j, Y!NameOf(r, i) = Y!NameOf(s, j)
    PROVE  \/ r \in Y!Nameless /\ s \in Y!Nameless /\ i = j
           \/ r \notin Y!Nameless /\ \A k : Y!NameOf(r, k) = Y!NameOf(r, i)
<1>1. CASE r \in Y!Nameless
    <2>1. Y!NameOf(r, i) = <<"limit", i>>
        BY <1>1 DEF Y!NameOf
    <2>2. s \notin Y!Nameless => Y!NameOf(s, j) = <<Y!Name[s]>>
        BY DEF Y!NameOf
    <2>3. s \in Y!Nameless => Y!NameOf(s, j) = <<"limit", j>>
        BY DEF Y!NameOf
    <2>4. Len(<<"limit", i>>) = 2 /\ Len(<<Y!Name[s]>>) = 1
        OBVIOUS
    <2>5. s \in Y!Nameless
        BY <2>1, <2>2, <2>4
    <2>6. <<"limit", i>> = <<"limit", j>>
        BY <2>1, <2>3, <2>5
    <2> QED BY <1>1, <2>5, <2>6
<1>2. CASE r \notin Y!Nameless
    BY <1>2 DEF Y!NameOf
<1> QED BY <1>1, <1>2

LEMMA MeaningIsKept == ParseTyped /\ ParseTyped' /\ [Y!Next]_Y!vars => Y!KeepsItsMeaning
<1>0. (ParseTyped => MeaningsTrue)'
    BY MeaningsAreTrue, PTL
<1> SUFFICES ASSUME ParseTyped, ParseTyped', [Y!Next]_Y!vars,
                    NEW before \in Y!Meanings, NEW after \in Y!Meanings', before.key = after.key,
                    before.source # after.source,
                    ~({before.source, after.source} \subseteq Y!Nameless /\ ~Y!KeepTheirPlaces)
             PROVE  Len(after.key) = 3 /\ \E seq \in {limits, limits'} : Y!Shared(seq, after.key[2])
    BY DEF Y!KeepsItsMeaning
<1>1. \/ Len(before.key) = 1 /\ before.source = before.key[1]
      \/ Len(before.key) = 3 /\ \E i \in DOMAIN limits : before.source = limits[i].source
                                                       /\ before.key[2] = Y!NameOf(limits[i].source, i)
    BY MeaningsAreTrue DEF MeaningsTrue
<1>2. \/ Len(after.key) = 1 /\ after.source = after.key[1]
      \/ Len(after.key) = 3 /\ \E i \in DOMAIN limits' : after.source = limits'[i].source
                                                       /\ after.key[2] = Y!NameOf(limits'[i].source, i)
    BY <1>0 DEF MeaningsTrue
<1>3. Len(before.key) = 3 /\ Len(after.key) = 3
    BY <1>1, <1>2
<1>4. PICK i \in DOMAIN limits : before.source = limits[i].source /\ before.key[2] = Y!NameOf(limits[i].source, i)
    BY <1>1, <1>3
<1>5. PICK j \in DOMAIN limits' : after.source = limits'[j].source /\ after.key[2] = Y!NameOf(limits'[j].source, j)
    BY <1>2, <1>3
<1>a. Y!NameOf(limits[i].source, i) = Y!NameOf(limits'[j].source, j)
    BY <1>4, <1>5
<1>b. limits[i].source \notin Y!Nameless /\ limits'[j].source \notin Y!Nameless
    <2>1. ASSUME limits[i].source \in Y!Nameless \/ limits'[j].source \in Y!Nameless PROVE FALSE
        <3>1. limits[i].source \in Y!Nameless /\ limits'[j].source \in Y!Nameless /\ i = j
            BY <1>a, <2>1, NamesAndPlaces
        <3>2. Y!KeepTheirPlaces
            BY <1>4, <1>5, <3>1
        <3>3. limits'[i] = limits[i]
            BY <3>2 DEF Y!KeepTheirPlaces
        <3> QED BY <1>4, <1>5, <3>1, <3>3
    <2> QED BY <2>1
<1>c. /\ \A k : Y!NameOf(limits[i].source, k) = Y!NameOf(limits[i].source, i)
      /\ \A k : Y!NameOf(limits'[j].source, k) = Y!NameOf(limits'[j].source, j)
    BY <1>b DEF Y!NameOf
<1>6. CASE \E k \in DOMAIN limits' : limits'[k] = limits[i]
    <2>1. PICK k \in DOMAIN limits' : limits'[k] = limits[i]
        BY <1>6
    <2>2. k # j /\ Y!NameOf(limits'[k].source, k) = Y!NameOf(limits'[j].source, j)
        BY <1>4, <1>5, <1>a, <1>c, <2>1
    <2>3. limits' \in Seq(Entries)
        BY DEF ParseTyped
    <2>4. Y!Shared(limits', Y!NameOf(limits'[j].source, j))
        BY <2>2, <2>3, TwoShare
    <2> QED BY <1>3, <1>5, <2>4
<1>7. CASE \E k \in DOMAIN limits : limits'[j] = limits[k]
    <2>1. PICK k \in DOMAIN limits : limits'[j] = limits[k]
        BY <1>7
    <2>2. k # i /\ Y!NameOf(limits[k].source, k) = Y!NameOf(limits[i].source, i)
        BY <1>4, <1>5, <1>a, <1>c, <2>1
    <2>3. limits \in Seq(Entries)
        BY DEF ParseTyped
    <2>4. Y!Shared(limits, Y!NameOf(limits[i].source, i))
        BY <2>2, <2>3, TwoShare
    <2> QED BY <1>3, <1>4, <2>4
<1>8. CASE Y!Next
    BY <1>6, <1>7, <1>8, ListsChangeByOne
<1>9. CASE UNCHANGED Y!vars
    BY <1>7, <1>9 DEF Y!vars
<1> QED BY <1>8, <1>9

(* Parse, for any percentages and any number of entries: no percentage of a *)
(* payload is lost on the way, whatever repeats what, and a key names the   *)
(* limit it named in the payload before, unless two limits share a name or  *)
(* it is the place of limits that have none, on a list that was changed.    *)
THEOREM KeysAreKept == Spec => LimitsKeepTheirKeys
<1> DEFINE Inv == task = "parse" => ParseTyped
<1>0. Y!Min(Pcts) \in Pcts /\ Pcts \subseteq Nat
    BY EstimatesAssumption, ParseMin DEF Y!ParseAssumption
<1>1. Init => Inv
    BY DEF Init, ParseTyped, Y!Init, Y!Absent, Y!None
<1>2. Inv /\ [Next]_allVars => Inv'
    <2> SUFFICES ASSUME Inv, [Next]_allVars, task' = "parse" PROVE ParseTyped'
        OBVIOUS
    <2>1. task = "parse" /\ [Y!Next]_Y!vars
        BY DEF Next, allVars, parseVars, Y!vars
    <2>2. ParseTyped
        BY <2>1
    <2>3. CASE Y!ChangeBlock
        BY <1>0, <2>2, <2>3 DEF ParseTyped, Y!ChangeBlock, Y!Absent, Y!Windows, Y!Numbers, Y!Credits, Y!Deep, Y!None, Y!ResetTime
    <2>4. CASE Y!AddLimit
        <3>1. PICK source \in Y!Sources : \E n \in Y!Numbers :
                  limits' = Append(limits, [source |-> source, pct |-> n.pct, reset |-> n.reset])
            BY <2>4 DEF Y!AddLimit
        <3>2. PICK n \in Y!Numbers :
                  limits' = Append(limits, [source |-> source, pct |-> n.pct, reset |-> n.reset])
            BY <3>1
        <3>3. n.pct \in Int /\ n.reset \in Int
            <4>1. n.pct \in Pcts /\ n.reset \in {5, -1}
                <5>1. CASE n \in [pct : Pcts, reset : {Y!ResetTime}]
                    BY <5>1 DEF Y!ResetTime
                <5>2. CASE n \in [pct : {Y!Min(Pcts)}, reset : {Y!None}]
                    BY <1>0, <5>2 DEF Y!None
                <5> QED BY <5>1, <5>2 DEF Y!Numbers
            <4>2. n.pct \in Nat
                BY <1>0, <4>1
            <4>3. n.reset \in Int
                BY <4>1
            <4> QED BY <4>2, <4>3
        <3>4. [source |-> source, pct |-> n.pct, reset |-> n.reset] \in Entries
            BY <3>3 DEF Entries
        <3> QED BY <2>2, <2>4, <3>2, <3>4 DEF ParseTyped, Y!AddLimit
    <2>5. CASE Y!DropLimit
        BY <2>2, <2>5 DEF ParseTyped, Y!DropLimit, Y!RemoveAt
    <2>6. CASE Y!ReorderLimits
        BY <2>2, <2>6 DEF ParseTyped, Y!ReorderLimits, Y!Reverse
    <2>7. CASE UNCHANGED Y!vars
        BY <2>2, <2>7 DEF ParseTyped, Y!vars
    <2> QED BY <2>1, <2>3, <2>4, <2>5, <2>6, <2>7 DEF Y!Next
<1>3. Inv => (task = "parse" => Y!NoPercentageIsLost)
    BY NothingLost
<1>4. Inv /\ Inv' /\ [Next]_allVars => [task = "parse" => Y!KeepsItsMeaning]_allVars
    <2> SUFFICES ASSUME Inv, Inv', Next, task = "parse" PROVE Y!KeepsItsMeaning
        OBVIOUS
    <2>1. task' = "parse" /\ Y!Next
        BY DEF Next
    <2> QED BY <2>1, MeaningIsKept
<1> QED BY <1>1, <1>2, <1>3, <1>4, PTL DEF Spec, LimitsKeepTheirKeys

-----------------------------------------------------------------------------
(* Account.                                                                *)

FiveSet == [pct : 0..Full, ends : Nat \cup {A!None}]
WeekSet == [pct : Nat, ends : Nat]
RowSet == [ts : Nat, five : FiveSet, week : WeekSet, used : Nat]

LEMMA AccountNumbers ==
    /\ Length \in Nat /\ Length > 1 /\ WeekLength \in Nat \ {0} /\ MinDelta \in Nat \ {0}
    /\ BoostDrop \in Nat \ {0} /\ Full \in Nat \ {0} /\ ResetDrop \in Nat /\ Threshold \in Nat
    /\ MinSpan \in Nat /\ MinCompare \in Nat /\ FirstWeek \subseteq Nat /\ Lookbacks \subseteq Nat
    /\ Anchor \in 1..WeekLength /\ A!None = -1 /\ LastAccountTime \in Nat /\ Scale \in Nat \ {0}
<1>1. A!AccountAssumption
    BY EstimatesAssumption
<1>2. Length - 1 \in Nat \ {0} /\ Length \in Nat
    BY <1>1 DEF A!AccountAssumption
<1> QED BY <1>1, <1>2 DEF A!AccountAssumption, A!None

(* A session at a time: it runs, and each point was used in a unit of time  *)
(* of its own.                                                             *)
FiveOK(f, t, more) ==
    /\ f \in FiveSet
    /\ f.ends = A!None => f.pct = 0
    /\ f.ends # A!None => /\ t < f.ends /\ f.ends <= t + Length
                          /\ f.pct <= t - (f.ends - Length) + more

(* A week at a time. *)
EndsAWeek(t) == \E k \in Nat : t = Anchor + k * WeekLength

WeekOK(w, t) ==
    /\ w \in WeekSet
    /\ w.ends - WeekLength <= t /\ t < w.ends
    /\ EndsAWeek(w.ends)

(* What holds between a row and a session f at a later time t, when u       *)
(* messages have been sent.                                                *)
FiveAfter(r, f, u, t) ==
    /\ r.used <= u
    /\ f.pct - r.five.pct <= u - r.used
    /\ r.five.ends # A!None =>
          /\ r.five.ends <= t \/ f.ends = r.five.ends
          /\ f.ends = r.five.ends => f.pct - r.five.pct = u - r.used
          /\ f.ends \notin {A!None, r.five.ends} => r.five.ends <= f.ends - Length
          /\ f.ends = A!None /\ t = r.ts + 1 => u - r.used <= 1
    /\ r.five.ends = A!None =>
          /\ f.ends # A!None => r.ts <= f.ends - Length
          /\ t - r.ts < Length => u - r.used = f.pct

More == IF spoke THEN 1 ELSE 0

AccountTyped ==
    /\ now \in Nat /\ used \in Nat /\ hidden \in Nat /\ spoke \in BOOLEAN /\ raised \in BOOLEAN
    /\ rows \in Seq(RowSet)
    /\ FiveOK(five, now, More) /\ WeekOK(week, now)
    /\ \A i \in DOMAIN rows : FiveOK(rows[i].five, rows[i].ts, 1) /\ WeekOK(rows[i].week, rows[i].ts)

SessionsInv ==
    /\ \A i \in DOMAIN rows : /\ rows[i].ts <= now
                              /\ rows[i].ts = now => used - rows[i].used <= More
                              /\ FiveAfter(rows[i], five, used, now)
    /\ \A i, j \in DOMAIN rows : i < j =>
          rows[i].ts < rows[j].ts /\ FiveAfter(rows[i], rows[j].five, rows[j].used, rows[j].ts)

(* What the week does not show of what was used since the i-th row. *)
Unseen(i, w, u) == (u - rows[i].used) - (w.pct - rows[i].week.pct)
BoostIn(i, j) == \E k \in DOMAIN rows : i < k /\ k <= j /\ rows[k].ts \in boosts
Same(i, w) == rows[i].week.ends = w.ends

WeeksInv ==
    /\ \A i \in DOMAIN rows : Same(i, week) =>
          Unseen(i, week, used) \in 0..hidden \/ BoostIn(i, Len(rows))
    /\ \A i, j \in DOMAIN rows : i < j /\ Same(i, rows[j].week) =>
          Unseen(i, rows[j].week, rows[j].used) \in 0..hidden \/ BoostIn(i, j)
    /\ ~raised => hidden = 0
    /\ \A n \in DOMAIN rows : n = Len(rows) /\ Same(n, week) /\ week.pct < rows[n].week.pct =>
          \A i, j \in DOMAIN rows : i < j /\ Same(i, rows[j].week) =>
             Unseen(i, rows[j].week, rows[j].used) = 0 \/ BoostIn(i, j)

AccountInv == AccountTyped /\ SessionsInv /\ WeeksInv

LEMMA RowIs ==
    ASSUME AccountTyped, NEW i \in DOMAIN rows
    PROVE  /\ rows[i] \in RowSet /\ rows[i].ts \in Nat /\ rows[i].used \in Nat
           /\ rows[i].five \in FiveSet /\ rows[i].five.pct \in Nat /\ rows[i].five.ends \in Int
           /\ rows[i].week \in WeekSet /\ rows[i].week.pct \in Nat /\ rows[i].week.ends \in Nat
<1>1. rows[i] \in RowSet
    BY DEF AccountTyped
<1> QED BY <1>1, AccountNumbers DEF RowSet, FiveSet, WeekSet

LEMMA StandsAre ==
    ASSUME AccountTyped
    PROVE  /\ five \in FiveSet /\ five.pct \in 0..Full /\ five.ends \in Int
           /\ week \in WeekSet /\ week.pct \in Nat /\ week.ends \in Nat
           /\ now \in Nat /\ used \in Nat /\ hidden \in Nat
<1>1. five \in FiveSet /\ week \in WeekSet
    BY DEF AccountTyped, FiveOK, WeekOK
<1> QED BY <1>1, AccountNumbers DEF AccountTyped, FiveSet, WeekSet

LEMMA AccountStarts == A!Init => AccountInv
<1> SUFFICES ASSUME A!Init PROVE AccountInv
    OBVIOUS
<1>1. rows = <<>> /\ now = 0 /\ used = 0 /\ hidden = 0 /\ raised = FALSE /\ spoke = FALSE
    BY DEF A!Init
<1>2. FiveOK(five, now, More)
    BY AccountNumbers DEF A!Init, FiveOK, FiveSet
<1>3. WeekOK(week, now)
    <2>1. week \in WeekSet /\ week.ends = Anchor
        <3>1. week.pct \in FirstWeek /\ week.ends = Anchor /\ week = [pct |-> week.pct, ends |-> week.ends]
            BY DEF A!Init
        <3>2. week.pct \in Nat /\ week.ends \in Nat
            BY <3>1, AccountNumbers
        <3> QED BY <3>1, <3>2 DEF WeekSet
    <2>2. week.ends = Anchor + 0 * WeekLength /\ 0 \in Nat
        BY <2>1, AccountNumbers
    <2> QED BY <1>1, <2>1, <2>2, AccountNumbers DEF WeekOK, EndsAWeek
<1>4. DOMAIN rows = {} /\ rows \in Seq(RowSet)
    BY <1>1
<1> QED BY <1>1, <1>2, <1>3, <1>4 DEF AccountInv, AccountTyped, SessionsInv, WeeksInv

(* A message. *)
LEMMA AfterMessage ==
    ASSUME AccountInv, A!Message
    PROVE  AccountInv'
<1> USE AccountNumbers DEF AccountInv
<1>1. /\ ~spoke /\ spoke' = TRUE /\ five.pct < Full /\ used' = used + 1
      /\ UNCHANGED <<now, rows, boosts, hidden, raised>>
      /\ week' = [week EXCEPT !.pct = @ + 1]
      /\ five' = IF five.ends = A!None THEN [pct |-> 1, ends |-> now + Length]
                 ELSE [five EXCEPT !.pct = @ + 1]
    BY DEF A!Message
<1>2. five \in FiveSet /\ week \in WeekSet /\ now \in Nat /\ used \in Nat
    BY StandsAre
<1>3. /\ five.ends = A!None => five'.pct = five.pct + 1 /\ five'.ends = now + Length /\ five.pct = 0
      /\ five.ends # A!None => five'.pct = five.pct + 1 /\ five'.ends = five.ends
      /\ week'.pct = week.pct + 1 /\ week'.ends = week.ends
      /\ five' \in FiveSet /\ week' \in WeekSet
    <2>1. week' \in WeekSet /\ week'.pct = week.pct + 1 /\ week'.ends = week.ends
        BY <1>1, StandsAre DEF WeekSet
    <2>2. CASE five.ends = A!None
        <3>1. five.pct = 0 /\ five' = [pct |-> 1, ends |-> now + Length]
            BY <1>1, <2>2 DEF AccountTyped, FiveOK
        <3>2. now + Length \in Nat /\ 1 \in 0..Full
            BY <1>2
        <3> QED BY <2>1, <2>2, <3>1, <3>2 DEF FiveSet
    <2>3. CASE five.ends # A!None
        <3>1. five' = [five EXCEPT !.pct = five.pct + 1]
            BY <1>1, <2>3
        <3>2. five.pct + 1 \in 0..Full
            BY <1>1, StandsAre
        <3> QED BY <1>2, <2>1, <2>3, <3>1, <3>2 DEF FiveSet
    <2> QED BY <2>2, <2>3
<1>4. FiveOK(five', now', More')
    <2>1. FiveOK(five, now, 0)
        BY <1>1 DEF AccountTyped, More
    <2>2. More' = 1
        BY <1>1 DEF More
    <2>3. CASE five.ends = A!None
        BY <1>1, <1>2, <1>3, <2>2, <2>3 DEF FiveOK
    <2>4. CASE five.ends # A!None
        <3>1. /\ now < five.ends /\ five.ends <= now + Length
              /\ five.pct <= now - (five.ends - Length) + 0
            BY <2>1, <2>4 DEF FiveOK
        <3>2. five'.pct <= now - (five.ends - Length) + 1
            BY <1>3, <2>4, <3>1, StandsAre
        <3> QED BY <1>1, <1>3, <2>2, <2>4, <3>1, <3>2 DEF FiveOK
    <2> QED BY <2>3, <2>4
<1>5. WeekOK(week', now')
    BY <1>1, <1>3 DEF WeekOK, AccountTyped
<1>6. AccountTyped'
    BY <1>1, <1>4, <1>5, SMTT(20) DEF AccountTyped
<1>7. ASSUME NEW i \in DOMAIN rows PROVE FiveAfter(rows[i], five', used', now')
    <2>1. FiveAfter(rows[i], five, used, now) /\ rows[i] \in RowSet /\ rows[i].ts <= now
        BY DEF SessionsInv, AccountTyped
    <2>2. five.ends # A!None => now < five.ends
        BY DEF AccountTyped, FiveOK
    <2>3. /\ rows[i].used \in Nat /\ rows[i].ts \in Nat /\ rows[i].five.pct \in Nat
          /\ rows[i].five.ends # A!None => rows[i].five.ends \in Nat
        BY <2>1 DEF RowSet, FiveSet
    <2> QED BY <1>1, <1>2, <1>3, <2>1, <2>2, <2>3 DEF FiveAfter, FiveSet
<1>8. SessionsInv'
    <2>1. ASSUME NEW i \in DOMAIN rows, rows[i].ts = now PROVE used' - rows[i].used <= More'
        <3>1. used - rows[i].used <= 0
            BY <1>1, <2>1 DEF SessionsInv, More
        <3> QED BY <1>1, <1>2, <3>1, RowIs DEF More
    <2> QED BY <1>1, <1>7, <2>1 DEF SessionsInv
<1>9. WeeksInv'
    <2>1. ASSUME NEW i \in DOMAIN rows PROVE Unseen(i, week', used') = Unseen(i, week, used)
        <3>1. rows[i].used \in Nat /\ rows[i].week.pct \in Nat
            BY RowIs
        <3> QED BY <1>1, <1>2, <1>3, <3>1 DEF Unseen, WeekSet
    <2>2. \A n \in DOMAIN rows : week'.pct < rows[n].week.pct => week.pct < rows[n].week.pct
        <3>1. \A n \in DOMAIN rows : rows[n].week.pct \in Nat
            BY RowIs
        <3> QED BY <1>2, <1>3, <3>1 DEF WeekSet
    <2> QED BY <1>1, <1>3, <2>1, <2>2 DEF WeeksInv, Same, BoostIn, Unseen
<1> QED BY <1>6, <1>8, <1>9

(* A raise. *)
LEMMA AfterRaise ==
    ASSUME AccountInv, A!Raise
    PROVE  AccountInv'
<1> USE AccountNumbers DEF AccountInv
<1>1. /\ ~raised /\ raised' = TRUE /\ hidden' = week.pct /\ week' = [week EXCEPT !.pct = 0]
      /\ UNCHANGED <<now, five, rows, boosts, spoke, used>>
    BY DEF A!Raise
<1>2. week \in WeekSet /\ hidden = 0 /\ used \in Nat
    BY <1>1 DEF AccountTyped, WeekOK, WeeksInv
<1>3. week' \in WeekSet /\ week'.pct = 0 /\ week'.ends = week.ends /\ week.pct \in Nat
    BY <1>1, <1>2 DEF WeekSet
<1>4. WeekOK(week', now')
    BY <1>1, <1>3 DEF WeekOK, AccountTyped
<1>5. AccountTyped'
    BY <1>1, <1>3, <1>4 DEF AccountTyped, More
<1>6. SessionsInv'
    BY <1>1 DEF SessionsInv, More
<1>7. WeeksInv'
    <2>1. ASSUME NEW i \in DOMAIN rows PROVE Unseen(i, week', used) = Unseen(i, week, used) + week.pct
        <3>1. rows[i].used \in Nat /\ rows[i].week.pct \in Nat
            BY RowIs
        <3> QED BY <1>2, <1>3, <3>1 DEF Unseen
    <2>2. \A i \in DOMAIN rows : Same(i, week) => Unseen(i, week, used) = 0 \/ BoostIn(i, Len(rows))
        BY <1>2 DEF WeeksInv
    <2>3. \A i, j \in DOMAIN rows : i < j /\ Same(i, rows[j].week) =>
             Unseen(i, rows[j].week, rows[j].used) = 0 \/ BoostIn(i, j)
        BY <1>2 DEF WeeksInv
    <2> QED BY <1>1, <1>3, <2>1, <2>2, <2>3, SMTT(20) DEF WeeksInv, Same, BoostIn, Unseen
<1> QED BY <1>5, <1>6, <1>7

(* A poll. *)
LEMMA AfterPoll ==
    ASSUME AccountInv, A!Poll
    PROVE  AccountInv'
<1> USE AccountNumbers DEF AccountInv
<1> DEFINE n == Len(rows)
           row == [ts |-> now, five |-> five, week |-> week, used |-> used]
           seen == rows # <<>> /\ A!IsBoost(A!Last(rows).week, week)
<1>1. /\ now \notin A!Range(A!Stamps)
      /\ boosts' = IF seen THEN boosts \cup {now} ELSE boosts
      /\ hidden' = IF seen THEN 0 ELSE hidden
      /\ rows' = Append(rows, row)
      /\ UNCHANGED <<now, five, week, spoke, used, raised>>
    BY DEF A!Poll
<1>2. row \in RowSet
    BY StandsAre DEF RowSet
<1>3. rows \in Seq(RowSet) /\ n \in Nat /\ DOMAIN rows = 1..n
    BY DEF AccountTyped
<1>4. /\ rows' \in Seq(RowSet) /\ DOMAIN rows' = 1..n + 1 /\ rows'[n + 1] = row
      /\ Len(rows') = n + 1
      /\ \A i \in DOMAIN rows : i \in DOMAIN rows' /\ rows'[i] = rows[i] /\ i # n + 1 /\ i <= n
    BY <1>1, <1>2, <1>3
<1>5. \A i \in DOMAIN rows' : i = n + 1 \/ i \in DOMAIN rows
    BY <1>3, <1>4
<1>6. \A i \in DOMAIN rows : rows[i].ts < now
    <2> SUFFICES ASSUME NEW i \in DOMAIN rows PROVE rows[i].ts < now
        OBVIOUS
    <2>1. rows[i].ts # now
        BY <1>1 DEF A!Range, A!Stamps
    <2> QED BY <2>1, RowIs, StandsAre DEF SessionsInv
<1>7. row.ts = now /\ row.five = five /\ row.week = week /\ row.used = used
    OBVIOUS
<1> HIDE DEF row, n
<1>8. AccountTyped'
    <2>1. FiveOK(five, now, 1)
        <3>1. More <= 1 /\ More \in Nat
            BY DEF More
        <3>2. FiveOK(five, now, More)
            BY DEF AccountTyped
        <3> QED BY <3>1, <3>2, StandsAre DEF FiveOK
    <2>2. \A i \in DOMAIN rows' : FiveOK(rows'[i].five, rows'[i].ts, 1) /\ WeekOK(rows'[i].week, rows'[i].ts)
        BY <1>4, <1>5, <1>7, <2>1 DEF AccountTyped
    <2>3. hidden' \in Nat
        BY <1>1, StandsAre
    <2>4. FiveOK(five', now', More') /\ WeekOK(week', now')
        BY <1>1 DEF AccountTyped, More
    <2> QED BY <1>1, <1>4, <2>2, <2>3, <2>4 DEF AccountTyped
<1>9. SessionsInv'
    <2>1. FiveAfter(row, five, used, now)
        BY <1>7, StandsAre DEF FiveAfter, AccountTyped, FiveOK
    <2>2. used - used <= More
        BY StandsAre DEF More
    <2>3. \A i \in DOMAIN rows' : /\ rows'[i].ts <= now
                                  /\ rows'[i].ts = now => used - rows'[i].used <= More
                                  /\ FiveAfter(rows'[i], five, used, now)
        BY <1>4, <1>5, <1>7, <2>1, <2>2, StandsAre DEF SessionsInv
    <2>4. ASSUME NEW i \in DOMAIN rows', NEW j \in DOMAIN rows', i < j
          PROVE  rows'[i].ts < rows'[j].ts /\ FiveAfter(rows'[i], rows'[j].five, rows'[j].used, rows'[j].ts)
        <3>1. i \in DOMAIN rows
            BY <1>3, <1>4, <1>5, <2>4
        <3>2. CASE j \in DOMAIN rows
            BY <1>4, <2>4, <3>1, <3>2 DEF SessionsInv
        <3>3. CASE j = n + 1
            BY <1>4, <1>6, <1>7, <3>1, <3>3 DEF SessionsInv
        <3> QED BY <1>5, <3>2, <3>3
    <2>5. More' = More
        BY <1>1 DEF More
    <2> QED BY <1>1, <2>3, <2>4, <2>5 DEF SessionsInv
<1>10. WeeksInv'
    <2> DEFINE UnseenAt(i, w, u) == (u - rows'[i].used) - (w.pct - rows'[i].week.pct)
               BoostAt(i, j) == \E k \in DOMAIN rows' : i < k /\ k <= j /\ rows'[k].ts \in boosts'
    <2>1. \A i, j \in DOMAIN rows : BoostIn(i, j) => BoostAt(i, j)
        BY <1>1, <1>4 DEF BoostIn
    <2>2. \A i \in DOMAIN rows : BoostIn(i, n) => BoostAt(i, n + 1)
        BY <1>1, <1>3, <1>4 DEF BoostIn
    <2>3. seen => \A i \in DOMAIN rows : BoostAt(i, n + 1)
        <3> SUFFICES ASSUME seen, NEW i \in DOMAIN rows PROVE BoostAt(i, n + 1)
            OBVIOUS
        <3>1. n + 1 \in DOMAIN rows' /\ i < n + 1 /\ rows'[n + 1].ts \in boosts'
            BY <1>1, <1>3, <1>4, <1>7
        <3> QED BY <1>3, <3>1
    <2>4. \A i \in DOMAIN rows : \A w, u : UnseenAt(i, w, u) = Unseen(i, w, u)
        BY <1>4 DEF Unseen
    <2>5. UnseenAt(n + 1, week, used) = 0
        BY <1>4, <1>7, StandsAre
    <2>6. seen => \A i, j \in DOMAIN rows : i < j /\ Same(i, rows[j].week) =>
                     Unseen(i, rows[j].week, rows[j].used) = 0 \/ BoostIn(i, j)
        <3> SUFFICES ASSUME seen
                     PROVE \A i, j \in DOMAIN rows : i < j /\ Same(i, rows[j].week) =>
                              Unseen(i, rows[j].week, rows[j].used) = 0 \/ BoostIn(i, j)
            OBVIOUS
        <3>1. n \in DOMAIN rows /\ A!Last(rows) = rows[n]
            BY <1>3 DEF A!Last, n
        <3>2. Same(n, week) /\ week.pct < rows[n].week.pct
            BY <3>1, RowIs, StandsAre DEF A!IsBoost, Same
        <3> QED BY <3>1, <3>2 DEF WeeksInv, n
    <2> HIDE DEF seen
    <2>7. hidden' \in Nat /\ (~seen => hidden' = hidden) /\ (seen => hidden' = 0)
        BY <1>1, StandsAre
    <2>8. ASSUME NEW i \in DOMAIN rows', rows'[i].week.ends = week.ends
          PROVE  UnseenAt(i, week, used) \in 0..hidden' \/ BoostAt(i, n + 1)
        <3>1. CASE i = n + 1
            BY <2>5, <2>7, <3>1
        <3>2. CASE i \in DOMAIN rows
            <4>1. Same(i, week)
                BY <1>4, <2>8, <3>2 DEF Same
            <4>2. Unseen(i, week, used) \in 0..hidden \/ BoostIn(i, n)
                BY <3>2, <4>1 DEF WeeksInv, n
            <4> HIDE DEF UnseenAt, BoostAt
            <4> QED BY <2>2, <2>3, <2>4, <2>7, <3>2, <4>2
        <3> QED BY <1>5, <3>1, <3>2
    <2>9. ASSUME NEW i \in DOMAIN rows', NEW j \in DOMAIN rows', i < j, rows'[i].week.ends = rows'[j].week.ends
          PROVE  UnseenAt(i, rows'[j].week, rows'[j].used) \in 0..hidden' \/ BoostAt(i, j)
        <3>1. i \in DOMAIN rows
            BY <1>3, <1>4, <1>5, <2>9
        <3>2. CASE j \in DOMAIN rows
            <4>1. rows'[j] = rows[j] /\ Same(i, rows[j].week)
                BY <1>4, <2>9, <3>1, <3>2 DEF Same
            <4>2. Unseen(i, rows[j].week, rows[j].used) \in 0..hidden \/ BoostIn(i, j)
                BY <2>9, <3>1, <3>2, <4>1 DEF WeeksInv
            <4>3. seen => Unseen(i, rows[j].week, rows[j].used) = 0 \/ BoostIn(i, j)
                BY <2>6, <2>9, <3>1, <3>2, <4>1
            <4> HIDE DEF UnseenAt, BoostAt
            <4> QED BY <2>1, <2>4, <2>7, <3>1, <3>2, <4>1, <4>2, <4>3
        <3>3. CASE j = n + 1
            <4>1. rows'[i].week.ends = week.ends /\ rows'[j].week = week /\ rows'[j].used = used
                BY <1>1, <1>4, <1>7, <2>9, <3>3
            <4> HIDE DEF UnseenAt, BoostAt
            <4> QED BY <2>8, <3>3, <4>1
        <3> QED BY <1>5, <3>2, <3>3
    <2>10. ~(week.pct < rows'[n + 1].week.pct)
        BY <1>4, <1>7, StandsAre
    <2>11. ~raised => hidden' = 0
        BY <1>1 DEF WeeksInv
    <2>12. \A i \in DOMAIN rows' : rows'[i].week.ends = week.ends =>
              UnseenAt(i, week, used) \in 0..hidden' \/ BoostAt(i, n + 1)
        BY <2>8
    <2>13. \A i, j \in DOMAIN rows' : i < j /\ rows'[i].week.ends = rows'[j].week.ends =>
              UnseenAt(i, rows'[j].week, rows'[j].used) \in 0..hidden' \/ BoostAt(i, j)
        BY <2>9
    <2> QED BY <1>1, <1>4, <2>10, <2>11, <2>12, <2>13, SMTT(20) DEF WeeksInv, Unseen, BoostIn, Same
<1> QED BY <1>8, <1>9, <1>10

(* A unit of time. *)
LEMMA AfterTick ==
    ASSUME AccountInv, A!Tick
    PROVE  AccountInv'
<1> USE AccountNumbers DEF AccountInv
<1>1. /\ now' = now + 1 /\ spoke' = FALSE
      /\ five' = IF five.ends = now + 1 THEN [pct |-> 0, ends |-> A!None] ELSE five
      /\ week' = IF week.ends = now + 1 THEN [pct |-> 0, ends |-> week.ends + WeekLength] ELSE week
      /\ UNCHANGED <<rows, boosts, used, hidden, raised>>
    BY DEF A!Tick
<1>2. FiveOK(five, now, 1) /\ More' = 0
    <2>1. More <= 1 /\ More \in Nat
        BY DEF More
    <2>2. FiveOK(five, now, More)
        BY DEF AccountTyped
    <2> QED BY <1>1, <2>1, <2>2, StandsAre DEF FiveOK, More
<1>3. FiveOK(five', now', More')
    <2>1. CASE five.ends = now + 1
        <3>1. five' = [pct |-> 0, ends |-> A!None]
            BY <1>1, <2>1
        <3> QED BY <1>2, <3>1 DEF FiveOK, FiveSet
    <2>2. CASE five.ends # now + 1
        <3>1. five' = five
            BY <1>1, <2>2
        <3> QED BY <1>1, <1>2, <2>2, <3>1, StandsAre DEF FiveOK
    <2> QED BY <2>1, <2>2
<1>4. WeekOK(week', now') /\ (week.ends = now + 1 => week'.ends = week.ends + WeekLength)
                          /\ (week.ends # now + 1 => week' = week)
    <2>1. CASE week.ends = now + 1
        <3>1. week' = [pct |-> 0, ends |-> week.ends + WeekLength]
            BY <1>1, <2>1
        <3>2. week' \in WeekSet /\ week'.ends = week.ends + WeekLength
            BY <3>1, StandsAre DEF WeekSet
        <3>3. PICK k \in Nat : week.ends = Anchor + k * WeekLength
            BY DEF AccountTyped, WeekOK, EndsAWeek
        <3>4. (k + 1) * WeekLength = k * WeekLength + WeekLength /\ k + 1 \in Nat /\ k * WeekLength \in Nat
            OBVIOUS
        <3>5. week'.ends = Anchor + (k + 1) * WeekLength
            BY <3>2, <3>3, <3>4
        <3>6. EndsAWeek(week'.ends)
            BY <3>4, <3>5 DEF EndsAWeek
        <3> QED BY <1>1, <2>1, <3>2, <3>6, StandsAre DEF WeekOK
    <2>2. CASE week.ends # now + 1
        <3>1. week' = week
            BY <1>1, <2>2
        <3>2. WeekOK(week, now)
            BY DEF AccountTyped
        <3> QED BY <1>1, <2>2, <3>1, <3>2, StandsAre DEF WeekOK
    <2> QED BY <2>1, <2>2
<1>5. AccountTyped'
    <2>1. WeekOK(week', now')
        BY <1>4
    <2>2. \A i \in DOMAIN rows : FiveOK(rows[i].five, rows[i].ts, 1) /\ WeekOK(rows[i].week, rows[i].ts)
        BY DEF AccountTyped
    <2>3. rows \in Seq(RowSet) /\ raised \in BOOLEAN
        BY DEF AccountTyped
    <2>4. now' \in Nat /\ used' \in Nat /\ hidden' \in Nat
        BY <1>1, StandsAre
    <2>7. spoke' \in BOOLEAN /\ raised' \in BOOLEAN
        BY <1>1, <2>3
    <2>5. \A i \in DOMAIN rows' : FiveOK(rows'[i].five, rows'[i].ts, 1) /\ WeekOK(rows'[i].week, rows'[i].ts)
        BY <1>1, <2>2
    <2>6. rows' \in Seq(RowSet)
        BY <1>1, <2>3
    <2> QED BY <1>3, <2>1, <2>4, <2>5, <2>6, <2>7 DEF AccountTyped
<1>6. ASSUME NEW i \in DOMAIN rows PROVE FiveAfter(rows[i], five', used, now')
    <2>1. FiveAfter(rows[i], five, used, now) /\ rows[i].ts <= now
          /\ (rows[i].ts = now => used - rows[i].used <= 1)
        BY RowIs, StandsAre DEF SessionsInv, More
    <2>2. FiveOK(rows[i].five, rows[i].ts, 1)
        BY DEF AccountTyped
    <2>3. CASE five.ends = now + 1
        <3>1. five'.pct = 0 /\ five'.ends = A!None
            BY <1>1, <2>3
        <3>2. rows[i].five.ends # A!None => rows[i].five.ends <= now'
            BY <1>1, <2>1, <2>3, RowIs, StandsAre DEF FiveAfter
        <3>3. rows[i].five.ends = A!None => ~(now' - rows[i].ts < Length)
            BY <1>1, <2>1, <2>3, RowIs, StandsAre DEF FiveAfter
        <3> QED BY <1>1, <2>1, <2>2, <3>1, <3>2, <3>3, RowIs, StandsAre DEF FiveAfter, FiveOK
    <2>4. CASE five.ends # now + 1
        <3>1. five' = five
            BY <1>1, <2>4
        <3> QED BY <1>1, <2>1, <2>4, <3>1, RowIs, StandsAre DEF FiveAfter
    <2> QED BY <2>3, <2>4
<1>7. SessionsInv'
    <2>1. \A i \in DOMAIN rows : rows[i].ts <= now' /\ rows[i].ts # now'
        BY <1>1, RowIs, StandsAre DEF SessionsInv
    <2> QED BY <1>1, <1>6, <2>1 DEF SessionsInv
<1>8. WeeksInv'
    <2>1. CASE week.ends = now + 1
        <3>1. \A i \in DOMAIN rows : ~Same(i, week')
            <4> SUFFICES ASSUME NEW i \in DOMAIN rows PROVE ~Same(i, week')
                OBVIOUS
            <4>1. rows[i].week.ends - WeekLength <= rows[i].ts /\ rows[i].ts <= now
                BY DEF AccountTyped, WeekOK, SessionsInv
            <4>2. week'.ends = now + 1 + WeekLength
                BY <1>4, <2>1
            <4> QED BY <4>1, <4>2, RowIs, StandsAre DEF Same
        <3> QED BY <1>1, <3>1 DEF WeeksInv, Same, BoostIn, Unseen
    <2>2. CASE week.ends # now + 1
        BY <1>1, <1>4, <2>2 DEF WeeksInv, Same, BoostIn, Unseen
    <2> QED BY <2>1, <2>2
<1> QED BY <1>5, <1>7, <1>8

LEMMA AccountHolds == AccountInv /\ [A!Next]_A!vars => AccountInv'
<1> SUFFICES ASSUME AccountInv, [A!Next]_A!vars PROVE AccountInv'
    OBVIOUS
<1>1. CASE UNCHANGED A!vars
    BY <1>1 DEF A!vars, AccountInv, AccountTyped, SessionsInv, WeeksInv, More, Unseen, BoostIn, Same
<1> QED BY <1>1, AfterMessage, AfterRaise, AfterPoll, AfterTick DEF A!Next

-----------------------------------------------------------------------------
(* What a series is: the readings of one limit, in order of time. *)
FiveSeries == A!Series("five")
WeekSeries == A!Series("week")

LEMMA SeriesIs ==
    ASSUME AccountTyped
    PROVE  /\ DOMAIN rows = 1..Len(rows) /\ Len(rows) \in Nat
           /\ DOMAIN FiveSeries = 1..Len(rows) /\ DOMAIN WeekSeries = 1..Len(rows)
           /\ Len(FiveSeries) = Len(rows) /\ Len(WeekSeries) = Len(rows)
           /\ \A i \in DOMAIN rows :
                 /\ FiveSeries[i] = [ts |-> rows[i].ts, pct |-> rows[i].five.pct, ends |-> rows[i].five.ends]
                 /\ WeekSeries[i] = [ts |-> rows[i].ts, pct |-> rows[i].week.pct, ends |-> rows[i].week.ends]
<1>1. DOMAIN rows = 1..Len(rows) /\ Len(rows) \in Nat
    BY DEF AccountTyped
<1>2. FiveSeries = [i \in 1..Len(rows) |-> [ts |-> rows[i].ts, pct |-> rows[i].five.pct, ends |-> rows[i].five.ends]]
    BY <1>1 DEF FiveSeries, A!Series
<1>3. WeekSeries = [i \in 1..Len(rows) |-> [ts |-> rows[i].ts, pct |-> rows[i].week.pct, ends |-> rows[i].week.ends]]
    BY <1>1 DEF WeekSeries, A!Series
<1>4. Len(FiveSeries) = Len(rows)
    BY <1>1, <1>2
<1>5. Len(WeekSeries) = Len(rows)
    BY <1>1, <1>3
<1> QED BY <1>1, <1>2, <1>3, <1>4, <1>5

LEMMA InTime ==
    ASSUME AccountInv, NEW i \in DOMAIN rows, NEW j \in DOMAIN rows
    PROVE  (i < j => rows[i].ts < rows[j].ts) /\ (i <= j => rows[i].ts <= rows[j].ts)
           /\ (rows[i].ts = rows[j].ts => i = j) /\ (rows[i].ts < rows[j].ts => i < j)
<1>1. i \in Int /\ j \in Int
    BY SeriesIs DEF AccountInv
<1>2. i < j => rows[i].ts < rows[j].ts
    BY DEF AccountInv, SessionsInv
<1>3. j < i => rows[j].ts < rows[i].ts
    BY DEF AccountInv, SessionsInv
<1> QED BY <1>1, <1>2, <1>3, RowIs DEF AccountInv

LEMMA RowAtIs ==
    ASSUME AccountInv, NEW i \in DOMAIN rows
    PROVE  A!RowAt(rows[i].ts) = rows[i]
<1>1. rows[i] \in A!Range(rows)
    BY DEF A!Range
<1>2. ASSUME NEW r \in A!Range(rows), r.ts = rows[i].ts PROVE r = rows[i]
    <2>1. PICK j \in DOMAIN rows : r = rows[j]
        BY DEF A!Range
    <2> QED BY <1>2, <2>1, InTime
<1> QED BY <1>1, <1>2 DEF A!RowAt

(* The two readings a rate is measured between, and none of those behind   *)
(* the first has a reset before it.                                        *)
Climbs(b, i, j) ==
    /\ b = [from |-> FiveSeries[i], to |-> FiveSeries[j]]
    /\ i < j
    /\ \A k \in i + 1..j : ~A!IsReset(FiveSeries[k - 1], FiveSeries[k])

LEMMA BurnIs ==
    ASSUME AccountInv, NEW lookback, NEW b \in A!BurnRate(FiveSeries, lookback, now)
    PROVE  \E i, j \in DOMAIN rows : Climbs(b, i, j)
<1> DEFINE recent == {i \in DOMAIN FiveSeries : /\ \A c \in A!Cuts(FiveSeries) : c <= i
                                                /\ now - lookback <= FiveSeries[i].ts}
<1>0. DOMAIN FiveSeries = 1..Len(rows) /\ DOMAIN rows = 1..Len(rows) /\ Len(rows) \in Nat
    BY SeriesIs DEF AccountInv
<1>1. PICK e \in recent \X recent : e[1] < e[2] /\ b = [from |-> FiveSeries[e[1]], to |-> FiveSeries[e[2]]]
    BY DEF A!BurnRate
<1>2. ASSUME NEW k \in e[1] + 1..e[2] PROVE ~A!IsReset(FiveSeries[k - 1], FiveSeries[k])
    <2>1. k \in DOMAIN FiveSeries /\ ~(k <= e[1])
        BY <1>0, <1>1
    <2>2. k \notin A!Cuts(FiveSeries)
        BY <1>1, <2>1
    <2> QED BY <2>1, <2>2 DEF A!Cuts
<1>3. e[1] \in DOMAIN rows /\ e[2] \in DOMAIN rows
    BY <1>0, <1>1
<1> QED BY <1>1, <1>2, <1>3 DEF Climbs

(* A row and the next, a unit of time later, in one segment: nothing is    *)
(* missing between them, unless a session closed.                          *)
LEMMA NextRow ==
    ASSUME AccountInv, NEW k \in DOMAIN rows, k - 1 \in DOMAIN rows, rows[k].ts = rows[k - 1].ts + 1,
           ~A!IsReset(FiveSeries[k - 1], FiveSeries[k])
    PROVE  \/ (rows[k].used - rows[k - 1].used) - (rows[k].five.pct - rows[k - 1].five.pct) = 0
           \/ /\ rows[k - 1].five.ends # A!None /\ rows[k].five.ends = A!None
              /\ (rows[k].used - rows[k - 1].used) - (rows[k].five.pct - rows[k - 1].five.pct) <= ResetDrop + 1
<1> USE AccountNumbers
<1> DEFINE r == rows[k - 1]
           s == rows[k]
<1>1. FiveAfter(r, s.five, s.used, s.ts) /\ FiveOK(r.five, r.ts, 1) /\ FiveOK(s.five, s.ts, 1)
    <2>1. k - 1 < k
        BY SeriesIs DEF AccountInv
    <2> QED BY <2>1 DEF AccountInv, SessionsInv, AccountTyped
<1>2. /\ r.ts \in Nat /\ r.used \in Nat /\ r.five.pct \in Nat /\ r.five.ends \in Int
      /\ s.ts \in Nat /\ s.used \in Nat /\ s.five.pct \in Nat /\ s.five.ends \in Int
    BY RowIs DEF AccountInv
<1>3. IF r.five.ends # A!None /\ s.five.ends # A!None THEN r.five.ends = s.five.ends
      ELSE ~(r.five.pct - s.five.pct > ResetDrop)
    BY SeriesIs DEF A!IsReset, AccountInv
<1>4. s.ts = r.ts + 1
    OBVIOUS
<1> HIDE DEF r, s
<1>5. CASE r.five.ends = A!None
    BY <1>1, <1>2, <1>4, <1>5 DEF FiveAfter, FiveOK, r, s
<1>6. CASE r.five.ends # A!None /\ s.five.ends # A!None
    BY <1>1, <1>2, <1>3, <1>6 DEF FiveAfter, r, s
<1>7. CASE r.five.ends # A!None /\ s.five.ends = A!None
    <2>1. s.five.pct = 0 /\ s.used - r.used <= 1
        BY <1>1, <1>4, <1>7 DEF FiveAfter, FiveOK
    <2>2. r.five.pct - s.five.pct <= ResetDrop
        BY <1>2, <1>3, <1>7
    <2>3. (s.used - r.used) - (s.five.pct - r.five.pct) <= ResetDrop + 1
        BY <1>2, <2>1, <2>2
    <2> QED BY <1>7, <2>3 DEF r, s
<1> QED BY <1>5, <1>6, <1>7

(* Where every unit of time has its reading, the next one is a unit later. *)
LEMMA NextIsSoon ==
    ASSUME AccountInv, NEW i \in DOMAIN rows, NEW j \in DOMAIN rows, NEW k \in i + 1..j,
           rows[i].ts..rows[j].ts \subseteq A!Range(A!Stamps)
    PROVE  k \in DOMAIN rows /\ k - 1 \in DOMAIN rows /\ rows[k].ts = rows[k - 1].ts + 1
<1>0. DOMAIN rows = 1..Len(rows) /\ Len(rows) \in Nat
    BY SeriesIs DEF AccountInv
<1>1. k \in DOMAIN rows /\ k - 1 \in DOMAIN rows /\ i <= k - 1 /\ k <= j /\ k - 1 < k /\ i \in Int /\ j \in Int
    BY <1>0
<1>2. rows[k - 1].ts \in Nat /\ rows[k].ts \in Nat /\ rows[i].ts \in Nat /\ rows[j].ts \in Nat
    BY <1>1, RowIs DEF AccountInv
<1>3. rows[i].ts <= rows[k - 1].ts /\ rows[k - 1].ts < rows[k].ts /\ rows[k].ts <= rows[j].ts
    BY <1>1, InTime
<1>4. ASSUME rows[k].ts # rows[k - 1].ts + 1 PROVE FALSE
    <2>1. rows[k - 1].ts + 1 \in rows[i].ts..rows[j].ts
        BY <1>2, <1>3
    <2>2. PICK m \in DOMAIN rows : rows[m].ts = rows[k - 1].ts + 1
        BY <2>1 DEF A!Range, A!Stamps
    <2>3. rows[k - 1].ts < rows[m].ts /\ rows[m].ts < rows[k].ts
        BY <1>2, <1>3, <1>4, <2>2
    <2>4. k - 1 < m /\ m < k
        BY <1>1, <2>3, InTime
    <2> QED BY <1>0, <1>1, <2>4
<1> QED BY <1>1, <1>4

(* Between the i-th row and the k-th, m sessions closed unnoticed, the last *)
(* of them after the q-th: no two of them within the length of one.        *)
Missing(i, k) == (rows[k].used - rows[i].used) - (rows[k].five.pct - rows[i].five.pct)
Closed(i, k, m) ==
    m # 0 => \E q \in i..k - 1 :
        /\ rows[q].five.ends # A!None /\ rows[q + 1].five.ends = A!None
        /\ (m - 1) * Length < rows[q].five.ends - rows[i].ts

LEMMA MissingGrows ==
    ASSUME AccountInv, NEW i \in DOMAIN rows, NEW j \in DOMAIN rows, NEW k \in i + 1..j,
           rows[i].ts..rows[j].ts \subseteq A!Range(A!Stamps),
           ~A!IsReset(FiveSeries[k - 1], FiveSeries[k]),
           NEW m \in Nat, Missing(i, k - 1) <= (ResetDrop + 1) * m, Closed(i, k - 1, m)
    PROVE  \E more \in Nat : Missing(i, k) <= (ResetDrop + 1) * more /\ Closed(i, k, more)
<1> USE AccountNumbers
<1>0. DOMAIN rows = 1..Len(rows) /\ Len(rows) \in Nat
    BY SeriesIs DEF AccountInv
<1>1. k \in DOMAIN rows /\ k - 1 \in DOMAIN rows /\ rows[k].ts = rows[k - 1].ts + 1
    BY NextIsSoon
<1>2. i \in Int /\ j \in Int /\ k \in Int /\ i <= k - 1
    BY <1>0, <1>1
<1>3. /\ rows[i].ts \in Nat /\ rows[i].used \in Nat /\ rows[i].five.pct \in Nat
      /\ rows[k].ts \in Nat /\ rows[k].used \in Nat /\ rows[k].five.pct \in Nat
      /\ rows[k - 1].ts \in Nat /\ rows[k - 1].used \in Nat /\ rows[k - 1].five.pct \in Nat
      /\ rows[k - 1].five.ends \in Int
    BY <1>1, RowIs DEF AccountInv
<1> DEFINE step == (rows[k].used - rows[k - 1].used) - (rows[k].five.pct - rows[k - 1].five.pct)
<1>4. Missing(i, k) = Missing(i, k - 1) + step /\ step \in Int /\ Missing(i, k - 1) \in Int
    BY <1>3 DEF Missing
<1>5. /\ (ResetDrop + 1) * m \in Int /\ (ResetDrop + 1) * (m + 1) = (ResetDrop + 1) * m + (ResetDrop + 1)
      /\ m * Length \in Int /\ (m - 1) * Length \in Int /\ m * Length = (m - 1) * Length + Length
    OBVIOUS
<1>6. CASE step = 0
    <2>1. Missing(i, k) <= (ResetDrop + 1) * m
        BY <1>4, <1>6
    <2>2. \A q \in i..(k - 1) - 1 : q \in i..k - 1
        BY <1>2
    <2>3. Closed(i, k, m)
        BY <2>2 DEF Closed
    <2> QED BY <2>1, <2>3
<1>7. CASE step # 0
    <2>1. rows[k - 1].five.ends # A!None /\ rows[k].five.ends = A!None /\ step <= ResetDrop + 1
        BY <1>1, <1>7, NextRow
    <2>2. Missing(i, k) <= (ResetDrop + 1) * (m + 1)
        <3> HIDE DEF step
        <3> QED BY <1>4, <1>5, <2>1
    <2>3. rows[k - 1].ts < rows[k - 1].five.ends /\ rows[i].ts <= rows[k - 1].ts
        BY <1>1, <1>2, <2>1, InTime DEF AccountInv, AccountTyped, FiveOK
    <2>4. m * Length < rows[k - 1].five.ends - rows[i].ts
        <3>1. CASE m = 0
            BY <1>3, <2>3, <3>1
        <3>2. CASE m # 0
            <4>1. PICK q \in i..(k - 1) - 1 :
                      /\ rows[q].five.ends # A!None /\ rows[q + 1].five.ends = A!None
                      /\ (m - 1) * Length < rows[q].five.ends - rows[i].ts
                BY <3>2 DEF Closed
            <4>2. q \in DOMAIN rows /\ q + 1 \in DOMAIN rows /\ q < q + 1 /\ q + 1 <= k - 1 /\ q < k - 1
                BY <1>0, <1>1, <1>2
            <4>3. rows[q].five.ends \in Int /\ rows[q + 1].ts \in Nat
                BY <4>2, RowIs DEF AccountInv
            <4>4. rows[q].five.ends <= rows[q + 1].ts
                BY <4>1, <4>2 DEF AccountInv, SessionsInv, FiveAfter
            <4>5. rows[q + 1].ts <= rows[k - 1].ts
                BY <1>1, <4>2, InTime
            <4>6. rows[q].five.ends # rows[k - 1].five.ends
                BY <1>3, <2>3, <4>3, <4>4, <4>5
            <4>7. rows[q].five.ends <= rows[k - 1].five.ends - Length
                BY <1>1, <2>1, <4>1, <4>2, <4>6 DEF AccountInv, SessionsInv, FiveAfter
            <4> QED BY <1>3, <1>5, <4>1, <4>3, <4>7
        <3> QED BY <3>1, <3>2
    <2>5. Closed(i, k, m + 1)
        <3>1. k - 1 \in i..k - 1 /\ (k - 1) + 1 = k /\ (m + 1) - 1 = m
            BY <1>2
        <3> QED BY <2>1, <2>4, <3>1 DEF Closed
    <2> QED BY <2>2, <2>5
<1> QED BY <1>6, <1>7

(* The rate is of what was used, and little of that is missing. *)
LEMMA RateHolds ==
    ASSUME AccountInv
    PROVE  A!RateIsTrue
<1> USE AccountNumbers
<1> SUFFICES ASSUME NEW lookback \in Lookbacks, NEW b \in A!BurnRate(FiveSeries, lookback, now)
             PROVE  /\ b.to.pct - b.from.pct <= A!RowAt(b.to.ts).used - A!RowAt(b.from.ts).used
                    /\ b.from.ts..b.to.ts \subseteq A!Range(A!Stamps) =>
                          (A!RowAt(b.to.ts).used - A!RowAt(b.from.ts).used) - (b.to.pct - b.from.pct)
                             <= (ResetDrop + 1) * (1 + (b.to.ts - b.from.ts) \div Length)
    BY DEF A!RateIsTrue, FiveSeries
<1>1. PICK i \in DOMAIN rows : \E j \in DOMAIN rows : Climbs(b, i, j)
    BY BurnIs
<1>2. PICK j \in DOMAIN rows : Climbs(b, i, j)
    BY <1>1
<1>3. /\ b.from.ts = rows[i].ts /\ b.from.pct = rows[i].five.pct
      /\ b.to.ts = rows[j].ts /\ b.to.pct = rows[j].five.pct /\ i < j
    BY <1>2, SeriesIs DEF Climbs, AccountInv
<1>4. A!RowAt(b.from.ts) = rows[i] /\ A!RowAt(b.to.ts) = rows[j]
    BY <1>3, RowAtIs
<1>5. rows[j].five.pct - rows[i].five.pct <= rows[j].used - rows[i].used
    BY <1>3 DEF AccountInv, SessionsInv, FiveAfter
<1>6. ASSUME rows[i].ts..rows[j].ts \subseteq A!Range(A!Stamps)
      PROVE  Missing(i, j) <= (ResetDrop + 1) * (1 + (rows[j].ts - rows[i].ts) \div Length)
    <2> DEFINE Little(k) == \E m \in Nat : Missing(i, k) <= (ResetDrop + 1) * m /\ Closed(i, k, m)
               Wrong == {k \in i..j : ~Little(k)}
    <2>0. DOMAIN rows = 1..Len(rows) /\ Len(rows) \in Nat
        BY SeriesIs DEF AccountInv
    <2>1. Wrong = {}
        <3> SUFFICES ASSUME Wrong # {} PROVE FALSE
            OBVIOUS
        <3>1. Wrong \in SUBSET Nat
            BY <2>0
        <3>2. PICK k \in Wrong : \A l \in Wrong : k <= l
            <4> HIDE DEF Wrong
            <4> QED BY <3>1, LeastThereIs
        <3>3. k \in i..j /\ ~Little(k)
            OBVIOUS
        <3>4. k # i
            <4>1. Missing(i, i) <= (ResetDrop + 1) * 0
                BY RowIs DEF Missing, AccountInv
            <4>2. Closed(i, i, 0)
                BY DEF Closed
            <4>3. Little(i)
                BY <4>1, <4>2
            <4> QED BY <3>3, <4>3
        <3>5. k \in i + 1..j /\ k - 1 \in i..j /\ ~(k <= k - 1)
            BY <2>0, <3>3, <3>4
        <3>6. Little(k - 1)
            BY <3>2, <3>5
        <3>7. PICK m \in Nat : Missing(i, k - 1) <= (ResetDrop + 1) * m /\ Closed(i, k - 1, m)
            BY <3>6
        <3>8. ~A!IsReset(FiveSeries[k - 1], FiveSeries[k])
            BY <1>2, <3>5 DEF Climbs
        <3>9. Little(k)
            BY <1>6, <3>5, <3>7, <3>8, MissingGrows
        <3> QED BY <3>3, <3>9
    <2>2. Little(j)
        <3>1. j \in i..j
            BY <1>3, <2>0
        <3> HIDE DEF Little
        <3> QED BY <2>1, <3>1
    <2>3. PICK m \in Nat : Missing(i, j) <= (ResetDrop + 1) * m /\ Closed(i, j, m)
        BY <2>2
    <2> DEFINE span == rows[j].ts - rows[i].ts
               times == span \div Length
    <2>4. rows[i].ts \in Nat /\ rows[j].ts \in Nat /\ rows[i].ts < rows[j].ts /\ span \in Nat
        BY <1>3, RowIs, InTime DEF AccountInv
    <2>5. times \in Int /\ span < Length * times + Length /\ Length * times <= span
        <3>1. Length \in Nat \ {0} /\ span \in Int
            BY <2>4
        <3> HIDE DEF span
        <3> QED BY <3>1, DividedIs
    <2> HIDE DEF times
    <2>6. 0 <= times
        <3>1. Length * times \in Int /\ Length * (times + 1) = Length * times + Length /\ Length * 0 = 0
            BY <2>5
        <3>2. Length * 0 < Length * (times + 1)
            BY <2>4, <2>5, <3>1
        <3>3. 0 < times + 1
            BY <2>5, <3>2, TimesStrict
        <3> QED BY <2>5, <3>3
    <2>7. m <= 1 + times
        <3>1. CASE m = 0
            BY <2>5, <2>6, <3>1
        <3>2. CASE m # 0
            <4>1. PICK q \in i..j - 1 :
                      /\ rows[q].five.ends # A!None /\ rows[q + 1].five.ends = A!None
                      /\ (m - 1) * Length < rows[q].five.ends - rows[i].ts
                BY <2>3, <3>2 DEF Closed
            <4>2. q \in DOMAIN rows /\ q + 1 \in DOMAIN rows /\ q < q + 1 /\ q + 1 <= j
                BY <2>0
            <4>3. rows[q].five.ends \in Int /\ rows[q + 1].ts \in Nat
                BY <4>2, RowIs DEF AccountInv
            <4>4. rows[q].five.ends <= rows[q + 1].ts
                BY <4>1, <4>2 DEF AccountInv, SessionsInv, FiveAfter
            <4>5. rows[q + 1].ts <= rows[j].ts
                BY <4>2, InTime
            <4>6. /\ (m - 1) * Length = Length * (m - 1) /\ Length * (m - 1) \in Int
                  /\ Length * (times + 1) = Length * times + Length /\ Length * times \in Int
                BY <2>5
            <4>7. Length * (m - 1) < Length * (times + 1)
                BY <2>4, <2>5, <4>1, <4>3, <4>4, <4>5, <4>6
            <4>8. m - 1 < times + 1
                BY <2>5, <4>7, TimesStrict
            <4> QED BY <2>5, <4>8
        <3> QED BY <3>1, <3>2
    <2>8. (ResetDrop + 1) * m <= (ResetDrop + 1) * (1 + times)
          /\ (ResetDrop + 1) * m \in Int /\ (ResetDrop + 1) * (1 + times) \in Int
        BY <2>5, <2>7, TimesGrows
    <2>9. Missing(i, j) \in Int
        BY RowIs DEF Missing, AccountInv
    <2>10. Missing(i, j) <= (ResetDrop + 1) * (1 + times)
        BY <2>3, <2>8, <2>9
    <2> QED BY <2>10 DEF times
<1> QED BY <1>3, <1>4, <1>5, <1>6 DEF Missing

-----------------------------------------------------------------------------
(* The limit runs out in time to come, and before its reset; only one about *)
(* to be used up runs out at once.                                         *)
LEMMA ExhaustsIs ==
    ASSUME NEW pct \in 0..Full, NEW climb \in Int, NEW span \in Nat \ {0}, NEW at \in Nat, NEW reset \in Int
    PROVE  LET x == A!Exhausts(pct, climb, span, at, reset)
           IN  x # A!None => /\ x \in Int /\ at <= x /\ x <= reset
                             /\ x <= at => Full - pct <= climb
<1> USE AccountNumbers
<1> DEFINE left == (Full - pct) * span
           wait == left \div climb
<1> SUFFICES ASSUME climb > 0, left <= climb * (reset - at)
             PROVE  /\ at + wait \in Int /\ at <= at + wait /\ at + wait <= reset
                    /\ at + wait <= at => Full - pct <= climb
    BY DEF A!Exhausts
<1>1. Full - pct \in Nat /\ climb \in Nat \ {0} /\ reset - at \in Int
    OBVIOUS
<1>2. (Full - pct) * 1 <= (Full - pct) * span /\ (Full - pct) * 1 = Full - pct /\ left \in Int
    BY <1>1, TimesGrows
<1>3. left \in Int /\ Full - pct <= left
    BY <1>2
<1>4. wait \in Int /\ climb * wait <= left /\ left < climb * wait + climb
    <2> HIDE DEF left
    <2> QED BY <1>1, <1>3, DividedIs
<1> HIDE DEF left, wait
<1>5. /\ climb * (wait + 1) = climb * wait + climb /\ climb * wait \in Int /\ climb * 0 = 0
      /\ climb * ((reset - at) + 1) = climb * (reset - at) + climb /\ climb * (reset - at) \in Int
    BY <1>1, <1>4
<1>6. 0 < wait + 1
    <2>1. climb * 0 < climb * (wait + 1)
        BY <1>1, <1>3, <1>4, <1>5
    <2> QED BY <1>1, <1>4, <2>1, TimesStrict
<1>7. wait < (reset - at) + 1
    <2>1. climb * wait < climb * ((reset - at) + 1)
        BY <1>1, <1>3, <1>4, <1>5
    <2> QED BY <1>1, <1>4, <2>1, TimesStrict
<1>8. ASSUME wait = 0 PROVE Full - pct <= climb
    <2>1. left < climb
        BY <1>1, <1>3, <1>4, <1>5, <1>8
    <2> QED BY <1>1, <1>3, <2>1
<1> QED BY <1>1, <1>4, <1>6, <1>7, <1>8

(* What the page says of the session, with the newest row of the store.    *)
LEMMA RunwayIs ==
    ASSUME AccountInv, rows # <<>>, NEW burn,
           \A b \in burn : b.to.pct - b.from.pct \in Int /\ b.to.ts - b.from.ts \in Nat \ {0}
    PROVE  LET r == A!Runway(A!Last(FiveSeries), burn, now)
           IN  /\ r.reset \in Int /\ (r.pct = A!None \/ r.pct \in 0..Full)
               /\ r.reset # A!None /\ now < r.reset => r.pct # A!None
               /\ r.pct # A!None /\ r.reset # A!None =>
                      five.ends = r.reset /\ r.pct <= five.pct /\ now < r.reset
               /\ r.exhaust # A!None =>
                      /\ r.exhaust \in Int /\ now <= r.exhaust /\ r.exhaust <= r.reset
                      /\ r.exhaust <= now => \E b \in burn : Full - r.pct <= b.to.pct - b.from.pct
<1> USE AccountNumbers
<1> DEFINE n == Len(rows)
           f == rows[n].five
           r == A!Runway(A!Last(FiveSeries), burn, now)
<1>1. n \in DOMAIN rows
    BY SeriesIs DEF AccountInv, AccountTyped
<1>2. A!Last(FiveSeries) = [ts |-> rows[n].ts, pct |-> f.pct, ends |-> f.ends]
    BY <1>1, SeriesIs DEF A!Last, AccountInv
<1>3. f.pct \in 0..Full /\ f.ends \in Int /\ (f.ends # A!None => f.ends \in Nat) /\ now \in Nat
    BY <1>1, RowIs, StandsAre DEF AccountInv, FiveSet
<1>4. FiveAfter(rows[n], five, used, now) /\ rows[n].used \in Nat /\ used \in Nat /\ five.pct \in Nat
    BY <1>1, RowIs, StandsAre DEF AccountInv, SessionsInv
<1>5. CASE f.ends # A!None /\ f.ends <= now
    <2>1. r = [pct |-> A!None, reset |-> f.ends, exhaust |-> A!None]
        BY <1>2, <1>5 DEF A!Runway
    <2> HIDE DEF r
    <2>2. r.pct = A!None /\ r.reset = f.ends /\ r.exhaust = A!None
        BY <2>1
    <2>3. ~(now < r.reset)
        BY <1>3, <1>5, <2>2
    <2> QED BY <1>3, <2>2, <2>3 DEF r
<1>6. CASE ~(f.ends # A!None /\ f.ends <= now)
    <2> DEFINE b == CHOOSE c \in burn : TRUE
               out == A!Exhausts(f.pct, b.to.pct - b.from.pct, b.to.ts - b.from.ts, now, f.ends)
    <2>1. r.pct = f.pct /\ r.reset = f.ends
          /\ r.exhaust = IF burn = {} \/ f.ends = A!None THEN A!None ELSE out
        BY <1>2, <1>6 DEF A!Runway
    <2> HIDE DEF r
    <2>2. r.pct # A!None
        BY <1>3, <2>1
    <2>3. f.ends # A!None => five.ends = f.ends /\ f.pct <= five.pct /\ now < f.ends
        <3> SUFFICES ASSUME f.ends # A!None PROVE five.ends = f.ends /\ f.pct <= five.pct /\ now < f.ends
            OBVIOUS
        <3>1. now < f.ends
            BY <1>3, <1>6
        <3>2. five.ends = f.ends /\ five.pct - f.pct = used - rows[n].used /\ rows[n].used <= used
            BY <1>3, <1>4, <3>1 DEF FiveAfter
        <3> HIDE DEF f
        <3> QED BY <1>3, <1>4, <3>1, <3>2
    <2>4. ASSUME r.exhaust # A!None
          PROVE  /\ r.exhaust \in Int /\ now <= r.exhaust /\ r.exhaust <= r.reset
                 /\ r.exhaust <= now => \E c \in burn : Full - r.pct <= c.to.pct - c.from.pct
        <3>1. b \in burn /\ r.exhaust = out
            BY <2>1, <2>4
        <3>2. b.to.pct - b.from.pct \in Int /\ b.to.ts - b.from.ts \in Nat \ {0}
            BY <3>1
        <3> HIDE DEF b, f
        <3>3. out # A!None => /\ out \in Int /\ now <= out /\ out <= f.ends
                              /\ out <= now => Full - f.pct <= b.to.pct - b.from.pct
            BY <1>3, <3>2, ExhaustsIs, SMTT(20)
        <3> HIDE DEF out
        <3> QED BY <2>1, <2>4, <3>1, <3>3
    <2> QED BY <1>3, <2>1, <2>2, <2>3, <2>4 DEF r
<1> QED BY <1>5, <1>6

LEMMA RunwayHolds ==
    ASSUME AccountInv
    PROVE  A!RunwayIsCurrent
<1> USE AccountNumbers
<1> SUFFICES ASSUME rows # <<>>, NEW lookback \in Lookbacks
             PROVE  LET burn == A!BurnRate(FiveSeries, lookback, now)
                        r == A!Runway(A!Last(FiveSeries), burn, now)
                    IN  /\ r.pct # A!None /\ r.reset # A!None => five.ends = r.reset /\ r.pct <= five.pct
                        /\ r.exhaust # A!None => now <= r.exhaust /\ r.exhaust <= r.reset
                        /\ \A end \in now..LastAccountTime :
                               LET mark == A!MarkRunway(r, burn, end, now)
                               IN  /\ \A l \in mark.line : now < l[2] /\ l[2] <= five.ends
                                   /\ burn # {} /\ five.ends # A!None /\ r.reset = five.ends =>
                                          \/ mark.line # {} \/ mark.note
                                          \/ \E b \in burn : Full - r.pct <= b.to.pct - b.from.pct
    BY DEF A!RunwayIsCurrent, FiveSeries
<1> DEFINE burn == A!BurnRate(FiveSeries, lookback, now)
           r == A!Runway(A!Last(FiveSeries), burn, now)
<1>1. \A b \in burn : b.to.pct - b.from.pct \in Int /\ b.to.ts - b.from.ts \in Nat \ {0}
    <2> SUFFICES ASSUME NEW b \in burn
                 PROVE  b.to.pct - b.from.pct \in Int /\ b.to.ts - b.from.ts \in Nat \ {0}
        OBVIOUS
    <2>1. PICK i \in DOMAIN rows : \E j \in DOMAIN rows : Climbs(b, i, j)
        BY BurnIs
    <2>2. PICK j \in DOMAIN rows : Climbs(b, i, j)
        BY <2>1
    <2>3. /\ b.from.ts = rows[i].ts /\ b.from.pct = rows[i].five.pct
          /\ b.to.ts = rows[j].ts /\ b.to.pct = rows[j].five.pct /\ i < j
        BY <2>2, SeriesIs DEF Climbs, AccountInv
    <2> QED BY <2>3, RowIs, InTime DEF AccountInv
<1> HIDE DEF burn
<1>2. /\ r.reset \in Int /\ (r.pct = A!None \/ r.pct \in 0..Full)
      /\ r.reset # A!None /\ now < r.reset => r.pct # A!None
      /\ r.pct # A!None /\ r.reset # A!None =>
             five.ends = r.reset /\ r.pct <= five.pct /\ now < r.reset
      /\ r.exhaust # A!None =>
             /\ r.exhaust \in Int /\ now <= r.exhaust /\ r.exhaust <= r.reset
             /\ r.exhaust <= now => \E b \in burn : Full - r.pct <= b.to.pct - b.from.pct
    BY <1>1, RunwayIs
<1> HIDE DEF r
<1>3. now \in Nat /\ five.ends \in Int
    BY StandsAre DEF AccountInv
<1>4. five.ends # A!None => now < five.ends
    BY DEF AccountInv, AccountTyped, FiveOK
<1>5. ASSUME NEW end \in now..LastAccountTime
      PROVE  LET mark == A!MarkRunway(r, burn, end, now)
             IN  /\ \A l \in mark.line : now < l[2] /\ l[2] <= five.ends
                 /\ burn # {} /\ five.ends # A!None /\ r.reset = five.ends =>
                        \/ mark.line # {} \/ mark.note
                        \/ \E b \in burn : Full - r.pct <= b.to.pct - b.from.pct
    <2> DEFINE target == IF r.exhaust # A!None THEN r.exhaust ELSE r.reset
               mark == A!MarkRunway(r, burn, end, now)
    <2>1. target \in Int /\ (target <= r.reset)
        BY <1>2
    <2>2. CASE burn = {} \/ r.pct = A!None \/ r.reset = A!None \/ target <= now
        <3>1. mark = [line |-> {}, note |-> FALSE]
            BY <2>2 DEF A!MarkRunway
        <3> HIDE DEF mark
        <3>2. \A l \in mark.line : now < l[2] /\ l[2] <= five.ends
            BY <3>1
        <3>3. ASSUME burn # {}, five.ends # A!None, r.reset = five.ends
              PROVE  \E b \in burn : Full - r.pct <= b.to.pct - b.from.pct
            <4>1. r.reset # A!None /\ now < r.reset /\ r.pct # A!None
                BY <1>2, <1>3, <1>4, <3>3
            <4>2. target <= now
                BY <2>2, <3>3, <4>1
            <4>3. r.exhaust # A!None /\ r.exhaust <= now
                BY <1>2, <1>3, <4>1, <4>2
            <4> QED BY <1>2, <4>3
        <3> QED BY <3>2, <3>3 DEF mark
    <2>3. CASE ~(burn = {} \/ r.pct = A!None \/ r.reset = A!None \/ target <= now)
        <3>1. mark = [line |-> IF target > end + 1 THEN {} ELSE {<<now, target>>},
                      note |-> target > end + 1]
            BY <2>3 DEF A!MarkRunway
        <3> HIDE DEF mark, target
        <3>2. now < target /\ target <= five.ends
            BY <1>2, <1>3, <2>1, <2>3
        <3>3. mark.line = (IF target > end + 1 THEN {} ELSE {<<now, target>>}) /\ mark.note = (target > end + 1)
            BY <3>1
        <3>4. \A l \in mark.line : l = <<now, target>>
            BY <3>3
        <3>5. \A l \in mark.line : now < l[2] /\ l[2] <= five.ends
            BY <3>2, <3>4
        <3>6. mark.line # {} \/ mark.note
            BY <3>3
        <3> QED BY <3>5, <3>6 DEF mark
    <2> QED BY <2>2, <2>3
<1> QED BY <1>2, <1>5 DEF burn, r

-----------------------------------------------------------------------------
(* The figures of a session are of the rows from its first to its last.    *)
LEMMA AccountMin2 ==
    ASSUME NEW a \in Int, NEW b \in Int
    PROVE  /\ A!Min({a, b}) \in {a, b} /\ A!Min({a, b}) <= a /\ A!Min({a, b}) <= b
           /\ A!Max({a, b}) \in {a, b} /\ a <= A!Max({a, b}) /\ b <= A!Max({a, b})
<1>1. A!Min({a, b}) = P!Min({a, b}) /\ A!Max({a, b}) = P!Max({a, b})
    BY DEF A!Min, P!Min, A!Max, P!Max
<1> QED BY <1>1, PaceMin2

LEMMA AccountEnds ==
    ASSUME NEW N \in SUBSET Nat, NEW b \in N, \A x \in N : x <= b
    PROVE  /\ A!Max(N) = b
           /\ A!Min(N) \in N /\ \A x \in N : A!Min(N) <= x
<1>1. A!Max(N) = b
    <2>1. \E x \in N : \A y \in N : x >= y
        OBVIOUS
    <2>2. A!Max(N) \in N /\ \A y \in N : A!Max(N) >= y
        BY <2>1 DEF A!Max
    <2>3. A!Max(N) >= b /\ A!Max(N) <= b
        BY <2>2
    <2>4. A!Max(N) \in Nat /\ b \in Nat
        BY <2>2
    <2> QED BY <2>3, <2>4
<1>2. \E x \in N : \A y \in N : x <= y
    BY LeastThereIs
<1>3. A!Min(N) \in N /\ \A x \in N : A!Min(N) <= x
    BY <1>2 DEF A!Min
<1> QED BY <1>1, <1>3

(* A set of rows has a first and a last. *)
LEMMA RowEnds ==
    ASSUME AccountInv, NEW N \in SUBSET DOMAIN rows, N # {}
    PROVE  /\ A!Min(N) \in N /\ A!Max(N) \in N
           /\ \A k \in N : A!Min(N) <= k /\ k <= A!Max(N)
<1>1. DOMAIN rows = 1..Len(rows) /\ Len(rows) \in Nat
    BY SeriesIs DEF AccountInv
<1> DEFINE M == {Len(rows) - k : k \in N}
<1>2. N \in SUBSET Nat
    BY <1>1
<1>3. PICK l \in M : \A m \in M : l <= m
    <2>1. M \in SUBSET Nat /\ M # {}
        BY <1>1
    <2> HIDE DEF M
    <2> QED BY <2>1, LeastThereIs
<1>4. PICK b \in N : l = Len(rows) - b
    BY <1>3
<1>5. \A k \in N : k <= b
    <2> SUFFICES ASSUME NEW k \in N PROVE k <= b
        OBVIOUS
    <2>1. l <= Len(rows) - k
        BY <1>3
    <2> QED BY <1>1, <1>2, <1>4, <2>1
<1> HIDE DEF M
<1> QED BY <1>2, <1>4, <1>5, AccountEnds

OfRows(w, i, j) ==
    /\ i <= j
    /\ \A k \in i..j : rows[k].five.ends = w.ends
    /\ w.ends # A!None /\ w.started = w.ends - Length
    /\ w.first = FiveSeries[i] /\ w.last = FiveSeries[j]
    /\ w.peak = rows[j].five.pct
    /\ w.deltas = A!Deltas(WeekSeries, rows[i].ts, rows[j].ts)
    /\ w.covered = A!ObservedSeconds({FiveSeries[k].ts : k \in i..j}, w.started, A!Min({w.ends, now}))
    /\ w = A!WindowOf(FiveSeries, WeekSeries, now, w.ends)

(* A later row of a session has used no less of it. *)
LEMMA ClimbsOn ==
    ASSUME AccountInv, NEW i \in DOMAIN rows, NEW j \in DOMAIN rows, i <= j,
           rows[i].five.ends = rows[j].five.ends, rows[i].five.ends # A!None
    PROVE  /\ rows[i].five.pct <= rows[j].five.pct
           /\ rows[j].five.pct - rows[i].five.pct = rows[j].used - rows[i].used
<1>1. /\ rows[i].five.pct \in Nat /\ rows[j].five.pct \in Nat /\ rows[i].used \in Nat /\ rows[j].used \in Nat
      /\ i \in Int /\ j \in Int
    BY RowIs, SeriesIs DEF AccountInv
<1>2. CASE i = j
    BY <1>1, <1>2
<1>3. CASE i < j
    <2>1. rows[j].five.pct - rows[i].five.pct = rows[j].used - rows[i].used /\ rows[i].used <= rows[j].used
        BY <1>3 DEF AccountInv, SessionsInv, FiveAfter
    <2> QED BY <1>1, <2>1
<1> QED BY <1>1, <1>2, <1>3

LEMMA WindowIs ==
    ASSUME AccountInv, NEW w \in A!Windows(FiveSeries, WeekSeries, now)
    PROVE  \E i, j \in DOMAIN rows : OfRows(w, i, j)
<1> USE AccountNumbers
<1>1. PICK e \in A!Expiries(FiveSeries) : w = A!WindowOf(FiveSeries, WeekSeries, now, e)
    BY DEF A!Windows
<1> DEFINE mine == A!Samples(FiveSeries, e)
           i == A!Min(mine)
           j == A!Max(mine)
<1>2. e # A!None /\ mine # {}
    BY DEF A!Expiries
<1>3. DOMAIN rows = 1..Len(rows) /\ DOMAIN FiveSeries = DOMAIN rows /\ Len(rows) \in Nat
    BY SeriesIs DEF AccountInv
<1>4. \A k \in DOMAIN rows : FiveSeries[k].ts = rows[k].ts /\ FiveSeries[k].pct = rows[k].five.pct
                             /\ FiveSeries[k].ends = rows[k].five.ends
    BY SeriesIs DEF AccountInv
<1>5. mine \in SUBSET DOMAIN rows
    BY <1>3 DEF A!Samples
<1>6. i \in mine /\ j \in mine /\ \A k \in mine : i <= k /\ k <= j
    <2> HIDE DEF mine
    <2> QED BY <1>2, <1>5, RowEnds
<1>7. \A k \in mine : k \in DOMAIN rows /\ rows[k].five.ends = e /\ rows[k].ts < e
    <2> SUFFICES ASSUME NEW k \in mine PROVE k \in DOMAIN rows /\ rows[k].five.ends = e /\ rows[k].ts < e
        OBVIOUS
    <2>1. k \in DOMAIN rows /\ rows[k].five.ends = e
        BY <1>3, <1>4 DEF A!Samples
    <2>2. rows[k].ts < rows[k].five.ends
        BY <1>2, <2>1 DEF AccountInv, AccountTyped, FiveOK
    <2> QED BY <2>1, <2>2
<1>8. ASSUME NEW k \in i..j PROVE k \in mine
    <2>1. k \in DOMAIN rows /\ i \in Int /\ j \in Int /\ i <= k /\ k <= j
        BY <1>3, <1>6, <1>7
    <2>2. rows[i].five.ends = e /\ rows[j].ts < e /\ rows[k].ts <= rows[j].ts
        BY <1>6, <1>7, <2>1, InTime
    <2>3. rows[k].ts \in Nat /\ rows[j].ts \in Nat /\ e \in Int
        BY <1>6, <1>7, <2>1, RowIs DEF AccountInv
    <2>4. rows[k].five.ends = e
        <3>1. CASE i = k
            BY <2>2, <3>1
        <3>2. CASE i < k
            <4>1. rows[i].five.ends <= rows[k].ts \/ rows[k].five.ends = rows[i].five.ends
                BY <1>2, <1>6, <1>7, <2>1, <2>2, <3>2 DEF AccountInv, SessionsInv, FiveAfter
            <4> QED BY <2>2, <2>3, <4>1
        <3> QED BY <2>1, <3>1, <3>2
    <2> QED BY <1>3, <1>4, <2>1, <2>2, <2>3, <2>4 DEF A!Samples
<1>9. mine = i..j
    <2>1. \A k \in mine : k \in i..j
        BY <1>3, <1>6, <1>7
    <2> HIDE DEF mine, i, j
    <2> QED BY <1>8, <2>1
<1>10. A!Max({FiveSeries[k].pct : k \in mine}) = rows[j].five.pct
    <2> DEFINE N == {FiveSeries[k].pct : k \in mine}
    <2>1. N \in SUBSET Nat
        BY <1>4, <1>7, RowIs DEF AccountInv
    <2>2. rows[j].five.pct \in N
        BY <1>4, <1>6, <1>7
    <2>3. \A x \in N : x <= rows[j].five.pct
        <3> SUFFICES ASSUME NEW k \in mine PROVE FiveSeries[k].pct <= rows[j].five.pct
            OBVIOUS
        <3> QED BY <1>2, <1>4, <1>6, <1>7, ClimbsOn
    <2> HIDE DEF N
    <2>4. A!Max(N) = rows[j].five.pct
        BY <2>1, <2>2, <2>3, AccountEnds
    <2> QED BY <2>4 DEF N
<1>11. /\ w.ends = e /\ w.started = e - Length /\ w.peak = rows[j].five.pct
       /\ w.first = FiveSeries[i] /\ w.last = FiveSeries[j]
       /\ w.deltas = A!Deltas(WeekSeries, FiveSeries[i].ts, FiveSeries[j].ts)
       /\ w.covered = A!ObservedSeconds({FiveSeries[k].ts : k \in mine}, e - Length, A!Min({e, now}))
    BY <1>1, <1>10 DEF A!WindowOf
<1>12. i \in DOMAIN rows /\ j \in DOMAIN rows /\ i <= j
    BY <1>6, <1>7
<1>13. FiveSeries[i].ts = rows[i].ts /\ FiveSeries[j].ts = rows[j].ts
    BY <1>4, <1>12
<1>14. \A k \in i..j : rows[k].five.ends = e
    BY <1>7, <1>8
<1> HIDE DEF mine, i, j
<1>15. OfRows(w, i, j)
    BY <1>1, <1>2, <1>9, <1>11, <1>12, <1>13, <1>14 DEF OfRows
<1> QED BY <1>12, <1>15

(* What the week gained between two rows, and whether it ended. *)
LEMMA DeltasAre ==
    ASSUME AccountInv, NEW i \in DOMAIN rows, NEW j \in DOMAIN rows, i <= j,
           NEW d \in A!Deltas(WeekSeries, rows[i].ts, rows[j].ts)
    PROVE  /\ d.start = rows[i].week.pct /\ d.end = rows[j].week.pct
           /\ ~d.reset => rows[i].week.ends = rows[j].week.ends
<1> USE AccountNumbers
<1> DEFINE inside == {k \in DOMAIN WeekSeries : rows[i].ts <= WeekSeries[k].ts /\ WeekSeries[k].ts <= rows[j].ts}
<1>1. DOMAIN rows = 1..Len(rows) /\ DOMAIN WeekSeries = DOMAIN rows /\ Len(rows) \in Nat
    BY SeriesIs DEF AccountInv
<1>2. \A k \in DOMAIN rows : WeekSeries[k].ts = rows[k].ts /\ WeekSeries[k].pct = rows[k].week.pct
                             /\ WeekSeries[k].ends = rows[k].week.ends
    BY SeriesIs DEF AccountInv
<1>3. ASSUME NEW k \in DOMAIN rows PROVE k \in inside <=> i <= k /\ k <= j
    <2>1. k \in inside <=> rows[i].ts <= rows[k].ts /\ rows[k].ts <= rows[j].ts
        BY <1>1, <1>2
    <2>2. rows[i].ts \in Nat /\ rows[j].ts \in Nat /\ rows[k].ts \in Nat /\ i \in Int /\ j \in Int /\ k \in Int
        BY <1>1, RowIs DEF AccountInv
    <2>3. (i <= k => rows[i].ts <= rows[k].ts) /\ (k < i => rows[k].ts < rows[i].ts)
        BY InTime
    <2>4. (k <= j => rows[k].ts <= rows[j].ts) /\ (j < k => rows[j].ts < rows[k].ts)
        BY InTime
    <2> QED BY <2>1, <2>2, <2>3, <2>4
<1>4. inside = i..j
    <2>1. \A k \in inside : k \in DOMAIN rows
        BY <1>1
    <2>2. \A k \in i..j : k \in DOMAIN rows
        BY <1>1
    <2> HIDE DEF inside
    <2>3. \A k \in inside : k \in i..j
        BY <1>1, <1>3, <2>1
    <2>4. \A k \in i..j : k \in inside
        BY <1>1, <1>3, <2>2
    <2> QED BY <2>3, <2>4
<1>5. A!Min(i..j) = i /\ A!Max(i..j) = j /\ i..j # {}
    BY <1>1 DEF A!Min, A!Max
<1>6. d = [start |-> WeekSeries[A!Min(inside)].pct, end |-> WeekSeries[A!Max(inside)].pct,
           reset |-> \E k \in inside : k - 1 \in inside /\ k \in A!Cuts(WeekSeries)]
    BY DEF A!Deltas
<1>7. d = [start |-> rows[i].week.pct, end |-> rows[j].week.pct,
           reset |-> \E k \in i..j : k - 1 \in i..j /\ k \in A!Cuts(WeekSeries)]
    <2>1. WeekSeries[i].pct = rows[i].week.pct /\ WeekSeries[j].pct = rows[j].week.pct
        BY <1>2
    <2>2. A!Min(inside) = i /\ A!Max(inside) = j
        BY <1>4, <1>5
    <2> HIDE DEF inside
    <2>3. (\E k \in inside : k - 1 \in inside /\ k \in A!Cuts(WeekSeries))
              = (\E k \in i..j : k - 1 \in i..j /\ k \in A!Cuts(WeekSeries))
        BY <1>4
    <2> QED BY <1>6, <2>1, <2>2, <2>3
<1>8. ASSUME ~d.reset PROVE rows[i].week.ends = rows[j].week.ends
    <2> DEFINE Others == {k \in i..j : rows[k].week.ends # rows[i].week.ends}
    <2>1. Others = {}
        <3> SUFFICES ASSUME Others # {} PROVE FALSE
            OBVIOUS
        <3>1. Others \in SUBSET Nat
            BY <1>1
        <3>2. PICK k \in Others : \A l \in Others : k <= l
            <4> HIDE DEF Others
            <4> QED BY <3>1, LeastThereIs
        <3>3. k \in i..j /\ k - 1 \in i..j /\ k # i /\ k \in DOMAIN rows /\ k - 1 \in DOMAIN rows /\ k # 1
            BY <1>1
        <3>4. k - 1 \notin Others
            BY <1>1, <3>2, <3>3
        <3>5. rows[k - 1].week.ends = rows[i].week.ends /\ rows[k].week.ends # rows[i].week.ends
            BY <3>3, <3>4
        <3>6. k \notin A!Cuts(WeekSeries)
            BY <1>7, <1>8, <3>3
        <3>7. ~A!IsReset(WeekSeries[k - 1], WeekSeries[k])
            BY <1>1, <3>3, <3>6 DEF A!Cuts
        <3>8. rows[k].week.ends \in Nat /\ rows[k - 1].week.ends \in Nat
            BY <3>3, RowIs DEF AccountInv
        <3>9. WeekSeries[k - 1].ends = rows[k - 1].week.ends /\ WeekSeries[k].ends = rows[k].week.ends
            <4>1. \A l \in DOMAIN rows : WeekSeries[l].ends = rows[l].week.ends
                BY <1>2
            <4> HIDE DEF Others
            <4> QED BY <3>3, <4>1
        <3>10. rows[k].week.ends = rows[k - 1].week.ends
            <4>1. WeekSeries[k - 1].ends # A!None /\ WeekSeries[k].ends # A!None
                BY <3>8, <3>9
            <4>2. ~(WeekSeries[k - 1].ends # WeekSeries[k].ends)
                BY <3>7, <4>1 DEF A!IsReset
            <4> QED BY <3>9, <4>2
        <3> QED BY <3>5, <3>10
    <2>2. j \in i..j
        BY <1>1
    <2> QED BY <2>1, <2>2
<1> QED BY <1>7, <1>8

(* A session is observed from its first reading on, and a little before. *)
LEMMA AccountCounts == \A N : A!Cardinality(N) = Cardinality(N)
BY DEF A!Cardinality, Cardinality

LEMMA ObservedIs ==
    ASSUME NEW stamps \in SUBSET Nat, NEW start \in Int, NEW end \in Int, NEW a \in stamps, NEW z \in stamps,
           \A t \in stamps : a <= t /\ t <= z, start <= a, z <= end
    PROVE  /\ A!ObservedSeconds(stamps, start, end) \in Int
           /\ A!ObservedSeconds(stamps, start, end) <= Threshold + (end - a)
<1> USE AccountNumbers
<1> DEFINE inside == {t \in stamps : start <= t /\ t <= end}
           covered == {t \in start..end : \E x, y \in inside : x <= t /\ t < y /\ y - x <= Threshold}
<1>1. a \in Nat /\ z \in Nat /\ a <= z
    OBVIOUS
<1>2. inside = stamps
    <2>1. \A t \in stamps : start <= t /\ t <= end
        <3> SUFFICES ASSUME NEW t \in stamps PROVE start <= t /\ t <= end
            OBVIOUS
        <3>1. t \in Nat /\ a <= t /\ t <= z
            OBVIOUS
        <3> QED BY <1>1, <3>1
    <2> QED BY <2>1
<1>3. A!Min(stamps) = a /\ A!Max(stamps) = z
    <2>1. A!Max(stamps) = z /\ A!Min(stamps) \in stamps /\ \A x \in stamps : A!Min(stamps) <= x
        BY AccountEnds
    <2>2. A!Min(stamps) \in Nat /\ A!Min(stamps) <= a /\ a <= A!Min(stamps)
        BY <1>1, <2>1
    <2> QED BY <1>1, <2>1, <2>2
<1>4. covered \in SUBSET (a..z - 1)
    <2> SUFFICES ASSUME NEW t \in start..end, NEW x \in inside, NEW y \in inside, x <= t, t < y
                 PROVE  t \in a..z - 1
        OBVIOUS
    <2>1. x \in Nat /\ y \in Nat /\ a <= x /\ y <= z
        BY <1>2
    <2> QED BY <1>1, <2>1
<1> HIDE DEF inside, covered
<1>5. A!Cardinality(covered) \in Nat /\ A!Cardinality(covered) <= z - a
    <2>1. IsFiniteSet(a..z - 1) /\ Cardinality(a..z - 1) = IF a > z - 1 THEN 0 ELSE (z - 1) - a + 1
        BY <1>1, FS_Interval
    <2>2. Cardinality(a..z - 1) = z - a
        BY <1>1, <2>1
    <2>3. IsFiniteSet(covered) /\ Cardinality(covered) <= Cardinality(a..z - 1)
        BY <1>4, <2>1, FS_Subset
    <2>4. Cardinality(covered) \in Nat
        BY <2>3, FS_CardinalityType
    <2>5. A!Cardinality(covered) = Cardinality(covered)
        BY AccountCounts
    <2> QED BY <2>2, <2>3, <2>4, <2>5
<1> DEFINE early == A!Min({Threshold, a - start})
           late == A!Min({Threshold, end - z})
           sum == A!Cardinality(covered) + early + late
<1>6. early \in Int /\ early <= Threshold /\ late \in Int /\ late <= end - z
    <2>1. Threshold \in Int /\ a - start \in Int /\ end - z \in Int
        BY <1>1
    <2>2. early \in {Threshold, a - start} /\ early <= Threshold
        BY <2>1, AccountMin2
    <2>3. late \in {Threshold, end - z} /\ late <= end - z
        BY <2>1, AccountMin2
    <2> QED BY <2>1, <2>2, <2>3
<1>7. A!ObservedSeconds(stamps, start, end) = A!Min({end - start, sum})
    <2>1. inside # {}
        BY <1>2
    <2> QED BY <1>2, <1>3, <2>1 DEF A!ObservedSeconds, inside, covered
<1> HIDE DEF early, late
<1>8. sum \in Int /\ sum <= Threshold + (end - a)
    BY <1>1, <1>5, <1>6
<1>9. A!Min({end - start, sum}) \in {end - start, sum} /\ A!Min({end - start, sum}) <= sum
    <2>1. end - start \in Int
        OBVIOUS
    <2> HIDE DEF sum
    <2> QED BY <1>8, <2>1, AccountMin2
<1> HIDE DEF sum
<1> QED BY <1>1, <1>7, <1>8, <1>9

(* What a cost is of: a session and what the week shows of it. *)
Costs == A!WindowCosts(A!Known, now, boosts)

Costed(c, w, d) ==
    /\ w \in A!Windows(FiveSeries, WeekSeries, now) /\ d \in w.deltas
    /\ c.window = w /\ c.pts = A!Max({0, d.end - d.start})
    /\ c = [window |-> w, pts |-> A!Max({0, d.end - d.start})]
    /\ w.ends <= now /\ A!IsObserved(w) /\ ~A!Boosted(w, boosts)
    /\ w.peak >= MinDelta /\ ~d.reset

LEMMA CostedIs ==
    ASSUME NEW c \in Costs
    PROVE  \E w, d : Costed(c, w, d)
<1> DEFINE Whole == {v \in A!Known : A!IsComplete(v, now)}
           Both == UNION {{w} \X w.deltas : w \in Whole}
<1>1. PICK p \in Both :
          /\ A!IsObserved(p[1]) /\ ~A!Boosted(p[1], boosts)
          /\ p[1].peak >= MinDelta /\ A!Measurable(p[2])
          /\ c = [window |-> p[1], pts |-> A!Max({0, p[2].end - p[2].start})]
    BY DEF Costs, A!WindowCosts
<1>2. PICK w \in Whole : p \in {w} \X w.deltas
    OBVIOUS
<1>3. p[1] = w /\ p[2] \in w.deltas
    BY <1>2
<1>4. w \in A!Windows(FiveSeries, WeekSeries, now) /\ w.ends <= now
    BY DEF A!Known, A!IsComplete, FiveSeries, WeekSeries
<1>5. c.window = w /\ c.pts = A!Max({0, p[2].end - p[2].start})
    BY <1>1, <1>3
<1>6. Costed(c, w, p[2])
    BY <1>1, <1>3, <1>4, <1>5 DEF Costed, A!Measurable
<1> QED BY <1>6

(* A session of which nine tenths were observed was so from early on. *)
LEMMA ObservedSoon ==
    ASSUME NEW covered \in Int, NEW late \in Int, covered * 2000 >= 1799 * Length,
           covered <= Threshold + (Length - late)
    PROVE  late <= Threshold + Length \div 9
<1> USE AccountNumbers
<1> DEFINE part == Length \div 9
           over == late - Threshold
<1>1. part \in Int /\ Length < 9 * part + 9
    BY DividedIs
<1> HIDE DEF part
<1>2. over \in Int /\ covered <= Length - over
    OBVIOUS
<1> HIDE DEF over
<1>3. 2000 * over <= 201 * Length
    BY <1>2
<1>4. over < part + 1
    BY <1>1, <1>2, <1>3
<1> QED BY <1>1, <1>2, <1>4 DEF part, over

(* What a session cost the week, against what was used of it. *)
LEMMA CostIs ==
    ASSUME AccountInv, NEW c \in Costs
    PROVE  /\ c.pts \in Nat /\ c.pts <= c.window.peak /\ c.window.peak \in Nat \ {0}
           /\ c.window.peak - c.pts <= Threshold + Length \div 9 + 1 + hidden
<1> USE AccountNumbers
<1>1. PICK w, d : Costed(c, w, d)
    BY CostedIs
<1>2. PICK i \in DOMAIN rows : \E j \in DOMAIN rows : OfRows(w, i, j)
    BY <1>1, WindowIs DEF Costed
<1>3. PICK j \in DOMAIN rows : OfRows(w, i, j)
    BY <1>2
<1> DEFINE r == rows[i]
           s == rows[j]
<1>4. DOMAIN rows = 1..Len(rows) /\ Len(rows) \in Nat /\ i \in Nat /\ j \in Nat /\ i <= j
    BY <1>3, SeriesIs DEF AccountInv, OfRows
<1>5. i \in i..j /\ j \in i..j
    BY <1>4
<1>6. r.five.ends = w.ends /\ s.five.ends = w.ends /\ w.ends # A!None /\ w.peak = s.five.pct
    BY <1>3, <1>5 DEF OfRows
<1>7. /\ r.ts \in Nat /\ s.ts \in Nat /\ r.used \in Nat /\ s.used \in Nat /\ r.five.pct \in Nat
      /\ s.five.pct \in Nat /\ r.week.pct \in Nat /\ s.week.pct \in Nat /\ w.ends \in Int /\ hidden \in Nat
    BY <1>6, RowIs, StandsAre DEF AccountInv
<1>8. s.five.pct - r.five.pct = s.used - r.used /\ r.five.pct <= s.five.pct
    BY <1>4, <1>6, ClimbsOn
<1>9. /\ r.ts < w.ends /\ w.ends <= r.ts + Length /\ r.five.pct <= r.ts - (w.ends - Length) + 1
      /\ s.ts < w.ends
    BY <1>6 DEF AccountInv, AccountTyped, FiveOK
<1>10. d.start = r.week.pct /\ d.end = s.week.pct /\ r.week.ends = s.week.ends
    <2>1. d \in A!Deltas(WeekSeries, r.ts, s.ts) /\ ~d.reset
        BY <1>1, <1>3 DEF Costed, OfRows
    <2> QED BY <1>4, <2>1, DeltasAre
<1> DEFINE gain == s.week.pct - r.week.pct
<1>11. c.pts \in {0, gain} /\ 0 <= c.pts /\ gain <= c.pts /\ c.pts \in Int
    <2>1. c.pts = A!Max({0, gain}) /\ gain \in Int
        BY <1>1, <1>7, <1>10 DEF Costed
    <2> DEFINE z == 0
    <2>2. z \in Int /\ gain \in Int
        BY <2>1
    <2> HIDE DEF gain, z
    <2>3. A!Max({z, gain}) \in {z, gain} /\ z <= A!Max({z, gain}) /\ gain <= A!Max({z, gain})
        BY <2>2, AccountMin2
    <2> QED BY <2>1, <2>3 DEF z
<1>12. (s.used - r.used) - gain \in 0..hidden
    <2>1. CASE i = j
        BY <1>7, <2>1
    <2>2. CASE i < j
        <3>1. Unseen(i, s.week, s.used) \in 0..hidden \/ BoostIn(i, j)
            BY <1>10, <2>2 DEF AccountInv, WeeksInv, Same
        <3>2. ~BoostIn(i, j)
            <4> SUFFICES ASSUME NEW k \in DOMAIN rows, i < k, k <= j, rows[k].ts \in boosts PROVE FALSE
                BY DEF BoostIn
            <4>1. k \in i..j
                BY <1>4
            <4>2. rows[k].five.ends = w.ends
                BY <1>3, <4>1 DEF OfRows
            <4>3. rows[k].ts < w.ends /\ w.ends <= rows[k].ts + Length
                BY <1>6, <4>2 DEF AccountInv, AccountTyped, FiveOK
            <4>4. rows[k].ts \in Nat
                BY RowIs DEF AccountInv
            <4>5. w.started = w.ends - Length
                BY <1>3 DEF OfRows
            <4>6. w.started <= rows[k].ts /\ rows[k].ts <= w.ends
                BY <1>7, <4>3, <4>4, <4>5
            <4>7. A!Boosted(w, boosts)
                BY <4>6 DEF A!Boosted
            <4> QED BY <1>1, <4>7 DEF Costed
        <3> QED BY <3>1, <3>2 DEF Unseen
    <2> QED BY <1>4, <2>1, <2>2
<1>13. r.ts - (w.ends - Length) <= Threshold + Length \div 9
    <2> DEFINE stamps == {FiveSeries[k].ts : k \in i..j}
               from == w.ends - Length
    <2>1. \A k \in i..j : k \in DOMAIN rows /\ FiveSeries[k].ts = rows[k].ts
        BY <1>4, SeriesIs DEF AccountInv
    <2>2. stamps \in SUBSET Nat
        BY <2>1, RowIs DEF AccountInv
    <2>3. r.ts \in stamps /\ s.ts \in stamps
        BY <1>5, <2>1
    <2>4. \A t \in stamps : r.ts <= t /\ t <= s.ts
        <3> SUFFICES ASSUME NEW k \in i..j PROVE r.ts <= FiveSeries[k].ts /\ FiveSeries[k].ts <= s.ts
            OBVIOUS
        <3>1. k \in DOMAIN rows /\ FiveSeries[k].ts = rows[k].ts /\ i <= k /\ k <= j
            BY <1>4, <2>1
        <3> QED BY <3>1, InTime
    <2>5. A!Min({w.ends, now}) = w.ends
        <3>1. w.ends <= now /\ now \in Int
            BY <1>1, StandsAre DEF Costed, AccountInv
        <3>2. A!Min({w.ends, now}) \in {w.ends, now} /\ A!Min({w.ends, now}) <= w.ends
            BY <1>7, <3>1, AccountMin2
        <3> QED BY <1>7, <3>1, <3>2
    <2>6. w.covered = A!ObservedSeconds(stamps, from, w.ends)
        BY <1>3, <2>5 DEF OfRows
    <2>7. from \in Int /\ from <= r.ts /\ s.ts <= w.ends
        BY <1>7, <1>9
    <2> HIDE DEF stamps, from, r, s
    <2>8. w.covered \in Int /\ w.covered <= Threshold + (w.ends - r.ts)
        BY <1>7, <2>2, <2>3, <2>4, <2>6, <2>7, ObservedIs
    <2>9. w.covered * 2000 >= 1799 * Length
        BY <1>1 DEF Costed, A!IsObserved
    <2>10. r.ts - from \in Int /\ w.ends - r.ts = Length - (r.ts - from)
        BY <1>7 DEF from
    <2>11. r.ts - from <= Threshold + Length \div 9
        BY <2>8, <2>9, <2>10, ObservedSoon
    <2> QED BY <2>11 DEF from
<1>14. w.peak >= MinDelta /\ c.window = w
    BY <1>1 DEF Costed
<1> HIDE DEF r, s, gain
<1>15. Length \div 9 \in Int
    BY DividedIs
<1>16. gain \in Int
    BY <1>7 DEF gain
<1>17. w.peak \in Nat \ {0} /\ c.pts \in Nat
    BY <1>6, <1>7, <1>11, <1>14
<1>18. c.pts <= w.peak
    BY <1>6, <1>7, <1>8, <1>11, <1>12, <1>16
<1>19. w.peak - gain <= r.five.pct + hidden
    BY <1>6, <1>7, <1>8, <1>12, <1>16
<1>20. w.peak - c.pts <= Threshold + Length \div 9 + 1 + hidden
    BY <1>7, <1>9, <1>11, <1>13, <1>15, <1>16, <1>17, <1>19
<1> QED BY <1>14, <1>17, <1>18, <1>20

(* A session has one cost, and there are no more sessions than moments. *)
LEMMA CostsAreFew ==
    ASSUME AccountInv
    PROVE  IsFiniteSet(Costs)
<1> USE AccountNumbers
<1>1. ASSUME NEW c \in Costs, NEW b \in Costs, c.window.ends = b.window.ends PROVE c = b
    <2>1. PICK w, d : Costed(c, w, d)
        BY CostedIs
    <2>2. PICK v, e : Costed(b, v, e)
        BY CostedIs
    <2>3. PICK i \in DOMAIN rows : \E j \in DOMAIN rows : OfRows(w, i, j)
        BY <2>1, WindowIs DEF Costed
    <2>4. PICK j \in DOMAIN rows : OfRows(w, i, j)
        BY <2>3
    <2>5. PICK k \in DOMAIN rows : \E l \in DOMAIN rows : OfRows(v, k, l)
        BY <2>2, WindowIs DEF Costed
    <2>6. PICK l \in DOMAIN rows : OfRows(v, k, l)
        BY <2>5
    <2>7. w.ends = v.ends
        BY <1>1, <2>1, <2>2 DEF Costed
    <2>8. w = v
        BY <2>4, <2>6, <2>7 DEF OfRows
    <2>9. d \in A!Deltas(WeekSeries, rows[i].ts, rows[j].ts) /\ e \in A!Deltas(WeekSeries, rows[i].ts, rows[j].ts)
        BY <2>1, <2>2, <2>4, <2>8 DEF Costed, OfRows
    <2>10. i <= j
        BY <2>4 DEF OfRows
    <2>11. d.start = e.start /\ d.end = e.end
        BY <2>9, <2>10, DeltasAre
    <2> QED BY <2>1, <2>2, <2>8, <2>11 DEF Costed
<1> DEFINE Ends == {c.window.ends : c \in Costs}
           costOf == [e \in Ends |-> CHOOSE c \in Costs : c.window.ends = e]
<1>2. \A c \in Costs : c.window.ends \in 0..now
    <2> SUFFICES ASSUME NEW c \in Costs PROVE c.window.ends \in 0..now
        OBVIOUS
    <2>1. PICK w, d : Costed(c, w, d)
        BY CostedIs
    <2>2. PICK i \in DOMAIN rows : \E j \in DOMAIN rows : OfRows(w, i, j)
        BY <2>1, WindowIs DEF Costed
    <2>3. PICK j \in DOMAIN rows : OfRows(w, i, j)
        BY <2>2
    <2>4. i \in i..j
        BY <2>3, SeriesIs DEF OfRows, AccountInv
    <2>5. rows[i].five.ends = w.ends /\ w.ends # A!None
        BY <2>3, <2>4 DEF OfRows
    <2>6. rows[i].ts < w.ends /\ rows[i].ts \in Nat /\ w.ends \in Int
        BY <2>5, RowIs DEF AccountInv, AccountTyped, FiveOK
    <2>7. w.ends <= now /\ c.window = w
        BY <2>1 DEF Costed
    <2> QED BY <2>6, <2>7, StandsAre DEF AccountInv
<1>3. IsFiniteSet(Ends)
    <2>1. Ends \in SUBSET (0..now)
        BY <1>2
    <2>2. IsFiniteSet(0..now)
        BY FS_Interval, StandsAre DEF AccountInv
    <2> HIDE DEF Ends
    <2> QED BY <2>1, <2>2, FS_Subset
<1>4. \A c \in Costs : c.window.ends \in Ends /\ costOf[c.window.ends] = c
    <2> SUFFICES ASSUME NEW c \in Costs PROVE c.window.ends \in Ends /\ costOf[c.window.ends] = c
        OBVIOUS
    <2> DEFINE b == CHOOSE x \in Costs : x.window.ends = c.window.ends
    <2>1. c.window.ends \in Ends /\ costOf[c.window.ends] = b
        OBVIOUS
    <2>2. b \in Costs /\ b.window.ends = c.window.ends
        OBVIOUS
    <2> HIDE DEF b, costOf, Ends
    <2>3. b = c
        BY <1>1, <2>2
    <2> QED BY <2>1, <2>3
<1>5. costOf \in [Ends -> Costs]
    <2>1. \A e \in Ends : costOf[e] \in Costs
        BY <1>4
    <2> QED BY <2>1
<1> HIDE DEF costOf, Ends
<1>6. costOf \in Surjection(Ends, Costs)
    BY <1>4, <1>5 DEF Surjection
<1> QED BY <1>3, <1>6, FS_Surjection

(* The budget rests on costs of which none is more than what was used. *)
LEMMA BudgetIs ==
    ASSUME AccountInv
    PROVE  LET budget == A!ComputeBudget(week.pct, A!Known, now, boosts)
           IN  budget.known => budget.cost <= 2 * Scale
<1> USE AccountNumbers
<1> DEFINE budget == A!ComputeBudget(week.pct, A!Known, now, boosts)
           full == [c \in Costs |-> (c.pts * Scale) \div c.window.peak]
           headroom == A!Max({0, Full - week.pct})
           n == Cardinality(Costs)
<1>0. Scale \in Nat \ {0}
    OBVIOUS
<1>1. \A c \in Costs : full[c] \in 0..Scale
    <2> SUFFICES ASSUME NEW c \in Costs PROVE (c.pts * Scale) \div c.window.peak \in 0..Scale
        OBVIOUS
    <2> DEFINE share == (c.pts * Scale) \div c.window.peak
               peak == c.window.peak
    <2>1. c.pts \in Nat /\ c.pts <= peak /\ peak \in Nat \ {0}
        BY CostIs
    <2>0. c.pts * Scale \in Int /\ c.pts * Scale <= peak * Scale /\ c.pts * Scale >= 0
        <3> HIDE DEF peak
        <3>1. Scale * c.pts <= Scale * peak /\ Scale * 0 <= Scale * c.pts /\ Scale * c.pts \in Int
            BY <1>0, <2>1, TimesGrows
        <3> QED BY <1>0, <2>1, <3>1
    <2>2. share \in Int /\ peak * share <= c.pts * Scale /\ c.pts * Scale < peak * share + peak
        BY <2>1, <2>0, DividedIs
    <2> HIDE DEF share, peak
    <2>3. /\ peak * (share + 1) = peak * share + peak /\ peak * share \in Int /\ peak * 0 = 0
          /\ peak * (Scale + 1) = peak * Scale + peak /\ peak * Scale \in Int
        BY <1>0, <2>1, <2>2
    <2>4. peak * 0 < peak * (share + 1) /\ peak * share < peak * (Scale + 1)
        BY <2>1, <2>2, <2>3, <2>0
    <2>5. 0 < share + 1 /\ share < Scale + 1
        BY <1>0, <2>1, <2>2, <2>4, TimesStrict
    <2>6. share \in 0..Scale
        BY <1>0, <2>2, <2>5
    <2> QED BY <2>6 DEF share
<1>2. IsFiniteSet(Costs) /\ n \in Nat /\ (Costs = {} <=> n = 0)
    BY CostsAreFew, FS_CardinalityType, FS_EmptySet
<1> HIDE DEF n
<1>3. full \in [Costs -> Nat]
    BY <1>0, <1>1
<1>4. ASSUME Costs # {} PROVE A!Median2(full) <= 2 * Scale
    <2>1. DOMAIN full = Costs /\ A!Cardinality(DOMAIN full) = n
        BY AccountCounts DEF n
    <2>2. A!HalfUp(full) = (n + 1) \div 2 /\ A!Half(full) = n \div 2
        BY <2>1 DEF A!HalfUp, A!Half
    <2>3. A!HalfUp(full) \in 1..n /\ A!Half(full) + 1 \in 1..n
        <3> HIDE DEF full
        <3> QED BY <1>2, <1>4, <2>2
    <2> DEFINE low == A!Smallest(full, A!HalfUp(full))
               high == A!Smallest(full, A!Half(full) + 1)
    <2>4. low = P!Smallest(full, A!HalfUp(full)) /\ high = P!Smallest(full, A!Half(full) + 1)
        BY DEF A!Smallest, P!Smallest, A!Range, P!Range, A!Cardinality, P!Cardinality
    <2>5. A!Median2(full) = low + high
        BY DEF A!Median2
    <2> HIDE DEF full
    <2>6. low \in Nat /\ \E c \in Costs : full[c] = low
        BY <1>2, <1>3, <2>3, <2>4, SmallestIs DEF n
    <2>7. high \in Nat /\ \E c \in Costs : full[c] = high
        BY <1>2, <1>3, <2>3, <2>4, SmallestIs DEF n
    <2> HIDE DEF low, high
    <2>8. low <= Scale /\ high <= Scale
        BY <1>1, <2>6, <2>7
    <2> QED BY <1>0, <2>5, <2>6, <2>7, <2>8
<1>5. budget = IF headroom = 0
               THEN [known |-> TRUE, headroom |-> 0, cost |-> A!None, usable |-> A!Cardinality(Costs)]
               ELSE [known |-> A!Cardinality(Costs) >= MinCompare /\ A!Median2(full) > 0,
                     headroom |-> headroom,
                     cost |-> IF Costs = {} THEN A!None ELSE A!Median2(full),
                     usable |-> A!Cardinality(Costs)]
    BY DEF A!ComputeBudget, Costs
<1> HIDE DEF budget, full, headroom
<1>6. budget.cost = A!None \/ (Costs # {} /\ budget.cost = A!Median2(full))
    <2>1. CASE headroom = 0
        <3>1. budget.cost = A!None
            BY <1>5, <2>1
        <3> QED BY <3>1
    <2>2. CASE headroom # 0
        <3>1. budget.cost = IF Costs = {} THEN A!None ELSE A!Median2(full)
            BY <1>5, <2>2
        <3> QED BY <3>1
    <2> QED BY <2>1, <2>2
<1>7. budget.cost <= 2 * Scale
    BY <1>4, <1>6
<1> QED BY <1>0, <1>7 DEF budget

(* A session within a week was paid from that week. *)
LEMMA WeekIs ==
    ASSUME NEW from \in Int, NEW to \in Int, NEW t \in Int, from <= t, t <= to,
           A!WeekKey(from) = A!WeekKey(to), NEW w, WeekOK(w, t)
    PROVE  w.ends = Anchor + (A!WeekKey(from) + 1) * WeekLength
<1> USE AccountNumbers
<1> DEFINE q == (from - Anchor) \div WeekLength
<1>1. q \in Int /\ WeekLength * q <= from - Anchor
    BY DividedIs
<1>2. A!WeekKey(from) = q /\ A!WeekKey(to) = (to - Anchor) \div WeekLength
    BY DEF A!WeekKey
<1>3. to - Anchor < WeekLength * ((to - Anchor) \div WeekLength) + WeekLength
    BY DividedIs
<1> HIDE DEF q
<1>4. to - Anchor < WeekLength * q + WeekLength
    BY <1>2, <1>3
<1>5. PICK k \in Nat : w.ends = Anchor + k * WeekLength
    BY DEF WeekOK, EndsAWeek
<1>6. w.ends - WeekLength <= t /\ t < w.ends
    BY DEF WeekOK
<1>7. /\ k * WeekLength = WeekLength * k /\ WeekLength * k \in Int /\ WeekLength * q \in Int
      /\ WeekLength * (k - 1) = WeekLength * k - WeekLength
      /\ WeekLength * (q + 1) = WeekLength * q + WeekLength
      /\ (q + 1) * WeekLength = WeekLength * (q + 1)
    BY <1>1
<1>8. WeekLength * q < WeekLength * k
    BY <1>1, <1>5, <1>6, <1>7
<1>9. WeekLength * (k - 1) < WeekLength * (q + 1)
    BY <1>1, <1>4, <1>5, <1>6, <1>7
<1>10. q < k /\ k - 1 < q + 1
    BY <1>1, <1>8, <1>9, TimesStrict
<1>11. k = q + 1
    BY <1>1, <1>10
<1> QED BY <1>2, <1>5, <1>11

LEMMA CostsHold ==
    ASSUME AccountInv
    PROVE  A!CostsAreHonest
<1> USE AccountNumbers
<1>1. ASSUME NEW b \in A!WindowCostsByWeek(A!Known, now, boosts), NEW r \in A!Range(A!Series("week")),
             r.ts \in b.cost.window.first.ts..b.cost.window.last.ts - 1
      PROVE  r.ends = Anchor + (b.week + 1) * WeekLength
    <2>1. PICK c \in Costs : /\ A!WeekKey(c.window.started) = A!WeekKey(c.window.ends - 1)
                             /\ b = [week |-> A!WeekKey(c.window.started), cost |-> c]
        BY DEF A!WindowCostsByWeek, Costs
    <2>2. b.week = A!WeekKey(c.window.started) /\ b.cost = c
        BY <2>1
    <2>3. PICK w, d : Costed(c, w, d)
        BY CostedIs
    <2>4. PICK i \in DOMAIN rows : \E j \in DOMAIN rows : OfRows(w, i, j)
        BY <2>3, WindowIs DEF Costed
    <2>5. PICK j \in DOMAIN rows : OfRows(w, i, j)
        BY <2>4
    <2>6. PICK k \in DOMAIN rows : r.ts = rows[k].ts /\ r.ends = rows[k].week.ends
        <3>1. PICK k \in DOMAIN WeekSeries : r = WeekSeries[k]
            BY DEF A!Range, WeekSeries
        <3>2. k \in DOMAIN rows
            BY <3>1, SeriesIs DEF AccountInv
        <3>3. WeekSeries[k].ts = rows[k].ts /\ WeekSeries[k].ends = rows[k].week.ends
            BY <3>2, SeriesIs DEF AccountInv
        <3> QED BY <3>1, <3>2, <3>3
    <2>7. c.window = w /\ w.first.ts = rows[i].ts /\ w.last.ts = rows[j].ts /\ w.started = w.ends - Length
        <3>1. FiveSeries[i].ts = rows[i].ts /\ FiveSeries[j].ts = rows[j].ts
            BY SeriesIs DEF AccountInv
        <3> QED BY <2>3, <2>5, <3>1 DEF Costed, OfRows
    <2>8. i \in i..j /\ j \in i..j
        BY <2>5, SeriesIs DEF OfRows, AccountInv
    <2>9. rows[i].five.ends = w.ends /\ rows[j].five.ends = w.ends /\ w.ends # A!None
        BY <2>5, <2>8 DEF OfRows
    <2>10. w.ends <= rows[i].ts + Length /\ rows[j].ts < w.ends
        BY <2>9 DEF AccountInv, AccountTyped, FiveOK
    <2>11. rows[i].ts \in Nat /\ rows[j].ts \in Nat /\ rows[k].ts \in Nat /\ w.ends \in Int
        BY <2>9, RowIs DEF AccountInv
    <2>12. rows[i].ts <= rows[k].ts /\ rows[k].ts <= rows[j].ts - 1
        BY <1>1, <2>2, <2>6, <2>7, <2>11
    <2>13. /\ w.started \in Int /\ w.ends - 1 \in Int /\ w.started <= rows[k].ts /\ rows[k].ts <= w.ends - 1
        BY <2>7, <2>10, <2>11, <2>12
    <2>14. WeekOK(rows[k].week, rows[k].ts)
        BY DEF AccountInv, AccountTyped
    <2>15. A!WeekKey(w.started) = A!WeekKey(w.ends - 1)
        BY <2>1, <2>7
    <2>16. rows[k].week.ends = Anchor + (A!WeekKey(w.started) + 1) * WeekLength
        BY <2>11, <2>13, <2>14, <2>15, WeekIs
    <2> QED BY <2>2, <2>6, <2>7, <2>16
<1>2. \A c \in A!WindowCosts(A!Known, now, boosts) :
          /\ c.pts <= c.window.peak
          /\ c.window.peak - c.pts <= Threshold + Length \div 9 + 1 + hidden
    BY CostIs DEF Costs
<1> QED BY <1>1, <1>2, BudgetIs DEF A!CostsAreHonest

-----------------------------------------------------------------------------
(* A total counts what the parts of a set hold, when they are apart. *)
LEMMA CountedInParts ==
    ASSUME NEW S, NEW f, NEW part, NEW all, IsFiniteSet(all),
           \A p : p \in all <=> \E x \in S : p \in part[x],
           \A x, y \in S : \A p \in part[x] : p \in part[y] => x = y,
           \A x \in S : f[x] = Cardinality(part[x])
    PROVE  A!Total(f, S) = Cardinality(all)
<1> DEFINE each == UNION {{x} \X (1..f[x]) : x \in S}
           number(x) == CHOOSE h : h \in Bijection(1..f[x], part[x])
           of(p) == CHOOSE x \in S : p \in part[x]
           place(p) == CHOOSE k \in 1..f[of(p)] : number(of(p))[k] = p
           map == [p \in all |-> <<of(p), place(p)>>]
<1>1. ASSUME NEW x \in S
      PROVE  /\ \A k \in 1..f[x] : number(x)[k] \in part[x]
             /\ \A k, l \in 1..f[x] : number(x)[k] = number(x)[l] => k = l
             /\ \A p \in part[x] : \E k \in 1..f[x] : number(x)[k] = p
    <2>1. part[x] \in SUBSET all
        OBVIOUS
    <2>2. IsFiniteSet(part[x])
        BY <2>1, FS_Subset
    <2>3. ExistsBijection(1..f[x], part[x])
        BY <2>2, FS_CardinalityType
    <2>4. number(x) \in Bijection(1..f[x], part[x])
        BY <2>3 DEF ExistsBijection
    <2> HIDE DEF number
    <2> QED BY <2>4 DEF Bijection, Injection, Surjection, IsInjective
<1>2. \A p \in all : of(p) \in S /\ p \in part[of(p)]
    OBVIOUS
<1>3. \A x \in S : \A p \in part[x] : p \in all /\ of(p) = x
    BY <1>2
<1> HIDE DEF of, number
<1>4. \A p \in all : place(p) \in 1..f[of(p)] /\ number(of(p))[place(p)] = p
    BY <1>1, <1>2
<1> HIDE DEF place
<1>5. \A q : q \in each <=> \E x \in S : \E k \in 1..f[x] : q = <<x, k>>
    OBVIOUS
<1> HIDE DEF each
<1>6. map \in [all -> each]
    BY <1>2, <1>4, <1>5
<1>7. ASSUME NEW p \in all, NEW q \in all, map[p] = map[q] PROVE p = q
    <2>1. of(p) = of(q) /\ place(p) = place(q)
        BY <1>7
    <2> QED BY <1>4, <2>1
<1>8. ASSUME NEW q \in each PROVE \E p \in all : map[p] = q
    <2>1. PICK x \in S : \E k \in 1..f[x] : q = <<x, k>>
        BY <1>5
    <2>2. PICK k \in 1..f[x] : q = <<x, k>>
        BY <2>1
    <2> DEFINE p == number(x)[k]
    <2>3. p \in part[x] /\ p \in all /\ of(p) = x
        BY <1>1, <1>3
    <2>4. place(p) \in 1..f[x] /\ number(x)[place(p)] = p
        BY <1>4, <2>3
    <2>5. place(p) = k
        BY <1>1, <2>4
    <2> HIDE DEF p
    <2>6. map[p] = <<x, k>>
        BY <2>3, <2>5
    <2> QED BY <2>2, <2>3, <2>6
<1> HIDE DEF map
<1>9. map \in Bijection(all, each)
    BY <1>6, <1>7, <1>8, Zenon DEF Bijection, Injection, Surjection, IsInjective
<1>10. ExistsBijection(all, each)
    BY <1>9 DEF ExistsBijection
<1>11. Cardinality(each) = Cardinality(all)
    BY <1>10, FS_Bijection
<1>12. A!Total(f, S) = A!Cardinality(each)
    BY DEF A!Total, each
<1> QED BY <1>11, <1>12, AccountCounts

(* How many moments a span has. *)
LEMMA SpanCounts ==
    ASSUME NEW a \in Int, NEW b \in Int, a <= b
    PROVE  IsFiniteSet(a..b - 1) /\ Cardinality(a..b - 1) = b - a /\ Cardinality(a..b - 1) \in Nat
<1>1. b - 1 \in Int
    OBVIOUS
<1>2. IsFiniteSet(a..b - 1) /\ Cardinality(a..b - 1) = IF a > b - 1 THEN 0 ELSE (b - 1) - a + 1
    BY <1>1, FS_Interval
<1> QED BY <1>2

-----------------------------------------------------------------------------
(* The sessions that opened. *)
OpeningsInv ==
    /\ \A o \in openings :
          /\ o \in Nat /\ o <= now
          /\ now < o + Length => five.ends = o + Length
          /\ \A i \in DOMAIN rows : o < rows[i].ts /\ rows[i].ts < o + Length => rows[i].five.ends = o + Length
    /\ five.ends # A!None => five.ends - Length \in openings
    /\ \A i \in DOMAIN rows : rows[i].five.ends # A!None => rows[i].five.ends - Length \in openings

LEMMA OpeningsStart == A!Init => OpeningsInv
<1> SUFFICES ASSUME A!Init PROVE OpeningsInv
    OBVIOUS
<1>1. rows = <<>> /\ openings = {} /\ five = [pct |-> 0, ends |-> A!None]
    BY DEF A!Init
<1>2. DOMAIN rows = {} /\ five.ends = A!None
    BY <1>1
<1> QED BY <1>1, <1>2 DEF OpeningsInv

LEMMA OpeningsHold == AccountInv /\ OpeningsInv /\ [A!Next]_A!vars => OpeningsInv'
<1> SUFFICES ASSUME AccountInv, OpeningsInv, [A!Next]_A!vars PROVE OpeningsInv'
    OBVIOUS
<1> USE AccountNumbers
<1>0. now \in Nat /\ five.ends \in Int
    BY StandsAre DEF AccountInv
<1>1. CASE UNCHANGED A!vars
    BY <1>1 DEF A!vars, OpeningsInv
<1>2. CASE A!Raise
    BY <1>2 DEF A!Raise, OpeningsInv
<1>3. CASE A!Message
    <2>1. /\ UNCHANGED <<now, rows>>
          /\ five' = IF five.ends = A!None THEN [pct |-> 1, ends |-> now + Length]
                     ELSE [five EXCEPT !.pct = @ + 1]
          /\ openings' = IF five.ends = A!None THEN openings \cup {now} ELSE openings
        BY <1>3 DEF A!Message
    <2>2. CASE five.ends = A!None
        <3>1. five'.ends = now + Length /\ openings' = openings \cup {now}
            BY <2>1, <2>2
        <3>2. ASSUME NEW o \in openings'
              PROVE  /\ o \in Nat /\ o <= now
                     /\ now < o + Length => five'.ends = o + Length
                     /\ \A i \in DOMAIN rows : o < rows[i].ts /\ rows[i].ts < o + Length => rows[i].five.ends = o + Length
            <4>1. CASE o \in openings
                <5>1. o \in Nat /\ o <= now /\ (now < o + Length => five.ends = o + Length)
                      /\ \A i \in DOMAIN rows : o < rows[i].ts /\ rows[i].ts < o + Length => rows[i].five.ends = o + Length
                    BY <4>1 DEF OpeningsInv
                <5>2. ~(now < o + Length)
                    BY <2>2, <5>1
                <5> QED BY <5>1, <5>2
            <4>2. CASE o = now
                <5>1. \A i \in DOMAIN rows : rows[i].ts <= now /\ rows[i].ts \in Nat
                    BY RowIs DEF AccountInv, SessionsInv
                <5> QED BY <1>0, <3>1, <4>2, <5>1
            <4> QED BY <3>1, <4>1, <4>2
        <3>3. five'.ends - Length \in openings'
            BY <1>0, <3>1
        <3>4. \A i \in DOMAIN rows : rows[i].five.ends # A!None => rows[i].five.ends - Length \in openings'
            BY <3>1 DEF OpeningsInv
        <3> QED BY <2>1, <3>2, <3>3, <3>4 DEF OpeningsInv
    <2>3. CASE five.ends # A!None
        <3>1. five \in FiveSet
            BY StandsAre DEF AccountInv
        <3>2. five'.ends = five.ends /\ openings' = openings
            BY <2>1, <2>3, <3>1 DEF FiveSet
        <3> QED BY <2>1, <3>2 DEF OpeningsInv
    <2> QED BY <2>2, <2>3
<1>4. CASE A!Poll
    <2> DEFINE n == Len(rows)
               row == [ts |-> now, five |-> five, week |-> week, used |-> used]
    <2>1. rows' = Append(rows, row) /\ UNCHANGED <<now, five, openings>>
        BY <1>4 DEF A!Poll
    <2>2. rows \in Seq(RowSet) /\ n \in Nat /\ DOMAIN rows = 1..n /\ row \in RowSet
        BY StandsAre DEF AccountInv, AccountTyped, RowSet
    <2>3. DOMAIN rows' = 1..n + 1 /\ rows'[n + 1] = row /\ \A i \in DOMAIN rows : rows'[i] = rows[i]
        BY <2>1, <2>2
    <2>4. \A i \in DOMAIN rows' : i = n + 1 \/ i \in DOMAIN rows
        BY <2>2, <2>3
    <2>5. row.ts = now /\ row.five = five
        OBVIOUS
    <2> HIDE DEF row, n
    <2>6. ASSUME NEW o \in openings, NEW i \in DOMAIN rows', o < rows'[i].ts, rows'[i].ts < o + Length
          PROVE  rows'[i].five.ends = o + Length
        <3>1. CASE i = n + 1
            BY <2>3, <2>5, <2>6, <3>1 DEF OpeningsInv
        <3>2. CASE i \in DOMAIN rows
            BY <2>3, <2>6, <3>2 DEF OpeningsInv
        <3> QED BY <2>4, <3>1, <3>2
    <2>7. ASSUME NEW i \in DOMAIN rows', rows'[i].five.ends # A!None PROVE rows'[i].five.ends - Length \in openings
        <3>1. CASE i = n + 1
            BY <2>3, <2>5, <2>7, <3>1 DEF OpeningsInv
        <3>2. CASE i \in DOMAIN rows
            BY <2>3, <2>7, <3>2 DEF OpeningsInv
        <3> QED BY <2>4, <3>1, <3>2
    <2>8. \A o \in openings : o \in Nat /\ o <= now /\ (now < o + Length => five.ends = o + Length)
        BY DEF OpeningsInv
    <2>9. five.ends # A!None => five.ends - Length \in openings
        BY DEF OpeningsInv
    <2> QED BY <2>1, <2>6, <2>7, <2>8, <2>9 DEF OpeningsInv
<1>5. CASE A!Tick
    <2>1. /\ now' = now + 1 /\ UNCHANGED <<rows, openings>>
          /\ five' = IF five.ends = now + 1 THEN [pct |-> 0, ends |-> A!None] ELSE five
        BY <1>5 DEF A!Tick
    <2>2. five'.ends = IF five.ends = now + 1 THEN A!None ELSE five.ends
        BY <2>1
    <2>3. ASSUME NEW o \in openings
          PROVE  o \in Nat /\ o <= now' /\ (now' < o + Length => five'.ends = o + Length)
        <3>1. o \in Nat /\ o <= now /\ (now < o + Length => five.ends = o + Length)
            BY DEF OpeningsInv
        <3> QED BY <1>0, <2>1, <2>2, <3>1
    <2>4. five'.ends # A!None => five'.ends - Length \in openings
        BY <2>2 DEF OpeningsInv
    <2> QED BY <2>1, <2>3, <2>4 DEF OpeningsInv
<1> QED BY <1>1, <1>2, <1>3, <1>4, <1>5 DEF A!Next

-----------------------------------------------------------------------------
WindowsNow == A!Windows(FiveSeries, WeekSeries, now)
Spans == A!IdleSpans(A!Known, now)

(* A window is of a session that opened, and a session with a reading in it *)
(* has a window.                                                           *)
LEMMA WindowsAre ==
    ASSUME AccountInv, OpeningsInv
    PROVE  /\ \A w \in WindowsNow :
                 /\ w.started \in openings /\ w.started \in Nat /\ w.ends \in Nat
                 /\ w.ends = w.started + Length
           /\ \A v, w \in WindowsNow : v.ends = w.ends => v = w
           /\ \A i \in DOMAIN rows : rows[i].five.ends # A!None =>
                 \E w \in WindowsNow : w.ends = rows[i].five.ends
<1> USE AccountNumbers
<1>1. ASSUME NEW w \in WindowsNow
      PROVE  /\ w.started \in openings /\ w.started \in Nat /\ w.ends \in Nat
             /\ w.ends = w.started + Length
             /\ w = A!WindowOf(FiveSeries, WeekSeries, now, w.ends)
    <2>1. PICK i \in DOMAIN rows : \E j \in DOMAIN rows : OfRows(w, i, j)
        BY WindowIs DEF WindowsNow
    <2>2. PICK j \in DOMAIN rows : OfRows(w, i, j)
        BY <2>1
    <2>3. i \in i..j
        BY <2>2, SeriesIs DEF OfRows, AccountInv
    <2>4. rows[i].five.ends = w.ends /\ w.ends # A!None /\ w.started = w.ends - Length
        BY <2>2, <2>3 DEF OfRows
    <2>5. w.started \in openings
        BY <2>4 DEF OpeningsInv
    <2>6. w.started \in Nat /\ w.ends \in Int
        BY <2>4, <2>5, RowIs DEF OpeningsInv, AccountInv
    <2>7. w = A!WindowOf(FiveSeries, WeekSeries, now, w.ends)
        BY <2>2 DEF OfRows
    <2> QED BY <2>4, <2>5, <2>6, <2>7
<1>2. \A v, w \in WindowsNow : v.ends = w.ends => v = w
    BY <1>1
<1>3. ASSUME NEW i \in DOMAIN rows, rows[i].five.ends # A!None
      PROVE  \E w \in WindowsNow : w.ends = rows[i].five.ends
    <2> DEFINE e == rows[i].five.ends
    <2>1. i \in DOMAIN FiveSeries /\ FiveSeries[i].ts = rows[i].ts /\ FiveSeries[i].ends = e
        BY SeriesIs DEF AccountInv
    <2>2. rows[i].ts < e
        BY <1>3 DEF AccountInv, AccountTyped, FiveOK
    <2>3. rows[i].ts \in Nat /\ e \in Int
        BY RowIs DEF AccountInv
    <2>4. i \in A!Samples(FiveSeries, e)
        BY <2>1, <2>2, <2>3 DEF A!Samples
    <2>5. e \in A!Expiries(FiveSeries)
        BY <1>3, <2>1, <2>4 DEF A!Expiries
    <2>6. A!WindowOf(FiveSeries, WeekSeries, now, e) \in WindowsNow
        BY <2>5 DEF A!Windows, WindowsNow
    <2>7. A!WindowOf(FiveSeries, WeekSeries, now, e).ends = e
        BY DEF A!WindowOf
    <2> QED BY <2>6, <2>7
<1> HIDE DEF WindowsNow
<1> QED BY <1>1, <1>2, <1>3

(* An idle span is from a window's end to where the next one begins. *)
LEMMA SpansAre ==
    ASSUME AccountInv, OpeningsInv
    PROVE  /\ \A s \in Spans : s[1] \in Nat /\ s[2] \in Nat /\ s[1] < s[2]
           /\ \A s \in Spans : \A v \in WindowsNow : v.ends <= s[1] \/ s[2] <= v.started
           /\ \A r, s \in Spans : \A t : t \in r[1]..r[2] - 1 /\ t \in s[1]..s[2] - 1 => r = s
<1> USE AccountNumbers
<1> DEFINE next(w) == {v \in WindowsNow : v.started > w.started}
           until(w) == IF next(w) # {} THEN A!Min({v.started : v \in next(w)})
                       ELSE IF w.current THEN w.ends ELSE now
<1>1. \A s : s \in Spans <=> \E w \in WindowsNow : until(w) > w.ends /\ s = <<w.ends, until(w)>>
    <2>1. A!Known = WindowsNow
        BY DEF A!Known, WindowsNow, FiveSeries, WeekSeries
    <2> QED BY <2>1 DEF Spans, A!IdleSpans
<1>2. ASSUME NEW w \in WindowsNow
      PROVE  until(w) \in Nat /\ \A v \in WindowsNow : v.started > w.started => until(w) <= v.started
    <2>1. CASE next(w) = {}
        <3>1. until(w) \in {w.ends, now}
            BY <2>1
        <3>2. now \in Nat /\ w.ends \in Nat
            BY WindowsAre, StandsAre DEF AccountInv
        <3>3. ~\E v \in WindowsNow : v.started > w.started
            BY <2>1
        <3> HIDE DEF until, next
        <3> QED BY <3>1, <3>2, <3>3
    <2>2. CASE next(w) # {}
        <3> DEFINE N == {v.started : v \in next(w)}
        <3>1. until(w) = A!Min(N)
            BY <2>2
        <3>2. N \in SUBSET Nat /\ N # {}
            <4>1. \A v \in next(w) : v.started \in Nat
                BY WindowsAre
            <4> HIDE DEF next
            <4> QED BY <2>2, <4>1
        <3>3. \A v \in WindowsNow : v.started > w.started => v.started \in N
            OBVIOUS
        <3> HIDE DEF N, until, next
        <3>4. \E x \in N : \A y \in N : x <= y
            BY <3>2, LeastThereIs
        <3>5. A!Min(N) \in N /\ \A y \in N : A!Min(N) <= y
            BY <3>4 DEF A!Min
        <3> QED BY <3>1, <3>2, <3>3, <3>5
    <2> QED BY <2>1, <2>2
<1> HIDE DEF until, next
<1>3. ASSUME NEW s \in Spans
      PROVE  \E w \in WindowsNow : /\ s = <<w.ends, until(w)>> /\ s[1] = w.ends /\ s[2] = until(w)
                                   /\ w.ends < until(w) /\ until(w) \in Nat /\ w.ends \in Nat
    <2>1. PICK w \in WindowsNow : until(w) > w.ends /\ s = <<w.ends, until(w)>>
        BY <1>1
    <2>2. until(w) \in Nat /\ w.ends \in Nat
        BY <1>2, WindowsAre
    <2>3. s[1] = w.ends /\ s[2] = until(w)
        BY <2>1
    <2> HIDE DEF WindowsNow
    <2> QED BY <2>1, <2>2, <2>3
<1>4. \A s \in Spans : s[1] \in Nat /\ s[2] \in Nat /\ s[1] < s[2]
    BY <1>3
<1>5. ASSUME NEW s \in Spans, NEW v \in WindowsNow PROVE v.ends <= s[1] \/ s[2] <= v.started
    <2>1. PICK w \in WindowsNow : s[1] = w.ends /\ s[2] = until(w)
        BY <1>3
    <2>2. /\ v.started \in Nat /\ v.ends = v.started + Length
          /\ w.started \in Nat /\ w.ends = w.started + Length
        BY WindowsAre
    <2>3. v.started > w.started => until(w) <= v.started
        BY <1>2
    <2> QED BY <2>1, <2>2, <2>3
<1>6. ASSUME NEW r \in Spans, NEW s \in Spans, NEW t, t \in r[1]..r[2] - 1, t \in s[1]..s[2] - 1 PROVE r = s
    <2>1. PICK v \in WindowsNow : r = <<v.ends, until(v)>> /\ r[1] = v.ends /\ r[2] = until(v)
        BY <1>3
    <2>2. PICK w \in WindowsNow : s = <<w.ends, until(w)>> /\ s[1] = w.ends /\ s[2] = until(w)
        BY <1>3
    <2>3. r[1] \in Nat /\ r[2] \in Nat /\ s[1] \in Nat /\ s[2] \in Nat
        BY <1>4
    <2>4. v.ends <= s[1] \/ s[2] <= v.started
        BY <1>5
    <2>5. w.ends <= r[1] \/ r[2] <= w.started
        BY <1>5
    <2>6. /\ v.started \in Nat /\ v.ends = v.started + Length
          /\ w.started \in Nat /\ w.ends = w.started + Length
        BY WindowsAre
    <2>7. v.ends = w.ends
        BY <1>6, <2>1, <2>2, <2>3, <2>4, <2>5, <2>6
    <2>8. v = w
        BY <2>7, WindowsAre
    <2> QED BY <2>1, <2>2, <2>8
<1> QED BY <1>4, <1>5, <1>6

(* A session that has no reading leaves a silence that the chart shows. *)
LEMMA SilenceIsAGap ==
    ASSUME AccountInv, OpeningsInv, Threshold < Length, NEW t \in Nat, NEW o \in openings, o <= t, t < o + Length,
           \A i \in DOMAIN rows : rows[i].five.ends # o + Length,
           rows # <<>>, t < A!Last(rows).ts
    PROVE  \E gap \in A!Gaps(A!Range(A!Stamps), 0, now, 0) : gap[1] <= t /\ t < gap[2]
<1> USE AccountNumbers
<1> DEFINE stamps == A!Range(A!Stamps)
           marks == {u \in stamps : 0 <= u /\ u <= now} \cup {0, now}
<1>1. now \in Nat /\ o \in Nat /\ DOMAIN rows = 1..Len(rows) /\ Len(rows) \in Nat
    BY StandsAre, SeriesIs DEF AccountInv, OpeningsInv
<1>2. \A u : u \in stamps <=> \E i \in DOMAIN rows : u = rows[i].ts
    BY DEF A!Range, A!Stamps
<1>3. \A i \in DOMAIN rows : rows[i].ts \in Nat /\ rows[i].ts <= now
    BY RowIs DEF AccountInv, SessionsInv
<1>4. PICK last \in DOMAIN rows : A!Last(rows) = rows[last]
    <2>1. Len(rows) \in DOMAIN rows
        BY <1>1 DEF AccountInv, AccountTyped
    <2> QED BY <2>1 DEF A!Last
<1>5. \A i \in DOMAIN rows : rows[i].ts <= o \/ o + Length <= rows[i].ts
    BY <1>1, <1>3 DEF OpeningsInv
<1>6. t < rows[last].ts /\ o + Length <= rows[last].ts /\ rows[last].ts <= now
    BY <1>1, <1>3, <1>4, <1>5
<1>7. A!Gaps(stamps, 0, now, 0) = {g \in marks \X marks : /\ g[2] - g[1] > Threshold
                                                          /\ ~\E u \in marks : g[1] < u /\ u < g[2]}
    <2>1. A!Max({A!Max({0, 0})}) = 0 /\ A!Max({0, 0}) = 0
        <3>1. {0, 0} = {0}
            OBVIOUS
        <3>2. A!Max({0}) = 0
            BY DEF A!Max
        <3> QED BY <3>1, <3>2
    <2> DEFINE seen == {A!Max({0, 0})} \cup {u \in stamps : 0 <= u /\ u <= now}
    <2>2. A!Gaps(stamps, 0, now, 0) =
              {g \in (IF seen = {} THEN {} ELSE seen \cup {now}) \X (IF seen = {} THEN {} ELSE seen \cup {now}) :
                  /\ g[2] - g[1] > Threshold
                  /\ ~\E u \in (IF seen = {} THEN {} ELSE seen \cup {now}) : g[1] < u /\ u < g[2]}
        BY DEF A!Gaps
    <2>3. seen # {} /\ seen \cup {now} = marks
        BY <2>1
    <2> HIDE DEF seen, marks
    <2> QED BY <2>2, <2>3
<1>8. \A u \in marks : u \in Nat /\ u <= now /\ (u <= o \/ o + Length <= u)
    <2>1. \A u \in stamps : u \in Nat /\ u <= now /\ (u <= o \/ o + Length <= u)
        BY <1>2, <1>3, <1>5
    <2>2. 0 <= o /\ o + Length <= now
        BY <1>1, <1>3, <1>6
    <2> HIDE DEF stamps
    <2> QED BY <1>1, <2>1, <2>2
<1>9. 0 \in marks /\ rows[last].ts \in marks
    BY <1>2, <1>3
<1> HIDE DEF marks, stamps
<1> DEFINE Before == {u \in marks : u <= o}
           After == {u \in marks : o + Length <= u}
<1>10. PICK a \in Before : \A u \in Before : u <= a
    <2>1. Before \in SUBSET (0..now) /\ Before # {}
        BY <1>1, <1>8, <1>9
    <2> HIDE DEF Before
    <2> QED BY <1>1, <2>1, LargestThereIs
<1>11. PICK z \in After : \A u \in After : z <= u
    <2>1. After \in SUBSET Nat /\ After # {}
        BY <1>6, <1>8, <1>9
    <2> HIDE DEF After
    <2> QED BY <2>1, LeastThereIs
<1>12. a \in marks /\ z \in marks /\ a \in Nat /\ z \in Nat /\ a <= o /\ o + Length <= z
    BY <1>8
<1>13. z - a > Threshold
    BY <1>1, <1>12
<1>14. ~\E u \in marks : a < u /\ u < z
    <2> SUFFICES ASSUME NEW u \in marks, a < u, u < z PROVE FALSE
        OBVIOUS
    <2>1. u \in Before \/ u \in After
        BY <1>8
    <2>2. u \in Nat
        BY <1>8
    <2> HIDE DEF Before, After
    <2> QED BY <1>10, <1>11, <1>12, <2>1, <2>2
<1>15. <<a, z>> \in A!Gaps(stamps, 0, now, 0)
    BY <1>7, <1>12, <1>13, <1>14
<1>16. <<a, z>>[1] <= t /\ t < <<a, z>>[2]
    BY <1>1, <1>12
<1> QED BY <1>15, <1>16 DEF stamps

(* The idle moments that are not a silence are of no session. *)
LEMMA IdleIsIdle ==
    ASSUME AccountInv, OpeningsInv, Threshold < Length, NEW s \in Spans, NEW t \in s[1]..s[2] - 1,
           NEW o \in openings, o <= t, t < o + Length, t < A!Last(rows).ts
    PROVE  \E gap \in A!Gaps(A!Range(A!Stamps), 0, now, 0) : gap[1] <= t /\ t < gap[2]
<1> USE AccountNumbers
<1>1. o \in Nat /\ s[1] \in Nat /\ s[2] \in Nat /\ t \in Nat
    <2>1. s[1] \in Nat /\ s[2] \in Nat
        BY SpansAre
    <2> QED BY <2>1 DEF OpeningsInv
<1>2. ASSUME NEW i \in DOMAIN rows, rows[i].five.ends = o + Length PROVE FALSE
    <2>1. PICK w \in WindowsNow : w.ends = rows[i].five.ends
        BY <1>1, <1>2, WindowsAre
    <2>2. w.ends = o + Length /\ w.started = o
        BY <1>1, <1>2, <2>1, WindowsAre
    <2>3. w.ends <= s[1] \/ s[2] <= w.started
        BY SpansAre
    <2> QED BY <1>1, <2>2, <2>3
<1>3. rows # <<>>
    <2>1. PICK w \in WindowsNow : TRUE
        BY DEF Spans, A!IdleSpans, A!Known, WindowsNow, FiveSeries, WeekSeries
    <2>2. \E i \in DOMAIN rows : TRUE
        BY <2>1, WindowIs DEF WindowsNow
    <2> QED BY <2>2
<1> QED BY <1>1, <1>2, <1>3, SilenceIsAGap

-----------------------------------------------------------------------------
Moments(spans) == UNION {s[1]..s[2] - 1 : s \in spans}

(* What of a span is in a range. *)
LEMMA ClippedIs ==
    ASSUME NEW a \in Nat, NEW b \in Nat, NEW from \in Nat, NEW to \in Nat
    PROVE  /\ A!Max({a, from}) \in Nat /\ A!Min({b, to}) \in Nat
           /\ \A t \in Int : A!Max({a, from}) <= t /\ t < A!Min({b, to}) <=> a <= t /\ t < b /\ from <= t /\ t < to
<1>1. A!Max({a, from}) \in {a, from} /\ a <= A!Max({a, from}) /\ from <= A!Max({a, from})
    BY AccountMin2
<1>2. A!Min({b, to}) \in {b, to} /\ A!Min({b, to}) <= b /\ A!Min({b, to}) <= to
    BY AccountMin2
<1> DEFINE hi == A!Max({a, from})
           lo == A!Min({b, to})
<1> HIDE DEF hi, lo
<1>3. hi \in {a, from} /\ a <= hi /\ from <= hi /\ lo \in {b, to} /\ lo <= b /\ lo <= to
    BY <1>1, <1>2 DEF hi, lo
<1>4. hi \in Nat /\ lo \in Nat /\ \A t \in Int : hi <= t /\ t < lo <=> a <= t /\ t < b /\ from <= t /\ t < to
    BY <1>3
<1> QED BY <1>4 DEF hi, lo

(* The chart of a range shows the idle moments in it, each once. *)
LEMMA MarksAre ==
    ASSUME AccountInv, OpeningsInv, NEW start \in Nat, NEW end \in Nat
    PROVE  LET marks == A!MarkSessions(A!Known, start, end, now)
           IN  /\ Moments(marks.idle) = Moments(Spans) \cap start..end - 1
               /\ marks.minutes = A!Cardinality(Moments(Spans) \cap start..end - 1)
               /\ marks.session \subseteq openings
<1> DEFINE clip(s) == <<A!Max({s[1], start}), A!Min({s[2], end})>>
           idle == {c \in {clip(s) : s \in Spans} : c[2] > c[1]}
           marks == A!MarkSessions(A!Known, start, end, now)
           all == Moments(Spans) \cap start..end - 1
           part == [c \in idle |-> c[1]..c[2] - 1]
           f == [c \in idle |-> c[2] - c[1]]
<1>1. /\ marks.session = {w.started : w \in A!Known} \cap start + 1..end - 1
      /\ marks.idle = idle
      /\ marks.minutes = A!Total(f, idle)
    BY DEF A!MarkSessions, Spans
<1>2. \A t : t \in Moments(Spans) <=> \E s \in Spans : t \in s[1]..s[2] - 1
    BY DEF Moments
<1>3. \A s \in Spans : /\ s[1] \in Nat /\ s[2] \in Nat
                       /\ clip(s)[1] \in Nat /\ clip(s)[2] \in Nat
                       /\ \A t \in Int : clip(s)[1] <= t /\ t < clip(s)[2]
                                             <=> s[1] <= t /\ t < s[2] /\ start <= t /\ t < end
    <2> SUFFICES ASSUME NEW s \in Spans
                 PROVE /\ s[1] \in Nat /\ s[2] \in Nat
                       /\ clip(s)[1] \in Nat /\ clip(s)[2] \in Nat
                       /\ \A t \in Int : clip(s)[1] <= t /\ t < clip(s)[2]
                                             <=> s[1] <= t /\ t < s[2] /\ start <= t /\ t < end
        OBVIOUS
    <2>1. s[1] \in Nat /\ s[2] \in Nat
        BY SpansAre
    <2>2. clip(s)[1] = A!Max({s[1], start}) /\ clip(s)[2] = A!Min({s[2], end})
        OBVIOUS
    <2>3. /\ A!Max({s[1], start}) \in Nat /\ A!Min({s[2], end}) \in Nat
          /\ \A t \in Int : A!Max({s[1], start}) <= t /\ t < A!Min({s[2], end})
                                <=> s[1] <= t /\ t < s[2] /\ start <= t /\ t < end
        <3> DEFINE a == s[1]
                   b == s[2]
        <3>1. a \in Nat /\ b \in Nat
            BY <2>1
        <3> HIDE DEF a, b
        <3>2. /\ A!Max({a, start}) \in Nat /\ A!Min({b, end}) \in Nat
              /\ \A t \in Int : A!Max({a, start}) <= t /\ t < A!Min({b, end})
                                    <=> a <= t /\ t < b /\ start <= t /\ t < end
            BY <3>1, ClippedIs
        <3> QED BY <3>2 DEF a, b
    <2> HIDE DEF clip
    <2> QED BY <2>1, <2>2, <2>3
<1>4. \A c : c \in idle <=> c[2] > c[1] /\ \E s \in Spans : c = clip(s)
    OBVIOUS
<1> HIDE DEF clip, idle
<1>5. ASSUME NEW c \in idle
      PROVE  c[1] \in Nat /\ c[2] \in Nat /\ c[1] < c[2]
    BY <1>3, <1>4
<1>6. ASSUME NEW t PROVE t \in all <=> \E c \in idle : t \in c[1]..c[2] - 1
    <2>1. ASSUME t \in all PROVE \E c \in idle : t \in c[1]..c[2] - 1
        <3>1. PICK s \in Spans : t \in s[1]..s[2] - 1
            BY <1>2, <2>1
        <3>2. t \in Int /\ s[1] \in Nat /\ s[2] \in Nat /\ s[1] <= t /\ t < s[2] /\ start <= t /\ t < end
            BY <1>3, <2>1, <3>1
        <3>3. clip(s)[1] <= t /\ t < clip(s)[2] /\ clip(s)[1] \in Nat /\ clip(s)[2] \in Nat
            BY <1>3, <3>2
        <3>4. clip(s) \in idle
            BY <1>4, <3>2, <3>3
        <3> QED BY <3>2, <3>3, <3>4
    <2>2. ASSUME NEW c \in idle, t \in c[1]..c[2] - 1 PROVE t \in all
        <3>1. PICK s \in Spans : c = clip(s)
            BY <1>4
        <3>2. t \in Int /\ clip(s)[1] <= t /\ t < clip(s)[2]
            BY <1>5, <2>2, <3>1
        <3>3. s[1] <= t /\ t < s[2] /\ start <= t /\ t < end /\ s[1] \in Nat /\ s[2] \in Nat
            BY <1>3, <3>2
        <3>4. t \in s[1]..s[2] - 1 /\ t \in start..end - 1
            BY <3>2, <3>3
        <3> QED BY <1>2, <3>4
    <2> QED BY <2>1, <2>2
<1>7. Moments(marks.idle) = all
    <2>1. Moments(idle) = all
        <3>1. \A t : t \in Moments(idle) <=> \E c \in idle : t \in c[1]..c[2] - 1
            BY DEF Moments
        <3> HIDE DEF all
        <3> QED BY <1>6, <3>1
    <2> HIDE DEF marks
    <2> QED BY <1>1, <2>1
<1>8. ASSUME NEW c \in idle, NEW d \in idle, NEW t, t \in c[1]..c[2] - 1, t \in d[1]..d[2] - 1 PROVE c = d
    <2>1. PICK r \in Spans : c = clip(r)
        BY <1>4
    <2>2. PICK s \in Spans : d = clip(s)
        BY <1>4
    <2>3. t \in Int /\ clip(r)[1] <= t /\ t < clip(r)[2] /\ clip(s)[1] <= t /\ t < clip(s)[2]
        BY <1>5, <1>8, <2>1, <2>2
    <2>4. r[1] <= t /\ t < r[2] /\ s[1] <= t /\ t < s[2]
        BY <1>3, <2>3
    <2>5. t \in r[1]..r[2] - 1 /\ t \in s[1]..s[2] - 1
        BY <1>3, <2>3, <2>4
    <2>6. r = s
        BY <2>5, SpansAre
    <2> QED BY <2>1, <2>2, <2>6
<1>9. IsFiniteSet(all)
    <2>1. IsFiniteSet(start..end - 1) /\ all \in SUBSET (start..end - 1)
        BY FS_Interval
    <2> QED BY <2>1, FS_Subset
<1> HIDE DEF all
<1>10. A!Total(f, idle) = Cardinality(all)
    <2>1. \A c \in idle : part[c] = c[1]..c[2] - 1 /\ f[c] = c[2] - c[1]
        OBVIOUS
    <2> HIDE DEF part, f
    <2>2. \A c \in idle : f[c] = Cardinality(part[c])
        BY <1>5, <2>1, SpanCounts
    <2>3. \A t : t \in all <=> \E c \in idle : t \in part[c]
        BY <1>6, <2>1
    <2>4. \A c, d \in idle : \A t \in part[c] : t \in part[d] => c = d
        BY <1>8, <2>1
    <2> QED BY <1>9, <2>2, <2>3, <2>4, CountedInParts
<1>11. marks.minutes = A!Cardinality(all)
    BY <1>1, <1>10, AccountCounts
<1>12. marks.session \subseteq openings
    <2>1. A!Known = WindowsNow
        BY DEF A!Known, WindowsNow, FiveSeries, WeekSeries
    <2>2. \A w \in WindowsNow : w.started \in openings
        BY WindowsAre
    <2> QED BY <1>1, <2>1, <2>2
<1> QED BY <1>7, <1>11, <1>12 DEF all

LEMMA IdleHolds ==
    ASSUME AccountInv, OpeningsInv
    PROVE  A!IdleIsTrue
<1> USE AccountNumbers
<1> DEFINE inGap(t) == \E gap \in A!Gaps(A!Range(A!Stamps), 0, now, 0) : gap[1] <= t /\ t < gap[2]
<1>1. ASSUME Threshold < Length, NEW t \in Moments(Spans)
      PROVE  \/ t >= A!Last(rows).ts
             \/ inGap(t)
             \/ ~\E o \in openings : o <= t /\ t < o + Length
    <2>1. PICK s \in Spans : t \in s[1]..s[2] - 1
        BY DEF Moments
    <2> SUFFICES ASSUME ~(t >= A!Last(rows).ts), NEW o \in openings, o <= t, t < o + Length PROVE inGap(t)
        OBVIOUS
    <2>2. t < A!Last(rows).ts
        <3>1. rows # <<>>
            <4>1. PICK w \in WindowsNow : TRUE
                BY DEF Spans, A!IdleSpans, A!Known, WindowsNow, FiveSeries, WeekSeries
            <4>2. \E i \in DOMAIN rows : TRUE
                BY <4>1, WindowIs DEF WindowsNow
            <4> QED BY <4>2
        <3>2. Len(rows) \in DOMAIN rows
            BY <3>1 DEF AccountInv, AccountTyped
        <3>3. A!Last(rows).ts \in Nat
            BY <3>2, RowIs DEF A!Last, AccountInv
        <3>4. t \in Int
            BY <2>1, SpansAre
        <3> QED BY <3>3, <3>4
    <2> QED BY <1>1, <2>1, <2>2, IdleIsIdle
<1>2. ASSUME NEW start \in 0..now, NEW end \in {now, LastAccountTime}
      PROVE  LET marks == A!MarkSessions(A!Known, start, end, now)
             IN  /\ Moments(marks.idle) = Moments(Spans) \cap start..end - 1
                 /\ marks.minutes = A!Cardinality(Moments(Spans) \cap start..end - 1)
                 /\ marks.session \subseteq openings
    <2>1. start \in Nat /\ end \in Nat
        BY StandsAre DEF AccountInv
    <2> QED BY <2>1, MarksAre
<1> QED BY <1>1, <1>2 DEF A!IdleIsTrue, Moments, Spans

-----------------------------------------------------------------------------
(* A series in order of time. *)
ReadingSet == [ts : Nat, pct : Nat, ends : Int]
InOrder(q) == q \in Seq(ReadingSet) /\ \A i, j \in DOMAIN q : i < j => q[i].ts < q[j].ts

LEMMA SeriesInOrder == AccountInv => InOrder(FiveSeries) /\ InOrder(WeekSeries)
<1> SUFFICES ASSUME AccountInv PROVE InOrder(FiveSeries) /\ InOrder(WeekSeries)
    OBVIOUS
<1>1. \A i \in DOMAIN rows : /\ rows[i].ts \in Nat /\ rows[i].five.pct \in Nat /\ rows[i].five.ends \in Int
                             /\ rows[i].week.pct \in Nat /\ rows[i].week.ends \in Int
    BY RowIs DEF AccountInv
<1>2. DOMAIN rows = 1..Len(rows) /\ Len(rows) \in Nat
    BY SeriesIs DEF AccountInv
<1>3. \A i, j \in DOMAIN rows : i < j => rows[i].ts < rows[j].ts
    BY InTime
<1>4. InOrder(FiveSeries)
    <2>1. FiveSeries = [i \in 1..Len(rows) |-> [ts |-> rows[i].ts, pct |-> rows[i].five.pct, ends |-> rows[i].five.ends]]
        BY <1>2 DEF FiveSeries, A!Series
    <2>2. \A i \in 1..Len(rows) : [ts |-> rows[i].ts, pct |-> rows[i].five.pct, ends |-> rows[i].five.ends] \in ReadingSet
        BY <1>1, <1>2 DEF ReadingSet
    <2>3. FiveSeries \in Seq(ReadingSet)
        BY <1>2, <2>1, <2>2
    <2>4. \A i \in DOMAIN FiveSeries : i \in DOMAIN rows /\ FiveSeries[i].ts = rows[i].ts
        BY SeriesIs DEF AccountInv
    <2> QED BY <1>3, <2>3, <2>4 DEF InOrder
<1>5. InOrder(WeekSeries)
    <2>1. WeekSeries = [i \in 1..Len(rows) |-> [ts |-> rows[i].ts, pct |-> rows[i].week.pct, ends |-> rows[i].week.ends]]
        BY <1>2 DEF WeekSeries, A!Series
    <2>2. \A i \in 1..Len(rows) : [ts |-> rows[i].ts, pct |-> rows[i].week.pct, ends |-> rows[i].week.ends] \in ReadingSet
        BY <1>1, <1>2 DEF ReadingSet
    <2>3. WeekSeries \in Seq(ReadingSet)
        BY <1>2, <2>1, <2>2
    <2>4. \A i \in DOMAIN WeekSeries : i \in DOMAIN rows /\ WeekSeries[i].ts = rows[i].ts
        BY SeriesIs DEF AccountInv
    <2> QED BY <1>3, <2>3, <2>4 DEF InOrder
<1> QED BY <1>4, <1>5

LEMMA ReadingIs ==
    ASSUME NEW q, InOrder(q), NEW i \in DOMAIN q
    PROVE  /\ q[i] \in ReadingSet /\ q[i].ts \in Nat /\ q[i].pct \in Nat /\ q[i].ends \in Int
           /\ DOMAIN q = 1..Len(q) /\ Len(q) \in Nat
<1>1. q \in Seq(ReadingSet)
    BY DEF InOrder
<1>2. q[i] \in ReadingSet /\ DOMAIN q = 1..Len(q) /\ Len(q) \in Nat
    BY <1>1
<1> QED BY <1>2 DEF ReadingSet

LEMMA OrderIs ==
    ASSUME NEW q, InOrder(q), NEW i \in DOMAIN q, NEW j \in DOMAIN q
    PROVE  (i < j <=> q[i].ts < q[j].ts) /\ (i <= j <=> q[i].ts <= q[j].ts) /\ (i = j <=> q[i].ts = q[j].ts)
<1>1. /\ i \in Int /\ j \in Int /\ q[i].ts \in Nat /\ q[j].ts \in Nat
      /\ i < j => q[i].ts < q[j].ts
      /\ j < i => q[j].ts < q[i].ts
    BY ReadingIs DEF InOrder
<1> QED BY <1>1

(* A set of places has a first and a last. *)
LEMMA PlaceEnds ==
    ASSUME NEW n \in Nat, NEW N \in SUBSET (1..n), N # {}
    PROVE  /\ A!Min(N) \in N /\ A!Max(N) \in N
           /\ \A k \in N : A!Min(N) <= k /\ k <= A!Max(N)
<1>1. N \in SUBSET (0..n) /\ N \in SUBSET Nat
    OBVIOUS
<1>2. PICK b \in N : \A k \in N : k <= b
    BY <1>1, LargestThereIs
<1> QED BY <1>1, <1>2, AccountEnds

(* The part of a series from one moment to another. *)
Spanning(q, from, to, a, b) ==
    /\ a \in DOMAIN q /\ b \in DOMAIN q /\ a <= b
    /\ \A k \in DOMAIN q : from <= q[k].ts /\ q[k].ts <= to <=> a <= k /\ k <= b

LEMMA WithinIs ==
    ASSUME NEW q, InOrder(q), NEW from \in Int, NEW to \in Int
    PROVE  \/ /\ A!Within(q, from, to) = <<>>
              /\ \A k \in DOMAIN q : ~(from <= q[k].ts /\ q[k].ts <= to)
           \/ \E a, b \in DOMAIN q : Spanning(q, from, to, a, b) /\ A!Within(q, from, to) = SubSeq(q, a, b)
<1> DEFINE inside == {i \in DOMAIN q : from <= q[i].ts /\ q[i].ts <= to}
           a == A!Min(inside)
           b == A!Max(inside)
<1>1. A!Within(q, from, to) = IF inside = {} THEN <<>> ELSE SubSeq(q, a, b)
    BY DEF A!Within
<1>2. CASE inside = {}
    BY <1>1, <1>2
<1>3. CASE inside # {}
    <2>1. DOMAIN q = 1..Len(q) /\ Len(q) \in Nat
        BY DEF InOrder
    <2>2. inside \in SUBSET (1..Len(q))
        BY <2>1
    <2>3. a \in inside /\ b \in inside /\ \A k \in inside : a <= k /\ k <= b
        <3> HIDE DEF inside
        <3> QED BY <1>3, <2>1, <2>2, PlaceEnds
    <2>4. a \in DOMAIN q /\ b \in DOMAIN q /\ from <= q[a].ts /\ q[b].ts <= to
        BY <2>3
    <2>5. A!Within(q, from, to) = SubSeq(q, a, b)
        BY <1>1, <1>3
    <2>6. \A k \in DOMAIN q : k \in inside <=> from <= q[k].ts /\ q[k].ts <= to
        OBVIOUS
    <2> HIDE DEF inside, a, b
    <2>7. ASSUME NEW k \in DOMAIN q, a <= k, k <= b PROVE k \in inside
        <3>1. q[a].ts <= q[k].ts /\ q[k].ts <= q[b].ts
            BY <2>4, <2>7, OrderIs
        <3>2. q[a].ts \in Nat /\ q[k].ts \in Nat /\ q[b].ts \in Nat
            BY <2>4, ReadingIs
        <3>3. from <= q[k].ts /\ q[k].ts <= to
            BY <2>4, <3>1, <3>2
        <3> QED BY <2>6, <3>3
    <2>8. a <= b
        BY <2>3
    <2>9. Spanning(q, from, to, a, b)
        BY <2>3, <2>4, <2>6, <2>7, <2>8 DEF Spanning
    <2> QED BY <2>4, <2>5, <2>9
<1> QED BY <1>2, <1>3

LEMMA PartIs ==
    ASSUME NEW q, InOrder(q), NEW a \in DOMAIN q, NEW b \in DOMAIN q, a <= b
    PROVE  LET s == SubSeq(q, a, b)
           IN  /\ InOrder(s) /\ Len(s) = b - a + 1 /\ DOMAIN s = 1..b - a + 1
               /\ \A k \in 1..b - a + 1 : s[k] = q[a + k - 1] /\ a + k - 1 \in DOMAIN q
<1> DEFINE s == SubSeq(q, a, b)
<1>1. q \in Seq(ReadingSet) /\ DOMAIN q = 1..Len(q) /\ Len(q) \in Nat
    BY DEF InOrder
<1>2. s \in Seq(ReadingSet) /\ Len(s) = b - a + 1 /\ DOMAIN s = 1..b - a + 1
    BY <1>1
<1>3. \A k \in 1..b - a + 1 : s[k] = q[a + k - 1] /\ a + k - 1 \in DOMAIN q
    BY <1>1
<1> HIDE DEF s
<1>4. ASSUME NEW i \in DOMAIN s, NEW j \in DOMAIN s, i < j PROVE s[i].ts < s[j].ts
    <2>1. s[i] = q[a + i - 1] /\ s[j] = q[a + j - 1] /\ a + i - 1 \in DOMAIN q /\ a + j - 1 \in DOMAIN q
        BY <1>2, <1>3
    <2>2. a + i - 1 < a + j - 1
        BY <1>1, <1>2, <1>4
    <2> QED BY <2>1, <2>2, OrderIs
<1>5. InOrder(s)
    BY <1>2, <1>4 DEF InOrder
<1> QED BY <1>2, <1>3, <1>5 DEF s

LEMMA NothingInOrder == InOrder(<<>>)
BY DEF InOrder

-----------------------------------------------------------------------------
(* Hours. *)
LEMMA HourNumbers ==
    /\ Hour \in Nat \ {0} /\ CellHour \in Nat \ {0} /\ Attribute \in Nat \ {0}
    /\ Offset \in Int /\ Scale \in Nat \ {0}
    /\ Length % Hour = 0
    /\ \A d \in 1..Attribute : Scale % d = 0
<1>1. A!AccountAssumption
    BY EstimatesAssumption
<1> QED BY <1>1 DEF A!AccountAssumption

LEMMA QuotientIs ==
    ASSUME NEW x \in Int, NEW n \in Nat \ {0}, NEW k \in Int, n * k <= x, x < n * k + n
    PROVE  x \div n = k
<1>1. x \div n \in Int /\ n * (x \div n) <= x /\ x < n * (x \div n) + n
    BY DividedIs
<1> DEFINE j == x \div n
<1>2. j \in Int /\ n * j <= x /\ x < n * j + n
    BY <1>1
<1> HIDE DEF j
<1>3. n * j \in Int /\ n * k \in Int /\ n * (j + 1) = n * j + n /\ n * (k + 1) = n * k + n
    BY <1>2
<1>4. n * j < n * (k + 1) /\ n * k < n * (j + 1)
    BY <1>2, <1>3
<1>5. j < k + 1
    BY <1>2, <1>4, TimesStrict
<1>6. k < j + 1
    BY <1>2, <1>4, TimesStrict
<1>7. j = k
    BY <1>2, <1>5, <1>6
<1> QED BY <1>7 DEF j

LEMMA CellIs ==
    ASSUME NEW t \in Int
    PROVE  /\ A!Cell(t) \in Int /\ CellHour * A!Cell(t) \in Int
           /\ CellHour * A!Cell(t) <= t + Offset /\ t + Offset < CellHour * A!Cell(t) + CellHour
           /\ A!Edge(t) = CellHour * A!Cell(t) + CellHour - Offset
           /\ \A k \in Int : CellHour * k <= t + Offset /\ t + Offset < CellHour * k + CellHour => A!Cell(t) = k
<1> USE HourNumbers
<1>1. t + Offset \in Int
    OBVIOUS
<1>2. A!Cell(t) \in Int /\ CellHour * A!Cell(t) <= t + Offset /\ t + Offset < CellHour * A!Cell(t) + CellHour
    BY <1>1, DividedIs DEF A!Cell
<1>3. A!Edge(t) = (A!Cell(t) + 1) * CellHour - Offset
    BY DEF A!Edge, A!Cell
<1> DEFINE c == A!Cell(t)
<1> HIDE DEF c
<1>4. c \in Int => (c + 1) * CellHour = CellHour * c + CellHour /\ CellHour * c \in Int
    OBVIOUS
<1>5. ASSUME NEW k \in Int, CellHour * k <= t + Offset, t + Offset < CellHour * k + CellHour PROVE A!Cell(t) = k
    BY <1>1, <1>5, QuotientIs DEF A!Cell
<1> QED BY <1>2, <1>3, <1>4, <1>5 DEF c

(* The pieces of a span tile it, each within an hour. *)
LEMMA PiecesAre ==
    ASSUME NEW from \in Int, NEW to \in Int, from < to
    PROVE  /\ \A c \in A!Pieces(from, to) :
                 /\ c[1] \in Int /\ c[2] \in Int /\ from <= c[1] /\ c[1] < c[2] /\ c[2] <= to
                 /\ \A t \in c[1]..c[2] - 1 : A!Cell(t) = A!Cell(c[1])
           /\ \A t \in from..to - 1 : \E c \in A!Pieces(from, to) : t \in c[1]..c[2] - 1
           /\ \A b, c \in A!Pieces(from, to) : \A t : t \in b[1]..b[2] - 1 /\ t \in c[1]..c[2] - 1 => b = c
<1> USE HourNumbers
<1> DEFINE IsStart(t) == t = from \/ \E s \in from..t - 1 : A!Edge(s) = t
           until(t) == A!Min({to, A!Edge(t)})
<1>1. \A c : c \in A!Pieces(from, to) <=> \E t \in from..to - 1 : IsStart(t) /\ c = <<t, until(t)>>
    BY DEF A!Pieces
<1>2. ASSUME NEW t \in from..to - 1
      PROVE  /\ until(t) \in Int /\ t < until(t) /\ until(t) <= to
             /\ \A u \in Int : t <= u /\ u < until(t) <=> t <= u /\ u < to /\ u < A!Edge(t)
    <2>1. A!Edge(t) \in Int /\ t < A!Edge(t)
        <3>1. t \in Int
            OBVIOUS
        <3>2. CellHour * A!Cell(t) \in Int /\ t + Offset < CellHour * A!Cell(t) + CellHour /\ A!Edge(t) = CellHour * A!Cell(t) + CellHour - Offset
            BY <3>1, CellIs
        <3> QED BY <3>1, <3>2
    <2>2. until(t) \in {to, A!Edge(t)} /\ until(t) <= to /\ until(t) <= A!Edge(t)
        BY <2>1, AccountMin2
    <2> HIDE DEF until
    <2> QED BY <2>1, <2>2
<1>3. ASSUME NEW t \in Int, NEW u \in Int, t <= u, u < A!Edge(t) PROVE A!Cell(u) = A!Cell(t)
    <2>1. /\ A!Cell(t) \in Int /\ CellHour * A!Cell(t) \in Int /\ CellHour * A!Cell(t) <= t + Offset
          /\ A!Edge(t) = CellHour * A!Cell(t) + CellHour - Offset
        BY CellIs
    <2>2. CellHour * A!Cell(t) <= u + Offset /\ u + Offset < CellHour * A!Cell(t) + CellHour
        BY <1>3, <2>1
    <2> QED BY <2>1, <2>2, CellIs
<1>4. ASSUME NEW t \in from..to - 1, t # from, IsStart(t) PROVE CellHour * A!Cell(t) = t + Offset
    <2>1. PICK s \in from..t - 1 : A!Edge(s) = t
        BY <1>4
    <2>2. s \in Int /\ A!Cell(s) \in Int /\ CellHour * A!Cell(s) \in Int /\ t = CellHour * A!Cell(s) + CellHour - Offset
        BY <2>1, CellIs
    <2> DEFINE k == A!Cell(s)
    <2>3. CellHour * (k + 1) = CellHour * k + CellHour /\ k + 1 \in Int /\ CellHour * k \in Int
        BY <2>2
    <2>4. CellHour * (k + 1) = t + Offset
        BY <2>2, <2>3
    <2>5. CellHour * (k + 1) <= t + Offset /\ t + Offset < CellHour * (k + 1) + CellHour
        BY <2>4
    <2> HIDE DEF k
    <2>6. A!Cell(t) = k + 1
        BY <2>3, <2>5, CellIs
    <2> QED BY <2>4, <2>6
<1>5. ASSUME NEW t \in from..to - 1
      PROVE  \E c \in A!Pieces(from, to) : t \in c[1]..c[2] - 1
    <2>1. /\ A!Cell(t) \in Int /\ CellHour * A!Cell(t) \in Int
          /\ CellHour * A!Cell(t) <= t + Offset /\ t + Offset < CellHour * A!Cell(t) + CellHour
        <3>1. t \in Int
            OBVIOUS
        <3> QED BY <3>1, CellIs
    <2> HIDE DEF until
    <2> DEFINE u == CellHour * A!Cell(t) - Offset
    <2>2. CASE u <= from
        <3>1. A!Cell(from) = A!Cell(t)
            <4>1. CellHour * A!Cell(t) <= from + Offset /\ from + Offset < CellHour * A!Cell(t) + CellHour
                BY <2>1, <2>2
            <4> QED BY <2>1, <4>1, CellIs
        <3>2. from \in from..to - 1 /\ IsStart(from)
            OBVIOUS
        <3>3. A!Edge(from) = CellHour * A!Cell(t) + CellHour - Offset
            BY <3>1, CellIs
        <3>4. t < A!Edge(from)
            BY <2>1, <3>3
        <3>5. t < until(from) /\ until(from) \in Int
            BY <1>2, <3>2, <3>4
        <3>6. <<from, until(from)>> \in A!Pieces(from, to)
            BY <1>1, <3>2
        <3>7. t \in <<from, until(from)>>[1]..<<from, until(from)>>[2] - 1
            BY <3>5
        <3> QED BY <3>6, <3>7
    <2>3. CASE from < u
        <3>1. u \in from..to - 1 /\ u - 1 \in from..u - 1 /\ u <= t
            BY <2>1, <2>3
        <3>2. A!Edge(u - 1) = u
            <4> DEFINE k == A!Cell(t) - 1
            <4>1. k \in Int /\ CellHour * k = CellHour * A!Cell(t) - CellHour
                BY <2>1
            <4>2. CellHour * k <= (u - 1) + Offset /\ (u - 1) + Offset < CellHour * k + CellHour
                BY <2>1, <4>1
            <4> HIDE DEF k
            <4>3. A!Cell(u - 1) = k /\ A!Edge(u - 1) = CellHour * A!Cell(u - 1) + CellHour - Offset
                <5>1. u - 1 \in Int
                    BY <2>1
                <5> HIDE DEF u
                <5> QED BY <4>1, <4>2, <5>1, CellIs
            <4> QED BY <2>1, <4>1, <4>3
        <3>3. A!Cell(u) = A!Cell(t)
            <4>1. CellHour * A!Cell(t) <= u + Offset /\ u + Offset < CellHour * A!Cell(t) + CellHour /\ u \in Int
                BY <2>1
            <4> HIDE DEF u
            <4> QED BY <2>1, <4>1, CellIs
        <3>4. t < A!Edge(u)
            <4>1. A!Edge(u) = CellHour * A!Cell(u) + CellHour - Offset
                <5>1. u \in Int
                    BY <2>1
                <5> HIDE DEF u
                <5> QED BY <5>1, CellIs
            <4> QED BY <2>1, <3>3, <4>1
        <3>5. IsStart(u)
            BY <3>1, <3>2
        <3> HIDE DEF u
        <3>6. t < until(u) /\ until(u) \in Int
            BY <1>2, <3>1, <3>4
        <3>7. <<u, until(u)>> \in A!Pieces(from, to)
            BY <1>1, <3>1, <3>5
        <3>8. t \in <<u, until(u)>>[1]..<<u, until(u)>>[2] - 1
            BY <3>1, <3>6
        <3> QED BY <3>7, <3>8
    <2> QED BY <2>1, <2>2, <2>3
<1> HIDE DEF until
<1>6. ASSUME NEW c \in A!Pieces(from, to)
      PROVE  \E t \in from..to - 1 : IsStart(t) /\ c = <<t, until(t)>> /\ c[1] = t /\ c[2] = until(t)
    <2> HIDE DEF IsStart
    <2>1. PICK t \in from..to - 1 : IsStart(t) /\ c = <<t, until(t)>>
        BY <1>1
    <2>2. c[1] = t /\ c[2] = until(t)
        BY <2>1
    <2> QED BY <2>1, <2>2
<1>7. ASSUME NEW c \in A!Pieces(from, to)
      PROVE  /\ c[1] \in Int /\ c[2] \in Int /\ from <= c[1] /\ c[1] < c[2] /\ c[2] <= to
             /\ \A t \in c[1]..c[2] - 1 : A!Cell(t) = A!Cell(c[1])
    <2>1. PICK s \in from..to - 1 : c[1] = s /\ c[2] = until(s)
        BY <1>6
    <2>2. ASSUME NEW t \in s..until(s) - 1 PROVE A!Cell(t) = A!Cell(s)
        <3>1. s <= t /\ t < A!Edge(s) /\ t \in Int /\ s \in Int
            BY <1>2, <2>2
        <3> QED BY <1>3, <3>1
    <2> QED BY <1>2, <2>1, <2>2
<1>8. ASSUME NEW u \in from..to - 1, NEW s \in from..to - 1, IsStart(s), u < s, NEW t \in Int, s <= t, t < until(u)
      PROVE  FALSE
    <2>1. t < A!Edge(u) /\ u <= t
        BY <1>2, <1>8
    <2>2. A!Cell(s) = A!Cell(u)
        BY <1>3, <1>8, <2>1, CellIs
    <2>3. CellHour * A!Cell(s) = s + Offset
        BY <1>4, <1>8
    <2>4. CellHour * A!Cell(u) <= u + Offset
        BY CellIs
    <2> QED BY <1>8, <2>2, <2>3, <2>4
<1>9. ASSUME NEW b \in A!Pieces(from, to), NEW c \in A!Pieces(from, to), NEW t,
             t \in b[1]..b[2] - 1, t \in c[1]..c[2] - 1
      PROVE  b = c
    <2>1. PICK u \in from..to - 1 : IsStart(u) /\ b = <<u, until(u)>> /\ b[1] = u /\ b[2] = until(u)
        BY <1>6
    <2>2. PICK s \in from..to - 1 : IsStart(s) /\ c = <<s, until(s)>> /\ c[1] = s /\ c[2] = until(s)
        BY <1>6
    <2>3. until(u) \in Int /\ until(s) \in Int
        BY <1>2
    <2>4. t \in Int /\ u <= t /\ s <= t /\ t < until(u) /\ t < until(s)
        BY <1>9, <2>1, <2>2, <2>3
    <2> HIDE DEF IsStart
    <2>5. ~(u < s)
        BY <1>8, <2>2, <2>4
    <2>6. ~(s < u)
        BY <1>8, <2>1, <2>4
    <2>7. u = s
        BY <2>5, <2>6
    <2> QED BY <2>1, <2>2, <2>7
<1> HIDE DEF IsStart
<1> QED BY <1>5, <1>7, <1>9

-----------------------------------------------------------------------------
(* The gaps that are not too long, the shares of what they saw and gained, *)
(* and what the shares count: r of each moment of a gap.                   *)
CloseIn(q) == {p \in A!Pairs(q) : p[2].ts - p[1].ts \in 1..Attribute}

Rise(p) == A!Max({0, p[2].pct - p[1].pct})

ShareOf(p, piece) ==
    [cell |-> A!Cell(piece[1]), at |-> piece[1], seen |-> piece[2] - piece[1],
     gained |-> (Rise(p) * Scale * (piece[2] - piece[1])) \div (p[2].ts - p[1].ts)]

SharesIn(q) == UNION {{ShareOf(p, piece) : piece \in A!Pieces(p[1].ts, p[2].ts)} : p \in CloseIn(q)}
CellsIn(q) == {s.cell : s \in SharesIn(q)}
OfCell(q, c) == {s \in SharesIn(q) : s.cell = c}

Units(q, r) == UNION {(p[1].ts..p[2].ts - 1) \X (1..r[p]) : p \in CloseIn(q)}
UnitsOf(q, r, c) == {u \in Units(q, r) : A!Cell(u[1]) = c}

LEMMA UnionIsFinite ==
    ASSUME NEW S, IsFiniteSet(S), NEW part, \A x \in S : IsFiniteSet(part[x])
    PROVE  IsFiniteSet(UNION {part[x] : x \in S})
<1> DEFINE parts == {part[x] : x \in S}
           of == [x \in S |-> part[x]]
<1>1. of \in Surjection(S, parts)
    BY DEF Surjection
<1>2. IsFiniteSet(parts)
    BY <1>1, FS_Surjection
<1>3. \A T \in parts : IsFiniteSet(T)
    OBVIOUS
<1> HIDE DEF parts
<1>4. IsFiniteSet(UNION parts)
    BY <1>2, <1>3, FS_UNION
<1> QED BY <1>4 DEF parts

LEMMA PairsAre ==
    ASSUME NEW q, InOrder(q)
    PROVE  /\ \A p \in A!Pairs(q) :
                 /\ p[1].ts \in Nat /\ p[2].ts \in Nat /\ p[1].ts < p[2].ts
                 /\ p[1].pct \in Nat /\ p[2].pct \in Nat
                 /\ p \in CloseIn(q) <=> p[2].ts - p[1].ts <= Attribute
           /\ \A p \in CloseIn(q) : p \in A!Pairs(q)
           /\ \A o, p \in CloseIn(q) : \A t : t \in o[1].ts..o[2].ts - 1 /\ t \in p[1].ts..p[2].ts - 1 => o = p
           /\ IsFiniteSet(CloseIn(q))
<1> USE HourNumbers
<1>1. DOMAIN q = 1..Len(q) /\ Len(q) \in Nat
    BY DEF InOrder
<1>2. ASSUME NEW p \in A!Pairs(q)
      PROVE  \E i \in 1..Len(q) - 1 : /\ p = <<q[i], q[i + 1]>> /\ p[1] = q[i] /\ p[2] = q[i + 1]
                                      /\ i \in DOMAIN q /\ i + 1 \in DOMAIN q
    <2>1. PICK i \in 1..Len(q) - 1 : p = <<q[i], q[i + 1]>>
        BY DEF A!Pairs
    <2>2. i \in DOMAIN q /\ i + 1 \in DOMAIN q /\ p[1] = q[i] /\ p[2] = q[i + 1]
        BY <1>1, <2>1
    <2> QED BY <2>1, <2>2
<1>3. ASSUME NEW p \in A!Pairs(q)
      PROVE  /\ p[1].ts \in Nat /\ p[2].ts \in Nat /\ p[1].ts < p[2].ts
             /\ p[1].pct \in Nat /\ p[2].pct \in Nat
             /\ p \in CloseIn(q) <=> p[2].ts - p[1].ts <= Attribute
    <2>1. PICK i \in 1..Len(q) - 1 : /\ p[1] = q[i] /\ p[2] = q[i + 1]
                                     /\ i \in DOMAIN q /\ i + 1 \in DOMAIN q
        BY <1>2
    <2>2. i < i + 1
        OBVIOUS
    <2>3. q[i].ts < q[i + 1].ts
        BY <2>1, <2>2, OrderIs
    <2>4. /\ p[1].ts \in Nat /\ p[2].ts \in Nat /\ p[1].ts < p[2].ts
          /\ p[1].pct \in Nat /\ p[2].pct \in Nat
        BY <2>1, <2>3, ReadingIs
    <2>5. p \in CloseIn(q) <=> p[2].ts - p[1].ts \in 1..Attribute
        BY DEF CloseIn
    <2> QED BY <2>4, <2>5
<1>4. \A p \in CloseIn(q) : p \in A!Pairs(q)
    BY DEF CloseIn
<1>5. ASSUME NEW o \in CloseIn(q), NEW p \in CloseIn(q), NEW t, t \in o[1].ts..o[2].ts - 1, t \in p[1].ts..p[2].ts - 1
      PROVE  o = p
    <2>1. PICK i \in 1..Len(q) - 1 : /\ o = <<q[i], q[i + 1]>> /\ o[1] = q[i] /\ o[2] = q[i + 1]
                                     /\ i \in DOMAIN q /\ i + 1 \in DOMAIN q
        BY <1>2, <1>4
    <2>2. PICK j \in 1..Len(q) - 1 : /\ p = <<q[j], q[j + 1]>> /\ p[1] = q[j] /\ p[2] = q[j + 1]
                                     /\ j \in DOMAIN q /\ j + 1 \in DOMAIN q
        BY <1>2, <1>4
    <2>3. /\ o[1].ts \in Nat /\ o[2].ts \in Nat /\ p[1].ts \in Nat /\ p[2].ts \in Nat
        BY <1>3, <1>4
    <2>4. o[1].ts < p[2].ts /\ p[1].ts < o[2].ts
        <3> DEFINE a == o[1].ts
                   b == o[2].ts
                   c == p[1].ts
                   d == p[2].ts
        <3>1. a \in Nat /\ b \in Nat /\ c \in Nat /\ d \in Nat /\ t \in a..b - 1 /\ t \in c..d - 1
            BY <1>5, <2>3
        <3> HIDE DEF a, b, c, d
        <3>2. a < d /\ c < b
            BY <3>1
        <3> QED BY <3>2 DEF a, b, c, d
    <2>5. i < j + 1 /\ j < i + 1
        BY <2>1, <2>2, <2>4, OrderIs
    <2>6. i = j
        BY <2>5
    <2> QED BY <2>1, <2>2, <2>6
<1>6. IsFiniteSet(CloseIn(q))
    <2> DEFINE of == [i \in 1..Len(q) - 1 |-> <<q[i], q[i + 1]>>]
    <2>1. of \in Surjection(1..Len(q) - 1, A!Pairs(q))
        BY DEF Surjection, A!Pairs
    <2>2. IsFiniteSet(1..Len(q) - 1)
        BY <1>1, FS_Interval
    <2>3. IsFiniteSet(A!Pairs(q))
        BY <2>1, <2>2, FS_Surjection
    <2>4. CloseIn(q) \in SUBSET A!Pairs(q)
        BY DEF CloseIn
    <2> QED BY <2>3, <2>4, FS_Subset
<1> QED BY <1>3, <1>4, <1>5, <1>6

(* The shares tile the gaps, each in its hour. *)
InShare(s, t) == s.at <= t /\ t < s.at + s.seen
InGap(p, t) == p[1].ts <= t /\ t < p[2].ts

LEMMA SharesAre ==
    ASSUME NEW q, InOrder(q)
    PROVE  /\ \A s \in SharesIn(q) :
                 /\ s.at \in Int /\ s.seen \in Nat \ {0} /\ s.cell \in Int
                 /\ \A t \in Int : InShare(s, t) => A!Cell(t) = s.cell
                 /\ \E p \in CloseIn(q) : /\ \A t \in Int : InShare(s, t) => InGap(p, t)
                                          /\ s.gained = (Rise(p) * Scale * s.seen) \div (p[2].ts - p[1].ts)
           /\ \A p \in CloseIn(q) : \A t \in Int : InGap(p, t) => \E s \in SharesIn(q) : InShare(s, t)
           /\ \A r, s \in SharesIn(q) : \A t \in Int : InShare(r, t) /\ InShare(s, t) => r = s
<1>1. \A s : s \in SharesIn(q) <=>
                \E p \in CloseIn(q) : \E c \in A!Pieces(p[1].ts, p[2].ts) : s = ShareOf(p, c)
    BY DEF SharesIn
<1>2. \A p \in CloseIn(q) : p[1].ts \in Nat /\ p[2].ts \in Nat /\ p[1].ts < p[2].ts
    BY PairsAre
<1>3. ASSUME NEW p \in CloseIn(q)
      PROVE  /\ \A c \in A!Pieces(p[1].ts, p[2].ts) :
                 /\ c[1] \in Int /\ c[2] \in Int /\ p[1].ts <= c[1] /\ c[1] < c[2] /\ c[2] <= p[2].ts
                 /\ \A t \in c[1]..c[2] - 1 : A!Cell(t) = A!Cell(c[1])
             /\ \A t \in p[1].ts..p[2].ts - 1 : \E c \in A!Pieces(p[1].ts, p[2].ts) : t \in c[1]..c[2] - 1
             /\ \A b, c \in A!Pieces(p[1].ts, p[2].ts) : \A t : t \in b[1]..b[2] - 1 /\ t \in c[1]..c[2] - 1 => b = c
    <2> DEFINE from == p[1].ts
               to == p[2].ts
    <2>1. from \in Int /\ to \in Int /\ from < to
        BY <1>2
    <2> HIDE DEF from, to
    <2>2. /\ \A c \in A!Pieces(from, to) :
                 /\ c[1] \in Int /\ c[2] \in Int /\ from <= c[1] /\ c[1] < c[2] /\ c[2] <= to
                 /\ \A t \in c[1]..c[2] - 1 : A!Cell(t) = A!Cell(c[1])
          /\ \A t \in from..to - 1 : \E c \in A!Pieces(from, to) : t \in c[1]..c[2] - 1
          /\ \A b, c \in A!Pieces(from, to) : \A t : t \in b[1]..b[2] - 1 /\ t \in c[1]..c[2] - 1 => b = c
        BY <2>1, PiecesAre
    <2> QED BY <2>2 DEF from, to
<1>4. ASSUME NEW p \in CloseIn(q), NEW c \in A!Pieces(p[1].ts, p[2].ts)
      PROVE  /\ c[1] \in Int /\ c[2] \in Int /\ p[1].ts <= c[1] /\ c[1] < c[2] /\ c[2] <= p[2].ts
             /\ ShareOf(p, c).cell = A!Cell(c[1]) /\ ShareOf(p, c).at = c[1] /\ ShareOf(p, c).seen = c[2] - c[1]
             /\ ShareOf(p, c).gained = (Rise(p) * Scale * (c[2] - c[1])) \div (p[2].ts - p[1].ts)
             /\ \A t \in Int : InShare(ShareOf(p, c), t) <=> c[1] <= t /\ t < c[2]
    <2>1. c[1] \in Int /\ c[2] \in Int /\ p[1].ts <= c[1] /\ c[1] < c[2] /\ c[2] <= p[2].ts
        BY <1>3
    <2>2. /\ ShareOf(p, c).cell = A!Cell(c[1]) /\ ShareOf(p, c).at = c[1] /\ ShareOf(p, c).seen = c[2] - c[1]
          /\ ShareOf(p, c).gained = (Rise(p) * Scale * (c[2] - c[1])) \div (p[2].ts - p[1].ts)
        BY DEF ShareOf
    <2>3. \A t \in Int : InShare(ShareOf(p, c), t) <=> c[1] <= t /\ t < c[1] + (c[2] - c[1])
        BY <2>2 DEF InShare
    <2> QED BY <2>1, <2>2, <2>3
<1>5. ASSUME NEW s \in SharesIn(q)
      PROVE  /\ s.at \in Int /\ s.seen \in Nat \ {0} /\ s.cell \in Int
             /\ \A t \in Int : InShare(s, t) => A!Cell(t) = s.cell
             /\ \E p \in CloseIn(q) : /\ \A t \in Int : InShare(s, t) => InGap(p, t)
                                      /\ s.gained = (Rise(p) * Scale * s.seen) \div (p[2].ts - p[1].ts)
    <2>1. PICK p \in CloseIn(q) : \E c \in A!Pieces(p[1].ts, p[2].ts) : s = ShareOf(p, c)
        BY <1>1
    <2>2. PICK c \in A!Pieces(p[1].ts, p[2].ts) : s = ShareOf(p, c)
        BY <2>1
    <2>3. /\ c[1] \in Int /\ c[2] \in Int /\ p[1].ts <= c[1] /\ c[1] < c[2] /\ c[2] <= p[2].ts
          /\ s.cell = A!Cell(c[1]) /\ s.at = c[1] /\ s.seen = c[2] - c[1]
          /\ s.gained = (Rise(p) * Scale * (c[2] - c[1])) \div (p[2].ts - p[1].ts)
          /\ \A t \in Int : InShare(s, t) <=> c[1] <= t /\ t < c[2]
        BY <1>4, <2>2
    <2>4. s.seen \in Nat \ {0} /\ s.cell \in Int
        BY <2>3, CellIs
    <2>5. ASSUME NEW t \in Int, InShare(s, t) PROVE A!Cell(t) = s.cell /\ InGap(p, t)
        <3>1. c[1] <= t /\ t < c[2]
            BY <2>3, <2>5
        <3>2. t \in c[1]..c[2] - 1
            BY <2>3, <3>1
        <3>3. A!Cell(t) = A!Cell(c[1])
            BY <1>3, <3>2
        <3>4. p[1].ts <= t /\ t < p[2].ts
            BY <1>2, <2>3, <3>1
        <3> QED BY <2>3, <3>3, <3>4 DEF InGap
    <2> QED BY <2>3, <2>4, <2>5
<1>6. ASSUME NEW p \in CloseIn(q), NEW t \in Int, InGap(p, t) PROVE \E s \in SharesIn(q) : InShare(s, t)
    <2>1. t \in p[1].ts..p[2].ts - 1
        BY <1>2, <1>6 DEF InGap
    <2>2. PICK c \in A!Pieces(p[1].ts, p[2].ts) : t \in c[1]..c[2] - 1
        BY <1>3, <2>1
    <2>3. c[1] <= t /\ t < c[2]
        BY <1>4, <2>2
    <2>4. InShare(ShareOf(p, c), t) /\ ShareOf(p, c) \in SharesIn(q)
        BY <1>1, <1>4, <2>3
    <2> QED BY <2>4
<1>7. ASSUME NEW r \in SharesIn(q), NEW s \in SharesIn(q), NEW t \in Int, InShare(r, t), InShare(s, t) PROVE r = s
    <2>1. PICK o \in CloseIn(q) : \E b \in A!Pieces(o[1].ts, o[2].ts) : r = ShareOf(o, b)
        BY <1>1
    <2>2. PICK b \in A!Pieces(o[1].ts, o[2].ts) : r = ShareOf(o, b)
        BY <2>1
    <2>3. PICK p \in CloseIn(q) : \E c \in A!Pieces(p[1].ts, p[2].ts) : s = ShareOf(p, c)
        BY <1>1
    <2>4. PICK c \in A!Pieces(p[1].ts, p[2].ts) : s = ShareOf(p, c)
        BY <2>3
    <2>5. /\ b[1] \in Int /\ b[2] \in Int /\ o[1].ts <= b[1] /\ b[2] <= o[2].ts /\ b[1] <= t /\ t < b[2]
        BY <1>4, <1>7, <2>2
    <2>6. /\ c[1] \in Int /\ c[2] \in Int /\ p[1].ts <= c[1] /\ c[2] <= p[2].ts /\ c[1] <= t /\ t < c[2]
        BY <1>4, <1>7, <2>4
    <2>7. o[1].ts \in Nat /\ o[2].ts \in Nat /\ p[1].ts \in Nat /\ p[2].ts \in Nat
        BY <1>2
    <2>8. t \in o[1].ts..o[2].ts - 1 /\ t \in p[1].ts..p[2].ts - 1 /\ t \in b[1]..b[2] - 1 /\ t \in c[1]..c[2] - 1
        BY <2>5, <2>6, <2>7
    <2>9. o = p
        BY <2>8, PairsAre
    <2>10. b = c
        BY <1>3, <2>8, <2>9
    <2> QED BY <2>2, <2>4, <2>9, <2>10
<1> QED BY <1>5, <1>6, <1>7

-----------------------------------------------------------------------------
LEMMA UnitsAre ==
    ASSUME NEW q, InOrder(q), NEW r, \A p \in CloseIn(q) : r[p] \in Nat
    PROVE  /\ IsFiniteSet(Units(q, r))
           /\ \A u : u \in Units(q, r) <=>
                 \E p \in CloseIn(q) : \E t \in Int, k \in 1..r[p] : InGap(p, t) /\ u = <<t, k>>
<1> DEFINE part == [p \in CloseIn(q) |-> (p[1].ts..p[2].ts - 1) \X (1..r[p])]
<1>1. \A p \in CloseIn(q) : p[1].ts \in Nat /\ p[2].ts \in Nat /\ p[1].ts < p[2].ts
    BY PairsAre
<1>2. ASSUME NEW p \in CloseIn(q) PROVE IsFiniteSet(part[p])
    <2>1. IsFiniteSet(p[1].ts..p[2].ts - 1)
        <3>1. p[1].ts \in Int /\ p[2].ts \in Int /\ p[1].ts <= p[2].ts
            BY <1>1
        <3> QED BY <3>1, SpanCounts
    <2>3. IsFiniteSet(1..r[p])
        BY FS_Interval
    <2>2. IsFiniteSet((p[1].ts..p[2].ts - 1) \X (1..r[p]))
        BY <2>1, <2>3, FS_Product
    <2> QED BY <2>2
<1>3. Units(q, r) = UNION {part[p] : p \in CloseIn(q)}
    BY DEF Units
<1>4. IsFiniteSet(CloseIn(q))
    BY PairsAre
<1>5. IsFiniteSet(Units(q, r))
    <2> HIDE DEF part
    <2>1. IsFiniteSet(UNION {part[p] : p \in CloseIn(q)})
        BY <1>2, <1>4, UnionIsFinite
    <2> QED BY <1>3, <2>1
<1>6. \A u : u \in Units(q, r) <=> \E p \in CloseIn(q) : \E t \in p[1].ts..p[2].ts - 1, k \in 1..r[p] : u = <<t, k>>
    BY DEF Units
<1>7. ASSUME NEW p \in CloseIn(q), NEW t PROVE t \in p[1].ts..p[2].ts - 1 <=> t \in Int /\ InGap(p, t)
    BY <1>1 DEF InGap
<1> HIDE DEF part
<1>8. \A u : u \in Units(q, r) <=>
                 \E p \in CloseIn(q) : \E t \in Int, k \in 1..r[p] : InGap(p, t) /\ u = <<t, k>>
    BY <1>6, <1>7
<1> QED BY <1>5, <1>8

-----------------------------------------------------------------------------
LEMMA GapIs ==
    ASSUME NEW q, InOrder(q), NEW o \in CloseIn(q), NEW p \in CloseIn(q), NEW t \in Int, InGap(o, t), InGap(p, t)
    PROVE  o = p
<1>1. o[1].ts \in Nat /\ o[2].ts \in Nat /\ p[1].ts \in Nat /\ p[2].ts \in Nat
    BY PairsAre
<1>2. t \in o[1].ts..o[2].ts - 1 /\ t \in p[1].ts..p[2].ts - 1
    BY <1>1 DEF InGap
<1> QED BY <1>2, PairsAre

Block(a, b, n) == (a..b - 1) \X (1..n)

LEMMA BlockCounts ==
    ASSUME NEW a \in Int, NEW b \in Int, a <= b, NEW n \in Nat
    PROVE  Cardinality(Block(a, b, n)) = (b - a) * n
<1>1. IsFiniteSet(a..b - 1) /\ Cardinality(a..b - 1) = b - a
    BY SpanCounts
<1>2. IsFiniteSet(1..n) /\ Cardinality(1..n) = n
    <2>1. IsFiniteSet(1..n) /\ Cardinality(1..n) = IF 1 > n THEN 0 ELSE n - 1 + 1
        BY FS_Interval
    <2> QED BY <2>1
<1>3. Cardinality((a..b - 1) \X (1..n)) = Cardinality(a..b - 1) * Cardinality(1..n)
    BY <1>1, <1>2, FS_Product
<1> QED BY <1>1, <1>2, <1>3 DEF Block

(* Counted by gaps. *)
LEMMA GapsCount ==
    ASSUME NEW q, InOrder(q), NEW r, \A p \in CloseIn(q) : r[p] \in Nat,
           NEW gains, \A p \in CloseIn(q) : gains[p] = (p[2].ts - p[1].ts) * r[p]
    PROVE  A!Total(gains, CloseIn(q)) = Cardinality(Units(q, r))
<1> DEFINE part == [p \in CloseIn(q) |-> (p[1].ts..p[2].ts - 1) \X (1..r[p])]
<1>1. \A p \in CloseIn(q) : part[p] = (p[1].ts..p[2].ts - 1) \X (1..r[p])
    OBVIOUS
<1> HIDE DEF part
<1>2. \A p \in CloseIn(q) : p[1].ts \in Nat /\ p[2].ts \in Nat /\ p[1].ts < p[2].ts
    BY PairsAre
<1>3. ASSUME NEW p \in CloseIn(q) PROVE gains[p] = Cardinality(part[p])
    <2> DEFINE a == p[1].ts
               b == p[2].ts
               n == r[p]
    <2>1. a \in Int /\ b \in Int /\ a <= b /\ n \in Nat
        BY <1>2
    <2>2. part[p] = (a..b - 1) \X (1..n) /\ gains[p] = (b - a) * n
        BY <1>1
    <2> HIDE DEF a, b, n
    <2>3. part[p] = Block(a, b, n)
        BY <2>2 DEF Block
    <2>4. Cardinality(Block(a, b, n)) = (b - a) * n
        BY <2>1, BlockCounts
    <2> QED BY <2>2, <2>3, <2>4
<1>4. \A p \in CloseIn(q) : \A u : u \in part[p] <=> \E t \in Int, k \in 1..r[p] : InGap(p, t) /\ u = <<t, k>>
    <2> SUFFICES ASSUME NEW p \in CloseIn(q), NEW u
                 PROVE  u \in part[p] <=> \E t \in Int, k \in 1..r[p] : InGap(p, t) /\ u = <<t, k>>
        OBVIOUS
    <2>1. u \in part[p] <=> \E t \in p[1].ts..p[2].ts - 1, k \in 1..r[p] : u = <<t, k>>
        BY <1>1
    <2>2. \A t : t \in p[1].ts..p[2].ts - 1 <=> t \in Int /\ InGap(p, t)
        BY <1>2 DEF InGap
    <2> QED BY <2>1, <2>2
<1>5. IsFiniteSet(Units(q, r))
    BY UnitsAre
<1>6. \A u : u \in Units(q, r) <=> \E p \in CloseIn(q) : u \in part[p]
    BY <1>4, UnitsAre
<1>7. ASSUME NEW o \in CloseIn(q), NEW p \in CloseIn(q), NEW u \in part[o], u \in part[p] PROVE o = p
    <2>1. PICK t \in Int, k \in 1..r[o] : InGap(o, t) /\ u = <<t, k>>
        BY <1>4
    <2>2. PICK v \in Int, l \in 1..r[p] : InGap(p, v) /\ u = <<v, l>>
        BY <1>4, <1>7
    <2>3. t = v
        BY <2>1, <2>2
    <2> QED BY <2>1, <2>2, <2>3, GapIs
<1> QED BY <1>3, <1>5, <1>6, <1>7, CountedInParts

(* Counted by the shares of a cell. *)
LEMMA SharesCount ==
    ASSUME NEW q, InOrder(q), NEW r, \A p \in CloseIn(q) : r[p] \in Nat,
           NEW val, \A s \in SharesIn(q) : \A p \in CloseIn(q) : InGap(p, s.at) => val[s] = s.seen * r[p],
           NEW c
    PROVE  /\ IsFiniteSet(UnitsOf(q, r, c))
           /\ A!Total(val, OfCell(q, c)) = Cardinality(UnitsOf(q, r, c))
<1> DEFINE gap(s) == CHOOSE p \in CloseIn(q) : InGap(p, s.at)
           part == [s \in OfCell(q, c) |-> (s.at..s.at + s.seen - 1) \X (1..r[gap(s)])]
<1>1. \A s \in OfCell(q, c) : part[s] = (s.at..s.at + s.seen - 1) \X (1..r[gap(s)])
    OBVIOUS
<1>2. \A s : s \in OfCell(q, c) <=> s \in SharesIn(q) /\ s.cell = c
    BY DEF OfCell
<1>3. \A s \in SharesIn(q) : /\ s.at \in Int /\ s.seen \in Nat \ {0} /\ s.cell \in Int
                             /\ \A t \in Int : InShare(s, t) => A!Cell(t) = s.cell
    BY SharesAre
<1>4. ASSUME NEW s \in SharesIn(q)
      PROVE  gap(s) \in CloseIn(q) /\ InGap(gap(s), s.at) /\ \A t \in Int : InShare(s, t) => InGap(gap(s), t)
    <2>1. PICK p \in CloseIn(q) : \A t \in Int : InShare(s, t) => InGap(p, t)
        BY SharesAre
    <2>2. InShare(s, s.at) /\ s.at \in Int
        BY <1>3 DEF InShare
    <2>3. InGap(p, s.at)
        BY <2>1, <2>2
    <2>4. gap(s) \in CloseIn(q) /\ InGap(gap(s), s.at)
        BY <2>3
    <2>5. gap(s) = p
        <3> HIDE DEF gap
        <3> QED BY <2>2, <2>3, <2>4, GapIs
    <2> QED BY <2>1, <2>4, <2>5
<1> HIDE DEF gap, part
<1>5. \A s \in OfCell(q, c) : \A u : u \in part[s] <=> \E t \in Int, k \in 1..r[gap(s)] : InShare(s, t) /\ u = <<t, k>>
    <2> SUFFICES ASSUME NEW s \in OfCell(q, c), NEW u
                 PROVE  u \in part[s] <=> \E t \in Int, k \in 1..r[gap(s)] : InShare(s, t) /\ u = <<t, k>>
        OBVIOUS
    <2>1. u \in part[s] <=> \E t \in s.at..s.at + s.seen - 1, k \in 1..r[gap(s)] : u = <<t, k>>
        BY <1>1
    <2>2. s.at \in Int /\ s.seen \in Nat
        BY <1>2, <1>3
    <2>3. \A t : t \in s.at..s.at + s.seen - 1 <=> t \in Int /\ InShare(s, t)
        BY <2>2 DEF InShare
    <2> QED BY <2>1, <2>3
<1>6. ASSUME NEW s \in OfCell(q, c) PROVE val[s] = Cardinality(part[s])
    <2> DEFINE a == s.at
               b == s.at + s.seen
               n == r[gap(s)]
    <2>1. a \in Int /\ b \in Int /\ a <= b /\ n \in Nat /\ b - a = s.seen
        BY <1>2, <1>3, <1>4
    <2>2. part[s] = (a..b - 1) \X (1..n) /\ val[s] = (b - a) * n
        <3>1. val[s] = s.seen * n
            BY <1>2, <1>4
        <3> QED BY <1>1, <2>1, <3>1
    <2> HIDE DEF a, b, n
    <2>3. part[s] = Block(a, b, n)
        BY <2>2 DEF Block
    <2>4. Cardinality(Block(a, b, n)) = (b - a) * n
        BY <2>1, BlockCounts
    <2> QED BY <2>2, <2>3, <2>4
<1>7. \A u : u \in UnitsOf(q, r, c) <=>
                 \E p \in CloseIn(q) : \E t \in Int, k \in 1..r[p] : InGap(p, t) /\ u = <<t, k>> /\ A!Cell(t) = c
    <2>1. \A u : u \in UnitsOf(q, r, c) <=> u \in Units(q, r) /\ A!Cell(u[1]) = c
        BY DEF UnitsOf
    <2> QED BY <2>1, UnitsAre
<1>8. ASSUME NEW u PROVE u \in UnitsOf(q, r, c) <=> \E s \in OfCell(q, c) : u \in part[s]
    <2>1. ASSUME u \in UnitsOf(q, r, c) PROVE \E s \in OfCell(q, c) : u \in part[s]
        <3>1. PICK p \in CloseIn(q) : \E t \in Int, k \in 1..r[p] : InGap(p, t) /\ u = <<t, k>> /\ A!Cell(t) = c
            BY <1>7, <2>1
        <3>2. PICK t \in Int, k \in 1..r[p] : InGap(p, t) /\ u = <<t, k>> /\ A!Cell(t) = c
            BY <3>1
        <3>3. PICK s \in SharesIn(q) : InShare(s, t)
            BY <3>2, SharesAre
        <3>4. s \in OfCell(q, c)
            BY <1>2, <1>3, <3>2, <3>3
        <3>5. gap(s) \in CloseIn(q) /\ InGap(gap(s), t)
            BY <1>4, <3>3
        <3>6. gap(s) = p
            BY <3>2, <3>5, GapIs
        <3> QED BY <1>5, <3>2, <3>3, <3>4, <3>6
    <2>2. ASSUME NEW s \in OfCell(q, c), u \in part[s] PROVE u \in UnitsOf(q, r, c)
        <3>1. PICK t \in Int, k \in 1..r[gap(s)] : InShare(s, t) /\ u = <<t, k>>
            BY <1>5, <2>2
        <3>2. gap(s) \in CloseIn(q) /\ InGap(gap(s), t) /\ A!Cell(t) = c
            BY <1>2, <1>3, <1>4, <3>1
        <3> QED BY <1>7, <3>1, <3>2
    <2> QED BY <2>1, <2>2
<1>9. ASSUME NEW s \in OfCell(q, c), NEW z \in OfCell(q, c), NEW u \in part[s], u \in part[z] PROVE s = z
    <2>1. PICK t \in Int, k \in 1..r[gap(s)] : InShare(s, t) /\ u = <<t, k>>
        BY <1>5
    <2>2. PICK v \in Int, l \in 1..r[gap(z)] : InShare(z, v) /\ u = <<v, l>>
        BY <1>5, <1>9
    <2>3. t = v
        BY <2>1, <2>2
    <2> QED BY <1>2, <2>1, <2>2, <2>3, SharesAre
<1>10. IsFiniteSet(UnitsOf(q, r, c))
    <2>1. IsFiniteSet(Units(q, r)) /\ UnitsOf(q, r, c) \in SUBSET Units(q, r)
        BY UnitsAre DEF UnitsOf
    <2> QED BY <2>1, FS_Subset
<1>11. A!Total(val, OfCell(q, c)) = Cardinality(UnitsOf(q, r, c))
    BY <1>6, <1>8, <1>9, <1>10, CountedInParts
<1> QED BY <1>10, <1>11

(* Counted by cells. *)
LEMMA CellsCount ==
    ASSUME NEW q, InOrder(q), NEW r, \A p \in CloseIn(q) : r[p] \in Nat,
           NEW sums, \A c \in CellsIn(q) : sums[c] = Cardinality(UnitsOf(q, r, c))
    PROVE  A!Total(sums, CellsIn(q)) = Cardinality(Units(q, r))
<1> DEFINE part == [c \in CellsIn(q) |-> UnitsOf(q, r, c)]
<1>1. \A c \in CellsIn(q) : part[c] = UnitsOf(q, r, c)
    OBVIOUS
<1> HIDE DEF part
<1>2. \A c, u : u \in UnitsOf(q, r, c) <=> u \in Units(q, r) /\ A!Cell(u[1]) = c
    BY DEF UnitsOf
<1>3. ASSUME NEW u \in Units(q, r) PROVE A!Cell(u[1]) \in CellsIn(q)
    <2>1. PICK p \in CloseIn(q) : \E t \in Int, k \in 1..r[p] : InGap(p, t) /\ u = <<t, k>>
        BY UnitsAre
    <2>2. PICK t \in Int, k \in 1..r[p] : InGap(p, t) /\ u = <<t, k>>
        BY <2>1
    <2>3. PICK s \in SharesIn(q) : InShare(s, t)
        BY <2>2, SharesAre
    <2>4. A!Cell(t) = s.cell
        BY <2>3, SharesAre
    <2>5. u[1] = t
        BY <2>2
    <2> QED BY <2>4, <2>5 DEF CellsIn
<1>4. IsFiniteSet(Units(q, r))
    BY UnitsAre
<1>5. \A u : u \in Units(q, r) <=> \E c \in CellsIn(q) : u \in part[c]
    BY <1>1, <1>2, <1>3
<1>6. \A b, c \in CellsIn(q) : \A u \in part[b] : u \in part[c] => b = c
    BY <1>1, <1>2
<1>7. \A c \in CellsIn(q) : sums[c] = Cardinality(part[c])
    BY <1>1
<1> QED BY <1>4, <1>5, <1>6, <1>7, CountedInParts

-----------------------------------------------------------------------------
(* A rise over a gap, as so much of each of its moments. *)
LEMMA SpreadIs ==
    ASSUME NEW d \in Nat \ {0}, Scale % d = 0, NEW m \in Nat, NEW n \in Nat
    PROVE  /\ m * (Scale \div d) \in Nat
           /\ (m * Scale * n) \div d = n * (m * (Scale \div d))
           /\ d * (m * (Scale \div d)) = Scale * m
<1> DEFINE k == Scale \div d
<1>1. k \in Nat /\ Scale = d * k
    <2>1. k \in Int /\ Scale = d * k + (Scale % d)
        BY HourNumbers
    <2>2. d * k \in Int /\ d * k <= Scale /\ Scale < d * k + d
        BY HourNumbers, DividedIs
    <2>3. k \in Nat
        <3>1. ASSUME k < 0 PROVE FALSE
            <4>1. k <= -1 /\ -1 \in Int
                BY <2>1, <3>1
            <4> HIDE DEF k
            <4>2. d * k <= d * (-1)
                BY <2>1, <4>1, TimesGrows
            <4>3. d * (-1) = -d
                OBVIOUS
            <4> QED BY <2>2, <4>2, <4>3, HourNumbers
        <3> QED BY <2>1, <3>1
    <2> QED BY <2>1, <2>2, <2>3
<1> HIDE DEF k
<1>2. m * k \in Nat /\ n * (m * k) \in Nat
    BY <1>1
<1>3. m * Scale * n = d * (n * (m * k))
    <2>1. m * Scale * n = m * (d * k) * n
        BY <1>1
    <2> HIDE <1>1
    <2>2. m * (d * k) * n = d * (n * (m * k))
        BY <1>1
    <2> QED BY <2>1, <2>2
<1>4. (m * Scale * n) \div d = n * (m * k)
    <2> DEFINE x == n * (m * k)
    <2>1. x \in Int
        BY <1>2
    <2> HIDE DEF x
    <2>2. d * x \in Int /\ d * x <= d * x /\ d * x < d * x + d
        BY <2>1
    <2>3. (d * x) \div d = x
        BY <2>1, <2>2, QuotientIs
    <2> QED BY <1>3, <2>3 DEF x
<1>5. d * (m * k) = Scale * m
    <2>1. d * (m * k) = d * k * m
        BY <1>1
    <2> QED BY <1>1, <2>1
<1> QED BY <1>2, <1>4, <1>5 DEF k

Field(q, f) == [s \in SharesIn(q) |-> s[f]]

LEMMA CellsAre ==
    ASSUME NEW q
    PROVE  A!WeekCells(q) = [c \in CellsIn(q) |-> [gained |-> A!Total(Field(q, "gained"), OfCell(q, c)),
                                                   seen   |-> A!Total(Field(q, "seen"), OfCell(q, c))]]
BY DEF A!WeekCells, CellsIn, SharesIn, ShareOf, Rise, CloseIn, OfCell, Field

(* One of each moment; the rise of each moment. *)
Once(q) == [p \in CloseIn(q) |-> 1]
Rate(q) == [p \in CloseIn(q) |-> Rise(p) * (Scale \div (p[2].ts - p[1].ts))]

LEMMA RatesAre ==
    ASSUME NEW q, InOrder(q), NEW p \in CloseIn(q)
    PROVE  /\ Rise(p) \in Nat /\ p[2].ts - p[1].ts \in 1..Attribute /\ Scale % (p[2].ts - p[1].ts) = 0
           /\ Rate(q)[p] \in Nat /\ Once(q)[p] = 1
           /\ (p[2].ts - p[1].ts) * Rate(q)[p] = Scale * Rise(p)
           /\ \A n \in Nat : (Rise(p) * Scale * n) \div (p[2].ts - p[1].ts) = n * Rate(q)[p]
<1> DEFINE d == p[2].ts - p[1].ts
           m == Rise(p)
<1>1. p[1].pct \in Nat /\ p[2].pct \in Nat
    BY PairsAre
<1>2. m \in Nat
    <2>1. 0 \in Int /\ p[2].pct - p[1].pct \in Int
        BY <1>1
    <2>2. A!Max({0, p[2].pct - p[1].pct}) \in {0, p[2].pct - p[1].pct} /\ 0 <= A!Max({0, p[2].pct - p[1].pct})
        <3> DEFINE x == p[2].pct - p[1].pct
                   z == 0
        <3>1. x \in Int /\ z \in Int
            BY <2>1
        <3> HIDE DEF x, z
        <3>2. A!Max({z, x}) \in {z, x} /\ z <= A!Max({z, x})
            BY <3>1, AccountMin2
        <3> QED BY <3>2 DEF x, z
    <2> QED BY <2>1, <2>2 DEF Rise
<1>3. d \in 1..Attribute
    BY DEF CloseIn
<1>4. Scale % d = 0 /\ d \in Nat \ {0}
    BY <1>3, HourNumbers
<1>5. Rate(q)[p] = m * (Scale \div d) /\ Once(q)[p] = 1
    BY DEF Rate, Once
<1> HIDE DEF d, m
<1>6. /\ m * (Scale \div d) \in Nat
      /\ \A n \in Nat : (m * Scale * n) \div d = n * (m * (Scale \div d))
      /\ d * (m * (Scale \div d)) = Scale * m
    BY <1>2, <1>4, SpreadIs
<1>7. /\ m \in Nat /\ d \in 1..Attribute /\ Scale % d = 0
      /\ Rate(q)[p] \in Nat /\ Once(q)[p] = 1
      /\ d * Rate(q)[p] = Scale * m
      /\ \A n \in Nat : (m * Scale * n) \div d = n * Rate(q)[p]
    BY <1>2, <1>3, <1>4, <1>5, <1>6
<1> QED BY <1>7 DEF d, m

(* Each share counts its moments, and what they rose. *)
LEMMA FieldsAre ==
    ASSUME NEW q, InOrder(q), NEW s \in SharesIn(q), NEW p \in CloseIn(q), InGap(p, s.at)
    PROVE  Field(q, "seen")[s] = s.seen * Once(q)[p] /\ Field(q, "gained")[s] = s.seen * Rate(q)[p]
<1>1. s.at \in Int /\ s.seen \in Nat \ {0}
    BY SharesAre
<1>2. PICK o \in CloseIn(q) : /\ \A t \in Int : InShare(s, t) => InGap(o, t)
                              /\ s.gained = (Rise(o) * Scale * s.seen) \div (o[2].ts - o[1].ts)
    BY SharesAre
<1>3. InGap(o, s.at)
    <2>1. InShare(s, s.at)
        BY <1>1 DEF InShare
    <2> QED BY <1>1, <1>2, <2>1
<1>4. o = p
    BY <1>1, <1>3, GapIs
<1>5. s.gained = s.seen * Rate(q)[p]
    BY <1>1, <1>2, <1>4, RatesAre
<1>6. Once(q)[p] = 1
    BY RatesAre
<1>7. Field(q, "seen")[s] = s.seen /\ Field(q, "gained")[s] = s.gained
    BY DEF Field
<1> QED BY <1>1, <1>5, <1>6, <1>7

(* An hour has an hour's moments. *)
LEMMA HourIsFull ==
    ASSUME NEW q, InOrder(q), NEW c \in CellsIn(q)
    PROVE  Cardinality(UnitsOf(q, Once(q), c)) <= CellHour
<1> USE HourNumbers
<1>1. PICK s \in SharesIn(q) : c = s.cell
    BY DEF CellsIn
<1>2. c \in Int
    BY <1>1, SharesAre
<1> DEFINE a == CellHour * c - Offset
           b == a + CellHour
<1>3. a \in Int /\ b \in Int /\ a <= b /\ b - a = CellHour
    BY <1>2
<1>4. \A p \in CloseIn(q) : Once(q)[p] = 1
    BY DEF Once
<1>5. ASSUME NEW u \in UnitsOf(q, Once(q), c) PROVE u \in (a..b - 1) \X (1..1)
    <2>1. u \in Units(q, Once(q)) /\ A!Cell(u[1]) = c
        BY DEF UnitsOf
    <2>2. \A p \in CloseIn(q) : Once(q)[p] \in Nat
        BY <1>4
    <2>3. PICK p \in CloseIn(q) : \E t \in Int, k \in 1..Once(q)[p] : InGap(p, t) /\ u = <<t, k>>
        BY <2>1, <2>2, UnitsAre
    <2>4. PICK t \in Int, k \in 1..1 : u = <<t, k>>
        BY <1>4, <2>3
    <2>5. A!Cell(t) = c
        BY <2>1, <2>4
    <2>6. CellHour * c <= t + Offset /\ t + Offset < CellHour * c + CellHour /\ CellHour * c \in Int
        BY <2>5, CellIs
    <2>7. t \in a..b - 1
        BY <1>3, <2>6
    <2> QED BY <2>4, <2>7
<1> HIDE DEF a, b
<1>6. Cardinality((a..b - 1) \X (1..1)) = (b - a) * 1
    <2> DEFINE n == 1
    <2>1. n \in Nat
        OBVIOUS
    <2> HIDE DEF n
    <2>2. Cardinality(Block(a, b, n)) = (b - a) * n
        BY <1>3, <2>1, BlockCounts
    <2> QED BY <2>2 DEF n, Block
<1>7. IsFiniteSet((a..b - 1) \X (1..1))
    <2>1. IsFiniteSet(a..b - 1)
        BY <1>3, SpanCounts
    <2>2. IsFiniteSet(1..1)
        <3>1. 1..1 = {1}
            OBVIOUS
        <3>2. \A x : IsFiniteSet({x})
            BY FS_Singleton
        <3>3. IsFiniteSet({1})
            BY <3>2, Zenon
        <3> QED BY <3>1, <3>3
    <2> QED BY <2>1, <2>2, FS_Product
<1>8. UnitsOf(q, Once(q), c) \in SUBSET ((a..b - 1) \X (1..1))
    BY <1>5
<1>9. Cardinality(UnitsOf(q, Once(q), c)) <= Cardinality((a..b - 1) \X (1..1))
    BY <1>7, <1>8, FS_Subset
<1> QED BY <1>3, <1>6, <1>9

LEMMA CellsTell ==
    ASSUME NEW q, InOrder(q)
    PROVE  LET cells == A!WeekCells(q)
           IN  /\ DOMAIN cells = CellsIn(q)
               /\ \A c \in CellsIn(q) : cells[c].seen = Cardinality(UnitsOf(q, Once(q), c))
               /\ \A c \in CellsIn(q) : cells[c].gained = Cardinality(UnitsOf(q, Rate(q), c))
<1> DEFINE cells == A!WeekCells(q)
<1>1. /\ DOMAIN cells = CellsIn(q)
      /\ \A c \in CellsIn(q) : /\ cells[c].seen = A!Total(Field(q, "seen"), OfCell(q, c))
                               /\ cells[c].gained = A!Total(Field(q, "gained"), OfCell(q, c))
    BY CellsAre
<1>2. \A p \in CloseIn(q) : Once(q)[p] \in Nat /\ Rate(q)[p] \in Nat
    BY RatesAre
<1>3. \A s \in SharesIn(q) : \A p \in CloseIn(q) : InGap(p, s.at) =>
          Field(q, "seen")[s] = s.seen * Once(q)[p] /\ Field(q, "gained")[s] = s.seen * Rate(q)[p]
    BY FieldsAre
<1> HIDE DEF cells
<1>4. ASSUME NEW c PROVE A!Total(Field(q, "seen"), OfCell(q, c)) = Cardinality(UnitsOf(q, Once(q), c))
    <2> DEFINE r == Once(q)
               val == Field(q, "seen")
    <2>1. /\ \A p \in CloseIn(q) : r[p] \in Nat
          /\ \A s \in SharesIn(q) : \A p \in CloseIn(q) : InGap(p, s.at) => val[s] = s.seen * r[p]
        BY <1>2, <1>3
    <2> HIDE DEF r, val
    <2>2. A!Total(val, OfCell(q, c)) = Cardinality(UnitsOf(q, r, c))
        BY <2>1, SharesCount
    <2> QED BY <2>2 DEF r, val
<1>5. ASSUME NEW c PROVE A!Total(Field(q, "gained"), OfCell(q, c)) = Cardinality(UnitsOf(q, Rate(q), c))
    <2> DEFINE r == Rate(q)
               val == Field(q, "gained")
    <2>1. /\ \A p \in CloseIn(q) : r[p] \in Nat
          /\ \A s \in SharesIn(q) : \A p \in CloseIn(q) : InGap(p, s.at) => val[s] = s.seen * r[p]
        BY <1>2, <1>3
    <2> HIDE DEF r, val
    <2>2. A!Total(val, OfCell(q, c)) = Cardinality(UnitsOf(q, r, c))
        BY <2>1, SharesCount
    <2> QED BY <2>2 DEF r, val
<1> QED BY <1>1, <1>4, <1>5 DEF cells

LEMMA CellsHold ==
    ASSUME AccountInv
    PROVE  A!CellsAddUp
<1> DEFINE q == A!Within(A!Series("week"), week.ends - WeekLength, now)
           close == {p \in A!Pairs(q) : p[2].ts - p[1].ts <= Attribute}
           cells == A!WeekCells(q)
<1>1. InOrder(q)
    <2> DEFINE from == week.ends - WeekLength
    <2>1. from \in Int /\ now \in Int
        BY StandsAre, AccountNumbers DEF AccountInv
    <2>2. InOrder(WeekSeries)
        BY SeriesInOrder
    <2> HIDE DEF from
    <2>3. \/ A!Within(WeekSeries, from, now) = <<>>
          \/ \E a, b \in DOMAIN WeekSeries : a <= b /\ A!Within(WeekSeries, from, now) = SubSeq(WeekSeries, a, b)
        BY <2>1, <2>2, WithinIs DEF Spanning
    <2>4. \A a, b \in DOMAIN WeekSeries : a <= b => InOrder(SubSeq(WeekSeries, a, b))
        BY <2>2, PartIs
    <2>5. InOrder(A!Within(WeekSeries, from, now))
        BY <2>3, <2>4, NothingInOrder
    <2> QED BY <2>5 DEF from, WeekSeries
<1> HIDE DEF q
<1>2. close = CloseIn(q)
    <2>1. \A p \in A!Pairs(q) : p \in CloseIn(q) <=> p[2].ts - p[1].ts <= Attribute
        BY <1>1, PairsAre
    <2>2. \A p \in CloseIn(q) : p \in A!Pairs(q)
        BY <1>1, PairsAre
    <2> QED BY <2>1, <2>2
<1>3. /\ DOMAIN cells = CellsIn(q)
      /\ \A c \in CellsIn(q) : cells[c].seen = Cardinality(UnitsOf(q, Once(q), c))
      /\ \A c \in CellsIn(q) : cells[c].gained = Cardinality(UnitsOf(q, Rate(q), c))
    BY <1>1, CellsTell
<1>4. \A p \in CloseIn(q) : /\ Once(q)[p] \in Nat /\ Rate(q)[p] \in Nat /\ Once(q)[p] = 1
                            /\ (p[2].ts - p[1].ts) * Rate(q)[p] = Scale * Rise(p)
                            /\ (p[2].ts - p[1].ts) * Once(q)[p] = p[2].ts - p[1].ts
    <2> SUFFICES ASSUME NEW p \in CloseIn(q)
                 PROVE  /\ Once(q)[p] \in Nat /\ Rate(q)[p] \in Nat /\ Once(q)[p] = 1
                        /\ (p[2].ts - p[1].ts) * Rate(q)[p] = Scale * Rise(p)
                        /\ (p[2].ts - p[1].ts) * Once(q)[p] = p[2].ts - p[1].ts
        OBVIOUS
    <2>1. p[1].ts \in Nat /\ p[2].ts \in Nat
        BY <1>1, PairsAre
    <2>2. Once(q)[p] = 1 /\ Rate(q)[p] \in Nat /\ (p[2].ts - p[1].ts) * Rate(q)[p] = Scale * Rise(p)
        BY <1>1, RatesAre
    <2> QED BY <2>1, <2>2
<1> HIDE DEF cells, close
<1>5. \A c \in DOMAIN cells : cells[c].seen <= CellHour
    BY <1>1, <1>3, HourIsFull
<1>6. A!Total([c \in DOMAIN cells |-> cells[c].seen], DOMAIN cells) = A!Total([p \in close |-> p[2].ts - p[1].ts], close)
    <2> DEFINE sums == [c \in DOMAIN cells |-> cells[c].seen]
               gains == [p \in close |-> p[2].ts - p[1].ts]
               r == Once(q)
    <2>1. \A c \in CellsIn(q) : sums[c] = Cardinality(UnitsOf(q, r, c))
        BY <1>3
    <2>2. \A p \in CloseIn(q) : r[p] \in Nat /\ gains[p] = (p[2].ts - p[1].ts) * r[p]
        BY <1>2, <1>4
    <2> HIDE DEF sums, gains, r
    <2>3. A!Total(sums, CellsIn(q)) = Cardinality(Units(q, r))
        BY <1>1, <2>1, <2>2, CellsCount
    <2>4. A!Total(gains, CloseIn(q)) = Cardinality(Units(q, r))
        BY <1>1, <2>2, GapsCount
    <2> QED BY <1>2, <1>3, <2>3, <2>4 DEF sums, gains
<1>7. A!Total([c \in DOMAIN cells |-> cells[c].gained], DOMAIN cells)
          = A!Total([p \in close |-> Scale * A!Max({0, p[2].pct - p[1].pct})], close)
    <2> DEFINE sums == [c \in DOMAIN cells |-> cells[c].gained]
               gains == [p \in close |-> Scale * A!Max({0, p[2].pct - p[1].pct})]
               r == Rate(q)
    <2>1. \A c \in CellsIn(q) : sums[c] = Cardinality(UnitsOf(q, r, c))
        BY <1>3
    <2>2. \A p \in CloseIn(q) : gains[p] = Scale * Rise(p)
        BY <1>2 DEF Rise
    <2>3. \A p \in CloseIn(q) : r[p] \in Nat /\ gains[p] = (p[2].ts - p[1].ts) * r[p]
        BY <1>4, <2>2
    <2> HIDE DEF sums, gains, r
    <2>4. A!Total(sums, CellsIn(q)) = Cardinality(Units(q, r))
        BY <1>1, <2>1, <2>3, CellsCount
    <2>5. A!Total(gains, CloseIn(q)) = Cardinality(Units(q, r))
        BY <1>1, <2>3, GapsCount
    <2> QED BY <1>2, <1>3, <2>4, <2>5 DEF sums, gains
<1> QED BY <1>5, <1>6, <1>7 DEF A!CellsAddUp, q, close, cells

-----------------------------------------------------------------------------
(* What a sequence climbed, when each step is one of w or a reset. *)
Steps(s, w) ==
    \A k \in 2..Len(s) : IF k \in A!Cuts(s) THEN w[k] = w[k - 1] ELSE w[k] - w[k - 1] = s[k].pct - s[k - 1].pct

LEMMA ConsumedIs ==
    ASSUME NEW s, InOrder(s), Len(s) >= 2, NEW w, \A k \in 1..Len(s) : w[k] \in Int, Steps(s, w),
           w[1] <= w[Len(s)]
    PROVE  A!Consumed(s) = w[Len(s)] - w[1]
<1> DEFINE n == Len(s)
           Rest(f, k) == f[k - 1] + (IF k \in A!Cuts(s) THEN 0 ELSE s[k].pct - s[k - 1].pct)
           Body(f, k) == IF k = 0 THEN 0 ELSE Rest(f, k)
           Is(f) == f = [k \in 0..n |-> Body(f, k)]
           climbed == CHOOSE f : Is(f)
           v == [k \in 0..n |-> IF k = 0 THEN 0 ELSE w[k] - w[1]]
<1>0. n \in Nat /\ n >= 2 /\ DOMAIN s = 1..n
    BY DEF InOrder
<1>1. \A f : \A k \in 1..n : f[k - 1] = v[k - 1] /\ v[k - 1] \in Int => Rest(f, k) = v[k]
    <2> SUFFICES ASSUME NEW f, NEW k \in 1..n, f[k - 1] = v[k - 1] PROVE Rest(f, k) = v[k]
        OBVIOUS
    <2>1. CASE k = 1
        <3>1. 1 \in A!Cuts(s)
            BY <1>0 DEF A!Cuts
        <3>2. v[0] = 0 /\ v[1] = w[1] - w[1] /\ w[1] \in Int
            BY <1>0
        <3> QED BY <2>1, <3>1, <3>2
    <2>2. CASE k # 1
        <3>1. k \in 2..n /\ k - 1 \in 1..n /\ k - 1 # 0 /\ k # 0
            BY <1>0, <2>2
        <3>2. v[k] = w[k] - w[1] /\ v[k - 1] = w[k - 1] - w[1] /\ w[k] \in Int /\ w[k - 1] \in Int /\ w[1] \in Int
            BY <1>0, <3>1
        <3>3. IF k \in A!Cuts(s) THEN w[k] = w[k - 1] ELSE w[k] - w[k - 1] = s[k].pct - s[k - 1].pct
            BY <3>1 DEF Steps
        <3>4. s[k].pct \in Int /\ s[k - 1].pct \in Int
            BY <1>0, <3>1, ReadingIs
        <3> HIDE DEF v
        <3> QED BY <3>2, <3>3, <3>4
    <2> QED BY <2>1, <2>2
<1>2. \A k \in 0..n : v[k] \in Int
    <2> SUFFICES ASSUME NEW k \in 0..n PROVE v[k] \in Int
        OBVIOUS
    <2>1. k = 0 \/ (k \in 1..n /\ w[k] \in Int)
        BY <1>0
    <2>2. w[1] \in Int
        BY <1>0
    <2> QED BY <2>1, <2>2
<1>3. Is(v)
    <2>1. \A k \in 0..n : v[k] = Body(v, k)
        <3> SUFFICES ASSUME NEW k \in 0..n PROVE v[k] = Body(v, k)
            OBVIOUS
        <3>1. CASE k = 0
            BY <1>0, <3>1
        <3>2. CASE k # 0
            <4>1. k \in 1..n /\ k - 1 \in 0..n
                BY <1>0, <3>2
            <4>2. v[k - 1] \in Int
                BY <1>2, <4>1
            <4> HIDE DEF v, Rest
            <4>3. Rest(v, k) = v[k]
                BY <1>1, <4>1, <4>2
            <4> QED BY <3>2, <4>3
        <3> QED BY <3>1, <3>2
    <2>2. v = [k \in 0..n |-> v[k]]
        OBVIOUS
    <2> HIDE DEF v, Body
    <2> QED BY <2>1, <2>2
<1>4. Is(climbed)
    <2> HIDE DEF Is, v
    <2> QED BY <1>3
<1>5. \A k \in 0..n : climbed[k] = Body(climbed, k)
    <2> HIDE DEF climbed, Body
    <2> QED BY <1>4
<1> HIDE DEF climbed, Is, v, Rest
<1> DEFINE Wrong == {k \in 0..n : climbed[k] # v[k]}
<1>6. Wrong = {}
    <2> SUFFICES ASSUME Wrong # {} PROVE FALSE
        OBVIOUS
    <2>1. Wrong \in SUBSET Nat
        OBVIOUS
    <2>2. PICK k \in Wrong : \A l \in Wrong : k <= l
        <3> HIDE DEF Wrong
        <3> QED BY <2>1, LeastThereIs
    <2>3. k \in 0..n /\ climbed[k] # v[k]
        OBVIOUS
    <2>4. CASE k = 0
        BY <1>0, <1>5, <2>3, <2>4 DEF v
    <2>5. CASE k # 0
        <3>1. k \in 1..n /\ k - 1 \in 0..n /\ ~(k <= k - 1)
            BY <1>0, <2>3, <2>5
        <3>2. climbed[k - 1] = v[k - 1]
            BY <2>2, <3>1
        <3>3. climbed[k] = Rest(climbed, k)
            BY <1>5, <2>3, <2>5
        <3>4. Rest(climbed, k) = v[k]
            BY <1>1, <1>2, <3>1, <3>2
        <3> QED BY <2>3, <3>3, <3>4
    <2> QED BY <2>4, <2>5
<1>7. climbed[n] = w[n] - w[1]
    <2>1. n \in 0..n /\ n # 0
        BY <1>0
    <2>2. climbed[n] = v[n]
        BY <1>6, <2>1
    <2> QED BY <2>1, <2>2 DEF v
<1>8. A!Consumed(s) = A!Max({0, climbed[n]})
    <2>1. ~(n < 2)
        BY <1>0
    <2> QED BY <2>1 DEF A!Consumed, climbed, Is, Rest
<1>9. A!Max({0, w[n] - w[1]}) = w[n] - w[1]
    <2> DEFINE x == w[n] - w[1]
               z == 0
    <2>1. x \in Int /\ 0 <= x /\ z \in Int
        <3>1. w[n] \in Int /\ w[1] \in Int
            BY <1>0
        <3> QED BY <3>1
    <2> HIDE DEF x, z
    <2>2. A!Max({z, x}) \in {z, x} /\ z <= A!Max({z, x}) /\ x <= A!Max({z, x})
        BY <2>1, AccountMin2
    <2>3. A!Max({z, x}) = x
        BY <2>1, <2>2 DEF z
    <2> QED BY <2>3 DEF x, z
<1> QED BY <1>7, <1>8, <1>9

-----------------------------------------------------------------------------
(* The session that runs, by its last reading. *)
Latest == Len(rows)
Opened == rows[Latest].five.ends - Length
IsRunning == rows # <<>> /\ rows[Latest].five.ends > now

LEMMA SessionIs ==
    ASSUME AccountInv, IsRunning
    PROVE  /\ Latest \in DOMAIN rows /\ Opened \in Int /\ Opened <= rows[Latest].ts /\ now < Opened + Length
           /\ \A i \in DOMAIN rows :
                 /\ i <= Latest /\ rows[i].ts <= now
                 /\ Opened < rows[i].ts => rows[i].five.ends = Opened + Length
                 /\ rows[i].ts = Opened => rows[i].five.ends \in {A!None, Opened + Length}
                 /\ rows[i].ts < Opened => rows[i].five.ends # Opened + Length
                 /\ rows[i].five.ends = A!None => rows[i].five.pct = 0
           /\ \A i, j \in DOMAIN rows : i <= j /\ Opened <= rows[i].ts => rows[i].five.pct <= rows[j].five.pct
           /\ Opened + Length # A!None
<1> USE AccountNumbers
<1> DEFINE e == rows[Latest].five.ends
<1>1. Latest \in DOMAIN rows /\ Latest \in Nat /\ DOMAIN rows = 1..Latest
    BY DEF IsRunning, AccountInv, AccountTyped, Latest
<1>2. e \in Int /\ now \in Nat /\ e > now
    BY <1>1, RowIs, StandsAre DEF IsRunning, AccountInv
<1>3. Opened = e - Length /\ Opened \in Int /\ Opened + Length = e /\ e # A!None
    BY <1>2 DEF Opened
<1>4. Opened <= rows[Latest].ts
    <2>1. FiveOK(rows[Latest].five, rows[Latest].ts, 1) /\ rows[Latest].ts \in Nat
        BY <1>1, RowIs DEF AccountInv, AccountTyped
    <2> QED BY <1>2, <1>3, <2>1 DEF FiveOK
<1> HIDE DEF e
<1>5. ASSUME NEW i \in DOMAIN rows
      PROVE  /\ i <= Latest /\ rows[i].ts <= now
             /\ Opened < rows[i].ts => rows[i].five.ends = e
             /\ rows[i].ts = Opened => rows[i].five.ends \in {A!None, e}
             /\ rows[i].ts < Opened => rows[i].five.ends # e
             /\ rows[i].five.ends = A!None => rows[i].five.pct = 0
    <2>1. FiveOK(rows[i].five, rows[i].ts, 1) /\ rows[i].ts \in Nat /\ rows[i].five.ends \in Int /\ rows[i].ts <= now
        BY RowIs DEF AccountInv, AccountTyped, SessionsInv
    <2>2. i <= Latest
        BY <1>1
    <2>3. rows[i].five.ends = A!None => rows[i].five.pct = 0
        BY <2>1 DEF FiveOK
    <2>4. rows[i].ts < Opened => rows[i].five.ends # e
        BY <1>2, <1>3, <2>1 DEF FiveOK
    <2>5. CASE i = Latest
        BY <2>1, <2>2, <2>3, <2>4, <2>5 DEF e
    <2>6. CASE i # Latest
        <3>1. i < Latest
            BY <1>1, <2>6
        <3>2. FiveAfter(rows[i], rows[Latest].five, rows[Latest].used, rows[Latest].ts) /\ rows[i].ts < rows[Latest].ts
            BY <1>1, <3>1 DEF AccountInv, SessionsInv
        <3>3. rows[Latest].ts <= now /\ rows[Latest].ts \in Nat
            BY <1>1, RowIs DEF AccountInv, SessionsInv
        <3>4. CASE rows[i].five.ends = A!None
            <4>1. rows[i].ts <= e - Length
                BY <1>3, <3>2, <3>4 DEF FiveAfter, e
            <4> QED BY <1>2, <1>3, <2>1, <2>2, <2>3, <2>4, <3>4, <4>1
        <3>5. CASE rows[i].five.ends # A!None
            <4>1. rows[i].five.ends = e \/ rows[i].five.ends <= e - Length
                BY <1>3, <3>2, <3>5 DEF FiveAfter, e
            <4>2. rows[i].ts < rows[i].five.ends
                BY <2>1, <3>5 DEF FiveOK
            <4>3. rows[i].five.ends = e \/ rows[i].ts < Opened
                BY <1>2, <1>3, <2>1, <4>1, <4>2
            <4> QED BY <1>3, <2>1, <2>2, <2>3, <2>4, <4>3
        <3> QED BY <3>4, <3>5
    <2> QED BY <2>5, <2>6
<1>6. ASSUME NEW i \in DOMAIN rows, NEW j \in DOMAIN rows, i <= j, Opened <= rows[i].ts
      PROVE  rows[i].five.pct <= rows[j].five.pct
    <2>1. rows[i].five.pct \in Nat /\ rows[j].five.pct \in Nat /\ rows[i].ts \in Nat /\ i \in Int /\ j \in Int /\ rows[j].ts \in Nat
        BY <1>1, RowIs DEF AccountInv
    <2>2. CASE i = j
        BY <2>1, <2>2
    <2>3. CASE rows[i].five.ends = A!None
        BY <1>5, <2>1, <2>3
    <2>4. CASE i # j /\ rows[i].five.ends # A!None
        <3>1. i < j
            BY <1>6, <2>1, <2>4
        <3>2. rows[i].ts < rows[j].ts
            BY <3>1, InTime
        <3>3. rows[j].five.ends = e
            BY <1>3, <1>5, <1>6, <2>1, <3>2
        <3>4. rows[i].five.ends = e
            BY <1>3, <1>5, <1>6, <2>1, <2>4
        <3> QED BY <1>6, <2>4, <3>3, <3>4, ClimbsOn
    <2> QED BY <2>2, <2>3, <2>4
<1> QED BY <1>1, <1>2, <1>3, <1>4, <1>5, <1>6

-----------------------------------------------------------------------------
(* The samples of an hour: from the one carried into it, or that opens it, *)
(* or the first there is, to its last.                                     *)
Carried(q, start, to, a, b) ==
    /\ a \in DOMAIN q /\ b \in DOMAIN q /\ a <= b
    /\ start <= q[b].ts /\ q[b].ts <= to
    /\ \A k \in DOMAIN q : q[k].ts <= to => k <= b
    /\ \/ q[a].ts < start /\ a < b /\ start < q[a + 1].ts
       \/ q[a].ts = start
       \/ start < q[a].ts /\ a = 1

LEMMA HourIs ==
    ASSUME NEW q, InOrder(q), NEW start \in Int, NEW end \in Int, NEW at \in Int
    PROVE  LET to == A!Min({end, at})
           IN  \/ /\ A!HourSamples(q, start, end, at) = <<>>
                  /\ \A k \in DOMAIN q : ~(start <= q[k].ts /\ q[k].ts <= to)
               \/ \E a, b \in DOMAIN q : Carried(q, start, to, a, b) /\ A!HourSamples(q, start, end, at) = SubSeq(q, a, b)
<1> DEFINE to == A!Min({end, at})
           inside == {i \in DOMAIN q : start <= q[i].ts /\ q[i].ts <= to}
           before == {i \in DOMAIN q : q[i].ts < start}
           lo == A!Min(inside)
           b == A!Max(inside)
           prior == A!Max(before)
           a == IF before # {} /\ q[lo].ts > start THEN prior ELSE lo
<1>0. to \in Int
    BY AccountMin2
<1>1. A!HourSamples(q, start, end, at) = IF inside = {} THEN <<>> ELSE SubSeq(q, a, b)
    BY DEF A!HourSamples
<1> HIDE DEF to
<1>2. CASE inside = {}
    BY <1>1, <1>2 DEF to
<1>3. CASE inside # {}
    <2>1. DOMAIN q = 1..Len(q) /\ Len(q) \in Nat
        BY DEF InOrder
    <2>2. inside \in SUBSET (1..Len(q)) /\ before \in SUBSET (1..Len(q))
        BY <2>1
    <2>3. \A k \in DOMAIN q : /\ k \in inside <=> start <= q[k].ts /\ q[k].ts <= to
                              /\ k \in before <=> q[k].ts < start
        OBVIOUS
    <2> HIDE DEF inside, before
    <2>4. lo \in inside /\ b \in inside /\ \A k \in inside : lo <= k /\ k <= b
        BY <1>3, <2>1, <2>2, PlaceEnds
    <2>5. before # {} => prior \in before /\ \A k \in before : k <= prior
        BY <2>1, <2>2, PlaceEnds
    <2>6. lo \in DOMAIN q /\ b \in DOMAIN q /\ lo <= b /\ start <= q[lo].ts /\ start <= q[b].ts /\ q[b].ts <= to
        BY <2>1, <2>2, <2>3, <2>4
    <2> HIDE DEF lo, b, prior
    <2>7. ASSUME NEW k \in DOMAIN q, q[k].ts <= to PROVE k <= b
        <3>1. CASE start <= q[k].ts
            BY <2>3, <2>4, <2>7, <3>1
        <3>2. CASE ~(start <= q[k].ts)
            <4>1. q[k].ts <= q[b].ts
                BY <2>6, <3>2, ReadingIs
            <4> QED BY <2>6, <4>1, OrderIs
        <3> QED BY <3>1, <3>2
    <2>8. CASE before # {} /\ q[lo].ts > start
        <3>1. a = prior /\ prior \in DOMAIN q /\ q[prior].ts < start
            BY <2>1, <2>2, <2>3, <2>5, <2>8
        <3>2. prior < lo
            <4>1. q[prior].ts < q[lo].ts
                BY <2>6, <3>1, ReadingIs
            <4> QED BY <2>6, <3>1, <4>1, OrderIs
        <3>3. prior + 1 \in DOMAIN q /\ prior < b
            BY <2>1, <2>6, <3>1, <3>2
        <3>4. start < q[prior + 1].ts
            <4>1. prior + 1 \notin before
                <5>1. prior \in Nat
                    BY <2>1, <3>1
                <5> QED BY <2>5, <2>8, <5>1
            <4>2. start <= q[prior + 1].ts
                BY <2>3, <3>3, <4>1, ReadingIs
            <4>3. prior + 1 <= lo
                BY <2>1, <2>6, <3>1, <3>2
            <4>4. CASE prior + 1 = lo
                BY <2>8, <4>4
            <4>5. CASE prior + 1 # lo
                <5>1. prior + 1 < lo
                    BY <2>1, <2>6, <3>3, <4>3, <4>5
                <5>2. q[prior + 1].ts < q[lo].ts
                    BY <2>6, <3>3, <5>1, OrderIs
                <5>3. q[lo].ts <= to
                    BY <2>3, <2>4, <2>6
                <5>4. q[prior + 1].ts \in Int /\ q[lo].ts \in Int
                    BY <2>6, <3>3, ReadingIs
                <5>5. prior + 1 \in inside
                    BY <1>0, <2>3, <3>3, <4>2, <5>2, <5>3, <5>4
                <5>6. lo <= prior + 1
                    BY <2>4, <5>5
                <5> QED BY <2>1, <2>6, <3>3, <5>1, <5>6
            <4> QED BY <4>4, <4>5
        <3>5. Carried(q, start, to, prior, b)
            BY <2>1, <2>6, <2>7, <3>1, <3>3, <3>4 DEF Carried
        <3>6. A!HourSamples(q, start, end, at) = SubSeq(q, prior, b)
            BY <1>1, <1>3, <3>1
        <3> QED BY <2>6, <3>1, <3>5, <3>6 DEF to
    <2>9. CASE ~(before # {} /\ q[lo].ts > start)
        <3>1. a = lo
            BY <2>9
        <3>2. q[lo].ts = start \/ (start < q[lo].ts /\ lo = 1)
            <4>1. CASE q[lo].ts = start
                BY <4>1
            <4>2. CASE q[lo].ts # start
                <5>1. start < q[lo].ts
                    BY <2>6, <4>2, ReadingIs
                <5>2. before = {}
                    BY <2>9, <5>1, <2>6, ReadingIs
                <5>3. 1 \in DOMAIN q
                    BY <2>1, <2>6
                <5>4. start <= q[1].ts
                    BY <2>3, <5>2, <5>3, ReadingIs
                <5>5. q[1].ts <= q[lo].ts
                    <6>1. 1 <= lo
                        BY <2>1, <2>6
                    <6> QED BY <2>6, <5>3, <6>1, OrderIs
                <5>6. q[1].ts \in Int /\ q[lo].ts \in Int /\ q[lo].ts <= to
                    BY <2>3, <2>4, <2>6, <5>3, ReadingIs
                <5>7. 1 \in inside
                    BY <1>0, <2>3, <5>3, <5>4, <5>5, <5>6
                <5>8. lo <= 1
                    BY <2>4, <5>7
                <5> QED BY <2>1, <2>6, <5>1, <5>8
            <4> QED BY <4>1, <4>2
        <3>3. Carried(q, start, to, lo, b)
            BY <2>6, <2>7, <3>2 DEF Carried
        <3>4. A!HourSamples(q, start, end, at) = SubSeq(q, lo, b)
            BY <1>1, <1>3, <3>1
        <3> QED BY <2>6, <3>3, <3>4 DEF to
    <2> QED BY <2>8, <2>9
<1> QED BY <1>2, <1>3

-----------------------------------------------------------------------------
IsFirst(m) ==
    /\ m \in DOMAIN rows /\ Opened <= rows[m].ts
    /\ \A k \in DOMAIN rows : Opened <= rows[k].ts <=> m <= k

(* What was used of the session before its first reading, if another says  *)
(* that there was none, or else by then; and by a reading.                 *)
BeforeIt(m) == m > 1 /\ rows[m - 1].five.ends = A!None /\ rows[m].ts > Opened
Base(m) == IF BeforeIt(m) THEN rows[m - 1].five.pct ELSE rows[m].five.pct
Worth(m, k) == IF k < m THEN Base(m) ELSE rows[k].five.pct

LEMMA MineIs ==
    ASSUME AccountInv, IsRunning
    PROVE  \E m \in DOMAIN rows : IsFirst(m) /\ A!Within(FiveSeries, Opened, now) = SubSeq(FiveSeries, m, Latest)
<1>1. /\ Latest \in DOMAIN rows /\ Opened \in Int /\ Opened <= rows[Latest].ts
      /\ \A i \in DOMAIN rows : i <= Latest /\ rows[i].ts <= now
    BY SessionIs
<1>2. /\ DOMAIN FiveSeries = DOMAIN rows /\ DOMAIN rows = 1..Latest /\ Latest \in Nat
      /\ \A i \in DOMAIN rows : FiveSeries[i].ts = rows[i].ts
    BY SeriesIs DEF AccountInv, Latest
<1>3. InOrder(FiveSeries) /\ now \in Int
    BY SeriesInOrder, StandsAre DEF AccountInv
<1>4. Opened <= FiveSeries[Latest].ts /\ FiveSeries[Latest].ts <= now
    BY <1>1, <1>2
<1>5. \E a, b \in DOMAIN FiveSeries : Spanning(FiveSeries, Opened, now, a, b)
                                      /\ A!Within(FiveSeries, Opened, now) = SubSeq(FiveSeries, a, b)
    BY <1>1, <1>2, <1>3, <1>4, WithinIs
<1>6. PICK m \in DOMAIN FiveSeries, b \in DOMAIN FiveSeries :
          Spanning(FiveSeries, Opened, now, m, b) /\ A!Within(FiveSeries, Opened, now) = SubSeq(FiveSeries, m, b)
    BY <1>5
<1>7. m \in DOMAIN rows /\ b \in DOMAIN rows /\ m <= b
    BY <1>2, <1>6 DEF Spanning
<1>8. \A k \in DOMAIN rows : Opened <= rows[k].ts <=> m <= k /\ k <= b
    BY <1>1, <1>2, <1>6 DEF Spanning
<1>9. b = Latest
    BY <1>1, <1>2, <1>7, <1>8
<1>10. IsFirst(m)
    BY <1>1, <1>2, <1>7, <1>8, <1>9 DEF IsFirst
<1> QED BY <1>6, <1>7, <1>9, <1>10

LEMMA WorthIs ==
    ASSUME AccountInv, IsRunning, NEW m, IsFirst(m)
    PROVE  /\ Base(m) \in Nat /\ Base(m) <= rows[m].five.pct
           /\ m - 1 \in DOMAIN rows \/ m = 1
           /\ \A k \in DOMAIN rows : Worth(m, k) \in Nat /\ Base(m) <= Worth(m, k)
           /\ \A k, l \in DOMAIN rows : k <= l => Worth(m, k) <= Worth(m, l)
<1>1. DOMAIN rows = 1..Len(rows) /\ Len(rows) \in Nat /\ m \in DOMAIN rows
    BY SeriesIs DEF AccountInv, IsFirst
<1>2. \A k \in DOMAIN rows : rows[k].five.pct \in Nat /\ rows[k].ts \in Nat
    BY RowIs DEF AccountInv
<1>3. m - 1 \in DOMAIN rows \/ m = 1
    BY <1>1
<1>4. Base(m) \in Nat /\ Base(m) <= rows[m].five.pct
    <2>1. CASE BeforeIt(m)
        <3>1. m - 1 \in DOMAIN rows /\ rows[m - 1].five.ends = A!None
            BY <1>1, <2>1 DEF BeforeIt
        <3>2. rows[m - 1].five.pct = 0
            BY <3>1, SessionIs
        <3> QED BY <1>1, <1>2, <2>1, <3>2 DEF Base
    <2>2. CASE ~BeforeIt(m)
        BY <1>1, <1>2, <2>2 DEF Base
    <2> QED BY <2>1, <2>2
<1>5. ASSUME NEW k \in DOMAIN rows, m <= k PROVE Base(m) <= rows[k].five.pct
    <2>1. rows[m].five.pct <= rows[k].five.pct
        BY <1>1, <1>5, SessionIs DEF IsFirst
    <2> QED BY <1>1, <1>2, <1>4, <2>1
<1>6. \A k \in DOMAIN rows : Worth(m, k) \in Nat /\ Base(m) <= Worth(m, k)
    <2> SUFFICES ASSUME NEW k \in DOMAIN rows PROVE Worth(m, k) \in Nat /\ Base(m) <= Worth(m, k)
        OBVIOUS
    <2>1. CASE k < m
        BY <1>4, <2>1 DEF Worth
    <2>2. CASE ~(k < m)
        <3>1. m <= k
            BY <1>1, <2>2
        <3> QED BY <1>2, <1>5, <2>2, <3>1 DEF Worth
    <2> QED BY <2>1, <2>2
<1>7. ASSUME NEW k \in DOMAIN rows, NEW l \in DOMAIN rows, k <= l PROVE Worth(m, k) <= Worth(m, l)
    <2>1. CASE l < m
        <3>1. k < m
            BY <1>1, <1>7, <2>1
        <3> QED BY <1>4, <2>1, <3>1 DEF Worth
    <2>2. CASE k < m /\ ~(l < m)
        BY <1>6, <2>2 DEF Worth
    <2>3. CASE ~(k < m)
        <3>1. m <= k /\ ~(l < m)
            BY <1>1, <1>7, <2>3
        <3>2. rows[k].five.pct <= rows[l].five.pct
            BY <1>7, <3>1, SessionIs DEF IsFirst
        <3> QED BY <2>3, <3>1, <3>2 DEF Worth
    <2> QED BY <2>1, <2>2, <2>3
<1> QED BY <1>3, <1>4, <1>6, <1>7

(* From one reading to the next the session was used for the difference,   *)
(* or another one ended.                                                   *)
LEMMA WorthSteps ==
    ASSUME AccountInv, IsRunning, NEW m, IsFirst(m), NEW j \in DOMAIN rows, j - 1 \in DOMAIN rows, Opened < rows[j].ts
    PROVE  IF A!IsReset(FiveSeries[j - 1], FiveSeries[j])
           THEN Worth(m, j) = Worth(m, j - 1)
           ELSE Worth(m, j) - Worth(m, j - 1) = FiveSeries[j].pct - FiveSeries[j - 1].pct
<1> USE AccountNumbers
<1> DEFINE r == FiveSeries[j - 1]
           s == FiveSeries[j]
<1>1. DOMAIN rows = 1..Len(rows) /\ Len(rows) \in Nat /\ m \in DOMAIN rows /\ Opened \in Int
    BY SeriesIs, SessionIs DEF AccountInv, IsFirst
<1>2. /\ r.ts = rows[j - 1].ts /\ r.pct = rows[j - 1].five.pct /\ r.ends = rows[j - 1].five.ends
      /\ s.ts = rows[j].ts /\ s.pct = rows[j].five.pct /\ s.ends = rows[j].five.ends
    BY SeriesIs DEF AccountInv
<1>3. /\ r.ts \in Nat /\ r.pct \in Nat /\ r.ends \in Int /\ s.ts \in Nat /\ s.pct \in Nat /\ s.ends \in Int
    BY <1>2, RowIs DEF AccountInv
<1>4. s.ends = Opened + Length /\ s.ends # A!None
    BY <1>2, SessionIs
<1>5. r.ends = A!None => r.pct = 0
    BY <1>2, SessionIs
<1>6. m <= j
    BY <1>1, <1>2, <1>3 DEF IsFirst
<1>7. Worth(m, j) = s.pct
    BY <1>1, <1>2, <1>6 DEF Worth
<1>8. A!IsReset(r, s) <=> r.ends # A!None /\ r.ends # s.ends
    <2>1. CASE r.ends = A!None
        <3>1. A!IsReset(r, s) <=> r.pct - s.pct > ResetDrop
            BY <2>1 DEF A!IsReset
        <3> QED BY <1>3, <1>5, <2>1, <3>1
    <2>2. CASE r.ends # A!None
        BY <1>4, <2>2 DEF A!IsReset
    <2> QED BY <2>1, <2>2
<1>9. CASE Opened <= rows[j - 1].ts
    <2>1. ~(j - 1 < m)
        BY <1>1, <1>9 DEF IsFirst
    <2>2. Worth(m, j - 1) = r.pct
        BY <1>2, <2>1 DEF Worth
    <2>3. r.ends \in {A!None, s.ends}
        <3>1. Opened < rows[j - 1].ts \/ rows[j - 1].ts = Opened
            BY <1>1, <1>2, <1>3, <1>9
        <3> QED BY <1>2, <1>4, <3>1, SessionIs
    <2>4. ~A!IsReset(r, s)
        BY <1>8, <2>3
    <2> QED BY <1>7, <2>2, <2>4
<1>10. CASE rows[j - 1].ts < Opened
    <2>1. ~(m <= j - 1)
        BY <1>1, <1>2, <1>3, <1>10 DEF IsFirst
    <2>2. j = m
        BY <1>1, <1>6, <2>1
    <2>3. Worth(m, j - 1) = Base(m)
        BY <1>1, <2>2 DEF Worth
    <2>4. r.ends # s.ends
        BY <1>2, <1>4, <1>10, SessionIs
    <2>5. BeforeIt(m) <=> r.ends = A!None
        BY <1>1, <1>2, <2>2 DEF BeforeIt
    <2>6. Base(m) = IF r.ends = A!None THEN r.pct ELSE s.pct
        BY <1>2, <2>2, <2>5 DEF Base
    <2> QED BY <1>3, <1>7, <1>8, <2>3, <2>4, <2>6
<1>11. CASE ~(Opened <= rows[j - 1].ts) /\ ~(rows[j - 1].ts < Opened)
    BY <1>1, <1>2, <1>3, <1>11
<1> QED BY <1>9, <1>10, <1>11

(* What an hour is said to have consumed. *)
LEMMA HourConsumes ==
    ASSUME AccountInv, IsRunning, NEW m, IsFirst(m), NEW start \in Int, Opened <= start,
           NEW to, NEW a, NEW b, Carried(FiveSeries, start, to, a, b)
    PROVE  /\ a < b => A!Consumed(SubSeq(FiveSeries, a, b)) = Worth(m, b) - Worth(m, a)
           /\ ~(a < b) => A!Consumed(SubSeq(FiveSeries, a, b)) = A!None
           /\ m <= b
<1> DEFINE s == SubSeq(FiveSeries, a, b)
           n == b - a + 1
           w == [k \in 1..n |-> Worth(m, a + k - 1)]
<1>1. InOrder(FiveSeries) /\ Opened \in Int
    BY SeriesInOrder, SessionIs
<1>2. /\ DOMAIN FiveSeries = DOMAIN rows /\ DOMAIN rows = 1..Len(rows) /\ Len(rows) \in Nat
      /\ \A i \in DOMAIN rows : FiveSeries[i].ts = rows[i].ts
    BY SeriesIs DEF AccountInv
<1>3. a \in DOMAIN FiveSeries /\ b \in DOMAIN FiveSeries /\ a <= b /\ start <= FiveSeries[b].ts
    BY DEF Carried
<1>4. /\ InOrder(s) /\ Len(s) = n /\ DOMAIN s = 1..n
      /\ \A k \in 1..n : s[k] = FiveSeries[a + k - 1] /\ a + k - 1 \in DOMAIN FiveSeries
    BY <1>1, <1>3, PartIs
<1>5. n \in Nat /\ n >= 1 /\ (a < b <=> n >= 2)
    BY <1>2, <1>3
<1>6. m <= b
    <2>1. Opened <= rows[b].ts
        BY <1>1, <1>2, <1>3, ReadingIs
    <2> QED BY <1>2, <1>3, <2>1 DEF IsFirst
<1>7. \A k \in 1..n : w[k] = Worth(m, a + k - 1) /\ w[k] \in Int
    <2>1. \A k \in 1..n : w[k] = Worth(m, a + k - 1)
        OBVIOUS
    <2>2. \A k \in DOMAIN rows : Worth(m, k) \in Int
        BY WorthIs
    <2> HIDE DEF w
    <2> QED BY <1>2, <1>4, <2>1, <2>2
<1>8. ASSUME NEW j \in DOMAIN rows, a < j PROVE Opened < rows[j].ts
    <2>1. FiveSeries[a].ts < FiveSeries[j].ts
        BY <1>1, <1>2, <1>3, <1>8, OrderIs
    <2>2. FiveSeries[a].ts \in Int /\ FiveSeries[j].ts \in Int
        BY <1>1, <1>2, <1>3, <1>8, ReadingIs
    <2>3. CASE start <= FiveSeries[a].ts
        BY <1>1, <1>2, <2>1, <2>2, <2>3
    <2>4. CASE ~(start <= FiveSeries[a].ts)
        <3>1. FiveSeries[a].ts < start /\ a < b /\ start < FiveSeries[a + 1].ts
            BY <2>2, <2>4 DEF Carried
        <3>2. a + 1 \in DOMAIN FiveSeries /\ a + 1 <= j
            BY <1>2, <1>3, <1>8, <3>1
        <3>3. FiveSeries[a + 1].ts <= FiveSeries[j].ts
            BY <1>1, <1>2, <3>2, OrderIs
        <3>4. FiveSeries[a + 1].ts \in Int
            BY <1>1, <3>2, ReadingIs
        <3> QED BY <1>1, <1>2, <2>2, <3>1, <3>3, <3>4
    <2> QED BY <2>3, <2>4
<1> HIDE DEF s, n, w
<1>9. Steps(s, w)
    <2> SUFFICES ASSUME NEW k \in 2..n
                 PROVE  IF k \in A!Cuts(s) THEN w[k] = w[k - 1] ELSE w[k] - w[k - 1] = s[k].pct - s[k - 1].pct
        BY <1>4 DEF Steps
    <2> DEFINE j == a + k - 1
    <2>1. k \in 1..n /\ k - 1 \in 1..n /\ k # 1
        BY <1>5
    <2>2. j \in DOMAIN rows /\ a < j /\ a + (k - 1) - 1 = j - 1 /\ j - 1 \in DOMAIN rows
        <3>1. j \in DOMAIN rows /\ a + (k - 1) - 1 \in DOMAIN rows
            BY <1>2, <1>4, <2>1
        <3>2. a \in Int /\ k \in Int
            BY <1>2, <1>3
        <3> QED BY <3>1, <3>2
    <2>3. s[k] = FiveSeries[j] /\ s[k - 1] = FiveSeries[j - 1] /\ w[k] = Worth(m, j) /\ w[k - 1] = Worth(m, j - 1)
        BY <1>4, <1>7, <2>1, <2>2
    <2>4. k \in A!Cuts(s) <=> A!IsReset(s[k - 1], s[k])
        BY <1>4, <2>1 DEF A!Cuts
    <2> HIDE DEF j
    <2>5. Opened < rows[j].ts
        BY <1>8, <2>2
    <2>6. IF A!IsReset(FiveSeries[j - 1], FiveSeries[j])
          THEN Worth(m, j) = Worth(m, j - 1)
          ELSE Worth(m, j) - Worth(m, j - 1) = FiveSeries[j].pct - FiveSeries[j - 1].pct
        BY <2>2, <2>5, WorthSteps
    <2> QED BY <2>3, <2>4, <2>6
<1>10. w[1] = Worth(m, a) /\ w[n] = Worth(m, b)
    <2>1. 1 \in 1..n /\ n \in 1..n
        BY <1>5
    <2>2. a + 1 - 1 = a /\ a + n - 1 = b
        BY <1>2, <1>3 DEF n
    <2> QED BY <1>7, <2>1, <2>2
<1>11. w[1] <= w[n]
    BY <1>2, <1>3, <1>10, WorthIs
<1>12. ASSUME a < b PROVE A!Consumed(s) = Worth(m, b) - Worth(m, a)
    <2>1. A!Consumed(s) = w[Len(s)] - w[1]
        BY <1>4, <1>5, <1>7, <1>9, <1>11, <1>12, ConsumedIs
    <2> QED BY <1>4, <1>10, <2>1
<1>13. ASSUME ~(a < b) PROVE A!Consumed(s) = A!None
    <2>1. Len(s) < 2
        BY <1>4, <1>5, <1>13
    <2> QED BY <2>1 DEF A!Consumed
<1> QED BY <1>6, <1>12, <1>13 DEF s

-----------------------------------------------------------------------------
(* The hours of a session: what each is said to have consumed. *)
Hours == 0..(Length \div Hour) - 1
StartOf(i) == Opened + i * Hour
SamplesOf(i) == A!HourSamples(FiveSeries, StartOf(i), StartOf(i) + Hour, now)
ConsumedIn(i) == IF StartOf(i) >= now THEN A!None ELSE A!Consumed(SamplesOf(i))
Shown == {i \in Hours : ConsumedIn(i) # A!None}

LEMMA HoursAre ==
    /\ Length \div Hour \in Nat /\ (Length \div Hour) * Hour = Length
    /\ \A i, j \in Hours : i < j => i * Hour + Hour <= j * Hour
    /\ \A i \in Hours : i * Hour \in Nat
<1> USE HourNumbers, AccountNumbers
<1> DEFINE h == Length \div Hour
<1>1. h \in Int /\ Length = Hour * h + (Length % Hour)
    OBVIOUS
<1>2. Hour * h = Length /\ h * Hour = Hour * h
    BY <1>1
<1>3. h \in Nat
    <2>1. ASSUME h < 0 PROVE FALSE
        <3>1. h <= -1 /\ -1 \in Int
            BY <1>1, <2>1
        <3> HIDE DEF h
        <3>2. Hour * h <= Hour * (-1)
            BY <1>1, <3>1, TimesGrows
        <3>3. Hour * (-1) = -Hour
            OBVIOUS
        <3> QED BY <1>2, <3>2, <3>3
    <2> QED BY <1>1, <2>1
<1> HIDE DEF h
<1>4. ASSUME NEW i \in Nat, NEW j \in Nat, i < j PROVE i * Hour + Hour <= j * Hour
    <2>1. Hour * (i + 1) <= Hour * j
        BY <1>4, TimesGrows
    <2>2. Hour * (i + 1) = i * Hour + Hour /\ Hour * j = j * Hour
        OBVIOUS
    <2> QED BY <2>1, <2>2
<1>5. \A i \in Nat : i * Hour \in Nat
    OBVIOUS
<1>6. \A i \in Hours : i \in Nat
    BY DEF Hours, h
<1> QED BY <1>2, <1>3, <1>4, <1>5, <1>6 DEF h

(* The rows of an hour, when it has more than one. *)
IsHour(i, a, b) == Carried(FiveSeries, StartOf(i), A!Min({StartOf(i) + Hour, now}), a, b)

LEMMA OneHour ==
    ASSUME AccountInv, IsRunning, NEW i \in Hours,
           NEW a \in DOMAIN rows, NEW b \in DOMAIN rows, IsHour(i, a, b),
           NEW c \in DOMAIN rows, NEW d \in DOMAIN rows, IsHour(i, c, d)
    PROVE  a = c /\ b = d
<1> USE HourNumbers, AccountNumbers
<1> DEFINE start == StartOf(i)
           to == A!Min({start + Hour, now})
<1>1. start \in Int
    BY SessionIs, HoursAre DEF StartOf
<1>2. InOrder(FiveSeries) /\ DOMAIN FiveSeries = DOMAIN rows /\ DOMAIN rows = 1..Len(rows) /\ Len(rows) \in Nat
      /\ \A k \in DOMAIN rows : FiveSeries[k].ts = rows[k].ts /\ rows[k].ts \in Nat
    BY SeriesInOrder, SeriesIs, RowIs DEF AccountInv
<1>3. Carried(FiveSeries, start, to, a, b) /\ Carried(FiveSeries, start, to, c, d)
    BY DEF IsHour
<1> HIDE DEF to, start
<1>4. b <= d /\ d <= b
    BY <1>2, <1>3 DEF Carried
<1>5. ASSUME NEW x \in DOMAIN rows, NEW y \in DOMAIN rows,
             Carried(FiveSeries, start, to, x, b), Carried(FiveSeries, start, to, y, b), x < y
      PROVE  FALSE
    <2>1. FiveSeries[x].ts < FiveSeries[y].ts
        BY <1>2, <1>5, OrderIs
    <2>2. start \in Int /\ FiveSeries[x].ts \in Int /\ FiveSeries[y].ts \in Int
        BY <1>1, <1>2 DEF start
    <2>3. y # 1
        BY <1>2, <1>5
    <2>4. FiveSeries[y].ts <= start
        BY <1>5, <2>2, <2>3 DEF Carried
    <2>5. FiveSeries[x].ts < start
        BY <2>1, <2>2, <2>4
    <2>6. x < b /\ start < FiveSeries[x + 1].ts
        BY <1>5, <2>2, <2>5 DEF Carried
    <2>7. x + 1 \in DOMAIN rows /\ x + 1 <= y
        BY <1>2, <1>5
    <2>8. FiveSeries[x + 1].ts <= FiveSeries[y].ts /\ FiveSeries[x + 1].ts \in Int
        BY <1>2, <2>7, OrderIs
    <2> QED BY <2>2, <2>4, <2>6, <2>8
<1>6. b = d
    BY <1>2, <1>4
<1>7. ~(a < c) /\ ~(c < a)
    BY <1>3, <1>5, <1>6
<1> QED BY <1>2, <1>6, <1>7

LEMMA HourHas ==
    ASSUME AccountInv, IsRunning, NEW m, IsFirst(m), NEW i \in Hours
    PROVE  /\ StartOf(i) \in Int /\ Opened <= StartOf(i)
           /\ i \in Shown => \E a, b \in DOMAIN rows : IsHour(i, a, b) /\ a < b
           /\ \A a, b \in DOMAIN rows : IsHour(i, a, b) /\ a < b /\ i \in Shown =>
                 ConsumedIn(i) = Worth(m, b) - Worth(m, a)
           /\ \A k \in DOMAIN rows : StartOf(i) < rows[k].ts /\ rows[k].ts <= StartOf(i) + Hour =>
                 \E a, b \in DOMAIN rows : IsHour(i, a, b) /\ k <= b /\ (a < b => i \in Shown)
<1> USE HourNumbers, AccountNumbers
<1>1. Opened \in Int /\ now \in Nat /\ i * Hour \in Nat
    BY SessionIs, StandsAre, HoursAre DEF AccountInv
<1>2. StartOf(i) \in Int /\ Opened <= StartOf(i)
    BY <1>1 DEF StartOf
<1> DEFINE start == StartOf(i)
           end == start + Hour
           to == A!Min({end, now})
<1>3. end \in Int
    BY <1>2
<1>4. InOrder(FiveSeries) /\ DOMAIN FiveSeries = DOMAIN rows /\ DOMAIN rows = 1..Len(rows) /\ Len(rows) \in Nat
      /\ \A k \in DOMAIN rows : FiveSeries[k].ts = rows[k].ts /\ rows[k].ts \in Nat /\ rows[k].ts <= now
    BY SeriesInOrder, SeriesIs, RowIs DEF AccountInv, SessionsInv
<1>5. to \in {end, now} /\ to <= end /\ to <= now
    <2>1. now \in Int
        BY <1>1
    <2> HIDE DEF end
    <2> QED BY <1>3, <2>1, AccountMin2
<1>6. SamplesOf(i) = A!HourSamples(FiveSeries, start, end, now)
    BY DEF SamplesOf
<1>7. \/ /\ SamplesOf(i) = <<>>
         /\ \A k \in DOMAIN rows : ~(start <= rows[k].ts /\ rows[k].ts <= to)
      \/ \E a, b \in DOMAIN rows : IsHour(i, a, b) /\ SamplesOf(i) = SubSeq(FiveSeries, a, b)
    <2>1. now \in Int
        BY <1>1
    <2> HIDE DEF end, start
    <2>2. \/ /\ A!HourSamples(FiveSeries, start, end, now) = <<>>
             /\ \A k \in DOMAIN FiveSeries : ~(start <= FiveSeries[k].ts /\ FiveSeries[k].ts <= to)
          \/ \E a, b \in DOMAIN FiveSeries : Carried(FiveSeries, start, to, a, b)
                                             /\ A!HourSamples(FiveSeries, start, end, now) = SubSeq(FiveSeries, a, b)
        BY <1>2, <1>3, <1>4, <2>1, HourIs DEF start
    <2> QED BY <1>4, <1>6, <2>2 DEF IsHour, start, end
<1> HIDE DEF to, end, start
<1>8. ASSUME NEW a \in DOMAIN rows, NEW b \in DOMAIN rows, IsHour(i, a, b), SamplesOf(i) = SubSeq(FiveSeries, a, b)
      PROVE  /\ a < b => A!Consumed(SamplesOf(i)) = Worth(m, b) - Worth(m, a)
             /\ ~(a < b) => A!Consumed(SamplesOf(i)) = A!None
    BY <1>2, <1>8, HourConsumes DEF IsHour
<1>10. ASSUME i \in Shown
       PROVE  \E a, b \in DOMAIN rows : IsHour(i, a, b) /\ a < b /\ ConsumedIn(i) = Worth(m, b) - Worth(m, a)
    <2>1. ConsumedIn(i) = A!Consumed(SamplesOf(i)) /\ ConsumedIn(i) # A!None
        BY <1>10 DEF Shown, ConsumedIn
    <2>2. CASE SamplesOf(i) = <<>>
        <3>1. A!Consumed(<<>>) = A!None
            <4>1. Len(<<>>) < 2
                OBVIOUS
            <4> QED BY <4>1 DEF A!Consumed
        <3> QED BY <2>1, <2>2, <3>1
    <2>3. CASE SamplesOf(i) # <<>>
        <3>1. PICK a \in DOMAIN rows, b \in DOMAIN rows : IsHour(i, a, b) /\ SamplesOf(i) = SubSeq(FiveSeries, a, b)
            BY <1>7, <2>3
        <3> QED BY <1>8, <2>1, <3>1
    <2> QED BY <2>2, <2>3
<1>11. ASSUME NEW k \in DOMAIN rows, start < rows[k].ts, rows[k].ts <= end
       PROVE  \E a, b \in DOMAIN rows : IsHour(i, a, b) /\ k <= b /\ (a < b => i \in Shown)
    <2>1. start \in Int
        BY <1>2 DEF start
    <2>2. start <= rows[k].ts /\ rows[k].ts <= to /\ start < now
        BY <1>1, <1>3, <1>4, <1>5, <1>11, <2>1
    <2>3. PICK a \in DOMAIN rows, b \in DOMAIN rows : IsHour(i, a, b) /\ SamplesOf(i) = SubSeq(FiveSeries, a, b)
        BY <1>7, <2>2
    <2>4. k <= b
        BY <1>4, <2>2, <2>3 DEF IsHour, Carried, start, to, end
    <2>5. ASSUME a < b PROVE i \in Shown
        <3>1. A!Consumed(SamplesOf(i)) = Worth(m, b) - Worth(m, a)
            BY <1>8, <2>3, <2>5
        <3>2. Worth(m, a) <= Worth(m, b) /\ Worth(m, a) \in Nat /\ Worth(m, b) \in Nat
            BY <1>4, <2>5, WorthIs
        <3>3. Worth(m, b) - Worth(m, a) # A!None
            BY <3>2
        <3>4. ~(StartOf(i) >= now)
            BY <1>1, <2>1, <2>2 DEF start
        <3> QED BY <3>1, <3>3, <3>4 DEF Shown, ConsumedIn
    <2> QED BY <2>3, <2>4, <2>5
<1>12. ASSUME NEW a \in DOMAIN rows, NEW b \in DOMAIN rows, IsHour(i, a, b), i \in Shown
       PROVE  ConsumedIn(i) = Worth(m, b) - Worth(m, a)
    <2>1. PICK c \in DOMAIN rows, d \in DOMAIN rows : IsHour(i, c, d) /\ c < d /\ ConsumedIn(i) = Worth(m, d) - Worth(m, c)
        BY <1>10, <1>12
    <2>2. a = c /\ b = d
        BY OneHour, <1>12, <2>1
    <2> QED BY <2>1, <2>2
<1>13. i \in Shown => \E a, b \in DOMAIN rows : IsHour(i, a, b) /\ a < b
    BY <1>10
<1>14. \A a, b \in DOMAIN rows : IsHour(i, a, b) /\ a < b /\ i \in Shown => ConsumedIn(i) = Worth(m, b) - Worth(m, a)
    BY <1>12
<1>15. \A k \in DOMAIN rows : StartOf(i) < rows[k].ts /\ rows[k].ts <= StartOf(i) + Hour =>
                 \E a, b \in DOMAIN rows : IsHour(i, a, b) /\ k <= b /\ (a < b => i \in Shown)
    BY <1>11 DEF start, end
<1> QED BY <1>2, <1>13, <1>14, <1>15

-----------------------------------------------------------------------------
(* The points an hour shows: those its last reading is worth beyond the    *)
(* first.                                                                  *)
IsPair(i, e) == IsHour(i, e[1], e[2]) /\ e[1] < e[2]
HourOf(i) == CHOOSE e \in (DOMAIN rows) \X (DOMAIN rows) : IsPair(i, e)
Climb(m, i) == Worth(m, HourOf(i)[1]) + 1..Worth(m, HourOf(i)[2])

LEMMA HourOfIs ==
    ASSUME AccountInv, IsRunning, NEW m, IsFirst(m), NEW i \in Shown
    PROVE  /\ HourOf(i)[1] \in DOMAIN rows /\ HourOf(i)[2] \in DOMAIN rows
           /\ IsHour(i, HourOf(i)[1], HourOf(i)[2]) /\ HourOf(i)[1] < HourOf(i)[2]
<1>1. i \in Hours
    BY DEF Shown
<1>2. PICK a \in DOMAIN rows : \E b \in DOMAIN rows : IsHour(i, a, b) /\ a < b
    BY <1>1, HourHas
<1>3. PICK b \in DOMAIN rows : IsHour(i, a, b) /\ a < b
    BY <1>2
<1> DEFINE e == <<a, b>>
<1>4. e \in (DOMAIN rows) \X (DOMAIN rows) /\ e[1] = a /\ e[2] = b
    BY <1>2, <1>3
<1> HIDE DEF e
<1>5. IsPair(i, e)
    BY <1>3, <1>4 DEF IsPair
<1>6. HourOf(i) \in (DOMAIN rows) \X (DOMAIN rows) /\ IsPair(i, HourOf(i))
    BY <1>4, <1>5 DEF HourOf
<1> DEFINE f == HourOf(i)
<1>7. f \in (DOMAIN rows) \X (DOMAIN rows) /\ IsPair(i, f)
    BY <1>6
<1> HIDE DEF f
<1>8. f[1] \in DOMAIN rows /\ f[2] \in DOMAIN rows
    <2>1. PICK x \in DOMAIN rows : \E y \in DOMAIN rows : f = <<x, y>>
        BY <1>7
    <2>2. PICK y \in DOMAIN rows : f = <<x, y>>
        BY <2>1
    <2> QED BY <2>1, <2>2
<1> QED BY <1>7, <1>8 DEF IsPair, f

LEMMA ClimbCounts ==
    ASSUME AccountInv, IsRunning, NEW m, IsFirst(m), NEW i \in Shown
    PROVE  ConsumedIn(i) = Cardinality(Climb(m, i))
<1> DEFINE a == HourOf(i)[1]
           b == HourOf(i)[2]
           x == Worth(m, a)
           y == Worth(m, b)
<1>1. a \in DOMAIN rows /\ b \in DOMAIN rows /\ IsHour(i, a, b) /\ a < b
    BY HourOfIs
<1>2. i \in Hours
    BY DEF Shown
<1>3. Climb(m, i) = x + 1..y
    BY DEF Climb
<1> HIDE DEF a, b
<1>4. a \in Int /\ b \in Int
    BY <1>1, SeriesIs DEF AccountInv
<1>5. x \in Nat /\ y \in Nat /\ x <= y
    BY <1>1, <1>4, WorthIs
<1>6. ConsumedIn(i) = y - x
    BY <1>1, <1>2, HourHas
<1> HIDE DEF x, y
<1> DEFINE z == x + 1
<1>7. z \in Int /\ y \in Int
    BY <1>5
<1>8. Cardinality(z..y) = IF z > y THEN 0 ELSE y - z + 1
    <2> HIDE DEF z
    <2> QED BY <1>7, FS_Interval
<1> QED BY <1>3, <1>5, <1>6, <1>8

LEMMA HoursApart ==
    ASSUME AccountInv, IsRunning, NEW m, IsFirst(m), NEW i \in Shown, NEW j \in Shown, i < j
    PROVE  HourOf(i)[2] <= HourOf(j)[1]
<1> USE HourNumbers
<1> DEFINE b == HourOf(i)[2]
           c == HourOf(j)[1]
           end == StartOf(i) + Hour
           start == StartOf(j)
           q == FiveSeries
<1>1. /\ b \in DOMAIN rows /\ IsHour(i, HourOf(i)[1], b)
      /\ c \in DOMAIN rows /\ HourOf(j)[2] \in DOMAIN rows /\ IsHour(j, c, HourOf(j)[2]) /\ c < HourOf(j)[2]
    BY HourOfIs
<1>2. i \in Hours /\ j \in Hours
    BY DEF Shown
<1>3. StartOf(i) \in Int /\ start \in Int /\ end \in Int /\ now \in Int
    BY <1>2, HourHas, StandsAre DEF AccountInv
<1>4. end <= start
    <2>1. i * Hour + Hour <= j * Hour /\ i * Hour \in Nat /\ j * Hour \in Nat
        BY <1>2, HoursAre
    <2>2. Opened \in Int
        BY SessionIs
    <2> QED BY <2>1, <2>2 DEF StartOf
<1>5. InOrder(q) /\ DOMAIN q = DOMAIN rows /\ DOMAIN rows = 1..Len(rows) /\ Len(rows) \in Nat
    BY SeriesInOrder, SeriesIs DEF AccountInv
<1> DEFINE to == A!Min({end, now})
<1>6. to <= end /\ to \in Int
    <2> HIDE DEF end
    <2> QED BY <1>3, AccountMin2
<1>7. q[b].ts <= to
    BY <1>1 DEF IsHour, Carried
<1>8. \/ q[c].ts < start /\ start < q[c + 1].ts
      \/ q[c].ts = start
      \/ start < q[c].ts /\ c = 1
    BY <1>1 DEF IsHour, Carried
<1> HIDE DEF b, c, end, start, to, q
<1>9. q[b].ts \in Int /\ q[c].ts \in Int /\ q[b].ts <= start
    <2>1. q[b].ts \in Int /\ q[c].ts \in Int
        BY <1>1, <1>5, ReadingIs
    <2> QED BY <1>3, <1>4, <1>6, <1>7, <2>1
<1>10. CASE q[c].ts < start /\ start < q[c + 1].ts
    <2> SUFFICES ASSUME c < b PROVE FALSE
        BY <1>1, <1>5 DEF b, c
    <2>1. c + 1 \in DOMAIN q /\ c + 1 <= b
        BY <1>1, <1>5
    <2>2. q[c + 1].ts <= q[b].ts /\ q[c + 1].ts \in Int
        BY <1>1, <1>5, <2>1, OrderIs, ReadingIs
    <2> QED BY <1>3, <1>9, <1>10, <2>2
<1>11. CASE q[c].ts = start
    BY <1>1, <1>5, <1>9, <1>11, OrderIs DEF b, c
<1>12. CASE start < q[c].ts /\ c = 1
    <2>1. q[b].ts < q[c].ts
        BY <1>3, <1>9, <1>12
    <2>2. b < 1
        BY <1>1, <1>5, <1>12, <2>1, OrderIs
    <2> QED BY <1>1, <1>5, <2>2
<1> QED BY <1>8, <1>10, <1>11, <1>12 DEF b, c

(* Every point used since the first reading is shown by an hour: the one   *)
(* of the reading that has it first.                                       *)
LEMMA ClimbsReach ==
    ASSUME AccountInv, IsRunning, NEW m, IsFirst(m), NEW p \in Base(m) + 1..rows[Latest].five.pct
    PROVE  \E i \in Shown : p \in Climb(m, i)
<1> USE HourNumbers, AccountNumbers
<1>1. /\ DOMAIN rows = 1..Latest /\ Latest \in DOMAIN rows /\ Latest \in Nat /\ m \in DOMAIN rows
      /\ Opened \in Int /\ Opened <= rows[m].ts /\ now < Opened + Length /\ now \in Nat
      /\ \A k \in DOMAIN rows : rows[k].ts \in Nat /\ rows[k].ts <= now /\ rows[k].five.pct \in Nat
      /\ \A k \in DOMAIN rows : Opened <= rows[k].ts <=> m <= k
    <2>1. \A k \in DOMAIN rows : rows[k].ts \in Nat /\ rows[k].five.pct \in Nat
        BY RowIs DEF AccountInv
    <2>2. DOMAIN rows = 1..Latest /\ Latest \in Nat /\ now \in Nat
        BY SeriesIs, StandsAre DEF AccountInv, Latest
    <2> QED BY <2>1, <2>2, SessionIs DEF IsFirst
<1>2. Base(m) \in Nat /\ p \in Nat /\ Base(m) < p /\ p <= rows[Latest].five.pct
    BY <1>1, WorthIs
<1> DEFINE has == {k \in DOMAIN rows : m <= k /\ p <= rows[k].five.pct}
<1>3. Latest \in has
    BY <1>1, <1>2
<1>4. has \in SUBSET Nat
    BY <1>1
<1>5. PICK k \in has : \A l \in has : k <= l
    BY <1>3, <1>4, LeastThereIs
<1>6. k \in DOMAIN rows /\ m <= k /\ p <= rows[k].five.pct /\ k \in Int /\ m \in Int
    BY <1>1
<1>7. \A l \in DOMAIN rows : l < k => Worth(m, l) < p
    <2> SUFFICES ASSUME NEW l \in DOMAIN rows, l < k PROVE Worth(m, l) < p
        OBVIOUS
    <2>1. CASE l < m
        BY <1>2, <2>1 DEF Worth
    <2>2. CASE ~(l < m)
        <3>1. m <= l /\ ~(k <= l) /\ rows[l].five.pct \in Nat
            BY <1>1, <1>6, <2>2
        <3>2. ~(p <= rows[l].five.pct)
            BY <1>5, <3>1
        <3> QED BY <1>2, <2>2, <3>1, <3>2 DEF Worth
    <2> QED BY <2>1, <2>2
<1>8. Opened < rows[k].ts /\ k # 1
    <2>1. CASE m < k
        <3>1. rows[m].ts < rows[k].ts
            BY <1>1, <1>6, <2>1, InTime DEF AccountInv
        <3> QED BY <1>1, <1>6, <2>1, <3>1
    <2>2. CASE ~(m < k)
        <3>1. m = k
            BY <1>6, <2>2
        <3>2. BeforeIt(m)
            BY <1>2, <1>6, <3>1 DEF Base
        <3> QED BY <1>1, <3>1, <3>2 DEF BeforeIt
    <2> QED BY <2>1, <2>2
<1> DEFINE t == rows[k].ts
           x == t - Opened - 1
           i == x \div Hour
<1>9. x \in Nat /\ t \in Int /\ x = t - Opened - 1 /\ x < Length
    <2>1. t \in Int /\ t <= now /\ Opened < t
        BY <1>1, <1>6, <1>8
    <2> HIDE DEF t
    <2> QED BY <1>1, <2>1
<1> HIDE DEF x, t
<1>10. i \in Int /\ Hour * i <= x /\ x < Hour * i + Hour
    <2>1. x \in Int /\ Hour \in Nat \ {0}
        BY <1>9
    <2>2. x \div Hour \in Int /\ Hour * (x \div Hour) <= x /\ x < Hour * (x \div Hour) + Hour
        BY <2>1, DividedIs
    <2> QED BY <2>2
<1> HIDE DEF i
<1>11. i \in Hours
    <2> DEFINE h == Length \div Hour
    <2>1. h \in Nat /\ h * Hour = Length
        BY HoursAre
    <2>2. \A n \in Int : Hour * n = n * Hour /\ Hour * n \in Int
        OBVIOUS
    <2> HIDE DEF h
    <2>3. Hour * i < Hour * h
        BY <1>9, <1>10, <2>1, <2>2
    <2>4. i < h
        BY <1>10, <2>1, <2>3, TimesStrict
    <2>5. 0 <= i
        <3> SUFFICES ASSUME i < 0 PROVE FALSE
            BY <1>10
        <3>1. i <= -1
            BY <1>10
        <3>2. Hour * i <= Hour * (-1)
            BY <1>10, <3>1, TimesGrows
        <3>3. Hour * (-1) = -Hour
            OBVIOUS
        <3> QED BY <1>9, <1>10, <2>2, <3>2, <3>3
    <2> QED BY <1>10, <2>1, <2>4, <2>5 DEF Hours, h
<1>12. StartOf(i) \in Int /\ StartOf(i) < t /\ t <= StartOf(i) + Hour
    <2>1. StartOf(i) = Opened + Hour * i /\ Hour * i \in Int
        BY <1>1, <1>10 DEF StartOf
    <2> QED BY <1>1, <1>9, <1>10, <2>1
<1>13. PICK a \in DOMAIN rows : \E b \in DOMAIN rows : IsHour(i, a, b) /\ k <= b /\ (a < b => i \in Shown)
    BY <1>6, <1>11, <1>12, HourHas DEF t
<1>14. PICK b \in DOMAIN rows : IsHour(i, a, b) /\ k <= b /\ (a < b => i \in Shown)
    BY <1>13
<1> DEFINE q == FiveSeries
<1>15. a < k
    <2>1. InOrder(q) /\ DOMAIN q = DOMAIN rows /\ q[k].ts = t /\ q[a].ts \in Int
        BY <1>6, SeriesInOrder, SeriesIs, ReadingIs DEF AccountInv, t
    <2>2. \/ q[a].ts < StartOf(i) \/ q[a].ts = StartOf(i) \/ a = 1
        BY <1>14 DEF IsHour, Carried
    <2>3. CASE a = 1
        BY <1>1, <1>6, <1>8, <2>3
    <2>4. CASE q[a].ts <= StartOf(i)
        <3>1. q[a].ts < q[k].ts
            BY <1>9, <1>12, <2>1, <2>4
        <3> QED BY <1>6, <2>1, <3>1, OrderIs
    <2> QED BY <1>12, <2>1, <2>2, <2>3, <2>4
<1>16. a < b /\ i \in Shown
    BY <1>1, <1>14, <1>15
<1> DEFINE c == HourOf(i)[1]
           d == HourOf(i)[2]
<1>17. c \in DOMAIN rows /\ d \in DOMAIN rows /\ IsHour(i, c, d) /\ c < d
    BY <1>16, HourOfIs
<1>18. c = a /\ d = b
    BY <1>11, <1>14, <1>17, OneHour
<1>19. Worth(m, a) \in Nat /\ Worth(m, b) \in Nat /\ Worth(m, a) < p
    BY <1>7, <1>15, WorthIs
<1>20. p <= Worth(m, b)
    <2>1. Worth(m, k) <= Worth(m, b) /\ Worth(m, k) \in Nat
        BY <1>6, <1>14, WorthIs
    <2>2. Worth(m, k) = rows[k].five.pct
        BY <1>6 DEF Worth
    <2> QED BY <1>2, <1>6, <1>19, <2>1, <2>2
<1>21. p \in Climb(m, i)
    <2>1. Climb(m, i) = Worth(m, a) + 1..Worth(m, b)
        BY <1>18 DEF Climb
    <2> HIDE DEF c, d
    <2> QED BY <1>2, <1>19, <1>20, <2>1
<1> QED BY <1>16, <1>21

-----------------------------------------------------------------------------
LEMMA HoursCount ==
    ASSUME AccountInv, IsRunning, NEW m, IsFirst(m)
    PROVE  A!Total([i \in Shown |-> ConsumedIn(i)], Shown) = rows[Latest].five.pct - Base(m)
<1> DEFINE f == [i \in Shown |-> ConsumedIn(i)]
           part == [i \in Shown |-> Climb(m, i)]
           z == Base(m) + 1
           most == rows[Latest].five.pct
           all == z..most
<1>1. /\ Latest \in DOMAIN rows /\ Latest \in Int /\ DOMAIN rows = 1..Latest /\ m \in DOMAIN rows /\ m <= Latest
      /\ most \in Nat /\ Base(m) \in Nat /\ Base(m) <= most
    <2>1. DOMAIN rows = 1..Latest /\ Latest \in Nat
        BY SeriesIs DEF AccountInv, Latest
    <2>2. m \in DOMAIN rows /\ Latest \in DOMAIN rows /\ m <= Latest
        BY SessionIs DEF IsFirst
    <2>3. Worth(m, Latest) = most
        BY <2>1, <2>2 DEF Worth
    <2> QED BY <2>1, <2>2, <2>3, RowIs, WorthIs DEF AccountInv
<1>2. Worth(m, Latest) = most
    BY <1>1 DEF Worth
<1> HIDE DEF most
<1>3. IsFiniteSet(all) /\ Cardinality(all) = most - Base(m)
    <2>1. z \in Int /\ most \in Int /\ z = Base(m) + 1
        BY <1>1
    <2> HIDE DEF z
    <2>2. IsFiniteSet(z..most) /\ Cardinality(z..most) = IF z > most THEN 0 ELSE most - z + 1
        BY <2>1, FS_Interval
    <2> QED BY <1>1, <2>1, <2>2
<1>4. ASSUME NEW i \in Shown, NEW p \in Climb(m, i) PROVE p \in all
    <2> DEFINE a == HourOf(i)[1]
               b == HourOf(i)[2]
    <2>1. a \in DOMAIN rows /\ b \in DOMAIN rows
        BY HourOfIs
    <2>2. p \in Worth(m, a) + 1..Worth(m, b)
        BY <1>4 DEF Climb
    <2> HIDE DEF a, b
    <2>3. b <= Latest
        BY <1>1, <2>1
    <2>4. Worth(m, a) \in Nat /\ Base(m) <= Worth(m, a) /\ Worth(m, b) \in Nat /\ Worth(m, b) <= most
        BY <1>1, <1>2, <2>1, <2>3, WorthIs
    <2> QED BY <1>1, <2>2, <2>4
<1>5. \A p : p \in all <=> \E i \in Shown : p \in part[i]
    <2>1. \A p \in all : \E i \in Shown : p \in part[i]
        BY ClimbsReach DEF most
    <2>2. \A i \in Shown : \A p \in part[i] : p \in all
        BY <1>4
    <2> HIDE DEF part, all
    <2> QED BY <2>1, <2>2
<1>6. ASSUME NEW i \in Shown, NEW j \in Shown, i < j, NEW p \in Climb(m, i), p \in Climb(m, j) PROVE FALSE
    <2> DEFINE a == HourOf(i)[1]
               b == HourOf(i)[2]
               c == HourOf(j)[1]
               d == HourOf(j)[2]
    <2>1. b \in DOMAIN rows /\ c \in DOMAIN rows /\ a \in DOMAIN rows /\ d \in DOMAIN rows /\ b <= c
        BY <1>6, HourOfIs, HoursApart
    <2>2. p \in Worth(m, a) + 1..Worth(m, b) /\ p \in Worth(m, c) + 1..Worth(m, d)
        BY <1>6 DEF Climb
    <2> HIDE DEF a, b, c, d
    <2>3. /\ Worth(m, b) <= Worth(m, c) /\ Worth(m, a) \in Nat
          /\ Worth(m, b) \in Nat /\ Worth(m, c) \in Nat /\ Worth(m, d) \in Nat
        BY <2>1, WorthIs
    <2> QED BY <2>2, <2>3
<1>7. \A i \in Shown : i \in Int
    BY HoursAre DEF Shown, Hours
<1>8. \A i, j \in Shown : \A p \in part[i] : p \in part[j] => i = j
    <2> SUFFICES ASSUME NEW i \in Shown, NEW j \in Shown, NEW p \in part[i], p \in part[j], i # j PROVE FALSE
        OBVIOUS
    <2>1. i < j \/ j < i
        BY <1>7
    <2>2. p \in Climb(m, i) /\ p \in Climb(m, j)
        OBVIOUS
    <2> QED BY <1>6, <2>1, <2>2
<1>9. \A i \in Shown : f[i] = Cardinality(part[i])
    BY ClimbCounts
<1> HIDE DEF f, part, all
<1>10. A!Total(f, Shown) = Cardinality(all)
    BY <1>3, <1>5, <1>8, <1>9, CountedInParts
<1> QED BY <1>3, <1>10 DEF f, most

(* The strip accounts for what was used since the first reading. *)
LEMMA StripHolds == ASSUME AccountInv PROVE A!StripAddsUp
<1> DEFINE series == A!Series("five")
           last == A!Last(series)
           opened == last.ends - Length
           mine == A!Within(series, opened, now)
           before == {i \in DOMAIN series : series[i].ts < opened}
           base == IF before # {} /\ series[A!Max(before)].ends = A!None /\ mine[1].ts > opened
                   THEN series[A!Max(before)] ELSE mine[1]
           strip == A!HourStrip(series, opened, now)
           known == {i \in DOMAIN strip : strip[i].consumed # A!None}
<1>1. series = FiveSeries
    BY DEF FiveSeries
<1> SUFFICES ASSUME rows # <<>>, last.ends > now
             PROVE  A!Total([i \in known |-> strip[i].consumed], known) = A!Last(mine).pct - base.pct
    BY DEF A!StripAddsUp
<1>2. /\ DOMAIN FiveSeries = DOMAIN rows /\ DOMAIN rows = 1..Latest /\ Latest \in Nat /\ Len(FiveSeries) = Latest
      /\ \A i \in DOMAIN rows : /\ FiveSeries[i].ts = rows[i].ts /\ FiveSeries[i].pct = rows[i].five.pct
                                /\ FiveSeries[i].ends = rows[i].five.ends
    BY SeriesIs DEF AccountInv, Latest
<1>3. Latest \in DOMAIN rows
    BY <1>2 DEF AccountInv, AccountTyped, Latest
<1>4. last = FiveSeries[Latest] /\ IsRunning /\ opened = Opened
    <2>1. last = FiveSeries[Latest]
        BY <1>1, <1>2 DEF A!Last
    <2> QED BY <1>2, <1>3, <2>1 DEF IsRunning, Opened
<1>5. PICK m \in DOMAIN rows : IsFirst(m) /\ A!Within(FiveSeries, Opened, now) = SubSeq(FiveSeries, m, Latest)
    BY <1>4, MineIs
<1>6. InOrder(FiveSeries) /\ m <= Latest /\ m \in Int
    BY <1>2, SeriesInOrder
<1>7. /\ Len(mine) = Latest - m + 1 /\ mine[1] = FiveSeries[m] /\ A!Last(mine) = FiveSeries[Latest]
    <2> DEFINE s == SubSeq(FiveSeries, m, Latest)
    <2>1. /\ Len(s) = Latest - m + 1 /\ DOMAIN s = 1..Latest - m + 1
          /\ \A k \in 1..Latest - m + 1 : s[k] = FiveSeries[m + k - 1]
        BY <1>2, <1>3, <1>6, PartIs
    <2> HIDE DEF s
    <2>2. 1 \in 1..Latest - m + 1 /\ Latest - m + 1 \in 1..Latest - m + 1
        BY <1>2, <1>6
    <2>3. m + 1 - 1 = m /\ m + (Latest - m + 1) - 1 = Latest
        BY <1>2, <1>6
    <2>4. s[1] = FiveSeries[m] /\ s[Latest - m + 1] = FiveSeries[Latest]
        BY <2>1, <2>2, <2>3
    <2>5. mine = s
        BY <1>1, <1>4, <1>5 DEF s
    <2> HIDE DEF mine
    <2> QED BY <2>1, <2>4, <2>5 DEF A!Last
<1>8. before = {i \in DOMAIN rows : i < m}
    <2>1. \A i \in DOMAIN rows : rows[i].ts < Opened <=> i < m
        <3> SUFFICES ASSUME NEW i \in DOMAIN rows PROVE rows[i].ts < Opened <=> i < m
            OBVIOUS
        <3>1. Opened <= rows[i].ts <=> m <= i
            BY <1>5 DEF IsFirst
        <3>2. rows[i].ts \in Int /\ Opened \in Int /\ i \in Int
            BY <1>2, <1>4, RowIs, SessionIs DEF AccountInv
        <3> QED BY <1>6, <3>1, <3>2
    <2> QED BY <1>1, <1>2, <1>4, <2>1
<1> HIDE DEF mine, before, opened, last
<1>9. base.pct = Base(m)
    <2>1. CASE m = 1
        <3>1. before = {}
            BY <1>2, <1>8, <2>1
        <3> QED BY <1>2, <1>7, <2>1, <3>1 DEF Base, BeforeIt
    <2>2. CASE m # 1
        <3>1. m > 1 /\ m - 1 \in DOMAIN rows
            BY <1>2, <1>6, <2>2
        <3>2. m - 1 \in before /\ before \in SUBSET (1..Latest)
            BY <1>2, <1>6, <1>8, <3>1
        <3>3. A!Max(before) \in before /\ m - 1 <= A!Max(before)
            BY <1>2, <3>2, PlaceEnds
        <3>4. A!Max(before) = m - 1
            BY <1>2, <1>6, <1>8, <3>3
        <3>5. base = IF FiveSeries[m - 1].ends = A!None /\ FiveSeries[m].ts > Opened THEN FiveSeries[m - 1] ELSE FiveSeries[m]
            BY <1>1, <1>4, <1>7, <3>2, <3>4
        <3> HIDE DEF base
        <3> QED BY <1>2, <3>1, <3>5 DEF Base, BeforeIt
    <2> QED BY <2>1, <2>2
<1>10. strip = A!HourStrip(FiveSeries, Opened, now)
    BY <1>1, <1>4
<1>11. DOMAIN strip = Hours /\ \A i \in Hours : strip[i].consumed = ConsumedIn(i)
    BY <1>10 DEF A!HourStrip, Hours, ConsumedIn, StartOf, SamplesOf
<1> HIDE DEF strip, base
<1>12. known = Shown
    BY <1>11 DEF Shown
<1>13. [i \in known |-> strip[i].consumed] = [i \in Shown |-> ConsumedIn(i)]
    BY <1>11, <1>12 DEF Shown
<1> HIDE DEF known
<1>14. A!Total([i \in Shown |-> ConsumedIn(i)], Shown) = rows[Latest].five.pct - Base(m)
    BY <1>4, <1>5, HoursCount
<1>15. A!Last(mine).pct = rows[Latest].five.pct
    BY <1>2, <1>3, <1>7
<1> QED BY <1>9, <1>12, <1>13, <1>14, <1>15

-----------------------------------------------------------------------------
LEMMA AccountGoesOn ==
    LET Inv == task = "account" => AccountInv /\ OpeningsInv
    IN  Init /\ [][Next]_allVars => []Inv
<1> DEFINE Inv == task = "account" => AccountInv /\ OpeningsInv
<1>1. Init => Inv
    BY AccountStarts, OpeningsStart DEF Init
<1>2. Inv /\ [Next]_allVars => Inv'
    <2> SUFFICES ASSUME Inv, [Next]_allVars, task' = "account" PROVE AccountInv' /\ OpeningsInv'
        OBVIOUS
    <2>1. task = "account" /\ [A!Next]_A!vars
        BY DEF Next, allVars, accountVars, A!vars
    <2>2. AccountInv /\ OpeningsInv
        BY <2>1
    <2> QED BY <2>1, <2>2, AccountHolds, OpeningsHold
<1> QED BY <1>1, <1>2, PTL

(* In every reachable state the rate on the page is of what was used       *)
(* between its readings, and what it leaves out is a closed session's; and *)
(* a dated percentage, the runway and its line are of the session that runs. *)
THEOREM RateIsOfUse == Spec => []RunwayIsTrue
<1>1. (task = "account" => AccountInv /\ OpeningsInv) => RunwayIsTrue
    BY RateHolds, RunwayHolds DEF RunwayIsTrue
<1> QED BY <1>1, AccountGoesOn, PTL DEF Spec

(* In every reachable state a session is said to have cost the week no more *)
(* than was used of it, and less only by what came before its first reading *)
(* and by a raise nobody could see; the budget rests on such costs, and a   *)
(* cost filed under a week was paid from that week.                        *)
THEOREM CostsAreOfUse == Spec => []CostsAreHonest
<1>1. (task = "account" => AccountInv /\ OpeningsInv) => CostsAreHonest
    BY CostsHold DEF CostsAreHonest
<1> QED BY <1>1, AccountGoesOn, PTL DEF Spec

(* In every reachable state the hour bars of the running session account   *)
(* for all that was used since its first reading; no session ran in a span *)
(* shown as idle that is not also a gap in the readings, and a chart of    *)
(* part of the time counts each of its moments once; and what the weekday  *)
(* heatmap gained and saw is what the readings rose by and were apart.     *)
THEOREM TimeAddsUp == Spec => []TimeIsAccountedFor
<1>1. (task = "account" => AccountInv /\ OpeningsInv) => TimeIsAccountedFor
    BY StripHolds, IdleHolds, CellsHold DEF TimeIsAccountedFor
<1> QED BY <1>1, AccountGoesOn, PTL DEF Spec

=============================================================================
