--------------------------- MODULE FiniteSetFacts ---------------------------
(***************************************************************************)
(* Facts about finite sets of any size that the proofs about sums, largest *)
(* elements and folds rest on.                                             *)
(*                                                                         *)
(* They are proved by induction over data, as the search for a smallest    *)
(* counterexample: the strict subset order of a finite set is well founded *)
(* (FiniteSetTheorems), and so each set of subsets has a smallest one.     *)
(***************************************************************************)
EXTENDS FiniteSetsExt, FiniteSetTheorems, TLAPS

\* A set of subsets of a finite set has one that holds no other of them.
LEMMA SmallestSubset ==
    ASSUME NEW S, IsFiniteSet(S), NEW T \in SUBSET SUBSET S, T # {}
    PROVE  \E s \in T : \A t \in T : t \subseteq s => t = s
<1>1. IsWellFoundedOn(StrictSubsetOrdering(S), SUBSET S)
    BY FS_FiniteSubsetsOfFinite, FS_StrictSubsetOrderingWellFounded
<1>2. PICK s \in T : \A t \in T : <<t, s>> \notin StrictSubsetOrdering(S)
    BY <1>1, WFMin
<1> QED
    BY <1>2 DEF StrictSubsetOrdering

\* A set of numbers has a smallest one: the intervals from 1 to them do.
LEMMA SmallestNumber ==
    ASSUME NEW T \in SUBSET Nat, T # {}
    PROVE  \E n \in T : \A m \in T : n <= m
<1>1. PICK top \in T : TRUE
    OBVIOUS
<1> DEFINE Intervals == {1..n : n \in {m \in T : m <= top}}
           Below == 1..top
<1>2. top \in Nat /\ IsFiniteSet(Below)
    BY FS_Interval
<1>3. Intervals \in SUBSET SUBSET Below /\ Intervals # {}
    BY <1>2
<1> HIDE DEF Intervals, Below
<1>4. \E s \in Intervals : \A t \in Intervals : t \subseteq s => t = s
    BY <1>2, <1>3, SmallestSubset
<1>5. PICK s \in Intervals : \A t \in Intervals : t \subseteq s => t = s
    BY <1>4
<1>6. PICK n \in T : n <= top /\ s = 1..n
    BY DEF Intervals
<1>7. ASSUME NEW m \in T, m < n PROVE FALSE
    <2>1. 1..m \in Intervals /\ 1..m \subseteq 1..n /\ n \in 1..n
        BY <1>6, <1>7 DEF Intervals
    <2> QED
        BY <1>5, <1>6, <1>7, <2>1
<1> QED
    BY <1>6, <1>7

\* A finite set of numbers that is not empty has a largest element.
LEMMA MaxOfFinite ==
    ASSUME NEW S \in SUBSET Int, IsFiniteSet(S), S # {}
    PROVE  Max(S) \in S /\ \A x \in S : x <= Max(S)
<1> DEFINE Bounded(s) == \E x \in s : \A y \in s : y <= x
           Bad == {s \in SUBSET S : s # {} /\ ~Bounded(s)}
<1>1. Bad = {}
    <2> SUFFICES ASSUME Bad # {} PROVE FALSE
        OBVIOUS
    <2>1. PICK s \in Bad : \A t \in Bad : t \subseteq s => t = s
        <3>1. PICK X : X = S
            OBVIOUS
        <3>2. Bad \in SUBSET SUBSET X /\ IsFiniteSet(X)
            BY <3>1
        <3> HIDE DEF Bad
        <3> QED
            BY <3>2, SmallestSubset
    <2>2. PICK x \in s : TRUE
        OBVIOUS
    <2>3. PICK y \in s : x < y
        BY <2>1, <2>2
    <2>4. s \ {x} # {} /\ s \ {x} \in SUBSET S /\ s \ {x} # s
        BY <2>2, <2>3
    <2>5. PICK z \in s \ {x} : \A y2 \in s \ {x} : y2 <= z
        BY <2>1, <2>4
    <2>6. \A y2 \in s : y2 <= z
        BY <2>2, <2>3, <2>5
    <2> QED
        BY <2>1, <2>5, <2>6
<1>2. \E x \in S : \A y \in S : x >= y
    BY <1>1
<1> QED
    BY <1>2 DEF Max

\* And a smallest one.
LEMMA MinOfFinite ==
    ASSUME NEW S \in SUBSET Int, IsFiniteSet(S), S # {}
    PROVE  Min(S) \in S /\ \A x \in S : Min(S) <= x
<1> DEFINE Bounded(s) == \E x \in s : \A y \in s : x <= y
           Bad == {s \in SUBSET S : s # {} /\ ~Bounded(s)}
<1>1. Bad = {}
    <2> SUFFICES ASSUME Bad # {} PROVE FALSE
        OBVIOUS
    <2>1. PICK s \in Bad : \A t \in Bad : t \subseteq s => t = s
        <3>1. PICK X : X = S
            OBVIOUS
        <3>2. Bad \in SUBSET SUBSET X /\ IsFiniteSet(X)
            BY <3>1
        <3> HIDE DEF Bad
        <3> QED
            BY <3>2, SmallestSubset
    <2>2. PICK x \in s : TRUE
        OBVIOUS
    <2>3. PICK y \in s : y < x
        BY <2>1, <2>2
    <2>4. s \ {x} # {} /\ s \ {x} \in SUBSET S /\ s \ {x} # s
        BY <2>2, <2>3
    <2>5. PICK z \in s \ {x} : \A y2 \in s \ {x} : z <= y2
        BY <2>1, <2>4
    <2>6. \A y2 \in s : z <= y2
        BY <2>2, <2>3, <2>5
    <2> QED
        BY <2>1, <2>5, <2>6
<1>2. \E x \in S : \A y \in S : x <= y
    BY <1>1
<1> QED
    BY <1>2 DEF Min

\* What a function gives for a finite set is finite.
LEMMA FiniteImage ==
    ASSUME NEW S, IsFiniteSet(S), NEW T, NEW f \in [S -> T],
           \A t \in T : \E x \in S : f[x] = t
    PROVE  IsFiniteSet(T)
<1>1. f \in Surjection(S, T)
    BY DEF Surjection
<1> QED
    BY <1>1, FS_Surjection

\* A set no two of whose elements have the same partner in another is no larger.
LEMMA NoLarger ==
    ASSUME NEW S, NEW T, IsFiniteSet(T), NEW f \in [S -> T],
           \A x, y \in S : f[x] = f[y] => x = y
    PROVE  Cardinality(S) <= Cardinality(T)
<1>1. f \in Injection(S, T)
    BY DEF Injection, IsInjective
<1> QED
    BY <1>1, FS_Injection

\* And one each of whose elements has its own partner is as large.
LEMMA AsLarge ==
    ASSUME NEW S, NEW T, IsFiniteSet(S), NEW f \in [S -> T],
           \A x, y \in S : f[x] = f[y] => x = y,
           \A t \in T : \E x \in S : f[x] = t
    PROVE  IsFiniteSet(T) /\ Cardinality(T) = Cardinality(S)
<1>1. f \in Bijection(S, T)
    BY DEF Bijection, Injection, IsInjective, Surjection
<1> QED
    BY <1>1, FS_Bijection DEF ExistsBijection
-----------------------------------------------------------------------------
(* Folds over finite sets: what MapThenFoldSet chooses is a function on     *)
(* subsets that its recursion describes.                                   *)

\* One step of a fold that takes pick[s] of s first, with the values of comb.
FoldStep(pick, base, comb, g, s) ==
    IF s = {} THEN base ELSE comb[<<pick[s], g[s \ {pick[s]}]>>]

\* pick takes an element, comb gives a value of V for it and the one so far,
\* and g is their fold.
Picks(pick, S) == \A s \in SUBSET S : s # {} => pick[s] \in s

Combines(comb, S, V) == comb \in [S \X V -> V]

FoldOn(pick, base, comb, S, V, g) ==
    /\ g \in [SUBSET S -> V]
    /\ \A s \in SUBSET S : g[s] = FoldStep(pick, base, comb, g, s)

\* What is left of a set after a step is smaller by one.
LEMMA StepShrinks ==
    ASSUME NEW S, IsFiniteSet(S), NEW pick, \A s \in SUBSET S : s # {} => pick[s] \in s
    PROVE  \A s \in SUBSET S :
            /\ Cardinality(s) \in Nat
            /\ Cardinality(s) = 0 <=> s = {}
            /\ s # {} => /\ s \ {pick[s]} \in SUBSET S
                         /\ s \ {pick[s]} # s
                         /\ Cardinality(s \ {pick[s]}) = Cardinality(s) - 1
<1> SUFFICES ASSUME NEW s \in SUBSET S
             PROVE  /\ Cardinality(s) \in Nat
                    /\ Cardinality(s) = 0 <=> s = {}
                    /\ s # {} => /\ s \ {pick[s]} \in SUBSET S
                                 /\ s \ {pick[s]} # s
                                 /\ Cardinality(s \ {pick[s]}) = Cardinality(s) - 1
    OBVIOUS
<1>1. IsFiniteSet(s) /\ Cardinality(s) \in Nat /\ (Cardinality(s) = 0 <=> s = {})
    BY FS_Subset, FS_CardinalityType, FS_EmptySet
<1>2. ASSUME s # {}
      PROVE  /\ s \ {pick[s]} \in SUBSET S /\ s \ {pick[s]} # s
             /\ Cardinality(s \ {pick[s]}) = Cardinality(s) - 1
    <2>1. pick[s] \in s
        BY <1>2
    <2>2. Cardinality(s \ {pick[s]}) = Cardinality(s) - 1
        BY <1>1, <2>1, FS_RemoveElement
    <2> QED
        BY <2>1, <2>2
<1> QED
    BY <1>1, <1>2

\* The recursion has a solution: on the subsets of at most n elements for
\* every n, each from the one before.
LEMMA FoldsExist ==
    ASSUME NEW S, IsFiniteSet(S), NEW pick, Picks(pick, S),
           NEW V, NEW base, base \in V, NEW comb, Combines(comb, S, V)
    PROVE  \E g : FoldOn(pick, base, comb, S, V, g)
<1> USE DEF Picks, Combines
<1> DEFINE Upto(n) == {s \in SUBSET S : Cardinality(s) <= n}
           Solves(g, n) == \A s \in Upto(n) : g[s] = FoldStep(pick, base, comb, g, s)
           Solved(n) == \E g \in [SUBSET S -> V] : Solves(g, n)
           Bad == {n \in Nat : ~Solved(n)}
<1>1. Solved(0)
    <2>1. \A s \in Upto(0) : s = {}
        <3> SUFFICES ASSUME NEW s \in SUBSET S, Cardinality(s) <= 0 PROVE s = {}
            OBVIOUS
        <3>1. IsFiniteSet(s) /\ Cardinality(s) \in Nat
            BY FS_Subset, FS_CardinalityType
        <3>2. Cardinality(s) = 0
            BY <3>1
        <3> QED
            BY <3>1, <3>2, FS_EmptySet
    <2> DEFINE g == [s \in SUBSET S |-> base]
    <2>2. Solves(g, 0)
        BY <2>1 DEF FoldStep
    <2> QED
        BY <2>2
<1>2. ASSUME NEW n \in Nat, Solved(n) PROVE Solved(n + 1)
    <2>1. PICK g \in [SUBSET S -> V] : Solves(g, n)
        BY <1>2
    <2>2. \A s \in SUBSET S : FoldStep(pick, base, comb, g, s) \in V
        <3> SUFFICES ASSUME NEW s \in SUBSET S, s # {}
                     PROVE  comb[<<pick[s], g[s \ {pick[s]}]>>] \in V
            BY DEF FoldStep
        <3>1. pick[s] \in S /\ s \ {pick[s]} \in SUBSET S
            OBVIOUS
        <3> QED
            BY <3>1
    <2> DEFINE more == [s \in SUBSET S |-> FoldStep(pick, base, comb, g, s)]
    <2>3. more \in [SUBSET S -> V]
        BY <2>2
    <2>4. ASSUME NEW s \in Upto(n + 1)
          PROVE  FoldStep(pick, base, comb, g, s) = FoldStep(pick, base, comb, more, s)
        <3>1. CASE s = {}
            BY <3>1 DEF FoldStep
        <3>2. CASE s # {}
            <4> DEFINE t == s \ {pick[s]}
            <4>1. t \in SUBSET S /\ Cardinality(t) = Cardinality(s) - 1
                  /\ Cardinality(s) \in Nat /\ Cardinality(s) <= n + 1
                BY <3>2, StepShrinks
            <4>2. t \in Upto(n)
                BY <4>1
            <4>3. g[t] = more[t]
                BY <2>1, <4>2
            <4> QED
                BY <4>3, <3>2 DEF FoldStep
        <3> QED
            BY <3>1, <3>2
    <2>5. Solves(more, n + 1)
        BY <2>4
    <2> QED
        BY <2>3, <2>5
<1>3. Bad = {}
    <2> SUFFICES ASSUME Bad # {} PROVE FALSE
        OBVIOUS
    <2> HIDE DEF Solved
    <2>1. PICK n \in Bad : \A m \in Bad : n <= m
        BY SmallestNumber
    <2>2. n # 0 /\ n - 1 \in Nat
        BY <1>1
    <2>3. Solved(n - 1)
        BY <2>1, <2>2
    <2>4. Solved(n)
        BY <1>2, <2>2, <2>3
    <2> QED
        BY <2>4
<1>4. Cardinality(S) \in Nat /\ Upto(Cardinality(S)) = SUBSET S
    BY FS_Subset, FS_CardinalityType
<1> QED
    BY <1>3, <1>4 DEF FoldOn

-----------------------------------------------------------------------------
(* Sums, as MapThenSumSet folds them.                                       *)

\* The element that a sum takes next.
Chosen(s) == CHOOSE x \in s : TRUE

\* One step of the recursion, for the values of a function f.
SumStep(f, sums, s) ==
    IF s = {} THEN 0 ELSE f[Chosen(s)] + sums[s \ {Chosen(s)}]

SumsOf(f, S, sums) == sums = [s \in SUBSET S |-> SumStep(f, sums, s)]

\* The sums of f over the subsets of a finite set are the values of a fold.
LEMMA SumsExist ==
    ASSUME NEW S, IsFiniteSet(S), NEW f, \A x \in S : f[x] \in Nat
    PROVE  \E sums : SumsOf(f, S, sums)
<1>1. PICK pick : pick = [s \in SUBSET S |-> Chosen(s)]
    OBVIOUS
<1>2. PICK comb : comb = [p \in S \X Nat |-> f[p[1]] + p[2]]
    OBVIOUS
<1>3. PICK V, zero : V = Nat /\ zero = 0
    OBVIOUS
<1>4. Picks(pick, S) /\ Combines(comb, S, V) /\ zero \in V
    BY <1>1, <1>2, <1>3 DEF Chosen, Picks, Combines
<1>5. \E g : FoldOn(pick, zero, comb, S, V, g)
    BY <1>4, FoldsExist
<1>6. PICK g \in [SUBSET S -> Nat] :
        \A s \in SUBSET S : g[s] = FoldStep(pick, 0, comb, g, s)
    BY <1>3, <1>5 DEF FoldOn
<1>7. ASSUME NEW s \in SUBSET S
      PROVE  FoldStep(pick, 0, comb, g, s) = SumStep(f, g, s)
    <2>1. CASE s = {}
        BY <2>1 DEF FoldStep, SumStep
    <2>2. CASE s # {}
        <3>1. pick[s] = Chosen(s) /\ Chosen(s) \in S /\ g[s \ {Chosen(s)}] \in Nat
            BY <1>1, <1>4, <2>2 DEF Picks
        <3>2. comb[<<Chosen(s), g[s \ {Chosen(s)}]>>] = f[Chosen(s)] + g[s \ {Chosen(s)}]
            BY <1>2, <3>1
        <3> QED
            BY <2>2, <3>1, <3>2 DEF FoldStep, SumStep
    <2> QED
        BY <2>1, <2>2
<1>8. g = [s \in SUBSET S |-> SumStep(f, g, s)]
    BY <1>6, <1>7
<1> QED
    BY <1>8 DEF SumsOf

\* An element is taken, and the rest is smaller.
LEMMA SumStepShrinks ==
    ASSUME NEW S, NEW s \in SUBSET S, s # {}
    PROVE  Chosen(s) \in s /\ s \ {Chosen(s)} \in SUBSET S /\ s \ {Chosen(s)} # s
BY DEF Chosen

\* A sum of natural numbers is one.
LEMMA SumsAreNatural ==
    ASSUME NEW S, IsFiniteSet(S), NEW f, \A x \in S : f[x] \in Nat,
           NEW sums, SumsOf(f, S, sums)
    PROVE  \A s \in SUBSET S : sums[s] \in Nat
<1> DEFINE Bad == {s \in SUBSET S : sums[s] \notin Nat}
<1> SUFFICES ASSUME Bad # {} PROVE FALSE
    OBVIOUS
<1>1. PICK s \in Bad : \A t \in Bad : t \subseteq s => t = s
    <2>1. Bad \in SUBSET SUBSET S
        OBVIOUS
    <2> HIDE DEF Bad
    <2> QED
        BY <2>1, SmallestSubset
<1>2. sums[s] = SumStep(f, sums, s)
    BY DEF SumsOf
<1>3. s # {}
    BY <1>2 DEF SumStep
<1>4. Chosen(s) \in s /\ s \ {Chosen(s)} \in SUBSET S /\ s \ {Chosen(s)} # s
    BY <1>3, SumStepShrinks
<1>5. sums[s \ {Chosen(s)}] \in Nat
    BY <1>1, <1>4
<1> QED
    BY <1>2, <1>3, <1>4, <1>5 DEF SumStep

\* If one value grows by one and the others stay, so does the sum.
LEMMA SumsGrowByOne ==
    ASSUME NEW S, IsFiniteSet(S), NEW f, \A x \in S : f[x] \in Nat,
           NEW y \in S, NEW h, h[y] = f[y] + 1, \A x \in S \ {y} : h[x] = f[x],
           NEW sums, SumsOf(f, S, sums), NEW more, SumsOf(h, S, more)
    PROVE  more[S] = sums[S] + 1
<1> DEFINE Bad == {s \in SUBSET S :
                    more[s] # sums[s] + (IF y \in s THEN 1 ELSE 0)}
<1>1. Bad = {}
    <2> SUFFICES ASSUME Bad # {} PROVE FALSE
        OBVIOUS
    <2>1. PICK s \in Bad : \A t \in Bad : t \subseteq s => t = s
        <3>1. Bad \in SUBSET SUBSET S
            OBVIOUS
        <3> HIDE DEF Bad
        <3> QED
            BY <3>1, SmallestSubset
    <2>2. sums[s] = SumStep(f, sums, s) /\ more[s] = SumStep(h, more, s)
        BY DEF SumsOf
    <2>3. s # {}
        BY <2>2 DEF SumStep
    <2> DEFINE t == s \ {Chosen(s)}
    <2>4. Chosen(s) \in s /\ t \in SUBSET S /\ t # s
        BY <2>3, SumStepShrinks
    <2>5. more[t] = sums[t] + (IF y \in t THEN 1 ELSE 0)
        BY <2>1, <2>4
    <2>6. sums[t] \in Nat /\ f[Chosen(s)] \in Nat /\ f[y] \in Nat
        BY <2>4, SumsAreNatural
    <2>7. /\ more[s] = h[Chosen(s)] + more[t]
          /\ sums[s] = f[Chosen(s)] + sums[t]
        BY <2>2, <2>3 DEF SumStep
    <2>8. CASE Chosen(s) = y
        BY <2>4, <2>5, <2>6, <2>7, <2>8
    <2>9. CASE Chosen(s) # y
        BY <2>4, <2>5, <2>6, <2>7, <2>9
    <2> QED
        BY <2>8, <2>9
<1> QED
    BY <1>1

\* A sum does not depend on which element is taken first.
LEMMA SumsTake ==
    ASSUME NEW S, IsFiniteSet(S), NEW f, \A x \in S : f[x] \in Nat,
           NEW sums, SumsOf(f, S, sums),
           NEW s \in SUBSET S, NEW x \in s
    PROVE  sums[s] = f[x] + sums[s \ {x}]
<1> DEFINE Bad == {t \in SUBSET S : \E y \in t : sums[t] # f[y] + sums[t \ {y}]}
<1>1. Bad = {}
    <2> SUFFICES ASSUME Bad # {} PROVE FALSE
        OBVIOUS
    <2>1. PICK t \in Bad : \A u \in Bad : u \subseteq t => u = t
        <3>1. Bad \in SUBSET SUBSET S
            OBVIOUS
        <3> HIDE DEF Bad
        <3> QED
            BY <3>1, SmallestSubset
    <2>2. PICK y \in t : sums[t] # f[y] + sums[t \ {y}]
        OBVIOUS
    <2>3. PICK z : z = Chosen(t)
        OBVIOUS
    <2>4. z \in t /\ sums[t] = f[z] + sums[t \ {z}]
        BY <2>2, <2>3, SumStepShrinks DEF SumsOf, SumStep
    <2>5. z # y
        BY <2>2, <2>4
    <2>6. PICK t1, t2, t3 : t1 = t \ {z} /\ t2 = t \ {y} /\ t3 = t \ {y, z}
        OBVIOUS
    <2>7. /\ t1 \in SUBSET S /\ t1 \notin Bad /\ y \in t1 /\ t1 \ {y} = t3
          /\ t2 \in SUBSET S /\ t2 \notin Bad /\ z \in t2 /\ t2 \ {z} = t3
          /\ t3 \in SUBSET S
        BY <2>1, <2>4, <2>5, <2>6
    <2>8. sums[t1] = f[y] + sums[t3] /\ sums[t2] = f[z] + sums[t3]
        BY <2>7
    <2>9. sums[t3] \in Nat /\ f[y] \in Nat /\ f[z] \in Nat
        BY <2>4, <2>7, SumsAreNatural
    <2> QED
        BY <2>2, <2>4, <2>6, <2>8, <2>9
<1> QED
    BY <1>1

\* If the values of a set are changed, the sum changes by what is added to
\* some of them and taken from some.
LEMMA SumsBalance ==
    ASSUME NEW S, IsFiniteSet(S),
           NEW f, \A x \in S : f[x] \in Nat, NEW before, SumsOf(f, S, before),
           NEW g, \A x \in S : g[x] \in Nat, NEW after, SumsOf(g, S, after),
           NEW P \in SUBSET S, NEW a, \A x \in P : a[x] \in Nat,
           NEW added, SumsOf(a, P, added),
           NEW N \in SUBSET S, NEW b, \A x \in N : b[x] \in Nat,
           NEW taken, SumsOf(b, N, taken),
           \A x \in S : g[x] + (IF x \in N THEN b[x] ELSE 0)
                        = f[x] + (IF x \in P THEN a[x] ELSE 0)
    PROVE  after[S] + taken[N] = before[S] + added[P]
<1> DEFINE Bad == {s \in SUBSET S : after[s] + taken[s \cap N] # before[s] + added[s \cap P]}
<1>1. IsFiniteSet(P) /\ IsFiniteSet(N)
    BY FS_Subset
<1>2. Bad = {}
    <2> SUFFICES ASSUME Bad # {} PROVE FALSE
        OBVIOUS
    <2>1. PICK s \in Bad : \A t \in Bad : t \subseteq s => t = s
        <3>1. Bad \in SUBSET SUBSET S
            OBVIOUS
        <3> HIDE DEF Bad
        <3> QED
            BY <3>1, SmallestSubset
    <2>2. s # {}
        <3> SUFFICES ASSUME s = {} PROVE FALSE
            OBVIOUS
        <3>1. before[s] = 0 /\ after[s] = 0
            BY DEF SumsOf, SumStep
        <3>2. s \cap P = {} /\ s \cap N = {} /\ {} \in SUBSET P /\ {} \in SUBSET N
            OBVIOUS
        <3>3. added[{}] = 0 /\ taken[{}] = 0
            BY <3>2 DEF SumsOf, SumStep
        <3> QED
            BY <3>1, <3>2, <3>3
    <2>3. PICK x \in s : TRUE
        BY <2>2
    <2>4. PICK t, p, n, q, m : /\ t = s \ {x} /\ p = s \cap P /\ n = s \cap N
                               /\ q = t \cap P /\ m = t \cap N
        OBVIOUS
    <2>5. /\ t \in SUBSET S /\ t \notin Bad
          /\ p \in SUBSET P /\ n \in SUBSET N /\ q \in SUBSET P /\ m \in SUBSET N
        BY <2>1, <2>3, <2>4
    <2>6. after[t] + taken[m] = before[t] + added[q]
        BY <2>4, <2>5
    <2>7. after[s] = g[x] + after[t] /\ before[s] = f[x] + before[t]
        BY <2>4, SumsTake
    <2>8. added[p] = (IF x \in P THEN a[x] ELSE 0) + added[q] /\ added[q] \in Nat
        <3>1. added[q] \in Nat
            BY <1>1, <2>5, SumsAreNatural
        <3>2. CASE x \in P
            <4>1. x \in p /\ q = p \ {x}
                BY <2>3, <2>4, <3>2
            <4>2. added[p] = a[x] + added[p \ {x}]
                BY <1>1, <2>5, <4>1, SumsTake
            <4> QED
                BY <3>1, <3>2, <4>1, <4>2
        <3>3. CASE x \notin P
            <4>1. q = p
                BY <2>4, <3>3
            <4> QED
                BY <3>1, <3>3, <4>1
        <3> QED
            BY <3>2, <3>3
    <2>9. taken[n] = (IF x \in N THEN b[x] ELSE 0) + taken[m] /\ taken[m] \in Nat
        <3>1. taken[m] \in Nat
            BY <1>1, <2>5, SumsAreNatural
        <3>2. CASE x \in N
            <4>1. x \in n /\ m = n \ {x}
                BY <2>3, <2>4, <3>2
            <4>2. taken[n] = b[x] + taken[n \ {x}]
                BY <1>1, <2>5, <4>1, SumsTake
            <4> QED
                BY <3>1, <3>2, <4>1, <4>2
        <3>3. CASE x \notin N
            <4>1. m = n
                BY <2>4, <3>3
            <4> QED
                BY <3>1, <3>3, <4>1
        <3> QED
            BY <3>2, <3>3
    <2>10. before[t] \in Nat /\ after[t] \in Nat /\ f[x] \in Nat /\ g[x] \in Nat
        BY <2>5, SumsAreNatural
    <2>11. PICK up, down : /\ up = (IF x \in P THEN a[x] ELSE 0)
                           /\ down = (IF x \in N THEN b[x] ELSE 0)
        OBVIOUS
    <2>12. up \in Nat /\ down \in Nat /\ g[x] + down = f[x] + up
        BY <2>11
    <2>13. after[s] + taken[n] = before[s] + added[p]
        BY <2>6, <2>7, <2>8, <2>9, <2>10, <2>11, <2>12
    <2> QED
        BY <2>4, <2>13
<1>3. S \cap P = P /\ S \cap N = N /\ S \in SUBSET S /\ S \notin Bad
    BY <1>2
<1> QED
    BY <1>3
=============================================================================
