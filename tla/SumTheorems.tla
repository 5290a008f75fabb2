---------------------------- MODULE SumTheorems ----------------------------
(***************************************************************************)
(* SumFunctionOnSet, a fold of the community modules, adds up a function    *)
(* over a finite set of naturals: lemmas for the counts that the Master     *)
(* keeps of its blocks.  The fold is a recursive function, and tlapm cannot *)
(* instantiate the library's theorems about those, so that it exists, and   *)
(* what it computes, follows from a least counterexample.  Then remainders,  *)
(* for counts that wrap around.                                            *)
(***************************************************************************)
EXTENDS FiniteSetsExt, FiniteSetTheorems, WellFoundedInduction, TLAPS

(* A set of naturals that is not empty has a least element.                *)
LEMMA LeastNatural ==
    ASSUME NEW S \in SUBSET Nat, S # {}
    PROVE  \E x \in S : \A y \in S : x <= y
<1> DEFINE less == OpToRel(<, Nat)
<1>1. PICK n \in S : \A m \in S : <<m, n>> \notin less
  <2>1. IsWellFoundedOn(less, Nat)
    BY NatLessThanWellFounded
  <2> HIDE DEF less
  <2> QED BY <2>1, WFMin
<1>2. \A m \in S : ~(m < n)
  BY <1>1 DEF OpToRel
<1> QED BY <1>2

(* Induction over the naturals, for sets instead of operators.             *)
LEMMA Induction ==
    ASSUME NEW P, 0 \in P, \A n \in Nat : n \in P => n + 1 \in P
    PROVE  Nat \subseteq P
<1> SUFFICES ASSUME Nat \ P # {} PROVE FALSE
  OBVIOUS
<1>1. PICK n \in Nat \ P : \A m \in Nat \ P : n <= m
  BY LeastNatural
<1>2. n \in Nat /\ n # 0
  BY <1>1
<1>3. n - 1 \in Nat /\ n - 1 < n /\ (n - 1) + 1 = n
  BY <1>2
<1>4. n - 1 \in P
  BY <1>1, <1>3
<1> QED BY <1>1, <1>3, <1>4

-----------------------------------------------------------------------------
Pick(s) == CHOOSE x \in s : TRUE

(* The equation of the fold, for functions on a set of sets.               *)
Adds(g, f, Sets) ==
    \A s \in Sets : g[s] = IF s = {} THEN 0 ELSE f[Pick(s)] + g[s \ {Pick(s)}]

UpTo(S, n) == {s \in SUBSET S : Cardinality(s) <= n}

(* What is left of a set when its chosen element is taken.                 *)
LEMMA Picked ==
    ASSUME NEW S, IsFiniteSet(S), NEW s \in SUBSET S, s # {}
    PROVE  /\ Pick(s) \in s /\ s \ {Pick(s)} \in SUBSET S
           /\ IsFiniteSet(s) /\ Cardinality(s) \in Nat
           /\ Cardinality(s \ {Pick(s)}) = Cardinality(s) - 1
           /\ Cardinality(s \ {Pick(s)}) \in Nat
<1>1. Pick(s) \in s
  BY DEF Pick
<1>2. IsFiniteSet(s)
  BY FS_Subset
<1>3. IsFiniteSet(s \ {Pick(s)}) /\ Cardinality(s \ {Pick(s)}) = Cardinality(s) - 1
  BY <1>1, <1>2, FS_RemoveElement
<1> QED BY <1>1, <1>2, <1>3, FS_CardinalityType

(* There is such a function of naturals on all subsets of a finite set.     *)
LEMMA SumExists ==
    ASSUME NEW S, IsFiniteSet(S), NEW f, \A x \in S : f[x] \in Nat
    PROVE  \E g \in [SUBSET S -> Nat] : Adds(g, f, SUBSET S)
<1> DEFINE P == {n \in Nat : \E g \in [UpTo(S, n) -> Nat] : Adds(g, f, UpTo(S, n))}
<1>1. 0 \in P
  <2> DEFINE g == [s \in UpTo(S, 0) |-> 0]
  <2>1. \A s \in UpTo(S, 0) : s = {}
    <3> SUFFICES ASSUME NEW s \in UpTo(S, 0), s # {} PROVE FALSE
      OBVIOUS
    <3>1. Cardinality(s) <= 0 /\ s \in SUBSET S
      BY DEF UpTo
    <3>2. Cardinality(s) \in Nat /\ Cardinality(s) - 1 \in Nat
      BY <3>1, Picked
    <3> QED BY <3>1, <3>2
  <2>2. g \in [UpTo(S, 0) -> Nat] /\ Adds(g, f, UpTo(S, 0))
    BY <2>1 DEF Adds
  <2> QED BY <2>2
<1>2. ASSUME NEW n \in Nat, n \in P PROVE n + 1 \in P
  <2>1. PICK g \in [UpTo(S, n) -> Nat] : Adds(g, f, UpTo(S, n))
    BY <1>2
  <2> DEFINE body(s) == IF s = {} THEN 0 ELSE f[Pick(s)] + g[s \ {Pick(s)}]
             h == [s \in UpTo(S, n + 1) |-> body(s)]
  <2>2. ASSUME NEW s \in UpTo(S, n + 1), s # {}
        PROVE  s \ {Pick(s)} \in UpTo(S, n) /\ f[Pick(s)] \in Nat
    <3>1. s \in SUBSET S /\ Cardinality(s) <= n + 1
      BY DEF UpTo
    <3>2. /\ Pick(s) \in S /\ s \ {Pick(s)} \in SUBSET S
          /\ Cardinality(s) \in Nat /\ Cardinality(s \ {Pick(s)}) = Cardinality(s) - 1
      BY <3>1, <2>2, Picked
    <3>3. Cardinality(s \ {Pick(s)}) <= n
      BY <3>1, <3>2
    <3> QED BY <3>2, <3>3 DEF UpTo
  <2>3. \A s \in UpTo(S, n) : s \in UpTo(S, n + 1)
    <3> SUFFICES ASSUME NEW s \in UpTo(S, n) PROVE s \in UpTo(S, n + 1)
      OBVIOUS
    <3>1. s \in SUBSET S /\ Cardinality(s) <= n
      BY DEF UpTo
    <3>2. Cardinality(s) \in Nat
      BY <3>1, FS_Subset, FS_CardinalityType
    <3> QED BY <3>1, <3>2 DEF UpTo
  <2>4. \A s \in UpTo(S, n) : h[s] = g[s]
    BY <2>1, <2>3 DEF Adds
  <2>5. h \in [UpTo(S, n + 1) -> Nat]
    BY <2>2
  <2>6. Adds(h, f, UpTo(S, n + 1))
    BY <2>2, <2>4 DEF Adds
  <2> HIDE DEF h
  <2> QED BY <2>5, <2>6
<1>3. Nat \subseteq P
  <2> HIDE DEF P
  <2> QED BY <1>1, <1>2, Induction
<1>4. Cardinality(S) \in Nat
  BY FS_CardinalityType
<1>5. UpTo(S, Cardinality(S)) = SUBSET S
  BY FS_Subset DEF UpTo
<1>6. Cardinality(S) \in P
  BY <1>3, <1>4
<1> QED BY <1>5, <1>6

(* Two such functions agree where both are defined.                        *)
Overlap(g, f, T, h, e, S) ==
    /\ S \subseteq T /\ IsFiniteSet(S) /\ \A x \in S : f[x] = e[x]
    /\ Adds(g, f, SUBSET T) /\ Adds(h, e, SUBSET S)

(* The values of both are the same there.                                 *)
LEMMA SumUnique ==
    ASSUME NEW g, NEW f, NEW T, NEW h, NEW e, NEW S, Overlap(g, f, T, h, e, S)
    PROVE  \A s \in SUBSET S : g[s] = h[s]
<1>a. /\ S \subseteq T /\ IsFiniteSet(S) /\ \A x \in S : f[x] = e[x]
      /\ Adds(g, f, SUBSET T) /\ Adds(h, e, SUBSET S)
  BY DEF Overlap
<1> DEFINE P == {n \in Nat : \A s \in UpTo(S, n) : g[s] = h[s]}
<1>0. \A s \in SUBSET S : s \in SUBSET T
  BY <1>a
<1>1. 0 \in P
  <2> SUFFICES ASSUME NEW s \in UpTo(S, 0) PROVE g[s] = h[s]
    OBVIOUS
  <2>1. Cardinality(s) <= 0 /\ s \in SUBSET S
    BY DEF UpTo
  <2>2. s = {}
    <3> SUFFICES ASSUME s # {} PROVE FALSE
      OBVIOUS
    <3>2. Cardinality(s) \in Nat /\ Cardinality(s) - 1 \in Nat
      BY <1>a, <2>1, Picked
    <3> QED BY <2>1, <3>2
  <2> QED BY <1>a, <1>0, <2>1, <2>2 DEF Adds
<1>2. ASSUME NEW n \in Nat, n \in P PROVE n + 1 \in P
  <2>0. {} \in SUBSET S /\ g[{}] = h[{}]
    BY <1>a, <1>0 DEF Adds
  <2> SUFFICES ASSUME NEW s \in UpTo(S, n + 1) PROVE s # {} => g[s] = h[s]
    <3>1. n + 1 \in Nat
      OBVIOUS
    <3> QED BY <2>0, <3>1
  <2> HAVE s # {}
  <2>1. s \in SUBSET S /\ Cardinality(s) <= n + 1
    BY DEF UpTo
  <2>2. /\ Pick(s) \in S /\ s \ {Pick(s)} \in SUBSET S
        /\ Cardinality(s) \in Nat /\ Cardinality(s \ {Pick(s)}) = Cardinality(s) - 1
    BY <1>a, <2>1, Picked
  <2>3. Cardinality(s \ {Pick(s)}) <= n
    BY <2>1, <2>2
  <2>4. g[s \ {Pick(s)}] = h[s \ {Pick(s)}]
    BY <1>2, <2>2, <2>3 DEF UpTo
  <2>5. f[Pick(s)] = e[Pick(s)]
    BY <1>a, <2>2
  <2>6. g[s] = f[Pick(s)] + g[s \ {Pick(s)}]
    BY <1>a, <1>0, <2>1 DEF Adds
  <2>7. h[s] = e[Pick(s)] + h[s \ {Pick(s)}]
    BY <1>a, <2>1 DEF Adds
  <2> QED BY <2>4, <2>5, <2>6, <2>7
<1>3. Nat \subseteq P
  <2> HIDE DEF P
  <2> QED BY <1>1, <1>2, Induction
<1>4. Cardinality(S) \in P
  BY <1>a, <1>3, FS_CardinalityType
<1> QED BY <1>a, <1>4, FS_Subset DEF UpTo

(* The fold is such a function's value.                                    *)
LEMMA SumIsSuch ==
    ASSUME NEW S, IsFiniteSet(S), NEW f, \A x \in S : f[x] \in Nat
    PROVE  \E g \in [SUBSET S -> Nat] : Adds(g, f, SUBSET S) /\ SumFunctionOnSet(f, S) = g[S]
<1>1. PICK g \in [SUBSET S -> Nat] : Adds(g, f, SUBSET S)
  BY SumExists
<1> DEFINE Fold(h) == h = [s \in SUBSET S |-> IF s = {} THEN 0
                             ELSE f[CHOOSE x \in s : TRUE] + h[s \ {CHOOSE x \in s : TRUE}]]
           iter == CHOOSE h : Fold(h)
<1>2. Fold(g)
  BY <1>1 DEF Adds, Pick
<1>3. Fold(iter)
  <2> HIDE DEF Fold
  <2> QED BY <1>2
<1>4. \A s \in SUBSET S : s # {} => Pick(s) \in S /\ s \ {Pick(s)} \in SUBSET S
  BY Picked
<1>5. Adds(iter, f, SUBSET S)
  <2> SUFFICES ASSUME NEW s \in SUBSET S
               PROVE  iter[s] = IF s = {} THEN 0 ELSE f[Pick(s)] + iter[s \ {Pick(s)}]
    BY DEF Adds
  <2> HIDE DEF iter
  <2> QED BY <1>3 DEF Pick
<1>6. SumFunctionOnSet(f, S) = iter[S]
  BY DEF SumFunctionOnSet, FoldFunctionOnSet, MapThenFoldSet
<1>7. iter[S] = g[S]
  <2> HIDE DEF iter
  <2>1. Overlap(iter, f, S, g, f, S)
    BY <1>1, <1>5 DEF Overlap
  <2> QED BY <2>1, SumUnique
<1> HIDE DEF iter
<1> QED BY <1>1, <1>6, <1>7

-----------------------------------------------------------------------------
(* What the fold computes.                                                 *)

(* A sum of naturals is a natural.                                        *)
LEMMA SumType ==
    ASSUME NEW S, IsFiniteSet(S), NEW f, \A x \in S : f[x] \in Nat
    PROVE  SumFunctionOnSet(f, S) \in Nat
<1>1. PICK g \in [SUBSET S -> Nat] : Adds(g, f, SUBSET S) /\ SumFunctionOnSet(f, S) = g[S]
  BY SumIsSuch
<1> QED BY <1>1

(* A sum of nothing is 0.                                                 *)
LEMMA SumOfNone == ASSUME NEW f PROVE SumFunctionOnSet(f, {}) = 0
<1>1. IsFiniteSet({}) /\ \A x \in {} : f[x] \in Nat
  BY FS_EmptySet
<1>2. PICK g \in [SUBSET {} -> Nat] : Adds(g, f, SUBSET {}) /\ SumFunctionOnSet(f, {}) = g[{}]
  BY <1>1, SumIsSuch
<1> QED BY <1>2 DEF Adds

(* The sums of functions that agree on the set are the same.               *)
LEMMA SumSame ==
    ASSUME NEW S, IsFiniteSet(S), NEW f, NEW e,
           \A x \in S : f[x] \in Nat /\ f[x] = e[x]
    PROVE  SumFunctionOnSet(f, S) = SumFunctionOnSet(e, S)
<1>1. PICK g \in [SUBSET S -> Nat] : Adds(g, f, SUBSET S) /\ SumFunctionOnSet(f, S) = g[S]
  BY SumIsSuch
<1>2. PICK h \in [SUBSET S -> Nat] : Adds(h, e, SUBSET S) /\ SumFunctionOnSet(e, S) = h[S]
  BY SumIsSuch
<1>3. \A s \in SUBSET S : g[s] = h[s]
  <2>1. Overlap(g, f, S, h, e, S)
    BY <1>1, <1>2 DEF Overlap
  <2> QED BY <2>1, SumUnique
<1> QED BY <1>1, <1>2, <1>3

(* The chosen element first.                                               *)
LEMMA SumPicked ==
    ASSUME NEW S, IsFiniteSet(S), S # {}, NEW f, \A x \in S : f[x] \in Nat
    PROVE  SumFunctionOnSet(f, S) = f[Pick(S)] + SumFunctionOnSet(f, S \ {Pick(S)})
<1> DEFINE R == S \ {Pick(S)}
<1>1. R \subseteq S /\ IsFiniteSet(R) /\ \A x \in R : f[x] \in Nat
  BY FS_Subset
<1>2. PICK g \in [SUBSET S -> Nat] : Adds(g, f, SUBSET S) /\ SumFunctionOnSet(f, S) = g[S]
  BY SumIsSuch
<1>3. PICK h \in [SUBSET R -> Nat] : Adds(h, f, SUBSET R) /\ SumFunctionOnSet(f, R) = h[R]
  <2> HIDE DEF R
  <2> QED BY <1>1, SumIsSuch
<1>4. g[R] = h[R]
  <2> HIDE DEF R
  <2>1. Overlap(g, f, S, h, f, R)
    BY <1>1, <1>2, <1>3 DEF Overlap
  <2> QED BY <2>1, SumUnique
<1>5. g[S] = f[Pick(S)] + g[R]
  BY <1>2 DEF Adds
<1> QED BY <1>2, <1>3, <1>4, <1>5

(* Any element first.                                                      *)
THEOREM SumAnyFirst ==
    ASSUME NEW S, IsFiniteSet(S), NEW f, \A x \in S : f[x] \in Nat, NEW x \in S
    PROVE  SumFunctionOnSet(f, S) = f[x] + SumFunctionOnSet(f, S \ {x})
<1> DEFINE Sum(s) == SumFunctionOnSet(f, s)
           First(s) == \A y \in s : Sum(s) = f[y] + Sum(s \ {y})
           P == {n \in Nat : \A s \in UpTo(S, n) : First(s)}
<1>0. ASSUME NEW s \in SUBSET S PROVE IsFiniteSet(s) /\ Sum(s) \in Nat /\ \A y \in s : f[y] \in Nat
  <2>1. IsFiniteSet(s) /\ \A y \in s : f[y] \in Nat
    BY FS_Subset
  <2> QED BY <2>1, SumType
<1>1. 0 \in P
  <2> SUFFICES ASSUME NEW s \in UpTo(S, 0), s # {} PROVE FALSE
    OBVIOUS
  <2>1. s \in SUBSET S /\ Cardinality(s) <= 0
    BY DEF UpTo
  <2>2. Cardinality(s) \in Nat /\ Cardinality(s) - 1 \in Nat
    BY <2>1, Picked
  <2> QED BY <2>1, <2>2
<1>2. ASSUME NEW n \in Nat, n \in P PROVE n + 1 \in P
  <2> SUFFICES ASSUME NEW s \in UpTo(S, n + 1), NEW y \in s
               PROVE  Sum(s) = f[y] + Sum(s \ {y})
    OBVIOUS
  <2> DEFINE p == Pick(s)
  <2>1. s \in SUBSET S /\ Cardinality(s) <= n + 1 /\ s # {}
    BY DEF UpTo
  <2>2. /\ p \in s /\ s \ {p} \in SUBSET S /\ s \ {y} \in SUBSET S
        /\ Cardinality(s) \in Nat /\ Cardinality(s \ {p}) = Cardinality(s) - 1
        /\ Cardinality(s \ {y}) = Cardinality(s) - 1
    BY <2>1, Picked, FS_RemoveElement
  <2>3. s \ {p} \in UpTo(S, n) /\ s \ {y} \in UpTo(S, n)
    <3>1. Cardinality(s \ {p}) <= n /\ Cardinality(s \ {y}) <= n
      BY <2>1, <2>2
    <3> QED BY <2>2, <3>1 DEF UpTo
  <2>4. Sum(s) = f[p] + Sum(s \ {p})
    BY <1>0, <2>1, SumPicked
  <2> HIDE DEF Sum, p
  <2>5. CASE y = p
    BY <2>4, <2>5
  <2>6. CASE y # p
    <3> DEFINE rest == s \ {p, y}
    <3>1. (s \ {p}) \ {y} = rest /\ (s \ {y}) \ {p} = rest /\ rest \in SUBSET S
      BY <2>1
    <3> HIDE DEF rest
    <3>2. First(s \ {p}) /\ First(s \ {y})
      BY <1>2, <2>3
    <3>3. Sum(s \ {p}) = f[y] + Sum(rest)
      BY <2>6, <3>1, <3>2
    <3>4. Sum(s \ {y}) = f[p] + Sum(rest)
      BY <2>2, <2>6, <3>1, <3>2
    <3>5. f[p] \in Nat /\ f[y] \in Nat /\ Sum(rest) \in Nat
      BY <1>0, <2>1, <2>2, <3>1
    <3> QED BY <2>4, <3>3, <3>4, <3>5
  <2> QED BY <2>5, <2>6
<1>3. Nat \subseteq P
  <2> HIDE DEF P
  <2> QED BY <1>1, <1>2, Induction
<1>4. Cardinality(S) \in P
  BY <1>3, FS_CardinalityType
<1>5. First(S)
  <2> HIDE DEF First
  <2> QED BY <1>4, FS_Subset DEF UpTo
<1> QED BY <1>5

(* If two functions differ at one place, so do their sums.                 *)
LEMMA SumChanged ==
    ASSUME NEW S, IsFiniteSet(S), NEW x \in S, NEW f, NEW e,
           \A y \in S : f[y] \in Nat /\ e[y] \in Nat,
           \A y \in S \ {x} : f[y] = e[y]
    PROVE  /\ SumFunctionOnSet(f, S) \in Nat /\ SumFunctionOnSet(e, S) \in Nat
           /\ SumFunctionOnSet(f, S) - f[x] = SumFunctionOnSet(e, S) - e[x]
<1> DEFINE R == S \ {x}
<1>1. IsFiniteSet(R) /\ \A y \in R : f[y] \in Nat /\ e[y] \in Nat /\ f[y] = e[y]
  BY FS_Subset
<1>2. SumFunctionOnSet(f, S) = f[x] + SumFunctionOnSet(f, R)
  BY SumAnyFirst
<1>3. SumFunctionOnSet(e, S) = e[x] + SumFunctionOnSet(e, R)
  BY SumAnyFirst
<1> HIDE DEF R
<1>4. SumFunctionOnSet(f, R) = SumFunctionOnSet(e, R) /\ SumFunctionOnSet(f, R) \in Nat
  BY <1>1, SumSame, SumType
<1> QED BY <1>2, <1>3, <1>4

(* The sum of the larger function is the larger one.                       *)
LEMMA SumMonotone ==
    ASSUME NEW S, IsFiniteSet(S), NEW f, NEW e,
           \A x \in S : f[x] \in Nat /\ e[x] \in Nat /\ f[x] <= e[x]
    PROVE  SumFunctionOnSet(f, S) <= SumFunctionOnSet(e, S)
<1> DEFINE Below(s) == SumFunctionOnSet(f, s) <= SumFunctionOnSet(e, s)
           P == {n \in Nat : \A s \in UpTo(S, n) : Below(s)}
<1>0. Below({})
  BY SumOfNone
<1>1. 0 \in P
  <2> SUFFICES ASSUME NEW s \in UpTo(S, 0), s # {} PROVE FALSE
    BY <1>0
  <2>1. s \in SUBSET S /\ Cardinality(s) <= 0
    BY DEF UpTo
  <2>2. Cardinality(s) \in Nat /\ Cardinality(s) - 1 \in Nat
    BY <2>1, Picked
  <2> QED BY <2>1, <2>2
<1>2. ASSUME NEW n \in Nat, n \in P PROVE n + 1 \in P
  <2> SUFFICES ASSUME NEW s \in UpTo(S, n + 1) PROVE s # {} => Below(s)
    <3>1. n + 1 \in Nat
      OBVIOUS
    <3> HIDE DEF Below
    <3> QED BY <1>0, <3>1
  <2> HAVE s # {}
  <2> DEFINE p == Pick(s)
             R == s \ {p}
  <2>1. s \in SUBSET S /\ Cardinality(s) <= n + 1
    BY DEF UpTo
  <2>2. /\ p \in s /\ R \in SUBSET S /\ IsFiniteSet(s)
        /\ Cardinality(s) \in Nat /\ Cardinality(R) = Cardinality(s) - 1
    BY <2>1, Picked
  <2>3. Cardinality(R) <= n
    BY <2>1, <2>2
  <2>4. Below(R)
    BY <1>2, <2>2, <2>3 DEF UpTo
  <2>5. SumFunctionOnSet(f, s) = f[p] + SumFunctionOnSet(f, R)
    BY <2>1, <2>2, SumAnyFirst
  <2>6. SumFunctionOnSet(e, s) = e[p] + SumFunctionOnSet(e, R)
    BY <2>1, <2>2, SumAnyFirst
  <2>7. IsFiniteSet(R) /\ \A x \in R : f[x] \in Nat /\ e[x] \in Nat
    BY <2>2, FS_Subset
  <2>8. f[p] \in Nat /\ e[p] \in Nat /\ f[p] <= e[p]
    BY <2>1, <2>2
  <2> HIDE DEF R, p
  <2>9. SumFunctionOnSet(f, R) \in Nat /\ SumFunctionOnSet(e, R) \in Nat
    BY <2>7, SumType
  <2> QED BY <2>4, <2>5, <2>6, <2>8, <2>9
<1>3. Nat \subseteq P
  <2> HIDE DEF P
  <2> QED BY <1>1, <1>2, Induction
<1>4. Cardinality(S) \in P
  BY <1>3, FS_CardinalityType
<1> QED BY <1>4, FS_Subset DEF UpTo
(* The sum over a part of a set is not larger.                             *)
LEMMA SumOfPart ==
    ASSUME NEW T, IsFiniteSet(T), NEW S \in SUBSET T, NEW f, \A x \in T : f[x] \in Nat
    PROVE  SumFunctionOnSet(f, S) <= SumFunctionOnSet(f, T)
<1> DEFINE Holds(n) == \A U \in SUBSET T :
              S \subseteq U /\ Cardinality(U \ S) = n => SumFunctionOnSet(f, S) <= SumFunctionOnSet(f, U)
           P == {n \in Nat : Holds(n)}
<1>1. ASSUME NEW U \in SUBSET T
      PROVE  /\ IsFiniteSet(U) /\ IsFiniteSet(U \ S)
             /\ SumFunctionOnSet(f, U) \in Nat
  <2>1. IsFiniteSet(U) /\ IsFiniteSet(U \ S)
    BY FS_Subset
  <2> QED BY <2>1, SumType
<1>2. 0 \in P
  <2>1. ASSUME NEW U \in SUBSET T, S \subseteq U, Cardinality(U \ S) = 0
        PROVE  SumFunctionOnSet(f, S) <= SumFunctionOnSet(f, U)
    <3>1. U = S
      BY <1>1, <2>1, FS_EmptySet
    <3>2. SumFunctionOnSet(f, U) \in Nat
      BY <1>1, <2>1
    <3>3. \A x \in Nat : x <= x
      OBVIOUS
    <3>4. SumFunctionOnSet(f, U) <= SumFunctionOnSet(f, U)
      BY <3>2, <3>3
    <3> QED BY <3>1, <3>4, Zenon
  <2> QED BY <2>1
<1>3. \A n \in Nat : n \in P => n + 1 \in P
  <2> SUFFICES ASSUME NEW n \in Nat, Holds(n), NEW U \in SUBSET T, S \subseteq U,
                      Cardinality(U \ S) = n + 1
               PROVE  SumFunctionOnSet(f, S) <= SumFunctionOnSet(f, U)
    OBVIOUS
  <2>1. PICK x \in U \ S : TRUE
    BY <1>1, FS_EmptySet
  <2> DEFINE V == U \ {x}
  <2>2. V \in SUBSET T /\ S \subseteq V /\ V \ S = (U \ S) \ {x}
    BY <2>1
  <2>3. Cardinality(V \ S) = n
    <3>1. IsFiniteSet(U \ S) /\ x \in U \ S
      BY <1>1, <2>1
    <3>2. Cardinality((U \ S) \ {x}) = Cardinality(U \ S) - 1
      BY <3>1, FS_RemoveElement
    <3> QED BY <2>2, <3>2
  <2>4. SumFunctionOnSet(f, S) <= SumFunctionOnSet(f, V)
    BY <2>2, <2>3
  <2>5. SumFunctionOnSet(f, U) = f[x] + SumFunctionOnSet(f, V)
    <3>1. \A y \in U : f[y] \in Nat
      OBVIOUS
    <3> QED BY <1>1, <2>1, <3>1, SumAnyFirst
  <2>6. f[x] \in Nat
    BY <2>1
  <2>7. SumFunctionOnSet(f, S) \in Nat /\ SumFunctionOnSet(f, V) \in Nat
    BY <1>1, <2>2
  <2> HIDE DEF V
  <2> QED BY <2>4, <2>5, <2>6, <2>7
<1>4. Nat \subseteq P
  <2> HIDE DEF P
  <2> QED BY <1>2, <1>3, Induction
<1>5. Cardinality(T \ S) \in Nat
  BY <1>1, FS_CardinalityType
<1> QED BY <1>4, <1>5

-----------------------------------------------------------------------------
(* Counting modulo the size of a word.  *)

(* Division with a rest, of any integer.                                   *)
LEMMA DivRest ==
    ASSUME NEW n \in Int, NEW d \in Nat \ {0}
    PROVE  /\ n \div d \in Int /\ n % d \in 0..(d - 1)
           /\ n = ((n \div d) * d) + (n % d)
<1>1. n \div d \in Int /\ n % d \in 0..(d - 1)
  BY SMT
<1>2. n = (d * (n \div d)) + (n % d)
  BY SMT
<1> QED BY <1>1, <1>2, SMT

(* The rest is unique.                                                     *)
LEMMA OneRest ==
    ASSUME NEW d \in Nat \ {0}, NEW p \in Int, NEW q \in Int,
           NEW r \in 0..(d - 1), NEW s \in 0..(d - 1), (p * d) + r = (q * d) + s
    PROVE  r = s
<1>1. (p - q) * d = s - r
  BY SMT
<1>2. CASE p - q >= 1
  <2>1. (p - q) * d >= d
    BY <1>2, SMT
  <2> QED BY <1>1, <2>1, SMT
<1>3. CASE q - p >= 1
  <2>1. (q - p) * d >= d
    BY <1>3, SMT
  <2>2. (q - p) * d = r - s
    BY SMT
  <2> QED BY <2>1, <2>2, SMT
<1>4. CASE p = q
  BY <1>4, SMT
<1> QED BY <1>2, <1>3, <1>4, SMT

(* Adding to a count that has wrapped around is adding to the count.        *)
LEMMA RestAdded ==
    ASSUME NEW x \in Int, NEW n \in Int, NEW d \in Nat \ {0}
    PROVE  ((x % d) + n) % d = (x + n) % d
<1> DEFINE a == x \div d
           b == ((x % d) + n) \div d
           c == (x + n) \div d
           r == ((x % d) + n) % d
           s == (x + n) % d
           e == x % d
<1>1. a \in Int /\ e \in 0..(d - 1) /\ x = (a * d) + e
  BY DivRest
<1>2. e \in Int /\ e + n \in Int /\ x + n \in Int
  BY <1>1
<1>3. b \in Int /\ r \in 0..(d - 1) /\ e + n = (b * d) + r
  BY <1>2, DivRest
<1>4. c \in Int /\ s \in 0..(d - 1) /\ x + n = (c * d) + s
  BY <1>2, DivRest
<1> HIDE DEF a, b, c, r, s, e
<1>5. r \in Int /\ s \in Int
  BY <1>3, <1>4
<1>6. ((a + b) * d) + r = (c * d) + s
  <2>1. (a + b) * d = (a * d) + (b * d)
    BY <1>1, <1>3, SMT
  <2>2. a * d \in Int /\ b * d \in Int /\ c * d \in Int
    BY <1>1, <1>3, <1>4
  <2> QED BY <1>1, <1>2, <1>3, <1>4, <1>5, <2>1, <2>2
<1>7. a + b \in Int
  BY <1>1, <1>3
<1>8. r = s
  BY <1>3, <1>4, <1>6, <1>7, OneRest
<1> QED BY <1>8 DEF r, s, e

(* A count that fits has not wrapped around, and none grows by wrapping.    *)
LEMMA RestSmall ==
    ASSUME NEW n \in Nat, NEW d \in Nat \ {0}
    PROVE  /\ n % d <= n
           /\ n < d => n % d = n
<1>1. n \div d \in Int /\ n % d \in 0..(d - 1) /\ n = ((n \div d) * d) + (n % d)
  BY DivRest
<1>2. n \div d \in Nat
  BY SMT
<1>3. (n \div d) * d \in Nat
  BY <1>2, SMT
<1>4. n % d <= n
  BY <1>1, <1>3, SMT
<1>5. ASSUME n < d PROVE n % d = n
  <2>1. n \in 0..(d - 1) /\ (0 * d) + n = n
    BY <1>5
  <2> QED BY <2>1, <1>1, OneRest
<1> QED BY <1>4, <1>5

(* A rest of 0 says that the number is a multiple.                         *)
LEMMA RestZero ==
    ASSUME NEW n \in Nat, NEW d \in Nat \ {0}
    PROVE  n % d = 0 <=> \E k \in 0..n : n = k * d
<1>1. n \div d \in Int /\ n % d \in 0..(d - 1) /\ n = ((n \div d) * d) + (n % d)
  BY DivRest
<1>2. ASSUME n % d = 0 PROVE \E k \in 0..n : n = k * d
  <2> DEFINE k == n \div d
  <2>1. k \in Nat
    BY SMT
  <2> HIDE DEF k
  <2>2. n = k * d
    BY <1>1, <1>2, <2>1 DEF k
  <2>3. k * d >= k
    BY <2>1, SMT
  <2> QED BY <2>1, <2>2, <2>3
<1>3. ASSUME NEW k \in 0..n, n = k * d PROVE n % d = 0
  <2>1. k \in Int /\ 0 \in 0..(d - 1) /\ (k * d) + 0 = n
    BY <1>3
  <2> QED BY <2>1, <1>1, OneRest
<1> QED BY <1>2, <1>3
=============================================================================
