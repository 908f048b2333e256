---------------------------- MODULE SumTheorems ----------------------------
(***************************************************************************)
(* Facts about sums over finite sets, and the arithmetic of rounded shares *)
(* that goes with them.  FiniteSetsExt computes a sum by a recursive       *)
(* function; what it is of every finite set follows by induction, taking a *)
(* smallest subset of which it is not so (MinimalSubset).                  *)
(***************************************************************************)
EXTENDS FiniteSetsExt, FiniteSetTheorems, TLAPS, Integers

(* The library sums a set by taking an element it chooses, and then the    *)
(* rest.                                                                   *)
Pick(s) == CHOOSE x \in s : TRUE
(* g is that recursive function, for the subsets of D. *)
Sums(g, f, D) == g = [s \in SUBSET D |-> IF s = {} THEN 0 ELSE f[Pick(s)] + g[s \ {Pick(s)}]]
(* The sum of f over S, as FiniteSetsExt computes it. *)
Sum(f, S) == MapThenSumSet(LAMBDA x : f[x], S)

(* Some set is minimal among subsets of a finite set: induction over       *)
(* finite sets, as the absence of a smallest counterexample.               *)
LEMMA MinimalSubset ==
  ASSUME NEW D, IsFiniteSet(D), NEW T \in SUBSET SUBSET D, T # {}
  PROVE  \E s \in T : \A t \in T : t \subseteq s => t = s
<1>1. T \subseteq FiniteSubsetsOf(D)
  BY FS_FiniteSubsetsOfFinite
<1>2. \E s \in T : \A t \in T : ~ (<<t, s>> \in StrictSubsetOrdering(D))
  BY <1>1, FS_StrictSubsetOrderingWellFounded, WFMin
<1> QED
  BY <1>2 DEF StrictSubsetOrdering

(* A set of natural numbers has a smallest member. *)
LEMMA Smallest ==
  ASSUME NEW T, T \subseteq Nat, T # {}
  PROVE  \E m \in T : \A k \in T : m <= k
<1>1. PICK n \in T : TRUE
  OBVIOUS
<1> DEFINE D == 0..n
           U == {0..k : k \in {i \in T : i <= n}}
<1>2. IsFiniteSet(D)
  BY <1>1, FS_Interval
<1>3. U \in SUBSET SUBSET D /\ U # {}
  BY <1>1
<1>4. PICK s \in U : \A u \in U : u \subseteq s => u = s
  <2> HIDE DEF U, D
  <2> QED BY <1>2, <1>3, MinimalSubset
<1>5. PICK m \in T : m <= n /\ s = 0..m
  BY <1>4
<1>6. ASSUME NEW k \in T, k < m
      PROVE  FALSE
  <2>1. 0..k \in U /\ 0..k \subseteq s
    BY <1>1, <1>5, <1>6
  <2>2. 0..k = 0..m
    BY <1>4, <1>5, <2>1
  <2>3. m \in 0..m /\ m \notin 0..k
    BY <1>5, <1>6
  <2> QED BY <2>2, <2>3
<1> QED
  BY <1>5, <1>6

(* Two such functions agree on what both are defined for. *)
LEMMA SumUnique ==
  ASSUME NEW D, NEW E, IsFiniteSet(D), IsFiniteSet(E), NEW f, NEW g, NEW h,
         Sums(g, f, D), Sums(h, f, E), NEW s, s \subseteq D, s \subseteq E
  PROVE  g[s] = h[s]
<1> DEFINE T == {t \in SUBSET s : g[t] # h[t]}
<1> SUFFICES ASSUME T # {} PROVE FALSE
  BY DEF T
<1>0. IsFiniteSet(s)
  BY FS_Subset
<1>1. PICK t \in T : \A u \in T : u \subseteq t => u = t
  <2>1. T \in SUBSET SUBSET s
    OBVIOUS
  <2> HIDE DEF T
  <2> QED BY <1>0, <2>1, MinimalSubset
<1>2. g[t] = IF t = {} THEN 0 ELSE f[Pick(t)] + g[t \ {Pick(t)}]
  BY <1>1 DEF Sums
<1>3. h[t] = IF t = {} THEN 0 ELSE f[Pick(t)] + h[t \ {Pick(t)}]
  BY <1>1 DEF Sums
<1>4. t # {} => Pick(t) \in t
  BY DEF Pick
<1>5. t # {} => g[t \ {Pick(t)}] = h[t \ {Pick(t)}]
  BY <1>1, <1>4
<1> QED
  BY <1>1, <1>2, <1>3, <1>5

(* There is such a function for every finite set. *)
LEMMA SumExists ==
  ASSUME NEW E, IsFiniteSet(E), NEW f
  PROVE  \E g : Sums(g, f, E)
<1> DEFINE T == {D \in SUBSET E : ~ \E g : Sums(g, f, D)}
<1> SUFFICES ASSUME T # {} PROVE FALSE
  BY DEF T
<1>1. PICK D \in T : \A u \in T : u \subseteq D => u = D
  <2>1. T \in SUBSET SUBSET E
    OBVIOUS
  <2> HIDE DEF T
  <2> QED BY <2>1, MinimalSubset
<1>2. IsFiniteSet(D)
  BY <1>1, FS_Subset
<1> DEFINE G(u) == CHOOSE g : Sums(g, f, u)
<1>3. ASSUME NEW u \in SUBSET D, u # D
      PROVE  IsFiniteSet(u) /\ Sums(G(u), f, u)
  <2>1. u \notin T
    BY <1>1, <1>3
  <2>2. \E g : Sums(g, f, u)
    BY <1>1, <1>3, <2>1
  <2> QED
    BY <2>2, <1>2, <1>3, FS_Subset
<1> DEFINE Rest(s) == s \ {Pick(s)}
           W == [s \in SUBSET D |-> IF s = {} THEN 0 ELSE f[Pick(s)] + G(Rest(s))[Rest(s)]]
<1>4. ASSUME NEW s \in SUBSET D, s # {}
      PROVE  Rest(s) \in SUBSET D /\ Rest(s) # D /\ Pick(s) \in s
  BY <1>4 DEF Pick
<1>5. ASSUME NEW s \in SUBSET D, s # D
      PROVE  W[s] = G(s)[s]
  <2>1. IsFiniteSet(s) /\ Sums(G(s), f, s)
    BY <1>3, <1>5
  <2>2. G(s)[s] = IF s = {} THEN 0 ELSE f[Pick(s)] + G(s)[Rest(s)]
    BY <2>1 DEF Sums
  <2>3. CASE s = {}
    BY <2>2, <2>3
  <2>4. CASE s # {}
    <3>1. IsFiniteSet(Rest(s)) /\ Sums(G(Rest(s)), f, Rest(s)) /\ Rest(s) \subseteq s
      BY <1>3, <1>4, <2>4
    <3> HIDE DEF G, Rest
    <3>2. G(s)[Rest(s)] = G(Rest(s))[Rest(s)]
      BY <2>1, <3>1, SumUnique
    <3> QED
      BY <2>2, <2>4, <3>2
  <2> QED
    BY <2>3, <2>4
<1>6. ASSUME NEW s \in SUBSET D, s # {}
      PROVE  W[s] = f[Pick(s)] + W[Rest(s)]
  <2>1. W[Rest(s)] = G(Rest(s))[Rest(s)]
    <3> HIDE DEF G, W
    <3> QED BY <1>4, <1>5, <1>6
  <2> HIDE DEF G
  <2> QED
    BY <1>6, <2>1
<1>7. W = [s \in SUBSET D |-> IF s = {} THEN 0 ELSE f[Pick(s)] + W[Rest(s)]]
  <2>1. W[{}] = 0
    OBVIOUS
  <2>3. W = [s \in SUBSET D |-> W[s]]
    OBVIOUS
  <2> HIDE DEF W
  <2> QED
    BY <1>6, <2>1, <2>3
<1>8. Sums(W, f, D)
  <2> HIDE DEF W
  <2> QED BY <1>7 DEF Sums
<1> QED
  BY <1>1, <1>8

(* The sum is what such a function says. *)
LEMMA SumDefined ==
  ASSUME NEW S, IsFiniteSet(S), NEW f
  PROVE  \E g : Sums(g, f, S) /\ Sum(f, S) = g[S]
<1> DEFINE g == CHOOSE h : Sums(h, f, S)
<1>1. Sums(g, f, S)
  BY SumExists
<1>2. Sum(f, S) = g[S]
  BY DEF Sum, MapThenSumSet, MapThenFoldSet, Sums, Pick
<1> QED
  BY <1>1, <1>2

(* The empty sum is zero; any other is one element and the rest. *)
LEMMA SumUnfold ==
  ASSUME NEW S, IsFiniteSet(S), NEW f
  PROVE  Sum(f, S) = IF S = {} THEN 0 ELSE f[Pick(S)] + Sum(f, S \ {Pick(S)})
<1>1. PICK g : Sums(g, f, S) /\ Sum(f, S) = g[S]
  BY SumDefined
<1> DEFINE R == S \ {Pick(S)}
<1>2. IsFiniteSet(R)
  BY FS_Subset
<1>3. PICK h : Sums(h, f, R) /\ Sum(f, R) = h[R]
  BY <1>2, SumDefined
<1>4. g[R] = h[R]
  <2>1. R \subseteq S
    OBVIOUS
  <2> HIDE DEF R
  <2> QED BY <1>1, <1>2, <1>3, <2>1, SumUnique
<1>5. g[S] = IF S = {} THEN 0 ELSE f[Pick(S)] + g[R]
  BY <1>1 DEF Sums
<1> QED
  BY <1>1, <1>3, <1>4, <1>5

(* Sums of integers are integers. *)
LEMMA SumType ==
  ASSUME NEW S, IsFiniteSet(S), NEW f, \A x \in S : f[x] \in Int
  PROVE  Sum(f, S) \in Int
<1> DEFINE T == {D \in SUBSET S : Sum(f, D) \notin Int}
<1> SUFFICES ASSUME T # {} PROVE FALSE
  BY DEF T
<1>1. PICK D \in T : \A u \in T : u \subseteq D => u = D
  <2>1. T \in SUBSET SUBSET S
    OBVIOUS
  <2> HIDE DEF T
  <2> QED BY <2>1, MinimalSubset
<1>2. IsFiniteSet(D)
  BY <1>1, FS_Subset
<1>3. D # {} => Pick(D) \in D
  BY DEF Pick
<1>4. D # {} => Sum(f, D \ {Pick(D)}) \in Int
  BY <1>1, <1>3
<1>5. Sum(f, D) = IF D = {} THEN 0 ELSE f[Pick(D)] + Sum(f, D \ {Pick(D)})
  BY <1>2, SumUnfold
<1>6. D # {} => f[Pick(D)] \in Int
  BY <1>3
<1>7. Sum(f, D) \in Int
  BY <1>4, <1>5, <1>6
<1> QED
  BY <1>7

(* Any element may be taken first. *)
LEMMA SumRemove ==
  ASSUME NEW S, IsFiniteSet(S), NEW f, \A x \in S : f[x] \in Int, NEW x \in S
  PROVE  Sum(f, S) = f[x] + Sum(f, S \ {x})
<1> DEFINE T == {D \in SUBSET S : \E y \in D : Sum(f, D) # f[y] + Sum(f, D \ {y})}
<1> SUFFICES ASSUME T # {} PROVE FALSE
  BY DEF T
<1>1. PICK D \in T : \A u \in T : u \subseteq D => u = D
  <2>1. T \in SUBSET SUBSET S
    OBVIOUS
  <2> HIDE DEF T
  <2> QED BY <2>1, MinimalSubset
<1>2. PICK y \in D : Sum(f, D) # f[y] + Sum(f, D \ {y})
  BY <1>1
<1> DEFINE p == Pick(D)
<1>3. p \in D
  BY DEF Pick
<1>4. \A u \in SUBSET D : IsFiniteSet(u) /\ Sum(f, u) \in Int
  <2> TAKE u \in SUBSET D
  <2>1. IsFiniteSet(u)
    BY FS_Subset
  <2>2. \A z \in u : f[z] \in Int
    OBVIOUS
  <2> QED BY <2>1, <2>2, SumType
<1>5. Sum(f, D) = f[p] + Sum(f, D \ {p})
  BY <1>3, <1>4, SumUnfold
<1> HIDE DEF p
<1>6. y # p
  BY <1>2, <1>5
<1>7. Sum(f, D \ {p}) = f[y] + Sum(f, (D \ {p}) \ {y})
  <2>1. D \ {p} \notin T
    BY <1>1, <1>3
  <2>2. y \in D \ {p} /\ D \ {p} \in SUBSET S
    BY <1>6
  <2> QED BY <2>1, <2>2
<1>8. Sum(f, D \ {y}) = f[p] + Sum(f, (D \ {y}) \ {p})
  <2>1. D \ {y} \notin T
    BY <1>1, <1>2
  <2>2. p \in D \ {y} /\ D \ {y} \in SUBSET S
    BY <1>3, <1>6
  <2> QED BY <2>1, <2>2
<1>9. (D \ {p}) \ {y} = (D \ {y}) \ {p}
  OBVIOUS
<1>10. f[y] \in Int /\ f[p] \in Int /\ Sum(f, (D \ {y}) \ {p}) \in Int
  BY <1>3, <1>4
<1> DEFINE R == Sum(f, (D \ {y}) \ {p})
<1>11. Sum(f, D) = f[p] + (f[y] + R)
  BY <1>5, <1>7, <1>9
<1>12. f[p] + (f[y] + R) = f[y] + (f[p] + R)
  BY <1>10
<1> QED
  BY <1>2, <1>8, <1>11, <1>12

(* Equal terms have equal sums. *)
LEMMA SumEqual ==
  ASSUME NEW S, IsFiniteSet(S), NEW f, NEW g, \A x \in S : f[x] = g[x]
  PROVE  Sum(f, S) = Sum(g, S)
<1> DEFINE T == {D \in SUBSET S : Sum(f, D) # Sum(g, D)}
<1> SUFFICES ASSUME T # {} PROVE FALSE
  BY DEF T
<1>1. PICK D \in T : \A u \in T : u \subseteq D => u = D
  <2>1. T \in SUBSET SUBSET S
    OBVIOUS
  <2> HIDE DEF T
  <2> QED BY <2>1, MinimalSubset
<1>2. IsFiniteSet(D)
  BY <1>1, FS_Subset
<1>3. D # {} => Pick(D) \in D
  BY DEF Pick
<1>4. D # {} => Sum(f, D \ {Pick(D)}) = Sum(g, D \ {Pick(D)})
  BY <1>1, <1>3
<1> QED
  BY <1>1, <1>2, <1>3, <1>4, SumUnfold

(* Sums of natural numbers are natural numbers. *)
LEMMA SumNonNegative ==
  ASSUME NEW S, IsFiniteSet(S), NEW f, \A x \in S : f[x] \in Nat
  PROVE  Sum(f, S) \in Nat
<1> DEFINE T == {D \in SUBSET S : Sum(f, D) \notin Nat}
<1> SUFFICES ASSUME T # {} PROVE FALSE
  BY DEF T
<1>1. PICK D \in T : \A u \in T : u \subseteq D => u = D
  <2>1. T \in SUBSET SUBSET S
    OBVIOUS
  <2> HIDE DEF T
  <2> QED BY <2>1, MinimalSubset
<1>2. IsFiniteSet(D)
  BY <1>1, FS_Subset
<1>3. D # {} => Pick(D) \in D
  BY DEF Pick
<1>4. D # {} => Sum(f, D \ {Pick(D)}) \in Nat
  BY <1>1, <1>3
<1>5. Sum(f, D) = IF D = {} THEN 0 ELSE f[Pick(D)] + Sum(f, D \ {Pick(D)})
  BY <1>2, SumUnfold
<1>6. D # {} => f[Pick(D)] \in Nat
  BY <1>3
<1>7. Sum(f, D) \in Nat
  BY <1>4, <1>5, <1>6
<1> QED
  BY <1>7

(* One term changes, and the sum by as much. *)
LEMMA SumChange ==
  ASSUME NEW S, IsFiniteSet(S), NEW f, NEW g, NEW x \in S,
         \A y \in S : f[y] \in Int /\ g[y] \in Int,
         \A y \in S \ {x} : g[y] = f[y]
  PROVE  Sum(g, S) = Sum(f, S) - f[x] + g[x]
<1> DEFINE R == S \ {x}
<1>1. IsFiniteSet(R)
  BY FS_Subset
<1>2. Sum(f, S) = f[x] + Sum(f, R)
  BY SumRemove
<1>3. Sum(g, S) = g[x] + Sum(g, R)
  BY SumRemove
<1>4. Sum(g, R) = Sum(f, R)
  <2> HIDE DEF R
  <2>1. \A y \in R : g[y] = f[y]
    BY DEF R
  <2> QED BY <1>1, <2>1, SumEqual
<1>5. Sum(f, R) \in Int
  BY <1>1, SumType
<1> QED
  BY <1>2, <1>3, <1>4, <1>5

(* Two terms change, and the sum by as much. *)
LEMMA SumMove ==
  ASSUME NEW S, IsFiniteSet(S), NEW f, NEW g, NEW x \in S, NEW y \in S, x # y,
         \A z \in S : f[z] \in Int /\ g[z] \in Int,
         \A z \in S : z # x /\ z # y => g[z] = f[z]
  PROVE  Sum(g, S) = Sum(f, S) - f[x] - f[y] + g[x] + g[y]
<1> DEFINE h == [z \in S |-> IF z = x THEN g[x] ELSE f[z]]
<1>1. Sum(h, S) = Sum(f, S) - f[x] + h[x]
  <2>1. \A z \in S : f[z] \in Int /\ h[z] \in Int
    OBVIOUS
  <2>2. \A z \in S \ {x} : h[z] = f[z]
    OBVIOUS
  <2> HIDE DEF h
  <2> QED BY <2>1, <2>2, SumChange
<1>2. Sum(g, S) = Sum(h, S) - h[y] + g[y]
  <2>1. \A z \in S : h[z] \in Int /\ g[z] \in Int
    OBVIOUS
  <2>2. \A z \in S \ {y} : g[z] = h[z]
    OBVIOUS
  <2> HIDE DEF h
  <2>3. y \in S
    OBVIOUS
  <2> QED BY ONLY IsFiniteSet(S), <2>1, <2>2, <2>3, SumChange
<1>3. h[x] = g[x] /\ h[y] = f[y]
  OBVIOUS
<1>4. Sum(f, S) \in Int
  BY SumType
<1> HIDE DEF h
<1> QED
  BY <1>1, <1>2, <1>3, <1>4

(* Sums are monotonic in their terms. *)
LEMMA SumAtMost ==
  ASSUME NEW S, IsFiniteSet(S), NEW f, NEW g,
         \A x \in S : f[x] \in Int /\ g[x] \in Int /\ f[x] <= g[x]
  PROVE  Sum(f, S) <= Sum(g, S)
<1> DEFINE T == {D \in SUBSET S : ~ (Sum(f, D) <= Sum(g, D))}
<1> SUFFICES ASSUME T # {} PROVE FALSE
  BY DEF T
<1>1. PICK D \in T : \A u \in T : u \subseteq D => u = D
  <2>1. T \in SUBSET SUBSET S
    OBVIOUS
  <2> HIDE DEF T
  <2> QED BY <2>1, MinimalSubset
<1>2. IsFiniteSet(D)
  BY <1>1, FS_Subset
<1>3. D # {} => Pick(D) \in D
  BY DEF Pick
<1> DEFINE R == D \ {Pick(D)}
<1>4. D # {} => Sum(f, R) <= Sum(g, R)
  BY <1>1, <1>3
<1>5. /\ Sum(f, D) = IF D = {} THEN 0 ELSE f[Pick(D)] + Sum(f, R)
      /\ Sum(g, D) = IF D = {} THEN 0 ELSE g[Pick(D)] + Sum(g, R)
  BY <1>2, SumUnfold
<1>6. D # {} => f[Pick(D)] \in Int /\ g[Pick(D)] \in Int /\ f[Pick(D)] <= g[Pick(D)]
  BY <1>3
<1>7. Sum(f, R) \in Int /\ Sum(g, R) \in Int
  <2>1. IsFiniteSet(R) /\ \A x \in R : f[x] \in Int /\ g[x] \in Int
    BY <1>2, FS_Subset
  <2> QED BY <2>1, SumType
<1> HIDE DEF R
<1>8. Sum(f, D) <= Sum(g, D)
  BY <1>4, <1>5, <1>6, <1>7
<1> QED
  BY <1>8

(* Sums of zeros are zero. *)
LEMMA SumZero ==
  ASSUME NEW S, IsFiniteSet(S), NEW f, \A x \in S : f[x] = 0
  PROVE  Sum(f, S) = 0
<1> DEFINE T == {D \in SUBSET S : Sum(f, D) # 0}
<1> SUFFICES ASSUME T # {} PROVE FALSE
  BY DEF T
<1>3. PICK D \in T : \A u \in T : u \subseteq D => u = D
  <2>1. T \in SUBSET SUBSET S
    OBVIOUS
  <2> HIDE DEF T
  <2> QED BY <2>1, MinimalSubset
<1>4. IsFiniteSet(D)
  BY <1>3, FS_Subset
<1>5. D # {} => Pick(D) \in D
  BY DEF Pick
<1>6. D # {} => Sum(f, D \ {Pick(D)}) = 0 /\ f[Pick(D)] = 0
  BY <1>3, <1>5
<1>7. Sum(f, D) = 0
  BY <1>4, <1>6, SumUnfold
<1> QED
  BY <1>7

(* One element more, and the sum is as much larger. *)
LEMMA SumInsert ==
  ASSUME NEW S, IsFiniteSet(S), NEW x, x \notin S, NEW f,
         f[x] \in Int, \A y \in S : f[y] \in Int
  PROVE  Sum(f, S \cup {x}) = Sum(f, S) + f[x]
<1> DEFINE T == S \cup {x}
<1>1. IsFiniteSet(T)
  BY FS_AddElement
<1>2. \A y \in T : f[y] \in Int
  OBVIOUS
<1>3. T \ {x} = S /\ x \in T
  OBVIOUS
<1> HIDE DEF T
<1>4. Sum(f, T) = f[x] + Sum(f, S)
  BY <1>1, <1>2, <1>3, SumRemove
<1>5. Sum(f, S) \in Int
  BY SumType
<1> QED
  BY <1>4, <1>5 DEF T

(* A part of a sum of natural numbers is no larger. *)
LEMMA SumSubset ==
  ASSUME NEW S, IsFiniteSet(S), NEW f, \A x \in S : f[x] \in Nat, NEW R \in SUBSET S
  PROVE  Sum(f, R) <= Sum(f, S)
<1> DEFINE T == {D \in SUBSET S : R \subseteq D /\ ~ (Sum(f, R) <= Sum(f, D))}
<1> SUFFICES ASSUME T # {} PROVE FALSE
  BY DEF T
<1>1. PICK D \in T : \A u \in T : u \subseteq D => u = D
  <2>1. T \in SUBSET SUBSET S
    OBVIOUS
  <2> HIDE DEF T
  <2> QED BY <2>1, MinimalSubset
<1>2. \A u \in SUBSET S : IsFiniteSet(u) /\ Sum(f, u) \in Nat
  <2> TAKE u \in SUBSET S
  <2>1. IsFiniteSet(u)
    BY FS_Subset
  <2>2. \A z \in u : f[z] \in Nat
    OBVIOUS
  <2> QED BY <2>1, <2>2, SumNonNegative
<1>3. D # R
  BY <1>1, <1>2
<1>4. PICK x \in D : x \notin R
  BY <1>1, <1>3
<1>5. Sum(f, R) <= Sum(f, D \ {x})
  <2>1. D \ {x} \in SUBSET S /\ R \subseteq D \ {x} /\ D \ {x} # D
    BY <1>1, <1>4
  <2>2. D \ {x} \notin T
    BY <1>1, <2>1
  <2> QED BY <2>1, <2>2
<1>6. Sum(f, D) = f[x] + Sum(f, D \ {x})
  <2>1. \A z \in D : f[z] \in Int
    BY <1>1
  <2> QED BY <1>1, <1>2, <2>1, SumRemove
<1>7. /\ f[x] \in Nat /\ Sum(f, R) \in Nat /\ Sum(f, D) \in Nat
      /\ Sum(f, D \ {x}) \in Nat
  BY <1>1, <1>2
<1>8. Sum(f, R) <= Sum(f, D)
  BY ONLY <1>5, <1>6, <1>7
<1> QED
  BY <1>1, <1>8

(* What a rounded quotient is. *)
LEMMA Division ==
  ASSUME NEW a \in Nat, NEW b \in Nat \ {0}
  PROVE  /\ a \div b \in Nat
         /\ b * (a \div b) <= a
         /\ a < b * (a \div b) + b
  OBVIOUS

(* Multiplication is monotonic. *)
LEMMA MulLe ==
  ASSUME NEW a \in Nat, NEW b \in Nat, NEW c \in Nat, a <= b
  PROVE  a * c <= b * c /\ a * c \in Nat
  OBVIOUS

(* A factor is cancelled, up to the rounding. *)
LEMMA Cancel ==
  ASSUME NEW a \in Int, NEW b \in Int, NEW c \in Nat \ {0}, c * a < c * b + c
  PROVE  a <= b
  OBVIOUS

(* A share of something, rounded down. *)
LEMMA ShareOfWhole ==
  ASSUME NEW c \in Nat, NEW v \in Nat, NEW b \in Nat \ {0}, NEW P \in Nat, v <= b, c <= b * P
  PROVE  /\ (c * v) \div b \in Nat
         /\ (c * v) \div b <= c
         /\ (c * v) \div b <= v * P
         /\ c - (c * v) \div b <= (b - v) * P
  <1> DEFINE q == (c * v) \div b
  <1>0. c * v \in Nat
    OBVIOUS
  <1>1. q \in Nat /\ b * q <= c * v /\ c * v < b * q + b
    BY <1>0, Division
  <1> HIDE DEF q
  <1>2. c * v <= c * b
    OBVIOUS
  <1>3. b * q < b * c + b
    BY <1>1, <1>2
  <1>4. q <= c
    BY <1>1, <1>3, Cancel
  <1>5. c * v <= (b * P) * v
    BY MulLe
  <1>6. (b * P) * v = b * (v * P) /\ v * P \in Int
    OBVIOUS
  <1>7. q <= v * P
    BY <1>1, <1>5, <1>6, Cancel
  <1>8. c * (b - v) <= (b * P) * (b - v)
    BY MulLe
  <1>9. c * (b - v) = b * c - c * v /\ (b * P) * (b - v) = b * ((b - v) * P) /\ (b - v) * P \in Int
    OBVIOUS
  <1>10. b * (c - q) < b * ((b - v) * P) + b
    <2>1. b * (c - q) = b * c - b * q
      BY <1>1
    <2>2. b * c \in Int /\ b * q \in Int /\ c * v \in Int /\ b * ((b - v) * P) \in Int
      BY <1>1
    <2> QED BY <1>1, <1>8, <1>9, <2>1, <2>2
  <1>11. c - q <= (b - v) * P
    BY <1>1, <1>9, <1>10, Cancel
  <1> QED BY <1>1, <1>4, <1>7, <1>11 DEF q
=============================================================================
