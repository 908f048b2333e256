------------------------- MODULE IndexerSyncProofs -------------------------
(***************************************************************************)
(* The indexer's log is one chain, its rollbacks end on the branch of the  *)
(* head and keep what is irreversible, its tables are those of an indexer  *)
(* that saw only the blocks of the log, and clients that turn its pages get*)
(* every event once.                                                       *)
(***************************************************************************)
EXTENDS IndexerSync, SumTheorems, SequenceTheorems

-----------------------------------------------------------------------------
(* g is the function by which the library flattens the first n of seqs. *)
Flattens(g, seqs, n) ==
  g = [i \in 1..n |-> IF i = 1 THEN seqs[i] ELSE g[i-1] \o seqs[i]]

(* Two such functions agree on what both are defined for. *)
LEMMA FlattensUnique ==
  ASSUME NEW m \in Nat, NEW n \in Nat, NEW s, NEW t, NEW g, NEW h,
         Flattens(g, s, m), Flattens(h, t, n),
         NEW k \in 1..m, k <= n, \A i \in 1..k : s[i] = t[i]
  PROVE  g[k] = h[k]
<1> DEFINE T == {i \in 1..k : g[i] # h[i]}
<1> SUFFICES ASSUME T # {} PROVE FALSE
  OBVIOUS
<1>1. PICK j \in T : \A i \in T : j <= i
  <2>1. T \subseteq Nat
    OBVIOUS
  <2> HIDE DEF T
  <2> QED BY <2>1, Smallest
<1>0. j \in 1..k /\ j \in 1..m /\ j \in 1..n /\ g[j] # h[j]
  BY <1>1
<1>2. g[j] = IF j = 1 THEN s[j] ELSE g[j-1] \o s[j]
  BY ONLY <1>0, Flattens(g, s, m) DEF Flattens
<1>3. h[j] = IF j = 1 THEN t[j] ELSE h[j-1] \o t[j]
  BY ONLY <1>0, Flattens(h, t, n) DEF Flattens
<1>4. j # 1 => g[j-1] = h[j-1]
  BY <1>1
<1> QED
  BY <1>0, <1>2, <1>3, <1>4

(* There is such a function. *)
LEMMA FlattensExists ==
  ASSUME NEW n \in Nat, NEW s
  PROVE  \E g : Flattens(g, s, n)
<1> DEFINE T == {k \in Nat : ~ \E g : Flattens(g, s, k)}
<1> SUFFICES ASSUME T # {} PROVE FALSE
  OBVIOUS
<1>1. PICK j \in T : \A i \in T : j <= i
  <2>1. T \subseteq Nat
    OBVIOUS
  <2> HIDE DEF T
  <2> QED BY <2>1, Smallest
<1>2. j # 0
  <2>1. Flattens(<<>>, s, 0)
    BY DEF Flattens
  <2> QED BY <1>1, <2>1
<1>3. j - 1 \in Nat /\ j - 1 \notin T
  BY <1>1, <1>2
<1>4. PICK h : Flattens(h, s, j - 1)
  BY <1>3
<1> DEFINE g == [i \in 1..j |-> IF i = j THEN (IF i = 1 THEN s[i] ELSE h[i-1] \o s[i]) ELSE h[i]]
<1>5. \A i \in 1..j : i # 1 => g[i-1] = h[i-1]
  BY <1>1
<1>6. \A i \in 1..j-1 : h[i] = IF i = 1 THEN s[i] ELSE h[i-1] \o s[i]
  BY <1>4 DEF Flattens
<1>7. \A i \in 1..j : g[i] = IF i = 1 THEN s[i] ELSE g[i-1] \o s[i]
  BY <1>1, <1>5, <1>6
<1>8. g = [i \in 1..j |-> g[i]]
  OBVIOUS
<1>9. Flattens(g, s, j)
  <2> HIDE DEF g
  <2> QED BY <1>7, <1>8 DEF Flattens
<1> QED
  BY <1>1, <1>9

(* The flattened sequence is what such a function says. *)
LEMMA FlattenDefined ==
  ASSUME NEW s, Len(s) \in Nat \ {0}
  PROVE  \E g : Flattens(g, s, Len(s)) /\ FlattenSeq(s) = g[Len(s)]
<1> DEFINE g == CHOOSE h : Flattens(h, s, Len(s))
<1>1. Flattens(g, s, Len(s))
  BY FlattensExists
<1>2. FlattenSeq(s) = g[Len(s)]
  BY DEF FlattenSeq, Flattens
<1> QED
  BY <1>1, <1>2

(* A sequence flattened with one more at its end. *)
LEMMA FlattenAppend ==
  ASSUME NEW S, NEW s \in Seq(Seq(S)), NEW e \in Seq(S)
  PROVE  FlattenSeq(Append(s, e)) = FlattenSeq(s) \o e
<1> DEFINE t == Append(s, e)
           n == Len(s)
<1>1. n \in Nat /\ Len(t) = n + 1 /\ t[n + 1] = e /\ \A i \in 1..n : t[i] = s[i]
  OBVIOUS
<1>2. PICK g : Flattens(g, t, n + 1) /\ FlattenSeq(t) = g[n + 1]
  <2> HIDE DEF t, n
  <2> QED BY <1>1, FlattenDefined
<1>3. g[n + 1] = IF n + 1 = 1 THEN e ELSE g[n] \o e
  <2> HIDE DEF t, n
  <2>1. n + 1 \in 1..n+1 /\ (n + 1) - 1 = n
    BY <1>1
  <2> QED BY <1>1, <1>2, <2>1 DEF Flattens
<1>4. CASE n = 0
  <2>1. FlattenSeq(s) = <<>>
    BY <1>4 DEF FlattenSeq
  <2>2. g[n + 1] = e
    BY <1>3, <1>4
  <2> QED BY <1>2, <2>1, <2>2, ConcatEmptySeq
<1>5. CASE n # 0
  <2>1. PICK h : Flattens(h, s, n) /\ FlattenSeq(s) = h[n]
    BY <1>1, <1>5, FlattenDefined
  <2>2. g[n] = h[n]
    <3> HIDE DEF t, n
    <3> QED BY <1>1, <1>2, <1>5, <2>1, FlattensUnique
  <2>3. g[n + 1] = g[n] \o e
    <3> HIDE DEF t, n
    <3> QED BY <1>1, <1>3, <1>5
  <2> QED BY <1>2, <2>1, <2>2, <2>3
<1> QED
  BY <1>4, <1>5

(* Sequences of one set flatten to a sequence of it. *)
LEMMA FlattenType ==
  ASSUME NEW S, NEW s \in Seq(Seq(S))
  PROVE  FlattenSeq(s) \in Seq(S)
<1> DEFINE n == Len(s)
<1>1. n \in Nat /\ \A i \in 1..n : s[i] \in Seq(S)
  BY ElementOfSeq
<1>2. CASE n = 0
  <2>1. s = <<>>
    BY <1>2
  <2> QED BY <2>1 DEF FlattenSeq
<1>3. CASE n # 0
  <2>1. PICK g : Flattens(g, s, n) /\ FlattenSeq(s) = g[n]
    BY <1>1, <1>3, FlattenDefined
  <2> DEFINE T == {i \in 1..n : g[i] \notin Seq(S)}
  <2> HIDE DEF n
  <2>2. ASSUME T # {} PROVE FALSE
    <3>1. PICK j \in T : \A i \in T : j <= i
      <4>1. T \subseteq Nat
        OBVIOUS
      <4> HIDE DEF T
      <4> QED BY <2>2, <4>1, Smallest
    <3>2. g[j] = IF j = 1 THEN s[j] ELSE g[j-1] \o s[j]
      BY <2>1, <3>1 DEF Flattens
    <3>3. j # 1 => g[j-1] \in Seq(S)
      BY <1>1, <3>1
    <3>4. s[j] \in Seq(S)
      BY <1>1, <3>1
    <3>5. j # 1 => g[j-1] \o s[j] \in Seq(S)
      BY <3>3, <3>4, ConcatProperties
    <3> QED BY <3>1, <3>2, <3>4, <3>5
  <2> QED BY <1>1, <1>3, <2>1, <2>2
<1> QED
  BY <1>2, <1>3

-----------------------------------------------------------------------------
(* g is the function by which the library folds applyEvent over the events *)
(* with the numbers D, the largest number last.                            *)
Applied(g, t, es, D) ==
  g = [s \in SUBSET D |-> IF s = {} THEN t
                          ELSE Projected!applyEvent(g[s \ {Projected!Max(s)}], es[Projected!Max(s)])]

(* The largest of finitely many numbers is one of them. *)
LEMMA MaxInside ==
  ASSUME NEW n \in Nat, NEW s \in SUBSET (1..n), s # {}
  PROVE  Projected!Max(s) \in s /\ \A k \in s : k <= Projected!Max(s)
<1> DEFINE T == {n - k : k \in s}
<1>1. PICK m \in T : \A j \in T : m <= j
  <2>1. \A k \in s : n - k \in Nat
    OBVIOUS
  <2>2. T \subseteq Nat /\ T # {}
    BY <2>1
  <2> HIDE DEF T
  <2> QED BY <2>2, Smallest
<1>2. PICK k \in s : m = n - k
  BY <1>1
<1>3. \A j \in s : k >= j
  <2> TAKE j \in s
  <2>1. n - j \in T
    OBVIOUS
  <2>2. n - k <= n - j /\ k \in 1..n /\ j \in 1..n
    BY <1>1, <1>2, <2>1
  <2> QED BY ONLY <2>2, n \in Nat
<1> QED
  BY <1>2, <1>3 DEF Projected!Max

(* The largest number up to a bound is the bound. *)
LEMMA MaxOfAll ==
  ASSUME NEW n \in Nat \ {0}
  PROVE  Projected!Max(1..n) = n
<1> DEFINE s == 1..n
<1>0. s \in SUBSET (1..n) /\ s # {} /\ n \in s /\ n \in Nat
  OBVIOUS
<1> HIDE DEF s
<1>1. Projected!Max(s) \in s /\ n <= Projected!Max(s)
  BY ONLY <1>0, MaxInside
<1> QED
  BY <1>1 DEF s

(* Two such functions agree on what both are defined for. *)
LEMMA AppliedUnique ==
  ASSUME NEW m \in Nat, NEW n \in Nat, NEW t, NEW d, NEW e, NEW g, NEW h,
         Applied(g, t, d, 1..m), Applied(h, t, e, 1..n),
         NEW s, s \subseteq 1..m, s \subseteq 1..n, \A i \in s : d[i] = e[i]
  PROVE  g[s] = h[s]
<1> DEFINE T == {u \in SUBSET s : g[u] # h[u]}
<1> SUFFICES ASSUME T # {} PROVE FALSE
  BY DEF T
<1>0. IsFiniteSet(s)
  <2>1. IsFiniteSet(1..m)
    BY FS_Interval
  <2> QED BY ONLY <2>1, s \subseteq 1..m, FS_Subset
<1>1. PICK u \in T : \A v \in T : v \subseteq u => v = u
  <2>1. T \in SUBSET SUBSET s
    OBVIOUS
  <2> HIDE DEF T
  <2> QED BY ONLY <1>0, <2>1, T # {}, MinimalSubset
<1>2. u \subseteq s /\ u \in SUBSET (1..m) /\ u \in SUBSET (1..n) /\ g[u] # h[u]
  BY <1>1
<1> DEFINE p == Projected!Max(u)
<1>3. u # {} => p \in u
  BY <1>2, MaxInside
<1>4. g[u] = IF u = {} THEN t ELSE Projected!applyEvent(g[u \ {p}], d[p])
  BY ONLY <1>2, Applied(g, t, d, 1..m) DEF Applied
<1>5. h[u] = IF u = {} THEN t ELSE Projected!applyEvent(h[u \ {p}], e[p])
  BY ONLY <1>2, Applied(h, t, e, 1..n) DEF Applied
<1> HIDE DEF p
<1>6. u # {} => g[u \ {p}] = h[u \ {p}] /\ d[p] = e[p]
  BY <1>1, <1>2, <1>3
<1> QED
  BY <1>2, <1>4, <1>5, <1>6

(* There is such a function. *)
LEMMA AppliedExists ==
  ASSUME NEW n \in Nat, NEW t, NEW e
  PROVE  \E g : Applied(g, t, e, 1..n)
<1> DEFINE T == {k \in Nat : ~ \E g : Applied(g, t, e, 1..k)}
<1> SUFFICES ASSUME T # {} PROVE FALSE
  OBVIOUS
<1>1. PICK j \in T : \A i \in T : j <= i
  <2>1. T \subseteq Nat
    OBVIOUS
  <2> HIDE DEF T
  <2> QED BY <2>1, Smallest
<1>2. j # 0
  <2> DEFINE g == [s \in SUBSET (1..0) |-> t]
  <2>1. \A s \in SUBSET (1..0) : s = {}
    OBVIOUS
  <2>2. Applied(g, t, e, 1..0)
    BY <2>1 DEF Applied
  <2> QED BY <1>1, <2>2
<1>3. j \in Nat /\ j - 1 \in Nat /\ j - 1 \notin T
  BY <1>1, <1>2
<1>4. PICK h : Applied(h, t, e, 1..j-1)
  BY <1>3
<1> DEFINE p(s) == Projected!Max(s)
           g == [s \in SUBSET (1..j) |->
                  IF j \in s THEN Projected!applyEvent(h[s \ {j}], e[j]) ELSE h[s]]
<1>5. ASSUME NEW s \in SUBSET (1..j)
      PROVE  g[s] = IF s = {} THEN t ELSE Projected!applyEvent(g[s \ {p(s)}], e[p(s)])
  <2>1. CASE j \in s
    <3>1. p(s) = j
      <4>1. p(s) \in 1..j /\ j <= p(s)
        BY <1>3, <2>1, MaxInside
      <4> QED BY <1>3, <4>1
    <3>2. s \ {j} \in SUBSET (1..j) /\ j \notin s \ {j}
      OBVIOUS
    <3>3. g[s \ {j}] = h[s \ {j}]
      BY <3>2
    <3> HIDE DEF p
    <3> QED BY <2>1, <3>1, <3>3
  <2>2. CASE j \notin s
    <3>1. s \in SUBSET (1..j-1)
      BY <1>3, <2>2
    <3>2. h[s] = IF s = {} THEN t ELSE Projected!applyEvent(h[s \ {p(s)}], e[p(s)])
      BY <1>4, <3>1 DEF Applied
    <3>3. s \ {p(s)} \in SUBSET (1..j) /\ j \notin s \ {p(s)}
      BY <2>2
    <3>4. g[s] = h[s] /\ g[s \ {p(s)}] = h[s \ {p(s)}]
      BY <2>2, <3>3
    <3> HIDE DEF g, p
    <3> QED BY <3>2, <3>4
  <2> QED BY <2>1, <2>2
<1>6. g = [s \in SUBSET (1..j) |-> g[s]]
  OBVIOUS
<1>7. Applied(g, t, e, 1..j)
  <2> HIDE DEF g
  <2> QED BY <1>5, <1>6 DEF Applied
<1> QED
  BY <1>1, <1>7

(* The tables after a sequence of events are what such a function says. *)
LEMMA AppliedDefined ==
  ASSUME NEW t, NEW e, NEW n \in Nat, DOMAIN e = 1..n
  PROVE  \E g : Applied(g, t, e, 1..n) /\ Projected!applyAll(t, e) = g[1..n]
<1> DEFINE g == CHOOSE h : Applied(h, t, e, 1..n)
<1>1. Applied(g, t, e, 1..n)
  BY AppliedExists
<1>2. Projected!applyAll(t, e) = g[1..n]
  BY DEF Projected!applyAll, Projected!FoldLeft, Projected!MapThenFoldSet, Applied
<1> QED
  BY <1>1, <1>2

(* No events leave the tables as they were. *)
LEMMA NothingApplied ==
  ASSUME NEW t
  PROVE  Projected!applyAll(t, <<>>) = t
<1>1. PICK g : Applied(g, t, <<>>, 1..0) /\ Projected!applyAll(t, <<>>) = g[1..0]
  <2>1. 0 \in Nat /\ DOMAIN <<>> = 1..0
    OBVIOUS
  <2> QED BY ONLY <2>1, AppliedDefined
<1>2. 1..0 = {} /\ {} \in SUBSET (1..0)
  OBVIOUS
<1>3. g[{}] = t
  BY <1>1, <1>2 DEF Applied
<1> QED
  BY <1>1, <1>2, <1>3

(* The last event is applied to what the others make of the tables. *)
LEMMA LastApplied ==
  ASSUME NEW S, NEW t, NEW es \in Seq(S), NEW e \in S
  PROVE  Projected!applyAll(t, Append(es, e)) = Projected!applyEvent(Projected!applyAll(t, es), e)
<1> DEFINE n == Len(es)
           m == n + 1
           d == Append(es, e)
<1>1. n \in Nat /\ m \in Nat \ {0} /\ DOMAIN es = 1..n /\ DOMAIN d = 1..m
  OBVIOUS
<1>2. d[m] = e /\ \A i \in 1..n : d[i] = es[i]
  OBVIOUS
<1>3. 1..m # {} /\ 1..n \subseteq 1..m /\ (1..m) \ {m} = 1..n
  <2>1. \A i : i \in (1..m) \ {m} <=> i \in 1..n
    BY <1>1
  <2>2. m \in 1..m
    BY <1>1
  <2> QED BY <1>1, <2>1, <2>2
<1> HIDE DEF n, m, d
<1>4. PICK g : Applied(g, t, d, 1..m) /\ Projected!applyAll(t, d) = g[1..m]
  BY ONLY <1>1, AppliedDefined
<1>5. PICK h : Applied(h, t, es, 1..n) /\ Projected!applyAll(t, es) = h[1..n]
  BY ONLY <1>1, AppliedDefined
<1>6. g[1..n] = h[1..n]
  BY ONLY <1>1, <1>2, <1>3, <1>4, <1>5, AppliedUnique
<1>7. Projected!Max(1..m) = m
  BY ONLY <1>1, MaxOfAll
<1>8. g[1..m] = Projected!applyEvent(g[1..n], d[m])
  BY ONLY <1>3, <1>4, <1>7 DEF Applied
<1> QED
  BY <1>2, <1>4, <1>5, <1>6, <1>8 DEF d

(* Applying one sequence after another applies both. *)
LEMMA AllApplied ==
  ASSUME NEW S, NEW t, NEW a \in Seq(S), NEW b \in Seq(S)
  PROVE  Projected!applyAll(t, a \o b) = Projected!applyAll(Projected!applyAll(t, a), b)
<1> DEFINE first(k) == SubSeq(b, 1, k)
           Holds(k) == Projected!applyAll(t, a \o first(k))
                         = Projected!applyAll(Projected!applyAll(t, a), first(k))
           T == {k \in 0..Len(b) : ~ Holds(k)}
<1>1. T = {}
  <2> SUFFICES ASSUME T # {} PROVE FALSE
    OBVIOUS
  <2>1. PICK k \in T : \A j \in T : k <= j
    <3>1. T \subseteq Nat
      OBVIOUS
    <3> HIDE DEF T
    <3> QED BY <3>1, Smallest
  <2>2. k \in 0..Len(b) /\ ~ Holds(k)
    BY <2>1
  <2>3. k # 0
    <3>1. first(0) = <<>>
      OBVIOUS
    <3>2. a \o first(0) = a
      BY <3>1, ConcatEmptySeq
    <3> HIDE DEF first
    <3>3. Holds(0)
      BY <3>1, <3>2, NothingApplied
    <3> QED BY <2>2, <3>3
  <2>4. k - 1 \in 0..Len(b) /\ k \in 1..Len(b)
    BY <2>2, <2>3
  <2>5. Holds(k - 1)
    <3>1. k - 1 \notin T
      BY <2>1, <2>2
    <3> QED BY <2>4, <3>1
  <2>6. first(k) = Append(first(k - 1), b[k]) /\ first(k - 1) \in Seq(S) /\ b[k] \in S
    <3>1. b[k] \in S
      BY <2>4, ElementOfSeq
    <3>2. first(k - 1) \in Seq(S) /\ Len(first(k - 1)) = k - 1
      BY <2>4
    <3>3. first(k) = Append(first(k - 1), b[k])
      BY <2>4
    <3> QED BY <3>1, <3>2, <3>3
  <2>7. a \o first(k) = Append(a \o first(k - 1), b[k]) /\ a \o first(k - 1) \in Seq(S)
    <3> HIDE DEF first
    <3> QED BY <2>6
  <2>8. Holds(k)
    <3> HIDE DEF first
    <3>1. Projected!applyAll(t, a \o first(k))
            = Projected!applyEvent(Projected!applyAll(t, a \o first(k - 1)), b[k])
      <4> DEFINE c == a \o first(k - 1)
      <4>1. c \in Seq(S) /\ b[k] \in S /\ a \o first(k) = Append(c, b[k])
        BY <2>6, <2>7
      <4> HIDE DEF c
      <4>2. Projected!applyAll(t, Append(c, b[k])) = Projected!applyEvent(Projected!applyAll(t, c), b[k])
        BY ONLY <4>1, LastApplied
      <4> QED BY <4>1, <4>2 DEF c
    <3>2. Projected!applyAll(Projected!applyAll(t, a), first(k))
            = Projected!applyEvent(Projected!applyAll(Projected!applyAll(t, a), first(k - 1)), b[k])
      BY <2>6, LastApplied
    <3> QED BY <2>5, <3>1, <3>2
  <2> QED BY <2>2, <2>8
<1>2. first(Len(b)) = b /\ Len(b) \in 0..Len(b)
  OBVIOUS
<1>3. Holds(Len(b))
  <2> HIDE DEF first
  <2> QED BY <1>1, <1>2
<1> HIDE DEF first
<1> QED
  BY <1>2, <1>3

-----------------------------------------------------------------------------
(* Flattening what op makes of each member of a sequence. *)
LEMMA DecodedType ==
  ASSUME NEW S, NEW s \in Seq(S)
  PROVE  Each(Decoded, s) \in Seq(S)
<1> DEFINE d == [i \in DOMAIN s |-> Decoded(s[i])]
<1>1. \A e \in S : Decoded(e) \in Seq(S)
  BY DEF Decoded
<1>2. d \in Seq(Seq(S))
  <2>1. DOMAIN s = 1..Len(s) /\ Len(s) \in Nat /\ \A i \in 1..Len(s) : s[i] \in S
    BY ElementOfSeq
  <2>2. \A i \in 1..Len(s) : Decoded(s[i]) \in Seq(S)
    BY <1>1, <2>1
  <2> QED BY <2>1, <2>2, IsASeq
<1> HIDE DEF d
<1>3. FlattenSeq(d) \in Seq(S)
  BY <1>2, FlattenType
<1> QED
  BY <1>3 DEF Each, d

(* The events of the log's blocks. *)
AllEvents == UNION {UNION {Range(r.events) : r \in Range(ReceiptsOf(block))} : block \in Blocks}

(* The events parsed from a block are a sequence of protocol events. *)
LEMMA EventsOfType ==
  ASSUME NEW block \in Blocks
  PROVE  EventsOf[block] \in Seq(AllEvents)
<1> DEFINE rs == ReceiptsOf(block)
           S == AllEvents
           d == [i \in DOMAIN rs |-> Committed(rs[i])]
<1>1. InOrder(rs) /\ \A r \in Range(rs) : InOrder(r.events)
  BY IndexerAssumption
<1>2. \A r \in Range(rs) : r.events \in Seq(S)
  <2> TAKE r \in Range(rs)
  <2>1. r.events \in Seq(Range(r.events))
    BY <1>1 DEF InOrder
  <2>2. Range(r.events) \subseteq S
    BY DEF AllEvents
  <2> QED BY <2>1, <2>2, SeqMonotonic
<1>3. \A r \in Range(rs) : Committed(r) \in Seq(S)
  <2> TAKE r \in Range(rs)
  <2>1. Each(Decoded, r.events) \in Seq(S)
    BY <1>2, DecodedType
  <2> QED BY <2>1 DEF Committed
<1>4. d \in Seq(Seq(S))
  <2>1. rs \in Seq(Range(rs))
    BY <1>1 DEF InOrder
  <2>2. DOMAIN rs = 1..Len(rs) /\ Len(rs) \in Nat /\ \A i \in 1..Len(rs) : rs[i] \in Range(rs)
    BY <2>1, ElementOfSeq
  <2>3. \A i \in 1..Len(rs) : Committed(rs[i]) \in Seq(S)
    BY <1>3, <2>2
  <2> HIDE DEF rs, S
  <2> QED BY <2>2, <2>3, IsASeq
<1>5. FlattenSeq(d) \in Seq(S)
  <2> HIDE DEF d, S
  <2> QED BY <1>4, FlattenType
<1>6. EventsOf[block] = FlattenSeq(d)
  BY DEF EventsOf, parseBlockItem, Each
<1> QED
  BY <1>5, <1>6

-----------------------------------------------------------------------------
Phases == {"idle", "head", "apply", "rollback"}
Steps == [phase : Phases, head : [id : Blocks, lib : Nat],
          served : 0..MaxHeight, fork : 0..MaxHeight]

(* A rollback starts at a block that does not extend the tip, or at the    *)
(* head, when another block is stored at its height.                       *)
ForkFound ==
  /\ sync.fork > floor /\ sync.fork <= Len(sync.head.id)
  /\ \/ sync.fork = Tip + 1
     \/ /\ sync.fork = Len(sync.head.id) /\ sync.fork <= Tip
        /\ checkpointAt(sync.fork) # sync.head.id

ChainTyped == canon \in Blocks /\ lib \in 0..Len(canon)
SyncTyped ==
  /\ sync \in Steps /\ shrunk \in BOOLEAN
  /\ sync.head.lib <= Len(sync.head.id)
  /\ In("apply") => sync.served <= Len(sync.head.id)
LogSound == log \in Seq(Blocks) /\ Linked /\ TablesReplayed

(* What every step of the indexer, the chain and the nodes preserves.      *)
IndexerInv ==
  /\ ChainTyped /\ SyncTyped /\ LogSound
  /\ In("rollback") => ForkFound

-----------------------------------------------------------------------------
(* A block is a sequence of branches that is not too long. *)
LEMMA BlockType ==
  ASSUME NEW b
  PROVE  b \in Blocks <=> b \in Seq({0, 1}) /\ Len(b) \in 0..MaxHeight
<1>1. MaxHeight \in Nat
  BY IndexerAssumption
<1>2. b \in Blocks <=> \E n \in 0..MaxHeight : b \in [1..n -> {0, 1}]
  BY DEF Blocks
<1>3. ASSUME NEW n \in 0..MaxHeight, b \in [1..n -> {0, 1}]
      PROVE  b \in Seq({0, 1}) /\ Len(b) \in 0..MaxHeight
  BY <1>1, <1>3
<1>4. ASSUME b \in Seq({0, 1}), Len(b) \in 0..MaxHeight
      PROVE  b \in [1..Len(b) -> {0, 1}]
  BY <1>4
<1> QED
  BY <1>2, <1>3, <1>4

(* An ancestor of a block is a block, and has the ancestors it has. *)
LEMMA AncestorType ==
  ASSUME NEW b \in Blocks, NEW n \in 0..Len(b)
  PROVE  /\ Ancestor(b, n) \in Blocks
         /\ Len(Ancestor(b, n)) = n
         /\ \A i \in 1..n : Ancestor(b, n)[i] = b[i]
         /\ \A m \in 0..n : Ancestor(Ancestor(b, n), m) = Ancestor(b, m)
<1>1. b \in Seq({0, 1}) /\ Len(b) \in 0..MaxHeight /\ MaxHeight \in Nat
  BY BlockType, IndexerAssumption
<1> DEFINE a == Ancestor(b, n)
<1>2. a \in Seq({0, 1}) /\ Len(a) = n /\ \A i \in 1..n : a[i] = b[i]
  BY <1>1 DEF Ancestor
<1>3. a \in Blocks
  <2> HIDE DEF a
  <2>1. Len(a) \in 0..MaxHeight
    BY <1>1, <1>2
  <2> QED BY <1>2, <2>1, BlockType
<1>4. ASSUME NEW m \in 0..n
      PROVE  Ancestor(a, m) = Ancestor(b, m)
  <2> HIDE DEF a
  <2>1. Ancestor(a, m) = [i \in 1..m |-> a[i]]
    BY <1>1, <1>2, SubSeqRestrict DEF Ancestor
  <2>2. Ancestor(b, m) = [i \in 1..m |-> b[i]]
    BY <1>1, SubSeqRestrict DEF Ancestor
  <2> QED BY <1>1, <1>2, <2>1, <2>2
<1> QED
  BY <1>2, <1>3, <1>4

(* A block is an ancestor of another exactly if it is a prefix of it. *)
LEMMA PrefixIsAncestor ==
  ASSUME NEW a \in Blocks, NEW b \in Blocks
  PROVE  /\ IsPrefix(a, b) <=> Len(a) <= Len(b) /\ a = Ancestor(b, Len(a))
         /\ Ancestor(a, Len(a)) = a
<1>1. a \in Seq({0, 1})
  BY BlockType
<1>2. SubSeq(a, 1, Len(a)) = a
  BY <1>1
<1> QED
  BY <1>2 DEF IsPrefix, Ancestor

(* One block more is a block as long as the chain may grow. *)
LEMMA MinedType ==
  ASSUME NEW b \in Blocks, Len(b) < MaxHeight, NEW x \in {0, 1}
  PROVE  Append(b, x) \in Blocks /\ Len(Append(b, x)) = Len(b) + 1
<1>1. b \in Seq({0, 1}) /\ Len(b) \in 0..MaxHeight /\ MaxHeight \in Nat
  BY BlockType, IndexerAssumption
<1>2. Append(b, x) \in Seq({0, 1}) /\ Len(Append(b, x)) = Len(b) + 1
  BY <1>1
<1>3. Len(Append(b, x)) \in 0..MaxHeight
  BY <1>1, <1>2
<1> QED
  BY <1>2, <1>3, BlockType

(* Every stored block is an ancestor of every later one. *)
LEMMA StoredAncestors ==
  ASSUME log \in Seq(Blocks), Linked, NEW j \in 1..Len(log), NEW i \in 1..j
  PROVE  log[i] = Ancestor(log[j], floor + i)
<1> DEFINE Holds(k) == log[j - k] = Ancestor(log[j], floor + (j - k))
           T == {k \in 0..j-1 : ~ Holds(k)}
<1>0. floor \in Nat /\ Len(log) \in Nat /\ \A k \in 1..Len(log) : log[k] \in Blocks
  BY IndexerAssumption, ElementOfSeq DEF floor
<1>1. T = {}
  <2> SUFFICES ASSUME T # {} PROVE FALSE
    OBVIOUS
  <2>1. PICK k \in T : \A l \in T : k <= l
    <3>1. T \subseteq Nat
      OBVIOUS
    <3> HIDE DEF T
    <3> QED BY <3>1, Smallest
  <2>2. k \in 0..j-1 /\ ~ Holds(k)
    BY <2>1
  <2>3. k # 0
    <3>1. Len(log[j]) = floor + j /\ j - 0 = j
      BY DEF Linked
    <3>2. Ancestor(log[j], Len(log[j])) = log[j]
      BY <1>0, PrefixIsAncestor
    <3> QED BY <2>2, <3>1, <3>2
  <2>4. k - 1 \in 0..j-1 /\ k - 1 \notin T
    <3>1. k \in Nat /\ k \in 0..j-1 /\ j \in Nat
      BY <1>0, <2>2
    <3>2. k - 1 \in 0..j-1 /\ ~ (k <= k - 1)
      BY ONLY <3>1, <2>3
    <3> HIDE DEF T
    <3> QED BY ONLY <2>1, <3>2
  <2> DEFINE n == j - k
  <2>5. n \in 1..Len(log)-1 /\ n \in 1..j-1 /\ j - (k - 1) = n + 1
    BY <1>0, <2>2, <2>3
  <2>6. log[n + 1] = Ancestor(log[j], floor + (n + 1))
    BY <2>4, <2>5
  <2> HIDE DEF n
  <2>7. log[n] = Ancestor(log[n + 1], floor + n)
    <3>1. log[n] = Front(log[n + 1]) /\ Len(log[n + 1]) = floor + (n + 1)
      <4>1. DOMAIN log = 1..Len(log) /\ n + 1 \in 1..Len(log)
        BY <1>0, <2>5
      <4> QED BY <2>5, <4>1 DEF Linked
    <3>2. Len(log[n + 1]) - 1 = floor + n
      <4>1. n \in Nat /\ floor \in Nat
        BY <1>0, <2>5
      <4> QED BY ONLY <3>1, <4>1
    <3>3. Front(log[n + 1]) = SubSeq(log[n + 1], 1, Len(log[n + 1]) - 1)
      BY DEF Front
    <3> QED BY <3>1, <3>2, <3>3 DEF Ancestor
  <2>8. Ancestor(log[n + 1], floor + n) = Ancestor(log[j], floor + n)
    <3>1. log[j] \in Blocks /\ Len(log[j]) = floor + j
      <4>1. DOMAIN log = 1..Len(log)
        BY <1>0
      <4>2. \A l \in DOMAIN log : Len(log[l]) = floor + l
        BY DEF Linked
      <4> QED BY ONLY <1>0, <4>1, <4>2, j \in 1..Len(log)
    <3>2. floor + (n + 1) \in 0..Len(log[j]) /\ floor + n \in 0..floor + (n + 1)
      <4>1. floor \in Nat /\ n \in Nat /\ j \in Nat /\ n + 1 <= j
        BY <1>0, <2>5
      <4> QED BY ONLY <3>1, <4>1
    <3> QED BY <2>6, <3>1, <3>2, AncestorType
  <2> QED BY <2>2, <2>7, <2>8 DEF n
<1>2. j - i \in 0..j-1 /\ j - (j - i) = i
  OBVIOUS
<1> QED
  BY <1>1, <1>2

-----------------------------------------------------------------------------
(* The events of the log are a sequence, to which a block adds its own. *)
LEMMA EventsAppended ==
  ASSUME NEW bs \in Seq(Blocks), NEW b \in Blocks
  PROVE  /\ Events(bs) \in Seq(AllEvents)
         /\ Events(Append(bs, b)) = Events(bs) \o EventsOf[b]
<1> DEFINE S == AllEvents
           es(c) == [i \in DOMAIN c |-> EventsOf[c[i]]]
           c == Append(bs, b)
<1>1. \A x \in Blocks : EventsOf[x] \in Seq(S)
  BY EventsOfType
<1>2. DOMAIN bs = 1..Len(bs) /\ Len(bs) \in Nat /\ \A i \in 1..Len(bs) : bs[i] \in Blocks
  BY ElementOfSeq
<1>3. es(bs) \in Seq(Seq(S)) /\ Len(es(bs)) = Len(bs)
  <2>1. \A i \in 1..Len(bs) : EventsOf[bs[i]] \in Seq(S)
    BY <1>1, <1>2
  <2> HIDE DEF S
  <2>2. es(bs) \in Seq(Seq(S))
    BY <1>2, <2>1, IsASeq
  <2> QED BY <1>2, <2>2, LenProperties
<1>4. DOMAIN c = 1..Len(bs)+1 /\ c[Len(bs)+1] = b /\ \A i \in 1..Len(bs) : c[i] = bs[i]
  BY <1>2
<1>5. es(c) = Append(es(bs), EventsOf[b])
  <2> DEFINE d == es(bs)
             e == EventsOf[b]
  <2>1. Append(d, e) = [i \in 1..Len(d)+1 |-> IF i = Len(d)+1 THEN e ELSE d[i]]
    <3> HIDE DEF d, e
    <3> QED BY <1>3 DEF d
  <2>2. \A i \in 1..Len(bs) : d[i] = EventsOf[bs[i]]
    BY <1>2
  <2> HIDE DEF c
  <2> QED BY <1>2, <1>3, <1>4, <2>1, <2>2
<1>6. FlattenSeq(es(bs)) \in Seq(S)
  <2> HIDE DEF es, S
  <2> QED BY <1>3, FlattenType
<1>7. FlattenSeq(Append(es(bs), EventsOf[b])) = FlattenSeq(es(bs)) \o EventsOf[b]
  <2>1. EventsOf[b] \in Seq(S)
    BY <1>1
  <2> HIDE DEF es, S
  <2> QED BY <1>3, <2>1, FlattenAppend
<1> QED
  BY <1>5, <1>6, <1>7 DEF Events

(* A block that extends the tip may be appended. *)
LEMMA BlockAppended ==
  ASSUME LogSound, NEW block \in Blocks, Len(block) = Tip + 1, Extends(block),
         log' = Append(log, block), tables' = Projected!applyAll(tables, EventsOf[block])
  PROVE  LogSound'
<1>1. log \in Seq(Blocks) /\ Linked /\ TablesReplayed
  BY DEF LogSound
<1> DEFINE n == Len(log)
<1>2. /\ n \in Nat /\ floor \in Nat /\ Tip = floor + n
      /\ DOMAIN log = 1..n /\ DOMAIN log' = 1..n+1 /\ Len(log') = n + 1
      /\ log'[n + 1] = block /\ \A i \in 1..n : log'[i] = log[i]
      /\ log' \in Seq(Blocks)
  BY <1>1, IndexerAssumption DEF Tip, floor
<1>3. Linked'
  <2> HIDE DEF n
  <2>1. ASSUME NEW i \in 1..n+1
        PROVE  Len(log'[i]) = floor + i
    <3>1. CASE i = n + 1
      BY <1>2, <3>1
    <3>2. CASE i # n + 1
      BY <1>1, <1>2, <3>2 DEF Linked
    <3> QED BY <3>1, <3>2
  <2>2. ASSUME NEW i \in 1..n
        PROVE  log'[i] = Front(log'[i + 1])
    <3>1. CASE i = n
      <4>1. log # <<>> /\ Last(log) = log[n]
        BY <1>2, <3>1 DEF Last, n
      <4> QED BY <1>2, <3>1, <4>1 DEF Extends
    <3>2. CASE i # n
      <4>0. n \in Nat /\ i \in 1..n /\ Len(log) = n
        BY <1>2 DEF n
      <4>1. i \in 1..Len(log)-1 /\ i + 1 \in 1..n
        BY <3>2, <4>0
      <4>2. log[i] = Front(log[i + 1])
        BY <1>1, <4>1 DEF Linked
      <4> QED BY <1>2, <4>1, <4>2
    <3> QED BY <3>1, <3>2
  <2>3. Len(log') - 1 = n
    BY <1>2
  <2> QED BY <1>2, <2>1, <2>2, <2>3 DEF Linked
<1>4. TablesReplayed'
  <2>1. /\ Events(log) \in Seq(AllEvents) /\ EventsOf[block] \in Seq(AllEvents)
        /\ Events(log') = Events(log) \o EventsOf[block]
    BY <1>1, EventsAppended, EventsOfType
  <2>2. tables = Projected!applyAll(Projected!NoRows, Events(log))
    BY <1>1 DEF TablesReplayed
  <2>3. Projected!applyAll(Projected!NoRows, Events(log) \o EventsOf[block])
          = Projected!applyAll(Projected!applyAll(Projected!NoRows, Events(log)), EventsOf[block])
    BY ONLY <2>1, AllApplied
  <2>4. tables' = Projected!applyAll(Projected!NoRows, Events(log'))
    BY <2>1, <2>2, <2>3
  <2> QED BY <2>4 DEF TablesReplayed
<1> QED
  BY <1>2, <1>3, <1>4 DEF LogSound

(* The log may be cut at any height from the floor to the tip. *)
LEMMA LogCut ==
  ASSUME LogSound, NEW to \in floor..Tip, rollbackTo(to)
  PROVE  /\ LogSound'
         /\ Len(log') = to - floor
         /\ \A i \in 1..to-floor : log'[i] = log[i]
<1>1. log \in Seq(Blocks) /\ Linked /\ log' = SubSeq(log, 1, to - floor)
  BY DEF LogSound, rollbackTo, Keep
<1> DEFINE n == to - floor
<1>2. floor \in Nat /\ Len(log) \in Nat /\ n \in 0..Len(log)
  BY <1>1, IndexerAssumption DEF Tip, floor
<1>3. /\ log' \in Seq(Blocks) /\ Len(log') = n /\ DOMAIN log' = 1..n /\ DOMAIN log = 1..Len(log)
      /\ \A i \in 1..n : log'[i] = log[i]
  <2> HIDE DEF n
  <2> QED BY <1>1, <1>2 DEF n
<1>4. Linked'
  <2> HIDE DEF n
  <2>1. \A i \in 1..n : i \in DOMAIN log
    BY <1>2, <1>3
  <2>2. \A i \in 1..n-1 : i \in 1..Len(log)-1 /\ i \in 1..n /\ i + 1 \in 1..n
    BY <1>2
  <2> QED BY <1>1, <1>3, <2>1, <2>2 DEF Linked
<1>5. TablesReplayed'
  <2>1. tables' = Projected!applyAll(Projected!NoRows, Events(log'))
    BY DEF rollbackTo, Projected!replayProjections, Projected!truncateProjections
  <2> QED BY <2>1 DEF TablesReplayed
<1> QED
  BY <1>3, <1>4, <1>5 DEF LogSound

-----------------------------------------------------------------------------
(* Chains of no block and of the genesis block. *)
LEMMA FirstBlocks ==
  /\ <<>> \in Blocks /\ Len(<<>>) = 0
  /\ <<0>> \in Blocks /\ Len(<<0>>) = 1
  /\ MaxHeight \in Nat /\ floor \in Nat
<1>1. MaxHeight \in Nat \ {0} /\ floor \in Nat
  BY IndexerAssumption DEF floor
<1>2. 0 \in 0..MaxHeight /\ 1 \in 0..MaxHeight
  BY <1>1
<1>3. <<>> \in Seq({0, 1}) /\ Len(<<>>) = 0
  OBVIOUS
<1>4. <<0>> \in Seq({0, 1}) /\ Len(<<0>>) = 1
  OBVIOUS
<1>5. <<>> \in Blocks
  BY ONLY <1>2, <1>3, BlockType
<1>6. <<0>> \in Blocks
  BY ONLY <1>2, <1>4, BlockType
<1> QED
  BY <1>1, <1>3, <1>4, <1>5, <1>6

(* Between two steps the step in progress is none. *)
LEMMA IdleTyped ==
  Idle \in Steps /\ Idle.phase = "idle" /\ Idle.head.lib <= Len(Idle.head.id)
<1>1. [id |-> <<>>, lib |-> 0] \in [id : Blocks, lib : Nat] /\ 0 \in 0..MaxHeight
  BY FirstBlocks
<1> QED
  BY <1>1, FirstBlocks DEF Idle, Steps, Phases

(* At first there is the genesis block, and nothing is stored. *)
LEMMA InvInit ==
  Init => IndexerInv
<1> SUFFICES ASSUME Init PROVE IndexerInv
  OBVIOUS
<1>2. ChainTyped
  BY FirstBlocks DEF Init, ChainTyped
<1>3. SyncTyped /\ ~ In("rollback")
  BY IdleTyped DEF Init, SyncTyped, In
<1>4. LogSound
  <2>1. log = <<>> /\ tables = Projected!NoRows
    BY DEF Init
  <2>2. log \in Seq(Blocks) /\ Len(log) = 0 /\ DOMAIN log = {}
    BY <2>1
  <2>3. Linked
    BY <2>2 DEF Linked
  <2>4. Events(<<>>) = <<>>
    <3> DEFINE d == [i \in DOMAIN <<>> |-> EventsOf[<<>>[i]]]
    <3>1. d = <<>>
      OBVIOUS
    <3> HIDE DEF d
    <3>2. FlattenSeq(d) = <<>>
      BY <3>1 DEF FlattenSeq
    <3> QED BY <3>2 DEF Events, d
  <2>5. TablesReplayed
    BY <2>1, <2>4, NothingApplied DEF TablesReplayed
  <2> QED BY <2>2, <2>3, <2>5 DEF LogSound
<1> QED
  BY <1>2, <1>3, <1>4 DEF IndexerInv

(* A log and tables that stay as they are stay sound. *)
LEMMA LogKept ==
  ASSUME LogSound, UNCHANGED <<log, tables>>
  PROVE  LogSound'
BY DEF LogSound, Linked, TablesReplayed

(* What a fork is depends on the log and the step. *)
LEMMA ForkKept ==
  ASSUME UNCHANGED <<log, sync>>, In("rollback") => ForkFound
  PROVE  In("rollback")' => ForkFound'
BY DEF In, ForkFound, Tip, checkpointAt

(* The chain grows, changes its branch and becomes final. *)
LEMMA InvChain ==
  ASSUME IndexerInv, mine \/ reorg \/ finalize
  PROVE  IndexerInv'
<1>1. UNCHANGED <<log, tables, sync, shrunk>>
  BY DEF mine, reorg, finalize
<1>2. canon \in Blocks /\ lib \in 0..Len(canon) /\ canon \in Seq({0, 1}) /\ Len(canon) \in Nat
  BY BlockType DEF IndexerInv, ChainTyped
<1>3. ChainTyped'
  <2>1. CASE mine
    <3>1. canon' \in Blocks /\ Len(canon') = Len(canon) + 1 /\ lib' = lib
      BY <1>2, <2>1, MinedType DEF mine
    <3> QED BY <1>2, <3>1 DEF ChainTyped
  <2>2. CASE reorg
    <3>1. PICK n \in lib..Len(canon) - 1 : canon' = Append(Ancestor(canon, n), 1 - canon[n + 1])
      BY <2>2 DEF reorg
    <3>2. n \in 0..Len(canon) /\ canon[n + 1] \in {0, 1} /\ 1 - canon[n + 1] \in {0, 1}
      <4>1. n + 1 \in 1..Len(canon) /\ n \in 0..Len(canon)
        BY <1>2, <3>1
      <4>2. canon[n + 1] \in {0, 1}
        BY <1>2, <4>1, ElementOfSeq
      <4> QED BY <4>1, <4>2
    <3>3. Ancestor(canon, n) \in Blocks /\ Len(Ancestor(canon, n)) = n
      BY <1>2, <3>2, AncestorType
    <3>4. n < MaxHeight
      BY <1>2, <3>1, BlockType, IndexerAssumption
    <3>5. canon' \in Blocks /\ Len(canon') = n + 1
      BY <3>1, <3>2, <3>3, <3>4, MinedType
    <3>6. lib' = lib
      BY <2>2 DEF reorg
    <3> QED BY <1>2, <3>1, <3>5, <3>6 DEF ChainTyped
  <2>3. CASE finalize
    BY <1>2, <2>3 DEF finalize, ChainTyped
  <2> QED BY <2>1, <2>2, <2>3
<1>4. SyncTyped'
  BY <1>1 DEF IndexerInv, SyncTyped, In
<1>5. LogSound'
  BY <1>1, LogKept DEF IndexerInv
<1>6. In("rollback")' => ForkFound'
  BY <1>1, ForkKept DEF IndexerInv
<1> QED
  BY <1>3, <1>4, <1>5, <1>6 DEF IndexerInv

(* A step that ends, and leaves the log as it is. *)
LEMMA InvStepEnds ==
  ASSUME IndexerInv, sync' = Idle, shrunk' \in BOOLEAN, UNCHANGED chainVars, LogSound'
  PROVE  IndexerInv'
<1>2. SyncTyped' /\ ~ In("rollback")'
  BY IdleTyped DEF SyncTyped, In
<1>3. ChainTyped'
  BY DEF IndexerInv, ChainTyped, chainVars
<1> QED
  BY <1>2, <1>3 DEF IndexerInv

(* The step reads a head. *)
LEMMA InvGetHead ==
  ASSUME IndexerInv, getHead
  PROVE  IndexerInv'
<1>1. UNCHANGED <<chainVars, log, tables, shrunk>>
  BY DEF getHead
<1>2. canon \in Blocks /\ lib \in 0..Len(canon) /\ Len(canon) \in Nat
  BY BlockType DEF IndexerInv, ChainTyped
<1>3. \E h \in [id : Blocks, lib : Nat] :
        h.lib <= Len(h.id) /\ sync' = [sync EXCEPT !.phase = "head", !.head = h]
  <2>1. CASE sync' = [sync EXCEPT !.phase = "head", !.head = [id |-> canon, lib |-> lib]]
    <3> DEFINE h == [id |-> canon, lib |-> lib]
    <3>1. h \in [id : Blocks, lib : Nat] /\ h.lib <= Len(h.id)
      BY <1>2
    <3> QED BY <2>1, <3>1
  <2>2. ASSUME NEW n \in 0..Len(canon) - 1, NEW l \in 0..Lower(lib, n),
               sync' = [sync EXCEPT !.phase = "head",
                                    !.head = [id |-> Ancestor(canon, n), lib |-> l]]
        PROVE  \E h \in [id : Blocks, lib : Nat] :
                 h.lib <= Len(h.id) /\ sync' = [sync EXCEPT !.phase = "head", !.head = h]
    <3> DEFINE h == [id |-> Ancestor(canon, n), lib |-> l]
    <3>1. n \in 0..Len(canon)
      BY <1>2
    <3>2. Ancestor(canon, n) \in Blocks /\ Len(Ancestor(canon, n)) = n
      BY <1>2, <3>1, AncestorType
    <3>3. l \in Nat /\ l <= n
      BY <1>2 DEF Lower
    <3>4. h \in [id : Blocks, lib : Nat] /\ h.lib <= Len(h.id)
      BY <3>2, <3>3
    <3> QED BY <2>2, <3>4
  <2> QED BY <2>1, <2>2 DEF getHead
<1>4. SyncTyped' /\ ~ In("rollback")'
  <2>1. sync \in Steps /\ shrunk' \in BOOLEAN
    BY <1>1 DEF IndexerInv, SyncTyped
  <2>2. PICK h \in [id : Blocks, lib : Nat] :
          h.lib <= Len(h.id) /\ sync' = [sync EXCEPT !.phase = "head", !.head = h]
    BY <1>3
  <2>3. /\ sync' \in Steps /\ sync'.head = h /\ sync'.phase = "head"
    BY <2>1, <2>2 DEF Steps, Phases
  <2> QED BY <2>1, <2>2, <2>3 DEF SyncTyped, In
<1>5. LogSound'
  BY <1>1, LogKept DEF IndexerInv
<1>6. ChainTyped'
  BY <1>1 DEF IndexerInv, ChainTyped, chainVars
<1> QED
  BY <1>4, <1>5, <1>6 DEF IndexerInv

(* What the invariant says of numbers and types, for the steps below. *)
LEMMA InvFacts ==
  ASSUME IndexerInv
  PROVE  /\ sync \in Steps /\ sync.head.id \in Blocks /\ sync.head.lib \in Nat
         /\ sync.served \in Nat /\ sync.fork \in Nat
         /\ Len(sync.head.id) \in Nat /\ Len(sync.head.id) <= MaxHeight
         /\ floor \in Nat /\ MaxHeight \in Nat /\ Len(log) \in Nat
         /\ Tip = floor + Len(log) /\ Tip \in Nat
         /\ log \in Seq(Blocks) /\ LogSound /\ Linked /\ DOMAIN log = 1..Len(log)
         /\ \A i \in 1..Len(log) : log[i] \in Blocks /\ Len(log[i]) = floor + i
<1>1. sync \in Steps /\ log \in Seq(Blocks) /\ Linked /\ LogSound
  BY DEF IndexerInv, SyncTyped, LogSound
<1>2. /\ sync.head.id \in Blocks /\ sync.head.lib \in Nat
      /\ sync.served \in 0..MaxHeight /\ sync.fork \in 0..MaxHeight
  BY <1>1 DEF Steps
<1>3. Len(sync.head.id) \in 0..MaxHeight
  BY <1>2, BlockType
<1>4. floor \in Nat /\ MaxHeight \in Nat
  BY FirstBlocks
<1>5. Len(log) \in Nat /\ DOMAIN log = 1..Len(log) /\ \A i \in 1..Len(log) : log[i] \in Blocks
  BY <1>1, ElementOfSeq
<1>6. \A i \in 1..Len(log) : Len(log[i]) = floor + i
  BY <1>1, <1>5 DEF Linked
<1> QED
  BY <1>1, <1>2, <1>3, <1>4, <1>5, <1>6 DEF Tip

(* The step asks for blocks after the tip. *)
LEMMA InvGetBlocks ==
  ASSUME IndexerInv, getBlocks
  PROVE  IndexerInv'
<1>1. UNCHANGED <<chainVars, log, tables>> /\ shrunk' = FALSE
  BY DEF getBlocks
<1>2. BatchSize \in Nat \ {0} /\ Len(sync.head.id) \in Nat /\ Tip \in Nat
  BY InvFacts, IndexerAssumption
<1>3. \E n \in 0..MaxHeight :
        /\ n <= Len(sync.head.id)
        /\ sync' = [sync EXCEPT !.phase = "apply", !.served = n]
  <2> DEFINE h == Len(sync.head.id)
             count == Count(sync.head)
  <2>1. count \in Int /\ Tip + count <= h /\ (Tip + count >= Tip \/ Tip + count = h)
    BY <1>2 DEF Count, Lower
  <2>2. h <= MaxHeight /\ MaxHeight \in Nat /\ h \in Nat
    BY InvFacts
  <2> HIDE DEF count, h
  <2>3. ASSUME sync' = [sync EXCEPT !.phase = "apply", !.served = Tip + count]
        PROVE  \E n \in 0..MaxHeight :
                 n <= h /\ sync' = [sync EXCEPT !.phase = "apply", !.served = n]
    <3>1. Tip + count \in 0..MaxHeight /\ Tip + count <= h
      BY <1>2, <2>1, <2>2
    <3> QED BY <2>3, <3>1
  <2>4. ASSUME NEW n \in 0..count - 1,
               sync' = [sync EXCEPT !.phase = "apply", !.served = Tip + n]
        PROVE  \E k \in 0..MaxHeight :
                 k <= h /\ sync' = [sync EXCEPT !.phase = "apply", !.served = k]
    <3>1. Tip + n \in 0..MaxHeight /\ Tip + n <= h
      BY <1>2, <2>1, <2>2
    <3> QED BY <2>4, <3>1
  <2> QED BY <2>3, <2>4 DEF getBlocks, count, h
<1>4. SyncTyped' /\ ~ In("rollback")'
  <2>1. sync \in Steps /\ sync.head.lib <= Len(sync.head.id)
    BY DEF IndexerInv, SyncTyped
  <2>2. PICK n \in 0..MaxHeight :
          n <= Len(sync.head.id) /\ sync' = [sync EXCEPT !.phase = "apply", !.served = n]
    BY <1>3
  <2>3. sync' \in Steps /\ sync'.head = sync.head /\ sync'.phase = "apply" /\ sync'.served = n
    BY <2>1, <2>2 DEF Steps, Phases
  <2> QED BY <1>1, <2>1, <2>2, <2>3 DEF SyncTyped, In
<1>5. LogSound'
  BY <1>1, LogKept DEF IndexerInv
<1>6. ChainTyped'
  BY <1>1 DEF IndexerInv, ChainTyped, chainVars
<1> QED
  BY <1>4, <1>5, <1>6 DEF IndexerInv

(* A block is appended, or reveals a fork. *)
LEMMA InvApplyBlock ==
  ASSUME IndexerInv, applyBlock
  PROVE  IndexerInv'
<1> DEFINE block == Ancestor(sync.head.id, Tip + 1)
<1>1. /\ In("apply") /\ Tip < sync.served /\ UNCHANGED <<chainVars, shrunk>>
      /\ \/ /\ Extends(block) /\ log' = Append(log, block) /\ UNCHANGED sync
            /\ tables' = Projected!applyAll(tables, EventsOf[block])
         \/ /\ ~ Extends(block) /\ UNCHANGED <<log, tables>>
            /\ sync' = [sync EXCEPT !.phase = "rollback", !.fork = Tip + 1, !.served = 0]
  BY DEF applyBlock
<1>2. sync.served <= Len(sync.head.id) /\ sync.head.lib <= Len(sync.head.id) /\ shrunk \in BOOLEAN
  BY <1>1 DEF IndexerInv, SyncTyped
<1>3. Tip + 1 \in 0..Len(sync.head.id) /\ Tip + 1 \in 0..MaxHeight
  <2>1. /\ Tip \in Nat /\ sync.served \in Nat /\ sync.head.lib \in Nat
        /\ Len(sync.head.id) \in Nat /\ Len(sync.head.id) <= MaxHeight /\ MaxHeight \in Nat
    BY InvFacts
  <2>2. Tip < sync.served /\ sync.served <= Len(sync.head.id)
    BY <1>1, <1>2
  <2> QED BY ONLY <2>1, <2>2
<1>4. block \in Blocks /\ Len(block) = Tip + 1
  BY <1>3, InvFacts, AncestorType
<1>5. ChainTyped'
  BY <1>1 DEF IndexerInv, ChainTyped, chainVars
<1> HIDE DEF block
<1>6. ASSUME Extends(block), log' = Append(log, block), UNCHANGED sync,
             tables' = Projected!applyAll(tables, EventsOf[block])
      PROVE  IndexerInv'
  <2>1. LogSound'
    BY <1>4, <1>6, BlockAppended, InvFacts
  <2>2. SyncTyped' /\ ~ In("rollback")'
    BY <1>1, <1>6 DEF IndexerInv, SyncTyped, In
  <2> QED BY <1>5, <2>1, <2>2 DEF IndexerInv
<1>7. ASSUME UNCHANGED <<log, tables>>,
             sync' = [sync EXCEPT !.phase = "rollback", !.fork = Tip + 1, !.served = 0]
      PROVE  IndexerInv'
  <2>1. LogSound'
    BY <1>7, LogKept DEF IndexerInv
  <2>2. /\ sync' \in Steps /\ sync'.head = sync.head /\ sync'.phase = "rollback"
        /\ sync'.fork = Tip + 1
    <3>1. sync \in Steps /\ 0 \in 0..MaxHeight
      BY InvFacts
    <3> QED BY <1>3, <1>7, <3>1 DEF Steps, Phases
  <2>3. SyncTyped'
    BY <1>1, <1>2, <2>2 DEF SyncTyped, In
  <2>4. ForkFound'
    <3>1. Tip' = Tip /\ sync'.fork > floor /\ sync'.fork <= Len(sync'.head.id)
      BY <1>3, <1>7, <2>2, InvFacts DEF Tip
    <3> QED BY <2>2, <3>1 DEF ForkFound
  <2> QED BY <1>5, <2>1, <2>3, <2>4 DEF IndexerInv
<1> QED
  BY <1>1, <1>6, <1>7

(* The target of a rollback is a stored height below the fork, or none. *)
LEMMA TargetBounds ==
  ASSUME IndexerInv, In("rollback")
  PROVE  /\ RollbackTarget(sync.head, sync.fork) \in floor..Tip
         /\ RollbackTarget(sync.head, sync.fork) < sync.fork
         /\ RollbackTarget(sync.head, sync.fork) <= Len(sync.head.id)
         /\ \/ RollbackTarget(sync.head, sync.fork) >= sync.head.lib
            \/ RollbackTarget(sync.head, sync.fork) = sync.fork - 1
<1> DEFINE h == Len(sync.head.id)
           l == sync.head.lib
           f == sync.fork
<1>1. f > floor /\ f <= h /\ f <= Tip + 1
  BY InvFacts DEF IndexerInv, ForkFound
<1>2. h \in Nat /\ l \in Nat /\ f \in Nat /\ floor \in Nat /\ Tip \in Nat /\ floor <= Tip
  BY InvFacts
<1>3. Window \in Nat
  BY IndexerAssumption
<1>4. finalHeight(sync.head) \in Int /\ finalHeight(sync.head) >= l
  BY <1>2, <1>3 DEF finalHeight, Higher
<1> DEFINE final == finalHeight(sync.head)
           to == RollbackTarget(sync.head, f)
<1>5. \/ final < f - 1 /\ to = (IF final < floor THEN floor ELSE final)
      \/ ~ (final < f - 1) /\ to = (IF f - 1 < floor THEN floor ELSE f - 1)
  <2> HIDE DEF f
  <2> QED BY DEF RollbackTarget, Higher, Lower
<1> HIDE DEF h, l, f, final, to
<1>6. /\ to \in floor..Tip /\ to < f /\ to <= h
      /\ to >= l \/ to = f - 1
  BY ONLY <1>1, <1>2, <1>4, <1>5 DEF final
<1> QED
  BY <1>6 DEF h, l, f, to

(* The log is cut at its last final height below the fork. *)
LEMMA InvRollback ==
  ASSUME IndexerInv, rollback
  PROVE  IndexerInv'
<1>1. LogSound'
  BY TargetBounds, LogCut DEF rollback, IndexerInv
<1>2. sync' = Idle /\ shrunk' \in BOOLEAN /\ UNCHANGED chainVars
  BY DEF rollback, IndexerInv, SyncTyped
<1> QED
  BY <1>1, <1>2, InvStepEnds

(* Another block than the head is stored at its height. *)
LEMMA InvTipForked ==
  ASSUME IndexerInv, tipForked
  PROVE  IndexerInv'
<1>1. /\ UNCHANGED <<chainVars, log, tables>> /\ shrunk' = FALSE /\ ~ Behind /\ Mismatch
      /\ sync' = [sync EXCEPT !.phase = "rollback", !.fork = Len(sync.head.id)]
  BY DEF tipForked
<1>2. /\ sync \in Steps /\ Len(sync.head.id) \in 0..MaxHeight
      /\ sync.head.lib <= Len(sync.head.id)
  BY InvFacts DEF IndexerInv, SyncTyped
<1>3. /\ sync' \in Steps /\ sync'.head = sync.head /\ sync'.phase = "rollback"
      /\ sync'.fork = Len(sync.head.id)
  BY <1>1, <1>2 DEF Steps, Phases
<1>4. SyncTyped'
  BY <1>1, <1>2, <1>3 DEF SyncTyped, In
<1>5. ForkFound'
  <2>1. Tip' = Tip /\ log' = log
    BY <1>1 DEF Tip
  <2>2. Len(sync.head.id) <= Tip /\ Len(sync.head.id) > floor
    BY <1>1, InvFacts DEF Behind, Mismatch
  <2>3. checkpointAt(Len(sync.head.id)) # sync.head.id
    BY <1>1 DEF Mismatch
  <2> QED BY <1>3, <2>1, <2>2, <2>3 DEF ForkFound, checkpointAt
<1>6. LogSound'
  BY <1>1, LogKept DEF IndexerInv
<1>7. ChainTyped'
  BY <1>1 DEF IndexerInv, ChainTyped, chainVars
<1> QED
  BY <1>4, <1>5, <1>6, <1>7 DEF IndexerInv

(* The tip is kept, or a head below it is believed. *)
LEMMA InvTipMatches ==
  ASSUME IndexerInv, tipMatches
  PROVE  IndexerInv'
<1> DEFINE height == Len(sync.head.id)
<1>1. LogSound'
  <2>1. CASE Believed(height)
    <3>1. rollbackTo(Higher(height, floor))
      BY <2>1 DEF tipMatches
    <3>2. Higher(height, floor) \in floor..Tip
      BY <2>1, InvFacts DEF Believed, Higher
    <3> QED BY <3>1, <3>2, LogCut DEF IndexerInv
  <2>2. CASE ~ Believed(height)
    BY <2>2, LogKept DEF tipMatches, IndexerInv
  <2> QED BY <2>1, <2>2
<1>2. sync' = Idle /\ shrunk' \in BOOLEAN /\ UNCHANGED chainVars
  BY DEF tipMatches
<1> QED
  BY <1>1, <1>2, InvStepEnds

(* Steps that end without a change of the log. *)
LEMMA InvNothingStored ==
  ASSUME IndexerInv, allApplied \/ refuseRollback \/ nodeFails \/ crash
  PROVE  IndexerInv'
<1>1. sync' = Idle /\ UNCHANGED <<chainVars, log, tables>>
  BY DEF allApplied, refuseRollback, nodeFails, crash
<1>2. shrunk' \in BOOLEAN
  BY DEF IndexerInv, SyncTyped, allApplied, refuseRollback, nodeFails, crash
<1>3. LogSound'
  BY <1>1, LogKept DEF IndexerInv
<1> QED
  BY <1>1, <1>2, <1>3, InvStepEnds

(* Every step preserves the invariant. *)
LEMMA InvNext ==
  IndexerInv /\ [Next]_vars => IndexerInv'
<1> SUFFICES ASSUME IndexerInv, [Next]_vars PROVE IndexerInv'
  OBVIOUS
<1>1. CASE UNCHANGED vars
  <2>1. UNCHANGED <<chainVars, log, tables, sync, shrunk>>
    BY <1>1 DEF vars
  <2>2. ChainTyped'
    BY <2>1 DEF IndexerInv, ChainTyped, chainVars
  <2>3. SyncTyped'
    BY <2>1 DEF IndexerInv, SyncTyped, In
  <2> QED BY <2>1, <2>2, <2>3, LogKept, ForkKept DEF IndexerInv
<1> QED
  BY <1>1, InvChain, InvGetHead, InvGetBlocks, InvApplyBlock, InvRollback, InvTipForked,
     InvTipMatches, InvNothingStored DEF Next, Step

-----------------------------------------------------------------------------
(* Which blocks a step drops from the log: none, those above the target of *)
(* a rollback, or those above a head that was seen twice.                  *)
LEMMA LogCutWhere ==
  ASSUME IndexerInv, [Next]_vars
  PROVE  \/ log' = log
         \/ \E b : log' = Append(log, b) /\ In("apply")
         \/ /\ In("rollback") /\ Agreed(RollbackTarget(sync.head, sync.fork))
            /\ rollbackTo(RollbackTarget(sync.head, sync.fork))
         \/ In("head") /\ rollbackTo(Higher(Len(sync.head.id), floor)) /\ Len(sync.head.id) < Tip
<1>1. CASE applyBlock
  BY <1>1 DEF applyBlock
<1>2. CASE rollback
  BY <1>2 DEF rollback
<1>3. CASE tipMatches
  BY <1>3 DEF tipMatches, Believed
<1>4. CASE ~ (applyBlock \/ rollback \/ tipMatches)
  <2>1. log' = log
    BY <1>4 DEF Next, Step, vars, getHead, getBlocks, allApplied, refuseRollback, tipForked,
                nodeFails, crash, mine, reorg, finalize
  <2> QED BY <2>1
<1> QED
  BY <1>1, <1>2, <1>3, <1>4

(* A rollback leaves only ancestors of the head it was made for. *)
LEMMA RollbackStep ==
  ASSUME IndexerInv, [Next]_vars, In("rollback"), log' # log
  PROVE  \A i \in DOMAIN log' : IsPrefix(log'[i], sync.head.id)
<1> DEFINE to == RollbackTarget(sync.head, sync.fork)
           id == sync.head.id
<1>1. Agreed(to) /\ rollbackTo(to)
  BY LogCutWhere DEF In
<1>2. to \in floor..Tip /\ to <= Len(id)
  BY TargetBounds
<1>3. /\ Len(log') = to - floor /\ \A i \in 1..to-floor : log'[i] = log[i]
      /\ log' \in Seq(Blocks)
  BY <1>1, <1>2, LogCut, InvFacts DEF LogSound
<1>4. DOMAIN log' = 1..to-floor
  BY <1>3
<1>5. ASSUME NEW i \in 1..to-floor
      PROVE  IsPrefix(log[i], id)
  <2> DEFINE j == to - floor
  <2>1. j \in 1..Len(log) /\ i \in 1..j /\ to > floor /\ floor + i \in 0..to /\ to \in 0..Len(id)
    BY <1>2, InvFacts
  <2>2. log[j] = Ancestor(id, to)
    BY <1>1, <2>1 DEF Agreed, checkpointAt
  <2> HIDE DEF j, to
  <2>3. log[i] = Ancestor(log[j], floor + i)
    BY <2>1, InvFacts, StoredAncestors
  <2>4. Ancestor(Ancestor(id, to), floor + i) = Ancestor(id, floor + i)
    BY <2>1, InvFacts, AncestorType
  <2>5. log[i] \in Blocks /\ Len(log[i]) = floor + i
    <3>1. \A k \in 1..Len(log) : log[k] \in Blocks /\ Len(log[k]) = floor + k
      BY InvFacts
    <3>2. i \in 1..Len(log)
      BY <2>1, InvFacts
    <3> QED BY <3>1, <3>2
  <2>6. floor + i <= to /\ to <= Len(id) /\ floor + i \in Nat /\ to \in Nat /\ Len(id) \in Nat
    <3>1. Len(id) \in Nat
      BY InvFacts
    <3> HIDE DEF id
    <3> QED BY ONLY <2>1, <3>1
  <2>7. Len(log[i]) <= Len(id)
    BY ONLY <2>5, <2>6
  <2>8. log[i] = Ancestor(id, floor + i)
    BY ONLY <2>2, <2>3, <2>4
  <2>9. id \in Blocks
    BY InvFacts
  <2> HIDE DEF id
  <2> QED BY <2>5, <2>7, <2>8, <2>9, PrefixIsAncestor
<1> QED
  BY <1>3, <1>4, <1>5

(* No step drops an ancestor of the head that is irreversible. *)
LEMMA FinalStep ==
  ASSUME IndexerInv, [Next]_vars, NEW i \in DOMAIN log, i > Len(log')
  PROVE  ~ (IsPrefix(log[i], sync.head.id) /\ Len(log[i]) <= sync.head.lib)
<1> DEFINE id == sync.head.id
           to == RollbackTarget(sync.head, sync.fork)
<1> SUFFICES ASSUME IsPrefix(log[i], id), Len(log[i]) <= sync.head.lib PROVE FALSE
  OBVIOUS
<1>1. /\ i \in 1..Len(log) /\ log[i] \in Blocks /\ Len(log[i]) = floor + i
      /\ floor \in Nat /\ Len(log) \in Nat
      /\ Len(id) \in Nat /\ sync.head.lib \in Nat /\ Tip = floor + Len(log)
  BY InvFacts
<1>2. sync.head.lib <= Len(id)
  BY DEF IndexerInv, SyncTyped
<1>3. log' # log
  BY <1>1
<1>4. ASSUME NEW b, log' = Append(log, b)
      PROVE  FALSE
  BY <1>1, <1>4, InvFacts
<1>5. ASSUME In("rollback"), Agreed(to), rollbackTo(to)
      PROVE  FALSE
  <2>1. to \in floor..Tip /\ Len(log') = to - floor
    BY <1>5, TargetBounds, LogCut, InvFacts
  <2>2. to = sync.fork - 1 /\ to < Len(log[i])
    <3>1. to < floor + i
      BY <1>1, <2>1
    <3>2. to >= sync.head.lib \/ to = sync.fork - 1
      BY <1>5, TargetBounds
    <3> HIDE DEF to
    <3> QED BY <1>1, <2>1, <3>1, <3>2
  <2>3. ForkFound /\ sync.fork \in Nat
    BY <1>5, InvFacts DEF IndexerInv
  <2> HIDE DEF to
  <2>4. Len(log[i]) >= sync.fork /\ Len(log[i]) <= Tip /\ Len(log[i]) <= Len(id)
    <3>1. Len(log[i]) \in Nat /\ i \in Nat /\ i <= Len(log)
      BY <1>1
    <3> HIDE DEF id
    <3>2. Len(log[i]) <= Tip
      BY ONLY <1>1, <3>1
    <3>3. Len(log[i]) <= Len(id)
      BY ONLY <1>1, <1>2, <3>1, Len(log[i]) <= sync.head.lib
    <3>4. Len(log[i]) >= sync.fork
      BY ONLY <2>2, <2>3, <3>1
    <3> QED BY <3>2, <3>3, <3>4
  <2>5. sync.fork = Len(id) /\ checkpointAt(sync.fork) # id
    BY <1>1, <2>3, <2>4 DEF ForkFound
  <2>6. Len(log[i]) = Len(id) /\ sync.fork - floor = i
    <3>1. i \in Nat /\ Len(log[i]) \in Nat
      BY <1>1
    <3> HIDE DEF id
    <3> QED BY ONLY <1>1, <2>3, <2>4, <2>5, <3>1
  <2>7. log[i] = Ancestor(id, Len(id)) /\ Ancestor(id, Len(id)) = id
    BY <1>1, <2>6, InvFacts, PrefixIsAncestor
  <2> QED BY <2>5, <2>6, <2>7 DEF checkpointAt
<1>6. ASSUME rollbackTo(Higher(Len(id), floor)), Len(id) < Tip
      PROVE  FALSE
  <2>1. Higher(Len(id), floor) \in floor..Tip
    BY <1>1, <1>6 DEF Higher
  <2>2. Len(log') = Higher(Len(id), floor) - floor
    BY <1>6, <2>1, LogCut, InvFacts
  <2>3. Higher(Len(id), floor) \in Nat /\ Higher(Len(id), floor) >= Len(id)
    BY <1>1 DEF Higher
  <2>4. Len(log[i]) <= Len(id) /\ floor + i > Higher(Len(id), floor) /\ i \in Nat
    <3> HIDE DEF id
    <3> QED BY <1>1, <1>2, <2>2, <2>3
  <2> HIDE DEF id
  <2> QED BY ONLY <1>1, <2>3, <2>4
<1> QED
  BY <1>3, <1>4, <1>5, <1>6, LogCutWhere

-----------------------------------------------------------------------------
(* The invariant holds in every state of every behaviour. *)
THEOREM IndexerInvariant == Spec => []IndexerInv
<1>1. Init => IndexerInv
  BY InvInit
<1>2. IndexerInv /\ [Next]_vars => IndexerInv'
  BY InvNext
<1> QED
  BY <1>1, <1>2, PTL DEF Spec

(* The log is one chain, under whichever heads its blocks were fetched,    *)
(* however often the process stopped and the nodes disagreed.              *)
THEOREM LogAlwaysLinked == Spec => []Linked
<1>1. IndexerInv => Linked
  BY DEF IndexerInv, LogSound
<1> QED
  BY <1>1, IndexerInvariant, PTL

(* The tables are always those of an indexer that saw only the blocks of   *)
(* the log.                                                                *)
THEOREM TablesAlwaysReplayed == Spec => []TablesReplayed
<1>1. IndexerInv => TablesReplayed
  BY DEF IndexerInv, LogSound
<1> QED
  BY <1>1, IndexerInvariant, PTL

(* Every rollback ends on the branch of the head it was made for. *)
THEOREM RollbackAlwaysSound == Spec => RollbackSound
<1>1. IndexerInv /\ [Next]_vars
        => [In("rollback") /\ log' # log => \A i \in DOMAIN log' : IsPrefix(log'[i], sync.head.id)]_vars
  BY RollbackStep
<1> QED
  BY <1>1, IndexerInvariant, PTL DEF Spec, RollbackSound

(* No step removes what was indexed of the chain's irreversible part.      *)
THEOREM FinalAlwaysKept == Spec => FinalKept
<1>1. IndexerInv /\ [Next]_vars
        => [\A i \in DOMAIN log :
              i > Len(log') => ~ (IsPrefix(log[i], sync.head.id) /\ Len(log[i]) <= sync.head.lib)]_vars
  BY FinalStep
<1> QED
  BY <1>1, IndexerInvariant, PTL DEF Spec, FinalKept

-----------------------------------------------------------------------------
(* The elements of a sequence after the first a, up to the one numbered b. *)
Piece(s, a, b) == SubSeq(s, a + 1, b)

(* A piece has the elements of its numbers.                                *)
LEMMA PieceFacts ==
  ASSUME NEW S, NEW s \in Seq(S), NEW a \in Nat, NEW b \in Nat, a <= b, b <= Len(s)
  PROVE  /\ Piece(s, a, b) \in Seq(S) /\ Len(Piece(s, a, b)) = b - a
         /\ \A i \in 1..b - a : Piece(s, a, b)[i] = s[a + i] /\ a + i \in 1..Len(s)
         /\ a = b => Piece(s, a, b) = <<>>
<1>1. Len(s) \in Nat /\ \A i \in 1..Len(s) : s[i] \in S
  BY ElementOfSeq
<1>2. \A i \in a + 1..b : s[i] \in S
  BY <1>1
<1>3. /\ SubSeq(s, a + 1, b) \in Seq(S)
      /\ Len(SubSeq(s, a + 1, b)) = IF a + 1 <= b THEN b - (a + 1) + 1 ELSE 0
      /\ \A i \in 1..b - (a + 1) + 1 : SubSeq(s, a + 1, b)[i] = s[(a + 1) + i - 1]
  <2>1. a + 1 \in Int /\ b \in Int
    OBVIOUS
  <2> QED BY <1>2, <2>1, SubSeqProperties
<1>4. ASSUME NEW i \in 1..b - a
      PROVE  i \in 1..b - (a + 1) + 1 /\ (a + 1) + i - 1 = a + i /\ a + i \in 1..Len(s)
  BY <1>1
<1>5. (IF a + 1 <= b THEN b - (a + 1) + 1 ELSE 0) = b - a
  OBVIOUS
<1>6. a = b => SubSeq(s, a + 1, b) = <<>>
  BY SubSeqEmpty
<1> DEFINE p == SubSeq(s, a + 1, b)
<1>7. p = Piece(s, a, b)
  BY DEF Piece
<1>8. \A i \in 1..b - a : p[i] = s[a + i]
  BY <1>3, <1>4
<1>9. p \in Seq(S) /\ Len(p) = b - a /\ (a = b => p = <<>>)
  BY <1>3, <1>5, <1>6
<1> HIDE DEF p
<1> QED BY <1>4, <1>7, <1>8, <1>9

(* Its length, and each of its elements.                                   *)
LEMMA PieceType ==
  ASSUME NEW S, NEW s \in Seq(S), NEW a \in Nat, NEW b \in Nat, a <= b, b <= Len(s)
  PROVE  Piece(s, a, b) \in Seq(S) /\ Len(Piece(s, a, b)) = b - a
BY PieceFacts

LEMMA PieceElement ==
  ASSUME NEW S, NEW s \in Seq(S), NEW a \in Nat, NEW b \in Nat, a <= b, b <= Len(s),
         NEW i \in 1..b - a
  PROVE  Piece(s, a, b)[i] = s[a + i] /\ a + i \in 1..Len(s)
BY PieceFacts

(* A piece with the next element is a larger one.                          *)
LEMMA PieceGrows ==
  ASSUME NEW S, NEW s \in Seq(S), NEW a \in Nat, NEW b \in Nat, a <= b, b < Len(s)
  PROVE  Append(Piece(s, a, b), s[b + 1]) = Piece(s, a, b + 1)
<1>1. Len(s) \in Nat /\ a + 1 \in 1..Len(s) /\ b + 1 \in a + 1..Len(s) /\ (b + 1) - 1 = b
  BY LenProperties
<1>2. SubSeq(s, a + 1, b + 1) = SubSeq(s, a + 1, b) \o <<s[b + 1]>>
  BY <1>1, SubSeqRecursiveSecond
<1>3. s[b + 1] \in S /\ Piece(s, a, b) \in Seq(S)
  BY <1>1, ElementOfSeq, PieceFacts
<1>4. Append(Piece(s, a, b), s[b + 1]) = Piece(s, a, b) \o <<s[b + 1]>>
  BY <1>3, AppendIsConcat
<1> QED BY <1>2, <1>4 DEF Piece

(* A piece of a piece, from its start.                                     *)
LEMMA PieceOfPiece ==
  ASSUME NEW S, NEW s \in Seq(S), NEW a \in Nat, NEW b \in Nat, NEW c \in Nat,
         a <= c, c <= b, b <= Len(s)
  PROVE  Piece(Piece(s, a, b), 0, c - a) = Piece(s, a, c)
<1>1. CASE a = c
  <2>1. c - a = 0 /\ 0 + 1 \in Int /\ 0 \in Int /\ a + 1 \in Int /\ a < a + 1
    BY <1>1
  <2>2. SubSeq(Piece(s, a, b), 0 + 1, 0) = <<>> /\ SubSeq(s, a + 1, a) = <<>>
    BY <2>1, SubSeqEmpty
  <2> QED BY <1>1, <2>1, <2>2 DEF Piece
<1>2. CASE a # c
  <2>1. Len(s) \in Nat
    BY LenProperties
  <2>2. /\ a + 1 \in 1..Len(s) /\ b \in 1..Len(s)
        /\ 1 \in 1..b - (a + 1) + 1 /\ c - a \in 1..b - (a + 1) + 1
    BY <1>2, <2>1
  <2>3. SubSeq(SubSeq(s, a + 1, b), 1, c - a) = SubSeq(s, (a + 1) + 1 - 1, (a + 1) + (c - a) - 1)
    BY <2>2, SubSeqOfSubSeq
  <2>4. (a + 1) + 1 - 1 = a + 1 /\ (a + 1) + (c - a) - 1 = c /\ 0 + 1 = 1
    OBVIOUS
  <2> QED BY ONLY <2>3, <2>4 DEF Piece
<1> QED BY <1>1, <1>2

(* Two pieces, one after the other.                                        *)
LEMMA PiecesJoined ==
  ASSUME NEW S, NEW s \in Seq(S), NEW a \in Nat, NEW b \in Nat, NEW c \in Nat,
         a <= b, b <= c, c <= Len(s)
  PROVE  Piece(s, a, b) \o Piece(s, b, c) = Piece(s, a, c)
<1>1. a + 1 \in 1..Len(s) + 1 /\ b \in (a + 1) - 1..Len(s) /\ c \in b..Len(s)
  BY LenProperties
<1> QED BY <1>1, ConcatAdjacentSubSeq DEF Piece

-----------------------------------------------------------------------------
(* g is the function by which the first k events are selected.             *)
Keeps(g, s, H, k) ==
  g = [n \in 0..k |-> IF n = 0 THEN <<>>
                      ELSE IF s[n].height \in H THEN Append(g[n - 1], s[n]) ELSE g[n - 1]]

(* Events whose heights are asked for exactly between two places are a     *)
(* piece of the log.                                                       *)
LEMMA PieceKept ==
  ASSUME NEW S, NEW s \in Seq(S), NEW H, NEW a \in Nat, NEW b \in Nat, a <= b, b <= Len(s),
         \A i \in 1..Len(s) : s[i].height \in H <=> a < i /\ i <= b
  PROVE  Projected!OfHeights(s, H) = Piece(s, a, b)
<1> DEFINE N == Len(s)
           upto(n) == IF n <= b THEN n ELSE b
           cut(n) == IF n <= a THEN <<>> ELSE Piece(s, a, upto(n))
           f == [n \in 0..N |-> cut(n)]
           step(g, n) == IF n = 0 THEN <<>>
                         ELSE IF s[n].height \in H THEN Append(g[n - 1], s[n]) ELSE g[n - 1]
<1>0. N \in Nat /\ cut(0) = <<>>
  BY LenProperties
<1>1. ASSUME NEW n \in 1..N
      PROVE  cut(n) = IF s[n].height \in H THEN Append(cut(n - 1), s[n]) ELSE cut(n - 1)
  <2>0. n \in Nat /\ n - 1 \in Nat /\ (s[n].height \in H <=> a < n /\ n <= b)
    BY <1>0
  <2>1. CASE n <= a
    <3>1. n - 1 <= a
      BY <2>0, <2>1
    <3> QED BY <2>0, <2>1, <3>1
  <2>2. CASE a < n /\ n <= b
    <3>1. n - 1 < N /\ a <= n - 1 /\ (n - 1) + 1 = n /\ n - 1 <= b
      BY <1>0, <2>0, <2>2
    <3>2. Append(Piece(s, a, n - 1), s[n]) = Piece(s, a, n)
      BY <2>0, <3>1, PieceGrows
    <3>3. n - 1 = a => Piece(s, a, n - 1) = <<>>
      BY <2>0, <3>1, PieceFacts
    <3>4. cut(n - 1) = Piece(s, a, n - 1) /\ cut(n) = Piece(s, a, n)
      BY <2>0, <2>2, <3>1, <3>3
    <3> QED BY <2>0, <2>2, <3>2, <3>4
  <2>3. CASE a < n /\ b < n
    <3>1. s[n].height \notin H /\ a <= n - 1 /\ b <= n - 1 /\ upto(n) = b /\ upto(n - 1) = b
      BY <2>0, <2>3
    <3>2. n - 1 <= a => a = b
      BY <2>0, <3>1
    <3>3. a = b => Piece(s, a, b) = <<>>
      BY PieceFacts
    <3>4. cut(n) = Piece(s, a, b) /\ cut(n - 1) = Piece(s, a, b)
      BY <2>0, <2>3, <3>1, <3>2, <3>3
    <3> QED BY <3>1, <3>4
  <2> QED BY <2>0, <2>1, <2>2, <2>3
<1>2. \A n \in 0..N : f[n] = step(f, n)
  <2> TAKE n \in 0..N
  <2>1. n # 0 => n \in 1..N /\ n - 1 \in 0..N
    BY <1>0
  <2>2. \A m \in 0..N : f[m] = cut(m)
    OBVIOUS
  <2>3. 0 \in 0..N
    BY <1>0
  <2> HIDE DEF f, cut
  <2> QED BY <1>0, <1>1, <2>1, <2>2, <2>3
<1>3. Keeps(f, s, H, N)
  <2>1. f = [n \in 0..N |-> f[n]]
    OBVIOUS
  <2> HIDE DEF f
  <2>2. f = [n \in 0..N |-> step(f, n)]
    <3> HIDE DEF step
    <3> QED BY <1>2, <2>1
  <2> QED BY <2>2 DEF Keeps
<1> DEFINE g == CHOOSE h : Keeps(h, s, H, N)
<1>4. Keeps(g, s, H, N)
  BY <1>3
<1>5. Projected!OfHeights(s, H) = g[N]
  BY DEF Projected!OfHeights, Keeps
<1> HIDE DEF g
<1>6. \A n \in 0..N : g[n] = step(g, n)
  BY <1>4 DEF Keeps
<1> DEFINE T == {n \in 0..N : g[n] # cut(n)}
<1>7. T = {}
  <2> SUFFICES ASSUME T # {} PROVE FALSE
    OBVIOUS
  <2>1. PICK n \in T : \A k \in T : n <= k
    <3>1. T \subseteq Nat
      BY <1>0
    <3> HIDE DEF T
    <3> QED BY <3>1, Smallest
  <2>2. n \in 0..N /\ g[n] # cut(n)
    BY <2>1
  <2>3. n # 0
    BY <1>0, <1>6, <2>2
  <2>4. n \in 1..N /\ n - 1 \in 0..N /\ ~(n <= n - 1)
    BY <1>0, <2>2, <2>3
  <2>5. g[n - 1] = cut(n - 1)
    BY <2>1, <2>4
  <2>6. g[n] = cut(n)
    <3> HIDE DEF cut
    <3> QED BY <1>1, <1>6, <2>2, <2>3, <2>4, <2>5
  <2> QED BY <2>2, <2>6
<1>8. g[N] = cut(N)
  BY <1>0, <1>7
<1>9. cut(N) = Piece(s, a, b)
  <2>1. a = b => Piece(s, a, b) = <<>>
    BY PieceFacts
  <2>2. N <= a => a = b
    BY <1>0
  <2>3. N <= b => N = b
    BY <1>0
  <2> QED BY <1>0, <2>1, <2>2, <2>3
<1> QED BY <1>5, <1>8, <1>9

(* The first elements of a sequence are a piece of it.                     *)
LEMMA StartFacts ==
  ASSUME NEW S, NEW s \in Seq(S), NEW b \in Nat, b <= Len(s)
  PROVE  /\ Piece(s, 0, b) \in Seq(S) /\ Len(Piece(s, 0, b)) = b
         /\ \A i \in 1..b : Piece(s, 0, b)[i] = s[i]
<1>1. PICK z \in Nat : z = 0
  OBVIOUS
<1>2. /\ Piece(s, z, b) \in Seq(S) /\ Len(Piece(s, z, b)) = b - z
      /\ \A i \in 1..b - z : Piece(s, z, b)[i] = s[z + i]
  <2>1. z <= b
    BY <1>1
  <2> QED BY ONLY <2>1, s \in Seq(S), z \in Nat, b \in Nat, b <= Len(s), PieceFacts
<1>3. b - z = b /\ \A i \in 1..b : z + i = i
  BY <1>1
<1>4. \A i \in 1..b : Piece(s, z, b)[i] = s[i]
  BY <1>2, <1>3
<1> QED BY <1>1, <1>2, <1>3, <1>4

-----------------------------------------------------------------------------
(* A log in the order of heights, none of them above the tip.              *)
Rising(s, tip) ==
  /\ \A i \in 1..Len(s) : s[i].height \in Nat /\ s[i].height <= tip
  /\ \A i, j \in 1..Len(s) : i <= j => s[i].height <= s[j].height

(* What a client that asks from a height on has to get.                    *)
Rest(s, from) == Projected!OfHeights(s, Projected!From(from))

(* The place after which the events of a log are at or above a height.     *)
After(s, h, k) == k \in 0..Len(s) /\ \A i \in 1..Len(s) : s[i].height >= h <=> k < i

(* In a log in order there is such a place.                                *)
LEMMA PlaceOfHeight ==
  ASSUME NEW S, NEW s \in Seq(S), NEW tip, Rising(s, tip), NEW h \in Nat
  PROVE  \E k : After(s, h, k)
<1> DEFINE T == {i \in 1..Len(s) : s[i].height >= h}
<1>0. Len(s) \in Nat
  BY LenProperties
<1>1. CASE T = {}
  <2>1. \A i \in 1..Len(s) : ~(s[i].height >= h) /\ ~(Len(s) < i)
    BY <1>0, <1>1
  <2> QED BY <1>0, <2>1 DEF After
<1>2. CASE T # {}
  <2>1. PICK m \in T : \A i \in T : m <= i
    <3>1. T \subseteq Nat
      BY <1>0
    <3> HIDE DEF T
    <3> QED BY <1>2, <3>1, Smallest
  <2>2. m \in 1..Len(s) /\ s[m].height >= h /\ s[m].height \in Nat
    BY <2>1 DEF Rising
  <2>3. ASSUME NEW i \in 1..Len(s)
        PROVE  s[i].height >= h <=> m - 1 < i
    <3>1. s[i].height >= h => m <= i
      BY <2>1
    <3>2. s[i].height \in Nat /\ (m <= i => s[m].height <= s[i].height)
      BY <2>2 DEF Rising
    <3> HIDE DEF T
    <3> QED BY <1>0, <2>2, <3>1, <3>2
  <2>4. m - 1 \in 0..Len(s)
    BY <1>0, <2>2
  <2> QED BY <2>3, <2>4 DEF After
<1> QED BY <1>1, <1>2

(* From a height on the events after that place are asked for.             *)
LEMMA RestIsPiece ==
  ASSUME NEW S, NEW s \in Seq(S), NEW tip, Rising(s, tip), NEW h \in Nat, NEW k, After(s, h, k)
  PROVE  Rest(s, h) = Piece(s, k, Len(s))
<1>1. Len(s) \in Nat /\ k \in Nat /\ k <= Len(s)
  BY LenProperties DEF After
<1>2. ASSUME NEW i \in 1..Len(s)
      PROVE  s[i].height \in Projected!From(h) <=> k < i /\ i <= Len(s)
  BY <1>1 DEF After, Rising, Projected!From
<1>3. Projected!OfHeights(s, Projected!From(h)) = Piece(s, k, Len(s))
  BY <1>1, <1>2, PieceKept
<1> QED BY <1>3 DEF Rest

-----------------------------------------------------------------------------
(* A page is followed by the rest, which begins at a greater height.       *)
PageRight(s, tip, from, page) ==
  \/ page.nextHeight = None /\ page.items = Rest(s, from)
  \/ /\ page.nextHeight \in Nat /\ from < page.nextHeight /\ page.nextHeight <= tip
     /\ page.items \o Rest(s, page.nextHeight) = Rest(s, from)

(* A page that the limit cuts: it ends where the block of the first event  *)
(* beyond it begins, or, when that is where it starts itself, where that   *)
(* block ends.                                                             *)
LEMMA CutPage ==
  ASSUME NEW S, NEW s \in Seq(S), NEW tip \in Nat, Rising(s, tip),
         NEW from \in Nat, from <= tip, NEW limit \in Nat \ {0},
         NEW a, After(s, from, a), a + limit < Len(s)
  PROVE  PageRight(s, tip, from, Projected!eventsFrom(s, tip, from, limit))
<1> DEFINE N == Len(s)
           rows == Piece(s, a, N)
           e == s[a + limit + 1].height
           first == Piece(rows, 0, limit)
           page == Projected!WholeBlocks(first, rows[limit + 1])
           whole == Projected!OfHeights(rows, {e})
<1>0. N \in Nat /\ a \in Nat /\ a <= N /\ Rest(s, from) = rows
  <2>1. N \in Nat
    BY LenProperties
  <2>2. a \in Nat /\ a <= N
    BY <2>1 DEF After
  <2>3. Rest(s, from) = rows
    BY RestIsPiece
  <2> QED BY <2>1, <2>2, <2>3
<1>1. /\ rows \in Seq(S) /\ Len(rows) = N - a
      /\ \A i \in 1..N - a : rows[i] = s[a + i] /\ a + i \in 1..N
  <2>1. N \in Nat /\ a \in Nat /\ a <= N /\ N <= Len(s)
    BY <1>0
  <2>2. rows \in Seq(S) /\ Len(rows) = N - a
    <3> HIDE DEF N
    <3> QED BY ONLY <2>1, s \in Seq(S), PieceType
  <2>3. ASSUME NEW i \in 1..N - a PROVE rows[i] = s[a + i] /\ a + i \in 1..N
    BY <2>1, PieceElement
  <2> QED BY <2>2, <2>3
<1>2. a + limit + 1 \in 1..N /\ rows[limit + 1].height = e /\ e \in Nat /\ e <= tip /\ e >= from
  <2>1. limit + 1 \in 1..N - a /\ a + (limit + 1) = a + limit + 1 /\ a < a + limit + 1
    BY <1>0
  <2>2. a + limit + 1 \in 1..N
    BY <1>0
  <2>3. rows[limit + 1] = s[a + limit + 1]
    BY <1>1, <2>1
  <2> HIDE DEF rows
  <2> QED BY <2>1, <2>2, <2>3 DEF Rising, After
<1>3. Projected!eventsFrom(s, tip, from, limit)
        = IF page # <<>> THEN [items |-> page, nextHeight |-> e]
          ELSE [items |-> whole, nextHeight |-> IF e >= tip THEN None ELSE e + 1]
  <2>1. ~(from > tip) /\ ~(Len(rows) <= limit)
    BY <1>0, <1>1
  <2>2. Projected!OfHeights(s, Projected!From(from)) = rows
    BY <1>0 DEF Rest
  <2>3. SubSeq(rows, 1, limit) = first /\ 0 + 1 = 1
    BY DEF Piece
  <2> HIDE DEF rows, first, e
  <2> QED BY <1>2, <2>1, <2>2, <2>3 DEF Projected!eventsFrom
<1>4. PICK c : After(s, e, c)
  BY <1>2, PlaceOfHeight
<1>5. PICK d : After(s, e + 1, d)
  BY <1>2, PlaceOfHeight
<1>6. /\ c \in Nat /\ a <= c /\ c <= N /\ c <= a + limit /\ a + limit < d /\ d \in Nat /\ d <= N
      /\ \A i \in 1..N : s[i].height = e <=> c < i /\ i <= d
  <2>1. ASSUME NEW i \in 1..N
        PROVE  /\ s[i].height \in Nat /\ (s[i].height >= from <=> a < i)
               /\ (s[i].height >= e <=> c < i) /\ (s[i].height >= e + 1 <=> d < i)
    BY <1>4, <1>5 DEF Rising, After
  <2>2. c \in 0..N /\ d \in 0..N
    BY <1>4, <1>5 DEF After
  <2>3. c < a + limit + 1 /\ ~(d < a + limit + 1)
    BY <1>2, <2>1
  <2>4. a <= c
    <3>1. a = 0 \/ a \in 1..N
      BY <1>0
    <3>2. ASSUME a \in 1..N PROVE ~(c < a)
      <4>1. (s[a].height >= from <=> a < a) /\ (s[a].height >= e <=> c < a)
            /\ s[a].height \in Nat
        BY <2>1, <3>2
      <4>2. e >= from /\ e \in Nat /\ from \in Nat /\ ~(a < a)
        BY <1>2, <3>2
      <4> HIDE DEF e
      <4> QED BY ONLY <4>1, <4>2
    <3> QED BY <2>2, <3>1, <3>2
  <2>5. \A i \in 1..N : s[i].height = e <=> c < i /\ i <= d
    <3> TAKE i \in 1..N
    <3>1. s[i].height = e <=> s[i].height >= e /\ ~(s[i].height >= e + 1)
      BY <1>2, <2>1
    <3>2. i \in Nat
      OBVIOUS
    <3> QED BY <2>1, <2>2, <3>1, <3>2
  <2> QED BY <1>0, <2>2, <2>3, <2>4, <2>5
<1>7. page = Piece(s, a, c)
  <2>1. first \in Seq(S) /\ Len(first) = limit /\ \A i \in 1..limit : first[i] = s[a + i]
    <3>1. limit \in Nat /\ limit <= Len(rows)
      BY <1>0, <1>1
    <3> HIDE DEF rows
    <3>2. first \in Seq(S) /\ Len(first) = limit /\ \A i \in 1..limit : first[i] = rows[i]
      BY ONLY <1>1, <3>1, StartFacts
    <3>3. \A i \in 1..limit : i \in 1..N - a
      BY <1>0
    <3> HIDE DEF first
    <3> QED BY <1>1, <3>2, <3>3
  <2>2. ASSUME NEW i \in 1..limit
        PROVE  first[i].height \in Nat \ {e} <=> 0 < i /\ i <= c - a
    <3>1. a + i \in 1..N /\ a + i <= d /\ i \in Nat
      BY <1>0, <1>6
    <3>2. s[a + i].height \in Nat /\ (s[a + i].height = e <=> c < a + i)
      BY <1>6, <3>1 DEF Rising
    <3>3. c < a + i <=> ~(i <= c - a)
      BY <1>0, <1>6, <3>1
    <3> HIDE DEF first, e
    <3> QED BY <2>1, <3>1, <3>2, <3>3
  <2>3. 0 \in Nat /\ c - a \in Nat /\ 0 <= c - a /\ c - a <= Len(first)
    BY <1>0, <1>6, <2>1
  <2>4. Projected!OfHeights(first, Nat \ {e}) = Piece(first, 0, c - a)
    <3>1. \A i \in 1..Len(first) : first[i].height \in Nat \ {e} <=> 0 < i /\ i <= c - a
      BY <2>1, <2>2
    <3> HIDE DEF first, e
    <3>2. first \in Seq(S)
      BY <2>1
    <3> QED BY ONLY <2>3, <3>1, <3>2, PieceKept
  <2>5. Piece(first, 0, c - a) = Piece(s, a, c)
    <3>1. first = Piece(s, a, a + limit)
      <4>1. a + limit \in Nat /\ a <= a + limit /\ a + limit <= N /\ (a + limit) - a = limit
        BY <1>0
      <4>2. Piece(Piece(s, a, N), 0, (a + limit) - a) = Piece(s, a, a + limit)
        BY <1>0, <4>1, PieceOfPiece
      <4> QED BY <4>1, <4>2
    <3>2. Piece(Piece(s, a, a + limit), 0, c - a) = Piece(s, a, c)
      <4>1. a + limit \in Nat /\ c \in Nat /\ a <= c /\ c <= a + limit /\ a + limit <= Len(s)
        BY <1>0, <1>6
      <4> QED BY <1>0, <4>1, PieceOfPiece
    <3> QED BY <3>1, <3>2
  <2> QED BY <1>2, <2>4, <2>5 DEF Projected!WholeBlocks
<1>8. c = a => whole = Piece(s, a, d)
  <2> SUFFICES ASSUME c = a PROVE whole = Piece(s, a, d)
    OBVIOUS
  <2>1. ASSUME NEW i \in 1..Len(rows)
        PROVE  rows[i].height \in {e} <=> 0 < i /\ i <= d - a
    <3>1. rows[i] = s[a + i] /\ a + i \in 1..N /\ i \in Nat /\ 0 < i
      BY <1>0, <1>1
    <3>2. s[a + i].height = e <=> c < a + i /\ a + i <= d
      BY <1>6, <3>1
    <3> HIDE DEF rows, e
    <3> QED BY <1>0, <1>6, <3>1, <3>2
  <2>2. 0 \in Nat /\ d - a \in Nat /\ 0 <= d - a /\ d - a <= Len(rows)
    BY <1>0, <1>1, <1>6
  <2>3. whole = Piece(rows, 0, d - a)
    <3> HIDE DEF rows, e
    <3> QED BY <1>1, <2>1, <2>2, PieceKept
  <2>4. Piece(rows, 0, d - a) = Piece(s, a, d)
    <3>1. a <= d /\ d <= N
      BY <1>0, <1>6
    <3> QED BY <1>0, <1>6, <3>1, PieceOfPiece
  <2> QED BY <2>3, <2>4
<1> HIDE DEF page, whole, first, rows
<1>9. CASE page # <<>>
  <2>1. c # a
    BY <1>0, <1>7, <1>9, PieceFacts
  <2>2. a + 1 \in 1..N /\ s[a + 1].height \in Nat /\ s[a + 1].height >= from
        /\ ~(s[a + 1].height >= e)
    <3>1. a + 1 \in 1..N /\ ~(c < a + 1) /\ a < a + 1
      BY <1>0, <1>6, <2>1
    <3> QED BY <1>4, <3>1 DEF After, Rising
  <2>3. from < e
    BY <1>2, <2>2
  <2>4. page \o Rest(s, e) = Rest(s, from)
    <3>1. Rest(s, e) = Piece(s, c, N)
      BY <1>2, <1>4, RestIsPiece
    <3>2. Piece(s, a, c) \o Piece(s, c, N) = Piece(s, a, N)
      <4>1. a \in Nat /\ c \in Nat /\ N \in Nat /\ a <= c /\ c <= N /\ N <= Len(s)
        BY <1>0, <1>6
      <4> QED BY ONLY <4>1, s \in Seq(S), PiecesJoined
    <3> QED BY <1>0, <1>7, <3>1, <3>2 DEF rows
  <2> QED BY <1>2, <1>3, <1>9, <2>3, <2>4 DEF PageRight
<1>10. CASE page = <<>>
  <2>1. c = a
    <3>1. a \in Nat /\ c \in Nat /\ a <= c /\ c <= Len(s)
      BY <1>0, <1>6
    <3>2. Len(page) = c - a /\ Len(<<>>) = 0
      BY <1>7, <3>1, PieceType
    <3> QED BY <1>10, <3>1, <3>2
  <2>2. CASE e >= tip
    <3>1. d = N
      <4>1. N \in 1..N /\ s[N].height \in Nat /\ s[N].height <= tip
        BY <1>0, <1>2 DEF Rising
      <4>2. ~(s[N].height >= e + 1)
        BY <1>2, <2>2, <4>1
      <4>3. ~(d < N)
        BY <1>5, <4>1, <4>2 DEF After
      <4> QED BY <1>0, <1>6, <4>3
    <3>2. whole = Rest(s, from)
      BY <1>0, <1>8, <2>1, <3>1 DEF rows
    <3> QED BY <1>3, <1>10, <2>2, <3>2 DEF PageRight
  <2>3. CASE ~(e >= tip)
    <3>1. from < e + 1 /\ e + 1 <= tip /\ e + 1 \in Nat
      BY <1>2, <2>3
    <3>2. Rest(s, e + 1) = Piece(s, d, N)
      BY <1>5, <3>1, RestIsPiece
    <3>3. Piece(s, a, d) \o Piece(s, d, N) = Piece(s, a, N)
      <4>1. a \in Nat /\ d \in Nat /\ N \in Nat /\ N <= Len(s) /\ d <= N
        BY <1>0, <1>6
      <4>2. a + limit < d
        BY <1>6
      <4>3. a <= d
        BY ONLY <4>1, <4>2, limit \in Nat
      <4> HIDE DEF N
      <4> QED BY ONLY <4>1, <4>3, s \in Seq(S), PiecesJoined
    <3>4. whole \o Rest(s, e + 1) = Rest(s, from)
      BY <1>0, <1>8, <2>1, <3>2, <3>3 DEF rows
    <3> QED BY <1>3, <1>10, <2>3, <3>1, <3>4 DEF PageRight
  <2> QED BY <2>2, <2>3
<1> QED BY <1>9, <1>10

(* So is every page.                                                       *)
LEMMA EveryPage ==
  ASSUME NEW S, NEW s \in Seq(S), NEW tip \in Nat, Rising(s, tip),
         NEW from \in Nat, NEW limit \in Nat \ {0}
  PROVE  PageRight(s, tip, from, Projected!eventsFrom(s, tip, from, limit))
<1>0. Len(s) \in Nat
  BY LenProperties
<1>1. PICK a : After(s, from, a)
  BY PlaceOfHeight
<1>2. Rest(s, from) = Piece(s, a, Len(s)) /\ a \in Nat /\ a <= Len(s)
  BY <1>0, <1>1, RestIsPiece DEF After
<1>3. CASE from > tip
  <2>1. a = Len(s)
    <3>1. CASE a < Len(s)
      <4>1. Len(s) \in 1..Len(s)
        BY <1>0, <1>2, <3>1
      <4> QED BY <1>1, <1>3, <3>1, <4>1 DEF After, Rising
    <3> QED BY <1>0, <1>2, <3>1
  <2>2. Rest(s, from) = <<>>
    BY <1>2, <2>1, PieceFacts
  <2>3. Projected!eventsFrom(s, tip, from, limit) = [items |-> <<>>, nextHeight |-> None]
    <3>1. Len(Rest(s, from)) <= limit
      BY <2>2
    <3> QED BY <1>3, <2>2, <3>1 DEF Projected!eventsFrom, Rest
  <2> QED BY <2>2, <2>3 DEF PageRight
<1>4. CASE from <= tip /\ Len(s) <= a + limit
  <2>1. Len(Rest(s, from)) = Len(s) - a
    <3> DEFINE N == Len(s)
    <3>1. N \in Nat /\ N <= Len(s) /\ a \in Nat /\ a <= N
      BY <1>0, <1>2
    <3>2. Len(Piece(s, a, N)) = N - a
      <4> HIDE DEF N
      <4> QED BY ONLY <3>1, s \in Seq(S), PieceType
    <3> QED BY <1>2, <3>2
  <2>2. ~(from > tip) /\ Len(Rest(s, from)) <= limit
    BY <1>0, <1>2, <1>4, <2>1
  <2>3. Projected!eventsFrom(s, tip, from, limit)
          = [items |-> Rest(s, from), nextHeight |-> None]
    BY <2>2 DEF Projected!eventsFrom, Rest
  <2> QED BY <2>3 DEF PageRight
<1>5. CASE from <= tip /\ a + limit < Len(s)
  BY <1>1, <1>5, CutPage
<1> QED BY <1>0, <1>2, <1>3, <1>4, <1>5

-----------------------------------------------------------------------------
(* A client that turns the pages.                                          *)
TurnedFrom(g, s, h, limit) ==
  LET page == Projected!eventsFrom(s, Tip, h, limit) IN
  page.items \o (IF page.nextHeight = None \/ page.nextHeight <= h THEN <<>>
                 ELSE g[page.nextHeight])
Turns(g, s, from, limit) == g = [h \in from..MaxHeight + 1 |-> TurnedFrom(g, s, h, limit)]

(* What it gets is the rest of the log, whatever the limit is: the rest is *)
(* what the turning of pages says, and nothing else is.                    *)
LEMMA PagedIsRest ==
  ASSUME NEW S, NEW s \in Seq(S), Tip \in Nat, Tip <= MaxHeight, Rising(s, Tip),
         NEW from \in Nat, from <= MaxHeight, NEW limit \in Nat \ {0}
  PROVE  Paged(s, from, limit) = Rest(s, from)
<1> DEFINE D == from..MaxHeight + 1
           f == [h \in D |-> Rest(s, h)]
           g == CHOOSE h : Turns(h, s, from, limit)
<1>0. MaxHeight \in Nat /\ from \in D /\ D \subseteq Nat
  BY IndexerAssumption
<1>1. ASSUME NEW h \in D, NEW w, \A k \in D : h < k => w[k] = Rest(s, k)
      PROVE  TurnedFrom(w, s, h, limit) = Rest(s, h)
  <2> DEFINE page == Projected!eventsFrom(s, Tip, h, limit)
  <2>0. h \in Nat /\ Rest(s, h) \in Seq(S)
    <3>1. h \in Nat
      BY <1>0
    <3>2. PICK k : After(s, h, k)
      BY <3>1, PlaceOfHeight
    <3>3. Rest(s, h) = Piece(s, k, Len(s))
      BY <3>1, <3>2, RestIsPiece
    <3>4. k \in Nat /\ k <= Len(s) /\ Len(s) \in Nat /\ Len(s) <= Len(s)
      BY <3>2, LenProperties DEF After
    <3> QED BY <3>1, <3>3, <3>4, PieceType
  <2>1. PageRight(s, Tip, h, page)
    BY <2>0, EveryPage
  <2>2. TurnedFrom(w, s, h, limit)
          = page.items \o (IF page.nextHeight = None \/ page.nextHeight <= h THEN <<>>
                           ELSE w[page.nextHeight])
    BY DEF TurnedFrom
  <2> HIDE DEF page
  <2>3. CASE page.nextHeight = None /\ page.items = Rest(s, h)
    <3>1. Rest(s, h) \o <<>> = Rest(s, h)
      BY <2>0, ConcatEmptySeq
    <3> QED BY <2>2, <2>3, <3>1
  <2>4. CASE /\ page.nextHeight \in Nat /\ h < page.nextHeight /\ page.nextHeight <= Tip
             /\ page.items \o Rest(s, page.nextHeight) = Rest(s, h)
    <3> DEFINE next == page.nextHeight
    <3>1. next # None
      BY <2>4, IndexerAssumption
    <3>2. next \in D /\ ~(next <= h)
      BY <1>0, <2>0, <2>4
    <3>3. w[next] = Rest(s, next)
      BY <1>1, <2>4, <3>2
    <3> QED BY <2>2, <2>4, <3>1, <3>2, <3>3
  <2> QED BY <2>1, <2>3, <2>4 DEF PageRight
<1>2. Turns(f, s, from, limit)
  <2>1. \A h \in D : f[h] = Rest(s, h)
    OBVIOUS
  <2>2. f = [h \in D |-> f[h]]
    OBVIOUS
  <2> HIDE DEF f, D
  <2>3. \A h \in D : f[h] = TurnedFrom(f, s, h, limit)
    BY <1>1, <2>1
  <2>4. f = [h \in D |-> TurnedFrom(f, s, h, limit)]
    BY <2>2, <2>3
  <2> QED BY <2>4 DEF Turns, D
<1>3. Turns(g, s, from, limit)
  BY <1>2
<1>4. Paged(s, from, limit) = g[from]
  BY DEF Paged, Turns, TurnedFrom
<1> HIDE DEF g, f
<1>5. \A h \in D : g[h] = TurnedFrom(g, s, h, limit)
  BY <1>3 DEF Turns
<1> DEFINE T == {n \in 0..MaxHeight + 1 : \E h \in D : h = MaxHeight + 1 - n /\ g[h] # Rest(s, h)}
<1>6. T = {}
  <2> SUFFICES ASSUME T # {} PROVE FALSE
    OBVIOUS
  <2>1. PICK n \in T : \A k \in T : n <= k
    <3>1. T \subseteq Nat
      BY <1>0
    <3> HIDE DEF T
    <3> QED BY <3>1, Smallest
  <2>2. PICK h \in D : h = MaxHeight + 1 - n /\ g[h] # Rest(s, h)
    BY <2>1
  <2>3. ASSUME NEW k \in D, h < k PROVE g[k] = Rest(s, k)
    <3> DEFINE m == MaxHeight + 1 - k
    <3>1. m \in 0..MaxHeight + 1 /\ k = MaxHeight + 1 - m /\ ~(n <= m)
      BY <1>0, <2>1, <2>2, <2>3
    <3>2. m \notin T
      BY <2>1, <3>1
    <3> QED BY <3>1, <3>2
  <2>4. TurnedFrom(g, s, h, limit) = Rest(s, h)
    <3> HIDE DEF T, D
    <3> QED BY <1>1, <2>2, <2>3
  <2> QED BY <1>5, <2>2, <2>4
<1>7. g[from] = Rest(s, from)
  <2> DEFINE n == MaxHeight + 1 - from
  <2>1. n \in 0..MaxHeight + 1 /\ from = MaxHeight + 1 - n
    BY <1>0
  <2> QED BY <1>0, <1>6, <2>1
<1> QED BY <1>4, <1>7

-----------------------------------------------------------------------------
(* A block's events after those of the blocks before it.                   *)
LEMMA RisingGrows ==
  ASSUME NEW S, NEW s \in Seq(S), NEW t \in Seq(S), NEW n \in Nat, Rising(s, n),
         \A i \in 1..Len(t) : t[i].height = n + 1
  PROVE  s \o t \in Seq(S) /\ Rising(s \o t, n + 1)
<1> DEFINE u == s \o t
<1>0. Len(s) \in Nat /\ Len(t) \in Nat
  BY LenProperties
<1>1. /\ u \in Seq(S) /\ Len(u) = Len(s) + Len(t)
      /\ \A i \in 1..Len(s) + Len(t) : u[i] = IF i <= Len(s) THEN s[i] ELSE t[i - Len(s)]
  BY ConcatProperties
<1> HIDE DEF u
<1>2. ASSUME NEW i \in 1..Len(u)
      PROVE  /\ i <= Len(s) => i \in 1..Len(s) /\ u[i] = s[i]
             /\ ~(i <= Len(s)) => u[i].height = n + 1
  <2>1. i <= Len(s) => i \in 1..Len(s)
    BY <1>0, <1>1
  <2>2. ~(i <= Len(s)) => i - Len(s) \in 1..Len(t)
    BY <1>0, <1>1
  <2> QED BY <1>1, <2>1, <2>2
<1>3. ASSUME NEW i \in 1..Len(u)
      PROVE  u[i].height \in Nat /\ u[i].height <= n + 1 /\ (i <= Len(s) => u[i].height <= n)
  <2>1. CASE i <= Len(s)
    <3>1. s[i].height \in Nat /\ s[i].height <= n
      BY <1>2, <2>1 DEF Rising
    <3> QED BY <1>2, <2>1, <3>1
  <2>2. CASE ~(i <= Len(s))
    BY <1>2, <2>2
  <2> QED BY <2>1, <2>2
<1>4. ASSUME NEW i \in 1..Len(u), NEW j \in 1..Len(u), i <= j
      PROVE  u[i].height <= u[j].height
  <2>1. CASE j <= Len(s)
    <3>1. i <= Len(s)
      BY <1>0, <1>1, <1>4, <2>1
    <3> QED BY <1>2, <1>4, <2>1, <3>1 DEF Rising
  <2>2. CASE ~(j <= Len(s))
    BY <1>2, <1>3, <2>2
  <2> QED BY <2>1, <2>2
<1>5. Rising(u, n + 1)
  BY <1>3, <1>4 DEF Rising
<1> QED BY <1>1, <1>5 DEF u

(* Blocks of one height after the other make a log in order.               *)
LEMMA FlattenRises ==
  ASSUME NEW S, NEW s \in Seq(Seq(S)), NEW base \in Nat,
         \A i \in 1..Len(s) : \A k \in 1..Len(s[i]) : s[i][k].height = base + i
  PROVE  FlattenSeq(s) \in Seq(S) /\ Rising(FlattenSeq(s), base + Len(s))
<1> DEFINE n == Len(s)
           Right(r, i) == r \in Seq(S) /\ Rising(r, base + i)
<1>0. n \in Nat /\ \A i \in 1..n : s[i] \in Seq(S)
  BY ElementOfSeq
<1>1. Right(<<>>, 0)
  <2>1. <<>> \in Seq(S) /\ Len(<<>>) = 0
    BY EmptySeq
  <2> QED BY <2>1 DEF Rising
<1>2. ASSUME NEW i \in 1..n, NEW r, Right(r, i - 1)
      PROVE  Right(r \o s[i], i)
  <2>1. /\ base + (i - 1) \in Nat /\ (base + (i - 1)) + 1 = base + i
        /\ s[i] \in Seq(S) /\ r \in Seq(S)
    BY <1>0, <1>2
  <2>2. \A k \in 1..Len(s[i]) : s[i][k].height = (base + (i - 1)) + 1
    BY <2>1
  <2>3. r \o s[i] \in Seq(S) /\ Rising(r \o s[i], (base + (i - 1)) + 1)
    BY <1>2, <2>1, <2>2, RisingGrows
  <2> QED BY <2>1, <2>3
<1>3. CASE n = 0
  <2>1. s = <<>>
    BY <1>3
  <2>2. FlattenSeq(s) = <<>>
    BY <2>1 DEF FlattenSeq
  <2> QED BY <1>1, <1>3, <2>2
<1>4. CASE n # 0
  <2>1. PICK g : Flattens(g, s, n) /\ FlattenSeq(s) = g[n]
    BY <1>0, <1>4, FlattenDefined
  <2> HIDE DEF Right, n
  <2> DEFINE T == {i \in 1..n : ~Right(g[i], i)}
  <2>2. T = {}
    <3> SUFFICES ASSUME T # {} PROVE FALSE
      OBVIOUS
    <3>1. PICK j \in T : \A i \in T : j <= i
      <4>1. T \subseteq Nat
        BY <1>0
      <4> HIDE DEF T
      <4> QED BY <4>1, Smallest
    <3>2. j \in 1..n /\ ~Right(g[j], j)
      BY <3>1
    <3>3. g[j] = IF j = 1 THEN s[j] ELSE g[j-1] \o s[j]
      BY <2>1, <3>2 DEF Flattens
    <3>4. CASE j = 1
      <4>1. <<>> \o s[j] = s[j] /\ j - 1 = 0
        BY <1>0, <3>2, <3>4, ConcatEmptySeq
      <4>2. Right(<<>> \o s[j], j)
        BY <1>1, <1>2, <3>2, <4>1
      <4> QED BY <3>2, <3>3, <3>4, <4>1, <4>2
    <3>5. CASE j # 1
      <4>1. j - 1 \in 1..n /\ ~(j <= j - 1)
        BY <1>0, <3>2, <3>5
      <4>2. Right(g[j - 1], j - 1)
        BY <3>1, <4>1
      <4> QED BY <1>2, <3>2, <3>3, <3>5, <4>2
    <3> QED BY <3>4, <3>5
  <2>3. n \in 1..n
    BY <1>0, <1>4
  <2>4. Right(g[n], n)
    BY <2>2, <2>3
  <2> QED BY <2>1, <2>4 DEF Right, n
<1> QED BY <1>3, <1>4

(* The log is in the order of its blocks, which is that of their heights.  *)
LEMMA LoggedRises ==
  ASSUME log \in Seq(Blocks), Linked
  PROVE  Tip \in Nat /\ \E S : Logged \in Seq(S) /\ Rising(Logged, Tip)
<1> DEFINE S == [height : Nat, event : AllEvents]
           entries(block, events) ==
             [k \in DOMAIN events |-> [height |-> Len(block), event |-> events[k]]]
           parts == [i \in DOMAIN log |-> entries(log[i], EventsOf[log[i]])]
<1>0. /\ floor \in Nat /\ Len(log) \in Nat /\ DOMAIN log = 1..Len(log)
      /\ \A i \in 1..Len(log) : log[i] \in Blocks
  BY IndexerAssumption, ElementOfSeq, LenProperties DEF floor
<1>1. ASSUME NEW i \in 1..Len(log)
      PROVE  /\ parts[i] \in Seq(S)
             /\ \A k \in 1..Len(parts[i]) : parts[i][k].height = floor + i
  <2> DEFINE es == EventsOf[log[i]]
  <2>1. es \in Seq(AllEvents) /\ Len(log[i]) = floor + i /\ floor + i \in Nat
    BY <1>0, EventsOfType DEF Linked
  <2>2. parts[i] = entries(log[i], es)
    BY <1>0
  <2> HIDE DEF es, parts
  <2>3. DOMAIN es = 1..Len(es) /\ Len(es) \in Nat /\ \A k \in 1..Len(es) : es[k] \in AllEvents
    BY <2>1, ElementOfSeq, LenProperties
  <2>4. parts[i] = [k \in 1..Len(es) |-> [height |-> floor + i, event |-> es[k]]]
    BY <2>1, <2>2, <2>3
  <2>5. \A k \in 1..Len(es) : [height |-> floor + i, event |-> es[k]] \in S
    BY <2>1, <2>3
  <2> HIDE DEF S
  <2>6. [k \in 1..Len(es) |-> [height |-> floor + i, event |-> es[k]]] \in Seq(S)
    BY <2>3, <2>5, IsASeq
  <2>7. parts[i] \in Seq(S) /\ Len(parts[i]) = Len(es)
    <3>1. DOMAIN parts[i] = 1..Len(es)
      BY <2>4
    <3>2. DOMAIN parts[i] = 1..Len(parts[i]) /\ Len(parts[i]) \in Nat
      BY <2>4, <2>6, LenProperties
    <3> QED BY <2>3, <2>4, <2>6, <3>1, <3>2
  <2> QED BY <2>3, <2>4, <2>7
<1>2. parts \in Seq(Seq(S)) /\ Len(parts) = Len(log)
  <2>1. parts = [i \in 1..Len(log) |-> parts[i]]
    BY <1>0
  <2> HIDE DEF parts, S
  <2>2. [i \in 1..Len(log) |-> parts[i]] \in Seq(Seq(S))
    BY <1>0, <1>1, IsASeq
  <2>3. DOMAIN parts = 1..Len(log) /\ DOMAIN parts = 1..Len(parts) /\ Len(parts) \in Nat
    BY <2>1, <2>2, LenProperties
  <2> QED BY <1>0, <2>1, <2>2, <2>3
<1>3. FlattenSeq(parts) \in Seq(S) /\ Rising(FlattenSeq(parts), floor + Len(parts))
  <2> HIDE DEF parts, S
  <2> QED BY <1>0, <1>1, <1>2, FlattenRises
<1>4. Logged = FlattenSeq(parts)
  BY DEF Logged
<1>5. Tip = floor + Len(parts) /\ Tip \in Nat
  <2> HIDE DEF parts
  <2> QED BY <1>0, <1>2 DEF Tip
<1> HIDE DEF parts, S
<1> QED BY <1>3, <1>4, <1>5

(* A client that reads the log page by page gets each event once, in order,*)
(* whatever was rolled back and however the limit falls on the blocks      *)
(* (eventsFrom in queries.ts).                                             *)
THEOREM LogAlwaysServed == Spec => []LogServed
<1>1. IndexerInv => LogServed
  <2> SUFFICES ASSUME IndexerInv, NEW from \in StartHeight..MaxHeight, NEW limit \in 1..3
               PROVE  Paged(Logged, from, limit)
                        = Projected!OfHeights(Logged, Projected!From(from))
    BY DEF LogServed
  <2>1. log \in Seq(Blocks) /\ Linked
    BY DEF IndexerInv, LogSound
  <2>2. PICK S : Logged \in Seq(S) /\ Rising(Logged, Tip)
    BY <2>1, LoggedRises
  <2>3. from \in Nat /\ from <= MaxHeight /\ limit \in Nat \ {0} /\ MaxHeight \in Nat
    BY IndexerAssumption
  <2>4. Tip \in Nat /\ Tip <= MaxHeight
    <3>1. Len(log) \in Nat /\ Tip \in Nat
      BY <2>1, LoggedRises, LenProperties
    <3>2. CASE Len(log) = 0
      BY <2>3, <3>2, IndexerAssumption DEF Tip, floor
    <3>3. CASE Len(log) # 0
      <4>1. Len(log) \in 1..Len(log) /\ Len(log) \in DOMAIN log
        BY <2>1, <3>1, <3>3, LenProperties
      <4>2. log[Len(log)] \in Blocks /\ Len(log[Len(log)]) = floor + Len(log)
        BY <2>1, <4>1, ElementOfSeq DEF Linked
      <4>3. Len(log[Len(log)]) \in 0..MaxHeight
        BY <4>2, BlockType
      <4> QED BY <3>1, <4>2, <4>3 DEF Tip
    <3> QED BY <3>2, <3>3
  <2> QED BY <2>2, <2>3, <2>4, PagedIsRest DEF Rest
<1> QED
  BY <1>1, IndexerInvariant, PTL
=============================================================================
