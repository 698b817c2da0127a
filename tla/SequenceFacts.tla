---------------------------- MODULE SequenceFacts ----------------------------
(***************************************************************************)
(* Facts about numbers, sequences and folds that the proofs of several     *)
(* components need.  An induction is over a set that is given, since the   *)
(* library's induction theorems take an operator.                          *)
(***************************************************************************)
EXTENDS Integers, Sequences, FiniteSetsExt, SequencesExt, FiniteSetTheorems, SequenceTheorems,
        WellFoundedInduction, TLAPS

\* A set of naturals has a least element.
LEMMA MinOf ==
  ASSUME NEW S, S \subseteq Nat, S # {}
  PROVE  Min(S) \in S /\ \A y \in S : Min(S) <= y
<1> DEFINE R == {ss \in Nat \X Nat : ss[1] < ss[2]}
<1>1. IsWellFoundedOn(R, Nat)
  BY NatLessThanWellFounded, Zenon DEF OpToRel
<1>2. \A x, y \in Nat : ~(<<y, x>> \in R) => x <= y
  OBVIOUS
<1> HIDE DEF R
<1>3. PICK x \in S : \A y \in S : ~(<<y, x>> \in R)
  BY <1>1, WFMin
<1>4. \A y \in S : x <= y
  BY <1>2, <1>3
<1> QED
  BY <1>4, Zenon DEF Min

\* The greatest is the least of the bounds.
LEMMA MaxOf ==
  ASSUME NEW S, S \subseteq Nat, S # {}, NEW n \in Nat, \A y \in S : y <= n
  PROVE  Max(S) \in S /\ \A y \in S : y <= Max(S)
<1> DEFINE Bounds == {u \in Nat : \A y \in S : y <= u}
           m == Min(Bounds)
<1>1. m \in Bounds /\ \A u \in Bounds : m <= u
  <2>1. Bounds \subseteq Nat /\ n \in Bounds
    OBVIOUS
  <2> HIDE DEF Bounds
  <2> QED
    BY <2>1, MinOf
<1>2. m \in Nat /\ \A y \in S : y <= m
  BY <1>1
<1>3. m \in S
  <2>1. SUFFICES ASSUME m \notin S PROVE FALSE
    OBVIOUS
  <2> HIDE DEF m
  <2>2. \A y \in S : y \in Nat /\ y < m
    BY <1>2, <2>1
  <2>3. m - 1 \in Nat /\ \A y \in S : y <= m - 1
    <3>1. PICK y \in S : TRUE
      OBVIOUS
    <3>2. m > 0
      BY <1>2, <2>2, <3>1
    <3> QED
      BY <1>2, <2>2, <3>2
  <2>4. m <= m - 1
    BY <1>1, <2>3
  <2> QED
    BY <1>2, <2>4
<1> HIDE DEF m
<1>4. \A y \in S : m >= y
  BY <1>2
<1>5. Max(S) \in S /\ \A y \in S : Max(S) >= y
  BY <1>3, <1>4, Zenon DEF Max
<1> QED
  BY <1>5

LEMMA MaxOfFirst ==
  ASSUME NEW n \in Nat, n > 0
  PROVE  Max(1 .. n) = n /\ (1 .. n) \ {n} = 1 .. n - 1
<1>1. 1 .. n \subseteq Nat /\ n \in 1 .. n /\ \A y \in 1 .. n : y <= n
  OBVIOUS
<1>2. Max(1 .. n) \in 1 .. n /\ \A y \in 1 .. n : y <= Max(1 .. n)
  BY <1>1, MaxOf
<1>3. Max(1 .. n) = n
  BY <1>1, <1>2
<1> QED
  BY <1>3

\* A set that has 0, and the successor of each natural it has, has them all.
LEMMA Induct ==
  ASSUME NEW S, 0 \in S, \A n \in Nat : n \in S => n + 1 \in S
  PROVE  Nat \subseteq S
<1> DEFINE Q == {n \in Nat : n \notin S}
<1>1. SUFFICES ASSUME Q # {} PROVE FALSE
  OBVIOUS
<1>2. PICK m \in Q : \A n \in Q : m <= n
  <2>1. Q \subseteq Nat
    OBVIOUS
  <2> HIDE DEF Q
  <2> QED
    BY <1>1, <2>1, MinOf
<1>3. m - 1 \in Nat /\ m - 1 \notin Q
  BY <1>2
<1> QED
  BY <1>2, <1>3

\* A set that has the empty sequence, and with a sequence all that are one
\* longer, has all sequences.
LEMMA InductSeq ==
  ASSUME NEW D, NEW S, << >> \in S, \A p \in Seq(D), d \in D : p \in S => Append(p, d) \in S
  PROVE  Seq(D) \subseteq S
<1> DEFINE N == {n \in Nat : \A p \in Seq(D) : Len(p) = n => p \in S}
<1>1. 0 \in N
  BY EmptySeq
<1>2. ASSUME NEW n \in Nat, n \in N PROVE n + 1 \in N
  <2>1. ASSUME NEW p \in Seq(D), Len(p) = n + 1 PROVE p \in S
    <3>1. p # << >>
      BY <2>1
    <3>2. PICK q \in Seq(D), d \in D : p = Append(q, d)
      BY <3>1, SequenceEmptyOrAppend
    <3>3. Len(q) = n
      BY <2>1, <3>2, AppendProperties, LenProperties
    <3> QED
      BY <1>2, <3>2, <3>3
  <2> QED
    BY <2>1
<1>3. Nat \subseteq N
  <2> HIDE DEF N
  <2> QED
    BY <1>1, <1>2, Induct
<1> QED
  BY <1>3, LenProperties

-----------------------------------------------------------------------------
(* Folds.  The community modules fold a sequence by a recursive function   *)
(* over sets of positions; what it is at the first k of them is a run.     *)

\* h takes what a fold has, and an element, to what it has then.
IsStep(h, V, D) == h \in [V \X D -> V]

\* g is what a fold of path with h is after each of its elements.
Folding(g, V, h, b, path) ==
  /\ g \in [0 .. Len(path) -> V]
  /\ g[0] = b
  /\ \A k \in 1 .. Len(path) : g[k] = h[<<g[k - 1], path[k]>>]

\* What the fold does with a set of positions.
FoldAt(x, h, b, path, s) == IF s = {} THEN b ELSE h[<<x[s \ {Max(s)}], path[Max(s)]>>]

\* x does that, with the sets of the first n positions.
FoldTo(x, V, h, b, path, n) ==
  /\ x \in [SUBSET (1 .. n) -> V]
  /\ \A s \in SUBSET (1 .. n) : x[s] = FoldAt(x, h, b, path, s)

\* x does, where it stays in V.
Obeys(x, V, h, b, path) ==
  /\ x[{}] = b
  /\ \A s \in SUBSET DOMAIN path :
       s # {} /\ x[s \ {Max(s)}] \in V => x[s] = FoldAt(x, h, b, path, s)

\* With all positions it has what the run g ends with.
EndsAs(x, g, path) == x[DOMAIN path] = g[Len(path)]

LEMMA FoldExists ==
  ASSUME NEW V, NEW D, NEW h, IsStep(h, V, D), NEW b \in V, NEW path \in Seq(D)
  PROVE  \E x : FoldTo(x, V, h, b, path, Len(path))
<1> DEFINE N == {n \in Nat : n <= Len(path) => \E x : FoldTo(x, V, h, b, path, n)}
<1>0. Len(path) \in Nat /\ DOMAIN path = 1 .. Len(path) /\ \A k \in 1 .. Len(path) : path[k] \in D
  BY LenProperties, ElementOfSeq
<1>1. 0 \in N
  <2> DEFINE x == [s \in SUBSET (1 .. 0) |-> b]
  <2>1. \A s \in SUBSET (1 .. 0) : s = {}
    OBVIOUS
  <2>2. FoldTo(x, V, h, b, path, 0)
    BY <2>1 DEF FoldAt, FoldTo
  <2> QED
    BY <2>2
<1>2. ASSUME NEW n \in Nat, n \in N PROVE n + 1 \in N
  <2>1. SUFFICES ASSUME n + 1 <= Len(path) PROVE \E x : FoldTo(x, V, h, b, path, n + 1)
    OBVIOUS
  <2>2. PICK x : FoldTo(x, V, h, b, path, n)
    BY <1>0, <1>2, <2>1
  <2>0. /\ x \in [SUBSET (1 .. n) -> V]
        /\ \A s \in SUBSET (1 .. n) : x[s] = FoldAt(x, h, b, path, s)
    BY <2>2 DEF FoldTo
  <2> DEFINE y == [s \in SUBSET (1 .. n + 1) |->
                     IF n + 1 \in s THEN h[<<x[s \ {n + 1}], path[n + 1]>>] ELSE x[s]]
  <2>3. \A s \in SUBSET (1 .. n + 1) : /\ s \ {n + 1} \in SUBSET (1 .. n)
                                       /\ n + 1 \notin s => s \in SUBSET (1 .. n)
    OBVIOUS
  <2>4. ASSUME NEW s \in SUBSET (1 .. n + 1) PROVE y[s] \in V /\ y[s] = FoldAt(y, h, b, path, s)
    <3>1. CASE n + 1 \in s
      <4>1. Max(s) = n + 1
        <5>1. s \subseteq Nat /\ s # {} /\ n + 1 \in Nat /\ \A k \in s : k <= n + 1
          BY <2>4, <3>1
        <5>2. Max(s) \in s /\ \A k \in s : k <= Max(s)
          BY <5>1, MaxOf
        <5>3. Max(s) \in Nat /\ Max(s) <= n + 1 /\ n + 1 <= Max(s)
          BY <3>1, <5>1, <5>2
        <5> QED
          BY <5>3
      <4>2. y[s \ {n + 1}] = x[s \ {n + 1}] /\ x[s \ {n + 1}] \in V
        BY <2>0, <2>3
      <4>3. path[n + 1] \in D
        BY <1>0, <2>1
      <4>4. y[s] = h[<<x[s \ {n + 1}], path[n + 1]>>]
        BY <3>1
      <4> HIDE DEF y
      <4> QED
        BY <3>1, <4>1, <4>2, <4>3, <4>4 DEF FoldAt, IsStep
    <3>2. CASE n + 1 \notin s
      <4>1. s \in SUBSET (1 .. n) /\ y[s] = x[s]
        BY <2>3, <3>2
      <4>2. x[s] \in V /\ x[s] = FoldAt(x, h, b, path, s)
        BY <2>0, <4>1
      <4>3. s # {} => y[s \ {Max(s)}] = x[s \ {Max(s)}]
        <5>1. s \ {Max(s)} \in SUBSET (1 .. n + 1) /\ n + 1 \notin s \ {Max(s)}
          BY <3>2
        <5> QED
          BY <5>1
      <4> HIDE DEF y
      <4> QED
        BY <4>1, <4>2, <4>3 DEF FoldAt
    <3> QED
      BY <3>1, <3>2
  <2>5. y \in [SUBSET (1 .. n + 1) -> V]
    <3>1. \A s \in SUBSET (1 .. n + 1) : y[s] \in V
      BY <2>4
    <3> QED
      BY <3>1
  <2>6. FoldTo(y, V, h, b, path, n + 1)
    <3> HIDE DEF y
    <3> QED
      BY <2>4, <2>5 DEF FoldTo
  <2> QED
    BY <2>6
<1>3. Nat \subseteq N
  <2> HIDE DEF N
  <2> QED
    BY <1>1, <1>2, Induct
<1> QED
  BY <1>0, <1>3

\* The last of some positions holds an element.
LEMMA LastPosition ==
  ASSUME NEW D, NEW path \in Seq(D), NEW s \in SUBSET DOMAIN path, s # {}
  PROVE  Max(s) \in s /\ path[Max(s)] \in D
<1>1. Len(path) \in Nat /\ DOMAIN path = 1 .. Len(path)
  BY LenProperties
<1>2. s \subseteq Nat /\ \A k \in s : k <= Len(path)
  BY <1>1
<1>3. Max(s) \in s
  BY <1>1, <1>2, MaxOf
<1> QED
  BY <1>1, <1>3, ElementOfSeq

\* Whatever obeys the fold's equation as long as it stays in V is such a run.
LEMMA FoldRun ==
  ASSUME NEW V, NEW D, NEW h, IsStep(h, V, D), NEW b \in V, NEW path \in Seq(D),
         NEW x, Obeys(x, V, h, b, path)
  PROVE  \E g : Folding(g, V, h, b, path) /\ EndsAs(x, g, path)
<1> DEFINE g == [k \in 0 .. Len(path) |-> x[1 .. k]]
           N == {n \in Nat : n <= Len(path) =>
                   g[n] \in V /\ (n > 0 => g[n] = h[<<g[n - 1], path[n]>>])}
<1>0. Len(path) \in Nat /\ DOMAIN path = 1 .. Len(path) /\ \A k \in 1 .. Len(path) : path[k] \in D
  BY LenProperties, ElementOfSeq
<1>1. g[0] = b
  <2>1. 1 .. 0 = {} /\ 0 \in 0 .. Len(path)
    BY <1>0
  <2> QED
    BY <2>1 DEF Obeys
<1>2. 0 \in N
  BY <1>1
<1>3. ASSUME NEW n \in Nat, n \in N PROVE n + 1 \in N
  <2>1. SUFFICES ASSUME n + 1 <= Len(path)
                 PROVE  g[n + 1] \in V /\ g[n + 1] = h[<<g[n], path[n + 1]>>]
    <3> HIDE DEF g
    <3>1. (n + 1) - 1 = n
      OBVIOUS
    <3> QED
      BY <2>1, <3>1
  <2>2. Max(1 .. n + 1) = n + 1 /\ (1 .. n + 1) \ {n + 1} = 1 .. n
    BY MaxOfFirst
  <2>3. g[n] = x[1 .. n] /\ g[n + 1] = x[1 .. n + 1] /\ g[n] \in V
    BY <1>0, <1>3, <2>1
  <2>4. 1 .. n + 1 \in SUBSET DOMAIN path /\ 1 .. n + 1 # {} /\ path[n + 1] \in D
    <3> HIDE DEF g
    <3>1. n + 1 \in 1 .. n + 1 /\ n + 1 \in 1 .. Len(path)
      BY <1>0, <2>1
    <3>2. 1 .. n + 1 \subseteq 1 .. Len(path)
      BY <1>0, <2>1
    <3> QED
      BY <1>0, <3>1, <3>2
  <2> HIDE DEF g
  <2>5. (1 .. n + 1) \ {Max(1 .. n + 1)} = 1 .. n
    BY <2>2
  <2>6. x[1 .. n + 1] = FoldAt(x, h, b, path, 1 .. n + 1)
    BY <2>3, <2>4, <2>5 DEF Obeys
  <2> QED
    BY <2>2, <2>3, <2>4, <2>6 DEF FoldAt, IsStep
<1>4. Nat \subseteq N
  <2> HIDE DEF N
  <2> QED
    BY <1>2, <1>3, Induct
<1>5. Folding(g, V, h, b, path)
  <2>1. ASSUME NEW k \in 0 .. Len(path) PROVE g[k] \in V
    <3> HIDE DEF g
    <3>1. k \in N /\ k <= Len(path)
      <4> HIDE DEF N
      <4> QED
        BY <1>0, <1>4
    <3> QED
      BY <3>1
  <2>2. \A k \in 1 .. Len(path) : g[k] = h[<<g[k - 1], path[k]>>]
    <3> HIDE DEF g
    <3> QED
      BY <1>0, <1>4
  <2> QED
    BY <1>1, <2>1, <2>2 DEF Folding
<1>6. EndsAs(x, g, path)
  BY <1>0 DEF EndsAs
<1> QED
  BY <1>5, <1>6

\* p and q begin with the same m elements.
Alike(p, q, m) == \A k \in 1 .. m : p[k] = q[k]

\* Two runs over sequences that begin alike begin alike.
LEMMA RunsAgree ==
  ASSUME NEW V, NEW D, NEW h, NEW b, NEW p \in Seq(D), NEW q \in Seq(D),
         NEW f, Folding(f, V, h, b, p), NEW g, Folding(g, V, h, b, q),
         NEW m \in Nat, m <= Len(p), m <= Len(q), Alike(p, q, m)
  PROVE  f[m] = g[m]
<1> DEFINE N == {n \in Nat : n <= m => f[n] = g[n]}
<1>0. Len(p) \in Nat /\ Len(q) \in Nat
  BY LenProperties
<1>1. 0 \in N
  BY DEF Folding
<1>2. ASSUME NEW n \in Nat, n \in N PROVE n + 1 \in N
  <2>1. SUFFICES ASSUME n + 1 <= m PROVE f[n + 1] = g[n + 1]
    OBVIOUS
  <2>2. f[n] = g[n]
    BY <1>2, <2>1
  <2>3. n + 1 \in 1 .. Len(p) /\ n + 1 \in 1 .. Len(q) /\ p[n + 1] = q[n + 1] /\ (n + 1) - 1 = n
    BY <1>0, <2>1 DEF Alike
  <2> QED
    BY <2>2, <2>3 DEF Folding
<1>3. Nat \subseteq N
  <2> HIDE DEF N
  <2> QED
    BY <1>1, <1>2, Induct
<1> QED
  BY <1>3

\* q is p and one element more.
OneMore(q, p, d) == q = Append(p, d)

LEMMA OneMoreAlike ==
  ASSUME NEW D, NEW p \in Seq(D), NEW d \in D, NEW q, OneMore(q, p, d)
  PROVE  q \in Seq(D) /\ Len(q) = Len(p) + 1 /\ q[Len(q)] = d /\ Alike(p, q, Len(p))
  BY AppendProperties, LenProperties DEF OneMore, Alike

\* The run over a sequence that is one longer ends one step further.
LEMMA RunAppend ==
  ASSUME NEW V, NEW D, NEW h, NEW b, NEW p \in Seq(D), NEW d \in D,
         NEW q, OneMore(q, p, d), NEW f, Folding(f, V, h, b, p), NEW g, Folding(g, V, h, b, q)
  PROVE  /\ f[Len(p)] \in V
         /\ g[Len(q)] = h[<<f[Len(p)], d>>]
<1> DEFINE n == Len(p)
<1>1. n \in Nat /\ q \in Seq(D) /\ Len(q) = n + 1 /\ q[n + 1] = d /\ Alike(p, q, n)
  BY OneMoreAlike, LenProperties
<1>2. f[n] = g[n]
  <2>1. n \in Nat /\ n <= Len(p) /\ n <= Len(q)
    BY <1>1
  <2> HIDE DEF n
  <2> QED
    BY <1>1, <2>1, RunsAgree
<1>3. g[n + 1] = h[<<g[n], d>>]
  <2>1. n + 1 \in 1 .. Len(q) /\ (n + 1) - 1 = n
    BY <1>1
  <2>2. g[n + 1] = h[<<g[(n + 1) - 1], q[n + 1]>>]
    BY <2>1 DEF Folding
  <2> QED
    BY <1>1, <2>1, <2>2
<1>4. f[n] \in V
  BY <1>1 DEF Folding
<1> QED
  BY <1>1, <1>2, <1>3, <1>4
=============================================================================
