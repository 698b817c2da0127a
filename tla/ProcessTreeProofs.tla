------------------------- MODULE ProcessTreeProofs -------------------------
(***************************************************************************)
(* Proofs about ProcessTree, for any number of tasks, calls and signals.   *)
(***************************************************************************)
EXTENDS ProcessTreeProperties, SequenceTheorems, FiniteSetTheorems, WellFoundedInduction, TLAPS

-----------------------------------------------------------------------------
(* Lists                                                                   *)

LEMMA LeastOf ==
  ASSUME NEW S, S \subseteq Nat, S # {}
  PROVE  Min(S) \in S /\ \A y \in S : Min(S) <= y
<1> DEFINE R == {ss \in Nat \X Nat : ss[1] < ss[2]}
<1>1. IsWellFoundedOn(R, Nat)
  BY NatLessThanWellFounded, Zenon DEF OpToRel
<1>2. \A x, y \in Nat : ~(<<y, x>> \in R) => x <= y
  OBVIOUS
<1> HIDE DEF R
<1>3. PICK x \in S : \A y \in S : ~(<<y, x>> \in R)
  BY <1>1, WFMin
<1>4. \A y \in S : x <= y
  BY <1>2, <1>3
<1> QED
  BY <1>4, Zenon DEF Min

LEMMA InFront ==
  ASSUME NEW s \in Seq(Tasks), NEW e \in Tasks
  PROVE  /\ <<e>> \o s \in Seq(Tasks) /\ Len(<<e>> \o s) = Len(s) + 1
         /\ (<<e>> \o s)[1] = e
         /\ \A i \in 1 .. Len(s) : (<<e>> \o s)[i + 1] = s[i]
<1>1. <<e>> \in Seq(Tasks) /\ Len(<<e>>) = 1 /\ <<e>>[1] = e
  OBVIOUS
<1>2. Len(s) \in Nat
  OBVIOUS
<1>3. /\ <<e>> \o s \in Seq(Tasks) /\ Len(<<e>> \o s) = 1 + Len(s)
      /\ \A i \in 1 .. 1 + Len(s) : (<<e>> \o s)[i] = IF i <= 1 THEN <<e>>[i] ELSE s[i - 1]
  BY <1>1, ConcatProperties
<1> QED
  BY <1>1, <1>2, <1>3

LEMMA AfterIsList ==
  ASSUME NEW s \in Seq(Tasks), NEW e
  PROVE  After(s, e) \in Seq(Tasks)
<1> DEFINE I == {i \in 1 .. Len(s) : s[i] = e}
           n == IF I # {} THEN Min(I) ELSE 0
<1>1. n \in 0 .. Len(s)
  <2>1. Len(s) \in Nat /\ I \subseteq Nat /\ I \subseteq 1 .. Len(s)
    OBVIOUS
  <2>2. CASE I = {}
    BY <2>1, <2>2
  <2>3. CASE I # {}
    <3> HIDE DEF I
    <3>1. Min(I) \in I
      BY <2>1, <2>3, LeastOf
    <3>2. Min(I) \in 1 .. Len(s)
      BY <2>1, <3>1
    <3> QED
      BY <2>1, <2>3, <3>2
  <2> QED
    BY <2>2, <2>3
<1>2. After(s, e) = SubSeq(s, n + 1, Len(s))
  BY DEF After, SelectInSeq
<1> HIDE DEF n
<1>3. \A i \in n + 1 .. Len(s) : s[i] \in Tasks
  BY <1>1
<1>4. n + 1 \in Int /\ Len(s) \in Int
  BY <1>1
<1> QED
  BY <1>2, <1>3, <1>4, SubSeqProperties

(* What is on a list.                                                      *)
In(s, x) == \E i \in 1 .. Len(s) : s[i] = x
Distinct(s) == \A i, j \in 1 .. Len(s) : s[i] = s[j] => i = j

\* A list without one of its elements.
LEMMA Removed ==
  ASSUME NEW s \in Seq(Tasks), NEW e, In(s, e)
  PROVE  \E n \in 1 .. Len(s) :
           /\ s[n] = e
           /\ RemoveFirst(s, e) \in Seq(Tasks) /\ Len(RemoveFirst(s, e)) = Len(s) - 1
           /\ \A i \in 1 .. Len(s) - 1 : RemoveFirst(s, e)[i] = IF i < n THEN s[i] ELSE s[i + 1]
<1> DEFINE I == {i \in 1 .. Len(s) : s[i] = e}
           n == Min(I)
           front == SubSeq(s, 1, n - 1)
           back == SubSeq(s, n + 1, Len(s))
<1>0. Len(s) \in Nat
  OBVIOUS
<1>1. n \in 1 .. Len(s) /\ s[n] = e
  <2>1. I \subseteq Nat /\ I # {}
    BY DEF In
  <2>2. Min(I) \in I
    <3> HIDE DEF I
    <3> QED BY <2>1, LeastOf
  <2> QED
    BY <2>2
<1>2. RemoveFirst(s, e) = front \o back
  <2>0. I # {}
    BY <1>1
  <2>1. SelectInSeq(s, LAMBDA v : v = e) = n
    BY <2>0 DEF SelectInSeq
  <2> QED
    BY <1>1, <2>1 DEF RemoveFirst, RemoveAt
<1> HIDE DEF n
<1>3. front \in Seq(Tasks) /\ Len(front) = n - 1 /\ \A i \in 1 .. n - 1 : front[i] = s[i]
  <2>1. 1 \in Int /\ n - 1 \in Int /\ \A i \in 1 .. n - 1 : s[i] \in Tasks
    BY <1>0, <1>1
  <2>2. /\ SubSeq(s, 1, n - 1) \in Seq(Tasks)
        /\ Len(SubSeq(s, 1, n - 1)) = IF 1 <= n - 1 THEN n - 1 - 1 + 1 ELSE 0
        /\ \A i \in 1 .. n - 1 - 1 + 1 : SubSeq(s, 1, n - 1)[i] = s[1 + i - 1]
    BY <2>1, SubSeqProperties
  <2> QED
    BY <1>1, <2>2
<1>4. back \in Seq(Tasks) /\ Len(back) = Len(s) - n /\ \A i \in 1 .. Len(s) - n : back[i] = s[n + i]
  <2>1. n + 1 \in Int /\ Len(s) \in Int /\ \A i \in n + 1 .. Len(s) : s[i] \in Tasks
    BY <1>0, <1>1
  <2>2. /\ SubSeq(s, n + 1, Len(s)) \in Seq(Tasks)
        /\ Len(SubSeq(s, n + 1, Len(s))) = IF n + 1 <= Len(s) THEN Len(s) - (n + 1) + 1 ELSE 0
        /\ \A i \in 1 .. Len(s) - (n + 1) + 1 : SubSeq(s, n + 1, Len(s))[i] = s[n + 1 + i - 1]
    BY <2>1, SubSeqProperties
  <2> QED
    BY <1>0, <1>1, <2>2
<1> HIDE DEF front, back
<1>5. /\ front \o back \in Seq(Tasks) /\ Len(front \o back) = Len(front) + Len(back)
      /\ \A i \in 1 .. Len(front) + Len(back) :
           (front \o back)[i] = IF i <= Len(front) THEN front[i] ELSE back[i - Len(front)]
  BY <1>3, <1>4, ConcatProperties
<1>6. ASSUME NEW i \in 1 .. Len(s) - 1
      PROVE  (front \o back)[i] = IF i < n THEN s[i] ELSE s[i + 1]
  <2>1. i \in 1 .. Len(front) + Len(back)
    BY <1>0, <1>1, <1>3, <1>4
  <2>2. CASE i < n
    BY <1>0, <1>1, <1>3, <1>5, <2>1, <2>2
  <2>3. CASE ~(i < n)
    <3>1. i - Len(front) \in 1 .. Len(s) - n /\ n + (i - Len(front)) = i + 1 /\ ~(i <= Len(front))
      BY <1>0, <1>1, <1>3, <2>3
    <3>2. (front \o back)[i] = back[i - Len(front)]
      BY <1>5, <2>1, <3>1
    <3>3. back[i - Len(front)] = s[n + (i - Len(front))]
      BY <1>4, <3>1
    <3>4. (front \o back)[i] = s[i + 1]
      BY <3>1, <3>2, <3>3
    <3> QED
      BY <2>3, <3>4
  <2> QED
    BY <2>2, <2>3
<1>7. Len(front \o back) = Len(s) - 1
  BY <1>0, <1>1, <1>3, <1>4, <1>5
<1>8. RemoveFirst(s, e) \in Seq(Tasks) /\ Len(RemoveFirst(s, e)) = Len(s) - 1
  BY <1>2, <1>5, <1>7
<1> QED
  BY <1>1, <1>2, <1>6, <1>8

\* The first child a call selects, or none.
LEMMA FirstFound ==
  ASSUME NEW t \in Tasks, NEW w, children[t] \in Seq(Tasks)
  PROVE  \/ /\ Found(t, w) = None
            /\ \A i \in 1 .. Len(children[t]) : ~Selects(t, w, children[t][i])
         \/ \E i \in 1 .. Len(children[t]) :
              /\ Found(t, w) = children[t][i] /\ Found(t, w) \in Tasks
              /\ Selects(t, w, children[t][i])
              /\ \A j \in 1 .. i - 1 : ~Selects(t, w, children[t][j])
<1> DEFINE I == {i \in 1 .. Len(children[t]) : Selects(t, w, children[t][i])}
           n == IF I # {} THEN Min(I) ELSE 0
<1>0. Len(children[t]) \in Nat
  OBVIOUS
<1>1. Found(t, w) = IF n = 0 THEN None ELSE children[t][n]
  BY DEF Found, SelectInSeq
<1>2. CASE I = {}
  BY <1>1, <1>2
<1>3. CASE I # {}
  <2>1. n \in I /\ \A i \in I : n <= i
    <3>1. I \subseteq Nat
      OBVIOUS
    <3> HIDE DEF I
    <3> QED
      BY <1>3, <3>1, LeastOf
  <2> HIDE DEF n
  <2>2. n \in 1 .. Len(children[t]) /\ Selects(t, w, children[t][n])
    BY <2>1
  <2>3. \A j \in 1 .. n - 1 : ~Selects(t, w, children[t][j])
    BY <1>0, <2>1, <2>2
  <2>4. Found(t, w) = children[t][n] /\ children[t][n] \in Tasks
    BY <1>1, <2>2
  <2> QED
    BY <2>2, <2>3, <2>4
<1> QED
  BY <1>2, <1>3


LEMMA FrontIn ==
  ASSUME NEW s \in Seq(Tasks), NEW e \in Tasks
  PROVE  /\ \A x : In(<<e>> \o s, x) <=> x = e \/ In(s, x)
         /\ Distinct(s) /\ ~In(s, e) => Distinct(<<e>> \o s)
<1> DEFINE r == <<e>> \o s
<1>1. /\ Len(s) \in Nat /\ Len(r) = Len(s) + 1 /\ r[1] = e
      /\ \A i \in 1 .. Len(s) : r[i + 1] = s[i]
  BY InFront
<1> HIDE DEF r
<1>2. ASSUME NEW i \in 1 .. Len(r)
      PROVE  i = 1 \/ (i - 1 \in 1 .. Len(s) /\ r[i] = s[i - 1])
  <2>1. CASE i = 1
    BY <2>1
  <2>2. CASE i # 1
    <3>1. i - 1 \in 1 .. Len(s) /\ (i - 1) + 1 = i
      BY <1>1, <2>2
    <3> QED
      BY <1>1, <3>1
  <2> QED
    BY <2>1, <2>2
<1>3. ASSUME NEW x PROVE In(r, x) <=> x = e \/ In(s, x)
  <2>1. ASSUME In(r, x) PROVE x = e \/ In(s, x)
    BY <1>1, <1>2, <2>1 DEF In
  <2>2. In(r, e)
    BY <1>1 DEF In
  <2>3. ASSUME In(s, x) PROVE In(r, x)
    <3>1. PICK i \in 1 .. Len(s) : s[i] = x
      BY <2>3 DEF In
    <3>2. i + 1 \in 1 .. Len(r) /\ r[i + 1] = x
      BY <1>1, <3>1
    <3> QED
      BY <3>2 DEF In
  <2> QED
    BY <2>1, <2>2, <2>3
<1>4. ASSUME Distinct(s), ~In(s, e) PROVE Distinct(r)
  <2>1. ASSUME NEW i \in 1 .. Len(r), NEW j \in 1 .. Len(r), r[i] = r[j] PROVE i = j
    <3>1. CASE i = 1 /\ j # 1
      <4>1. j - 1 \in 1 .. Len(s) /\ s[j - 1] = e
        BY <1>1, <1>2, <2>1, <3>1
      <4> QED
        BY <1>4, <4>1 DEF In
    <3>2. CASE i # 1 /\ j = 1
      <4>1. i - 1 \in 1 .. Len(s) /\ s[i - 1] = e
        BY <1>1, <1>2, <2>1, <3>2
      <4> QED
        BY <1>4, <4>1 DEF In
    <3>3. CASE i # 1 /\ j # 1
      <4>1. i - 1 \in 1 .. Len(s) /\ j - 1 \in 1 .. Len(s) /\ s[i - 1] = s[j - 1]
        BY <1>2, <2>1, <3>3
      <4>2. i - 1 = j - 1
        BY <1>4, <4>1 DEF Distinct
      <4> QED
        BY <1>1, <4>2
    <3> QED
      BY <3>1, <3>2, <3>3
  <2> QED
    BY <2>1 DEF Distinct
<1> QED
  BY <1>3, <1>4 DEF r

LEMMA ConcatIn ==
  ASSUME NEW r \in Seq(Tasks), NEW s \in Seq(Tasks)
  PROVE  /\ r \o s \in Seq(Tasks)
         /\ \A x : In(r \o s, x) <=> In(r, x) \/ In(s, x)
         /\ Distinct(r) /\ Distinct(s) /\ (\A x : ~(In(r, x) /\ In(s, x))) => Distinct(r \o s)
<1> DEFINE q == r \o s
           n == Len(r)
<1>1. /\ q \in Seq(Tasks) /\ Len(q) = n + Len(s) /\ n \in Nat /\ Len(s) \in Nat
      /\ \A i \in 1 .. n + Len(s) : q[i] = IF i <= n THEN r[i] ELSE s[i - n]
  BY ConcatProperties
<1> HIDE DEF q, n
<1>2. ASSUME NEW i \in 1 .. Len(q)
      PROVE  \/ i \in 1 .. n /\ q[i] = r[i]
             \/ ~(i <= n) /\ i - n \in 1 .. Len(s) /\ q[i] = s[i - n]
  BY <1>1
<1>3. ASSUME NEW x PROVE In(q, x) <=> In(r, x) \/ In(s, x)
  <2>1. ASSUME In(q, x) PROVE In(r, x) \/ In(s, x)
    BY <1>2, <2>1 DEF In, n
  <2>2. ASSUME In(r, x) PROVE In(q, x)
    <3>1. PICK i \in 1 .. n : r[i] = x
      BY <2>2 DEF In, n
    <3>2. i \in 1 .. Len(q) /\ q[i] = x
      BY <1>1, <3>1
    <3> QED
      BY <3>2 DEF In
  <2>3. ASSUME In(s, x) PROVE In(q, x)
    <3>1. PICK i \in 1 .. Len(s) : s[i] = x
      BY <2>3 DEF In
    <3>2. i + n \in 1 .. Len(q) /\ ~(i + n <= n) /\ (i + n) - n = i
      BY <1>1
    <3>3. q[i + n] = x
      BY <1>1, <3>1, <3>2
    <3> QED
      BY <3>2, <3>3 DEF In
  <2> QED
    BY <2>1, <2>2, <2>3
<1>4. ASSUME Distinct(r), Distinct(s), \A x : ~(In(r, x) /\ In(s, x))
      PROVE  Distinct(q)
  <2>1. ASSUME NEW i \in 1 .. Len(q), NEW j \in 1 .. Len(q), q[i] = q[j] PROVE i = j
    <3>1. CASE i \in 1 .. n /\ q[i] = r[i] /\ j \in 1 .. n /\ q[j] = r[j]
      BY <1>4, <2>1, <3>1 DEF Distinct, n
    <3>2. ASSUME NEW k \in 1 .. n, NEW m \in 1 .. Len(s), r[k] = s[m] PROVE FALSE
      <4>1. In(r, r[k]) /\ In(s, r[k])
        BY <3>2 DEF In, n
      <4> QED
        BY <1>4, <4>1
    <3>3. CASE i - n \in 1 .. Len(s) /\ q[i] = s[i - n] /\ j - n \in 1 .. Len(s) /\ q[j] = s[j - n]
      <4>1. i - n = j - n
        BY <1>4, <2>1, <3>3 DEF Distinct
      <4> QED
        BY <1>1, <4>1
    <3> QED
      BY <1>2, <2>1, <3>1, <3>2, <3>3
  <2> QED
    BY <2>1 DEF Distinct
<1> QED
  BY <1>1, <1>3, <1>4 DEF q

LEMMA RemovedIn ==
  ASSUME NEW s \in Seq(Tasks), NEW e, In(s, e), Distinct(s)
  PROVE  /\ RemoveFirst(s, e) \in Seq(Tasks) /\ Distinct(RemoveFirst(s, e))
         /\ \A x : In(RemoveFirst(s, e), x) <=> In(s, x) /\ x # e
<1> DEFINE r == RemoveFirst(s, e)
<1>0. Len(s) \in Nat
  OBVIOUS
<1>1. PICK n \in 1 .. Len(s) :
        /\ s[n] = e /\ r \in Seq(Tasks) /\ Len(r) = Len(s) - 1
        /\ \A i \in 1 .. Len(s) - 1 : r[i] = IF i < n THEN s[i] ELSE s[i + 1]
  BY Removed
<1> HIDE DEF r
<1>2. ASSUME NEW i \in 1 .. Len(r)
      PROVE  \/ i < n /\ i \in 1 .. Len(s) /\ r[i] = s[i]
             \/ ~(i < n) /\ i + 1 \in 1 .. Len(s) /\ i + 1 # n /\ r[i] = s[i + 1]
  BY <1>0, <1>1
<1>3. Distinct(r)
  <2>1. ASSUME NEW i \in 1 .. Len(r), NEW j \in 1 .. Len(r), r[i] = r[j] PROVE i = j
    BY <1>0, <1>1, <1>2, <2>1 DEF Distinct
  <2> QED
    BY <2>1 DEF Distinct
<1>4. ASSUME NEW x PROVE In(r, x) <=> In(s, x) /\ x # e
  <2>1. ASSUME In(r, x) PROVE In(s, x) /\ x # e
    <3>1. PICK i \in 1 .. Len(r) : r[i] = x
      BY <2>1 DEF In
    <3>2. PICK j \in 1 .. Len(s) : s[j] = x /\ j # n
      BY <1>0, <1>2, <3>1
    <3> QED
      BY <1>1, <3>2 DEF Distinct, In
  <2>2. ASSUME In(s, x), x # e PROVE In(r, x)
    <3>1. PICK j \in 1 .. Len(s) : s[j] = x
      BY <2>2 DEF In
    <3>2. CASE j < n
      <4>1. j \in 1 .. Len(r) /\ r[j] = x
        BY <1>0, <1>1, <3>1, <3>2
      <4> QED
        BY <4>1 DEF In
    <3>3. CASE ~(j < n)
      <4>1. j - 1 \in 1 .. Len(s) - 1 /\ (j - 1) + 1 = j /\ ~(j - 1 < n)
        BY <1>0, <1>1, <2>2, <3>1, <3>3
      <4>2. r[j - 1] = x
        BY <1>1, <3>1, <4>1
      <4> QED
        BY <1>1, <4>1, <4>2 DEF In
    <3> QED
      BY <3>2, <3>3
  <2> QED
    BY <2>1, <2>2
<1> QED
  BY <1>1, <1>3, <1>4 DEF r

LEMMA AfterIn ==
  ASSUME NEW s \in Seq(Tasks), NEW e, In(s, e), Distinct(s)
  PROVE  /\ Distinct(After(s, e))
         /\ \A x : In(After(s, e), x) => In(s, x) /\ x # e
         /\ s[1] = e => \A x : In(s, x) /\ x # e => In(After(s, e), x)
<1> DEFINE I == {i \in 1 .. Len(s) : s[i] = e}
           n == Min(I)
           r == SubSeq(s, n + 1, Len(s))
<1>0. Len(s) \in Nat
  OBVIOUS
<1>1. n \in 1 .. Len(s) /\ s[n] = e
  <2>1. I \subseteq Nat /\ I # {}
    BY DEF In
  <2>2. Min(I) \in I
    <3> HIDE DEF I
    <3> QED BY <2>1, LeastOf
  <2> QED
    BY <2>2
<1>2. After(s, e) = r
  <2>1. SelectInSeq(s, LAMBDA v : v = e) = n
    BY <1>1 DEF SelectInSeq
  <2> QED
    BY <2>1 DEF After
<1> HIDE DEF n
<1>3. Len(r) = Len(s) - n /\ \A i \in 1 .. Len(s) - n : r[i] = s[n + i]
  <2>1. n + 1 \in Int /\ Len(s) \in Int /\ \A i \in n + 1 .. Len(s) : s[i] \in Tasks
    BY <1>0, <1>1
  <2>2. /\ SubSeq(s, n + 1, Len(s)) \in Seq(Tasks)
        /\ Len(SubSeq(s, n + 1, Len(s))) = IF n + 1 <= Len(s) THEN Len(s) - (n + 1) + 1 ELSE 0
        /\ \A i \in 1 .. Len(s) - (n + 1) + 1 : SubSeq(s, n + 1, Len(s))[i] = s[n + 1 + i - 1]
    BY <2>1, SubSeqProperties
  <2> QED
    BY <1>0, <1>1, <2>2
<1> HIDE DEF r
<1>4. ASSUME NEW i \in 1 .. Len(r)
      PROVE  n + i \in 1 .. Len(s) /\ n + i # n /\ r[i] = s[n + i]
  BY <1>0, <1>1, <1>3
<1>5. Distinct(r)
  <2>1. ASSUME NEW i \in 1 .. Len(r), NEW j \in 1 .. Len(r), r[i] = r[j] PROVE i = j
    <3>1. n + i = n + j
      BY <1>4, <2>1 DEF Distinct
    <3> QED
      BY <1>1, <3>1
  <2> QED
    BY <2>1 DEF Distinct
<1>6. ASSUME NEW x, In(r, x) PROVE In(s, x) /\ x # e
  BY <1>1, <1>4, <1>6 DEF In, Distinct
<1>7. ASSUME s[1] = e, NEW x, In(s, x), x # e PROVE In(r, x)
  <2>1. n = 1
    BY <1>0, <1>1, <1>7 DEF Distinct
  <2>2. PICK i \in 1 .. Len(s) : s[i] = x
    BY <1>7 DEF In
  <2>3. i - 1 \in 1 .. Len(s) - n /\ r[i - 1] = s[n + (i - 1)]
    BY <1>0, <1>3, <1>7, <2>1, <2>2
  <2> QED
    BY <1>0, <1>3, <2>1, <2>2, <2>3 DEF In
<1> QED
  BY <1>2, <1>5, <1>6, <1>7

LEMMA SetOfList ==
  ASSUME NEW s \in Seq(Tasks)
  PROVE  /\ \A x : x \in ToSet(s) <=> In(s, x)
         /\ Distinct(s) => Cardinality(ToSet(s)) = Len(s)
<1>1. Len(s) \in Nat /\ ToSet(s) = {s[i] : i \in 1 .. Len(s)}
  BY DEF ToSet
<1>2. ASSUME Distinct(s) PROVE Cardinality(ToSet(s)) = Len(s)
  <2> DEFINE f == [i \in 1 .. Len(s) |-> s[i]]
  <2>1. f \in Bijection(1 .. Len(s), ToSet(s))
    BY <1>1, <1>2 DEF Distinct, Bijection, Injection, Surjection, IsInjective
  <2>2. IsFiniteSet(1 .. Len(s)) /\ Cardinality(1 .. Len(s)) = Len(s)
    BY <1>1, FS_Interval
  <2> HIDE DEF f
  <2> QED
    BY <2>1, <2>2, FS_Bijection DEF ExistsBijection
<1> QED
  BY <1>1, <1>2 DEF In
(* What a thread knows where it stands: whom it is about and what it holds. *)
ExitHolds == {"exit_lock_init", "exit_adopt", "exit_splice", "exit_orphan"}
Exits == ExitHolds \cup {"exit_parent", "exit_notify"}

Holds ==
  \A t \in Tasks :
    /\ pc[t] \in ExitHolds => lock[t] = t
    /\ pc[t] \in {"wait_look", "wait_test"} => lock[t] = t
    /\ pc[t] \in {"exit_adopt", "exit_splice"} => lock[init_task] = t
    /\ pc[t] \in {"exit_lock_init", "exit_adopt", "exit_splice"} => t # init_task
    /\ pc[t] = "exit_orphan" => t = init_task
    /\ pc[t] = "kill_notify" => lock[peer[t]] = t /\ parent[peer[t]] \in Tasks
    /\ pc[t] \in {"kill", "kill_notify"} => sig[t] \in Signals

Peers ==
  /\ \A t \in Tasks :
       /\ pc[t] \in {"fork_link", "fork_start", "wait_reap", "wait_report", "exit_notify", "kill_notify"} =>
            peer[t] \in Tasks
       /\ pc[t] = "fork_link" => pc[peer[t]] = "unlinked"
       /\ pc[t] = "fork_start" => pc[peer[t]] = "linked"
  /\ \A t, u \in Tasks :
       {pc[t], pc[u]} \subseteq {"fork_link", "fork_start"} /\ peer[t] = peer[u] => t = u

Walks ==
  \A t \in Tasks :
    /\ pc[t] \in {"exit_adopt", "exit_orphan", "wait_look", "wait_test"} =>
         cursor[t] \in 1 .. Len(children[t])
    /\ pc[t] = "exit_lock_init" => cursor[t] = 1 /\ children[t] # <<>>

\* Waiters are counted, and so is as exited whom a signal has ended.
Counted ==
  /\ \A t \in Tasks : waiters[t] = IF pc[t] \in {"wait_sleep", "wait_look", "wait_test"} THEN 1 ELSE 0
  /\ \A t \in asleep : pc[t] = "wait_sleep"
  /\ \A t \in Tasks : termsig[t] # "none" => exited[t] = TRUE

ThreadInv == TypeOK /\ Holds /\ Peers /\ Walks /\ Counted

LEMMA InitThreads == Init => ThreadInv
<1> SUFFICES ASSUME Init PROVE ThreadInv
  OBVIOUS
<1>1. children \in [Tasks -> Seq(Tasks)]
  BY EmptySeq DEF Init
<1>2. TypeOK
  <2>1. /\ init_task \in Tasks /\ MaxKills \in Nat /\ MaxFaults \in Nat
        /\ kills \in 0 .. MaxKills /\ faults \in 0 .. MaxFaults
    BY ProcessTreeAssumption DEF ProcessTreeAssumption, Init
  <2>2. /\ parent \in [Tasks -> Tasks \cup {None}] /\ ppid \in [Tasks -> Tasks \cup {None}]
        /\ lock \in [Tasks -> Tasks \cup {None}] /\ peer \in [Tasks -> Tasks \cup {None}]
        /\ pc \in [Tasks -> Labels] /\ waiters \in [Tasks -> {0, 1}]
    BY <2>1 DEF Init, Labels
  <2>3. call \in [Tasks -> (UNION {WaitCalls[t] : t \in Tasks}) \cup {NoCall}]
    BY DEF Init
  <2>4. exit_status \in [Tasks -> ExitCodes \cup {0}] /\ sig \in [Tasks -> Signals \cup {"none"}]
    BY DEF Init
  <2> QED
    BY <1>1, <2>1, <2>2, <2>3, <2>4 DEF Init, TypeOK
<1>3. Holds /\ Walks /\ Counted
  BY DEF Init, Holds, ExitHolds, Walks, Counted
<1>4. Peers
  BY DEF Init, Peers
<1> QED
  BY <1>2, <1>3, <1>4 DEF ThreadInv

-----------------------------------------------------------------------------
(* fork                                                                    *)

LEMMA ForkCheckThreads ==
  ASSUME ThreadInv, NEW t \in Tasks, ForkCheck(t)
  PROVE  ThreadInv'
<1>1. /\ pc[t] = "run" /\ pc' = [pc EXCEPT ![t] = "fork_alloc"]
      /\ UNCHANGED <<task, flags, sync, local, reaped, bounds, ub>>
  BY DEF ForkCheck, At, On, Goto
<1> USE <1>1 DEF task, flags, sync, local, bounds, ThreadInv, TypeOK
<1>2. TypeOK'
  BY DEF Labels
<1>3. Holds' /\ Walks' /\ Counted'
  BY DEF Holds, ExitHolds, Walks, Counted
<1>4. Peers'
  BY DEF Peers
<1> QED
  BY <1>2, <1>3, <1>4

LEMMA ForkNoMemoryThreads ==
  ASSUME ThreadInv, NEW t \in Tasks, ForkNoMemory(t)
  PROVE  ThreadInv'
<1>1. /\ pc[t] = "fork_alloc" /\ pc' = [pc EXCEPT ![t] = "run"]
      /\ UNCHANGED <<task, flags, sync, local, reaped, bounds, ub>>
  BY DEF ForkNoMemory, At, On, Goto
<1> USE <1>1 DEF task, flags, sync, local, bounds, ThreadInv, TypeOK
<1>2. TypeOK'
  BY DEF Labels
<1>3. Holds' /\ Walks' /\ Counted'
  BY DEF Holds, ExitHolds, Walks, Counted
<1>4. Peers'
  BY DEF Peers
<1> QED
  BY <1>2, <1>3, <1>4

LEMMA ForkAllocThreads ==
  ASSUME ThreadInv, NEW t \in Tasks, NEW c \in Tasks, ForkAlloc(t, c)
  PROVE  ThreadInv'
<1>1. /\ pc[t] = "fork_alloc" /\ pc[c] = "unborn" /\ ppid' = [ppid EXCEPT ![c] = t]
      /\ peer' = [peer EXCEPT ![t] = c]
      /\ pc' = [pc EXCEPT ![t] = "fork_link", ![c] = "unlinked"]
      /\ UNCHANGED <<parent, children, flags, sync, call, cursor, todo, sig, report, reaped, bounds, ub>>
  BY DEF ForkAlloc, At, On
<1> USE <1>1 DEF flags, sync, bounds, ThreadInv, TypeOK
<1>2. TypeOK'
  BY DEF Labels
<1>3. Holds' /\ Walks' /\ Counted'
  BY DEF Holds, ExitHolds, Walks, Counted
<1>4. Peers'
  BY DEF Peers
<1> QED
  BY <1>2, <1>3, <1>4

\* The parent's own thread and the child it is creating.
LEMMA ForkLinkThreads ==
  ASSUME ThreadInv, NEW t \in Tasks, ForkLink(t)
  PROVE  ThreadInv'
<1> DEFINE c == peer[t]
<1>1. /\ pc[t] = "fork_link" /\ parent' = [parent EXCEPT ![c] = t]
      /\ children' = [children EXCEPT ![t] = <<c>> \o children[t]]
      /\ pc' = [pc EXCEPT ![t] = "fork_start", ![c] = "linked"]
      /\ UNCHANGED <<ppid, flags, sync, local, reaped, bounds, ub>>
  BY DEF ForkLink, At, On
<1>2. c \in Tasks /\ pc[c] = "unlinked" /\ c # t
  BY <1>1 DEF ThreadInv, Peers
<1>3. /\ <<c>> \o children[t] \in Seq(Tasks) /\ children[t] \in Seq(Tasks)
      /\ Len(<<c>> \o children[t]) = Len(children[t]) + 1
  BY <1>2, InFront DEF ThreadInv, TypeOK
<1> HIDE DEF c
<1>4. TypeOK'
  BY <1>1, <1>2, <1>3 DEF flags, sync, local, bounds, ThreadInv, TypeOK, Labels
<1>5. Holds' /\ Walks' /\ Counted'
  <2>1. \A u \in Tasks : u \notin {t, c} => pc'[u] = pc[u] /\ children'[u] = children[u]
    BY <1>1, <1>2 DEF ThreadInv, TypeOK
  <2>2. pc'[t] = "fork_start" /\ pc'[c] = "linked" /\ UNCHANGED cursor
    BY <1>1, <1>2 DEF local, ThreadInv, TypeOK
  <2>3. Walks'
    BY <2>1, <2>2 DEF ThreadInv, Walks
  <2>4. Holds'
    BY <1>1, <1>2 DEF flags, sync, local, ThreadInv, TypeOK, Holds, ExitHolds
  <2>5. Counted'
    BY <1>1, <1>2 DEF flags, sync, local, ThreadInv, TypeOK, Counted
  <2> QED
    BY <2>3, <2>4, <2>5
<1>6. Peers'
  <2>1. \A u \in Tasks \ {t} : pc[u] \in {"fork_link", "fork_start"} => peer[u] # c
    BY <1>1 DEF c, ThreadInv, Peers
  <2>2. UNCHANGED peer /\ peer[t] = c
    BY <1>1 DEF c, local
  <2>3. \A u \in Tasks \ {t, c} : pc'[u] = pc[u]
    BY <1>1 DEF ThreadInv, TypeOK
  <2>4. pc'[t] = "fork_start" /\ pc'[c] = "linked"
    BY <1>1, <1>2 DEF ThreadInv, TypeOK
  <2>5. ASSUME NEW u \in Tasks
        PROVE  /\ pc'[u] \in {"fork_link", "fork_start", "wait_reap", "wait_report", "exit_notify",
                              "kill_notify"} => peer'[u] \in Tasks
               /\ pc'[u] = "fork_link" => pc'[peer'[u]] = "unlinked"
               /\ pc'[u] = "fork_start" => pc'[peer'[u]] = "linked"
    <3>1. CASE u = t
      BY <1>2, <2>2, <2>4, <3>1
    <3>2. CASE u = c
      BY <2>4, <3>2
    <3>3. CASE u \notin {t, c}
      <4>1. pc'[u] = pc[u] /\ peer'[u] = peer[u] /\ (pc[u] \in {"fork_link", "fork_start"} => peer[u] # c)
        BY <2>1, <2>2, <2>3, <3>3
      <4>2. peer[u] = t => pc[u] \notin {"fork_link", "fork_start"}
        BY <1>1 DEF ThreadInv, Peers
      <4> QED
        BY <2>3, <4>1, <4>2 DEF ThreadInv, Peers
    <3> QED
      BY <3>1, <3>2, <3>3
  <2>6. ASSUME NEW u \in Tasks, NEW v \in Tasks,
               {pc'[u], pc'[v]} \subseteq {"fork_link", "fork_start"}, peer'[u] = peer'[v]
        PROVE  u = v
    <3>1. u # c /\ v # c
      BY <2>4, <2>6
    <3>2. {pc[u], pc[v]} \subseteq {"fork_link", "fork_start"} /\ peer[u] = peer[v]
      BY <1>1, <2>2, <2>3, <2>6, <3>1
    <3> QED
      BY <3>2 DEF ThreadInv, Peers
  <2> QED
    BY <2>5, <2>6 DEF Peers
<1> QED
  BY <1>4, <1>5, <1>6 DEF ThreadInv

LEMMA ForkStartThreads ==
  ASSUME ThreadInv, NEW t \in Tasks, ForkStart(t)
  PROVE  ThreadInv'
<1> DEFINE c == peer[t]
<1>1. /\ pc[t] = "fork_start" /\ peer' = [peer EXCEPT ![t] = None]
      /\ pc' = [pc EXCEPT ![t] = "run", ![c] = "run"]
      /\ UNCHANGED <<task, flags, sync, call, cursor, todo, sig, report, reaped, bounds, ub>>
  BY DEF ForkStart, At, On
<1>2. c \in Tasks /\ pc[c] = "linked" /\ c # t
  BY <1>1 DEF ThreadInv, Peers
<1> HIDE DEF c
<1>4. TypeOK'
  BY <1>1, <1>2 DEF task, flags, sync, bounds, ThreadInv, TypeOK, Labels
<1>5. Holds' /\ Walks' /\ Counted'
  BY <1>1, <1>2 DEF task, flags, sync, ThreadInv, TypeOK, Holds, ExitHolds, Walks, Counted
<1>6. Peers'
  <2>1. \A u \in Tasks : /\ pc'[u] = IF u \in {c, t} THEN "run" ELSE pc[u]
                         /\ peer'[u] = IF u = t THEN None ELSE peer[u]
    BY <1>1, <1>2 DEF ThreadInv, TypeOK
  <2>2. \A u \in Tasks \ {t} : pc[u] \in {"fork_link", "fork_start"} => peer[u] # c
    BY <1>1 DEF c, ThreadInv, Peers
  <2>3. ASSUME NEW u \in Tasks,
               pc'[u] \in {"fork_link", "fork_start", "wait_reap", "wait_report", "exit_notify", "kill_notify"}
        PROVE  /\ u # t /\ pc'[u] = pc[u] /\ peer'[u] = peer[u] /\ peer[u] \in Tasks
               /\ pc[u] = "fork_link" => pc[peer[u]] = "unlinked" /\ peer[u] # t
               /\ pc[u] = "fork_start" => pc[peer[u]] = "linked" /\ peer[u] # t
    <3>1. u # t /\ pc'[u] = pc[u] /\ peer'[u] = peer[u]
      BY <2>1, <2>3
    <3>2. /\ peer[u] \in Tasks
          /\ pc[u] = "fork_link" => pc[peer[u]] = "unlinked"
          /\ pc[u] = "fork_start" => pc[peer[u]] = "linked"
      BY <2>3, <3>1 DEF ThreadInv, Peers
    <3> QED
      BY <1>1, <3>1, <3>2
  <2>4. ASSUME NEW u \in Tasks
        PROVE  /\ pc'[u] \in {"fork_link", "fork_start", "wait_reap", "wait_report", "exit_notify",
                              "kill_notify"} => peer'[u] \in Tasks
               /\ pc'[u] = "fork_link" => pc'[peer'[u]] = "unlinked"
               /\ pc'[u] = "fork_start" => pc'[peer'[u]] = "linked"
    BY <2>1, <2>2, <2>3
  <2>5. ASSUME NEW u \in Tasks, NEW v \in Tasks,
               {pc'[u], pc'[v]} \subseteq {"fork_link", "fork_start"}, peer'[u] = peer'[v]
        PROVE  u = v
    BY <2>3, <2>5 DEF ThreadInv, Peers
  <2> QED
    BY <2>4, <2>5 DEF Peers
<1> QED
  BY <1>4, <1>5, <1>6 DEF ThreadInv

LEMMA ForkFailThreads ==
  ASSUME ThreadInv, NEW t \in Tasks, ForkFail(t)
  PROVE  ThreadInv'
<1> DEFINE c == peer[t]
<1>1. /\ pc[t] = "fork_start" /\ faults < MaxFaults /\ faults' = faults + 1
      /\ children' = [children EXCEPT ![t] = After(children[t], c)]
      /\ reaped' = reaped \cup {c}
      /\ pc' = [pc EXCEPT ![t] = "run", ![c] = "gone"]
      /\ peer' = [peer EXCEPT ![t] = None]
      /\ UNCHANGED <<parent, ppid, flags, sync, call, cursor, todo, sig, report, kills, ub>>
  BY DEF ForkFail, At, On
<1>2. c \in Tasks /\ pc[c] = "linked" /\ c # t
  BY <1>1 DEF ThreadInv, Peers
<1>3. After(children[t], c) \in Seq(Tasks)
  BY AfterIsList DEF ThreadInv, TypeOK
<1> HIDE DEF c
<1>4. TypeOK'
  <2>1. faults' \in 0 .. MaxFaults
    BY <1>1, ProcessTreeAssumption DEF ProcessTreeAssumption, ThreadInv, TypeOK
  <2>2. children' \in [Tasks -> Seq(Tasks)] /\ reaped' \in SUBSET Tasks
    BY <1>1, <1>2, <1>3 DEF ThreadInv, TypeOK
  <2> QED
    BY <1>1, <1>2, <2>1, <2>2 DEF flags, sync, ThreadInv, TypeOK, Labels
<1>5. Holds' /\ Walks' /\ Counted'
  <2>1. \A u \in Tasks : u \notin {t, c} => pc'[u] = pc[u] /\ children'[u] = children[u]
    BY <1>1, <1>2 DEF ThreadInv, TypeOK
  <2>2. pc'[t] = "run" /\ pc'[c] = "gone" /\ UNCHANGED cursor
    BY <1>1, <1>2 DEF ThreadInv, TypeOK
  <2>3. Walks'
    BY <2>1, <2>2 DEF ThreadInv, Walks
  <2>4. Holds'
    BY <1>1, <1>2 DEF flags, sync, ThreadInv, TypeOK, Holds, ExitHolds
  <2>5. Counted'
    BY <1>1, <1>2 DEF flags, sync, ThreadInv, TypeOK, Counted
  <2> QED
    BY <2>3, <2>4, <2>5
<1>6. Peers'
  BY <1>1, <1>2 DEF c, flags, sync, ThreadInv, TypeOK, Peers
<1> QED
  BY <1>4, <1>5, <1>6 DEF ThreadInv

-----------------------------------------------------------------------------
(* waitpid.  What one step of a waiter may come to.                         *)
Searches == {"wait_look", "wait_test"}
Waiting == {"run", "wait_sleep"} \cup Searches

Takes(t, c) ==
  /\ exited[c] = TRUE /\ children' = [children EXCEPT ![t] = RemoveFirst(children[t], c)]
  /\ pc' = [pc EXCEPT ![t] = "wait_reap"]
Tells(t, c) ==
  /\ exited[c] = FALSE /\ UNCHANGED children
  /\ pc' = [pc EXCEPT ![t] = "wait_report"]
LetsGo(t) == lock' = [lock EXCEPT ![t] = None] /\ cursor' = [cursor EXCEPT ![t] = 0]
Hands(t, c) ==
  /\ peer' = [peer EXCEPT ![t] = c] /\ waiters' = [waiters EXCEPT ![t] = 0]
  /\ call' = [call EXCEPT ![t] = NoCall] /\ LetsGo(t) /\ UNCHANGED asleep
NothingYet(t) ==
  /\ pc' = [pc EXCEPT ![t] = "run"] /\ waiters' = [waiters EXCEPT ![t] = 0]
  /\ call' = [call EXCEPT ![t] = NoCall] /\ LetsGo(t) /\ UNCHANGED <<children, peer, asleep>>
FallsAsleep(t, w) ==
  /\ pc' = [pc EXCEPT ![t] = "wait_sleep"] /\ waiters' = [waiters EXCEPT ![t] = 1]
  /\ call' = [call EXCEPT ![t] = w] /\ LetsGo(t) /\ asleep' = asleep \cup {t}
  /\ UNCHANGED <<children, peer>>
Looks(t, w, place, i) ==
  /\ pc' = [pc EXCEPT ![t] = place] /\ waiters' = [waiters EXCEPT ![t] = 1]
  /\ call' = [call EXCEPT ![t] = w] /\ lock' = [lock EXCEPT ![t] = t]
  /\ cursor' = [cursor EXCEPT ![t] = i] /\ UNCHANGED <<children, peer, asleep>>

\* What a search at position i finds there, and where it goes on.
Finds(t, w, i) ==
  \/ /\ i <= Len(children[t]) /\ Selects(t, w, children[t][i])
     /\ Looks(t, w, "wait_test", i)
  \/ /\ i < Len(children[t]) /\ ~Selects(t, w, children[t][i])
     /\ Looks(t, w, "wait_look", i + 1)
  \/ /\ Len(children[t]) <= i /\ (i <= Len(children[t]) => ~Selects(t, w, children[t][i]))
     /\ NothingYet(t) \/ FallsAsleep(t, w)

LEMMA GiveUp ==
  ASSUME NEW t \in Tasks, NEW w, GivesUp(t, w, 1), UNCHANGED <<children, peer>>
  PROVE  NothingYet(t) \/ FallsAsleep(t, w)
  BY DEF GivesUp, NothingYet, FallsAsleep, LetsGo, OneLess, Goto

LEMMA Finding ==
  ASSUME TypeOK, NEW t \in Tasks, NEW w, NEW i \in Nat, Search(t, w, i, 1),
         UNCHANGED <<children, peer>>
  PROVE  Finds(t, w, i)
<1> DEFINE here == Selects(t, w, children[t][i])
<1>1. children[t] \in Seq(Tasks) /\ Len(children[t]) \in Nat
  BY DEF TypeOK
<1> HIDE DEF here
<1>2. IF (i <= Len(children[t]) /\ here) \/ i < Len(children[t])
      THEN /\ pc' = [pc EXCEPT ![t] = IF i <= Len(children[t]) /\ here THEN "wait_test" ELSE "wait_look"]
           /\ cursor' = [cursor EXCEPT ![t] = IF i <= Len(children[t]) /\ here THEN i ELSE i + 1]
           /\ waiters' = [waiters EXCEPT ![t] = 1]
           /\ call' = [call EXCEPT ![t] = w]
           /\ lock' = [lock EXCEPT ![t] = t]
           /\ UNCHANGED asleep
      ELSE GivesUp(t, w, 1)
  BY DEF here, Search, Goto
<1>3. CASE i <= Len(children[t]) /\ here
  BY <1>2, <1>3 DEF here, Finds, Looks
<1>4. CASE i < Len(children[t]) /\ ~here
  BY <1>2, <1>4 DEF here, Finds, Looks
<1>5. CASE ~(i <= Len(children[t]) /\ here) /\ ~(i < Len(children[t]))
  <2>1. NothingYet(t) \/ FallsAsleep(t, w)
    BY <1>2, <1>5, GiveUp
  <2>2. Len(children[t]) <= i /\ (i <= Len(children[t]) => ~here)
    BY <1>1, <1>5
  <2> QED
    BY <2>1, <2>2 DEF here, Finds
<1> QED
  BY <1>3, <1>4, <1>5

\* A step of a waiter: it searches from the first child or from where it is,
\* or tests the child its search has stopped at.
Searching(t, w) ==
  /\ pc[t] \in {"run", "wait_sleep", "wait_look"}
  /\ Finds(t, w, IF pc[t] = "wait_look" THEN cursor[t] ELSE 1)
  /\ pc[t] = "wait_look" => w = call[t]
Testing(t, w) ==
  /\ pc[t] = "wait_test" /\ w = call[t]
  /\ \/ /\ Hands(t, AtCursor(t)) /\ Reportable(AtCursor(t), w.options)
        /\ Takes(t, AtCursor(t)) \/ Tells(t, AtCursor(t))
     \/ ~Reportable(AtCursor(t), w.options) /\ (NothingYet(t) \/ FallsAsleep(t, w))

Pass(t, w) ==
  /\ t \notin asleep /\ lock[t] \in {None, t}
  /\ Searching(t, w) \/ Testing(t, w)
  /\ UNCHANGED <<parent, ppid, flags, todo, sig, reaped, bounds, ub>>
  /\ w \in (UNION {WaitCalls[u] : u \in Tasks}) \cup {NoCall}

LEMMA CallPasses ==
  ASSUME ThreadInv, NEW t \in Tasks, NEW w \in WaitCalls[t], ixland_waitpid(t, w)
  PROVE  Pass(t, w)
<1>1. pc[t] = "run" /\ waiters[t] + 1 = 1 /\ t \notin asleep /\ lock[t] = None
  BY DEF ixland_waitpid, At, On, Unlocked, ThreadInv, Counted
<1>2. Search(t, w, 1, 1) /\ UNCHANGED <<children, peer>>
  BY <1>1 DEF ixland_waitpid, task
<1>3. Searching(t, w)
  BY <1>1, <1>2, Finding DEF ThreadInv, Searching
<1> QED
  BY <1>1, <1>3 DEF ixland_waitpid, Pass, task

LEMMA WakePasses ==
  ASSUME ThreadInv, NEW t \in Tasks, WaitWake(t) \/ WaitLook(t)
  PROVE  Pass(t, call[t])
<1>1. /\ pc[t] \in {"wait_sleep", "wait_look"} /\ waiters[t] = 1 /\ t \notin asleep
      /\ lock[t] \in {None, t} /\ cursor[t] \in Nat
  BY DEF WaitWake, WaitLook, At, On, Unlocked, ThreadInv, Counted, Holds, TypeOK
<1>2. /\ Search(t, call[t], IF pc[t] = "wait_look" THEN cursor[t] ELSE 1, 1)
      /\ UNCHANGED <<children, peer>>
  BY <1>1 DEF WaitWake, WaitLook, At, On, task
<1>3. Searching(t, call[t])
  <2>1. CASE pc[t] = "wait_look"
    BY <1>1, <1>2, <2>1, Finding DEF ThreadInv, Searching
  <2>2. CASE pc[t] = "wait_sleep"
    BY <1>2, <2>2, Finding DEF ThreadInv, Searching
  <2> QED
    BY <1>1, <2>1, <2>2
<1>4. UNCHANGED <<parent, ppid, flags, todo, sig, reaped, bounds, ub>>
  BY DEF WaitWake, WaitLook, task
<1> QED
  BY <1>1, <1>3, <1>4 DEF Pass, ThreadInv, TypeOK

\* A child that a signal has ended is marked as exited too.
LEMMA TestPasses ==
  ASSUME ThreadInv, NEW t \in Tasks, WaitTest(t)
  PROVE  Pass(t, call[t])
<1> DEFINE c == AtCursor(t)
<1>1. /\ pc[t] = "wait_test" /\ waiters[t] = 1 /\ t \notin asleep /\ lock[t] = t
      /\ UNCHANGED <<parent, ppid, flags, todo, sig, reaped, bounds, ub>>
  BY DEF WaitTest, At, On, ThreadInv, Counted, Holds
<1>2. c \in Tasks
  BY <1>1 DEF AtCursor, ThreadInv, Walks, TypeOK
<1> HIDE DEF c
<1>3. CASE Reportable(c, call[t].options)
  <2>1. should_reap(c) <=> exited[c] = TRUE
    BY <1>2 DEF should_reap, ThreadInv, Counted, TypeOK
  <2>2. waiters[t] - 1 = 0 /\ exited[c] \in BOOLEAN
    BY <1>1, <1>2 DEF ThreadInv, TypeOK
  <2>3. Hands(t, c) /\ (Takes(t, c) \/ Tells(t, c))
    BY <1>1, <1>3, <2>1, <2>2 DEF c, WaitTest, Hands, LetsGo, Takes, Tells, OneLess, Goto
  <2> QED
    BY <1>1, <1>3, <2>3 DEF c, Pass, Testing, ThreadInv, TypeOK
<1>4. CASE ~Reportable(c, call[t].options)
  <2>1. NothingYet(t) \/ FallsAsleep(t, call[t])
    BY <1>1, <1>4, GiveUp DEF c, WaitTest
  <2> QED
    BY <1>1, <1>4, <2>1 DEF c, Pass, Testing, ThreadInv, TypeOK
<1> QED
  BY <1>3, <1>4

\* The cases that the proofs tell apart.
LEMMA Passes ==
  ASSUME ThreadInv, NEW t \in Tasks, NEW w, Pass(t, w)
  PROVE  /\ pc[t] \in Waiting /\ children[t] \in Seq(Tasks)
         /\ \/ /\ pc[t] = "wait_test" /\ AtCursor(t) \in Tasks /\ AtCursor(t) # None
               /\ In(children[t], AtCursor(t)) /\ Hands(t, AtCursor(t))
               /\ Takes(t, AtCursor(t)) \/ Tells(t, AtCursor(t))
            \/ NothingYet(t)
            \/ FallsAsleep(t, w)
            \/ \E place \in Searches, i \in 1 .. Len(children[t]) : Looks(t, w, place, i)
<1>1. children[t] \in Seq(Tasks) /\ Len(children[t]) \in Nat
  BY DEF ThreadInv, TypeOK
<1>2. CASE Testing(t, w)
  <2>1. cursor[t] \in 1 .. Len(children[t])
    BY <1>2 DEF Testing, ThreadInv, Walks
  <2>2. In(children[t], AtCursor(t)) /\ AtCursor(t) \in Tasks /\ AtCursor(t) # None
    BY <1>1, <2>1, ProcessTreeAssumption DEF ProcessTreeAssumption, In, AtCursor
  <2> QED
    BY <1>1, <1>2, <2>2 DEF Testing, Waiting, Searches
<1>3. CASE Searching(t, w)
  <2> DEFINE i == IF pc[t] = "wait_look" THEN cursor[t] ELSE 1
  <2>1. i \in Nat /\ i >= 1
    BY DEF ThreadInv, Walks
  <2>2. Finds(t, w, i) /\ pc[t] \in Waiting
    BY <1>3 DEF Searching, Waiting, Searches
  <2> HIDE DEF i
  <2>3. \/ NothingYet(t) \/ FallsAsleep(t, w)
        \/ \E j \in 1 .. Len(children[t]) : Looks(t, w, "wait_test", j) \/ Looks(t, w, "wait_look", j)
    BY <1>1, <2>1, <2>2 DEF Finds
  <2> QED
    BY <1>1, <2>2, <2>3 DEF Searches
<1> QED
  BY <1>2, <1>3 DEF Pass


LEMMA PassMoves ==
  ASSUME ThreadInv, NEW t \in Tasks, NEW w, Pass(t, w)
  PROVE  /\ pc[t] \in Waiting
         /\ \E place \in Waiting \cup {"wait_reap", "wait_report"} : pc' = [pc EXCEPT ![t] = place]
         /\ UNCHANGED <<parent, ppid, flags, todo, sig, reaped, bounds, ub>>
         /\ \A u \in Tasks \ {t} :
              /\ children'[u] = children[u] /\ peer'[u] = peer[u] /\ cursor'[u] = cursor[u]
              /\ call'[u] = call[u] /\ (u \in asleep' <=> u \in asleep)
         /\ \/ UNCHANGED children
            \/ In(children[t], AtCursor(t)) /\ Takes(t, AtCursor(t))
<1> DEFINE c == AtCursor(t)
<1>1. /\ pc[t] \in Waiting
      /\ \/ In(children[t], c) /\ Hands(t, c) /\ (Takes(t, c) \/ Tells(t, c))
         \/ NothingYet(t)
         \/ FallsAsleep(t, w)
         \/ \E place \in Searches, i \in 1 .. Len(children[t]) : Looks(t, w, place, i)
  BY Passes
<1> HIDE DEF c
<1> USE DEF LetsGo, Waiting, Searches, ThreadInv, TypeOK
<1> DEFINE Alone == \A u \in Tasks \ {t} :
             /\ children'[u] = children[u] /\ peer'[u] = peer[u] /\ cursor'[u] = cursor[u]
             /\ call'[u] = call[u] /\ (u \in asleep' <=> u \in asleep)
<1>2. ASSUME Hands(t, c), Takes(t, c) PROVE Alone
  <2>1. \A u \in Tasks \ {t} : children'[u] = children[u]
    BY <1>2 DEF Takes
  <2>2. \A u \in Tasks \ {t} : peer'[u] = peer[u] /\ cursor'[u] = cursor[u] /\ call'[u] = call[u]
    BY <1>2 DEF Hands
  <2> QED
    BY <1>2, <2>1, <2>2 DEF Hands
<1>3. ASSUME Hands(t, c), Tells(t, c) PROVE Alone
  <2>1. \A u \in Tasks \ {t} : peer'[u] = peer[u] /\ cursor'[u] = cursor[u] /\ call'[u] = call[u]
    BY <1>3 DEF Hands
  <2> QED
    BY <1>3, <2>1 DEF Hands, Tells
<1>4. ASSUME NothingYet(t) PROVE Alone
  BY <1>4 DEF NothingYet
<1>5. ASSUME FallsAsleep(t, w) PROVE Alone
  BY <1>5 DEF FallsAsleep
<1>6. ASSUME NEW place \in Searches, NEW i \in 1 .. Len(children[t]), Looks(t, w, place, i)
      PROVE  /\ pc' = [pc EXCEPT ![t] = place] /\ cursor' = [cursor EXCEPT ![t] = i]
             /\ call' = [call EXCEPT ![t] = w] /\ UNCHANGED <<children, peer, asleep>>
  BY <1>6 DEF Looks
<1>7. \E place \in Waiting \cup {"wait_reap", "wait_report"} : pc' = [pc EXCEPT ![t] = place]
  BY <1>1, <1>6 DEF Hands, Takes, Tells, NothingYet, FallsAsleep
<1>8. \A u \in Tasks \ {t} :
        /\ children'[u] = children[u] /\ peer'[u] = peer[u] /\ cursor'[u] = cursor[u]
        /\ call'[u] = call[u] /\ (u \in asleep' <=> u \in asleep)
  BY <1>1, <1>2, <1>3, <1>4, <1>5, <1>6
<1>9. UNCHANGED children \/ (In(children[t], c) /\ Takes(t, c))
  BY <1>1, <1>6 DEF Tells, NothingYet, FallsAsleep
<1> QED
  BY <1>1, <1>7, <1>8, <1>9 DEF c, Pass

LEMMA PassThreads ==
  ASSUME ThreadInv, NEW t \in Tasks, NEW w, Pass(t, w)
  PROVE  ThreadInv'
<1> DEFINE c == AtCursor(t)
<1>1. /\ pc[t] \in Waiting /\ t \notin asleep /\ lock[t] \in {None, t}
      /\ UNCHANGED <<parent, ppid, state, exited, exit_status, termsig, stopped, continued,
                     todo, sig, reaped, kills, faults, ub>>
      /\ w \in (UNION {WaitCalls[u] : u \in Tasks}) \cup {NoCall}
  BY Passes DEF Pass, flags, bounds
<1>2. \/ c \in Tasks /\ Hands(t, c) /\ (Takes(t, c) \/ Tells(t, c))
      \/ NothingYet(t)
      \/ FallsAsleep(t, w)
      \/ \E place \in Searches, i \in 1 .. Len(children[t]) : Looks(t, w, place, i)
  BY Passes
<1> HIDE DEF c
<1> USE DEF ThreadInv, TypeOK, Waiting, Searches, LetsGo
<1>3. ASSUME c \in Tasks, Takes(t, c), Hands(t, c)
      PROVE  children' \in [Tasks -> Seq(Tasks)] /\ \A u \in Tasks \ {t} : children'[u] = children[u]
  <2>1. RemoveFirst(children[t], c) \in Seq(Tasks)
    <3>1. CASE In(children[t], c)
      BY <3>1, Removed
    <3>2. CASE ~In(children[t], c)
      BY <3>2 DEF RemoveFirst, In
    <3> QED
      BY <3>1, <3>2
  <2> QED
    BY <1>3, <2>1 DEF Takes
<1>4. ASSUME c \in Tasks, Hands(t, c), Takes(t, c) \/ Tells(t, c) PROVE ThreadInv'
  <2>1. /\ children' \in [Tasks -> Seq(Tasks)] /\ \A u \in Tasks \ {t} : children'[u] = children[u]
        /\ \E place \in {"wait_reap", "wait_report"} : pc' = [pc EXCEPT ![t] = place]
        /\ peer' = [peer EXCEPT ![t] = c] /\ waiters' = [waiters EXCEPT ![t] = 0]
        /\ call' = [call EXCEPT ![t] = NoCall] /\ lock' = [lock EXCEPT ![t] = None]
        /\ cursor' = [cursor EXCEPT ![t] = 0] /\ UNCHANGED asleep
    BY <1>3, <1>4 DEF Takes, Tells, Hands
  <2>2. call' \in [Tasks -> (UNION {WaitCalls[u] : u \in Tasks}) \cup {NoCall}]
    BY <2>1
  <2>3. TypeOK'
    BY <1>1, <1>4, <2>1, <2>2 DEF Labels
  <2>4. Holds'
    BY <1>1, <2>1 DEF Holds, ExitHolds
  <2>5. Walks' /\ Counted'
    BY <1>1, <2>1 DEF Walks, Counted
  <2>6. Peers'
    BY <1>1, <1>4, <2>1 DEF Peers
  <2> QED
    BY <2>3, <2>4, <2>5, <2>6
<1>5. CASE NothingYet(t)
  <2>0. call' \in [Tasks -> (UNION {WaitCalls[u] : u \in Tasks}) \cup {NoCall}]
    BY <1>5 DEF NothingYet
  <2>1. TypeOK'
    BY <1>1, <1>5, <2>0 DEF NothingYet, Labels
  <2>2. Holds' /\ Walks' /\ Counted'
    BY <1>1, <1>5 DEF NothingYet, Holds, ExitHolds, Walks, Counted
  <2>3. Peers'
    BY <1>1, <1>5 DEF NothingYet, Peers
  <2> QED
    BY <2>1, <2>2, <2>3
<1>6. CASE FallsAsleep(t, w)
  <2>1. TypeOK'
    BY <1>1, <1>6 DEF FallsAsleep, Labels
  <2>2. Holds' /\ Walks' /\ Counted'
    BY <1>1, <1>6 DEF FallsAsleep, Holds, ExitHolds, Walks, Counted
  <2>3. Peers'
    BY <1>1, <1>6 DEF FallsAsleep, Peers
  <2> QED
    BY <2>1, <2>2, <2>3
<1>7. ASSUME NEW place \in Searches, NEW i \in 1 .. Len(children[t]), Looks(t, w, place, i)
      PROVE  ThreadInv'
  <2>1. TypeOK'
    BY <1>1, <1>7 DEF Looks, Labels
  <2>2. Holds'
    <3>1. \A u \in Tasks : u # t => pc'[u] = pc[u]
      BY <1>7 DEF Looks
    <3>2. \A u, m \in Tasks : u # t /\ lock[m] = u => lock'[m] = u
      BY <1>1, <1>7, ProcessTreeAssumption DEF ProcessTreeAssumption, Looks
    <3>3. pc'[t] \in {"wait_look", "wait_test"} /\ lock'[t] = t /\ UNCHANGED peer
      BY <1>7 DEF Looks
    <3>4. init_task \in Tasks
      BY ProcessTreeAssumption DEF ProcessTreeAssumption
    <3> QED
      BY <1>1, <3>1, <3>2, <3>3, <3>4 DEF Holds, ExitHolds, Peers
  <2>3. Walks' /\ Counted'
    BY <1>1, <1>7 DEF Looks, Walks, Counted
  <2>4. Peers'
    BY <1>1, <1>7 DEF Looks, Peers
  <2> QED
    BY <2>1, <2>2, <2>3, <2>4
<1> QED
  BY <1>2, <1>4, <1>5, <1>6, <1>7


LEMMA SpuriousWakeThreads ==
  ASSUME ThreadInv, NEW t \in Tasks, SpuriousWake(t)
  PROVE  ThreadInv'
<1>1. asleep' = asleep \ {t} /\ UNCHANGED <<task, flags, lock, waiters, pc, local, reaped, bounds, ub>>
  BY DEF SpuriousWake
<1> QED
  BY <1>1 DEF task, flags, local, bounds, ThreadInv, TypeOK, Holds, Peers, Walks, Counted

LEMMA WaitStatusThreads ==
  ASSUME ThreadInv, NEW t \in Tasks, WaitStatus(t)
  PROVE  ThreadInv'
<1>1. /\ pc[t] \in {"wait_reap", "wait_report"} /\ pc' = [pc EXCEPT ![t] = "run"]
      /\ peer' = [peer EXCEPT ![t] = None] /\ (reaped' = reaped \cup {peer[t]} \/ UNCHANGED reaped)
      /\ UNCHANGED <<task, flags, sync, call, cursor, todo, sig, bounds, ub>>
  BY DEF WaitStatus, At, On, Goto
<1>2. peer[t] \in Tasks
  BY <1>1 DEF ThreadInv, Peers
<1> USE <1>1, <1>2 DEF task, flags, sync, bounds, ThreadInv, TypeOK
<1>3. TypeOK'
  BY DEF Labels
<1>4. Holds' /\ Walks' /\ Counted'
  BY DEF Holds, ExitHolds, Walks, Counted
<1>5. Peers'
  BY DEF Peers
<1> QED
  BY <1>3, <1>4, <1>5

\* What a step of one thread outside fork and the searches leaves as it was.
LEMMA OthersKept ==
  ASSUME TypeOK, Peers, Counted, NEW t \in Tasks, NEW place,
         pc' = [pc EXCEPT ![t] = place],
         pc[t] \notin {"unlinked", "linked", "wait_sleep", "wait_look", "wait_test"},
         place \notin {"fork_link", "fork_start", "wait_reap", "wait_report", "exit_notify",
                       "kill_notify", "wait_sleep", "wait_look", "wait_test"},
         \A u \in Tasks \ {t} : peer'[u] = peer[u],
         waiters' = waiters, asleep' \subseteq asleep,
         termsig' = termsig, \A u \in Tasks : exited[u] = TRUE => exited'[u] = TRUE
  PROVE  Peers' /\ Counted'
<1>1. \A u \in Tasks : pc'[u] = IF u = t THEN place ELSE pc[u]
  BY DEF TypeOK
<1>2. Peers'
  <2>1. ASSUME NEW u \in Tasks,
               pc'[u] \in {"fork_link", "fork_start", "wait_reap", "wait_report", "exit_notify",
                          "kill_notify"}
        PROVE  u # t /\ pc'[u] = pc[u] /\ peer'[u] = peer[u] /\ peer[u] \in Tasks
    BY <1>1, <2>1 DEF Peers
  <2>2. ASSUME NEW u \in Tasks, pc'[u] \in {"fork_link", "fork_start"}
        PROVE  peer[u] # t
    BY <2>1, <2>2 DEF Peers
  <2>3. ASSUME NEW u \in Tasks, NEW v \in Tasks,
               {pc'[u], pc'[v]} \subseteq {"fork_link", "fork_start"}, peer'[u] = peer'[v]
        PROVE  u = v
    BY <2>1, <2>3 DEF Peers
  <2> QED
    BY <1>1, <2>1, <2>2, <2>3 DEF Peers
<1>3. Counted'
  BY <1>1 DEF Counted
<1> QED
  BY <1>2, <1>3

-----------------------------------------------------------------------------
(* exit                                                                    *)

LEMMA ExitBeginThreads ==
  ASSUME ThreadInv, NEW t \in Tasks, NEW s \in ExitCodes, ExitBegin(t, s)
  PROVE  ThreadInv'
<1>1. /\ pc[t] = "run" /\ lock[t] = None
      /\ exit_status' = [exit_status EXCEPT ![t] = s]
      /\ exited' = [exited EXCEPT ![t] = TRUE] /\ state' = [state EXCEPT ![t] = "ZOMBIE"]
      /\ UNCHANGED <<task, termsig, stopped, continued, waiters, asleep,
                     peer, call, todo, sig, report, reaped, bounds, ub>>
  BY DEF ExitBegin, At, On, Unlocked
<1>2. \/ /\ children[t] = <<>> /\ pc' = [pc EXCEPT ![t] = "exit_parent"] /\ UNCHANGED <<lock, cursor>>
      \/ /\ children[t] # <<>> /\ lock' = [lock EXCEPT ![t] = t] /\ cursor' = [cursor EXCEPT ![t] = 1]
         /\ pc' = [pc EXCEPT ![t] = IF t = init_task THEN "exit_orphan" ELSE "exit_lock_init"]
  BY DEF ExitBegin, Goto
<1>3. children[t] # <<>> => 1 \in 1 .. Len(children[t])
  BY EmptySeq DEF ThreadInv, TypeOK
<1>4. Peers' /\ Counted'
  <2>1. PICK place \in {"exit_parent", "exit_orphan", "exit_lock_init"} :
               pc' = [pc EXCEPT ![t] = place]
    BY <1>2
  <2>2. \A u \in Tasks : exited[u] = TRUE => exited'[u] = TRUE
    BY <1>1 DEF ThreadInv, TypeOK
  <2> QED
    BY <1>1, <2>1, <2>2, OthersKept DEF ThreadInv
<1> USE <1>1 DEF task, bounds, ThreadInv, TypeOK
<1>5. TypeOK'
  <2>1. /\ pc' \in [Tasks -> Labels] /\ cursor' \in [Tasks -> Nat]
        /\ lock' \in [Tasks -> Tasks \cup {None}]
    <3>1. CASE children[t] = <<>> /\ pc' = [pc EXCEPT ![t] = "exit_parent"] /\ UNCHANGED <<lock, cursor>>
      BY <3>1 DEF Labels
    <3>2. CASE /\ lock' = [lock EXCEPT ![t] = t] /\ cursor' = [cursor EXCEPT ![t] = 1]
               /\ pc' = [pc EXCEPT ![t] = IF t = init_task THEN "exit_orphan" ELSE "exit_lock_init"]
      BY <3>2 DEF Labels
    <3> QED
      BY <1>2, <3>1, <3>2
  <2>2. /\ exit_status' \in [Tasks -> ExitCodes \cup {0}] /\ exited' \in [Tasks -> BOOLEAN]
        /\ state' \in [Tasks -> {"RUNNING", "STOPPED", "ZOMBIE"}]
    OBVIOUS
  <2> QED
    BY <2>1, <2>2
<1>6. Holds'
  <2>1. CASE children[t] = <<>> /\ pc' = [pc EXCEPT ![t] = "exit_parent"] /\ UNCHANGED <<lock, cursor>>
    BY <2>1 DEF Holds, ExitHolds
  <2>2. CASE /\ lock' = [lock EXCEPT ![t] = t] /\ cursor' = [cursor EXCEPT ![t] = 1]
             /\ pc' = [pc EXCEPT ![t] = IF t = init_task THEN "exit_orphan" ELSE "exit_lock_init"]
    BY <2>2, ProcessTreeAssumption DEF ProcessTreeAssumption, Holds, ExitHolds
  <2> QED
    BY <1>2, <2>1, <2>2
<1>7. Walks'
  <2>1. children' = children /\ pc'[t] \in {"exit_parent", "exit_orphan", "exit_lock_init"}
    BY <1>2
  <2>2. \A u \in Tasks \ {t} : pc'[u] = pc[u] /\ cursor'[u] = cursor[u]
    BY <1>2
  <2>3. pc'[t] # "exit_parent" => children[t] # <<>> /\ cursor'[t] = 1
    BY <1>2
  <2> QED
    BY <1>3, <2>1, <2>2, <2>3 DEF Walks
<1> QED
  BY <1>4, <1>5, <1>6, <1>7

LEMMA ExitLockInitThreads ==
  ASSUME ThreadInv, NEW t \in Tasks, ExitLockInit(t)
  PROVE  ThreadInv'
<1>1. /\ pc[t] = "exit_lock_init" /\ pc' = [pc EXCEPT ![t] = "exit_adopt"]
      /\ lock[init_task] = None /\ lock' = [lock EXCEPT ![init_task] = t]
      /\ UNCHANGED <<task, flags, waiters, asleep, local, reaped, bounds, ub>>
  BY DEF ExitLockInit, At, On, Goto, Unlocked
<1>2. init_task \in Tasks /\ None \notin Tasks
  BY ProcessTreeAssumption DEF ProcessTreeAssumption
<1>3. cursor[t] = 1 /\ 1 \in 1 .. Len(children[t])
  BY <1>1, EmptySeq DEF ThreadInv, TypeOK, Walks
<1> USE <1>1, <1>2, <1>3 DEF task, flags, local, bounds, ThreadInv, TypeOK
<1>4. TypeOK'
  BY DEF Labels
<1>5. Holds'
  BY DEF Holds, ExitHolds
<1>6. Walks' /\ Counted'
  BY DEF Walks, Counted
<1>7. Peers'
  BY DEF Peers
<1> QED
  BY <1>4, <1>5, <1>6, <1>7

\* A step of the walk over the children goes on to the next, or ends it.
LEMMA Advances ==
  ASSUME TypeOK, NEW t \in Tasks, NEW label, NEW done, Advance(t, label, done),
         cursor[t] \in 1 .. Len(children[t])
  PROVE  \/ /\ MoreChildren(t) /\ pc' = [pc EXCEPT ![t] = label]
            /\ cursor' = [cursor EXCEPT ![t] = cursor[t] + 1]
            /\ cursor[t] + 1 \in 1 .. Len(children[t])
         \/ /\ ~MoreChildren(t) /\ pc' = [pc EXCEPT ![t] = done]
            /\ cursor' = [cursor EXCEPT ![t] = 0] /\ cursor[t] = Len(children[t])
<1>1. Len(children[t]) \in Nat
  BY DEF TypeOK
<1>2. CASE MoreChildren(t)
  <2>1. cursor[t] + 1 \in 1 .. Len(children[t])
    BY <1>1, <1>2 DEF MoreChildren
  <2> QED
    BY <1>2, <2>1 DEF Advance, Goto
<1>3. CASE ~MoreChildren(t)
  <2>1. cursor[t] = Len(children[t])
    BY <1>1, <1>3 DEF MoreChildren
  <2> QED
    BY <1>3, <2>1 DEF Advance, Goto
<1> QED
  BY <1>2, <1>3

LEMMA ExitAdoptThreads ==
  ASSUME ThreadInv, NEW t \in Tasks, ExitAdopt(t)
  PROVE  ThreadInv'
<1> DEFINE c == AtCursor(t)
<1>1. /\ pc[t] = "exit_adopt" /\ lock[c] = None
      /\ parent' = [parent EXCEPT ![c] = init_task] /\ ppid' = [ppid EXCEPT ![c] = init_task]
      /\ Advance(t, "exit_adopt", "exit_splice")
      /\ UNCHANGED <<children, flags, sync, peer, call, todo, sig, report, reaped, bounds, ub>>
  BY DEF ExitAdopt, At, On, Unlocked
<1>2. cursor[t] \in 1 .. Len(children[t]) /\ c \in Tasks
  BY <1>1 DEF AtCursor, ThreadInv, TypeOK, Walks
<1> HIDE DEF c
<1>3. \/ /\ pc' = [pc EXCEPT ![t] = "exit_adopt"] /\ cursor' = [cursor EXCEPT ![t] = cursor[t] + 1]
         /\ cursor[t] + 1 \in 1 .. Len(children[t])
      \/ pc' = [pc EXCEPT ![t] = "exit_splice"] /\ cursor' = [cursor EXCEPT ![t] = 0]
  BY <1>1, <1>2, Advances DEF ThreadInv
<1>4. init_task \in Tasks /\ None \notin Tasks
  BY ProcessTreeAssumption DEF ProcessTreeAssumption
<1>9. PICK place \in {"exit_adopt", "exit_splice"} : pc' = [pc EXCEPT ![t] = place]
  BY <1>3
<1>11. Peers' /\ Counted'
  BY <1>1, <1>9, OthersKept DEF ThreadInv, sync, flags
<1> USE DEF flags, sync, bounds, ThreadInv, TypeOK
<1>5. pc' \in [Tasks -> Labels] /\ cursor' \in [Tasks -> Nat]
  <2>1. pc' \in [Tasks -> Labels]
    BY <1>9 DEF Labels
  <2>2. cursor[t] + 1 \in Nat
    BY <1>2
  <2>3. CASE cursor' = [cursor EXCEPT ![t] = cursor[t] + 1]
    BY <2>1, <2>2, <2>3
  <2>4. CASE cursor' = [cursor EXCEPT ![t] = 0]
    BY <2>1, <2>4
  <2> QED
    BY <1>3, <2>3, <2>4
<1>6. parent' \in [Tasks -> Tasks \cup {None}] /\ ppid' \in [Tasks -> Tasks \cup {None}]
  BY <1>1, <1>4
<1>7. TypeOK'
  BY <1>1, <1>5, <1>6
<1>8. Holds'
  <2>1. ASSUME NEW u \in Tasks
        PROVE  /\ lock'[u] = lock[u] /\ peer'[u] = peer[u] /\ sig'[u] = sig[u]
               /\ (u # t => pc'[u] = pc[u]) /\ (parent[u] \in Tasks => parent'[u] \in Tasks)
    BY <1>1, <1>2, <1>4, <1>9
  <2>2. pc'[t] \in {"exit_adopt", "exit_splice"}
    BY <1>9
  <2>3. lock[t] = t /\ lock[init_task] = t /\ t # init_task
    BY <1>1 DEF Holds, ExitHolds
  <2> QED
    BY <1>4, <2>1, <2>2, <2>3 DEF Holds, ExitHolds, Peers
<1>10. Walks'
  <2>1. ASSUME NEW u \in Tasks, u # t
        PROVE  pc'[u] = pc[u] /\ cursor'[u] = cursor[u] /\ children'[u] = children[u]
    BY <1>1, <1>3, <2>1
  <2>2. \/ pc'[t] = "exit_adopt" /\ cursor'[t] \in 1 .. Len(children[t])
        \/ pc'[t] = "exit_splice"
    BY <1>3
  <2>3. children'[t] = children[t]
    BY <1>1
  <2> QED
    BY <2>1, <2>2, <2>3 DEF Walks
<1> QED
  BY <1>7, <1>8, <1>10, <1>11

\* Only who holds init's mutex gives init children.
LEMMA ExitSpliceThreads ==
  ASSUME ThreadInv, NEW t \in Tasks, ExitSplice(t)
  PROVE  ThreadInv'
<1> DEFINE all == children[t] \o children[init_task]
<1>1. /\ pc[t] = "exit_splice" /\ pc' = [pc EXCEPT ![t] = "exit_parent"]
      /\ children' = [children EXCEPT ![init_task] = all, ![t] = <<>>]
      /\ (asleep' = asleep \ {init_task} \/ UNCHANGED asleep)
      /\ lock' = [lock EXCEPT ![init_task] = None, ![t] = None]
      /\ UNCHANGED <<parent, ppid, flags, waiters, local, reaped, bounds, ub>>
  BY DEF ExitSplice, At, On, Goto, Broadcast, UnlocksBoth, Spliced
<1>2. init_task \in Tasks /\ None \notin Tasks /\ t # init_task /\ lock[init_task] = t /\ lock[t] = t
  BY <1>1, ProcessTreeAssumption DEF ProcessTreeAssumption, ThreadInv, Holds, ExitHolds
<1>3. all \in Seq(Tasks) /\ <<>> \in Seq(Tasks)
  BY <1>2, ConcatProperties, EmptySeq DEF ThreadInv, TypeOK
<1> HIDE DEF all
<1>9. Peers' /\ Counted'
  BY <1>1, OthersKept DEF ThreadInv, local, flags
<1> USE DEF flags, local, bounds, ThreadInv, TypeOK
<1>4. children' \in [Tasks -> Seq(Tasks)] /\ \A u \in Tasks \ {t, init_task} : children'[u] = children[u]
  BY <1>1, <1>2, <1>3
<1>5. TypeOK'
  <2>1. /\ pc' \in [Tasks -> Labels] /\ lock' \in [Tasks -> Tasks \cup {None}]
        /\ asleep' \in SUBSET Tasks
    BY <1>1, <1>2 DEF Labels
  <2> QED
    BY <1>1, <1>4, <2>1
<1>6. Holds'
  <2>1. ASSUME NEW u \in Tasks, u # t PROVE pc'[u] = pc[u] /\ peer'[u] = peer[u]
    BY <1>1, <2>1
  <2>2. \A v \in Tasks : lock[v] # t => lock'[v] = lock[v]
    BY <1>1, <1>2
  <2>3. pc'[t] = "exit_parent"
    BY <1>1
  <2> QED
    BY <1>1, <1>2, <2>1, <2>2, <2>3 DEF Holds, ExitHolds, Peers
<1>8. Walks'
  <2>1. ASSUME NEW u \in Tasks, 
               pc'[u] \in {"exit_adopt", "exit_orphan", "exit_lock_init", "wait_look", "wait_test"}
        PROVE  u \notin {t, init_task} /\ pc'[u] = pc[u] /\ children'[u] = children[u]
    <3>1. u # t /\ pc'[u] = pc[u]
      BY <1>1, <2>1
    <3>2. u # init_task
      BY <1>2, <2>1, <3>1 DEF Holds, ExitHolds
    <3> QED
      BY <1>4, <3>1, <3>2
  <2> QED
    BY <1>1, <2>1 DEF Walks
<1> QED
  BY <1>5, <1>6, <1>8, <1>9

LEMMA ExitOrphanThreads ==
  ASSUME ThreadInv, NEW t \in Tasks, ExitOrphan(t)
  PROVE  ThreadInv'
<1> DEFINE c == AtCursor(t)
<1>1. /\ pc[t] = "exit_orphan" /\ ppid' = [ppid EXCEPT ![c] = None]
      /\ Advance(t, "exit_orphan", "exit_parent")
      /\ lock' = [lock EXCEPT ![t] = IF MoreChildren(t) THEN t ELSE None]
      /\ UNCHANGED <<parent, children, flags, waiters, asleep, peer, call, todo, sig, report,
                     reaped, bounds, ub>>
  BY DEF ExitOrphan, At, On
<1>2. cursor[t] \in 1 .. Len(children[t]) /\ lock[t] = t /\ c \in Tasks
  BY <1>1 DEF AtCursor, ThreadInv, TypeOK, Walks, Holds, ExitHolds
<1> HIDE DEF c
<1>3. \/ /\ MoreChildren(t) /\ pc' = [pc EXCEPT ![t] = "exit_orphan"]
         /\ cursor' = [cursor EXCEPT ![t] = cursor[t] + 1]
         /\ cursor[t] + 1 \in 1 .. Len(children[t]) /\ lock' = [lock EXCEPT ![t] = t]
      \/ /\ ~MoreChildren(t) /\ pc' = [pc EXCEPT ![t] = "exit_parent"]
         /\ cursor' = [cursor EXCEPT ![t] = 0] /\ lock' = [lock EXCEPT ![t] = None]
  <2>1. CASE MoreChildren(t)
    BY <1>1, <1>2, <2>1, Advances DEF ThreadInv
  <2>2. CASE ~MoreChildren(t)
    BY <1>1, <1>2, <2>2, Advances DEF ThreadInv
  <2> QED
    BY <2>1, <2>2
<1>4. init_task \in Tasks /\ None \notin Tasks
  BY ProcessTreeAssumption DEF ProcessTreeAssumption
<1>8. PICK place \in {"exit_orphan", "exit_parent"} : pc' = [pc EXCEPT ![t] = place]
  BY <1>3
<1>10. Peers' /\ Counted'
  BY <1>1, <1>8, OthersKept DEF ThreadInv, flags
<1> USE DEF flags, bounds, ThreadInv, TypeOK
<1>5. /\ pc' \in [Tasks -> Labels] /\ cursor' \in [Tasks -> Nat]
      /\ lock' \in [Tasks -> Tasks \cup {None}] /\ ppid' \in [Tasks -> Tasks \cup {None}]
  <2>1. pc' \in [Tasks -> Labels]
    BY <1>8 DEF Labels
  <2>2. cursor[t] + 1 \in Nat
    BY <1>2
  <2>3. cursor' \in [Tasks -> Nat]
    <3>1. CASE cursor' = [cursor EXCEPT ![t] = cursor[t] + 1]
      BY <2>2, <3>1
    <3>2. CASE cursor' = [cursor EXCEPT ![t] = 0]
      BY <3>2
    <3> QED
      BY <1>3, <3>1, <3>2
  <2>4. lock' \in [Tasks -> Tasks \cup {None}]
    BY <1>1
  <2>5. ppid' \in [Tasks -> Tasks \cup {None}]
    BY <1>1, <1>2
  <2> QED
    BY <2>1, <2>3, <2>4, <2>5
<1>6. TypeOK'
  BY <1>1, <1>5
<1>7. Holds'
  <2>1. ASSUME NEW u \in Tasks
        PROVE  /\ peer'[u] = peer[u] /\ sig'[u] = sig[u] /\ parent'[u] = parent[u]
               /\ (u # t => pc'[u] = pc[u] /\ lock'[u] = lock[u])
    BY <1>1, <1>8
  <2>2. \/ pc'[t] = "exit_orphan" /\ lock'[t] = t
        \/ pc'[t] = "exit_parent"
    BY <1>3
  <2>3. lock[t] = t /\ t = init_task
    BY <1>1 DEF Holds, ExitHolds
  <2> QED
    BY <1>4, <2>1, <2>2, <2>3 DEF Holds, ExitHolds, Peers
<1>9. Walks'
  <2>1. ASSUME NEW u \in Tasks, u # t
        PROVE  pc'[u] = pc[u] /\ cursor'[u] = cursor[u] /\ children'[u] = children[u]
    BY <1>1, <1>3, <2>1
  <2>2. \/ pc'[t] = "exit_orphan" /\ cursor'[t] \in 1 .. Len(children[t])
        \/ pc'[t] = "exit_parent"
    BY <1>3
  <2>3. children'[t] = children[t]
    BY <1>1
  <2> QED
    BY <2>1, <2>2, <2>3 DEF Walks
<1> QED
  BY <1>6, <1>7, <1>9, <1>10

LEMMA ExitParentThreads ==
  ASSUME ThreadInv, NEW t \in Tasks, ExitParent(t)
  PROVE  ThreadInv'
<1>1. /\ pc[t] = "exit_parent"
      /\ \/ pc' = [pc EXCEPT ![t] = "gone"] /\ UNCHANGED peer
         \/ /\ parent[t] # None /\ pc' = [pc EXCEPT ![t] = "exit_notify"]
            /\ peer' = [peer EXCEPT ![t] = parent[t]]
      /\ UNCHANGED <<task, flags, sync, call, cursor, todo, sig, report, reaped, bounds, ub>>
  BY DEF ExitParent, At, On, Goto
<1>2. parent[t] # None => parent[t] \in Tasks
  BY DEF ThreadInv, TypeOK
<1> USE <1>1, <1>2 DEF task, flags, sync, bounds, ThreadInv, TypeOK
<1>3. TypeOK'
  <2>1. pc' \in [Tasks -> Labels] /\ peer' \in [Tasks -> Tasks \cup {None}]
    BY DEF Labels
  <2> QED
    BY <2>1
<1>4. Holds' /\ Walks' /\ Counted'
  <2>1. Holds'
    BY DEF Holds, ExitHolds
  <2>2. Walks'
    BY DEF Walks
  <2>3. Counted'
    <3>1. pc'[t] \in {"gone", "exit_notify"} /\ \A u \in Tasks : u # t => pc'[u] = pc[u]
      OBVIOUS
    <3>2. UNCHANGED <<waiters, asleep, termsig, exited>>
      OBVIOUS
    <3> QED
      BY <3>1, <3>2 DEF Counted
  <2> QED
    BY <2>1, <2>2, <2>3
<1>5. Peers'
  <2>1. CASE pc' = [pc EXCEPT ![t] = "gone"] /\ UNCHANGED peer
    BY <2>1 DEF Peers
  <2>2. CASE /\ parent[t] # None /\ pc' = [pc EXCEPT ![t] = "exit_notify"]
             /\ peer' = [peer EXCEPT ![t] = parent[t]]
    BY <2>2 DEF Peers
  <2> QED
    BY <2>1, <2>2
<1> QED
  BY <1>3, <1>4, <1>5

\* The parent's mutex is free when it is taken, whoever's it is by now.
LEMMA ExitNotifyThreads ==
  ASSUME ThreadInv, NEW t \in Tasks, ExitNotify(t)
  PROVE  ThreadInv'
<1>1. /\ pc[t] = "exit_notify" /\ lock[peer[t]] = None
      /\ \/ UNCHANGED <<lock, ub>>
         \/ lock' = [lock EXCEPT ![peer[t]] = t] /\ ub' = "unlock_not_held"
      /\ asleep' \subseteq asleep
      /\ peer' = [peer EXCEPT ![t] = None] /\ pc' = [pc EXCEPT ![t] = "gone"]
      /\ UNCHANGED <<task, flags, waiters, call, cursor, todo, sig, report, reaped, bounds>>
  BY DEF ExitNotify, On, At, Goto, Broadcast, Unlocked
<1>2. peer[t] \in Tasks /\ None \notin Tasks
  BY <1>1, ProcessTreeAssumption DEF ProcessTreeAssumption, ThreadInv, Peers
<1>8. Peers' /\ Counted'
  <2>1. \A u \in Tasks \ {t} : peer'[u] = peer[u]
    BY <1>1 DEF ThreadInv, TypeOK
  <2> QED
    BY <1>1, <2>1, OthersKept DEF ThreadInv, flags
<1> USE <1>1, <1>2 DEF task, flags, bounds, ThreadInv, TypeOK
<1>3. lock' \in [Tasks -> Tasks \cup {None}] /\ \A u \in Tasks : lock[u] \in Tasks => lock'[u] = lock[u]
  <2>1. CASE UNCHANGED lock
    BY <2>1
  <2>2. CASE lock' = [lock EXCEPT ![peer[t]] = t]
    BY <2>2
  <2> QED
    BY <2>1, <2>2
<1>4. asleep' \in SUBSET Tasks /\ asleep' \subseteq asleep /\ ub' \in {ub, "unlock_not_held"}
  OBVIOUS
<1>5. TypeOK'
  BY <1>3, <1>4 DEF Labels
<1>6. Holds'
  <2>1. \A u \in Tasks : pc'[u] = IF u = t THEN "gone" ELSE pc[u]
    OBVIOUS
  <2>2. init_task \in Tasks
    BY ProcessTreeAssumption DEF ProcessTreeAssumption
  <2>3. ASSUME NEW u \in Tasks, pc'[u] \in ExitHolds \cup {"kill", "kill_notify"}
        PROVE  /\ u # t /\ pc'[u] = pc[u] /\ peer'[u] = peer[u] /\ sig'[u] = sig[u]
               /\ lock[u] \in Tasks => lock'[u] = lock[u]
               /\ lock[init_task] \in Tasks => lock'[init_task] = lock[init_task]
    BY <1>3, <2>1, <2>2, <2>3 DEF ExitHolds, local
  <2>4. ASSUME NEW u \in Tasks, pc'[u] = "kill_notify"
        PROVE  lock'[peer'[u]] = u /\ parent'[peer'[u]] \in Tasks
    <3>1. pc[u] = "kill_notify" /\ peer'[u] = peer[u]
      BY <2>3, <2>4
    <3>2. peer[u] \in Tasks /\ lock[peer[u]] = u /\ parent[peer[u]] \in Tasks
      BY <3>1 DEF Peers, Holds
    <3> QED
      BY <1>3, <3>1, <3>2
  <2> QED
    BY <2>3, <2>4 DEF Holds, ExitHolds
<1>7. Walks'
  BY DEF Walks
<1> QED
  BY <1>5, <1>6, <1>7, <1>8

-----------------------------------------------------------------------------
(* kill                                                                    *)

LEMMA KillThreads ==
  ASSUME ThreadInv, NEW k \in Tasks, NEW S \in SUBSET Tasks, NEW g \in Signals, Kill(k, S, g)
  PROVE  ThreadInv'
<1>1. /\ pc[k] = "run" /\ kills < MaxKills /\ kills' = kills + 1
      /\ todo' = [todo EXCEPT ![k] = S] /\ sig' = [sig EXCEPT ![k] = g]
      /\ pc' = [pc EXCEPT ![k] = "kill"]
      /\ UNCHANGED <<task, flags, sync, peer, call, cursor, report, reaped, faults, ub>>
  BY DEF Kill, At, On, Goto
<1>2. kills' \in 0 .. MaxKills
  BY <1>1, ProcessTreeAssumption DEF ProcessTreeAssumption, ThreadInv, TypeOK
<1> USE <1>1 DEF task, flags, sync, ThreadInv, TypeOK
<1>3. todo' \in [Tasks -> SUBSET Tasks] /\ sig' \in [Tasks -> Signals \cup {"none"}]
      /\ pc' \in [Tasks -> Labels]
  BY DEF Labels
<1>4. TypeOK'
  BY <1>2, <1>3
<1>5. Holds' /\ Walks' /\ Counted'
  BY DEF Holds, ExitHolds, Walks, Counted
<1>6. Peers'
  BY DEF Peers
<1> QED
  BY <1>4, <1>5, <1>6

\* What a signal changes of a task, and what it never takes back.
LEMMA FlagsSet ==
  ASSUME TypeOK, NEW t \in Tasks, NEW g \in Signals, SetFlags(t, g)
  PROVE  /\ state' \in [Tasks -> {"RUNNING", "STOPPED", "ZOMBIE"}]
         /\ exited' \in [Tasks -> BOOLEAN] /\ termsig' \in [Tasks -> {"none", "TERM"}]
         /\ stopped' \in [Tasks -> BOOLEAN] /\ continued' \in [Tasks -> BOOLEAN]
         /\ \A u \in Tasks \ {t} : UNCHANGED <<exited[u], stopped[u], continued[u]>>
         /\ exited[t] = TRUE => exited'[t] = TRUE
         /\ UNCHANGED termsig \/ (exited'[t] = TRUE /\ \A u \in Tasks \ {t} : termsig'[u] = termsig[u])
         /\ continued[t] = TRUE => continued'[t] = TRUE
<1>1. g \in {"STOP", "CONT", "TERM"}
  BY ProcessTreeAssumption DEF ProcessTreeAssumption
<1>2. CASE g = "STOP"
  BY <1>2 DEF SetFlags, TypeOK
<1>3. CASE g = "CONT"
  <2>1. /\ state' = [state EXCEPT ![t] = "RUNNING"] /\ stopped' = [stopped EXCEPT ![t] = FALSE]
        /\ continued' = [continued EXCEPT ![t] = TRUE] /\ UNCHANGED <<exited, termsig>>
    BY <1>3 DEF SetFlags
  <2> QED
    BY <2>1 DEF TypeOK
<1>4. CASE g = "TERM"
  <2>1. /\ termsig' = [termsig EXCEPT ![t] = "TERM"] /\ exited' = [exited EXCEPT ![t] = TRUE]
        /\ state' = [state EXCEPT ![t] = "ZOMBIE"] /\ UNCHANGED <<stopped, continued>>
    BY <1>4 DEF SetFlags
  <2> QED
    BY <2>1 DEF TypeOK
<1> QED
  BY <1>1, <1>2, <1>3, <1>4

LEMMA KillApplyThreads ==
  ASSUME ThreadInv, NEW k \in Tasks, NEW t \in Tasks, KillApply(k, t)
  PROVE  ThreadInv'
<1>1. /\ pc[k] = "kill" /\ t \in todo[k] /\ lock[t] = None /\ SetFlags(t, sig[k])
      /\ UNCHANGED <<task, exit_status, waiters, call, cursor, sig, report, reaped, bounds, ub>>
  BY DEF KillApply, On, Unlocked
<1>2. \/ /\ parent[t] = None /\ asleep' \subseteq asleep /\ UNCHANGED lock
         /\ todo' = [todo EXCEPT ![k] = @ \ {t}] /\ peer' = [peer EXCEPT ![k] = None]
         /\ \E place \in {"run", "kill"} : pc' = [pc EXCEPT ![k] = place]
      \/ /\ parent[t] # None /\ lock' = [lock EXCEPT ![t] = k] /\ peer' = [peer EXCEPT ![k] = t]
         /\ pc' = [pc EXCEPT ![k] = "kill_notify"] /\ UNCHANGED <<asleep, todo>>
  BY DEF KillApply, Delivered, Broadcast, Goto
<1>3. sig[k] \in Signals /\ None \notin Tasks
  BY <1>1, ProcessTreeAssumption DEF ProcessTreeAssumption, ThreadInv, Holds
<1>4. /\ state' \in [Tasks -> {"RUNNING", "STOPPED", "ZOMBIE"}]
      /\ exited' \in [Tasks -> BOOLEAN] /\ termsig' \in [Tasks -> {"none", "TERM"}]
      /\ stopped' \in [Tasks -> BOOLEAN] /\ continued' \in [Tasks -> BOOLEAN]
      /\ Counted => \A u \in Tasks : termsig'[u] # "none" => exited'[u] = TRUE
  <2>1. /\ \A u \in Tasks \ {t} : exited'[u] = exited[u]
        /\ exited[t] = TRUE => exited'[t] = TRUE
        /\ UNCHANGED termsig \/ (exited'[t] = TRUE /\ \A u \in Tasks \ {t} : termsig'[u] = termsig[u])
    BY <1>1, <1>3, FlagsSet DEF ThreadInv
  <2>2. Counted => \A u \in Tasks : termsig'[u] # "none" => exited'[u] = TRUE
    BY <2>1 DEF Counted
  <2> QED
    BY <1>1, <1>3, <2>2, FlagsSet DEF ThreadInv
<1> USE DEF task, bounds, ThreadInv, TypeOK
<1>5. /\ pc' \in [Tasks -> Labels] /\ peer' \in [Tasks -> Tasks \cup {None}]
      /\ lock' \in [Tasks -> Tasks \cup {None}] /\ todo' \in [Tasks -> SUBSET Tasks]
      /\ asleep' \in SUBSET Tasks /\ asleep' \subseteq asleep
  <2>1. CASE parent[t] = None
    <3>1. PICK place \in {"run", "kill"} : pc' = [pc EXCEPT ![k] = place]
      BY <1>2, <2>1
    <3>2. place \in Labels
      BY DEF Labels
    <3>3. /\ UNCHANGED lock /\ asleep' \subseteq asleep
          /\ todo' = [todo EXCEPT ![k] = @ \ {t}] /\ peer' = [peer EXCEPT ![k] = None]
      BY <1>2, <2>1
    <3>4. todo' \in [Tasks -> SUBSET Tasks] /\ peer' \in [Tasks -> Tasks \cup {None}]
      BY <3>3
    <3>5. pc' \in [Tasks -> Labels]
      BY <3>1, <3>2
    <3> QED
      BY <3>3, <3>4, <3>5
  <2>2. CASE parent[t] # None
    <3>1. /\ lock' = [lock EXCEPT ![t] = k] /\ peer' = [peer EXCEPT ![k] = t]
          /\ pc' = [pc EXCEPT ![k] = "kill_notify"] /\ UNCHANGED <<asleep, todo>>
      BY <1>2, <2>2
    <3>2. pc' \in [Tasks -> Labels]
      BY <3>1 DEF Labels
    <3>3. lock' \in [Tasks -> Tasks \cup {None}] /\ peer' \in [Tasks -> Tasks \cup {None}]
      BY <3>1
    <3> QED
      BY <3>1, <3>2, <3>3
  <2> QED
    BY <2>1, <2>2
<1>6. TypeOK'
  BY <1>1, <1>4, <1>5
<1>7. CASE parent[t] = None
  <2>1. /\ UNCHANGED lock /\ peer' = [peer EXCEPT ![k] = None]
        /\ \E place \in {"run", "kill"} : pc' = [pc EXCEPT ![k] = place]
    BY <1>2, <1>7
  <2>2. Holds' /\ Walks'
    BY <1>1, <1>3, <1>5, <2>1 DEF Holds, ExitHolds, Walks
  <2>4. Counted'
    BY <1>1, <1>4, <1>5, <2>1 DEF Counted
  <2>3. Peers'
    BY <1>1, <2>1 DEF Peers
  <2> QED
    BY <1>6, <2>2, <2>3, <2>4
<1>8. CASE parent[t] # None
  <2>1. /\ lock' = [lock EXCEPT ![t] = k] /\ peer' = [peer EXCEPT ![k] = t]
        /\ pc' = [pc EXCEPT ![k] = "kill_notify"] /\ parent[t] \in Tasks
    BY <1>2, <1>8
  <2>2. Holds'
    BY <1>1, <1>3, <2>1, ProcessTreeAssumption
       DEF ProcessTreeAssumption, Holds, ExitHolds, Peers
  <2>3. Walks' /\ Counted'
    BY <1>1, <1>4, <1>5, <2>1 DEF Walks, Counted
  <2>4. Peers'
    BY <1>1, <2>1 DEF Peers
  <2> QED
    BY <1>6, <2>2, <2>3, <2>4
<1> QED
  BY <1>7, <1>8

LEMMA KillNotifyThreads ==
  ASSUME ThreadInv, NEW k \in Tasks, KillNotify(k)
  PROVE  ThreadInv'
<1> DEFINE t == peer[k]
<1>1. /\ pc[k] = "kill_notify" /\ asleep' \subseteq asleep /\ lock' = [lock EXCEPT ![t] = None]
      /\ todo' = [todo EXCEPT ![k] = @ \ {t}] /\ peer' = [peer EXCEPT ![k] = None]
      /\ \E place \in {"run", "kill"} : pc' = [pc EXCEPT ![k] = place]
      /\ UNCHANGED <<task, flags, waiters, call, cursor, sig, report, reaped, bounds, ub>>
  BY DEF KillNotify, On, Delivered, Goto
<1>2. t \in Tasks /\ lock[t] = k
  BY <1>1 DEF ThreadInv, Holds, Peers
<1> HIDE DEF t
<1> USE DEF task, flags, bounds, ThreadInv, TypeOK
<1>4. TypeOK'
  <2>1. /\ pc' \in [Tasks -> Labels] /\ peer' \in [Tasks -> Tasks \cup {None}]
        /\ lock' \in [Tasks -> Tasks \cup {None}] /\ todo' \in [Tasks -> SUBSET Tasks]
        /\ asleep' \in SUBSET Tasks
    BY <1>1, <1>2 DEF Labels
  <2> QED
    BY <1>1, <2>1
<1>5. Holds'
  <2>1. ASSUME NEW u \in Tasks
        PROVE  /\ (u # t => lock'[u] = lock[u]) /\ sig'[u] = sig[u] /\ parent'[u] = parent[u]
               /\ (u # k => pc'[u] = pc[u] /\ peer'[u] = peer[u])
    <3>1. sig' = sig /\ parent' = parent
      BY <1>1
    <3>2. (u # t => lock'[u] = lock[u]) /\ (u # k => pc'[u] = pc[u])
      BY <1>1
    <3>3. u # k => peer'[u] = peer[u]
      BY <1>1
    <3> QED
      BY <3>1, <3>2, <3>3
  <2>2. pc'[k] \in {"run", "kill"} /\ sig[k] \in Signals
    BY <1>1, <1>2 DEF Holds
  <2>3. k # None /\ t # None /\ init_task \in Tasks
    BY ProcessTreeAssumption, <1>2 DEF ProcessTreeAssumption
  <2>4. pc[k] = "kill_notify"
    BY <1>1
  <2>5. ASSUME NEW u \in Tasks, u # k
        PROVE  /\ pc[u] \in ExitHolds => lock'[u] = u
               /\ pc[u] \in {"exit_adopt", "exit_splice"} => lock'[init_task] = u
               /\ pc[u] = "kill_notify" => lock'[peer[u]] = u
               /\ pc[u] \in {"wait_look", "wait_test"} => lock'[u] = u
    <3>1. ASSUME NEW m \in Tasks, lock[m] = u PROVE lock'[m] = u
      BY <1>2, <2>1, <2>3, <2>5, <3>1
    <3>2. /\ pc[u] \in ExitHolds => lock[u] = u
          /\ pc[u] \in {"exit_adopt", "exit_splice"} => lock[init_task] = u
          /\ pc[u] = "kill_notify" => lock[peer[u]] = u /\ peer[u] \in Tasks
          /\ pc[u] \in {"wait_look", "wait_test"} => lock[u] = u
      BY DEF Holds, ExitHolds, Peers
    <3> QED
      BY <2>3, <3>1, <3>2
  <2> QED
    BY <2>1, <2>2, <2>4, <2>5 DEF Holds, ExitHolds, Peers
<1>6. Walks' /\ Counted'
  BY <1>1 DEF Walks, Counted
<1>7. Peers'
  BY <1>1 DEF Peers
<1> QED
  BY <1>4, <1>5, <1>6, <1>7

LEMMA ThreadsNext == ThreadInv /\ [Next]_vars => ThreadInv'
<1> SUFFICES ASSUME ThreadInv, [Next]_vars PROVE ThreadInv'
  OBVIOUS
<1>1. ASSUME NEW t \in Tasks, Inside(t) PROVE ThreadInv'
  <2>1. CASE UseAfterFree(t)
    BY <2>1 DEF UseAfterFree, task, flags, sync, local, bounds, ThreadInv, TypeOK, Holds, Peers,
                Walks, Counted
  <2>2. CASE WaitWake(t) \/ WaitLook(t)
    BY <2>2, WakePasses, PassThreads
  <2>3. CASE WaitTest(t)
    BY <2>3, TestPasses, PassThreads
  <2> QED
    BY <1>1, <2>1, <2>2, <2>3, ForkAllocThreads, ForkNoMemoryThreads, ForkLinkThreads, ForkStartThreads,
       ForkFailThreads, WaitStatusThreads, ExitLockInitThreads, ExitAdoptThreads, ExitSpliceThreads,
       ExitOrphanThreads, ExitParentThreads, ExitNotifyThreads, KillApplyThreads, KillNotifyThreads
    DEF Inside
<1>2. ASSUME NEW t \in Tasks, Calls(t) PROVE ThreadInv'
  <2>1. ASSUME NEW w \in WaitCalls[t], ixland_waitpid(t, w) PROVE ThreadInv'
    BY <2>1, CallPasses, PassThreads
  <2>2. ASSUME NEW g \in Signals, NEW u \in Tasks, ixland_kill(t, u, g) PROVE ThreadInv'
    BY <2>2, KillThreads DEF ixland_kill
  <2>3. ASSUME NEW g \in Signals, ixland_killpg(t, g) PROVE ThreadInv'
    BY <2>3, KillThreads DEF ixland_killpg, InTable
  <2> QED
    BY <1>2, <2>1, <2>2, <2>3, ForkCheckThreads, ExitBeginThreads DEF Calls
<1>3. CASE UNCHANGED vars
  BY <1>3
     DEF vars, task, flags, sync, local, bounds, ThreadInv, TypeOK, Holds, Peers, Walks,
         Counted
<1> QED
  BY <1>1, <1>2, <1>3, SpuriousWakeThreads DEF Next

LEMMA ThreadsAlways == Spec => []ThreadInv
  BY InitThreads, ThreadsNext, PTL DEF Spec

(* Every variable of the tree keeps its type, the mutexes, peers and       *)
(* positions that the steps rely on among them, whatever fails.            *)
THEOREM TreeTypeCorrect == Spec => []TypeOK
<1>1. ThreadInv => TypeOK
  BY DEF ThreadInv
<1> QED
  BY <1>1, ThreadsAlways, PTL


-----------------------------------------------------------------------------
(***************************************************************************)
(* Who is on which list, who is being reaped, and whose child a task is.   *)
(***************************************************************************)
Has(p, c) == In(children[p], c)
Reaps(p, c) == pc[p] = "wait_reap" /\ peer[p] = c

\* A born task that is not reaped is on one list, once, or in one hand.
Lists ==
  /\ \A p \in Tasks : Distinct(children[p])
  /\ \A p, q, c \in Tasks : Has(p, c) /\ Has(q, c) => p = q
  /\ \A p, q, c \in Tasks : Reaps(p, c) /\ Reaps(q, c) => p = q
  /\ \A p, q, c \in Tasks : Reaps(p, c) => ~Has(q, c)
  /\ \A p, c \in Tasks : Has(p, c) \/ Reaps(p, c) => c \in Born \ reaped /\ c # init_task
  /\ reaped \subseteq Born /\ init_task \in Born
  /\ \A t \in Tasks : pc[t] = "fork_start" => Has(t, peer[t])

\* Born and not reaped, but on no list and in nobody's hand.
Astray(c) ==
  /\ c \in Born \ reaped /\ c # init_task
  /\ \A p \in Tasks : ~Has(p, c) /\ ~Reaps(p, c)

\* A step loses nobody and recovers nobody.
SameAstray == \A c \in Tasks : Astray(c)' <=> Astray(c)

LEMMA InitLists == Init => Lists /\ \A c \in Tasks : ~Astray(c)
<1> SUFFICES ASSUME Init PROVE Lists /\ \A c \in Tasks : ~Astray(c)
  OBVIOUS
<1>1. /\ \A p \in Tasks : children[p] = <<>> /\ peer[p] = None
      /\ \A p \in Tasks : pc[p] = IF p = init_task THEN "run" ELSE "unborn"
      /\ reaped = {} /\ init_task \in Tasks
  BY ProcessTreeAssumption DEF ProcessTreeAssumption, Init
<1>2. \A p, c \in Tasks : ~Has(p, c) /\ ~Reaps(p, c) /\ Distinct(children[p])
  BY <1>1 DEF Has, In, Reaps, Distinct
<1>3. Born = {init_task}
  BY <1>1 DEF Born
<1> QED
  BY <1>1, <1>2, <1>3 DEF Lists, Astray

\* A step that leaves lists, births and hands alone.
LEMMA ListsKept ==
  ASSUME Lists, ThreadInv, ThreadInv', UNCHANGED <<children, reaped>>,
         \A u \in Tasks : u \in Born' <=> u \in Born,
         \A p \in Tasks : pc'[p] = "wait_reap" <=> pc[p] = "wait_reap",
         \A p \in Tasks : pc[p] = "wait_reap" => peer'[p] = peer[p],
         \A t \in Tasks : pc'[t] = "fork_start" => pc[t] = "fork_start" /\ peer'[t] = peer[t]
  PROVE  Lists' /\ SameAstray
<1>1. \A p, c \in Tasks : (Reaps(p, c)' <=> Reaps(p, c)) /\ (Has(p, c)' <=> Has(p, c))
  BY DEF Reaps, Has, In
<1>2. Born' = Born
  BY DEF Born
<1>3. \A p \in Tasks : Distinct(children[p])'
  BY DEF Lists, Distinct
<1>4. \A t \in Tasks : pc'[t] = "fork_start" => In(children'[t], peer'[t])
  BY DEF Lists, Has
<1>5. \A p, q, c \in Tasks : Reaps(p, c) /\ Reaps(q, c) => p = q
  BY DEF Lists
<1> HIDE DEF Reaps
<1>6. Lists'
  BY <1>1, <1>2, <1>3, <1>4, <1>5 DEF Lists, Has
<1>7. SameAstray
  BY <1>1, <1>2 DEF SameAstray, Astray
<1> QED
  BY <1>6, <1>7

\* Where a thread may go without touching them.
LEMMA QuietLists ==
  ASSUME Lists, ThreadInv, ThreadInv', UNCHANGED <<children, reaped>>,
         NEW t \in Tasks, NEW place, pc' = [pc EXCEPT ![t] = place],
         pc[t] \notin {"unborn", "unlinked", "wait_reap"},
         place \notin {"unborn", "unlinked", "wait_reap", "fork_start"},
         \A u \in Tasks \ {t} : peer'[u] = peer[u]
  PROVE  Lists' /\ SameAstray
<1>1. \A u \in Tasks : pc'[u] = IF u = t THEN place ELSE pc[u]
  BY DEF ThreadInv, TypeOK
<1>2. \A u \in Tasks : u \in Born' <=> u \in Born
  BY <1>1 DEF Born
<1> QED
  BY <1>1, <1>2, ListsKept

Elsewhere == {"run", "gone", "fork_alloc", "kill", "kill_notify"} \cup Exits

\* The steps of one thread by which no list, no hand and no call changes.
QuietStep(t) ==
  /\ pc[t] \in Elsewhere
  /\ \E place \in Elsewhere : pc' = [pc EXCEPT ![t] = place]
  /\ \A u \in Tasks \ {t} : peer'[u] = peer[u] /\ cursor'[u] = cursor[u]
  /\ UNCHANGED <<children, reaped, faults, call>>

Quiet(t) ==
  \/ ForkCheck(t) \/ ForkNoMemory(t)
  \/ \E s \in ExitCodes : ExitBegin(t, s)
  \/ ExitLockInit(t) \/ ExitAdopt(t) \/ ExitOrphan(t) \/ ExitParent(t) \/ ExitNotify(t)
  \/ \E S \in SUBSET InTable, g \in Signals : Kill(t, S, g)
  \/ \E u \in Tasks : KillApply(t, u)
  \/ KillNotify(t)

LEMMA QuietSteps ==
  ASSUME ThreadInv, NEW t \in Tasks, Quiet(t)
  PROVE  QuietStep(t)
<1>0. \A v : \A u \in Tasks \ {t} :
        /\ peer' = [peer EXCEPT ![t] = v] \/ peer' = peer => peer'[u] = peer[u]
        /\ cursor' = [cursor EXCEPT ![t] = v] \/ cursor' = cursor => cursor'[u] = cursor[u]
  BY DEF ThreadInv, TypeOK
<1> USE DEF QuietStep, Elsewhere, Exits, ExitHolds, On, At, Goto, task, flags, sync, local, bounds
<1>1. CASE ForkCheck(t) \/ ForkNoMemory(t)
  BY <1>1 DEF ForkCheck, ForkNoMemory
<1>2. ASSUME NEW s \in ExitCodes, ExitBegin(t, s) PROVE QuietStep(t)
  BY <1>0, <1>2 DEF ExitBegin
<1>3. CASE ExitLockInit(t)
  BY <1>3 DEF ExitLockInit
<1>4. CASE ExitAdopt(t)
  BY <1>0, <1>4 DEF ExitAdopt, Advance
<1>5. CASE ExitOrphan(t)
  BY <1>0, <1>5 DEF ExitOrphan, Advance
<1>6. CASE ExitParent(t)
  BY <1>0, <1>6 DEF ExitParent
<1>7. CASE ExitNotify(t)
  BY <1>0, <1>7 DEF ExitNotify
<1>8. ASSUME NEW S \in SUBSET InTable, NEW g \in Signals, Kill(t, S, g) PROVE QuietStep(t)
  BY <1>8 DEF Kill
<1>9. ASSUME NEW u \in Tasks, KillApply(t, u) PROVE QuietStep(t)
  BY <1>0, <1>9 DEF KillApply, Delivered
<1>10. CASE KillNotify(t)
  BY <1>0, <1>10 DEF KillNotify, Delivered
<1> QED
  BY <1>1, <1>2, <1>3, <1>4, <1>5, <1>6, <1>7, <1>8, <1>9, <1>10 DEF Quiet

LEMMA QuietKeepsLists ==
  ASSUME Lists, ThreadInv, ThreadInv', NEW t \in Tasks, Quiet(t)
  PROVE  Lists' /\ SameAstray
<1>1. QuietStep(t)
  BY QuietSteps
<1>2. PICK place \in Elsewhere : pc' = [pc EXCEPT ![t] = place]
  BY <1>1 DEF QuietStep
<1> QED
  BY <1>1, <1>2, QuietLists DEF QuietStep, Elsewhere, Exits, ExitHolds

LEMMA ForkAllocLists ==
  ASSUME Lists, ThreadInv, ThreadInv', NEW t \in Tasks, NEW c \in Tasks, ForkAlloc(t, c)
  PROVE  Lists' /\ SameAstray
<1>1. /\ pc[t] = "fork_alloc" /\ pc[c] = "unborn" /\ peer' = [peer EXCEPT ![t] = c]
      /\ pc' = [pc EXCEPT ![t] = "fork_link", ![c] = "unlinked"]
      /\ UNCHANGED <<children, reaped>>
  BY DEF ForkAlloc, At, On
<1>2. \A u \in Tasks : /\ pc'[u] = IF u = c THEN "unlinked" ELSE IF u = t THEN "fork_link" ELSE pc[u]
                       /\ u # t => peer'[u] = peer[u]
  BY <1>1 DEF ThreadInv, TypeOK
<1>3. ASSUME NEW u \in Tasks
      PROVE  /\ u \in Born' <=> u \in Born
             /\ pc'[u] = "wait_reap" <=> pc[u] = "wait_reap"
             /\ pc[u] = "wait_reap" => peer'[u] = peer[u]
             /\ pc'[u] = "fork_start" => pc[u] = "fork_start" /\ peer'[u] = peer[u]
  <2>0. /\ pc[t] = "fork_alloc" /\ pc[c] = "unborn" /\ pc'[c] = "unlinked"
        /\ t # c => pc'[t] = "fork_link"
    BY <1>1, <1>2
  <2>1. CASE u = c
    BY <2>0, <2>1 DEF Born
  <2>2. CASE u = t /\ t # c
    BY <2>0, <2>2 DEF Born
  <2>3. CASE u \notin {c, t}
    BY <1>2, <2>3 DEF Born
  <2> QED
    BY <2>1, <2>2, <2>3
<1> QED
  BY <1>1, <1>3, ListsKept

LEMMA ForkStartLists ==
  ASSUME Lists, ThreadInv, ThreadInv', NEW t \in Tasks, ForkStart(t)
  PROVE  Lists' /\ SameAstray
<1> DEFINE c == peer[t]
<1>1. /\ pc[t] = "fork_start" /\ peer' = [peer EXCEPT ![t] = None]
      /\ pc' = [pc EXCEPT ![t] = "run", ![c] = "run"]
      /\ UNCHANGED <<children, reaped>>
  BY DEF ForkStart, At, On, task
<1>2. c \in Tasks /\ pc[c] = "linked"
  BY <1>1 DEF ThreadInv, Peers
<1> HIDE DEF c
<1>3. \A u \in Tasks : /\ pc'[u] = IF u \in {c, t} THEN "run" ELSE pc[u]
                       /\ u # t => peer'[u] = peer[u]
  BY <1>1 DEF ThreadInv, TypeOK
<1>4. ASSUME NEW u \in Tasks
      PROVE  /\ u \in Born' <=> u \in Born
             /\ pc'[u] = "wait_reap" <=> pc[u] = "wait_reap"
             /\ pc[u] = "wait_reap" => peer'[u] = peer[u]
             /\ pc'[u] = "fork_start" => pc[u] = "fork_start" /\ peer'[u] = peer[u]
  <2>0. pc[t] = "fork_start" /\ pc[c] = "linked" /\ pc'[c] = "run" /\ pc'[t] = "run"
    BY <1>1, <1>2, <1>3
  <2>1. CASE u = c
    BY <2>0, <2>1 DEF Born
  <2>2. CASE u = t
    BY <2>0, <2>2 DEF Born
  <2>3. CASE u \notin {c, t}
    BY <1>3, <2>3 DEF Born
  <2> QED
    BY <2>1, <2>2, <2>3
<1> QED
  BY <1>1, <1>4, ListsKept

\* A task that is linked is on its parent's list and on no other.
LEMMA ForkLinkLists ==
  ASSUME Lists, ThreadInv, NEW t \in Tasks, ForkLink(t)
  PROVE  Lists' /\ SameAstray
<1> DEFINE c == peer[t]
<1>1. /\ pc[t] = "fork_link" /\ UNCHANGED <<peer, reaped>>
      /\ children' = [children EXCEPT ![t] = <<c>> \o children[t]]
      /\ pc' = [pc EXCEPT ![t] = "fork_start", ![c] = "linked"]
  BY DEF ForkLink, At, On, local
<1>2. c \in Tasks /\ pc[c] = "unlinked" /\ c \notin Born /\ peer[t] = c
  BY <1>1 DEF ThreadInv, Peers, Born
<1> HIDE DEF c
<1>3. \A u \in Tasks : pc'[u] = IF u = c THEN "linked" ELSE IF u = t THEN "fork_start" ELSE pc[u]
  BY <1>1 DEF ThreadInv, TypeOK
<1>4. \A u : u \in Born' <=> u \in Born \/ u = c
  <2>1. \A u \in Tasks : u \in Born' <=> u \in Born \/ u = c
    <3>1. ASSUME NEW u \in Tasks PROVE u \in Born' <=> u \in Born \/ u = c
      <4>0. pc[t] = "fork_link" /\ pc'[c] = "linked" /\ (t # c => pc'[t] = "fork_start")
        BY <1>1, <1>2, <1>3
      <4>1. CASE u = c
        BY <4>0, <4>1 DEF Born
      <4>2. CASE u = t /\ t # c
        BY <4>0, <4>2 DEF Born
      <4>3. CASE u \notin {c, t}
        BY <1>3, <4>3 DEF Born
      <4> QED
        BY <4>1, <4>2, <4>3
    <3> QED
      BY <3>1
  <2> QED
    BY <1>2, <2>1 DEF Born
<1>5. \A p \in Tasks : children'[p] = IF p = t THEN <<c>> \o children[t] ELSE children[p]
  BY <1>1 DEF ThreadInv, TypeOK
<1>6. \A p \in Tasks : ~In(children[p], c)
  BY <1>2 DEF Lists, Has
<1>7. children[t] \in Seq(Tasks) /\ Distinct(children[t])
  BY DEF Lists, ThreadInv, TypeOK
<1>8. /\ \A p \in Tasks : Distinct(children'[p])
      /\ \A p, x \in Tasks : In(children'[p], x) <=> In(children[p], x) \/ (p = t /\ x = c)
  <2>1. /\ Distinct(<<c>> \o children[t])
        /\ \A x : In(<<c>> \o children[t], x) <=> x = c \/ In(children[t], x)
    BY <1>2, <1>6, <1>7, FrontIn
  <2>2. \A p \in Tasks : Distinct(children[p])
    BY DEF Lists
  <2>3. \A p \in Tasks : Distinct(children'[p])
    BY <1>5, <2>1, <2>2
  <2>4. \A p, x \in Tasks : In(children'[p], x) <=> In(children[p], x) \/ (p = t /\ x = c)
    BY <1>5, <2>1
  <2> QED
    BY <2>3, <2>4
<1>9. \A p, x \in Tasks : Reaps(p, x)' <=> Reaps(p, x)
  <2>0. pc[t] = "fork_link" /\ pc[c] = "unlinked"
    BY <1>1, <1>2
  <2>1. ASSUME NEW p \in Tasks PROVE pc'[p] = "wait_reap" <=> pc[p] = "wait_reap"
    <3>1. CASE p \in {c, t}
      BY <1>3, <2>0, <3>1
    <3>2. CASE p \notin {c, t}
      BY <1>3, <3>2
    <3> QED
      BY <3>1, <3>2
  <2> QED
    BY <1>1, <2>1 DEF Reaps
<1>10. \A p, x \in Tasks : Reaps(p, x) => x # c
  BY <1>2 DEF Lists
<1>11. Lists'
  <2>1. \A p, q, x \in Tasks : In(children'[p], x) /\ In(children'[q], x) => p = q
    BY <1>6, <1>8 DEF Lists, Has
  <2>2. /\ \A p, q, x \in Tasks : Reaps(p, x)' /\ Reaps(q, x)' => p = q
        /\ \A p, q, x \in Tasks : Reaps(p, x)' => ~In(children'[q], x)
    BY <1>8, <1>9, <1>10 DEF Lists, Has
  <2>3. /\ \A p, x \in Tasks : In(children'[p], x) \/ Reaps(p, x)' => x \in Born' \ reaped' /\ x # init_task
        /\ reaped' \subseteq Born' /\ init_task \in Born'
    BY <1>1, <1>2, <1>4, <1>8, <1>9 DEF Lists, Has
  <2>4. \A u \in Tasks : pc'[u] = "fork_start" => In(children'[u], peer'[u])
    BY <1>1, <1>2, <1>3, <1>5, <1>7, <1>8, FrontIn DEF Lists, Has
  <2> QED
    BY <1>8, <2>1, <2>2, <2>3, <2>4 DEF Lists, Has
<1>12. SameAstray
  <2>1. ASSUME NEW x \in Tasks PROVE Astray(x)' <=> Astray(x)
    <3>1. CASE x = c
      <4>1. In(children'[t], x)
        BY <1>8, <3>1
      <4>2. ~Astray(x)'
        BY <4>1 DEF Astray, Has
      <4> QED
        BY <1>2, <3>1, <4>2 DEF Astray
    <3>2. CASE x # c
      <4>1. x \in Born' \ reaped' <=> x \in Born \ reaped
        BY <1>1, <1>4, <3>2
      <4>2. \A p \in Tasks : In(children'[p], x) <=> In(children[p], x)
        BY <1>8, <3>2
      <4> QED
        BY <1>9, <4>1, <4>2 DEF Astray, Has
    <3> QED
      BY <3>1, <3>2
  <2> QED
    BY <2>1 DEF SameAstray
<1> QED
  BY <1>11, <1>12

\* A pass of waitpid takes a terminated child into hand, or leaves all.
LEMMA PassLists ==
  ASSUME Lists, ThreadInv, ThreadInv', NEW t \in Tasks, NEW w, Pass(t, w)
  PROVE  Lists' /\ SameAstray
<1> DEFINE c == AtCursor(t)
<1>1. pc[t] \in Waiting /\ UNCHANGED reaped /\ children[t] \in Seq(Tasks)
  BY Passes DEF Pass
<1>2. \/ /\ c \in Tasks /\ c # None /\ In(children[t], c) /\ Hands(t, c)
         /\ Takes(t, c) \/ Tells(t, c)
      \/ NothingYet(t)
      \/ FallsAsleep(t, w)
      \/ \E place \in Searches, i \in 1 .. Len(children[t]) : Looks(t, w, place, i)
  BY Passes
<1> HIDE DEF c
<1> USE DEF Waiting, Searches
<1>4. ASSUME NEW place, pc' = [pc EXCEPT ![t] = place],
             place \in {"wait_report", "run", "wait_sleep", "wait_look", "wait_test"}, UNCHANGED children,
             \A u \in Tasks \ {t} : peer'[u] = peer[u]
      PROVE  Lists' /\ SameAstray
  BY <1>1, <1>4, QuietLists
<1>3. ASSUME NEW place \in Searches, NEW i \in 1 .. Len(children[t]), Looks(t, w, place, i)
      PROVE  Lists' /\ SameAstray
  BY <1>3, <1>4 DEF Looks
<1>5. CASE c \in Tasks /\ Hands(t, c) /\ Tells(t, c)
  <2>1. \A u \in Tasks \ {t} : peer'[u] = peer[u]
    BY <1>5 DEF Hands, ThreadInv, TypeOK
  <2> QED
    BY <1>4, <1>5, <2>1 DEF Tells
<1>6. CASE NothingYet(t)
  BY <1>4, <1>6 DEF NothingYet
<1>7. CASE FallsAsleep(t, w)
  BY <1>4, <1>7 DEF FallsAsleep
<1>8. CASE c \in Tasks /\ c # None /\ In(children[t], c) /\ Hands(t, c) /\ Takes(t, c)
  <2>1. \A u \in Tasks : /\ pc'[u] = IF u = t THEN "wait_reap" ELSE pc[u]
                         /\ peer'[u] = IF u = t THEN c ELSE peer[u]
    BY <1>8 DEF Takes, Hands, ThreadInv, TypeOK
  <2>2. \A p \in Tasks : children'[p] = IF p = t THEN RemoveFirst(children[t], c) ELSE children[p]
    BY <1>8 DEF Takes, ThreadInv, TypeOK
  <2>3. In(children[t], c) /\ Distinct(children[t])
    BY <1>8 DEF Lists
  <2>4. /\ \A p \in Tasks : Distinct(children'[p])
        /\ \A p, x \in Tasks : In(children'[p], x) <=> In(children[p], x) /\ ~(p = t /\ x = c)
    <3>1. /\ Distinct(RemoveFirst(children[t], c))
          /\ \A x : In(RemoveFirst(children[t], c), x) <=> In(children[t], x) /\ x # c
      BY <1>1, <2>3, RemovedIn
    <3>2. \A p \in Tasks : Distinct(children[p])
      BY DEF Lists
    <3>3. \A p \in Tasks : Distinct(children'[p])
      BY <2>2, <3>1, <3>2
    <3>4. \A p, x \in Tasks : In(children'[p], x) <=> In(children[p], x) /\ ~(p = t /\ x = c)
      BY <2>2, <3>1
    <3> QED
      BY <3>3, <3>4
  <2>5. \A u \in Tasks : u \in Born' <=> u \in Born
    <3>1. pc'[t] = "wait_reap"
      BY <2>1
    <3> QED
      BY <1>1, <2>1, <3>1 DEF Born
  <2>6. Born' = Born
    BY <2>5 DEF Born
  <2>7. \A p, x \in Tasks : Reaps(p, x)' <=> Reaps(p, x) \/ (p = t /\ x = c)
    <3>1. \A p, x \in Tasks : Reaps(p, x)' <=> IF p = t THEN x = c ELSE Reaps(p, x)
      BY <2>1 DEF Reaps
    <3>2. \A x : ~Reaps(t, x)
      BY <1>1 DEF Reaps
    <3> QED
      BY <3>1, <3>2
  <2>8. \A p \in Tasks : ~Reaps(p, c) /\ (In(children[p], c) => p = t)
    BY <1>8, <2>3 DEF Lists, Has
  <2>9. Lists'
    <3>1. \A p, q, x \in Tasks : In(children'[p], x) /\ In(children'[q], x) => p = q
      BY <2>4 DEF Lists, Has
    <3>2. \A p, q, x \in Tasks : Reaps(p, x)' /\ Reaps(q, x)' => p = q
      BY <2>7, <2>8 DEF Lists
    <3>3. \A p, q, x \in Tasks : Reaps(p, x)' => ~In(children'[q], x)
      BY <2>4, <2>7, <2>8 DEF Lists, Has
    <3>4. /\ \A p, x \in Tasks : In(children'[p], x) \/ Reaps(p, x)' => x \in Born' \ reaped' /\ x # init_task
          /\ reaped' \subseteq Born' /\ init_task \in Born'
      BY <1>1, <2>3, <2>4, <2>6, <2>7 DEF Lists, Has
    <3>5. \A u \in Tasks : pc'[u] = "fork_start" => In(children'[u], peer'[u])
      BY <2>1, <2>2 DEF Lists, Has
    <3> QED
      BY <2>4, <3>1, <3>2, <3>3, <3>4, <3>5 DEF Lists, Has
  <2>10. SameAstray
    <3>1. ASSUME NEW x \in Tasks PROVE Astray(x)' <=> Astray(x)
      <4>1. (\A p \in Tasks : ~In(children'[p], x) /\ ~Reaps(p, x)')
              <=> (\A p \in Tasks : ~In(children[p], x) /\ ~Reaps(p, x))
        BY <2>3, <2>4, <2>7
      <4> QED
        BY <1>1, <2>6, <4>1 DEF Astray, Has
    <3> QED
      BY <3>1 DEF SameAstray
  <2> QED
    BY <2>9, <2>10
<1> QED
  BY <1>2, <1>3, <1>5, <1>6, <1>7, <1>8

\* A task in hand is freed, and by nobody else.
LEMMA WaitStatusLists ==
  ASSUME Lists, ThreadInv, ThreadInv', NEW t \in Tasks, WaitStatus(t)
  PROVE  Lists' /\ SameAstray
<1> DEFINE c == peer[t]
<1>1. /\ \/ pc[t] = "wait_reap" /\ reaped' = reaped \cup {c}
         \/ pc[t] = "wait_report" /\ UNCHANGED reaped
      /\ pc' = [pc EXCEPT ![t] = "run"] /\ peer' = [peer EXCEPT ![t] = None]
      /\ UNCHANGED children
  BY DEF WaitStatus, At, On, Goto, task
<1>2. c \in Tasks
  BY <1>1 DEF ThreadInv, Peers
<1>3. \A u \in Tasks : /\ pc'[u] = IF u = t THEN "run" ELSE pc[u]
                       /\ u # t => peer'[u] = peer[u]
  BY <1>1 DEF ThreadInv, TypeOK
<1>4. CASE pc[t] = "wait_report"
  BY <1>1, <1>3, <1>4, QuietLists
<1>5. CASE pc[t] = "wait_reap"
  <2>1. reaped' = reaped \cup {c} /\ Reaps(t, c) /\ \A x : Reaps(t, x) => x = c
    BY <1>1, <1>5 DEF Reaps
  <2> HIDE DEF c
  <2>2. \A u \in Tasks : u \in Born' <=> u \in Born
    <3>1. pc'[t] = "run"
      BY <1>3
    <3> QED
      BY <1>3, <1>5, <3>1 DEF Born
  <2>3. Born' = Born
    BY <2>2 DEF Born
  <2>4. \A p, x \in Tasks : Reaps(p, x)' <=> Reaps(p, x) /\ p # t
    BY <1>3 DEF Reaps
  <2>5. \A p \in Tasks : ~In(children[p], c) /\ (Reaps(p, c) => p = t)
    BY <1>2, <2>1 DEF Lists, Has
  <2>6. Lists'
    <3>1. \A p, x \in Tasks : In(children'[p], x) \/ Reaps(p, x)' => x \in Born' \ reaped' /\ x # init_task
      BY <1>1, <2>1, <2>3, <2>4, <2>5 DEF Lists, Has
    <3>2. reaped' \subseteq Born' /\ init_task \in Born'
      BY <1>2, <2>1, <2>3 DEF Lists
    <3>3. \A u \in Tasks : pc'[u] = "fork_start" => In(children'[u], peer'[u])
      BY <1>1, <1>3 DEF Lists, Has
    <3>4. \A p, q, x \in Tasks : /\ Reaps(p, x)' /\ Reaps(q, x)' => p = q
                                 /\ Reaps(p, x)' => ~In(children'[q], x)
      BY <1>1, <2>4 DEF Lists, Has
    <3> QED
      BY <1>1, <3>1, <3>2, <3>3, <3>4 DEF Lists, Has
  <2>7. SameAstray
    <3>1. ASSUME NEW x \in Tasks PROVE Astray(x)' <=> Astray(x)
      <4>1. CASE x = c
        BY <2>1, <4>1 DEF Astray
      <4>2. CASE x # c
        <5>1. Reaps(t, x) <=> FALSE
          BY <2>1, <4>2
        <5>2. x \in Born' \ reaped' <=> x \in Born \ reaped
          BY <2>1, <2>3, <4>2
        <5>3. \A p \in Tasks : Reaps(p, x)' <=> Reaps(p, x)
          BY <2>4, <5>1
        <5> QED
          BY <1>1, <5>2, <5>3 DEF Astray, Has
      <4> QED
        BY <4>1, <4>2
    <3> QED
      BY <3>1 DEF SameAstray
  <2> QED
    BY <2>6, <2>7
<1> QED
  BY <1>1, <1>4, <1>5

\* An exiting task's children join init's list, and its own list is empty.
LEMMA ExitSpliceLists ==
  ASSUME Lists, ThreadInv, NEW t \in Tasks, ExitSplice(t)
  PROVE  Lists' /\ SameAstray
<1> DEFINE all == children[t] \o children[init_task]
<1>1. /\ pc[t] = "exit_splice" /\ pc' = [pc EXCEPT ![t] = "exit_parent"]
      /\ children' = [children EXCEPT ![init_task] = all, ![t] = <<>>]
      /\ UNCHANGED <<peer, reaped>>
  BY DEF ExitSplice, At, On, Goto, Spliced, local
<1>2. init_task \in Tasks /\ t # init_task
  BY <1>1, ProcessTreeAssumption DEF ProcessTreeAssumption, ThreadInv, Holds
<1>3. children[t] \in Seq(Tasks) /\ children[init_task] \in Seq(Tasks)
  BY <1>2 DEF ThreadInv, TypeOK
<1>4. /\ \A x : In(all, x) <=> In(children[t], x) \/ In(children[init_task], x)
      /\ Distinct(all)
  <2>1. \A x : ~(In(children[t], x) /\ In(children[init_task], x))
    <3>1. \A x : In(children[t], x) => x \in Tasks
      BY <1>3 DEF In
    <3> QED
      BY <1>2, <3>1 DEF Lists, Has
  <2> QED
    BY <1>2, <1>3, <2>1, ConcatIn DEF Lists
<1> HIDE DEF all
<1>5. \A p \in Tasks : children'[p] = IF p = t THEN <<>> ELSE IF p = init_task THEN all ELSE children[p]
  BY <1>1, <1>2 DEF ThreadInv, TypeOK
<1>6. \A u \in Tasks : pc'[u] = IF u = t THEN "exit_parent" ELSE pc[u]
  BY <1>1 DEF ThreadInv, TypeOK
<1>7. Born' = Born
  <2>1. pc'[t] = "exit_parent"
    BY <1>6
  <2>2. \A u \in Tasks : u \in Born' <=> u \in Born
    BY <1>1, <1>6, <2>1 DEF Born
  <2> QED
    BY <2>2 DEF Born
<1>8. \A p, x \in Tasks : Reaps(p, x)' <=> Reaps(p, x)
  <2>1. pc'[t] = "exit_parent"
    BY <1>6
  <2> QED
    BY <1>1, <1>6, <2>1 DEF Reaps
<1>9. /\ \A p \in Tasks : Distinct(children'[p])
      /\ \A p, x \in Tasks : In(children'[p], x) <=>
           p # t /\ (In(children[p], x) \/ (p = init_task /\ In(children[t], x)))
  <2>1. Distinct(<<>>) /\ \A x : ~In(<<>>, x)
    BY DEF Distinct, In
  <2>2. \A p \in Tasks : Distinct(children[p])
    BY DEF Lists
  <2>3. \A p \in Tasks : Distinct(children'[p])
    BY <1>4, <1>5, <2>1, <2>2
  <2>4. \A p, x \in Tasks : In(children'[p], x) <=>
           p # t /\ (In(children[p], x) \/ (p = init_task /\ In(children[t], x)))
    BY <1>2, <1>4, <1>5, <2>1
  <2> QED
    BY <2>3, <2>4
<1>10. Lists'
  <2>1. \A p, q, x \in Tasks : In(children'[p], x) /\ In(children'[q], x) => p = q
    BY <1>2, <1>9 DEF Lists, Has
  <2>2. \A p, q, x \in Tasks : /\ Reaps(p, x)' /\ Reaps(q, x)' => p = q
                               /\ Reaps(p, x)' => ~In(children'[q], x)
    BY <1>8, <1>9 DEF Lists, Has
  <2>3. /\ \A p, x \in Tasks : In(children'[p], x) \/ Reaps(p, x)' => x \in Born' \ reaped' /\ x # init_task
        /\ reaped' \subseteq Born' /\ init_task \in Born'
    BY <1>1, <1>7, <1>8, <1>9 DEF Lists, Has
  <2>4. ASSUME NEW u \in Tasks, pc'[u] = "fork_start" PROVE In(children'[u], peer'[u])
    <3>1. u # t /\ pc[u] = "fork_start" /\ peer'[u] = peer[u]
      BY <1>1, <1>6, <2>4
    <3>2. peer[u] \in Tasks /\ In(children[u], peer[u])
      BY <3>1 DEF Lists, Has, ThreadInv, Peers
    <3> QED
      BY <1>9, <3>1, <3>2
  <2> QED
    BY <1>9, <2>1, <2>2, <2>3, <2>4 DEF Lists, Has
<1>11. SameAstray
  <2>1. ASSUME NEW x \in Tasks PROVE Astray(x)' <=> Astray(x)
    <3>1. (\A p \in Tasks : ~In(children'[p], x)) <=> (\A p \in Tasks : ~In(children[p], x))
      BY <1>2, <1>9
    <3> QED
      BY <1>1, <1>7, <1>8, <3>1 DEF Astray, Has
  <2> QED
    BY <2>1 DEF SameAstray
<1> QED
  BY <1>10, <1>11

\* A fork that fails takes its child off the list, and all that is before it.
LEMMA ForkFailLists ==
  ASSUME Lists, ThreadInv, NEW t \in Tasks, ForkFail(t)
  PROVE  /\ Lists'
         /\ \A x \in Tasks : Astray(x)' <=>
              \/ Astray(x)
              \/ In(children[t], x) /\ x # peer[t] /\ ~In(After(children[t], peer[t]), x)
<1> DEFINE c == peer[t]
           rest == After(children[t], c)
<1>1. /\ pc[t] = "fork_start" /\ peer' = [peer EXCEPT ![t] = None]
      /\ children' = [children EXCEPT ![t] = rest]
      /\ reaped' = reaped \cup {c}
      /\ pc' = [pc EXCEPT ![t] = "run", ![c] = "gone"]
  BY DEF ForkFail, At, On
<1>2. c \in Tasks /\ pc[c] = "linked" /\ In(children[t], c) /\ c # t
  BY <1>1 DEF ThreadInv, Peers, Lists, Has
<1>3. children[t] \in Seq(Tasks) /\ Distinct(children[t])
  BY DEF Lists, ThreadInv, TypeOK
<1>4. Distinct(rest) /\ \A x : In(rest, x) => In(children[t], x) /\ x # c
  BY <1>2, <1>3, AfterIn
<1> HIDE DEF rest, c
<1>5. \A p \in Tasks : children'[p] = IF p = t THEN rest ELSE children[p]
  BY <1>1 DEF ThreadInv, TypeOK
<1>6. \A u \in Tasks : /\ pc'[u] = IF u = c THEN "gone" ELSE IF u = t THEN "run" ELSE pc[u]
                       /\ u # t => peer'[u] = peer[u]
  BY <1>1 DEF ThreadInv, TypeOK
<1>7. ASSUME NEW u \in Tasks
      PROVE  /\ u \in Born' <=> u \in Born
             /\ pc'[u] = "wait_reap" <=> pc[u] = "wait_reap" /\ u # t
             /\ pc'[u] = "fork_start" => pc[u] = "fork_start" /\ u # t
  <2>0. pc[t] = "fork_start" /\ pc[c] = "linked" /\ pc'[c] = "gone" /\ pc'[t] = "run"
    BY <1>1, <1>2, <1>6
  <2>1. CASE u = c
    BY <1>2, <2>0, <2>1 DEF Born
  <2>2. CASE u = t
    BY <2>0, <2>2 DEF Born
  <2>3. CASE u \notin {c, t}
    BY <1>6, <2>3 DEF Born
  <2> QED
    BY <2>1, <2>2, <2>3
<1>8. Born' = Born
  BY <1>7 DEF Born
<1>9. \A p, x \in Tasks : Reaps(p, x)' => Reaps(p, x)
  BY <1>6, <1>7 DEF Reaps
<1>10. /\ \A p \in Tasks : Distinct(children'[p])
       /\ \A p, x \in Tasks : In(children'[p], x) => In(children[p], x) /\ (p = t => x # c)
  BY <1>4, <1>5 DEF Lists
<1>11. \A p \in Tasks : (In(children[p], c) => p = t) /\ ~Reaps(p, c)
  BY <1>2 DEF Lists, Has
<1>12. \A p, q, x \in Tasks : /\ In(children'[p], x) /\ In(children'[q], x) => p = q
                              /\ Reaps(p, x)' /\ Reaps(q, x)' => p = q
                              /\ Reaps(p, x)' => ~In(children'[q], x)
  BY <1>9, <1>10 DEF Lists, Has
<1>13. \A p, x \in Tasks : In(children'[p], x) \/ Reaps(p, x)' => x \in Born' \ reaped' /\ x # init_task
  BY <1>1, <1>8, <1>9, <1>10, <1>11 DEF Lists, Has
<1>14. reaped' \subseteq Born' /\ init_task \in Born'
  <2>1. c \in Born
    BY <1>2, <1>11 DEF Born
  <2> QED
    BY <1>1, <1>8, <2>1 DEF Lists
<1>15. \A u \in Tasks : pc'[u] = "fork_start" => In(children'[u], peer'[u])
  BY <1>5, <1>6, <1>7 DEF Lists, Has
<1>16. Lists'
  BY <1>10, <1>12, <1>13, <1>14, <1>15 DEF Lists, Has
<1>17. \A p, x \in Tasks : Reaps(p, x) => Reaps(p, x)'
  BY <1>1, <1>2, <1>6, <1>7 DEF Reaps
<1>18. ASSUME NEW x \in Tasks
       PROVE  Astray(x)' <=> Astray(x) \/ (In(children[t], x) /\ x # c /\ ~In(rest, x))
  <2>1. CASE x = c
    BY <1>1, <1>2, <2>1 DEF Astray, Has
  <2>2. CASE x # c
    <3>1. x \in Born' \ reaped' <=> x \in Born \ reaped
      BY <1>1, <1>8, <2>2
    <3>2. In(children[t], x) => /\ x \in Born \ reaped /\ x # init_task
                                /\ \A p \in Tasks : (In(children[p], x) => p = t) /\ ~Reaps(p, x)
      BY DEF Lists, Has
    <3>3. (\A p \in Tasks : ~In(children'[p], x)) <=>
            ((\A p \in Tasks : ~In(children[p], x)) \/ (In(children[t], x) /\ ~In(rest, x)))
      BY <1>4, <1>5, <3>2
    <3>4. \A p \in Tasks : Reaps(p, x)' <=> Reaps(p, x)
      BY <1>9, <1>17
    <3> QED
      BY <2>2, <3>1, <3>2, <3>3, <3>4 DEF Astray, Has
  <2> QED
    BY <2>1, <2>2
<1> QED
  BY <1>16, <1>18 DEF rest, c

\* Steps that change nothing but who is asleep and what was undefined.
Still ==
  /\ asleep' \subseteq asleep
  /\ UNCHANGED <<task, flags, lock, waiters, pc, local, reaped, bounds>>

\* What a step is, as the proofs that follow tell steps apart.
StepOf(t) ==
  \/ Quiet(t)
  \/ \E c \in Tasks : ForkAlloc(t, c)
  \/ ForkLink(t)
  \/ ForkStart(t)
  \/ \E w : Pass(t, w)
  \/ WaitStatus(t)
  \/ ExitSplice(t)

LEMMA StepKinds ==
  ASSUME ThreadInv, [Next]_vars
  PROVE  Still \/ \E t \in Tasks : StepOf(t) \/ ForkFail(t)
<1>1. CASE UNCHANGED vars
  BY <1>1 DEF vars, Still, sync
<1>2. ASSUME NEW t \in Tasks, Inside(t) PROVE Still \/ StepOf(t) \/ ForkFail(t)
  <2>1. CASE UseAfterFree(t)
    BY <2>1 DEF UseAfterFree, Still, sync
  <2>2. CASE WaitWake(t) \/ WaitLook(t)
    BY <2>2, WakePasses DEF StepOf
  <2>3. CASE WaitTest(t)
    BY <2>3, TestPasses DEF StepOf
  <2> QED
    BY <1>2, <2>1, <2>2, <2>3 DEF Inside, StepOf, Quiet
<1>3. ASSUME NEW t \in Tasks, Calls(t) PROVE StepOf(t)
  <2>1. ASSUME NEW w \in WaitCalls[t], ixland_waitpid(t, w) PROVE StepOf(t)
    BY <2>1, CallPasses DEF StepOf
  <2>2. ASSUME NEW g \in Signals, NEW u \in Tasks, ixland_kill(t, u, g) PROVE StepOf(t)
    <3>1. Kill(t, {u}, g) /\ {u} \in SUBSET InTable
      BY <2>2 DEF ixland_kill
    <3> QED
      BY <3>1 DEF StepOf, Quiet
  <2>3. ASSUME NEW g \in Signals, ixland_killpg(t, g) PROVE StepOf(t)
    <3>1. Kill(t, {u \in InTable : Pgid[u] = Pgid[t]}, g)
      BY <2>3 DEF ixland_killpg
    <3>2. {u \in InTable : Pgid[u] = Pgid[t]} \in SUBSET InTable
      OBVIOUS
    <3> QED
      BY <3>1, <3>2 DEF StepOf, Quiet
  <2> QED
    BY <1>3, <2>1, <2>2, <2>3 DEF Calls, StepOf, Quiet
<1>4. ASSUME NEW t \in Tasks, SpuriousWake(t) PROVE Still
  BY <1>4 DEF SpuriousWake, Still
<1> QED
  BY <1>1, <1>2, <1>3, <1>4 DEF Next

LEMMA ListsNext == ThreadInv /\ ThreadInv' /\ Lists /\ [Next]_vars => Lists'
<1> SUFFICES ASSUME ThreadInv, ThreadInv', Lists, [Next]_vars PROVE Lists'
  OBVIOUS
<1>1. CASE Still
  <2>1. UNCHANGED <<children, reaped, pc, peer>>
    BY <1>1 DEF Still, task, local
  <2>2. \A u \in Tasks : u \in Born' <=> u \in Born
    BY <2>1 DEF Born
  <2> QED
    BY <2>1, <2>2, ListsKept
<1> QED
  BY <1>1, QuietKeepsLists, ForkAllocLists, ForkLinkLists, ForkStartLists, PassLists,
     WaitStatusLists, ExitSpliceLists, ForkFailLists, StepKinds DEF StepOf

-----------------------------------------------------------------------------
(* Whose child a task is, and whose it is to become.                       *)
Handing == {"exit_adopt", "exit_splice"}

Parents ==
  /\ \A p, c \in Tasks : Has(p, c) =>
       /\ pc[p] \notin Handing => parent[c] = p
       /\ pc[p] = "exit_splice" => parent[c] = init_task
       /\ ppid[c] = parent[c] \/ (ppid[c] = None /\ exited[init_task] = TRUE)
  /\ \A p \in Tasks : pc[p] = "exit_adopt" =>
       \A i \in 1 .. Len(children[p]) :
         parent[children[p][i]] = IF i < cursor[p] THEN init_task ELSE p
  /\ \A t \in Tasks : pc[t] = "fork_link" => ppid[peer[t]] = t
  /\ \A t \in Tasks : pc[t] \in Exits => exited[t] = TRUE

LEMMA InitParents == Init => Parents
<1> SUFFICES ASSUME Init PROVE Parents
  OBVIOUS
<1>1. \A p \in Tasks : children[p] = <<>> /\ pc[p] \in {"run", "unborn"}
  BY DEF Init
<1>2. \A p, c \in Tasks : ~Has(p, c)
  BY <1>1 DEF Has, In
<1> QED
  BY <1>1, <1>2 DEF Parents, Exits, ExitHolds

\* A step that gives nobody another parent, and brings nobody to hand over.
LEMMA ParentsKept ==
  ASSUME ThreadInv, Parents, UNCHANGED <<parent, ppid>>,
         \A p, c \in Tasks : In(children'[p], c) => In(children[p], c),
         \A p \in Tasks : pc'[p] \in Handing \cup {"fork_link"} =>
           /\ pc'[p] = pc[p] /\ children'[p] = children[p]
           /\ cursor'[p] = cursor[p] /\ peer'[p] = peer[p],
         \A p \in Tasks : pc[p] \in Handing => pc'[p] = pc[p],
         \A u \in Tasks : exited[u] = TRUE => exited'[u] = TRUE,
         \A u \in Tasks : pc'[u] \in Exits => exited'[u] = TRUE
  PROVE  Parents'
<1>1. ASSUME NEW p \in Tasks, NEW c \in Tasks, In(children'[p], c)
      PROVE  /\ pc'[p] \notin Handing => parent'[c] = p
             /\ pc'[p] = "exit_splice" => parent'[c] = init_task
             /\ ppid'[c] = parent'[c] \/ (ppid'[c] = None /\ exited'[init_task] = TRUE)
  BY <1>1, ProcessTreeAssumption DEF ProcessTreeAssumption, Parents, Has, Handing
<1>2. ASSUME NEW p \in Tasks, pc'[p] = "exit_adopt", NEW i \in 1 .. Len(children'[p])
      PROVE  parent'[children'[p][i]] = IF i < cursor'[p] THEN init_task ELSE p
  BY <1>2 DEF Parents, Handing
<1>3. \A t \in Tasks : pc'[t] = "fork_link" => ppid'[peer'[t]] = t
  BY DEF Parents
<1> QED
  BY <1>1, <1>2, <1>3 DEF Parents, Has

\* The same, of one thread.
LEMMA ThreadKeepsParents ==
  ASSUME ThreadInv, Parents, UNCHANGED <<parent, ppid>>, NEW t \in Tasks, NEW place,
         pc' = [pc EXCEPT ![t] = place], place \notin Handing \cup {"fork_link"},
         pc[t] \notin Handing, place \in Exits => exited'[t] = TRUE,
         \A p, c \in Tasks : In(children'[p], c) => In(children[p], c),
         \A u \in Tasks \ {t} : /\ children'[u] = children[u]
                                /\ cursor'[u] = cursor[u] /\ peer'[u] = peer[u],
         \A u \in Tasks : exited[u] = TRUE => exited'[u] = TRUE
  PROVE  Parents'
<1>1. \A u \in Tasks : pc'[u] = IF u = t THEN place ELSE pc[u]
  BY DEF ThreadInv, TypeOK
<1>2. \A u \in Tasks : pc'[u] \in Exits => exited'[u] = TRUE
  BY <1>1 DEF Parents
<1> QED
  BY <1>1, <1>2, ParentsKept

\* The quiet steps but those of the walk over an exiting task's children.
LEMMA QuietKeepsParents ==
  ASSUME ThreadInv, Parents, NEW t \in Tasks, Quiet(t),
         ~(ExitLockInit(t) \/ ExitAdopt(t) \/ ExitOrphan(t))
  PROVE  Parents'
<1>1. QuietStep(t)
  BY QuietSteps
<1>2. \A p \in Tasks : children'[p] = children[p]
  BY <1>1 DEF QuietStep
<1>3. ASSUME UNCHANGED <<parent, ppid, exited>>, NEW place, pc' = [pc EXCEPT ![t] = place],
             place \notin Handing \cup {"fork_link"}, pc[t] \notin Handing,
             place \in Exits => exited[t] = TRUE, UNCHANGED cursor
      PROVE  Parents'
  BY <1>1, <1>2, <1>3, ThreadKeepsParents DEF QuietStep
<1>4. CASE ForkCheck(t) \/ ForkNoMemory(t)
  BY <1>3, <1>4
     DEF ForkCheck, ForkNoMemory, On, At, Goto, task, flags, local, Handing, Exits, ExitHolds
<1>5. ASSUME NEW s \in ExitCodes, ExitBegin(t, s) PROVE Parents'
  <2>1. /\ pc[t] = "run" /\ exited' = [exited EXCEPT ![t] = TRUE] /\ UNCHANGED <<parent, ppid>>
        /\ cursor' = cursor \/ cursor' = [cursor EXCEPT ![t] = 1]
    BY <1>5 DEF ExitBegin, At, On, task
  <2>2. PICK place \in {"exit_parent", "exit_orphan", "exit_lock_init"} :
               pc' = [pc EXCEPT ![t] = place]
    BY <1>5 DEF ExitBegin, Goto
  <2>3. \A u \in Tasks \ {t} : cursor'[u] = cursor[u]
    BY <2>1 DEF ThreadInv, TypeOK
  <2>4. exited'[t] = TRUE /\ \A u \in Tasks : exited[u] = TRUE => exited'[u] = TRUE
    BY <2>1 DEF ThreadInv, TypeOK
  <2> QED
    BY <1>1, <1>2, <2>1, <2>2, <2>3, <2>4, ThreadKeepsParents DEF QuietStep, Handing
<1>6. CASE ExitParent(t)
  <2>1. pc[t] = "exit_parent" /\ exited[t] = TRUE
    BY <1>6 DEF ExitParent, At, On, Parents, Exits, ExitHolds
  <2> QED
    BY <1>3, <1>6, <2>1 DEF ExitParent, Goto, task, flags, Handing
<1>7. CASE ExitNotify(t)
  BY <1>3, <1>7 DEF ExitNotify, On, At, Goto, task, flags, Handing, Exits, ExitHolds
<1>8. ASSUME NEW S \in SUBSET InTable, NEW g \in Signals, Kill(t, S, g) PROVE Parents'
  BY <1>3, <1>8 DEF Kill, On, At, Goto, task, flags, Handing, Exits, ExitHolds
<1>9. ASSUME NEW u \in Tasks, KillApply(t, u) PROVE Parents'
  <2>1. /\ pc[t] = "kill" /\ SetFlags(u, sig[t]) /\ UNCHANGED <<parent, ppid, cursor>>
    BY <1>9 DEF KillApply, On, task
  <2>2. PICK place \in {"run", "kill", "kill_notify"} : pc' = [pc EXCEPT ![t] = place]
    BY <1>9 DEF KillApply, Delivered, Goto
  <2>3. \A v \in Tasks : exited[v] = TRUE => exited'[v] = TRUE
    <3>1. sig[t] \in Signals
      BY <2>1 DEF ThreadInv, Holds
    <3> QED
      BY <2>1, <3>1, FlagsSet DEF ThreadInv
  <2> QED
    BY <1>1, <1>2, <2>1, <2>2, <2>3, ThreadKeepsParents DEF QuietStep, Handing, Exits, ExitHolds
<1>10. CASE KillNotify(t)
  <2>1. PICK place \in {"run", "kill"} : pc' = [pc EXCEPT ![t] = place]
    BY <1>10 DEF KillNotify, Delivered, Goto
  <2> QED
    BY <1>3, <1>10, <2>1 DEF KillNotify, On, task, flags, Handing, Exits, ExitHolds
<1> QED
  BY <1>4, <1>5, <1>6, <1>7, <1>8, <1>9, <1>10 DEF Quiet

LEMMA ForkAllocParents ==
  ASSUME ThreadInv, Lists, Parents, NEW t \in Tasks, NEW c \in Tasks, ForkAlloc(t, c)
  PROVE  Parents'
<1>1. /\ pc[t] = "fork_alloc" /\ pc[c] = "unborn"
      /\ ppid' = [ppid EXCEPT ![c] = t] /\ peer' = [peer EXCEPT ![t] = c]
      /\ pc' = [pc EXCEPT ![t] = "fork_link", ![c] = "unlinked"]
      /\ UNCHANGED <<parent, children, cursor, exited>>
  BY DEF ForkAlloc, At, On, flags
<1>2. \A u \in Tasks : /\ u \notin {c, t} => pc'[u] = pc[u]
                       /\ u # t => peer'[u] = peer[u]
                       /\ u # c => ppid'[u] = ppid[u]
  BY <1>1 DEF ThreadInv, TypeOK
<1>3. t # c /\ pc'[t] = "fork_link" /\ pc'[c] = "unlinked" /\ peer'[t] = c /\ ppid'[c] = t
  BY <1>1 DEF ThreadInv, TypeOK
<1>4. \A p \in Tasks : ~Has(p, c)
  BY <1>1 DEF Lists, Born
<1>5. ASSUME NEW p \in Tasks
      PROVE  (pc'[p] \in Handing => pc[p] = pc'[p]) /\ (pc[p] \in Handing => pc[p] = pc'[p])
  BY <1>1, <1>2, <1>3 DEF Handing
<1>6. ASSUME NEW p \in Tasks, NEW x \in Tasks, In(children'[p], x)
      PROVE  /\ pc'[p] \notin Handing => parent'[x] = p
             /\ pc'[p] = "exit_splice" => parent'[x] = init_task
             /\ ppid'[x] = parent'[x] \/ (ppid'[x] = None /\ exited'[init_task] = TRUE)
  <2>1. Has(p, x) /\ x # c
    BY <1>1, <1>4, <1>6 DEF Has
  <2>2. parent'[x] = parent[x] /\ ppid'[x] = ppid[x] /\ exited' = exited
    BY <1>1, <1>2, <2>1
  <2>3. (pc'[p] \notin Handing => pc[p] \notin Handing) /\ (pc'[p] = "exit_splice" => pc[p] = "exit_splice")
    BY <1>5 DEF Handing
  <2> QED
    BY <2>1, <2>2, <2>3 DEF Parents
<1>7. ASSUME NEW p \in Tasks, pc'[p] = "exit_adopt", NEW i \in 1 .. Len(children'[p])
      PROVE  parent'[children'[p][i]] = IF i < cursor'[p] THEN init_task ELSE p
  BY <1>1, <1>5, <1>7 DEF Parents, Handing
<1>8. ASSUME NEW u \in Tasks, pc'[u] = "fork_link" PROVE ppid'[peer'[u]] = u
  <2>1. CASE u = t
    BY <1>3, <2>1
  <2>2. CASE u # t
    <3>1. u # c /\ pc[u] = "fork_link" /\ peer'[u] = peer[u]
      BY <1>2, <1>3, <1>8, <2>2
    <3>2. peer[u] \in Tasks /\ peer[u] # c
      BY <1>1, <3>1 DEF ThreadInv, Peers
    <3> QED
      BY <1>2, <3>1, <3>2 DEF Parents
  <2> QED
    BY <2>1, <2>2
<1>9. ASSUME NEW u \in Tasks, pc'[u] \in Exits PROVE exited'[u] = TRUE
  BY <1>1, <1>2, <1>3, <1>9 DEF Parents, Exits, ExitHolds
<1> QED
  BY <1>6, <1>7, <1>8, <1>9 DEF Parents, Has

LEMMA ForkLinkParents ==
  ASSUME ThreadInv, Lists, Parents, NEW t \in Tasks, ForkLink(t)
  PROVE  Parents'
<1> DEFINE c == peer[t]
<1>1. /\ pc[t] = "fork_link" /\ parent' = [parent EXCEPT ![c] = t]
      /\ children' = [children EXCEPT ![t] = <<c>> \o children[t]]
      /\ pc' = [pc EXCEPT ![t] = "fork_start", ![c] = "linked"]
      /\ UNCHANGED <<ppid, peer, cursor, exited>>
  BY DEF ForkLink, At, On, local, flags
<1>2. c \in Tasks /\ pc[c] = "unlinked" /\ ppid[c] = t /\ c # t
  BY <1>1 DEF ThreadInv, Peers, Parents
<1>3. \A u \in Tasks \ {t} : pc[u] = "fork_link" => peer[u] # c
  BY <1>1 DEF ThreadInv, Peers
<1> HIDE DEF c
<1>4. \A p \in Tasks : ~In(children[p], c)
  BY <1>2 DEF Lists, Has, Born
<1>5. \A u \in Tasks : /\ u \notin {c, t} => pc'[u] = pc[u]
                       /\ u # c => parent'[u] = parent[u]
                       /\ u # t => children'[u] = children[u]
  BY <1>1 DEF ThreadInv, TypeOK
<1>6. pc'[t] = "fork_start" /\ pc'[c] = "linked" /\ parent'[c] = t
  BY <1>1, <1>2 DEF ThreadInv, TypeOK
<1>7. \A x : In(children'[t], x) <=> x = c \/ In(children[t], x)
  BY <1>1, <1>2, FrontIn DEF ThreadInv, TypeOK
<1>8. ASSUME NEW p \in Tasks
      PROVE  (pc'[p] \in Handing => pc[p] = pc'[p] /\ p # t) /\ (pc[p] \in Handing => pc[p] = pc'[p])
  BY <1>1, <1>2, <1>5, <1>6 DEF Handing
<1>9. ASSUME NEW p \in Tasks, NEW x \in Tasks, In(children'[p], x)
      PROVE  /\ pc'[p] \notin Handing => parent'[x] = p
             /\ pc'[p] = "exit_splice" => parent'[x] = init_task
             /\ ppid'[x] = parent'[x] \/ (ppid'[x] = None /\ exited'[init_task] = TRUE)
  <2>1. CASE p = t /\ x = c
    BY <1>1, <1>2, <1>6, <2>1
  <2>2. CASE ~(p = t /\ x = c)
    <3>1. Has(p, x) /\ x # c
      BY <1>4, <1>5, <1>7, <1>9, <2>2 DEF Has
    <3>2. parent'[x] = parent[x] /\ ppid'[x] = ppid[x] /\ exited' = exited
      BY <1>1, <1>5, <3>1
    <3>3. (pc'[p] \notin Handing => pc[p] \notin Handing) /\ (pc'[p] = "exit_splice" => pc[p] = "exit_splice")
      BY <1>8 DEF Handing
    <3> QED
      BY <3>1, <3>2, <3>3 DEF Parents
  <2> QED
    BY <2>1, <2>2
<1>10. ASSUME NEW p \in Tasks, pc'[p] = "exit_adopt", NEW i \in 1 .. Len(children'[p])
       PROVE  parent'[children'[p][i]] = IF i < cursor'[p] THEN init_task ELSE p
  <2>1. pc[p] = "exit_adopt" /\ children'[p] = children[p]
    BY <1>5, <1>8, <1>10 DEF Handing
  <2>2. children[p][i] \in Tasks /\ children[p][i] # c
    BY <1>4, <1>10, <2>1 DEF In, ThreadInv, TypeOK
  <2> QED
    BY <1>1, <1>5, <1>10, <2>1, <2>2 DEF Parents
<1>11. ASSUME NEW u \in Tasks, pc'[u] = "fork_link" PROVE ppid'[peer'[u]] = u
  BY <1>1, <1>5, <1>6, <1>11 DEF Parents
<1>12. ASSUME NEW u \in Tasks, pc'[u] \in Exits PROVE exited'[u] = TRUE
  BY <1>1, <1>5, <1>6, <1>12 DEF Parents, Exits, ExitHolds
<1> QED
  BY <1>9, <1>10, <1>11, <1>12 DEF Parents, Has

LEMMA ExitLockInitParents ==
  ASSUME ThreadInv, Parents, NEW t \in Tasks, ExitLockInit(t)
  PROVE  Parents'
<1>1. /\ pc[t] = "exit_lock_init" /\ pc' = [pc EXCEPT ![t] = "exit_adopt"]
      /\ UNCHANGED <<parent, ppid, children, peer, cursor, exited>>
  BY DEF ExitLockInit, At, On, Goto, task, flags, local
<1>2. \A u \in Tasks : pc'[u] = IF u = t THEN "exit_adopt" ELSE pc[u]
  BY <1>1 DEF ThreadInv, TypeOK
<1>3. cursor[t] = 1 /\ children[t] \in Seq(Tasks)
  BY <1>1 DEF ThreadInv, Walks, TypeOK
<1>4. ASSUME NEW i \in 1 .. Len(children[t]) PROVE ~(i < 1) /\ parent[children[t][i]] = t
  <2>1. children[t][i] \in Tasks /\ Has(t, children[t][i]) /\ ~(i < 1)
    BY <1>3 DEF Has, In
  <2> QED
    BY <1>1, <2>1 DEF Parents, Handing
<1>5. ASSUME NEW p \in Tasks, pc'[p] = "exit_adopt", NEW i \in 1 .. Len(children'[p])
      PROVE  parent'[children'[p][i]] = IF i < cursor'[p] THEN init_task ELSE p
  <2>1. CASE p = t
    BY <1>1, <1>3, <1>4, <1>5, <2>1
  <2>2. CASE p # t
    BY <1>1, <1>2, <1>5, <2>2 DEF Parents
  <2> QED
    BY <2>1, <2>2
<1>6. ASSUME NEW p \in Tasks, NEW x \in Tasks, In(children'[p], x)
      PROVE  /\ pc'[p] \notin Handing => parent'[x] = p
             /\ pc'[p] = "exit_splice" => parent'[x] = init_task
             /\ ppid'[x] = parent'[x] \/ (ppid'[x] = None /\ exited'[init_task] = TRUE)
  BY <1>1, <1>2, <1>6 DEF Parents, Has, Handing
<1>7. ASSUME NEW u \in Tasks
      PROVE  (pc'[u] = "fork_link" => ppid'[peer'[u]] = u) /\ (pc'[u] \in Exits => exited'[u] = TRUE)
  BY <1>1, <1>2 DEF Parents, Exits, ExitHolds
<1> QED
  BY <1>5, <1>6, <1>7 DEF Parents, Has

\* Each child in turn becomes init's.
LEMMA ExitAdoptParents ==
  ASSUME ThreadInv, Lists, Parents, NEW t \in Tasks, ExitAdopt(t)
  PROVE  Parents'
<1> DEFINE k == cursor[t]
           c == children[t][k]
<1>1. /\ pc[t] = "exit_adopt"
      /\ parent' = [parent EXCEPT ![c] = init_task] /\ ppid' = [ppid EXCEPT ![c] = init_task]
      /\ Advance(t, "exit_adopt", "exit_splice")
      /\ UNCHANGED <<children, peer, exited>>
  BY DEF ExitAdopt, At, On, AtCursor, flags
<1>2. k \in 1 .. Len(children[t]) /\ c \in Tasks /\ children[t] \in Seq(Tasks) /\ Len(children[t]) \in Nat
  BY <1>1 DEF ThreadInv, Walks, TypeOK
<1>3. Has(t, c)
  BY <1>2 DEF Has, In
<1>4. \/ /\ pc' = [pc EXCEPT ![t] = "exit_adopt"] /\ cursor' = [cursor EXCEPT ![t] = k + 1]
      \/ /\ pc' = [pc EXCEPT ![t] = "exit_splice"] /\ k = Len(children[t])
         /\ cursor' = [cursor EXCEPT ![t] = 0]
  BY <1>1, <1>2, Advances DEF ThreadInv
<1>5. \A p \in Tasks : Has(p, c) => p = t
  BY <1>2, <1>3 DEF Lists
<1>6. \A i \in 1 .. Len(children[t]) : children[t][i] = c => i = k
  BY <1>2 DEF Lists, Distinct
<1> HIDE DEF c, k
<1>7. \A u \in Tasks : /\ parent'[u] = IF u = c THEN init_task ELSE parent[u]
                       /\ ppid'[u] = IF u = c THEN init_task ELSE ppid[u]
                       /\ u # t => pc'[u] = pc[u] /\ cursor'[u] = cursor[u]
  <2>1. \A u \in Tasks : u # t => pc'[u] = pc[u] /\ cursor'[u] = cursor[u]
    BY <1>4 DEF ThreadInv, TypeOK
  <2> QED
    BY <1>1, <2>1 DEF ThreadInv, TypeOK
<1>8. /\ pc'[t] \in Handing
      /\ pc'[t] = "exit_splice" => k = Len(children[t])
      /\ pc'[t] = "exit_adopt" => cursor'[t] = k + 1
  BY <1>4 DEF ThreadInv, TypeOK, Handing
<1>9. ASSUME NEW i \in 1 .. Len(children[t])
      PROVE  parent'[children[t][i]] = IF i < k + 1 THEN init_task ELSE t
  <2>1. children[t][i] \in Tasks /\ parent[children[t][i]] = IF i < k THEN init_task ELSE t
    BY <1>1, <1>2 DEF Parents, k
  <2>2. CASE i = k
    BY <1>2, <1>7, <2>2 DEF c
  <2>3. CASE i # k
    <3>1. children[t][i] # c /\ (i < k + 1 <=> i < k)
      BY <1>2, <1>6, <2>3
    <3> QED
      BY <1>7, <2>1, <3>1
  <2> QED
    BY <2>2, <2>3
<1>10. ASSUME NEW p \in Tasks, pc'[p] = "exit_adopt", NEW i \in 1 .. Len(children'[p])
       PROVE  parent'[children'[p][i]] = IF i < cursor'[p] THEN init_task ELSE p
  <2>1. CASE p = t
    BY <1>1, <1>8, <1>9, <1>10, <2>1
  <2>2. CASE p # t
    <3>1. pc[p] = "exit_adopt" /\ children'[p] = children[p] /\ cursor'[p] = cursor[p]
      BY <1>1, <1>7, <1>10, <2>2
    <3>2. children[p][i] \in Tasks /\ children[p][i] # c
      BY <1>5, <1>10, <2>2, <3>1 DEF Has, In, ThreadInv, TypeOK
    <3> QED
      BY <1>7, <1>10, <3>1, <3>2 DEF Parents
  <2> QED
    BY <2>1, <2>2
<1>11. ASSUME NEW p \in Tasks, NEW x \in Tasks, In(children'[p], x)
       PROVE  /\ pc'[p] \notin Handing => parent'[x] = p
              /\ pc'[p] = "exit_splice" => parent'[x] = init_task
              /\ ppid'[x] = parent'[x] \/ (ppid'[x] = None /\ exited'[init_task] = TRUE)
  <2>1. Has(p, x)
    BY <1>1, <1>11 DEF Has
  <2>2. ppid'[x] = parent'[x] \/ (ppid'[x] = None /\ exited'[init_task] = TRUE)
    BY <1>1, <1>7, <2>1 DEF Parents
  <2>3. CASE p # t
    BY <1>5, <1>7, <2>1, <2>2, <2>3 DEF Parents, Handing
  <2>4. CASE p = t
    <3>1. ASSUME pc'[t] = "exit_splice" PROVE parent'[x] = init_task
      <4>1. PICK i \in 1 .. Len(children[t]) : children[t][i] = x
        BY <2>1, <2>4 DEF Has, In
      <4>2. i < k + 1
        BY <1>2, <1>8, <3>1
      <4> QED
        BY <1>9, <4>1, <4>2
    <3> QED
      BY <1>8, <2>2, <2>4, <3>1
  <2> QED
    BY <2>3, <2>4
<1>12. ASSUME NEW u \in Tasks, pc'[u] = "fork_link" PROVE ppid'[peer'[u]] = u
  <2>1. u # t /\ pc[u] = "fork_link" /\ peer'[u] = peer[u]
    BY <1>1, <1>7, <1>8, <1>12 DEF Handing
  <2>2. peer[u] \in Tasks /\ peer[u] # c
    BY <1>3, <2>1 DEF ThreadInv, Peers, Lists, Born
  <2> QED
    BY <1>7, <2>1, <2>2 DEF Parents
<1>13. ASSUME NEW u \in Tasks, pc'[u] \in Exits PROVE exited'[u] = TRUE
  BY <1>1, <1>7, <1>13 DEF Parents, Exits, ExitHolds
<1> QED
  BY <1>10, <1>11, <1>12, <1>13 DEF Parents, Has

LEMMA ExitSpliceParents ==
  ASSUME ThreadInv, Lists, Parents, NEW t \in Tasks, ExitSplice(t)
  PROVE  Parents'
<1> DEFINE all == children[t] \o children[init_task]
<1>1. /\ pc[t] = "exit_splice" /\ pc' = [pc EXCEPT ![t] = "exit_parent"]
      /\ children' = [children EXCEPT ![init_task] = all, ![t] = <<>>]
      /\ UNCHANGED <<parent, ppid, peer, cursor, exited>>
  BY DEF ExitSplice, At, On, Goto, Spliced, local, flags
<1>2. init_task \in Tasks /\ t # init_task /\ lock[init_task] = t
  BY <1>1, ProcessTreeAssumption DEF ProcessTreeAssumption, ThreadInv, Holds
<1>3. \A x : In(all, x) <=> In(children[t], x) \/ In(children[init_task], x)
  BY <1>2, ConcatIn DEF ThreadInv, TypeOK
<1> HIDE DEF all
<1>4. \A p \in Tasks : children'[p] = IF p = t THEN <<>> ELSE IF p = init_task THEN all ELSE children[p]
  BY <1>1, <1>2 DEF ThreadInv, TypeOK
<1>5. \A u \in Tasks : pc'[u] = IF u = t THEN "exit_parent" ELSE pc[u]
  BY <1>1 DEF ThreadInv, TypeOK
<1>6. pc[init_task] \notin Handing
  BY <1>2 DEF ThreadInv, Holds, Handing
<1>7. ASSUME NEW p \in Tasks, NEW x \in Tasks, In(children'[p], x)
      PROVE  /\ pc'[p] \notin Handing => parent'[x] = p
             /\ pc'[p] = "exit_splice" => parent'[x] = init_task
             /\ ppid'[x] = parent'[x] \/ (ppid'[x] = None /\ exited'[init_task] = TRUE)
  <2>1. p # t
    BY <1>4, <1>7 DEF In
  <2>2. pc'[p] = pc[p]
    BY <1>5, <2>1
  <2>3. CASE Has(p, x)
    BY <1>1, <2>2, <2>3 DEF Parents
  <2>4. CASE ~Has(p, x)
    <3>1. p = init_task /\ Has(t, x)
      BY <1>3, <1>4, <1>7, <2>1, <2>4 DEF Has
    <3>2. parent[x] = init_task /\ (ppid[x] = parent[x] \/ (ppid[x] = None /\ exited[init_task] = TRUE))
      BY <1>1, <3>1 DEF Parents
    <3> QED
      BY <1>1, <1>6, <2>2, <3>1, <3>2 DEF Handing
  <2> QED
    BY <2>3, <2>4
<1>8. ASSUME NEW p \in Tasks, pc'[p] = "exit_adopt", NEW i \in 1 .. Len(children'[p])
      PROVE  parent'[children'[p][i]] = IF i < cursor'[p] THEN init_task ELSE p
  <2>1. p # t /\ pc[p] = "exit_adopt"
    BY <1>5, <1>8
  <2>2. children'[p] = children[p]
    BY <1>4, <1>6, <2>1 DEF Handing
  <2> QED
    BY <1>1, <1>8, <2>1, <2>2 DEF Parents
<1>9. ASSUME NEW u \in Tasks
      PROVE  (pc'[u] = "fork_link" => ppid'[peer'[u]] = u) /\ (pc'[u] \in Exits => exited'[u] = TRUE)
  BY <1>1, <1>5 DEF Parents, Exits, ExitHolds
<1> QED
  BY <1>7, <1>8, <1>9 DEF Parents, Has

\* init leaves its children without a pid to answer to.
LEMMA ExitOrphanParents ==
  ASSUME ThreadInv, Lists, Parents, NEW t \in Tasks, ExitOrphan(t)
  PROVE  Parents'
<1> DEFINE c == children[t][cursor[t]]
<1>1. /\ pc[t] = "exit_orphan" /\ ppid' = [ppid EXCEPT ![c] = None]
      /\ UNCHANGED <<parent, children, peer, exited>>
      /\ \A u \in Tasks \ {t} : cursor'[u] = cursor[u]
  BY DEF ExitOrphan, Advance, At, On, AtCursor, flags, ThreadInv, TypeOK
<1>2. t = init_task /\ c \in Tasks /\ Has(t, c) /\ exited[init_task] = TRUE
  <2>1. cursor[t] \in 1 .. Len(children[t]) /\ t = init_task /\ exited[t] = TRUE
    BY <1>1 DEF ThreadInv, Walks, Holds, Parents, Exits, ExitHolds
  <2> QED
    BY <2>1 DEF ThreadInv, TypeOK, Has, In
<1>3. PICK place \in {"exit_orphan", "exit_parent"} : pc' = [pc EXCEPT ![t] = place]
  BY DEF ExitOrphan, Advance, Goto
<1> HIDE DEF c
<1>4. \A u \in Tasks : pc'[u] = (IF u = t THEN place ELSE pc[u]) /\ (u # c => ppid'[u] = ppid[u])
  BY <1>1, <1>3 DEF ThreadInv, TypeOK
<1>5. ppid'[c] = None
  BY <1>1, <1>2 DEF ThreadInv, TypeOK
<1>6. ASSUME NEW p \in Tasks, NEW x \in Tasks, In(children'[p], x)
      PROVE  /\ pc'[p] \notin Handing => parent'[x] = p
             /\ pc'[p] = "exit_splice" => parent'[x] = init_task
             /\ ppid'[x] = parent'[x] \/ (ppid'[x] = None /\ exited'[init_task] = TRUE)
  <2>1. Has(p, x) /\ parent'[x] = parent[x]
    BY <1>1, <1>6 DEF Has
  <2>2. (pc'[p] \notin Handing => pc[p] \notin Handing) /\ (pc'[p] = "exit_splice" => pc[p] = "exit_splice")
    BY <1>1, <1>3, <1>4 DEF Handing
  <2>3. ppid'[x] = parent'[x] \/ (ppid'[x] = None /\ exited'[init_task] = TRUE)
    BY <1>1, <1>2, <1>4, <1>5, <2>1 DEF Parents
  <2> QED
    BY <2>1, <2>2, <2>3 DEF Parents
<1>7. ASSUME NEW p \in Tasks, pc'[p] = "exit_adopt", NEW i \in 1 .. Len(children'[p])
      PROVE  parent'[children'[p][i]] = IF i < cursor'[p] THEN init_task ELSE p
  <2>1. p # t /\ pc[p] = "exit_adopt"
    BY <1>3, <1>4, <1>7
  <2> QED
    BY <1>1, <1>7, <2>1 DEF Parents
<1>8. ASSUME NEW u \in Tasks, pc'[u] = "fork_link" PROVE ppid'[peer'[u]] = u
  <2>1. u # t /\ pc[u] = "fork_link" /\ peer'[u] = peer[u]
    BY <1>1, <1>3, <1>4, <1>8
  <2>2. peer[u] \in Tasks /\ peer[u] # c
    BY <1>2, <2>1 DEF ThreadInv, Peers, Lists, Born
  <2> QED
    BY <1>4, <2>1, <2>2 DEF Parents
<1>9. ASSUME NEW u \in Tasks, pc'[u] \in Exits PROVE exited'[u] = TRUE
  BY <1>1, <1>4, <1>9 DEF Parents, Exits, ExitHolds
<1> QED
  BY <1>6, <1>7, <1>8, <1>9 DEF Parents, Has

\* fork's last step, and waitpid's: who is a child may only be taken off.
LEMMA OtherParents ==
  ASSUME ThreadInv, Lists, Parents, NEW t \in Tasks,
         ForkStart(t) \/ ForkFail(t) \/ (\E w : Pass(t, w)) \/ WaitStatus(t)
  PROVE  Parents'
<1>1. CASE ForkStart(t) \/ ForkFail(t)
  <2> DEFINE c == peer[t]
  <2>1. /\ pc[t] = "fork_start" /\ peer' = [peer EXCEPT ![t] = None]
        /\ pc' = [pc EXCEPT ![t] = "run", ![c] = "run"] \/ pc' = [pc EXCEPT ![t] = "run", ![c] = "gone"]
        /\ UNCHANGED <<parent, ppid, exited, cursor>>
    BY <1>1 DEF ForkStart, ForkFail, At, On, task, flags
  <2>2. c \in Tasks /\ pc[c] = "linked" /\ In(children[t], c)
    BY <2>1 DEF ThreadInv, Peers, Lists, Has
  <2>3. \A p, x \in Tasks : In(children'[p], x) => In(children[p], x)
    <3>1. CASE ForkStart(t)
      BY <3>1 DEF ForkStart, task
    <3>2. CASE ForkFail(t)
      <4>1. children' = [children EXCEPT ![t] = After(children[t], c)]
        BY <3>2 DEF ForkFail
      <4>2. \A x : In(After(children[t], c), x) => In(children[t], x)
        BY <2>2, AfterIn DEF Lists, ThreadInv, TypeOK
      <4> QED
        BY <4>1, <4>2 DEF ThreadInv, TypeOK
    <3> QED
      BY <1>1, <3>1, <3>2
  <2>4. \A p \in Tasks : p # t => children'[p] = children[p] /\ peer'[p] = peer[p]
    BY <1>1, <2>1 DEF ForkStart, ForkFail, task, ThreadInv, TypeOK
  <2> HIDE DEF c
  <2>5. \A u \in Tasks : (u \notin {c, t} => pc'[u] = pc[u]) /\ (u \in {c, t} => pc'[u] \in {"run", "gone"})
    BY <2>1, <2>2 DEF ThreadInv, TypeOK
  <2>6. ASSUME NEW p \in Tasks
        PROVE  /\ pc'[p] \in Handing \cup {"fork_link"} => pc'[p] = pc[p] /\ p # t
               /\ pc[p] \in Handing => pc'[p] = pc[p]
               /\ pc'[p] \in Exits => pc'[p] = pc[p]
    <3>1. CASE p \in {c, t}
      BY <2>1, <2>2, <2>5, <3>1 DEF Handing, Exits, ExitHolds
    <3>2. CASE p \notin {c, t}
      BY <2>5, <3>2
    <3> QED
      BY <3>1, <3>2
  <2>7. \A u \in Tasks : pc'[u] \in Exits => exited'[u] = TRUE
    BY <2>1, <2>6 DEF Parents
  <2> QED
    BY <2>1, <2>3, <2>4, <2>6, <2>7, ParentsKept
<1>2. ASSUME NEW w, Pass(t, w) PROVE Parents'
  <2> DEFINE c == AtCursor(t)
  <2>1. /\ pc[t] \in Waiting /\ UNCHANGED <<parent, ppid, exited>>
        /\ UNCHANGED children \/ (In(children[t], c) /\ Takes(t, c))
    BY <1>2, PassMoves DEF flags
  <2>2. \A u \in Tasks \ {t} :
          children'[u] = children[u] /\ peer'[u] = peer[u] /\ cursor'[u] = cursor[u]
    BY <1>2, PassMoves
  <2>3. PICK place \in Waiting \cup {"wait_reap", "wait_report"} : pc' = [pc EXCEPT ![t] = place]
    BY <1>2, PassMoves
  <2> HIDE DEF c
  <2>4. \A p, x \in Tasks : In(children'[p], x) => In(children[p], x)
    <3>1. CASE In(children[t], c) /\ Takes(t, c)
      <4>1. \A x : In(RemoveFirst(children[t], c), x) => In(children[t], x)
        BY <3>1, RemovedIn DEF Lists, ThreadInv, TypeOK
      <4> QED
        BY <3>1, <4>1 DEF Takes, ThreadInv, TypeOK
    <3> QED
      BY <2>1, <3>1
  <2> QED
    BY <2>1, <2>2, <2>3, <2>4, ThreadKeepsParents
    DEF Handing, Exits, ExitHolds, Waiting, Searches
<1>3. CASE WaitStatus(t)
  <2>1. /\ pc[t] \in {"wait_reap", "wait_report"} /\ pc' = [pc EXCEPT ![t] = "run"]
        /\ peer' = [peer EXCEPT ![t] = None] /\ UNCHANGED <<parent, ppid, children, exited, cursor>>
    BY <1>3 DEF WaitStatus, At, On, Goto, task, flags
  <2>2. \A u \in Tasks \ {t} : peer'[u] = peer[u]
    BY <2>1 DEF ThreadInv, TypeOK
  <2> QED
    BY <2>1, <2>2, ThreadKeepsParents DEF Handing, Exits, ExitHolds
<1> QED
  BY <1>1, <1>2, <1>3

LEMMA ParentsNext == ThreadInv /\ Lists /\ Parents /\ [Next]_vars => Parents'
<1> SUFFICES ASSUME ThreadInv, Lists, Parents, [Next]_vars PROVE Parents'
  OBVIOUS
<1>1. CASE Still
  <2>1. UNCHANGED <<parent, ppid, children, pc, peer, cursor, exited>>
    BY <1>1 DEF Still, task, flags, local
  <2> QED
    BY <2>1, ParentsKept DEF Parents
<1>2. ASSUME NEW t \in Tasks, StepOf(t) \/ ForkFail(t) PROVE Parents'
  BY <1>2, QuietKeepsParents, ForkAllocParents, ForkLinkParents, ExitLockInitParents, ExitAdoptParents,
     ExitSpliceParents, ExitOrphanParents, OtherParents DEF StepOf
<1> QED
  BY <1>1, <1>2, StepKinds

TreeInv == ThreadInv /\ Lists /\ Parents

LEMMA TreeAlways == Spec => []TreeInv
<1>1. Init => TreeInv
  BY InitThreads, InitLists, InitParents DEF TreeInv
<1>2. TreeInv /\ [Next]_vars => TreeInv'
  BY ThreadsNext, ListsNext, ParentsNext DEF TreeInv
<1> QED
  BY <1>1, <1>2, PTL DEF Spec

(* Whatever fails, the list a task is on is its parent's, except while an  *)
(* exiting parent hands it over to init, and task->ppid follows            *)
(* task->parent.                                                           *)
THEOREM ParentsAreAgreed == Spec => []ParentAgrees
<1>1. TreeInv => ParentAgrees
  <2> SUFFICES ASSUME TreeInv, NEW p \in Tasks, NEW c \in ToSet(children[p])
               PROVE  /\ \/ parent[c] = p
                         \/ pc[p] \in {"exit_adopt", "exit_splice"} /\ parent[c] = init_task
                      /\ \/ ppid[c] = parent[c]
                         \/ ppid[c] = None /\ exited[init_task]
    BY DEF ParentAgrees
  <2>1. children[p] \in Seq(Tasks) /\ In(children[p], c)
    BY SetOfList DEF TreeInv, ThreadInv, TypeOK
  <2>2. PICK i \in 1 .. Len(children[p]) : children[p][i] = c
    BY <2>1 DEF In
  <2>3. c \in Tasks /\ Has(p, c)
    BY <2>1, <2>2 DEF Has
  <2>4. parent[c] = p \/ (pc[p] \in {"exit_adopt", "exit_splice"} /\ parent[c] = init_task)
    BY <2>2, <2>3 DEF TreeInv, Parents, Handing
  <2> QED
    BY <2>3, <2>4 DEF TreeInv, Parents
<1> QED
  BY <1>1, TreeAlways, PTL

-----------------------------------------------------------------------------
(***************************************************************************)
(* Forks that fail.  Until it is started a new child is the first on its   *)
(* parent's list, unless that is init's, where exits put theirs in front.  *)
(***************************************************************************)
Losses ==
  /\ \A t \in Tasks \ {init_task} : pc[t] = "fork_start" => children[t][1] = peer[t]
  /\ \A c \in Tasks : pc[c] = "linked" => \E t \in Tasks : pc[t] = "fork_start" /\ peer[t] = c
  /\ \A c \in Tasks : Astray(c) => faults > 0 /\ parent[c] = init_task

\* Who is starting a child goes on undisturbed.
LEMMA Starters ==
  ASSUME TreeInv, NEW t \in Tasks, StepOf(t) \/ ForkFail(t), ~ForkLink(t)
  PROVE  /\ \A u \in Tasks : pc'[u] = "fork_start" <=> u # t /\ pc[u] = "fork_start"
         /\ \A u \in Tasks \ {t} : pc[u] = "fork_start" =>
              peer'[u] = peer[u] /\ (u # init_task => children'[u] = children[u])
         /\ \A c \in Tasks : pc'[c] = "linked" => pc[c] = "linked" /\ (pc[t] = "fork_start" => c # peer[t])
<1> DEFINE Goal == /\ \A u \in Tasks : pc'[u] = "fork_start" <=> u # t /\ pc[u] = "fork_start"
                   /\ \A u \in Tasks \ {t} : pc[u] = "fork_start" =>
                        peer'[u] = peer[u] /\ (u # init_task => children'[u] = children[u])
                   /\ \A c \in Tasks : pc'[c] = "linked" =>
                        pc[c] = "linked" /\ (pc[t] = "fork_start" => c # peer[t])
<1>0. TypeOK
  BY DEF TreeInv, ThreadInv
<1>1. ASSUME NEW place, pc' = [pc EXCEPT ![t] = place], place \notin {"fork_start", "linked"},
             pc[t] # "fork_start", \A u \in Tasks \ {t} : peer'[u] = peer[u],
             \A u \in Tasks \ {t, init_task} : children'[u] = children[u]
      PROVE  Goal
  <2>1. \A u \in Tasks : pc'[u] = IF u = t THEN place ELSE pc[u]
    BY <1>0, <1>1 DEF TypeOK
  <2> QED
    BY <1>1, <2>1
<1>2. CASE Quiet(t)
  BY <1>1, <1>2, QuietSteps DEF QuietStep, Elsewhere, Exits, ExitHolds, TreeInv
<1>3. ASSUME NEW d \in Tasks, ForkAlloc(t, d) PROVE Goal
  <2>1. /\ pc[t] = "fork_alloc" /\ pc[d] = "unborn" /\ UNCHANGED children
        /\ peer' = [peer EXCEPT ![t] = d]
        /\ pc' = [pc EXCEPT ![t] = "fork_link", ![d] = "unlinked"]
    BY <1>3 DEF ForkAlloc, At, On
  <2>2. /\ \A u \in Tasks : pc'[u] = IF u = d THEN "unlinked" ELSE IF u = t THEN "fork_link" ELSE pc[u]
        /\ \A u \in Tasks \ {t} : peer'[u] = peer[u]
    BY <1>0, <2>1 DEF TypeOK
  <2>3. ASSUME NEW u \in Tasks PROVE pc'[u] = "fork_start" <=> (u # t /\ pc[u] = "fork_start")
    <3>1. CASE u = d
      <4>1. pc'[u] = "unlinked"
        BY <2>2, <3>1
      <4>2. pc[u] = "unborn"
        BY <2>1, <3>1
      <4> QED
        BY <4>1, <4>2
    <3>2. CASE u = t /\ u # d
      BY <2>2, <3>2
    <3>3. CASE u # d /\ u # t
      BY <2>2, <3>3
    <3> QED
      BY <3>1, <3>2, <3>3
  <2>4. \A u \in Tasks : pc'[u] = "linked" => pc[u] = "linked"
    BY <2>1, <2>2
  <2> QED
    BY <2>1, <2>2, <2>3, <2>4
<1>4. CASE ForkStart(t) \/ ForkFail(t)
  <2>1. PICK d \in Tasks : d = peer[t] /\ pc[d] = "linked" /\ pc[t] = "fork_start"
    BY <1>4 DEF ForkStart, ForkFail, At, On, TreeInv, ThreadInv, Peers
  <2>2. /\ peer' = [peer EXCEPT ![t] = None]
        /\ children' = children \/ children' = [children EXCEPT ![t] = After(children[t], d)]
    BY <1>4, <2>1 DEF ForkStart, ForkFail, task
  <2>3. \E place \in {"run", "gone"} : pc' = [pc EXCEPT ![t] = "run", ![d] = place]
    BY <1>4, <2>1 DEF ForkStart, ForkFail
  <2>4. \A u \in Tasks : /\ u \notin {d, t} => pc'[u] = pc[u]
                         /\ u \in {d, t} => pc'[u] \in {"run", "gone"}
                         /\ u # t => peer'[u] = peer[u] /\ children'[u] = children[u]
    BY <1>0, <2>2, <2>3 DEF TypeOK
  <2> QED
    BY <2>1, <2>4
<1>5. ASSUME NEW w, Pass(t, w) PROVE Goal
  <2>1. /\ pc[t] \in Waiting
        /\ \E place \in Waiting \cup {"wait_reap", "wait_report"} : pc' = [pc EXCEPT ![t] = place]
        /\ \A u \in Tasks \ {t} : peer'[u] = peer[u] /\ children'[u] = children[u]
    BY <1>5, PassMoves DEF TreeInv
  <2> QED
    BY <1>1, <2>1 DEF Waiting, Searches
<1>6. CASE WaitStatus(t)
  <2>1. /\ pc[t] \in {"wait_reap", "wait_report"} /\ pc' = [pc EXCEPT ![t] = "run"]
        /\ peer' = [peer EXCEPT ![t] = None] /\ UNCHANGED children
    BY <1>6 DEF WaitStatus, At, On, Goto, task
  <2>2. \A u \in Tasks \ {t} : peer'[u] = peer[u]
    BY <1>0, <2>1 DEF TypeOK
  <2> QED
    BY <1>1, <2>1, <2>2
<1>7. CASE ExitSplice(t)
  <2>1. /\ pc[t] = "exit_splice" /\ pc' = [pc EXCEPT ![t] = "exit_parent"] /\ UNCHANGED peer
        /\ \E all : children' = [children EXCEPT ![init_task] = all, ![t] = <<>>]
    BY <1>7 DEF ExitSplice, At, On, Goto, local
  <2>2. \A u \in Tasks \ {t, init_task} : children'[u] = children[u]
    BY <1>0, <2>1 DEF TypeOK
  <2>3. \A u \in Tasks : pc'[u] = IF u = t THEN "exit_parent" ELSE pc[u]
    BY <1>0, <2>1 DEF TypeOK
  <2> QED
    BY <1>1, <2>1, <2>2, <2>3
<1> QED
  BY <1>2, <1>3, <1>4, <1>5, <1>6, <1>7 DEF StepOf

\* Whoever is born keeps its parent, or is adopted.
LEMMA ParentStays ==
  ASSUME TreeInv, NEW t \in Tasks, StepOf(t) \/ ForkFail(t), NEW c \in Born
  PROVE  parent'[c] \in {parent[c], init_task}
<1>0. c \in Tasks /\ pc[c] # "unlinked" /\ parent \in [Tasks -> Tasks \cup {None}]
  BY DEF Born, TreeInv, ThreadInv, TypeOK
<1>1. CASE ForkLink(t)
  <2>1. pc[peer[t]] = "unlinked" /\ parent' = [parent EXCEPT ![peer[t]] = t]
    BY <1>1 DEF ForkLink, At, On, TreeInv, ThreadInv, Peers
  <2> QED
    BY <1>0, <2>1
<1>2. CASE ExitAdopt(t)
  BY <1>0, <1>2 DEF ExitAdopt
<1>3. CASE ~ForkLink(t) /\ ~ExitAdopt(t)
  <2>1. UNCHANGED parent
    BY <1>3 DEF StepOf, Quiet, ForkCheck, ForkNoMemory, ExitBegin, ExitLockInit, ExitOrphan, ExitParent,
         ExitNotify, Kill, KillApply, KillNotify, ForkAlloc, ForkStart, ForkFail, Pass, WaitStatus,
         ExitSplice, task
  <2> QED
    BY <2>1
<1> QED
  BY <1>1, <1>2, <1>3

\* Who is lost that was not before, when a fork of t fails.
LEMMA ForkFailLoses ==
  ASSUME TreeInv, Losses, NEW t \in Tasks, ForkFail(t), NEW x \in Tasks, Astray(x)', ~Astray(x)
  PROVE  t = init_task /\ Has(t, x) /\ parent[x] = init_task /\ x # peer[t]
<1>1. In(children[t], x) /\ x # peer[t] /\ ~In(After(children[t], peer[t]), x)
  BY ForkFailLists DEF TreeInv
<1>2. pc[t] = "fork_start" /\ In(children[t], peer[t])
  BY DEF ForkFail, At, On, TreeInv, Lists, Has
<1>3. children[t] \in Seq(Tasks) /\ Distinct(children[t])
  BY DEF TreeInv, Lists, ThreadInv, TypeOK
<1>4. children[t][1] # peer[t]
  BY <1>1, <1>2, <1>3, AfterIn
<1>5. t = init_task
  BY <1>2, <1>4 DEF Losses
<1> QED
  BY <1>1, <1>2, <1>5 DEF TreeInv, Parents, Handing, Has

LEMMA LossesNext == TreeInv /\ TreeInv' /\ Losses /\ [Next]_vars => Losses'
<1> SUFFICES ASSUME TreeInv, TreeInv', Losses, [Next]_vars PROVE Losses'
  OBVIOUS
<1>0. TypeOK /\ faults \in Nat
  BY ProcessTreeAssumption DEF ProcessTreeAssumption, TreeInv, ThreadInv, TypeOK
<1>1. CASE Still
  <2>1. UNCHANGED <<children, reaped, pc, peer, faults, parent>>
    BY <1>1 DEF Still, task, local, bounds
  <2>2. \A x \in Tasks : Astray(x)' <=> Astray(x)
    BY <2>1 DEF Astray, Born, Has, In, Reaps
  <2> QED
    BY <2>1, <2>2 DEF Losses
<1>2. ASSUME NEW t \in Tasks, StepOf(t) \/ ForkFail(t) PROVE Losses'
  <2>1. /\ \A u \in Tasks \ {init_task} : pc'[u] = "fork_start" => children'[u][1] = peer'[u]
        /\ \A c \in Tasks : pc'[c] = "linked" => \E u \in Tasks : pc'[u] = "fork_start" /\ peer'[u] = c
    <3>1. CASE ForkLink(t)
      <4>1. PICK d \in Tasks : d = peer[t] /\ pc[d] = "unlinked" /\ pc[t] = "fork_link"
        BY <3>1 DEF ForkLink, At, On, TreeInv, ThreadInv, Peers
      <4>2. /\ \A u \in Tasks : pc'[u] = IF u = d THEN "linked" ELSE IF u = t THEN "fork_start" ELSE pc[u]
            /\ UNCHANGED peer
            /\ \A u \in Tasks : children'[u] = IF u = t THEN <<d>> \o children[t] ELSE children[u]
        BY <1>0, <3>1, <4>1 DEF ForkLink, TypeOK, local
      <4>3. (<<d>> \o children[t])[1] = d
        BY <1>0 DEF TypeOK
      <4>4. ASSUME NEW u \in Tasks \ {init_task}, pc'[u] = "fork_start" PROVE children'[u][1] = peer'[u]
        <5>1. CASE u = t
          BY <4>1, <4>2, <4>3, <5>1
        <5>2. CASE u # t
          BY <4>2, <4>4, <5>2 DEF Losses
        <5> QED
          BY <5>1, <5>2
      <4>5. pc'[t] = "fork_start" /\ peer'[t] = d
        BY <4>1, <4>2
      <4>6. ASSUME NEW c \in Tasks, pc'[c] = "linked"
            PROVE  \E u \in Tasks : pc'[u] = "fork_start" /\ peer'[u] = c
        <5>1. CASE c = d
          BY <4>5, <5>1
        <5>2. CASE c # d
          <6>1. pc[c] = "linked"
            BY <4>2, <4>6, <5>2
          <6>2. PICK u \in Tasks : pc[u] = "fork_start" /\ peer[u] = c
            BY <6>1 DEF Losses
          <6> QED
            BY <4>1, <4>2, <6>2
        <5> QED
          BY <5>1, <5>2
      <4> QED
        BY <4>4, <4>6
    <3>2. CASE ~ForkLink(t)
      <4>1. /\ \A u \in Tasks : pc'[u] = "fork_start" <=> u # t /\ pc[u] = "fork_start"
            /\ \A u \in Tasks \ {t} : pc[u] = "fork_start" =>
                 peer'[u] = peer[u] /\ (u # init_task => children'[u] = children[u])
            /\ \A c \in Tasks : pc'[c] = "linked" => pc[c] = "linked" /\ (pc[t] = "fork_start" => c # peer[t])
        BY <1>2, <3>2, Starters
      <4> QED
        BY <4>1 DEF Losses
    <3> QED
      BY <3>1, <3>2
  <2>2. ASSUME NEW x \in Tasks, Astray(x)' PROVE faults' > 0 /\ parent'[x] = init_task
    <3>1. CASE Astray(x)
      <4>1. faults' = faults \/ faults' = faults + 1
        BY <1>2, QuietSteps
           DEF StepOf, QuietStep, TreeInv, ForkAlloc, ForkLink, ForkStart, ForkFail, Pass, WaitStatus,
               ExitSplice, bounds
      <4>2. x \in Born /\ faults > 0 /\ parent[x] = init_task
        BY <2>2, <3>1 DEF Losses, Astray
      <4>3. faults' > 0
        BY <1>0, <4>1, <4>2
      <4>4. parent'[x] = init_task
        BY <1>2, <4>2, ParentStays
      <4> QED
        BY <4>3, <4>4
    <3>2. CASE ~Astray(x)
      <4>1. ForkFail(t)
        <5>1. CASE StepOf(t)
          <6>1. SameAstray
            BY <5>1, QuietKeepsLists, ForkAllocLists, ForkLinkLists, ForkStartLists, PassLists,
               WaitStatusLists, ExitSpliceLists DEF StepOf, TreeInv
          <6> QED
            BY <2>2, <3>2, <6>1 DEF SameAstray
        <5> QED
          BY <1>2, <5>1
      <4>2. faults' = faults + 1 /\ parent' = parent
        BY <4>1 DEF ForkFail
      <4>3. parent[x] = init_task
        BY <2>2, <3>2, <4>1, ForkFailLoses
      <4> QED
        BY <1>0, <4>2, <4>3
    <3> QED
      BY <3>1, <3>2
  <2> QED
    BY <2>1, <2>2 DEF Losses
<1> QED
  BY <1>1, <1>2, StepKinds DEF TreeInv

LEMMA LossesAlways == Spec => [](TreeInv /\ Losses)
<1>1. Init => Losses
  <2> SUFFICES ASSUME Init PROVE Losses
    OBVIOUS
  <2>1. /\ \A c \in Tasks : ~Astray(c)
        /\ \A t \in Tasks : pc[t] \in {"run", "unborn"}
    BY InitLists DEF Init
  <2> QED
    BY <2>1 DEF Losses
<1> QED
  BY <1>1, LossesNext, TreeAlways, PTL DEF Spec

(* No child is lost and none is reaped twice: every task but init that was *)
(* born is on exactly one list, once, until one waiter takes it off to     *)
(* free it.  Only a fork of init that fails loses children, those it has   *)
(* adopted since it linked the new one (fork.c:180).                       *)
THEOREM NoTaskIsLost == Spec => []EveryTaskListed
<1>1. TreeInv /\ Losses => EveryTaskListed
  <2> SUFFICES ASSUME TreeInv, Losses PROVE EveryTaskListed
    OBVIOUS
  <2>0. \A p \in Tasks : children[p] \in Seq(Tasks)
    BY DEF TreeInv, ThreadInv, TypeOK
  <2>1. /\ \A c : Listed(c) = {p \in Tasks : Has(p, c)}
        /\ \A c : Reaping(c) = {p \in Tasks : Reaps(p, c)}
    BY <2>0, SetOfList DEF Listed, Reaping, Has, Reaps
  <2>2. ASSUME NEW c \in (Born \ reaped) \ {init_task}
        PROVE  Cardinality(Listed(c) \cup Reaping(c)) <= 1
    <3>0. c \in Tasks
      BY DEF Born
    <3>1. CASE Listed(c) \cup Reaping(c) = {}
      BY <3>1, FS_EmptySet
    <3>2. CASE Listed(c) \cup Reaping(c) # {}
      <4>1. PICK p \in Tasks : Has(p, c) \/ Reaps(p, c)
        BY <2>1, <3>2
      <4>2. \A q \in Tasks : Has(q, c) \/ Reaps(q, c) => q = p
        BY <3>0, <4>1 DEF TreeInv, Lists
      <4>3. Listed(c) \cup Reaping(c) = {p}
        BY <2>1, <4>1, <4>2
      <4> QED
        BY <4>3, FS_Singleton
    <3> QED
      BY <3>1, <3>2
  <2>3. ASSUME NEW c \in Lost PROVE faults > 0 /\ parent[c] = init_task
    <3>1. c \in Tasks /\ Astray(c)
      BY <2>1 DEF Lost, Astray, Born
    <3> QED
      BY <3>1 DEF Losses
  <2>4. ASSUME NEW p \in Tasks PROVE Cardinality(ToSet(children[p])) = Len(children[p])
    BY <2>0, SetOfList DEF TreeInv, Lists
  <2>5. ASSUME NEW c \in reaped PROVE Listed(c) \cup Reaping(c) = {}
    BY <2>1 DEF TreeInv, Lists, Born
  <2>6. Listed(init_task) = {}
    BY <2>1, ProcessTreeAssumption DEF ProcessTreeAssumption, TreeInv, Lists
  <2> QED
    BY <2>2, <2>3, <2>4, <2>5, <2>6 DEF EveryTaskListed
<1> QED
  BY <1>1, LossesAlways, PTL

-----------------------------------------------------------------------------
(***************************************************************************)
(* Wakeups.  Nobody watches a waiter's children, or it knows of each what  *)
(* it has looked at: a searcher has seen no child it chooses before the    *)
(* one it is at, and the first child that a sleeper would choose, if any,  *)
(* is one that it cannot report.                                           *)
(***************************************************************************)
Chosen(p, c) == Selects(p, call[p], c)
Good(p, c) == Reportable(c, call[p].options)
Watched(p) == \E d \in Tasks : Has(p, d) /\ Notifiers(p, d) # {}
Attentive(p) == p \in asleep \/ pc[p] \in Searches

HeardSoFar(p) ==
  /\ \A i \in 1 .. cursor[p] - 1 : ~Chosen(p, children[p][i])
  /\ pc[p] = "wait_test" => Chosen(p, children[p][cursor[p]])
HeardAll(p) ==
  \A i \in 1 .. Len(children[p]) :
    Chosen(p, children[p][i]) /\ Good(p, children[p][i]) =>
      \E j \in 1 .. i : Chosen(p, children[p][j]) /\ ~Good(p, children[p][j])
Heard(p) ==
  /\ pc[p] \in Searches => HeardSoFar(p)
  /\ pc[p] \notin Searches => HeardAll(p)

Wakeups == \A p \in Tasks : Attentive(p) => Watched(p) \/ Heard(p)

LEMMA OthersStay ==
  ASSUME ThreadInv, NEW t \in Tasks, StepOf(t) \/ ForkFail(t), NEW u \in Tasks \ {t},
         pc[u] \notin {"unborn", "unlinked", "linked"}
  PROVE  /\ pc'[u] = pc[u] /\ peer'[u] = peer[u] /\ call'[u] = call[u] /\ cursor'[u] = cursor[u]
         /\ children'[u] = children[u] \/ (ExitSplice(t) /\ u = init_task)
<1> USE DEF ThreadInv, TypeOK
<1>1. CASE Quiet(t)
  BY <1>1, QuietSteps DEF QuietStep
<1>2. ASSUME NEW c \in Tasks, ForkAlloc(t, c)
      PROVE  /\ pc'[u] = pc[u] /\ peer'[u] = peer[u] /\ call'[u] = call[u] /\ cursor'[u] = cursor[u]
             /\ children'[u] = children[u]
  BY <1>2 DEF ForkAlloc, At, On
<1>3. CASE ForkLink(t) \/ ForkStart(t) \/ ForkFail(t)
  <2>1. peer[t] \in Tasks /\ pc[peer[t]] \in {"unlinked", "linked"}
    BY <1>3 DEF ForkLink, ForkStart, ForkFail, At, On, Peers
  <2>2. u # peer[t]
    BY <2>1
  <2> QED
    BY <1>3, <2>1, <2>2 DEF ForkLink, ForkStart, ForkFail, task, local
<1>4. ASSUME NEW w, Pass(t, w)
      PROVE  /\ pc'[u] = pc[u] /\ peer'[u] = peer[u] /\ call'[u] = call[u] /\ cursor'[u] = cursor[u]
             /\ children'[u] = children[u]
  BY <1>4, PassMoves
<1>5. CASE WaitStatus(t)
  BY <1>5 DEF WaitStatus, Goto, task
<1>6. CASE ExitSplice(t)
  <2>1. /\ pc' = [pc EXCEPT ![t] = "exit_parent"] /\ UNCHANGED <<peer, call, cursor>>
        /\ children' = [children EXCEPT ![init_task] = Spliced(children[t], @), ![t] = <<>>]
    BY <1>6 DEF ExitSplice, Goto, local
  <2> QED
    BY <1>6, <2>1
<1> QED
  BY <1>1, <1>2, <1>3, <1>4, <1>5, <1>6 DEF StepOf

\* A sleeper takes no step.
LEMMA SleepersRest ==
  ASSUME ThreadInv, NEW t \in Tasks, StepOf(t) \/ ForkFail(t)
  PROVE  t \notin asleep
<1> SUFFICES ASSUME t \in asleep PROVE FALSE
  OBVIOUS
<1>1. pc[t] = "wait_sleep"
  BY DEF ThreadInv, Counted
<1>2. CASE Quiet(t)
  BY <1>1, <1>2, QuietSteps DEF QuietStep, Elsewhere, Exits, ExitHolds
<1>3. CASE ~Quiet(t)
  BY <1>1, <1>3
  DEF StepOf, ForkAlloc, ForkLink, ForkStart, ForkFail, Pass, WaitStatus, ExitSplice, At, On
<1> QED
  BY <1>2, <1>3

\* What others do leaves a waiter's list and call alone; a splice wakes init.
LEMMA AttentiveStay ==
  ASSUME ThreadInv, NEW t \in Tasks, StepOf(t) \/ ForkFail(t), NEW p \in Tasks, p # t,
         Attentive(p), Attentive(p)'
  PROVE  /\ pc'[p] = pc[p] /\ pc[p] \in {"wait_sleep"} \cup Searches
         /\ p \in asleep => pc[p] = "wait_sleep" /\ waiters[p] = 1 /\ p \in asleep'
         /\ p \notin asleep => pc[p] \in Searches /\ lock[p] = p
         /\ children'[p] = children[p] /\ call'[p] = call[p] /\ cursor'[p] = cursor[p]
<1>1. /\ p \in asleep => pc[p] = "wait_sleep" /\ waiters[p] = 1
      /\ pc[p] \in Searches => lock[p] = p
      /\ pc[p] \in {"wait_sleep"} \cup Searches
  BY DEF ThreadInv, TypeOK, Counted, Holds, Attentive, Searches
<1>2. /\ pc'[p] = pc[p] /\ call'[p] = call[p] /\ cursor'[p] = cursor[p]
      /\ children'[p] = children[p] \/ (ExitSplice(t) /\ p = init_task)
  BY <1>1, OthersStay DEF Searches
<1>3. p \in asleep => p \in asleep'
  BY <1>1, <1>2 DEF Attentive, Searches
<1>4. ASSUME ExitSplice(t), p = init_task PROVE FALSE
  <2>1. pc[t] = "exit_splice" /\ asleep' = IF waiters[p] > 0 THEN asleep \ {p} ELSE asleep
    BY <1>4 DEF ExitSplice, Broadcast, At, On
  <2>2. lock[p] = t
    BY <1>4, <2>1 DEF ThreadInv, Holds
  <2> QED
    BY <1>1, <1>3, <2>1, <2>2 DEF Attentive
<1> QED
  BY <1>1, <1>2, <1>3, <1>4 DEF Attentive

\* Who is to wake a waiter about its child stays so until it wakes it, and
\* has to wait as long as the waiter searches.
LEMMA NotifiersStay ==
  ASSUME TreeInv, NEW t \in Tasks, StepOf(t) \/ ForkFail(t), NEW p \in Tasks, p # t,
         Attentive(p), Attentive(p)', NEW c \in Tasks, Has(p, c), Notifiers(p, c) # {}
  PROVE  Notifiers(p, c)' # {}
<1>1. /\ pc[p] \in {"wait_sleep"} \cup Searches
      /\ p \in asleep => waiters[p] = 1 /\ p \in asleep'
      /\ p \notin asleep => lock[p] = p
  BY AttentiveStay DEF TreeInv
<1>2. parent[c] = p
  BY <1>1 DEF TreeInv, Parents, Handing, Searches
<1>0. p # None
  BY ProcessTreeAssumption DEF ProcessTreeAssumption
<1>3. PICK u \in Tasks :
        \/ u = c /\ pc[u] \in ExitHolds \cup {"exit_parent"}
        \/ u = c /\ pc[u] = "exit_notify" /\ peer[u] = p
        \/ pc[u] = "kill_notify" /\ peer[u] = c
  BY DEF Notifiers, ExitHolds
<1>4. CASE u # t
  <2>1. pc'[u] = pc[u] /\ peer'[u] = peer[u]
    BY <1>3, <1>4, OthersStay DEF TreeInv, ExitHolds
  <2> QED
    BY <1>3, <2>1 DEF Notifiers, ExitHolds
<1>5. CASE u = t
  <2> USE <1>3, <1>5
  <2>1. pc[t] \in ExitHolds \cup {"exit_parent", "exit_notify", "kill_notify"}
    OBVIOUS
  <2>2. \/ ExitLockInit(t) \/ ExitAdopt(t) \/ ExitOrphan(t) \/ ExitParent(t) \/ ExitNotify(t)
        \/ KillNotify(t) \/ ExitSplice(t)
    <3>1. ~\E w : Pass(t, w)
      BY <2>1, PassMoves DEF TreeInv, Waiting, Searches, ExitHolds
    <3> QED
      BY <2>1, <3>1
      DEF StepOf, Quiet, ForkCheck, ForkNoMemory, ExitBegin, Kill, KillApply, ForkAlloc, ForkLink,
          ForkStart, ForkFail, WaitStatus, At, On, ExitHolds
  <2>3. CASE ExitLockInit(t) \/ ExitAdopt(t) \/ ExitOrphan(t) \/ ExitSplice(t)
    <3>1. t = c /\ pc'[t] \in ExitHolds \cup {"exit_parent"}
      BY <2>3
         DEF ExitLockInit, ExitAdopt, ExitOrphan, ExitSplice, Advance, At, On, Goto, TreeInv,
                  ThreadInv, TypeOK, ExitHolds
    <3> QED
      BY <3>1 DEF Notifiers, ExitHolds
  <2>4. CASE ExitParent(t)
    <3>1. t = c /\ pc[t] = "exit_parent"
      BY <2>4 DEF ExitParent, At, On, ExitHolds
    <3>3. pc' = [pc EXCEPT ![t] = "exit_notify"] /\ peer' = [peer EXCEPT ![t] = p]
      BY <1>0, <1>2, <2>4, <3>1 DEF ExitParent, Goto
    <3>4. pc'[t] = "exit_notify" /\ peer'[t] = p
      BY <3>3 DEF TreeInv, ThreadInv, TypeOK
    <3> QED
      BY <3>1, <3>4 DEF Notifiers
  <2>5. CASE ExitNotify(t)
    <3>1. /\ t = c /\ peer[t] = p /\ lock[peer[t]] = None
          /\ asleep' = IF waiters[parent[t]] > 0 THEN asleep \ {parent[t]} ELSE asleep
      BY <2>5 DEF ExitNotify, At, On, Broadcast, ExitHolds, Unlocked
    <3> QED
      BY <1>0, <1>1, <1>2, <3>1
  <2>6. CASE KillNotify(t)
    <3>1. /\ peer[t] = c /\ lock[parent[c]] = None
          /\ asleep' = asleep \ {v \in {c, parent[c]} : waiters[v] > 0}
      BY <2>6 DEF KillNotify, On, Wakes, ExitHolds, Unlocked
    <3> QED
      BY <1>0, <1>1, <1>2, <3>1
  <2> QED
    BY <2>2, <2>3, <2>4, <2>5, <2>6
<1> QED
  BY <1>4, <1>5

\* A waiter knows what it knew if its children have no news.
LEMMA HeardKept ==
  ASSUME ThreadInv, NEW p \in Tasks, pc'[p] = pc[p], children'[p] = children[p], call'[p] = call[p],
         cursor'[p] = cursor[p], Attentive(p), Heard(p),
         \A c \in Tasks : Has(p, c) =>
           exited'[c] = exited[c] /\ stopped'[c] = stopped[c] /\ continued'[c] = continued[c]
  PROVE  Heard(p)'
<1> DEFINE s == children[p]
<1>1. s \in Seq(Tasks) /\ Len(s) \in Nat
  BY DEF ThreadInv, TypeOK
<1>2. ASSUME NEW c \in Tasks, Has(p, c)
      PROVE  (Chosen(p, c)' <=> Chosen(p, c)) /\ (Good(p, c)' <=> Good(p, c))
  BY <1>2 DEF Chosen, Good, Selects, HasNews, Reportable
<1>3. \A i \in 1 .. Len(s) : s[i] \in Tasks /\ Has(p, s[i])
  BY <1>1 DEF Has, In
<1>4. s' = s
  OBVIOUS
<1> HIDE DEF Chosen, Good
<1>5. CASE pc[p] \in Searches
  <2>1. cursor[p] \in 1 .. Len(s)
    BY <1>5 DEF ThreadInv, Walks, Searches
  <2>2. \A i \in 1 .. cursor[p] - 1 : i \in 1 .. Len(s)
    BY <1>1, <2>1
  <2>3. HeardSoFar(p)
    BY <1>5 DEF Heard
  <2> HIDE DEF s
  <2>4. \A i \in 1 .. cursor[p] - 1 : \A c \in Tasks : c = s[i] => ~Chosen(p, c)'
    BY <1>2, <1>3, <2>2, <2>3 DEF HeardSoFar, s
  <2>5. pc[p] = "wait_test" => \A c \in Tasks : c = s[cursor[p]] => Chosen(p, c)'
    BY <1>2, <1>3, <2>1, <2>3 DEF HeardSoFar, s
  <2>6. ASSUME NEW i \in 1 .. cursor[p] - 1 PROVE ~Chosen(p, s[i])'
    BY <1>3, <1>4, <2>2, <2>4
  <2>7. ASSUME pc[p] = "wait_test" PROVE Chosen(p, s[cursor[p]])'
    BY <1>3, <1>4, <2>1, <2>5, <2>7
  <2> QED
    BY <1>5, <2>6, <2>7 DEF Heard, HeardSoFar, s
<1>6. CASE pc[p] \notin Searches
  <2>1. HeardAll(p)
    BY <1>6 DEF Heard
  <2>2. \A i \in 1 .. Len(s) : \A j \in 1 .. i : j \in 1 .. Len(s)
    BY <1>1
  <2> HIDE DEF s
  <2>3. ASSUME NEW i \in 1 .. Len(s), NEW c \in Tasks, c = s[i], Chosen(p, c)', Good(p, c)'
        PROVE  \E j \in 1 .. i : \E d \in Tasks : d = s[j] /\ Chosen(p, d)' /\ ~Good(p, d)'
    <3>1. Chosen(p, s[i]) /\ Good(p, s[i])
      BY <1>2, <1>3, <2>3
    <3>2. PICK j \in 1 .. i : Chosen(p, s[j]) /\ ~Good(p, s[j])
      BY <2>1, <3>1 DEF HeardAll, s
    <3> QED
      BY <1>2, <1>3, <2>2, <3>2
  <2>4. ASSUME NEW i \in 1 .. Len(s), Chosen(p, s[i])', Good(p, s[i])'
        PROVE  \E j \in 1 .. i : Chosen(p, s[j])' /\ ~Good(p, s[j])'
    BY <1>3, <1>4, <2>3, <2>4
  <2> QED
    BY <1>4, <1>6, <2>4 DEF Heard, HeardAll, s
<1> QED
  BY <1>5, <1>6

\* Nothing a task has to tell changes, but what a signal or its exit changes.
LEMMA NewsStay ==
  ASSUME TreeInv, NEW t \in Tasks, StepOf(t) \/ ForkFail(t), NEW c \in Tasks,
         ~\E s \in ExitCodes : ExitBegin(t, s), ~\E u \in Tasks : KillApply(t, u)
  PROVE  exited'[c] = exited[c] /\ stopped'[c] = stopped[c] /\ continued'[c] = continued[c]
  BY DEF StepOf, Quiet, ForkCheck, ForkNoMemory, ExitLockInit, ExitAdopt, ExitOrphan,
         ExitParent,
         ExitNotify, Kill, KillNotify, ForkAlloc, ForkLink, ForkStart, ForkFail, Pass, WaitStatus,
         ExitSplice, flags

\* Others change what a waiter's children have to tell only to wake it.
LEMMA AttentionKept ==
  ASSUME TreeInv, NEW t \in Tasks, StepOf(t) \/ ForkFail(t), NEW p \in Tasks, p # t,
         Attentive(p), Attentive(p)', Watched(p) \/ Heard(p)
  PROVE  Watched(p)' \/ Heard(p)'
<1>1. /\ pc'[p] = pc[p] /\ pc[p] \in {"wait_sleep"} \cup Searches
      /\ children'[p] = children[p] /\ call'[p] = call[p] /\ cursor'[p] = cursor[p]
  BY AttentiveStay DEF TreeInv
<1>2. \A c \in Tasks : In(children'[p], c) <=> Has(p, c)
  BY <1>1 DEF Has
<1>3. Watched(p) => Watched(p)'
  <2>1. ASSUME NEW d \in Tasks, Has(p, d), Notifiers(p, d) # {} PROVE Notifiers(p, d)' # {}
    BY <2>1, NotifiersStay
  <2> HIDE DEF Notifiers
  <2> QED
    BY <1>2, <2>1 DEF Watched, Has
<1>4. ASSUME \A c \in Tasks : Has(p, c) =>
               exited'[c] = exited[c] /\ stopped'[c] = stopped[c] /\ continued'[c] = continued[c]
      PROVE  Watched(p)' \/ Heard(p)'
  BY <1>1, <1>3, <1>4, HeardKept DEF TreeInv
<1>5. ASSUME NEW d \in Tasks, Has(p, d), NEW u \in Tasks, u \in Notifiers(p, d)'
      PROVE  Watched(p)'
  BY <1>2, <1>5 DEF Watched, Has
<1>6. CASE ~(\E s \in ExitCodes : ExitBegin(t, s)) /\ ~(\E u \in Tasks : KillApply(t, u))
  <2>1. \A c \in Tasks : exited'[c] = exited[c] /\ stopped'[c] = stopped[c] /\ continued'[c] = continued[c]
    BY <1>6, NewsStay
  <2> QED
    BY <1>4, <2>1
\* t begins to exit, and will notify whoever waits for it.
<1>7. ASSUME NEW s \in ExitCodes, ExitBegin(t, s) PROVE Watched(p)' \/ Heard(p)'
  <2>1. /\ exited' = [exited EXCEPT ![t] = TRUE] /\ UNCHANGED <<stopped, continued>>
        /\ \E place \in ExitHolds \cup {"exit_parent"} : pc' = [pc EXCEPT ![t] = place]
    BY <1>7 DEF ExitBegin, Goto, ExitHolds
  <2>2. t \in Notifiers(p, t)'
    BY <2>1 DEF Notifiers, ExitHolds, TreeInv, ThreadInv, TypeOK
  <2>3. \A c \in Tasks : c # t => exited'[c] = exited[c]
    BY <2>1 DEF TreeInv, ThreadInv, TypeOK
  <2> QED
    BY <1>4, <1>5, <2>1, <2>2, <2>3
\* A signal changes u, and the thread that applied it notifies u's parent.
<1>8. ASSUME NEW u \in Tasks, KillApply(t, u) PROVE Watched(p)' \/ Heard(p)'
  <2>1. \A c \in Tasks \ {u} :
          exited'[c] = exited[c] /\ stopped'[c] = stopped[c] /\ continued'[c] = continued[c]
    <3>1. SetFlags(u, sig[t]) /\ sig[t] \in Signals
      BY <1>8 DEF KillApply, On, TreeInv, ThreadInv, Holds
    <3> QED
      BY <3>1, FlagsSet DEF TreeInv, ThreadInv
  <2>2. ASSUME Has(p, u) PROVE t \in Notifiers(p, u)'
    <3>1. parent[u] = p /\ p # None
      BY <1>1, <2>2, ProcessTreeAssumption
      DEF ProcessTreeAssumption, TreeInv, Parents, Handing, Searches
    <3>2. peer' = [peer EXCEPT ![t] = u] /\ pc' = [pc EXCEPT ![t] = "kill_notify"]
      BY <1>8, <3>1 DEF KillApply, Goto
    <3>3. pc'[t] = "kill_notify" /\ peer'[t] = u
      BY <3>2 DEF TreeInv, ThreadInv, TypeOK
    <3> QED
      BY <3>3 DEF Notifiers
  <2> QED
    BY <1>4, <1>5, <2>1, <2>2
<1> QED
  BY <1>6, <1>7, <1>8

\* Who stops at a child it cannot report, or at none, has heard all.
LEMMA SearchHeard ==
  ASSUME TreeInv, NEW t \in Tasks, NEW w, Searching(t, w), t \notin asleep, Attentive(t)',
         UNCHANGED flags, NEW i \in Nat, i >= 1, Finds(t, w, i),
         \A j \in 1 .. i - 1 : ~Selects(t, w, children[t][j])
  PROVE  Heard(t)'
<1> DEFINE s == children[t]
<1>1. s \in Seq(Tasks) /\ Len(s) \in Nat
  BY DEF TreeInv, ThreadInv, TypeOK
<1>2. /\ \A c : Selects(t, w, c)' <=> Selects(t, w, c)
      /\ \A c : Reportable(c, w.options)' <=> Reportable(c, w.options)
  BY DEF flags, Selects, HasNews, Reportable
<1>3. CASE i <= Len(s) /\ Selects(t, w, s[i]) /\ Looks(t, w, "wait_test", i)
  <2>1. children'[t] = s /\ call'[t] = w /\ cursor'[t] = i /\ pc'[t] = "wait_test"
    BY <1>3 DEF Looks, TreeInv, ThreadInv, TypeOK
  <2> HIDE DEF Selects
  <2>2. (\A j \in 1 .. i - 1 : \A c : c = s[j] => ~Selects(t, w, c)') /\ \A c : c = s[i] => Selects(t, w, c)'
    BY <1>2, <1>3
  <2> HIDE DEF s
  <2>3. s' = s
    BY <2>1 DEF s
  <2>4. (\A j \in 1 .. i - 1 : ~Selects(t, w, s[j])') /\ Selects(t, w, s[i])'
    BY <2>2, <2>3
  <2> QED
    BY <2>1, <2>4 DEF s, Heard, HeardSoFar, Chosen, Searches
<1>4. CASE i < Len(s) /\ ~Selects(t, w, s[i]) /\ Looks(t, w, "wait_look", i + 1)
  <2>1. children'[t] = s /\ call'[t] = w /\ cursor'[t] = i + 1 /\ pc'[t] = "wait_look"
    BY <1>4 DEF Looks, TreeInv, ThreadInv, TypeOK
  <2>2. \A j \in 1 .. (i + 1) - 1 : j \in 1 .. i - 1 \/ j = i
    OBVIOUS
  <2> HIDE DEF Selects
  <2>3. \A j \in 1 .. (i + 1) - 1 : \A c : c = s[j] => ~Selects(t, w, c)'
    BY <1>2, <1>4, <2>2
  <2> HIDE DEF s
  <2>4. s' = s
    BY <2>1 DEF s
  <2>5. \A j \in 1 .. (i + 1) - 1 : ~Selects(t, w, s[j])'
    BY <2>3, <2>4
  <2> QED
    BY <2>1, <2>5 DEF s, Heard, HeardSoFar, Chosen, Searches
<1>5. CASE /\ Len(s) <= i /\ (i <= Len(s) => ~Selects(t, w, s[i]))
           /\ NothingYet(t) \/ FallsAsleep(t, w)
  <2>1. FallsAsleep(t, w)
    BY <1>5 DEF NothingYet, Attentive, Searches, TreeInv, ThreadInv, TypeOK
  <2>2. children'[t] = s /\ call'[t] = w /\ pc'[t] = "wait_sleep"
    BY <2>1 DEF FallsAsleep, TreeInv, ThreadInv, TypeOK
  <2>3. \A j \in 1 .. Len(s) : j \in 1 .. i - 1 \/ j = i
    BY <1>1, <1>5
  <2> HIDE DEF Selects
  <2>4. \A j \in 1 .. Len(s) : \A c : c = s[j] => ~Selects(t, w, c)'
    BY <1>1, <1>2, <1>5, <2>3
  <2> HIDE DEF s
  <2>5. s' = s
    BY <2>2 DEF s
  <2>6. \A j \in 1 .. Len(s) : ~Selects(t, w, s[j])'
    BY <2>4, <2>5
  <2> QED
    BY <2>2, <2>5, <2>6 DEF s, Heard, HeardAll, Chosen, Searches
<1> QED
  BY <1>3, <1>4, <1>5 DEF Finds

\* What a waiter's own step leaves it with.
LEMMA PassHeard ==
  ASSUME TreeInv, NEW t \in Tasks, NEW w, Pass(t, w), Attentive(t) => Watched(t) \/ Heard(t),
         Attentive(t)'
  PROVE  Watched(t)' \/ Heard(t)'
<1>0. t \notin asleep /\ UNCHANGED flags /\ pc[t] \in Waiting
  BY Passes DEF Pass, TreeInv
<1>1. ASSUME UNCHANGED children, Watched(t) PROVE Watched(t)'
  <2>1. PICK d \in Tasks, u \in Tasks : Has(t, d) /\ u \in Notifiers(t, d)
    BY <1>1 DEF Watched, Notifiers
  <2>2. u # t /\ pc[u] \notin {"unborn", "unlinked", "linked"}
    BY <1>0, <2>1 DEF Notifiers, Waiting, Searches
  <2>3. pc'[u] = pc[u] /\ peer'[u] = peer[u]
    BY <2>2, OthersStay DEF StepOf, TreeInv
  <2>4. u \in Notifiers(t, d)'
    BY <2>1, <2>3 DEF Notifiers
  <2> QED
    BY <1>1, <2>1, <2>4 DEF Watched, Has
<1>2. CASE Searching(t, w)
  <2> DEFINE i == IF pc[t] = "wait_look" THEN cursor[t] ELSE 1
  <2>1. Finds(t, w, i) /\ i \in Nat /\ i >= 1
    BY <1>2 DEF Searching, TreeInv, ThreadInv, Walks
  <2>2. UNCHANGED children
    BY <2>1 DEF Finds, Looks, NothingYet, FallsAsleep
  <2>3. CASE pc[t] = "wait_look"
    <3>1. w = call[t] /\ (Watched(t) \/ HeardSoFar(t))
      BY <1>2, <2>3 DEF Searching, Attentive, Heard, Searches
    <3>2. HeardSoFar(t) => \A j \in 1 .. i - 1 : ~Selects(t, w, children[t][j])
      BY <2>3, <3>1 DEF HeardSoFar, Chosen
    <3> HIDE DEF i
    <3> QED
      BY <1>0, <1>1, <1>2, <2>1, <2>2, <3>1, <3>2, SearchHeard
  <2>4. CASE pc[t] # "wait_look"
    <3>1. i = 1 /\ \A j \in 1 .. 1 - 1 : ~Selects(t, w, children[t][j])
      BY <2>4
    <3> HIDE DEF i
    <3> QED
      BY <1>0, <1>2, <2>1, <3>1, SearchHeard
  <2> QED
    BY <2>3, <2>4
<1>3. CASE Testing(t, w)
  <2>1. pc[t] = "wait_test" /\ w = call[t] /\ cursor[t] \in 1 .. Len(children[t])
    BY <1>3 DEF Testing, TreeInv, ThreadInv, Walks
  <2>2. FallsAsleep(t, w) /\ ~Reportable(AtCursor(t), w.options)
    <3>1. ~NothingYet(t)
      BY <1>0 DEF NothingYet, Attentive, Searches, TreeInv, ThreadInv, TypeOK
    <3>2. ~(Hands(t, AtCursor(t)) /\ (Takes(t, AtCursor(t)) \/ Tells(t, AtCursor(t))))
      BY <1>0 DEF Hands, Takes, Tells, Attentive, Searches, TreeInv, ThreadInv, TypeOK
    <3> QED
      BY <1>3, <3>1, <3>2 DEF Testing
  <2>3. UNCHANGED children /\ call'[t] = w /\ pc'[t] = "wait_sleep"
    BY <2>2 DEF FallsAsleep, TreeInv, ThreadInv, TypeOK
  <2>4. Watched(t) \/ HeardSoFar(t)
    BY <2>1 DEF Attentive, Heard, Searches
  <2>5. ASSUME HeardSoFar(t) PROVE Heard(t)'
    <3> DEFINE s == children[t]
               n == cursor[t]
    <3>1. /\ \A c : Selects(t, w, c)' <=> Selects(t, w, c)
          /\ \A c : Reportable(c, w.options)' <=> Reportable(c, w.options)
      BY <1>0 DEF flags, Selects, HasNews, Reportable
    <3>2. /\ \A j \in 1 .. n - 1 : ~Selects(t, w, s[j])
          /\ Selects(t, w, s[n]) /\ ~Reportable(s[n], w.options)
      BY <2>1, <2>2, <2>5 DEF HeardSoFar, Chosen, AtCursor
    <3>3. n \in 1 .. Len(s) /\ Len(s) \in Nat
      BY <2>1 DEF TreeInv, ThreadInv, TypeOK
    <3>0. s' = s
      BY <2>3
    <3> HIDE DEF Selects, Reportable, s, n
    <3>4. ASSUME NEW i \in 1 .. Len(s), Selects(t, w, s[i])'
          PROVE  \E j \in 1 .. i : Selects(t, w, s[j])' /\ ~Reportable(s[j], w.options)'
      <4>1. ~(i \in 1 .. n - 1)
        BY <3>0, <3>1, <3>2, <3>4
      <4>2. n \in 1 .. i
        BY <3>3, <4>1
      <4> QED
        BY <3>0, <3>1, <3>2, <4>2
    <3> QED
      BY <2>3, <3>4 DEF s, Heard, HeardAll, Chosen, Good, Searches
  <2> QED
    BY <1>1, <2>3, <2>4, <2>5
<1> QED
  BY <1>2, <1>3 DEF Pass

\* What becomes of a task that is being made.
LEMMA UnbornMoves ==
  ASSUME ThreadInv, NEW t \in Tasks, StepOf(t) \/ ForkFail(t), NEW p \in Tasks, p # t,
         pc[p] \in {"unborn", "unlinked", "linked"}
  PROVE  pc'[p] \in {"unborn", "unlinked", "linked", "run", "gone"}
<1> USE DEF ThreadInv, TypeOK
<1>1. CASE Quiet(t)
  BY <1>1, QuietSteps DEF QuietStep
<1>2. CASE ForkLink(t) \/ ForkStart(t) \/ ForkFail(t)
  BY <1>2 DEF ForkLink, ForkStart, ForkFail, At, On, Peers
<1>3. ASSUME NEW c \in Tasks, ForkAlloc(t, c) PROVE pc'[p] \in {"unborn", "unlinked"} \cup {pc[p]}
  BY <1>3 DEF ForkAlloc
<1>4. CASE \E w : Pass(t, w)
  BY <1>4, PassMoves
<1>5. CASE WaitStatus(t) \/ ExitSplice(t)
  BY <1>5 DEF WaitStatus, ExitSplice, Goto
<1> QED
  BY <1>1, <1>2, <1>3, <1>4, <1>5 DEF StepOf

\* Only a step of its own makes a task a waiter, and only one of waitpid's.
LEMMA NobodyElseFallsIn ==
  ASSUME ThreadInv, NEW t \in Tasks, StepOf(t) \/ ForkFail(t), NEW p \in Tasks, p # t, Attentive(p)'
  PROVE  Attentive(p)
<1>1. p \in asleep' => p \in asleep
  <2>1. CASE \E w : Pass(t, w)
    BY <2>1, PassMoves
  <2>2. CASE ~\E w : Pass(t, w)
    BY <2>2
    DEF StepOf, Quiet, ForkCheck, ForkNoMemory, ExitBegin, ExitLockInit, ExitAdopt, ExitOrphan,
        ExitParent, ExitNotify, Kill, KillApply, KillNotify, Delivered, ForkAlloc, ForkLink,
        ForkStart, ForkFail, WaitStatus, ExitSplice, Broadcast, sync
  <2> QED
    BY <2>1, <2>2
<1>2. CASE pc[p] \in {"unborn", "unlinked", "linked"}
  <2>1. pc'[p] \in {"unborn", "unlinked", "linked", "run", "gone"}
    BY <1>2, UnbornMoves
  <2>2. p \notin asleep
    BY <1>2 DEF ThreadInv, Counted
  <2> QED
    BY <1>1, <2>1, <2>2 DEF Attentive, Searches
<1>3. CASE pc[p] \notin {"unborn", "unlinked", "linked"}
  BY <1>1, <1>3, OthersStay DEF Attentive
<1> QED
  BY <1>2, <1>3

LEMMA OnlyPassesAttend ==
  ASSUME ThreadInv, NEW p \in Tasks, StepOf(p) \/ ForkFail(p), Attentive(p)'
  PROVE  \E w : Pass(p, w)
<1> SUFFICES ASSUME ~\E w : Pass(p, w) PROVE FALSE
  OBVIOUS
<1>1. p \notin asleep
  BY SleepersRest
<1>2. p \notin asleep'
  BY <1>1
  DEF StepOf, Quiet, ForkCheck, ForkNoMemory, ExitBegin, ExitLockInit, ExitAdopt, ExitOrphan,
      ExitParent, ExitNotify, Kill, KillApply, KillNotify, Delivered, ForkAlloc, ForkLink,
      ForkStart, ForkFail, WaitStatus, ExitSplice, Broadcast, sync
<1>3. pc'[p] \notin Searches
  <2> USE DEF ThreadInv, TypeOK, Searches
  <2>1. CASE Quiet(p)
    BY <2>1, QuietSteps DEF QuietStep, Elsewhere, Exits, ExitHolds
  <2>2. CASE ForkLink(p) \/ ForkStart(p) \/ ForkFail(p)
    BY <2>2 DEF ForkLink, ForkStart, ForkFail, At, On, Peers
  <2>3. CASE \E c \in Tasks : ForkAlloc(p, c)
    BY <2>3 DEF ForkAlloc
  <2>4. CASE WaitStatus(p) \/ ExitSplice(p)
    BY <2>4 DEF WaitStatus, ExitSplice, Goto
  <2> QED
    BY <2>1, <2>2, <2>3, <2>4 DEF StepOf
<1> QED
  BY <1>2, <1>3 DEF Attentive

LEMMA WakeupsNext == TreeInv /\ Wakeups /\ [Next]_vars => Wakeups'
<1> SUFFICES ASSUME TreeInv, Wakeups, [Next]_vars, NEW p \in Tasks, Attentive(p)'
             PROVE  Watched(p)' \/ Heard(p)'
  BY DEF Wakeups
<1>1. CASE Still
  <2>1. /\ UNCHANGED <<children, call, cursor, pc, peer, exited, stopped, continued>>
        /\ asleep' \subseteq asleep
    BY <1>1 DEF Still, task, flags, local
  <2>2. Attentive(p) /\ \A c \in Tasks : Notifiers(p, c)' = Notifiers(p, c)
    BY <2>1 DEF Attentive, Notifiers
  <2>3. Watched(p) => Watched(p)'
    BY <2>1, <2>2 DEF Watched, Has
  <2>4. Heard(p) => Heard(p)'
    BY <2>1, <2>2, HeardKept DEF TreeInv
  <2> QED
    BY <2>2, <2>3, <2>4 DEF Wakeups
<1>2. ASSUME NEW t \in Tasks, StepOf(t) \/ ForkFail(t), t # p PROVE Watched(p)' \/ Heard(p)'
  <2>1. Attentive(p)
    BY <1>2, NobodyElseFallsIn DEF TreeInv
  <2> QED
    BY <1>2, <2>1, AttentionKept DEF Wakeups
<1>3. CASE StepOf(p) \/ ForkFail(p)
  <2>1. PICK w : Pass(p, w)
    BY <1>3, OnlyPassesAttend DEF TreeInv
  <2> QED
    BY <2>1, PassHeard DEF Wakeups
<1> QED
  BY <1>1, <1>2, <1>3, StepKinds DEF TreeInv

(* No lost wakeup, whatever fails: who is asleep in waitpid is counted as  *)
(* a waiter, and if its search would find a child to report, then that     *)
(* child's own exit or the thread that signals it is about to wake it.     *)
THEOREM NoWakeupIsLost == Spec => []NoLostWakeup
<1>1. Init => Wakeups
  BY DEF Init, Wakeups, Attentive, Searches
<1>2. Spec => [](TreeInv /\ Wakeups)
  <2>1. Init => TreeInv
    BY InitThreads, InitLists, InitParents DEF TreeInv
  <2>2. TreeInv /\ [Next]_vars => TreeInv'
    BY ThreadsNext, ListsNext, ParentsNext DEF TreeInv
  <2> QED
    BY <1>1, <2>1, <2>2, WakeupsNext, PTL DEF Spec
<1>3. TreeInv /\ Wakeups => NoLostWakeup
  <2> SUFFICES ASSUME TreeInv, Wakeups, NEW p \in asleep
               PROVE  /\ waiters[p] > 0
                      /\ Found(p, call[p]) # None /\ Reportable(Found(p, call[p]), call[p].options) =>
                           \E d \in ToSet(children[p]) : Notifiers(p, d) # {}
    BY DEF NoLostWakeup
  <2>1. p \in Tasks /\ pc[p] = "wait_sleep" /\ waiters[p] = 1 /\ children[p] \in Seq(Tasks)
    BY DEF TreeInv, ThreadInv, TypeOK, Counted
  <2>2. ASSUME Found(p, call[p]) # None, Good(p, Found(p, call[p]))
        PROVE  \E d \in ToSet(children[p]) : Notifiers(p, d) # {}
    <3>1. PICK i \in 1 .. Len(children[p]) :
            /\ Found(p, call[p]) = children[p][i]
            /\ Chosen(p, children[p][i])
            /\ \A j \in 1 .. i - 1 : ~Chosen(p, children[p][j])
      BY <2>1, <2>2, FirstFound DEF Chosen
    <3>2. CASE Heard(p)
      <4>1. PICK j \in 1 .. i : Chosen(p, children[p][j]) /\ ~Good(p, children[p][j])
        BY <2>1, <2>2, <3>1, <3>2 DEF Heard, HeardAll, Searches
      <4>2. j = i
        BY <3>1, <4>1
      <4> QED
        BY <2>2, <3>1, <4>1, <4>2
    <3>3. CASE Watched(p)
      BY <2>1, <3>3, SetOfList DEF Watched, Has
    <3> QED
      BY <2>1, <3>2, <3>3 DEF Wakeups, Attentive
  <2> QED
    BY <2>1, <2>2 DEF Good
<1> QED
  BY <1>2, <1>3, PTL

-----------------------------------------------------------------------------
(***************************************************************************)
(* The tree implements ProcessLife, whatever fails.  Nothing has happened  *)
(* to a task that is not yet born.                                         *)
(***************************************************************************)
Fates ==
  \A c \in Tasks : pc[c] = "unborn" => exited[c] = FALSE /\ \A k \in Tasks : c \notin todo[k]

Dies(t, c) ==
  /\ exited'[c] = exited[c] \/ exited'[c] = TRUE
  /\ \A x \in Tasks \ {c} : exited'[x] = exited[x]
  /\ (c = t /\ pc[t] = "run") \/ c \in todo[t]
  /\ Quiet(t)

\* A step is the death of at most one task: who exits, or is signalled.
LEMMA Deaths ==
  ASSUME TreeInv, NEW t \in Tasks, StepOf(t) \/ ForkFail(t)
  PROVE  (\A x \in Tasks : exited'[x] = exited[x]) \/ \E c \in Tasks : Dies(t, c)
<1>0. TypeOK
  BY DEF TreeInv, ThreadInv
<1>1. ASSUME NEW u \in Tasks, KillApply(t, u) PROVE Dies(t, u)
  <2>1. pc[t] = "kill" /\ u \in todo[t] /\ SetFlags(u, sig[t])
    BY <1>1 DEF KillApply, On
  <2>2. sig[t] \in Signals
    BY <2>1 DEF TreeInv, ThreadInv, Holds
  <2>3. \A x \in Tasks \ {u} : exited'[x] = exited[x]
    BY <1>0, <2>1, <2>2, FlagsSet
  <2>4. exited' = exited \/ exited' = [exited EXCEPT ![u] = TRUE]
    BY <2>1, <2>2, ProcessTreeAssumption DEF ProcessTreeAssumption, SetFlags
  <2>5. exited'[u] = exited[u] \/ exited'[u] = TRUE
    BY <1>0, <2>4 DEF TypeOK
  <2> QED
    BY <1>1, <2>1, <2>3, <2>5 DEF Dies, Quiet
<1>2. ASSUME NEW s \in ExitCodes, ExitBegin(t, s) PROVE Dies(t, t)
  <2>1. pc[t] = "run" /\ exited' = [exited EXCEPT ![t] = TRUE]
    BY <1>2 DEF ExitBegin, At, On
  <2>2. \A x \in Tasks : exited'[x] = IF x = t THEN TRUE ELSE exited[x]
    BY <1>0, <2>1 DEF TypeOK
  <2> QED
    BY <1>2, <2>1, <2>2 DEF Dies, Quiet
<1> QED
  BY <1>1, <1>2, NewsStay

\* Nobody becomes unborn.
LEMMA Places ==
  ASSUME TreeInv, NEW t \in Tasks, StepOf(t) \/ ForkFail(t), NEW c \in Tasks, pc'[c] = "unborn"
  PROVE  pc[c] = "unborn"
<1> USE DEF TreeInv, ThreadInv, TypeOK
<1>1. CASE ForkLink(t) \/ ForkStart(t) \/ ForkFail(t)
  BY <1>1 DEF ForkLink, ForkStart, ForkFail
<1>2. CASE WaitStatus(t) \/ ExitSplice(t)
  BY <1>2 DEF WaitStatus, ExitSplice, Goto
<1>3. ASSUME NEW d \in Tasks, ForkAlloc(t, d) PROVE pc[c] = "unborn"
  BY <1>3 DEF ForkAlloc
<1>4. ASSUME NEW w, Pass(t, w) PROVE pc[c] = "unborn"
  <2>1. \E place \in Waiting \cup {"wait_reap", "wait_report"} : pc' = [pc EXCEPT ![t] = place]
    BY <1>4, PassMoves
  <2> QED
    BY <2>1 DEF Waiting, Searches
<1>5. CASE Quiet(t)
  <2>1. PICK place \in Elsewhere : pc' = [pc EXCEPT ![t] = place]
    BY <1>5, QuietSteps DEF QuietStep
  <2>2. place # "unborn"
    BY DEF Elsewhere, Exits, ExitHolds
  <2> QED
    BY <2>1, <2>2
<1> QED
  BY <1>1, <1>2, <1>3, <1>4, <1>5 DEF StepOf

\* A kill collects tasks that are in the table.
LEMMA Targets ==
  ASSUME TreeInv, NEW t \in Tasks, StepOf(t) \/ ForkFail(t), NEW k \in Tasks
  PROVE  todo'[k] \subseteq todo[k] \cup InTable
<1>0. todo \in [Tasks -> SUBSET Tasks]
  BY DEF TreeInv, ThreadInv, TypeOK
<1>1. ASSUME NEW S \in SUBSET InTable, NEW g \in Signals, Kill(t, S, g)
      PROVE  todo'[k] \subseteq todo[k] \cup InTable
  BY <1>0, <1>1 DEF Kill
<1>2. ASSUME NEW u \in Tasks, KillApply(t, u) PROVE todo'[k] \subseteq todo[k]
  <2>1. todo' = todo \/ todo' = [todo EXCEPT ![t] = todo[t] \ {u}]
    BY <1>2 DEF KillApply, Delivered
  <2> QED
    BY <1>0, <2>1
<1>3. CASE KillNotify(t)
  <2>1. todo' = [todo EXCEPT ![t] = todo[t] \ {peer[t]}]
    BY <1>3 DEF KillNotify, Delivered
  <2> QED
    BY <1>0, <2>1
<1>4. CASE \/ ForkCheck(t) \/ ForkNoMemory(t) \/ (\E s \in ExitCodes : ExitBegin(t, s))
           \/ ExitLockInit(t) \/ ExitAdopt(t) \/ ExitOrphan(t) \/ ExitParent(t) \/ ExitNotify(t)
  <2>1. todo' = todo
    BY <1>4
       DEF ForkCheck, ForkNoMemory, ExitBegin, ExitLockInit, ExitAdopt, ExitOrphan, ExitParent,
                ExitNotify, local
  <2> QED
    BY <1>0, <2>1
<1>5. CASE ~Quiet(t)
  <2>1. todo' = todo
    BY <1>5
       DEF StepOf, ForkAlloc, ForkLink, ForkStart, ForkFail, Pass, WaitStatus, ExitSplice,
           local
  <2> QED
    BY <1>0, <2>1
<1> QED
  BY <1>1, <1>2, <1>3, <1>4, <1>5 DEF Quiet

LEMMA FatesNext == TreeInv /\ Fates /\ [Next]_vars => Fates'
<1> SUFFICES ASSUME TreeInv, Fates, [Next]_vars PROVE Fates'
  OBVIOUS
<1>1. CASE Still
  BY <1>1 DEF Still, task, flags, local, Fates
<1>2. ASSUME NEW t \in Tasks, StepOf(t) \/ ForkFail(t), NEW c \in Tasks
      PROVE  pc'[c] = "unborn" => exited'[c] = FALSE /\ \A k \in Tasks : c \notin todo'[k]
  <2>1. ASSUME pc'[c] = "unborn" PROVE exited'[c] = FALSE /\ \A k \in Tasks : c \notin todo'[k]
    <3>1. pc[c] = "unborn"
      BY <1>2, <2>1, Places
    <3>2. c \notin InTable /\ exited[c] = FALSE /\ \A k \in Tasks : c \notin todo[k]
      BY <3>1 DEF InTable, Fates
    <3>3. \A d \in Tasks : Dies(t, d) => d # c
      BY <3>1, <3>2 DEF Dies
    <3>4. exited'[c] = exited[c]
      BY <1>2, <3>3, Deaths DEF Dies
    <3>5. \A k \in Tasks : todo'[k] \subseteq todo[k] \cup InTable
      BY <1>2, Targets
    <3> QED
      BY <3>2, <3>4, <3>5
  <2> QED
    BY <2>1
<1> QED
  BY <1>1, <1>2, StepKinds DEF Fates, TreeInv

LEMMA FatesAlways == Spec => [](TreeInv /\ Fates)
<1>1. Init => Fates
  BY ProcessTreeAssumption DEF ProcessTreeAssumption, Init, Fates
<1> QED
  BY <1>1, FatesNext, TreeAlways, PTL DEF Spec

-----------------------------------------------------------------------------
\* Phase and Owner in terms of Has.
Kept(c) == \E p \in Tasks : Has(p, c)

Stage(c) ==
  IF pc[c] = "unborn" THEN "unborn"
  ELSE IF pc[c] \in {"unlinked", "linked"} THEN "starting"
  ELSE IF Astray(c) THEN (IF exited[c] = TRUE THEN "abandoned" ELSE "lost")
  ELSE IF c # init_task /\ ~Kept(c) THEN "dead"
  ELSE IF exited[c] = TRUE THEN "zombie" ELSE "alive"

Mapped ==
  \A c \in Tasks :
    /\ Phase(c) = Stage(c)
    /\ \A p \in Tasks : Has(p, c) => Owner(c) = p
    /\ ~Kept(c) => Owner(c) = None

LEMMA MappedNow == TreeInv => Mapped
<1> SUFFICES ASSUME TreeInv, NEW c \in Tasks
             PROVE  /\ Phase(c) = Stage(c)
                    /\ \A p \in Tasks : Has(p, c) => Owner(c) = p
                    /\ ~Kept(c) => Owner(c) = None
  BY DEF Mapped
<1>1. \A p \in Tasks : c \in ToSet(children[p]) <=> Has(p, c)
  BY SetOfList DEF TreeInv, ThreadInv, TypeOK, Has
<1>2. \A p \in Tasks : p \in Listed(c) <=> Has(p, c)
  BY <1>1 DEF Listed
<1>3. ASSUME NEW p \in Tasks, Has(p, c) PROVE Owner(c) = p
  <2>1. Listed(c) = {p}
    BY <1>2, <1>3 DEF TreeInv, Lists, Listed
  <2> QED
    BY <2>1 DEF Owner
<1>4. Listed(c) = {} <=> ~Kept(c)
  BY <1>2 DEF Kept, Listed
<1>5. exited[c] \in BOOLEAN
  BY DEF TreeInv, ThreadInv, TypeOK
<1>6. Phase(c) = Stage(c)
  <2>1. \A p \in Tasks : p \in Reaping(c) <=> Reaps(p, c)
    BY DEF Reaping, Reaps
  <2>2. Listed(c) \cup Reaping(c) = {} <=> \A p \in Tasks : ~Has(p, c) /\ ~Reaps(p, c)
    BY <1>2, <2>1 DEF Listed, Reaping
  <2>3. c \in Lost <=> Astray(c)
    BY <2>2 DEF Lost, Astray
  <2> QED
    BY <1>4, <1>5, <2>3 DEF Phase, Stage
<1> QED
  BY <1>3, <1>4, <1>6 DEF Owner

LEMMA MappedNext == TreeInv' => Mapped'
  BY MappedNow, PTL

\* A step of one task's life, by how its stage and its owner change.
Lives(c, ph, ow) ==
  \/ Stage(c) = "unborn" /\ ph = "starting" /\ ow = Owner(c)
  \/ /\ Stage(c) = "starting" /\ Owner(c) = None /\ c # init_task
     /\ ph = Stage(c) /\ ow \in Tasks
  \/ /\ Stage(c) = "starting" /\ Owner(c) # None
     /\ ph \in {"alive", "zombie"} /\ ow = Owner(c)
  \/ Stage(c) = "alive" /\ ph = "zombie" /\ ow = Owner(c)
  \/ Stage(c) = "lost" /\ ph = "abandoned" /\ ow = Owner(c)
  \/ Stage(c) = "zombie" /\ Owner(c) # None /\ ph = "dead" /\ ow = None
  \/ ph = Stage(c) /\ ow = Owner(c)

LEMMA LifeMoves ==
  ASSUME TreeInv, TreeInv', NEW c \in Tasks, NEW ph, NEW ow, Lives(c, ph, ow),
         \A x \in Tasks : /\ Stage(x)' = IF x = c THEN ph ELSE Stage(x)
                          /\ Owner(x)' = IF x = c THEN ow ELSE Owner(x)
  PROVE  [Life!Next]_(Life!vars)
<1> DEFINE f == [x \in Tasks |-> Phase(x)]
           o == [x \in Tasks |-> Owner(x)]
<1>1. f = [x \in Tasks |-> Stage(x)] /\ f' = [x \in Tasks |-> IF x = c THEN ph ELSE Stage(x)]
  BY MappedNow, MappedNext DEF Mapped
<1>2. o = [x \in Tasks |-> Owner(x)] /\ o' = [x \in Tasks |-> IF x = c THEN ow ELSE Owner(x)]
  OBVIOUS
<1> HIDE DEF f, o
<1>3. f[c] = Stage(c) /\ o[c] = Owner(c)
  BY <1>1, <1>2
<1>4. f' = [f EXCEPT ![c] = ph] /\ o' = [o EXCEPT ![c] = ow]
  BY <1>1, <1>2
<1>5. (ph = f[c] => f' = f) /\ (ow = o[c] => o' = o)
  BY <1>1, <1>2, <1>3
<1>6. CASE Stage(c) = "unborn" /\ ph = "starting" /\ ow = Owner(c)
  <2>1. Life!Create(c)
    BY <1>3, <1>4, <1>5, <1>6 DEF Life!Create, f, o
  <2> QED
    BY <2>1 DEF Life!Next
<1>7. CASE /\ Stage(c) = "starting" /\ Owner(c) = None /\ c # init_task
           /\ ph = Stage(c) /\ ow \in Tasks
  <2>1. Life!Entrust(ow, c)
    BY <1>3, <1>4, <1>5, <1>7 DEF Life!Entrust, f, o
  <2> QED
    BY <1>7, <2>1 DEF Life!Next
<1>8. CASE /\ Stage(c) = "starting" /\ Owner(c) # None
           /\ ph \in {"alive", "zombie"} /\ ow = Owner(c)
  <2>1. Life!Start(c)
    BY <1>3, <1>4, <1>5, <1>8 DEF Life!Start, f, o
  <2> QED
    BY <2>1 DEF Life!Next
<1>9. CASE \/ Stage(c) = "alive" /\ ph = "zombie" /\ ow = Owner(c)
           \/ Stage(c) = "lost" /\ ph = "abandoned" /\ ow = Owner(c)
  <2>1. Life!Died(f[c]) = ph
    BY <1>3, <1>9 DEF Life!Died
  <2>2. Life!Die(c)
    BY <1>3, <1>4, <1>5, <1>9, <2>1 DEF Life!Die, f, o
  <2> QED
    BY <2>2 DEF Life!Next
<1>10. CASE Stage(c) = "zombie" /\ Owner(c) # None /\ ph = "dead" /\ ow = None
  <2>1. Life!Reap(c)
    BY <1>3, <1>4, <1>10 DEF Life!Reap, f, o
  <2> QED
    BY <2>1 DEF Life!Next
<1>11. CASE ph = Stage(c) /\ ow = Owner(c)
  BY <1>3, <1>5, <1>11 DEF Life!vars, f, o
<1> QED
  BY <1>6, <1>7, <1>8, <1>9, <1>10, <1>11 DEF Lives

\* What an exit hands over: everything t is responsible for, to init.
LEMMA LifeOrphans ==
  ASSUME TreeInv, TreeInv', NEW t \in Tasks, Stage(t) \in {"zombie", "dead", "abandoned"},
         \A x \in Tasks : /\ Stage(x)' = Stage(x)
                          /\ Owner(x)' = IF Owner(x) = t THEN init_task ELSE Owner(x)
  PROVE  Life!Next
<1> DEFINE f == [x \in Tasks |-> Phase(x)]
           o == [x \in Tasks |-> Owner(x)]
<1>1. f = [x \in Tasks |-> Stage(x)] /\ f' = f
  BY MappedNow, MappedNext DEF Mapped
<1>2. o' = [x \in Tasks |-> IF Owner(x) = t THEN init_task ELSE Owner(x)]
  OBVIOUS
<1>3. o = [x \in Tasks |-> Owner(x)]
  OBVIOUS
<1> HIDE DEF f, o
<1>4. o' = [x \in Tasks |-> IF o[x] = t THEN init_task ELSE o[x]]
  BY <1>2, <1>3
<1>5. f[t] \in {"zombie", "dead", "abandoned"}
  BY <1>1
<1>6. Life!Orphan(t)
  BY <1>1, <1>4, <1>5 DEF Life!Orphan, f, o
<1> QED
  BY <1>6 DEF Life!Next

\* While its list stays the same, so does whom it belongs to.
LEMMA OwnerStays ==
  ASSUME TreeInv, TreeInv', NEW c \in Tasks, \A p \in Tasks : Has(p, c)' <=> Has(p, c)
  PROVE  Owner(c)' = Owner(c) /\ (Kept(c)' <=> Kept(c))
<1>1. Kept(c)' <=> Kept(c)
  BY DEF Kept
<1>2. CASE Kept(c)
  <2>1. PICK p \in Tasks : Has(p, c) /\ Has(p, c)'
    BY <1>2 DEF Kept
  <2> QED
    BY <1>1, <2>1, MappedNow, MappedNext DEF Mapped
<1>3. CASE ~Kept(c)
  BY <1>1, <1>3, MappedNow, MappedNext DEF Mapped
<1> QED
  BY <1>1, <1>2, <1>3

\* A step that moves nobody between lists: at most a death.
LEMMA CalmLife ==
  ASSUME TreeInv, TreeInv', UNCHANGED children, SameAstray, NEW c \in Tasks, pc[c] # "unborn",
         exited'[c] = exited[c] \/ exited'[c] = TRUE,
         \A x \in Tasks \ {c} : exited'[x] = exited[x],
         \A x \in Tasks : {pc[x], pc'[x]} \cap {"unborn", "unlinked", "linked"} # {} => pc'[x] = pc[x]
  PROVE  [Life!Next]_(Life!vars)
<1>1. \A p, x \in Tasks : Has(p, x)' <=> Has(p, x)
  BY DEF Has, In
<1>2. \A x \in Tasks : Owner(x)' = Owner(x) /\ (Kept(x)' <=> Kept(x))
  BY <1>1, OwnerStays
<1>3. \A x \in Tasks \ {c} : Stage(x)' = Stage(x)
  <2>1. ASSUME NEW x \in Tasks \ {c} PROVE Stage(x)' = Stage(x)
    BY <1>2 DEF Stage, SameAstray
  <2> QED
    BY <2>1
<1>4. \/ Stage(c)' = Stage(c)
      \/ Stage(c) = "alive" /\ Stage(c)' = "zombie"
      \/ Stage(c) = "lost" /\ Stage(c)' = "abandoned"
  BY <1>2 DEF Stage, SameAstray
<1>5. Lives(c, Stage(c)', Owner(c))
  BY <1>4 DEF Lives
<1> QED
  BY <1>2, <1>3, <1>5, LifeMoves

LEMMA StillLife ==
  ASSUME TreeInv, TreeInv', UNCHANGED children, UNCHANGED exited, SameAstray,
         \A x \in Tasks : {pc[x], pc'[x]} \cap {"unborn", "unlinked", "linked"} # {} => pc'[x] = pc[x]
  PROVE  [Life!Next]_(Life!vars)
<1>1. init_task \in Tasks /\ pc[init_task] # "unborn"
  BY DEF TreeInv, Lists, Born
<1> QED
  BY <1>1, CalmLife

LEMMA QuietLife ==
  ASSUME TreeInv, TreeInv', Fates, NEW t \in Tasks, Quiet(t)
  PROVE  [Life!Next]_(Life!vars)
<1>0. SameAstray
  BY QuietKeepsLists DEF TreeInv
<1>1. PICK place \in Elsewhere : pc' = [pc EXCEPT ![t] = place]
  BY QuietSteps DEF QuietStep, TreeInv
<1>2. UNCHANGED children /\ pc[t] \in Elsewhere
  BY QuietSteps DEF QuietStep, TreeInv
<1>3. ASSUME NEW x \in Tasks, {pc[x], pc'[x]} \cap {"unborn", "unlinked", "linked"} # {}
      PROVE  pc'[x] = pc[x]
  <2>1. pc'[x] = IF x = t THEN place ELSE pc[x]
    BY <1>1 DEF TreeInv, ThreadInv, TypeOK
  <2> QED
    BY <1>1, <1>2, <1>3, <2>1 DEF Elsewhere, Exits, ExitHolds
<1>4. CASE \A x \in Tasks : exited'[x] = exited[x]
  <2>1. UNCHANGED exited
    <3>1. exited \in [Tasks -> BOOLEAN] /\ exited' \in [Tasks -> BOOLEAN]
      BY DEF TreeInv, ThreadInv, TypeOK
    <3> QED
      BY <1>4, <3>1
  <2> QED
    BY <1>0, <1>2, <1>3, <2>1, StillLife
<1>5. ASSUME NEW c \in Tasks, Dies(t, c) PROVE [Life!Next]_(Life!vars)
  <2>1. pc[c] # "unborn"
    BY <1>5 DEF Dies, Fates
  <2> QED
    BY <1>0, <1>2, <1>3, <1>5, <2>1, CalmLife DEF Dies
<1> QED
  BY <1>4, <1>5, Deaths DEF StepOf

LEMMA ForkAllocLife ==
  ASSUME TreeInv, TreeInv', NEW t \in Tasks, NEW c \in Tasks, ForkAlloc(t, c)
  PROVE  [Life!Next]_(Life!vars)
<1>0. SameAstray
  BY ForkAllocLists DEF TreeInv
<1>1. /\ pc[t] = "fork_alloc" /\ pc[c] = "unborn" /\ UNCHANGED <<children, exited>>
      /\ pc' = [pc EXCEPT ![t] = "fork_link", ![c] = "unlinked"]
  BY DEF ForkAlloc, At, On, flags
<1>2. \A x \in Tasks : pc'[x] = IF x = c THEN "unlinked" ELSE IF x = t THEN "fork_link" ELSE pc[x]
  BY <1>1 DEF TreeInv, ThreadInv, TypeOK
<1>3. \A x \in Tasks : Owner(x)' = Owner(x) /\ (Kept(x)' <=> Kept(x))
  <2>1. \A p, x \in Tasks : Has(p, x)' <=> Has(p, x)
    BY <1>1 DEF Has, In
  <2> QED
    BY <2>1, OwnerStays
<1>4. \A x \in Tasks \ {c} : Stage(x)' = Stage(x)
  <2>1. ASSUME NEW x \in Tasks \ {c} PROVE Stage(x)' = Stage(x)
    <3>1. pc'[x] = pc[x] \/ (x = t /\ pc'[x] = "fork_link")
      BY <2>1, <1>2
    <3>2. Kept(x)' <=> Kept(x)
      BY <2>1, <1>3
    <3> QED
      BY <1>0, <1>1, <3>1, <3>2 DEF Stage, SameAstray
  <2> QED
    BY <2>1
<1>5. Stage(c) = "unborn" /\ Stage(c)' = "starting"
  <2>1. pc[c] = "unborn" /\ pc'[c] = "unlinked"
    BY <1>1, <1>2
  <2> QED
    BY <2>1 DEF Stage
<1>6. Lives(c, "starting", Owner(c))
  BY <1>5 DEF Lives
<1> QED
  BY <1>3, <1>4, <1>5, <1>6, LifeMoves

LEMMA ForkLinkLife ==
  ASSUME TreeInv, TreeInv', NEW t \in Tasks, ForkLink(t)
  PROVE  [Life!Next]_(Life!vars)
<1>0. PICK c : c = peer[t]
  OBVIOUS
<1>a. SameAstray
  BY ForkLinkLists DEF TreeInv
<1>1. /\ pc[t] = "fork_link" /\ UNCHANGED exited
      /\ pc' = [pc EXCEPT ![t] = "fork_start", ![c] = "linked"]
      /\ children' = [children EXCEPT ![t] = <<c>> \o children[t]]
  BY <1>0 DEF ForkLink, At, On, flags
<1>2. c \in Tasks /\ pc[c] = "unlinked"
  BY <1>0, <1>1 DEF TreeInv, ThreadInv, Peers
<1>3. c # init_task /\ ~Kept(c)
  BY <1>2 DEF TreeInv, Lists, Born, Kept
<1>4. \A x \in Tasks : pc'[x] = IF x = c THEN "linked" ELSE IF x = t THEN "fork_start" ELSE pc[x]
  BY <1>1, <1>2 DEF TreeInv, ThreadInv, TypeOK
<1>5. \A p, x \in Tasks : In(children'[p], x) <=> In(children[p], x) \/ (p = t /\ x = c)
  <2>1. \A p \in Tasks : /\ children[p] \in Seq(Tasks)
                         /\ children'[p] = IF p = t THEN <<c>> \o children[t] ELSE children[p]
    BY <1>1 DEF TreeInv, ThreadInv, TypeOK
  <2>2. \A x : In(<<c>> \o children[t], x) <=> x = c \/ In(children[t], x)
    BY <1>2, <2>1, FrontIn
  <2> QED
    BY <2>1, <2>2
<1>6. \A x \in Tasks \ {c} : Owner(x)' = Owner(x) /\ (Kept(x)' <=> Kept(x))
  BY <1>5, OwnerStays DEF Has
<1>7. \A x \in Tasks \ {c} : Stage(x)' = Stage(x)
  <2>1. ASSUME NEW x \in Tasks \ {c} PROVE Stage(x)' = Stage(x)
    <3>1. pc'[x] = pc[x] \/ (x = t /\ pc'[x] = "fork_start")
      BY <2>1, <1>4
    <3>2. Kept(x)' <=> Kept(x)
      BY <2>1, <1>6
    <3> QED
      BY <1>a, <1>1, <3>1, <3>2 DEF Stage, SameAstray
  <2> QED
    BY <2>1
<1>8. Owner(c) = None /\ Owner(c)' = t /\ Kept(c)'
  <2>1. In(children'[t], c)
    BY <1>2, <1>5
  <2>2. Has(t, c)'
    BY <2>1 DEF Has
  <2> QED
    BY <1>2, <1>3, <2>2, MappedNow, MappedNext DEF Mapped, Kept
<1>9. Stage(c) = "starting" /\ Stage(c)' = Stage(c)
  <2>1. pc'[c] = "linked"
    BY <1>2, <1>4
  <2> QED
    BY <1>1, <1>2, <1>8, <2>1 DEF Stage
<1>10. Lives(c, Stage(c), t)
  BY <1>3, <1>8, <1>9 DEF Lives
<1> QED
  BY <1>2, <1>6, <1>7, <1>8, <1>9, <1>10, LifeMoves

LEMMA ForkStartLife ==
  ASSUME TreeInv, TreeInv', NEW t \in Tasks, ForkStart(t)
  PROVE  [Life!Next]_(Life!vars)
<1>0. PICK c : c = peer[t]
  OBVIOUS
<1>a. SameAstray
  BY ForkStartLists DEF TreeInv
<1>1. /\ pc[t] = "fork_start" /\ UNCHANGED <<children, exited>>
      /\ pc' = [pc EXCEPT ![t] = "run", ![c] = "run"]
  BY <1>0 DEF ForkStart, At, On, task, flags
<1>2. c \in Tasks /\ pc[c] = "linked" /\ Has(t, c)
  BY <1>0, <1>1 DEF TreeInv, ThreadInv, Peers, Lists, Lists
<1>3. \A x \in Tasks : pc'[x] = IF x \in {c, t} THEN "run" ELSE pc[x]
  BY <1>1, <1>2 DEF TreeInv, ThreadInv, TypeOK
<1>4. \A x \in Tasks : Owner(x)' = Owner(x) /\ (Kept(x)' <=> Kept(x))
  <2>1. \A p, x \in Tasks : Has(p, x)' <=> Has(p, x)
    BY <1>1 DEF Has, In
  <2> QED
    BY <2>1, OwnerStays
<1>5. \A x \in Tasks \ {c} : Stage(x)' = Stage(x)
  <2>1. ASSUME NEW x \in Tasks \ {c} PROVE Stage(x)' = Stage(x)
    <3>1. pc'[x] = pc[x] \/ (x = t /\ pc'[x] = "run")
      BY <2>1, <1>3
    <3>2. Kept(x)' <=> Kept(x)
      BY <2>1, <1>4
    <3> QED
      BY <1>a, <1>1, <3>1, <3>2 DEF Stage, SameAstray
  <2> QED
    BY <2>1
<1>6. /\ Stage(c) = "starting" /\ Stage(c)' \in {"alive", "zombie"}
      /\ Owner(c) # None
  <2>1. pc'[c] = "run"
    BY <1>2, <1>3
  <2>2. Kept(c) /\ Kept(c)'
    BY <1>2, <1>4 DEF Kept
  <2>3. ~Astray(c)' /\ Owner(c) = t
    BY <1>a, <1>2, MappedNow DEF Astray, SameAstray, Mapped
  <2> QED
    BY <1>1, <1>2, <2>1, <2>2, <2>3, ProcessTreeAssumption DEF ProcessTreeAssumption, Stage
<1>7. Lives(c, Stage(c)', Owner(c))
  BY <1>6 DEF Lives
<1> QED
  BY <1>2, <1>4, <1>5, <1>7, LifeMoves

\* A child that is not yet started is on the list of who is starting it.
LEMMA NotStarting ==
  ASSUME TreeInv, Losses, NEW t \in Tasks, NEW c \in Tasks, In(children[t], c), pc[c] = "linked"
  PROVE  pc[t] = "fork_start" /\ peer[t] = c
<1>1. PICK u \in Tasks : pc[u] = "fork_start" /\ peer[u] = c
  BY DEF Losses
<1>2. Has(u, c) /\ Has(t, c)
  BY <1>1 DEF TreeInv, Lists, Has
<1> QED
  BY <1>1, <1>2 DEF TreeInv, Lists

LEMMA PassLife ==
  ASSUME TreeInv, TreeInv', Losses, NEW t \in Tasks, NEW w, Pass(t, w)
  PROVE  [Life!Next]_(Life!vars)
<1>0. PICK c : c = AtCursor(t)
  OBVIOUS
<1>a. SameAstray
  BY PassLists DEF TreeInv
<1>1. pc[t] \in Waiting /\ UNCHANGED exited /\ children[t] \in Seq(Tasks)
  BY PassMoves DEF flags, TreeInv, ThreadInv, TypeOK
<1>2. \/ c \in Tasks /\ c # None /\ In(children[t], c) /\ Takes(t, c)
      \/ UNCHANGED children
  <2>1. ThreadInv
    BY DEF TreeInv
  <2>2. UNCHANGED children \/ (In(children[t], c) /\ Takes(t, c))
    BY <1>0, <2>1, PassMoves
  <2>3. In(children[t], c) => c \in Tasks /\ c # None
    BY <1>1, ProcessTreeAssumption DEF ProcessTreeAssumption, In
  <2> QED
    BY <2>2, <2>3
<1>3. /\ \E place \in Waiting \cup {"wait_reap", "wait_report"} : pc' = [pc EXCEPT ![t] = place]
      /\ \A x \in Tasks : {pc[x], pc'[x]} \cap {"unborn", "unlinked", "linked"} # {} => pc'[x] = pc[x]
  <2>1. PICK place \in Waiting \cup {"wait_reap", "wait_report"} : pc' = [pc EXCEPT ![t] = place]
    BY PassMoves DEF TreeInv
  <2>2. place \notin {"unborn", "unlinked", "linked"} /\ pc[t] \notin {"unborn", "unlinked", "linked"}
    BY <1>1 DEF Waiting, Searches
  <2>3. \A x \in Tasks : pc'[x] = IF x = t THEN place ELSE pc[x]
    BY <2>1 DEF TreeInv, ThreadInv, TypeOK
  <2> QED
    BY <2>1, <2>2, <2>3
<1>4. CASE UNCHANGED children
  BY <1>a, <1>1, <1>3, <1>4, StillLife
<1>5. CASE c \in Tasks /\ c # None /\ In(children[t], c) /\ Takes(t, c)
  <2>1. /\ exited[c] = TRUE /\ children' = [children EXCEPT ![t] = RemoveFirst(children[t], c)]
        /\ pc' = [pc EXCEPT ![t] = "wait_reap"]
    BY <1>5 DEF Takes
  <2>2. In(children[t], c)
    BY <1>5
  <2>0. \A x \in Tasks : pc'[x] = pc[x] \/ (x = t /\ pc'[x] = "wait_reap")
    BY <2>1 DEF TreeInv, ThreadInv, TypeOK
  <2>3. /\ Distinct(children[t]) /\ pc[c] \notin {"unborn", "unlinked"} /\ c # init_task
        /\ \A p \in Tasks : In(children[p], c) => p = t
    BY <1>5, <2>2 DEF TreeInv, Lists, Has, Born
  <2>4. \A p, x \in Tasks : In(children'[p], x) <=> In(children[p], x) /\ ~(p = t /\ x = c)
    <3>1. \A p \in Tasks : children'[p] = IF p = t THEN RemoveFirst(children[t], c) ELSE children[p]
      BY <2>1 DEF TreeInv, ThreadInv, TypeOK
    <3>2. \A x : In(RemoveFirst(children[t], c), x) <=> In(children[t], x) /\ x # c
      BY <1>1, <2>2, <2>3, RemovedIn
    <3> QED
      BY <3>1, <3>2
  <2>5. \A x \in Tasks \ {c} : Owner(x)' = Owner(x) /\ (Kept(x)' <=> Kept(x))
    BY <2>4, OwnerStays DEF Has
  <2>6. \A x \in Tasks \ {c} : Stage(x)' = Stage(x)
    <3>1. ASSUME NEW x \in Tasks \ {c} PROVE Stage(x)' = Stage(x)
      <4>1. pc'[x] = pc[x] \/ (x = t /\ pc'[x] = "wait_reap")
        BY <2>0
      <4>2. Kept(x)' <=> Kept(x)
        BY <2>5
      <4> QED
        BY <1>a, <1>1, <4>1, <4>2 DEF Stage, SameAstray, Waiting, Searches
    <3> QED
      BY <3>1
  <2>7. Kept(c) /\ ~Kept(c)'
    BY <1>5, <2>2, <2>3, <2>4 DEF Kept, Has
  <2>8. Owner(c) = t /\ Owner(c)' = None
    <3>1. Has(t, c)
      BY <2>2 DEF Has
    <3> QED
      BY <1>5, <2>7, <3>1, MappedNow, MappedNext DEF Mapped
  <2>9. Stage(c) = "zombie" /\ Stage(c)' = "dead"
    <3>1. pc'[c] = pc[c] \/ pc'[c] = "wait_reap"
      BY <1>5, <2>0
    <3>2. ~Astray(c) /\ ~Astray(c)'
      BY <1>a, <1>5, <2>7 DEF Astray, SameAstray, Kept
    <3>3. pc[c] # "linked"
      BY <1>1, <1>5, <2>2, NotStarting DEF Waiting, Searches
    <3> QED
      BY <2>1, <2>3, <2>7, <3>1, <3>2, <3>3 DEF Stage
  <2>10. Lives(c, "dead", None)
    BY <2>8, <2>9, ProcessTreeAssumption DEF ProcessTreeAssumption, Lives
  <2> QED
    BY <1>5, <2>5, <2>6, <2>8, <2>9, <2>10, LifeMoves
<1> QED
  BY <1>2, <1>4, <1>5

LEMMA WaitStatusLife ==
  ASSUME TreeInv, TreeInv', NEW t \in Tasks, WaitStatus(t)
  PROVE  [Life!Next]_(Life!vars)
<1>a. SameAstray
  BY WaitStatusLists DEF TreeInv
<1>1. /\ pc[t] \in {"wait_reap", "wait_report"} /\ UNCHANGED <<children, exited>>
      /\ pc' = [pc EXCEPT ![t] = "run"]
  BY DEF WaitStatus, At, On, Goto, task, flags
<1>2. \A x \in Tasks : {pc[x], pc'[x]} \cap {"unborn", "unlinked", "linked"} # {} => pc'[x] = pc[x]
  BY <1>1 DEF TreeInv, ThreadInv, TypeOK
<1> QED
  BY <1>a, <1>1, <1>2, StillLife

LEMMA ExitSpliceLife ==
  ASSUME TreeInv, TreeInv', NEW t \in Tasks, ExitSplice(t)
  PROVE  Life!Next
<1>a. SameAstray
  BY ExitSpliceLists DEF TreeInv
<1>1. /\ pc[t] = "exit_splice" /\ UNCHANGED exited /\ pc' = [pc EXCEPT ![t] = "exit_parent"]
      /\ children' = [children EXCEPT ![init_task] = children[t] \o children[init_task], ![t] = <<>>]
  BY DEF ExitSplice, At, On, Goto, Spliced, flags
<1>2. init_task \in Tasks /\ t # init_task /\ exited[t] = TRUE
  BY <1>1, ProcessTreeAssumption DEF ProcessTreeAssumption, TreeInv, ThreadInv, Holds, Parents,
     Exits, ExitHolds
<1>3. \A x \in Tasks : pc'[x] = pc[x] \/ (x = t /\ pc'[x] = "exit_parent")
  BY <1>1 DEF TreeInv, ThreadInv, TypeOK
<1>4. \A p, x \in Tasks : In(children'[p], x) <=>
           p # t /\ (In(children[p], x) \/ (p = init_task /\ In(children[t], x)))
  <2>1. children[t] \in Seq(Tasks) /\ children[init_task] \in Seq(Tasks)
    BY <1>2 DEF TreeInv, ThreadInv, TypeOK
  <2>2. \A p \in Tasks : children'[p] = IF p = t THEN <<>> ELSE
          IF p = init_task THEN children[t] \o children[init_task] ELSE children[p]
    BY <1>1, <1>2 DEF TreeInv, ThreadInv, TypeOK
  <2>3. \A x : In(children[t] \o children[init_task], x) <=> In(children[t], x) \/ In(children[init_task], x)
    BY <2>1, ConcatIn
  <2>4. \A x : ~In(<<>>, x)
    BY DEF In
  <2> QED
    BY <1>2, <2>2, <2>3, <2>4
<1>5. \A x \in Tasks : (Kept(x)' <=> Kept(x)) /\ Owner(x)' = IF Owner(x) = t THEN init_task ELSE Owner(x)
  <2>1. ASSUME NEW x \in Tasks
        PROVE  (Kept(x)' <=> Kept(x)) /\ Owner(x)' = IF Owner(x) = t THEN init_task ELSE Owner(x)
    <3>1. CASE ~Kept(x)
      <4>1. \A p \in Tasks : ~In(children'[p], x)
        BY <1>4, <3>1 DEF Kept, Has
      <4>2. ~Kept(x)'
        BY <4>1 DEF Kept, Has
      <4> QED
        BY <3>1, <4>2, MappedNow, MappedNext, ProcessTreeAssumption
           DEF ProcessTreeAssumption, Mapped
    <3>2. CASE Kept(x)
      <4>1. PICK p \in Tasks : In(children[p], x)
        BY <3>2 DEF Kept, Has
      <4>2. Owner(x) = p
        BY <4>1, MappedNow DEF Mapped, Has
      <4>3. PICK q \in Tasks : q = IF p = t THEN init_task ELSE p
        BY <1>2
      <4>4. In(children'[q], x)
        BY <1>2, <1>4, <4>1, <4>3
      <4>5. Has(q, x)'
        BY <4>4 DEF Has
      <4>6. Owner(x)' = q /\ Kept(x)'
        BY <4>5, MappedNext DEF Mapped, Kept
      <4> QED
        BY <3>2, <4>2, <4>3, <4>6
    <3> QED
      BY <3>1, <3>2
  <2> QED
    BY <2>1
<1>6. \A x \in Tasks : Stage(x)' = Stage(x)
  <2>1. ASSUME NEW x \in Tasks PROVE Stage(x)' = Stage(x)
    <3>1. pc'[x] = pc[x] \/ (x = t /\ pc'[x] = "exit_parent")
      BY <1>3
    <3>2. Kept(x)' <=> Kept(x)
      BY <1>5
    <3> QED
      BY <1>a, <1>1, <3>1, <3>2 DEF Stage, SameAstray
  <2> QED
    BY <2>1
<1>7. Stage(t) \in {"zombie", "dead", "abandoned"}
  BY <1>1, <1>2 DEF Stage
<1> QED
  BY <1>5, <1>6, <1>7, LifeOrphans

\* A fork that fails buries its child and forgets whom it drops with it.
LEMMA ForkFailLife ==
  ASSUME TreeInv, TreeInv', Losses, NEW t \in Tasks, ForkFail(t)
  PROVE  Life!Next
<1> DEFINE F == {x \in Tasks : Astray(x)' /\ ~Astray(x)}
           f == [x \in Tasks |-> Phase(x)]
           o == [x \in Tasks |-> Owner(x)]
<1>0. PICK c : c = peer[t]
  OBVIOUS
<1>1. /\ pc[t] = "fork_start" /\ UNCHANGED exited
      /\ pc' = [pc EXCEPT ![t] = "run", ![c] = "gone"]
      /\ children' = [children EXCEPT ![t] = After(children[t], c)]
      /\ reaped' = reaped \cup {c}
  BY <1>0 DEF ForkFail, At, On, flags
<1>2. /\ c \in Tasks /\ pc[c] = "linked" /\ In(children[t], c) /\ c # init_task /\ c # t
  BY <1>0, <1>1 DEF TreeInv, ThreadInv, Peers, Lists, Has
<1>3. \A x \in Tasks : pc'[x] = IF x = c THEN "gone" ELSE IF x = t THEN "run" ELSE pc[x]
  BY <1>1, <1>2 DEF TreeInv, ThreadInv, TypeOK
<1>4. \A p \in Tasks : children'[p] = IF p = t THEN After(children[t], c) ELSE children[p]
  BY <1>1 DEF TreeInv, ThreadInv, TypeOK
<1>5. \A x : In(After(children[t], c), x) => In(children[t], x) /\ x # c
  BY <1>2, AfterIn DEF TreeInv, Lists, ThreadInv, TypeOK
<1>6. \A p \in Tasks : In(children[p], c) => p = t
  BY <1>2 DEF TreeInv, Lists, Has
<1>7. \A x \in Tasks : Astray(x)' <=>
        Astray(x) \/ (In(children[t], x) /\ x # c /\ ~In(After(children[t], c), x))
  BY <1>0, ForkFailLists DEF TreeInv
<1>8. /\ Stage(c) = "starting" /\ Owner(c) = t /\ t # None
      /\ Stage(c)' = "dead" /\ Owner(c)' = None /\ c \notin F
  <2>1. Owner(c) = t /\ t # None
    BY <1>2, MappedNow, ProcessTreeAssumption DEF ProcessTreeAssumption, Mapped, Has
  <2>2. \A p \in Tasks : ~In(children'[p], c)
    BY <1>4, <1>5, <1>6
  <2>3. ~Kept(c)'
    BY <2>2 DEF Kept, Has
  <2>4. ~Astray(c)'
    BY <1>1 DEF Astray
  <2>5. Owner(c)' = None
    BY <1>2, <2>3, MappedNext DEF Mapped
  <2> QED
    BY <1>2, <1>3, <2>1, <2>3, <2>4, <2>5 DEF Stage
<1>9. ASSUME NEW x \in F
      PROVE  /\ t = init_task /\ Owner(x) = init_task /\ Owner(x)' = None
             /\ \/ Stage(x) = "alive" /\ Stage(x)' = "lost"
                \/ Stage(x) = "zombie" /\ Stage(x)' = "abandoned"
  <2>1. t = init_task /\ Has(t, x) /\ x # c /\ x \in Tasks /\ Astray(x)' /\ ~Astray(x)
    BY <1>0, ForkFailLoses
  <2>2. Owner(x) = init_task /\ Kept(x)
    BY <2>1, MappedNow DEF Mapped, Kept
  <2>3. pc[x] \notin {"unborn", "unlinked", "linked"} /\ x # init_task
    BY <1>0, <2>1, NotStarting DEF TreeInv, Lists, Born, Has
  <2>4. pc'[x] \notin {"unborn", "unlinked", "linked"}
    BY <1>3, <2>1, <2>3
  <2>5. ~Kept(x)'
    BY <2>1 DEF Astray, Kept
  <2>6. Owner(x)' = None
    BY <2>1, <2>5, MappedNext DEF Mapped
  <2>7. exited'[x] = exited[x]
    BY <1>1
  <2>8. Stage(x) = IF exited[x] = TRUE THEN "zombie" ELSE "alive"
    BY <2>1, <2>2, <2>3 DEF Stage
  <2>9. Stage(x)' = IF exited[x] = TRUE THEN "abandoned" ELSE "lost"
    BY <2>1, <2>4, <2>7 DEF Stage
  <2> QED
    BY <2>1, <2>2, <2>6, <2>8, <2>9
<1>10. ASSUME NEW x \in Tasks \ (F \cup {c})
       PROVE  Stage(x)' = Stage(x) /\ Owner(x)' = Owner(x)
  <2>1. Astray(x)' <=> Astray(x)
    BY <1>7, <1>10
  <2>2. \A p \in Tasks : In(children'[p], x) <=> In(children[p], x)
    <3>1. In(children[t], x) => In(After(children[t], c), x)
      <4>1. In(children[t], x) => ~Astray(x)
        BY <1>10 DEF Astray, Has
      <4> QED
        BY <1>7, <1>10, <2>1, <4>1
    <3> QED
      BY <1>4, <1>5, <3>1
  <2>3. Owner(x)' = Owner(x) /\ (Kept(x)' <=> Kept(x))
    BY <1>10, <2>2, OwnerStays DEF Has
  <2>4. pc'[x] = pc[x] \/ (x = t /\ pc'[x] = "run")
    BY <1>3, <1>10
  <2> QED
    BY <1>1, <2>1, <2>3, <2>4 DEF Stage
<1>11. /\ f = [x \in Tasks |-> Stage(x)] /\ f' = [x \in Tasks |-> Stage(x)']
       /\ o = [x \in Tasks |-> Owner(x)] /\ o' = [x \in Tasks |-> Owner(x)']
  BY MappedNow, MappedNext DEF Mapped
<1>12. F \subseteq Tasks
  OBVIOUS
<1> HIDE DEF F, f, o
<1>13. \A x \in F : Stage(x)' = Life!Forgotten(Stage(x))
  BY <1>9 DEF Life!Forgotten
<1>14. f' = [x \in Tasks |-> IF x = c THEN "dead" ELSE IF x \in F THEN Life!Forgotten(f[x]) ELSE f[x]]
  <2>1. \A x \in Tasks : Stage(x)' =
          IF x = c THEN "dead" ELSE IF x \in F THEN Life!Forgotten(Stage(x)) ELSE Stage(x)
    BY <1>8, <1>10, <1>13
  <2>2. \A x \in Tasks : f[x] = Stage(x) /\ f'[x] = Stage(x)'
    BY <1>11
  <2> QED
    BY <1>11, <2>1, <2>2
<1>15. o' = [x \in Tasks |-> IF x \in F \cup {c} THEN None ELSE o[x]]
  BY <1>8, <1>9, <1>10, <1>11
<1>16. f[c] = "starting" /\ o[c] = t /\ t # None
  BY <1>2, <1>8, <1>11
<1>17. \A x \in F : o[x] = init_task /\ f[x] \in {"alive", "zombie"} /\ t = init_task
  BY <1>9, <1>11, <1>12
<1>18. Life!Abort(c, F)
  BY <1>14, <1>15, <1>16, <1>17 DEF Life!Abort, f, o
<1> QED
  BY <1>2, <1>12, <1>18 DEF Life!Next

LEMMA LifeNext ==
  TreeInv /\ TreeInv' /\ Losses /\ Fates /\ [Next]_vars => [Life!Next]_(Life!vars)
<1> SUFFICES ASSUME TreeInv, TreeInv', Losses, Fates, [Next]_vars
             PROVE  [Life!Next]_(Life!vars)
  OBVIOUS
<1>1. CASE Still
  <2>1. UNCHANGED <<children, exited, pc, reaped, peer>>
    BY <1>1 DEF Still, task, flags, local
  <2>2. \A x \in Tasks : Astray(x)' <=> Astray(x)
    BY <2>1 DEF Astray, Born, Has, In, Reaps
  <2> QED
    BY <2>1, <2>2, StillLife DEF SameAstray
<1>2. ASSUME NEW t \in Tasks, StepOf(t) PROVE [Life!Next]_(Life!vars)
  BY <1>2, QuietLife, ForkAllocLife, ForkLinkLife, ForkStartLife, PassLife, WaitStatusLife,
     ExitSpliceLife DEF StepOf
<1> QED
  BY <1>1, <1>2, ForkFailLife, StepKinds DEF TreeInv

LEMMA LifeInit == Init => Life!Init
<1> SUFFICES ASSUME Init PROVE Life!Init
  OBVIOUS
<1>1. /\ \A t \in Tasks : pc[t] = IF t = init_task THEN "run" ELSE "unborn"
      /\ \A t \in Tasks : exited[t] = FALSE
  BY DEF Init
<1>2. TreeInv /\ \A p, c \in Tasks : ~Has(p, c)
  <2>1. \A p, c \in Tasks : ~Has(p, c)
    BY DEF Init, Has, In
  <2> QED
    BY <2>1, InitThreads, InitLists, InitParents DEF TreeInv
<1>3. \A c \in Tasks : Owner(c) = None /\ Phase(c) = IF c = init_task THEN "alive" ELSE "unborn"
  <2>1. ASSUME NEW c \in Tasks
        PROVE  Owner(c) = None /\ Stage(c) = IF c = init_task THEN "alive" ELSE "unborn"
    <3>1. ~Kept(c) /\ ~Astray(c)
      BY <1>2, InitLists DEF Kept
    <3>2. Owner(c) = None
      BY <1>2, <3>1, MappedNow DEF Mapped
    <3>3. exited[c] = FALSE /\ pc[c] = IF c = init_task THEN "run" ELSE "unborn"
      BY <1>1
    <3> QED
      BY <3>1, <3>2, <3>3 DEF Stage
  <2> QED
    BY <1>2, <2>1, MappedNow DEF Mapped
<1> QED
  BY <1>3 DEF Life!Init

(* Whatever fails, the tree of tasks with its lists, mutexes and wakeups   *)
(* keeps what ProcessLife promises: a task is entrusted to one parent at a *)
(* time and reaped once, by whoever is responsible for it, after it has    *)
(* died; only the dead hand on what they have, to init; and only init can  *)
(* forget whom it is responsible for, when one of its forks fails.         *)
THEOREM TreeImplements == Spec => LifeSpec
<1>1. Spec => [](TreeInv /\ Losses /\ Fates)
  BY FatesAlways, LossesAlways, PTL
<1> QED
  BY <1>1, LifeInit, LifeNext, PTL DEF Spec, LifeSpec, Life!Spec
=============================================================================
