----------------------------- MODULE TextProofs -----------------------------
(***************************************************************************)
(* Proofs about Paths and Getopt.  Paths: what the two normalizations,     *)
(* joining and the translations make of every path, of any length and over *)
(* any names; their loops are folds, and what holds of a fold is proved of *)
(* its run.  Getopt: what the parsers make of every command line; gcd is a *)
(* greatest common divisor, so the exchanges of permute_args rotate the    *)
(* block and the scan never loses or reorders a word.                      *)
(***************************************************************************)
EXTENDS Paths, Getopt, SequenceFacts

Chars == Tokens \cup STRING

\* The steps of the folds, as functions.
CollapseFn == [x \in Seq(Chars) \X Chars |-> Collapse(x[1], x[2])]
EnterFn == [x \in Seq(Names) \X Tokens |-> Enter(x[1], x[2])]
DescendFn == [x \in Seq(Tokens) \X Names |-> Descend(x[1], x[2])]

Walks == [src : Nat \ {0}, dst : Seq(Tokens)]
TurnFn(path) == [x \in Walks \X Tokens |-> Turn(path, x[1])]

-----------------------------------------------------------------------------
\* path.c:65, one character more.
LEMMA CollapseStep ==
  /\ IsStep(CollapseFn, Seq(Chars), Chars)
  /\ \A s \in Seq(Chars), t \in Chars : CollapseFn[<<s, t>>] = Collapse(s, t)
<1>1. \A s \in Seq(Chars), t \in Chars : Collapse(s, t) \in Seq(Chars)
  BY DEF Collapse
<1> QED
  BY <1>1 DEF CollapseFn, IsStep

\* A run of the collapse of slashes.
LEMMA CollapseRun ==
  ASSUME NEW path \in Seq(Chars)
  PROVE  \E g : /\ Folding(g, Seq(Chars), CollapseFn, << >>, path)
                /\ FoldLeft(Collapse, << >>, path) = g[Len(path)]
<1> DEFINE P(f) == f = [s \in SUBSET DOMAIN path |->
                          IF s = {} THEN << >> ELSE Collapse(f[s \ {Max(s)}], path[Max(s)])]
<1>1. \A s \in SUBSET DOMAIN path : s # {} => path[Max(s)] \in Chars
  BY LastPosition
<1>2. << >> \in Seq(Chars) /\ IsStep(CollapseFn, Seq(Chars), Chars)
  BY CollapseStep
<1>3. \E f : P(f)
  <2>1. PICK x : FoldTo(x, Seq(Chars), CollapseFn, << >>, path, Len(path))
    BY <1>2, FoldExists
  <2>2. DOMAIN path = 1 .. Len(path)
    BY LenProperties
  <2>3. ASSUME NEW s \in SUBSET DOMAIN path
        PROVE  x[s] = IF s = {} THEN << >> ELSE Collapse(x[s \ {Max(s)}], path[Max(s)])
    <3>1. s \ {Max(s)} \in SUBSET DOMAIN path
      OBVIOUS
    <3>2. x[s] = FoldAt(x, CollapseFn, << >>, path, s) /\ x[s \ {Max(s)}] \in Seq(Chars)
      BY <2>1, <2>2, <3>1 DEF FoldTo
    <3> QED
      BY <1>1, <3>2, CollapseStep DEF FoldAt
  <2>4. x = [s \in SUBSET DOMAIN path |-> x[s]]
    BY <2>1, <2>2 DEF FoldTo
  <2>5. P(x)
    BY <2>3, <2>4
  <2> QED
    BY <2>5
<1>4. PICK it : P(it) /\ FoldLeft(Collapse, << >>, path) = it[DOMAIN path]
  <2> DEFINE f == CHOOSE f : P(f)
  <2>1. P(f)
    BY <1>3
  <2>2. FoldLeft(Collapse, << >>, path) = f[DOMAIN path]
    BY DEF FoldLeft, MapThenFoldSet
  <2> HIDE DEF f
  <2> QED
    BY <2>1, <2>2
<1>5. Obeys(it, Seq(Chars), CollapseFn, << >>, path)
  <2>1. ASSUME NEW s \in SUBSET DOMAIN path, s # {}, it[s \ {Max(s)}] \in Seq(Chars)
        PROVE  it[s] = FoldAt(it, CollapseFn, << >>, path, s)
    <3>1. it[s] = Collapse(it[s \ {Max(s)}], path[Max(s)])
      BY <1>4, <2>1
    <3> QED
      BY <1>1, <2>1, <3>1, CollapseStep DEF FoldAt
  <2>2. it[{}] = << >>
    BY <1>4
  <2> QED
    BY <2>1, <2>2 DEF Obeys
<1>6. \E g : Folding(g, Seq(Chars), CollapseFn, << >>, path) /\ EndsAs(it, g, path)
  BY <1>2, <1>5, FoldRun
<1> QED
  BY <1>4, <1>6 DEF EndsAs

\* The fold of the collapse, one character at a time.
LEMMA CollapseFold ==
  ASSUME NEW p \in Seq(Chars)
  PROVE  /\ FoldLeft(Collapse, << >>, << >>) = << >>
         /\ FoldLeft(Collapse, << >>, p) \in Seq(Chars)
         /\ \A t \in Chars : FoldLeft(Collapse, << >>, Append(p, t)) = Collapse(FoldLeft(Collapse, << >>, p), t)
<1>1. PICK f : /\ Folding(f, Seq(Chars), CollapseFn, << >>, p)
               /\ FoldLeft(Collapse, << >>, p) = f[Len(p)]
  BY CollapseRun
<1>2. Len(p) \in Nat /\ f[Len(p)] \in Seq(Chars)
  BY <1>1, LenProperties DEF Folding
<1>3. ASSUME NEW t \in Chars
      PROVE  FoldLeft(Collapse, << >>, Append(p, t)) = Collapse(f[Len(p)], t)
  <2> DEFINE q == Append(p, t)
  <2>1. q \in Seq(Chars) /\ OneMore(q, p, t)
    BY DEF OneMore
  <2> HIDE DEF q
  <2>2. PICK g : /\ Folding(g, Seq(Chars), CollapseFn, << >>, q)
                 /\ FoldLeft(Collapse, << >>, q) = g[Len(q)]
    BY <2>1, CollapseRun
  <2>3. g[Len(q)] = CollapseFn[<<f[Len(p)], t>>]
    BY <1>1, <2>1, <2>2, RunAppend
  <2> QED
    BY <1>2, <2>1, <2>2, <2>3, CollapseStep DEF q
<1>4. FoldLeft(Collapse, << >>, << >>) = << >>
  <2>1. << >> \in Seq(Chars) /\ Len(<< >>) = 0
    OBVIOUS
  <2>2. PICK g : /\ Folding(g, Seq(Chars), CollapseFn, << >>, << >>)
                 /\ FoldLeft(Collapse, << >>, << >>) = g[Len(<< >>)]
    BY <2>1, CollapseRun
  <2> QED
    BY <2>1, <2>2 DEF Folding
<1> QED
  BY <1>1, <1>2, <1>3, <1>4

\* The step of a path into its directories, as a function.
LEMMA EnterStep ==
  /\ IsStep(EnterFn, Seq(Names), Tokens)
  /\ \A s \in Seq(Names), t \in Tokens : EnterFn[<<s, t>>] = Enter(s, t)
<1>1. \A s \in Seq(Names), t \in Tokens : Enter(s, t) \in Seq(Names)
  <2> SUFFICES ASSUME NEW s \in Seq(Names), NEW t \in Tokens PROVE Enter(s, t) \in Seq(Names)
    OBVIOUS
  <2>1. t \in {"/", "."} \/ t = ".." \/ t \in Names
    BY DEF Tokens
  <2>2. Front(s) \in Seq(Names)
    BY DEF Front
  <2> QED
    BY <2>1, <2>2, PathsAssumption DEF Enter, PathsAssumption
<1> QED
  BY <1>1 DEF EnterFn, IsStep

\* A run of following a path.
LEMMA EnterRun ==
  ASSUME NEW path \in Seq(Tokens), NEW dirs \in Seq(Names)
  PROVE  \E g : /\ Folding(g, Seq(Names), EnterFn, dirs, path)
                /\ FoldLeft(Enter, dirs, path) = g[Len(path)]
<1> DEFINE P(f) == f = [s \in SUBSET DOMAIN path |->
                          IF s = {} THEN dirs ELSE Enter(f[s \ {Max(s)}], path[Max(s)])]
<1>1. \A s \in SUBSET DOMAIN path : s # {} => path[Max(s)] \in Tokens
  BY LastPosition
<1>2. dirs \in Seq(Names) /\ IsStep(EnterFn, Seq(Names), Tokens)
  BY EnterStep
<1>3. \E f : P(f)
  <2>1. PICK x : FoldTo(x, Seq(Names), EnterFn, dirs, path, Len(path))
    BY <1>2, FoldExists
  <2>2. DOMAIN path = 1 .. Len(path)
    BY LenProperties
  <2>3. ASSUME NEW s \in SUBSET DOMAIN path
        PROVE  x[s] = IF s = {} THEN dirs ELSE Enter(x[s \ {Max(s)}], path[Max(s)])
    <3>1. s \ {Max(s)} \in SUBSET DOMAIN path
      OBVIOUS
    <3>2. x[s] = FoldAt(x, EnterFn, dirs, path, s) /\ x[s \ {Max(s)}] \in Seq(Names)
      BY <2>1, <2>2, <3>1 DEF FoldTo
    <3> QED
      BY <1>1, <3>2, EnterStep DEF FoldAt
  <2>4. x = [s \in SUBSET DOMAIN path |-> x[s]]
    BY <2>1, <2>2 DEF FoldTo
  <2>5. P(x)
    BY <2>3, <2>4
  <2> QED
    BY <2>5
<1>4. PICK it : P(it) /\ FoldLeft(Enter, dirs, path) = it[DOMAIN path]
  <2> DEFINE f == CHOOSE f : P(f)
  <2>1. P(f)
    BY <1>3
  <2>2. FoldLeft(Enter, dirs, path) = f[DOMAIN path]
    BY DEF FoldLeft, MapThenFoldSet
  <2> HIDE DEF f
  <2> QED
    BY <2>1, <2>2
<1>5. Obeys(it, Seq(Names), EnterFn, dirs, path)
  <2>1. ASSUME NEW s \in SUBSET DOMAIN path, s # {}, it[s \ {Max(s)}] \in Seq(Names)
        PROVE  it[s] = FoldAt(it, EnterFn, dirs, path, s)
    <3>1. it[s] = Enter(it[s \ {Max(s)}], path[Max(s)])
      BY <1>4, <2>1
    <3> QED
      BY <1>1, <2>1, <3>1, EnterStep DEF FoldAt
  <2>2. it[{}] = dirs
    BY <1>4
  <2> QED
    BY <2>1, <2>2 DEF Obeys
<1>6. \E g : Folding(g, Seq(Names), EnterFn, dirs, path) /\ EndsAs(it, g, path)
  BY <1>2, <1>5, FoldRun
<1> QED
  BY <1>4, <1>6 DEF EndsAs

\* The fold of the directories a path names, one token at a time.
LEMMA EnterFold ==
  ASSUME NEW p \in Seq(Tokens), NEW dirs \in Seq(Names)
  PROVE  /\ FoldLeft(Enter, dirs, << >>) = dirs
         /\ FoldLeft(Enter, dirs, p) \in Seq(Names)
         /\ \A t \in Tokens : FoldLeft(Enter, dirs, Append(p, t)) = Enter(FoldLeft(Enter, dirs, p), t)
<1>1. PICK f : /\ Folding(f, Seq(Names), EnterFn, dirs, p)
               /\ FoldLeft(Enter, dirs, p) = f[Len(p)]
  BY EnterRun
<1>2. Len(p) \in Nat /\ f[Len(p)] \in Seq(Names)
  BY <1>1, LenProperties DEF Folding
<1>3. ASSUME NEW t \in Tokens
      PROVE  FoldLeft(Enter, dirs, Append(p, t)) = Enter(f[Len(p)], t)
  <2> DEFINE q == Append(p, t)
  <2>1. q \in Seq(Tokens) /\ OneMore(q, p, t)
    BY DEF OneMore
  <2> HIDE DEF q
  <2>2. PICK g : /\ Folding(g, Seq(Names), EnterFn, dirs, q)
                 /\ FoldLeft(Enter, dirs, q) = g[Len(q)]
    BY <2>1, EnterRun
  <2>3. g[Len(q)] = EnterFn[<<f[Len(p)], t>>]
    BY <1>1, <2>1, <2>2, RunAppend
  <2> QED
    BY <1>2, <2>1, <2>2, <2>3, EnterStep DEF q
<1>4. FoldLeft(Enter, dirs, << >>) = dirs
  <2>1. << >> \in Seq(Tokens) /\ Len(<< >>) = 0
    OBVIOUS
  <2>2. PICK g : /\ Folding(g, Seq(Names), EnterFn, dirs, << >>)
                 /\ FoldLeft(Enter, dirs, << >>) = g[Len(<< >>)]
    BY <2>1, EnterRun
  <2> QED
    BY <2>1, <2>2 DEF Folding
<1> QED
  BY <1>1, <1>2, <1>3, <1>4

\* The step of a spelling, as a function.
LEMMA DescendStep ==
  /\ IsStep(DescendFn, Seq(Tokens), Names)
  /\ \A s \in Seq(Tokens), t \in Names : DescendFn[<<s, t>>] = Descend(s, t)
<1>1. \A s \in Seq(Tokens), t \in Names : Descend(s, t) \in Seq(Tokens)
  <2> SUFFICES ASSUME NEW s \in Seq(Tokens), NEW t \in Names PROVE Descend(s, t) \in Seq(Tokens)
    OBVIOUS
  <2>1. <<"/", t>> \in Seq(Tokens)
    BY DEF Tokens
  <2> QED
    BY <2>1, ConcatProperties DEF Descend
<1> QED
  BY <1>1 DEF DescendFn, IsStep

\* A run of spelling a path.
LEMMA DescendRun ==
  ASSUME NEW path \in Seq(Names)
  PROVE  \E g : /\ Folding(g, Seq(Tokens), DescendFn, << >>, path)
                /\ FoldLeft(Descend, << >>, path) = g[Len(path)]
<1> DEFINE P(f) == f = [s \in SUBSET DOMAIN path |->
                          IF s = {} THEN << >> ELSE Descend(f[s \ {Max(s)}], path[Max(s)])]
<1>1. \A s \in SUBSET DOMAIN path : s # {} => path[Max(s)] \in Names
  BY LastPosition
<1>2. << >> \in Seq(Tokens) /\ IsStep(DescendFn, Seq(Tokens), Names)
  BY DescendStep
<1>3. \E f : P(f)
  <2>1. PICK x : FoldTo(x, Seq(Tokens), DescendFn, << >>, path, Len(path))
    BY <1>2, FoldExists
  <2>2. DOMAIN path = 1 .. Len(path)
    BY LenProperties
  <2>3. ASSUME NEW s \in SUBSET DOMAIN path
        PROVE  x[s] = IF s = {} THEN << >> ELSE Descend(x[s \ {Max(s)}], path[Max(s)])
    <3>1. s \ {Max(s)} \in SUBSET DOMAIN path
      OBVIOUS
    <3>2. x[s] = FoldAt(x, DescendFn, << >>, path, s) /\ x[s \ {Max(s)}] \in Seq(Tokens)
      BY <2>1, <2>2, <3>1 DEF FoldTo
    <3> QED
      BY <1>1, <3>2, DescendStep DEF FoldAt
  <2>4. x = [s \in SUBSET DOMAIN path |-> x[s]]
    BY <2>1, <2>2 DEF FoldTo
  <2>5. P(x)
    BY <2>3, <2>4
  <2> QED
    BY <2>5
<1>4. PICK it : P(it) /\ FoldLeft(Descend, << >>, path) = it[DOMAIN path]
  <2> DEFINE f == CHOOSE f : P(f)
  <2>1. P(f)
    BY <1>3
  <2>2. FoldLeft(Descend, << >>, path) = f[DOMAIN path]
    BY DEF FoldLeft, MapThenFoldSet
  <2> HIDE DEF f
  <2> QED
    BY <2>1, <2>2
<1>5. Obeys(it, Seq(Tokens), DescendFn, << >>, path)
  <2>1. ASSUME NEW s \in SUBSET DOMAIN path, s # {}, it[s \ {Max(s)}] \in Seq(Tokens)
        PROVE  it[s] = FoldAt(it, DescendFn, << >>, path, s)
    <3>1. it[s] = Descend(it[s \ {Max(s)}], path[Max(s)])
      BY <1>4, <2>1
    <3> QED
      BY <1>1, <2>1, <3>1, DescendStep DEF FoldAt
  <2>2. it[{}] = << >>
    BY <1>4
  <2> QED
    BY <2>1, <2>2 DEF Obeys
<1>6. \E g : Folding(g, Seq(Tokens), DescendFn, << >>, path) /\ EndsAs(it, g, path)
  BY <1>2, <1>5, FoldRun
<1> QED
  BY <1>4, <1>6 DEF EndsAs

\* The fold of a spelling, one name at a time.
LEMMA DescendFold ==
  ASSUME NEW p \in Seq(Names)
  PROVE  /\ FoldLeft(Descend, << >>, << >>) = << >>
         /\ FoldLeft(Descend, << >>, p) \in Seq(Tokens)
         /\ \A t \in Names : FoldLeft(Descend, << >>, Append(p, t)) = Descend(FoldLeft(Descend, << >>, p), t)
<1>1. PICK f : /\ Folding(f, Seq(Tokens), DescendFn, << >>, p)
               /\ FoldLeft(Descend, << >>, p) = f[Len(p)]
  BY DescendRun
<1>2. Len(p) \in Nat /\ f[Len(p)] \in Seq(Tokens)
  BY <1>1, LenProperties DEF Folding
<1>3. ASSUME NEW t \in Names
      PROVE  FoldLeft(Descend, << >>, Append(p, t)) = Descend(f[Len(p)], t)
  <2> DEFINE q == Append(p, t)
  <2>1. q \in Seq(Names) /\ OneMore(q, p, t)
    BY DEF OneMore
  <2> HIDE DEF q
  <2>2. PICK g : /\ Folding(g, Seq(Tokens), DescendFn, << >>, q)
                 /\ FoldLeft(Descend, << >>, q) = g[Len(q)]
    BY <2>1, DescendRun
  <2>3. g[Len(q)] = DescendFn[<<f[Len(p)], t>>]
    BY <1>1, <2>1, <2>2, RunAppend
  <2> QED
    BY <1>2, <2>1, <2>2, <2>3, DescendStep DEF q
<1>4. FoldLeft(Descend, << >>, << >>) = << >>
  <2>1. << >> \in Seq(Names) /\ Len(<< >>) = 0
    OBVIOUS
  <2>2. PICK g : /\ Folding(g, Seq(Tokens), DescendFn, << >>, << >>)
                 /\ FoldLeft(Descend, << >>, << >>) = g[Len(<< >>)]
    BY <2>1, DescendRun
  <2> QED
    BY <2>1, <2>2 DEF Folding
<1> QED
  BY <1>1, <1>2, <1>3, <1>4

-----------------------------------------------------------------------------
\* path.c:340, 350 and 355: where a run of slashes ends.
LEMMA Skips ==
  ASSUME NEW D, NEW path \in Seq(D), NEW src \in 1 .. Len(path) + 1
  PROVE  LET k == SkipSlashes(path, src)
         IN  /\ k \in src .. Len(path) + 1
             /\ \A j \in src .. k - 1 : path[j] = "/"
             /\ k <= Len(path) => path[k] # "/"
<1> DEFINE S == {k \in src .. Len(path) + 1 : ByteAt(path, k) # "/"}
           m == Min(S)
<1>1. Len(path) \in Nat
  BY LenProperties
<1>2. S \subseteq Nat /\ Len(path) + 1 \in S
  BY <1>1 DEF ByteAt
<1>3. m \in S /\ \A k \in S : m <= k
  <2> HIDE DEF S
  <2> QED
    BY <1>2, MinOf
<1>4. m \in src .. Len(path) + 1 /\ (m <= Len(path) => path[m] # "/")
  BY <1>3 DEF ByteAt
<1>5. ASSUME NEW j \in src .. m - 1 PROVE path[j] = "/"
  <2>1. j \in src .. Len(path) /\ j < m
    BY <1>1, <1>4, <1>5
  <2>2. j \notin S
    BY <1>3, <1>4, <2>1
  <2> HIDE DEF m
  <2> QED
    BY <1>1, <2>1, <2>2 DEF ByteAt
<1> QED
  BY <1>4, <1>5 DEF SkipSlashes

\* path.c:364, dropping the last name leaves tokens.
LEMMA UpType == ASSUME NEW dst \in Seq(Tokens) PROVE Up(dst) \in Seq(Tokens)
<1> DEFINE n == IF LastSlash(dst) <= 1 THEN 1 ELSE LastSlash(dst) - 1
<1>1. CASE Len(dst) < 2
  BY <1>1 DEF Up
<1>2. CASE Len(dst) >= 2
  <2>1. LastSlash(dst) \in 0 .. Len(dst) - 1
    <3> DEFINE S == {i \in 1 .. Len(dst) - 1 : dst[i] = "/"}
    <3>1. LastSlash(dst) = IF S # {} THEN Max(S) ELSE 0
      BY DEF LastSlash, SelectLastInSubSeq
    <3>2. S \subseteq Nat /\ Len(dst) \in Nat /\ \A i \in S : i <= Len(dst)
      BY LenProperties
    <3>3. S # {} => Max(S) \in S
      <4> HIDE DEF S
      <4> QED
        BY <3>2, MaxOf
    <3>4. S # {} => Max(S) \in 1 .. Len(dst) - 1
      BY <3>3
    <3> HIDE DEF S
    <3> QED
      BY <3>1, <3>2, <3>4, <1>2
  <2>2. n \in 1 .. Len(dst)
    BY <1>2, <2>1, LenProperties
  <2>3. \A i \in 1 .. n : dst[i] \in Tokens
    BY <2>2, ElementOfSeq, LenProperties
  <2> HIDE DEF n
  <2>4. SubSeq(dst, 1, n) \in Seq(Tokens)
    BY <2>2, <2>3, SubSeqProperties
  <2> QED
    BY <1>2, <2>4, LenProperties DEF Up, n
<1> QED
  BY <1>1, <1>2, LenProperties

\* A turn of the loop of path.c:352, as a function.
LEMMA TurnStep ==
  ASSUME NEW path \in Seq(Tokens)
  PROVE  /\ IsStep(TurnFn(path), Walks, Tokens)
         /\ \A s \in Walks, t \in Tokens : TurnFn(path)[<<s, t>>] = Turn(path, s)
<1>0. Len(path) \in Nat
  BY LenProperties
<1>1. ASSUME NEW s \in Walks PROVE Turn(path, s) \in Walks
  <2>0. s.src \in Nat \ {0} /\ s.dst \in Seq(Tokens) /\ "/" \in Tokens
    BY DEF Walks, Tokens
  <2>1. CASE s.src > Len(path)
    BY <2>1 DEF Turn
  <2>2. CASE s.src <= Len(path) /\ path[s.src] # "/"
    <3>1. path[s.src] \in Tokens
      BY <1>0, <2>0, <2>2, ElementOfSeq
    <3>2. Append(s.dst, path[s.src]) \in Seq(Tokens)
      BY <2>0, <3>1
    <3>3. Turn(path, s) = [src |-> s.src + 1, dst |-> Append(s.dst, path[s.src])]
      BY <1>0, <2>0, <2>2 DEF Turn
    <3> QED
      BY <2>0, <3>2, <3>3 DEF Walks
  <2>3. CASE s.src <= Len(path) /\ path[s.src] = "/"
    <3> DEFINE next == SkipSlashes(path, s.src)
    <3>1. s.src \in 1 .. Len(path) + 1
      BY <1>0, <2>0, <2>3
    <3>2. next \in Nat \ {0}
      <4>1. next \in s.src .. Len(path) + 1
        BY <3>1, Skips
      <4> QED
        BY <1>0, <2>0, <4>1
    <3>3. Up(s.dst) \in Seq(Tokens) /\ Append(s.dst, "/") \in Seq(Tokens)
      BY <2>0, UpType
    <3>4. ~(s.src > Len(path))
      BY <1>0, <2>0, <2>3
    <3> HIDE DEF next
    <3>5. Turn(path, s) =
            CASE ByteAt(path, next) = "." -> [src |-> next + 1, dst |-> s.dst]
              [] ByteAt(path, next) = ".." -> [src |-> next + 1, dst |-> Up(s.dst)]
              [] OTHER -> [src |-> next,
                           dst |-> IF s.dst # <<>> /\ s.dst[Len(s.dst)] # "/"
                                   THEN Append(s.dst, "/") ELSE s.dst]
      BY <2>3, <3>4 DEF Turn, next
    <3>6. next + 1 \in Nat \ {0}
      BY <3>2
    <3>7. CASE ByteAt(path, next) = "."
      BY <2>0, <3>5, <3>6, <3>7 DEF Walks
    <3>8. CASE ByteAt(path, next) = ".."
      BY <2>0, <3>3, <3>5, <3>6, <3>8 DEF Walks
    <3>9. CASE ByteAt(path, next) \notin {".", ".."}
      BY <2>0, <3>2, <3>3, <3>5, <3>9 DEF Walks
    <3> QED
      BY <3>7, <3>8, <3>9
  <2> QED
    BY <1>0, <2>0, <2>1, <2>2, <2>3
<1> QED
  BY <1>1 DEF TurnFn, IsStep

\* A run of the loop of path.c:352.
LEMMA TurnRun ==
  ASSUME NEW path \in Seq(Tokens), NEW start \in Walks
  PROVE  \E g : /\ Folding(g, Walks, TurnFn(path), start, path)
                /\ FoldLeft(LAMBDA at, token : Turn(path, at), start, path) = g[Len(path)]
<1> DEFINE P(f) == f = [s \in SUBSET DOMAIN path |->
                          IF s = {} THEN start ELSE Turn(path, f[s \ {Max(s)}])]
<1>1. \A s \in SUBSET DOMAIN path : s # {} => path[Max(s)] \in Tokens
  BY LastPosition
<1>2. start \in Walks /\ IsStep(TurnFn(path), Walks, Tokens)
  BY TurnStep
<1>3. \E f : P(f)
  <2>1. PICK x : FoldTo(x, Walks, TurnFn(path), start, path, Len(path))
    BY <1>2, FoldExists
  <2>2. DOMAIN path = 1 .. Len(path)
    BY LenProperties
  <2>3. ASSUME NEW s \in SUBSET DOMAIN path
        PROVE  x[s] = IF s = {} THEN start ELSE Turn(path, x[s \ {Max(s)}])
    <3>1. s \ {Max(s)} \in SUBSET DOMAIN path
      OBVIOUS
    <3>2. x[s] = FoldAt(x, TurnFn(path), start, path, s) /\ x[s \ {Max(s)}] \in Walks
      BY <2>1, <2>2, <3>1 DEF FoldTo
    <3> QED
      BY <1>1, <3>2, TurnStep DEF FoldAt
  <2>4. x = [s \in SUBSET DOMAIN path |-> x[s]]
    BY <2>1, <2>2 DEF FoldTo
  <2>5. P(x)
    BY <2>3, <2>4
  <2> QED
    BY <2>5
<1>4. PICK it : P(it) /\ FoldLeft(LAMBDA at, token : Turn(path, at), start, path) = it[DOMAIN path]
  <2> DEFINE f == CHOOSE f : P(f)
  <2>1. P(f)
    BY <1>3
  <2>2. FoldLeft(LAMBDA at, token : Turn(path, at), start, path) = f[DOMAIN path]
    BY DEF FoldLeft, MapThenFoldSet
  <2> HIDE DEF f
  <2> QED
    BY <2>1, <2>2
<1>5. Obeys(it, Walks, TurnFn(path), start, path)
  <2>1. ASSUME NEW s \in SUBSET DOMAIN path, s # {}, it[s \ {Max(s)}] \in Walks
        PROVE  it[s] = FoldAt(it, TurnFn(path), start, path, s)
    <3>1. it[s] = Turn(path, it[s \ {Max(s)}])
      BY <1>4, <2>1
    <3> QED
      BY <1>1, <2>1, <3>1, TurnStep DEF FoldAt
  <2>2. it[{}] = start
    BY <1>4
  <2> QED
    BY <2>1, <2>2 DEF Obeys
<1>6. \E g : Folding(g, Walks, TurnFn(path), start, path) /\ EndsAs(it, g, path)
  BY <1>2, <1>5, FoldRun
<1> QED
  BY <1>4, <1>6 DEF EndsAs

\* All but the last.
LEMMA AllButLast ==
  ASSUME NEW D, NEW s \in Seq(D), NEW x \in D
  PROVE  /\ SubSeq(Append(s, x), 1, Len(s)) = s
         /\ Front(Append(s, x)) = s
         /\ Append(s, x)[Len(Append(s, x))] = x
<1> DEFINE q == Append(s, x)
           u == SubSeq(q, 1, Len(s))
<1>1. Len(s) \in Nat /\ q \in Seq(D) /\ Len(q) = Len(s) + 1 /\ q[Len(s) + 1] = x
      /\ \A i \in 1 .. Len(s) : q[i] = s[i] /\ s[i] \in D
  BY AppendProperties, LenProperties, ElementOfSeq
<1> HIDE DEF q
<1>2. u \in Seq(D) /\ Len(u) = Len(s) /\ \A i \in 1 .. Len(s) : u[i] = q[i]
  <2>1. \A i \in 1 .. Len(s) : q[i] \in D
    BY <1>1
  <2>2. u \in Seq(D) /\ Len(u) = (IF 1 <= Len(s) THEN Len(s) - 1 + 1 ELSE 0)
        /\ \A i \in 1 .. Len(s) - 1 + 1 : u[i] = q[1 + i - 1]
    BY <1>1, <2>1, SubSeqProperties
  <2> QED
    BY <1>1, <2>2
<1>3. u = s
  <2> HIDE DEF u
  <2>1. \A i \in 1 .. Len(u) : u[i] = s[i]
    BY <1>1, <1>2
  <2> QED
    BY <1>2, <2>1, SeqEqual
<1>4. Front(q) = s
  <2>1. Len(q) - 1 = Len(s)
    BY <1>1
  <2> QED
    BY <1>3, <2>1 DEF Front
<1> QED
  BY <1>1, <1>3, <1>4 DEF q

\* The spelling of what is below the root.
Spelt(dirs) == FoldLeft(Descend, << >>, dirs)

\* A spelling ends with a slash and the last name, behind that of what is above.
LEMMA SpellingLonger ==
  ASSUME NEW dirs \in Seq(Names), NEW x \in Names
  PROVE  /\ Spelt(dirs) \in Seq(Tokens)
         /\ Spelling(Append(dirs, x)) = Append(Append(Spelt(dirs), "/"), x)
         /\ dirs = << >> => Spelt(dirs) = << >>
         /\ dirs # << >> => Spelt(dirs) = Spelling(dirs)
<1>1. Spelt(dirs) \in Seq(Tokens) /\ Spelt(Append(dirs, x)) = Descend(Spelt(dirs), x)
      /\ (dirs = << >> => Spelt(dirs) = << >>)
  BY DescendFold DEF Spelt
<1>2. Append(dirs, x) # << >>
  BY AppendProperties
<1>3. Spelt(dirs) \o <<"/", x>> = Append(Append(Spelt(dirs), "/"), x)
  <2> DEFINE s == Spelt(dirs)
  <2>0. s \in Seq(Tokens) /\ "/" \in Tokens /\ x \in Tokens
    BY <1>1 DEF Tokens
  <2> HIDE DEF s
  <2>1. <<"/", x>> = Append(<<"/">>, x) /\ <<"/">> \in Seq(Tokens) /\ << x >> \in Seq(Tokens)
    BY <2>0
  <2>2. Append(<<"/">>, x) = <<"/">> \o << x >> /\ Append(s, "/") = s \o <<"/">>
    BY <2>0, <2>1, AppendIsConcat
  <2>3. (s \o <<"/">>) \o << x >> = s \o (<<"/">> \o << x >>)
    BY <2>0, <2>1, ConcatAssociative
  <2>4. Append(Append(s, "/"), x) = Append(s, "/") \o << x >>
    <3>1. Append(s, "/") \in Seq(Tokens)
      BY <2>0
    <3> QED
      BY <2>0, <3>1, AppendIsConcat
  <2>5. s \o <<"/", x>> = Append(Append(s, "/"), x)
    BY <2>1, <2>2, <2>3, <2>4
  <2> QED
    BY <2>5 DEF s
<1>4. dirs # << >> => Spelling(dirs) = Spelt(dirs)
  BY DEF Spelling, Spelt
<1> QED
  BY <1>1, <1>2, <1>3, <1>4 DEF Spelling, Spelt, Descend

\* What a spelling ends and begins with.
LEMMA SpellingEnds ==
  ASSUME NEW dirs \in Seq(Names)
  PROVE  /\ Spelling(dirs) \in Seq(Tokens)
         /\ Len(Spelling(dirs)) > 0
         /\ dirs = << >> => Spelling(dirs) = <<"/">>
         /\ dirs # << >> => /\ Len(Spelling(dirs)) > 1
                            /\ Spelling(dirs)[Len(Spelling(dirs))] # "/"
<1>1. CASE dirs = << >>
  BY <1>1 DEF Spelling, Tokens
<1>2. CASE dirs # << >>
  <2>1. PICK s \in Seq(Names), x \in Names : dirs = Append(s, x)
    BY <1>2, SequenceEmptyOrAppend
  <2>2. "/" \in Tokens /\ x \in Tokens /\ x # "/"
    BY PathsAssumption DEF Tokens, PathsAssumption
  <2>3. Spelt(s) \in Seq(Tokens) /\ Spelling(dirs) = Append(Append(Spelt(s), "/"), x)
    BY <2>1, SpellingLonger
  <2> DEFINE u == Append(Spelt(s), "/")
  <2>4. u \in Seq(Tokens) /\ Len(u) = Len(Spelt(s)) + 1 /\ Len(Spelt(s)) \in Nat
    BY <2>2, <2>3, AppendProperties, LenProperties
  <2> HIDE DEF u
  <2>5. Append(u, x) \in Seq(Tokens) /\ Len(Append(u, x)) = Len(u) + 1 /\ Append(u, x)[Len(u) + 1] = x
    BY <2>2, <2>4, AppendProperties
  <2> QED
    BY <1>2, <2>2, <2>3, <2>4, <2>5 DEF u
<1> QED
  BY <1>1, <1>2

\* path.c:366: ".." takes the last name from a spelling, and nothing from the root.
LEMMA UpSpelling ==
  ASSUME NEW dirs \in Seq(Names)
  PROVE  Up(Spelling(dirs)) = Spelling(Front(dirs)) /\ Front(dirs) \in Seq(Names)
<1>1. CASE dirs = << >>
  <2>1. Front(dirs) = << >>
    BY <1>1, SubSeqEmpty DEF Front
  <2>2. Spelling(dirs) = <<"/">> /\ Spelling(Front(dirs)) = <<"/">>
    BY <1>1, <2>1 DEF Spelling
  <2>3. Len(<<"/">>) < 2
    OBVIOUS
  <2>4. Up(<<"/">>) = <<"/">>
    BY <2>3 DEF Up
  <2> QED
    BY <1>1, <2>1, <2>2, <2>4
<1>2. CASE dirs # << >>
  <2>1. PICK s \in Seq(Names), x \in Names : dirs = Append(s, x)
    BY <1>2, SequenceEmptyOrAppend
  <2>2. "/" \in Tokens /\ x \in Tokens /\ x # "/"
    BY PathsAssumption DEF Tokens, PathsAssumption
  <2> DEFINE t == Spelt(s)
             u == Append(t, "/")
             dst == Append(u, x)
  <2>3. t \in Seq(Tokens) /\ Spelling(dirs) = dst /\ (s = << >> => t = << >>) /\ (s # << >> => t = Spelling(s))
    BY <2>1, SpellingLonger
  <2>4. Front(dirs) = s
    BY <2>1, AllButLast
  <2> HIDE DEF t
  <2>5. u \in Seq(Tokens) /\ Len(u) = Len(t) + 1 /\ u[Len(t) + 1] = "/" /\ Len(t) \in Nat
        /\ SubSeq(u, 1, Len(t)) = t /\ \A i \in 1 .. Len(t) : u[i] = t[i]
    BY <2>2, <2>3, AppendProperties, LenProperties, AllButLast
  <2> HIDE DEF u
  <2>6. dst \in Seq(Tokens) /\ Len(dst) = Len(t) + 2 /\ dst[Len(t) + 1] = "/"
        /\ \A i \in 1 .. Len(t) + 1 : dst[i] = u[i]
    <3>1. dst \in Seq(Tokens) /\ Len(dst) = Len(u) + 1 /\ \A i \in 1 .. Len(u) : dst[i] = u[i]
      BY <2>2, <2>5, AppendProperties
    <3> HIDE DEF dst
    <3>2. Len(t) + 1 = Len(u) /\ Len(u) + 1 = Len(t) + 2 /\ Len(t) + 1 \in 1 .. Len(u)
      BY <2>5
    <3>3. dst[Len(t) + 1] = u[Len(t) + 1]
      BY <3>1, <3>2, Zenon
    <3>4. \A i \in 1 .. Len(t) + 1 : dst[i] = u[i]
      BY <3>1, <3>2, Zenon
    <3> QED
      BY <2>5, <3>1, <3>2, <3>3, <3>4, Zenon
  <2> HIDE DEF dst
  <2>7. LastSlash(dst) = Len(t) + 1
    <3> DEFINE I == {i \in 1 .. Len(dst) - 1 : dst[i] = "/"}
    <3>1. LastSlash(dst) = IF I # {} THEN Max(I) ELSE 0
      BY DEF LastSlash, SelectLastInSubSeq
    <3>2. I \subseteq Nat /\ Len(t) + 1 \in I /\ \A i \in I : i <= Len(t) + 1
      BY <2>5, <2>6
    <3> HIDE DEF I
    <3>3. Len(t) + 1 \in Nat
      BY <2>5
    <3>4. Max(I) \in I /\ \A i \in I : i <= Max(I)
      <4>1. I # {}
        BY <3>2
      <4> QED
        BY <3>2, <3>3, <4>1, MaxOf
    <3>5. Max(I) \in Nat /\ Max(I) <= Len(t) + 1 /\ Len(t) + 1 <= Max(I)
      BY <3>2, <3>4
    <3> QED
      BY <3>1, <3>2, <3>3, <3>5
  <2>8. CASE s = << >>
    <3>1. t = << >> /\ Len(t) = 0
      BY <2>3, <2>8
    <3>2. Up(dst) = SubSeq(dst, 1, 1)
      BY <2>6, <2>7, <3>1 DEF Up
    <3>3. SubSeq(dst, 1, 1) = <<"/">>
      <4>1. SubSeq(dst, 1, 1) \in Seq(Tokens) /\ Len(SubSeq(dst, 1, 1)) = 1 /\ SubSeq(dst, 1, 1)[1] = dst[1]
        <5>1. \A i \in 1 .. 1 : dst[i] \in Tokens
          BY <2>2, <2>6, <3>1
        <5> QED
          BY <5>1
      <4>2. dst[1] = "/"
        BY <2>6, <3>1
      <4>3. <<"/">> \in Seq(Tokens) /\ Len(<<"/">>) = 1 /\ <<"/">>[1] = "/"
        BY <2>2
      <4> DEFINE v == SubSeq(dst, 1, 1)
                 w == <<"/">>
      <4>4. v \in Seq(Tokens) /\ w \in Seq(Tokens) /\ Len(v) = 1 /\ Len(w) = 1 /\ v[1] = w[1]
        BY <4>1, <4>2, <4>3
      <4> HIDE DEF v, w
      <4>5. Len(v) = Len(w) /\ \A i \in 1 .. Len(v) : v[i] = w[i]
        BY <4>4
      <4>6. v = w
        BY <4>4, <4>5, SeqEqual
      <4> QED
        BY <4>6 DEF v, w
    <3> QED
      BY <2>3, <2>4, <2>8, <3>2, <3>3 DEF Spelling
  <2>9. CASE s # << >>
    <3>1. t = Spelling(s) /\ Len(t) > 0
      BY <2>3, <2>9, SpellingEnds
    <3>2. Up(dst) = SubSeq(dst, 1, Len(t))
      <4>1. ~(Len(dst) < 2) /\ ~(LastSlash(dst) <= 1) /\ LastSlash(dst) - 1 = Len(t)
        BY <2>5, <2>6, <2>7, <3>1
      <4> QED
        BY <4>1 DEF Up
    <3>3. SubSeq(dst, 1, Len(t)) = t
      <4> DEFINE v == SubSeq(dst, 1, Len(t))
      <4>1. \A i \in 1 .. Len(t) : dst[i] = t[i] /\ t[i] \in Tokens
        BY <2>3, <2>5, <2>6, ElementOfSeq
      <4>2. v \in Seq(Tokens) /\ Len(v) = (IF 1 <= Len(t) THEN Len(t) - 1 + 1 ELSE 0)
            /\ \A i \in 1 .. Len(t) - 1 + 1 : v[i] = dst[1 + i - 1]
        BY <2>5, <4>1, SubSeqProperties
      <4> HIDE DEF v
      <4>3. Len(v) = Len(t)
        BY <2>5, <3>1, <4>2
      <4>4. ASSUME NEW i \in 1 .. Len(v) PROVE v[i] = t[i]
        <5>1. i \in 1 .. Len(t) /\ i \in 1 .. Len(t) - 1 + 1 /\ 1 + i - 1 = i
          BY <2>5, <4>3
        <5> QED
          BY <4>1, <4>2, <5>1
      <4> QED
        BY <2>3, <4>2, <4>3, <4>4, SeqEqual DEF v
    <3> QED
      BY <2>3, <2>4, <3>1, <3>2, <3>3
  <2> QED
    BY <2>1, <2>4, <2>8, <2>9
<1> QED
  BY <1>1, <1>2

-----------------------------------------------------------------------------
\* No name follows another.
WellSpelled(path) == \A k \in 2 .. Len(path) : path[k] = "/" \/ path[k - 1] = "/"

\* m is what path leads to after each of its tokens.
Leads(m, path) == Folding(m, Seq(Names), EnterFn, << >>, path)

\* Where a path leads, one token at a time.
LEMMA LeadsOn ==
  ASSUME NEW path \in Seq(Tokens), NEW m, Leads(m, path)
  PROVE  /\ m[0] = << >>
         /\ \A k \in 0 .. Len(path) : m[k] \in Seq(Names)
         /\ \A k \in 1 .. Len(path) : m[k] = Enter(m[k - 1], path[k])
<1>1. Len(path) \in Nat /\ \A k \in 1 .. Len(path) : path[k] \in Tokens
  BY LenProperties, ElementOfSeq
<1>2. m[0] = << >> /\ m \in [0 .. Len(path) -> Seq(Names)]
      /\ \A k \in 1 .. Len(path) : m[k] = EnterFn[<<m[k - 1], path[k]>>]
  BY DEF Leads, Folding
<1>3. ASSUME NEW k \in 1 .. Len(path) PROVE m[k] = Enter(m[k - 1], path[k])
  <2>1. k - 1 \in 0 .. Len(path)
    BY <1>1
  <2>2. m[k - 1] \in Seq(Names) /\ path[k] \in Tokens
    BY <1>1, <1>2, <2>1
  <2> QED
    BY <1>2, <2>2, EnterStep
<1> QED
  BY <1>2, <1>3

\* Slashes and "." lead nowhere.
LEMMA LeadsNowhere ==
  ASSUME NEW path \in Seq(Tokens), NEW m, Leads(m, path),
         NEW i \in 0 .. Len(path), NEW j \in i .. Len(path),
         \A k \in i + 1 .. j : path[k] \in {"/", "."}
  PROVE  m[j] = m[i]
<1> DEFINE N == {n \in Nat : i + n <= j => m[i + n] = m[i]}
<1>0. Len(path) \in Nat
  BY LenProperties
<1>1. 0 \in N
  <2>1. i + 0 = i
    BY <1>0
  <2> QED
    BY <2>1
<1>2. ASSUME NEW n \in Nat, n \in N PROVE n + 1 \in N
  <2>1. SUFFICES ASSUME i + (n + 1) <= j PROVE m[i + (n + 1)] = m[i]
    OBVIOUS
  <2>2. i + (n + 1) \in i + 1 .. j /\ i + (n + 1) \in 1 .. Len(path) /\ (i + (n + 1)) - 1 = i + n /\ i + n <= j
    BY <1>0, <2>1
  <2>3. m[i + (n + 1)] = Enter(m[i + n], path[i + (n + 1)])
    BY <2>2, LeadsOn
  <2>4. path[i + (n + 1)] \in {"/", "."}
    BY <2>2
  <2>5. m[i + n] = m[i]
    BY <1>2, <2>2
  <2> QED
    BY <2>3, <2>4, <2>5 DEF Enter
<1>3. Nat \subseteq N
  <2> HIDE DEF N
  <2> QED
    BY <1>1, <1>2, Induct
<1>4. j - i \in Nat /\ i + (j - i) = j
  BY <1>0
<1>5. j - i \in N
  <2> HIDE DEF N
  <2> QED
    BY <1>3, <1>4, Zenon
<1>6. m[i + (j - i)] = m[i]
  BY <1>4, <1>5
<1> QED
  BY <1>4, <1>6, Zenon

\* The spelling that a name can be added to.
Opened(dirs) == IF dirs = << >> THEN <<"/">> ELSE Append(Spelling(dirs), "/")

\* path.c:352, where a turn begins.  Before slashes, dst spells what src has led
\* to; before a name, it is ready for it.
BeforeSlash(path, m, at) ==
  /\ at.src <= Len(path) => path[at.src] = "/"
  /\ at.dst = Spelling(m[at.src - 1])
BeforeName(path, m, at) ==
  /\ at.src <= Len(path) => path[at.src] \in Names
  /\ at.dst = Opened(m[at.src - 1])
Keeps(path, m, at) ==
  /\ at.src \in 1 .. Len(path) + 1
  /\ BeforeSlash(path, m, at) \/ BeforeName(path, m, at)

\* A spelling with a slash behind it: a name behind it is one name more.
LEMMA OpenedEnds ==
  ASSUME NEW dirs \in Seq(Names)
  PROVE  /\ \A x \in Names : Append(Opened(dirs), x) = Spelling(Append(dirs, x))
         /\ Opened(dirs) = IF Spelling(dirs) # << >> /\ Spelling(dirs)[Len(Spelling(dirs))] # "/"
                           THEN Append(Spelling(dirs), "/") ELSE Spelling(dirs)
         /\ TrailingDropped(Opened(dirs)) = Spelling(dirs)
         /\ TrailingDropped(Spelling(dirs)) = Spelling(dirs)
<1> DEFINE s == Spelling(dirs)
<1>1. s \in Seq(Tokens) /\ Len(s) > 0 /\ Len(s) \in Nat /\ "/" \in Tokens
      /\ (dirs = << >> => s = <<"/">>)
      /\ (dirs # << >> => Len(s) > 1 /\ s[Len(s)] # "/")
  BY SpellingEnds, LenProperties DEF Tokens
<1>2. ASSUME NEW x \in Names PROVE Append(Opened(dirs), x) = Spelling(Append(dirs, x))
  <2>1. Spelling(Append(dirs, x)) = Append(Append(Spelt(dirs), "/"), x)
        /\ (dirs = << >> => Spelt(dirs) = << >>) /\ (dirs # << >> => Spelt(dirs) = s)
    BY SpellingLonger
  <2>2. Append(<< >>, "/") = <<"/">>
    OBVIOUS
  <2> HIDE DEF s
  <2>3. Append(Spelt(dirs), "/") = Opened(dirs)
    BY <2>1, <2>2 DEF Opened, s
  <2> QED
    BY <2>1, <2>3
<1>3. dirs = << >> => Len(s) = 1 /\ s[Len(s)] = "/" /\ s # << >>
  <2>1. Len(<<"/">>) = 1 /\ <<"/">>[1] = "/" /\ <<"/">> # << >>
    OBVIOUS
  <2> HIDE DEF s
  <2> QED
    BY <1>1, <2>1
<1>4. Opened(dirs) = IF s # << >> /\ s[Len(s)] # "/" THEN Append(s, "/") ELSE s
  <2>1. s # << >>
    <3> HIDE DEF s
    <3> QED
      BY <1>1, EmptySeq
  <2> HIDE DEF s
  <2> QED
    BY <1>1, <1>3, <2>1 DEF Opened, s
<1>5. TrailingDropped(s) = s
  <2> HIDE DEF s
  <2> QED
    BY <1>1, <1>3 DEF TrailingDropped
<1>6. TrailingDropped(Opened(dirs)) = s
  <2>1. CASE dirs = << >>
    BY <1>1, <1>5, <2>1 DEF Opened
  <2>2. CASE dirs # << >>
    <3> HIDE DEF s
    <3> DEFINE u == Append(s, "/")
    <3>1. Len(u) = Len(s) + 1 /\ u[Len(u)] = "/" /\ SubSeq(u, 1, Len(s)) = s /\ Opened(dirs) = u
      BY <1>1, <2>2, AllButLast, AppendProperties DEF Opened, s
    <3> HIDE DEF u
    <3>2. Len(u) > 1 /\ Len(u) - 1 = Len(s)
      BY <1>1, <3>1
    <3> QED
      BY <3>1, <3>2 DEF TrailingDropped
  <2> QED
    BY <2>1, <2>2
<1> QED
  BY <1>2, <1>4, <1>5, <1>6

\* path.c:352: a turn takes a token at least, and keeps to the spelling.
LEMMA TurnSpells ==
  ASSUME NEW path \in Seq(Tokens), WellSpelled(path), NEW m, Leads(m, path),
         NEW at \in Walks, Keeps(path, m, at)
  PROVE  /\ Keeps(path, m, Turn(path, at))
         /\ Turn(path, at).src > at.src \/ (at.src = Len(path) + 1 /\ Turn(path, at) = at)
<1> DEFINE n == Len(path)
           to == Turn(path, at)
           D == m[at.src - 1]
<1>0. n \in Nat /\ at.src \in 1 .. n + 1 /\ at.src - 1 \in 0 .. n /\ D \in Seq(Names)
      /\ \A k \in 1 .. n : path[k] \in Tokens
  <2>1. n \in Nat /\ at.src \in 1 .. n + 1
    BY LenProperties DEF Keeps
  <2>2. at.src - 1 \in 0 .. n
    BY <2>1
  <2> QED
    BY <2>1, <2>2, LeadsOn, ElementOfSeq
<1>a. "/" \notin Names /\ "." \notin Names /\ ".." \notin Names
  BY PathsAssumption DEF PathsAssumption
<1>1. CASE at.src = n + 1
  <2>1. to = at
    BY <1>0, <1>1 DEF Turn
  <2> QED
    BY <1>1, <2>1
<1>2. CASE at.src <= n /\ BeforeName(path, m, at)
  <2> DEFINE x == path[at.src]
  <2>1. x \in Names /\ x # "/" /\ at.dst = Opened(D)
    BY <1>2, <1>a DEF BeforeName
  <2>2. to = [src |-> at.src + 1, dst |-> Append(at.dst, x)]
    BY <1>0, <1>2, <2>1 DEF Turn
  <2>3. to.src = at.src + 1 /\ to.dst = Append(Opened(D), x)
    BY <2>1, <2>2
  <2>4. at.src \in 1 .. n /\ (at.src + 1) - 1 = at.src
    BY <1>0, <1>2
  <2>5. m[at.src] = Append(D, x)
    <3>1. m[at.src] = Enter(D, x)
      BY <2>4, LeadsOn
    <3> HIDE DEF D, x
    <3> QED
      BY <1>a, <2>1, <3>1 DEF Enter
  <2>6. at.src + 1 <= n => path[at.src + 1] = "/"
    <3>1. at.src + 1 <= n => at.src + 1 \in 2 .. n
      BY <1>0
    <3> QED
      BY <2>1, <2>4, <3>1 DEF WellSpelled
  <2>7. Append(Opened(D), x) = Spelling(Append(D, x))
    BY <1>0, <2>1, OpenedEnds
  <2> HIDE DEF to, D, x
  <2>8. BeforeSlash(path, m, to)
    BY <2>3, <2>4, <2>5, <2>6, <2>7 DEF BeforeSlash
  <2>9. to.src \in 1 .. n + 1 /\ to.src > at.src
    BY <1>0, <2>3, <2>4
  <2> QED
    BY <2>8, <2>9 DEF Keeps, to
<1>3. CASE at.src <= n /\ BeforeSlash(path, m, at)
  <2> DEFINE next == SkipSlashes(path, at.src)
  <2>1. path[at.src] = "/" /\ at.dst = Spelling(D) /\ ~(at.src > n)
    BY <1>0, <1>3 DEF BeforeSlash
  <2>2. next \in at.src .. n + 1 /\ (\A j \in at.src .. next - 1 : path[j] = "/")
        /\ (next <= n => path[next] # "/")
    BY <1>0, Skips
  <2>3. to = CASE ByteAt(path, next) = "." -> [src |-> next + 1, dst |-> at.dst]
               [] ByteAt(path, next) = ".." -> [src |-> next + 1, dst |-> Up(at.dst)]
               [] OTHER -> [src |-> next,
                            dst |-> IF at.dst # <<>> /\ at.dst[Len(at.dst)] # "/"
                                    THEN Append(at.dst, "/") ELSE at.dst]
    BY <2>1 DEF Turn
  <2> HIDE DEF to, next
  <2>4. next > at.src /\ next \in 1 .. n + 1 /\ next - 1 \in 0 .. n
    <3>1. next # at.src
      BY <1>3, <2>1, <2>2
    <3> QED
      BY <1>0, <2>2, <3>1
  <2>5. m[next - 1] = D
    <3>1. next - 1 \in at.src - 1 .. n
      BY <1>0, <2>2, <2>4
    <3>2. \A k \in (at.src - 1) + 1 .. next - 1 : path[k] \in {"/", "."}
      BY <1>0, <2>2
    <3> QED
      BY <1>0, <3>1, <3>2, LeadsNowhere
  <2>6. next <= n => next \in 1 .. n /\ m[next] = Enter(D, path[next]) /\ path[next] \in Tokens
    <3>1. next <= n => next \in 1 .. n
      BY <2>4
    <3> QED
      BY <1>0, <2>5, <3>1, LeadsOn
  <2> HIDE DEF D
  <2>7. CASE next <= n /\ path[next] \in {".", ".."}
    <3>1. ByteAt(path, next) = path[next]
      BY <2>7 DEF ByteAt
    <3>2. to.src = next + 1 /\ to.dst = Spelling(m[next])
      <4>1. CASE path[next] = "."
        BY <2>1, <2>3, <2>6, <2>7, <3>1, <4>1 DEF Enter
      <4>2. CASE path[next] = ".."
        <5>1. to = [src |-> next + 1, dst |-> Up(at.dst)]
          BY <2>3, <3>1, <4>2
        <5>2. m[next] = Front(D)
          BY <2>6, <2>7, <4>2 DEF Enter
        <5>3. Up(at.dst) = Spelling(Front(D))
          BY <1>0, <2>1, UpSpelling
        <5> QED
          BY <5>1, <5>2, <5>3
      <4> QED
        BY <2>7, <4>1, <4>2
    <3>3. next + 1 <= n => path[next + 1] = "/"
      <4>1. next + 1 <= n => next + 1 \in 2 .. n /\ (next + 1) - 1 = next
        BY <1>0, <2>4
      <4> QED
        BY <2>7, <4>1 DEF WellSpelled
    <3>4. (next + 1) - 1 = next /\ next + 1 \in 1 .. n + 1 /\ next + 1 > at.src
      BY <1>0, <2>4, <2>7
    <3>5. BeforeSlash(path, m, to)
      BY <3>2, <3>3, <3>4 DEF BeforeSlash
    <3> QED
      BY <3>2, <3>4, <3>5 DEF Keeps, to
  <2>8. CASE ~(next <= n /\ path[next] \in {".", ".."})
    <3>1. ByteAt(path, next) # "." /\ ByteAt(path, next) # ".."
      BY <2>8 DEF ByteAt
    <3>2. to = [src |-> next, dst |-> IF at.dst # <<>> /\ at.dst[Len(at.dst)] # "/"
                                      THEN Append(at.dst, "/") ELSE at.dst]
      BY <2>3, <3>1
    <3>3. to.src = next /\ to.dst = Opened(D)
      <4>1. Opened(D) = IF at.dst # <<>> /\ at.dst[Len(at.dst)] # "/"
                        THEN Append(at.dst, "/") ELSE at.dst
        BY <1>0, <2>1, OpenedEnds
      <4> QED
        BY <3>2, <4>1
    <3>4. next <= n => path[next] \in Names
      BY <2>2, <2>6, <2>8 DEF Tokens
    <3>5. BeforeName(path, m, to)
      BY <2>5, <3>3, <3>4 DEF BeforeName
    <3> QED
      BY <2>4, <3>3, <3>5 DEF Keeps, to
  <2> QED
    BY <2>7, <2>8
<1> QED
  BY <1>0, <1>1, <1>2, <1>3 DEF Keeps

\* path.c:340: the first part of a path is where the loop begins, and what is
\* before it leads nowhere.
LEMMA FirstPartIs ==
  ASSUME NEW D, NEW path \in Seq(D), FirstPart(path) # 0
  PROVE  /\ FirstPart(path) \in 1 .. Len(path)
         /\ path[FirstPart(path)] \notin {"/", "."}
         /\ \A k \in 1 .. FirstPart(path) - 1 : path[k] \in {"/", "."}
<1> DEFINE I == {i \in 1 .. Len(path) : path[i] \notin {"/", "."}}
<1>1. FirstPart(path) = IF I # {} THEN Min(I) ELSE 0
  BY DEF FirstPart, SelectInSeq
<1>2. I \subseteq Nat /\ \A i \in I : i \in 1 .. Len(path) /\ path[i] \notin {"/", "."}
  OBVIOUS
<1>3. \A k \in 1 .. Len(path) : k \notin I => path[k] \in {"/", "."}
  OBVIOUS
<1> HIDE DEF I
<1>4. FirstPart(path) \in I /\ \A i \in I : FirstPart(path) <= i
  BY <1>1, <1>2, MinOf
<1>5. ASSUME NEW k \in 1 .. FirstPart(path) - 1 PROVE path[k] \in {"/", "."}
  <2>1. FirstPart(path) \in 1 .. Len(path) /\ Len(path) \in Nat
    BY <1>2, <1>4, LenProperties
  <2> DEFINE f == FirstPart(path)
  <2>2. f \in 1 .. Len(path) /\ k \in 1 .. f - 1 /\ \A i \in I : f <= i
    BY <1>4, <2>1
  <2> HIDE DEF f
  <2>3. k \in 1 .. Len(path) /\ ~(f <= k)
    BY <2>1, <2>2
  <2>4. k \notin I
    BY <2>2, <2>3
  <2> QED
    BY <1>3, <2>3, <2>4
<1> QED
  BY <1>2, <1>4, <1>5

\* path.c:340.
StartsAt(path) ==
  LET first == SkipSlashes(path, 1)
  IN  IF ByteAt(path, first) = "." THEN SkipSlashes(path, first + 1) ELSE first

\* The loop of path.c:352 begins at the first name.
LEMMA StartIs ==
  ASSUME NEW path \in Seq(Tokens), Plain(path)
  PROVE  StartsAt(path) = FirstPart(path)
<1> DEFINE n == Len(path)
           f == FirstPart(path)
           a == SkipSlashes(path, 1)
           b == SkipSlashes(path, a + 1)
<1>1. n \in Nat /\ f \in 1 .. n /\ path[f] \notin {"/", "."} /\ \A k \in 1 .. f - 1 : path[k] \in {"/", "."}
  BY FirstPartIs, LenProperties DEF Plain
<1>2. \A i, j \in 1 .. f : path[i] = "." /\ path[j] = "." => i = j
  BY DEF Plain
<1>3. a \in 1 .. n + 1 /\ (\A j \in 1 .. a - 1 : path[j] = "/") /\ (a <= n => path[a] # "/")
  <2>1. 1 \in 1 .. n + 1
    BY <1>1
  <2> QED
    BY <2>1, Skips
<1>4. StartsAt(path) = IF ByteAt(path, a) = "." THEN b ELSE a
  BY DEF StartsAt
<1> HIDE DEF f
<1>5. a <= f
  <2>1. ~(f \in 1 .. a - 1)
    BY <1>1, <1>3
  <2> HIDE DEF a
  <2> QED
    BY <1>1, <1>3, <2>1
<1>6. a <= n /\ ByteAt(path, a) = path[a]
  <2>1. a <= n
    <3> HIDE DEF a
    <3> QED
      BY <1>1, <1>3, <1>5
  <2> QED
    BY <2>1 DEF ByteAt
<1>7. CASE path[a] # "."
  <2>1. ~(a \in 1 .. f - 1)
    BY <1>1, <1>3, <1>6, <1>7
  <2> HIDE DEF a
  <2>2. a = f
    BY <1>1, <1>3, <1>5, <2>1
  <2> QED
    BY <1>4, <1>6, <1>7, <2>2 DEF f
<1>8. CASE path[a] = "."
  <2>1. b \in a + 1 .. n + 1 /\ (\A j \in a + 1 .. b - 1 : path[j] = "/") /\ (b <= n => path[b] # "/")
    <3>1. a + 1 \in 1 .. n + 1
      <4> HIDE DEF a
      <4> QED
        BY <1>1, <1>3, <1>6
    <3> QED
      BY <3>1, Skips
  <2> HIDE DEF a, b
  <2>2. a < f
    BY <1>1, <1>3, <1>5, <1>8
  <2>3. ~(f \in a + 1 .. b - 1)
    BY <1>1, <2>1
  <2>4. b <= f
    BY <1>1, <1>3, <2>1, <2>2, <2>3
  <2>5. path[b] # "/" /\ b \in 1 .. f /\ a \in 1 .. f /\ a # b
    BY <1>1, <1>3, <2>1, <2>2, <2>4
  <2>6. path[b] # "."
    BY <1>2, <1>8, <2>5
  <2>7. ~(b \in 1 .. f - 1)
    BY <1>1, <2>5, <2>6
  <2>8. b = f
    BY <1>1, <2>5, <2>7
  <2> QED
    BY <1>4, <1>6, <1>8, <2>8 DEF f
<1> QED
  BY <1>7, <1>8

\* path.c:336: the shortest spelling of what the path leads to.
LEMMA NormalizePlain ==
  ASSUME NEW path \in Seq(Tokens), WellSpelled(path), Plain(path)
  PROVE  __ixland_path_normalize(path) = Spelling(Meaning(path)) /\ Meaning(path) \in Seq(Names)
<1> DEFINE n == Len(path)
           f == FirstPart(path)
           start == [src |-> f, dst |-> <<"/">>]
<1>1. n \in Nat /\ f \in 1 .. n /\ path[f] \in Names /\ path[f] # "/" /\ (\A k \in 1 .. f - 1 : path[k] \in {"/", "."})
  <2>1. n \in Nat /\ f \in 1 .. n /\ path[f] \notin {"/", "."} /\ path[f] # ".." /\ (\A k \in 1 .. f - 1 : path[k] \in {"/", "."})
    BY FirstPartIs, LenProperties DEF Plain
  <2>2. path[f] \in Tokens
    BY <2>1, ElementOfSeq
  <2> QED
    BY <2>1, <2>2 DEF Tokens
<1>2. << >> \in Seq(Names)
  OBVIOUS
<1>3. PICK m : Leads(m, path) /\ Meaning(path) = m[n]
  BY <1>2, EnterRun DEF Leads, Meaning, Follows
<1>4. m[0] = << >> /\ m[n] \in Seq(Names)
  BY <1>1, <1>3, LeadsOn
<1> HIDE DEF f
<1>5. m[f - 1] = << >>
  <2>1. 0 \in 0 .. n /\ f - 1 \in 0 .. n /\ \A k \in 0 + 1 .. f - 1 : path[k] \in {"/", "."}
    BY <1>1
  <2> QED
    BY <1>3, <1>4, <2>1, LeadsNowhere
<1>6. start \in Walks /\ Keeps(path, m, start)
  <2>1. <<"/">> \in Seq(Tokens)
    BY DEF Tokens
  <2>2. start.src = f /\ start.dst = <<"/">>
    OBVIOUS
  <2>3. start \in Walks
    BY <1>1, <2>1 DEF Walks
  <2> HIDE DEF start
  <2>4. BeforeName(path, m, start)
    BY <1>1, <1>5, <2>2 DEF BeforeName, Opened
  <2> QED
    BY <1>1, <2>2, <2>3, <2>4 DEF Keeps
<1> HIDE DEF start
<1>7. PICK g : /\ Folding(g, Walks, TurnFn(path), start, path)
               /\ FoldLeft(LAMBDA at, token : Turn(path, at), start, path) = g[n]
  BY <1>6, TurnRun
<1>8. g \in [0 .. n -> Walks] /\ g[0] = start /\ \A k \in 1 .. n : g[k] = Turn(path, g[k - 1])
  <2>1. g \in [0 .. n -> Walks] /\ g[0] = start /\ \A k \in 1 .. n : g[k] = TurnFn(path)[<<g[k - 1], path[k]>>]
    BY <1>7 DEF Folding
  <2>2. ASSUME NEW k \in 1 .. n PROVE g[k] = Turn(path, g[k - 1])
    <3>1. g[k - 1] \in Walks /\ path[k] \in Tokens
      <4>1. k - 1 \in 0 .. n
        BY <1>1
      <4> QED
        BY <2>1, <4>1, ElementOfSeq
    <3> QED
      BY <2>1, <3>1, TurnStep
  <2> QED
    BY <2>1, <2>2
<1> DEFINE N == {k \in Nat : k <= n => Keeps(path, m, g[k]) /\ (g[k].src > k \/ g[k].src = n + 1)}
<1>9. 0 \in N
  <2>1. start.src > 0
    BY <1>1 DEF start
  <2> QED
    BY <1>6, <1>8, <2>1
<1>10. ASSUME NEW k \in Nat, k \in N PROVE k + 1 \in N
  <2>1. SUFFICES ASSUME k + 1 <= n
                 PROVE  Keeps(path, m, g[k + 1]) /\ (g[k + 1].src > k + 1 \/ g[k + 1].src = n + 1)
    OBVIOUS
  <2>2. k <= n /\ k \in 0 .. n /\ k + 1 \in 1 .. n /\ (k + 1) - 1 = k
    BY <1>1, <2>1
  <2>3. g[k + 1] = Turn(path, g[k]) /\ g[k] \in Walks /\ Keeps(path, m, g[k]) /\ (g[k].src > k \/ g[k].src = n + 1)
    BY <1>8, <1>10, <2>2
  <2>4. Keeps(path, m, g[k + 1]) /\ (g[k + 1].src > g[k].src \/ (g[k].src = n + 1 /\ g[k + 1] = g[k]))
    BY <1>3, <2>3, TurnSpells
  <2>5. g[k].src \in Nat /\ g[k + 1].src \in Nat /\ g[k + 1].src <= n + 1 /\ g[k].src <= n + 1
    BY <1>1, <2>3, <2>4 DEF Keeps
  <2> QED
    BY <1>1, <2>3, <2>4, <2>5
<1>11. Nat \subseteq N
  <2> HIDE DEF N
  <2> QED
    BY <1>9, <1>10, Induct
<1>12. Keeps(path, m, g[n]) /\ g[n].src = n + 1
  <2>1. n \in N
    <3> HIDE DEF N
    <3> QED
      BY <1>1, <1>11
  <2>2. Keeps(path, m, g[n]) /\ (g[n].src > n \/ g[n].src = n + 1)
    BY <1>1, <2>1
  <2>3. g[n].src \in 1 .. n + 1
    BY <2>2 DEF Keeps
  <2> QED
    BY <1>1, <2>2, <2>3
<1>13. g[n].dst = Spelling(m[n]) \/ g[n].dst = Opened(m[n])
  <2>1. (n + 1) - 1 = n
    BY <1>1
  <2> QED
    BY <1>12, <2>1 DEF Keeps, BeforeSlash, BeforeName
<1>14. TrailingDropped(g[n].dst) = Spelling(m[n])
  BY <1>4, <1>13, OpenedEnds
<1>15. __ixland_path_normalize(path) = TrailingDropped(g[n].dst)
  <2>1. __ixland_path_normalize(path) = TrailingDropped(Walk(path, StartsAt(path)))
    BY DEF __ixland_path_normalize, StartsAt
  <2>2. StartsAt(path) = f
    BY StartIs DEF f
  <2>3. Walk(path, f) = g[n].dst
    BY <1>7 DEF Walk, start
  <2> QED
    BY <2>1, <2>2, <2>3
<1> QED
  BY <1>3, <1>4, <1>14, <1>15

-----------------------------------------------------------------------------
\* What two paths lead to, one behind the other.
LEMMA FollowsBoth ==
  ASSUME NEW dirs \in Seq(Names), NEW p \in Seq(Tokens), NEW r \in Seq(Tokens)
  PROVE  Follows(dirs, p \o r) = Follows(Follows(dirs, p), r) /\ Follows(dirs, p) \in Seq(Names)
<1> DEFINE S == {q \in Seq(Tokens) : Follows(dirs, p \o q) = Follows(Follows(dirs, p), q)}
<1>1. Follows(dirs, p) \in Seq(Names)
  BY EnterFold DEF Follows
<1>2. << >> \in S
  <2>1. p \o << >> = p /\ << >> \in Seq(Tokens)
    BY ConcatEmptySeq
  <2>2. Follows(Follows(dirs, p), << >>) = Follows(dirs, p)
    BY <1>1, <2>1, EnterFold DEF Follows
  <2> QED
    BY <2>1, <2>2
<1>3. ASSUME NEW q \in Seq(Tokens), NEW t \in Tokens, q \in S PROVE Append(q, t) \in S
  <2>1. p \o Append(q, t) = Append(p \o q, t) /\ p \o q \in Seq(Tokens) /\ Append(q, t) \in Seq(Tokens)
    <3>1. << t >> \in Seq(Tokens)
      OBVIOUS
    <3>2. Append(q, t) = q \o << t >> /\ p \o q \in Seq(Tokens) /\ p \o (q \o << t >>) = (p \o q) \o << t >>
      BY <3>1, AppendIsConcat, ConcatAssociative, ConcatProperties
    <3>3. Append(p \o q, t) = (p \o q) \o << t >>
      BY <3>2, AppendIsConcat
    <3>4. Append(q, t) \in Seq(Tokens)
      BY AppendProperties
    <3> QED
      BY <3>2, <3>3, <3>4
  <2>2. Follows(dirs, Append(p \o q, t)) = Enter(Follows(dirs, p \o q), t)
    BY <2>1, EnterFold DEF Follows
  <2>3. Follows(Follows(dirs, p), Append(q, t)) = Enter(Follows(Follows(dirs, p), q), t)
    BY <1>1, EnterFold DEF Follows
  <2> QED
    BY <1>3, <2>1, <2>2, <2>3
<1>4. Seq(Tokens) \subseteq S
  <2> HIDE DEF S
  <2> QED
    BY <1>2, <1>3, InductSeq
<1> QED
  BY <1>1, <1>4

\* The first token that is neither a slash nor ".".
LEMMA FirstPartFound ==
  ASSUME NEW D, NEW path \in Seq(D), NEW f \in 1 .. Len(path), path[f] \notin {"/", "."},
         \A k \in 1 .. f - 1 : path[k] \in {"/", "."}
  PROVE  FirstPart(path) = f
<1> DEFINE I == {i \in 1 .. Len(path) : path[i] \notin {"/", "."}}
<1>1. FirstPart(path) = IF I # {} THEN Min(I) ELSE 0
  BY DEF FirstPart, SelectInSeq
<1>2. Len(path) \in Nat /\ I \subseteq Nat /\ f \in I /\ \A i \in I : i \in Nat /\ i >= 1 /\ i \notin 1 .. f - 1
  BY LenProperties
<1> HIDE DEF I
<1>3. Min(I) \in I /\ \A i \in I : Min(I) <= i
  BY <1>2, MinOf
<1>4. Min(I) \in Nat /\ Min(I) <= f /\ Min(I) >= 1 /\ Min(I) \notin 1 .. f - 1 /\ f \in Nat
  BY <1>2, <1>3
<1> QED
  BY <1>1, <1>2, <1>4

\* What comes behind a plain path leaves it plain.
LEMMA PlainLonger ==
  ASSUME NEW p \in Seq(Tokens), Plain(p), NEW q \in Seq(Tokens), Len(p) <= Len(q), Alike(p, q, Len(p))
  PROVE  Plain(q)
<1> DEFINE f == FirstPart(p)
<1>1. Len(p) \in Nat /\ Len(q) \in Nat /\ f \in 1 .. Len(p) /\ p[f] \notin {"/", "."}
      /\ \A k \in 1 .. f - 1 : p[k] \in {"/", "."}
  BY FirstPartIs, LenProperties DEF Plain
<1>2. p[f] # ".." /\ (\A i, j \in 1 .. f : p[i] = "." /\ p[j] = "." => i = j) /\ p[1] = "/"
  BY DEF Plain, Absolute
<1> HIDE DEF f
<1>3. \A k \in 1 .. f : k \in 1 .. Len(p) /\ q[k] = p[k]
  BY <1>1 DEF Alike
<1>4. f \in 1 .. Len(q) /\ q[f] \notin {"/", "."} /\ \A k \in 1 .. f - 1 : q[k] \in {"/", "."}
  BY <1>1, <1>3
<1>5. FirstPart(q) = f
  BY <1>4, FirstPartFound
<1>6. q # << >> /\ q[1] = "/"
  BY <1>1, <1>2, <1>3, EmptySeq
<1>7. q[f] # ".." /\ f # 0 /\ (\A i, j \in 1 .. f : q[i] = "." /\ q[j] = "." => i = j)
  BY <1>1, <1>2, <1>3
<1> QED
  BY <1>5, <1>6, <1>7 DEF Plain, Absolute

\* What is joined to a path has no slash at its start and none missing inside.
LEMMA RelativesAre ==
  ASSUME NEW rel \in Relatives
  PROVE  rel \in Seq(Tokens) /\ Len(rel) > 0 /\ rel[1] # "/" /\ WellSpelled(rel)
<1>1. CASE rel \in {<< n >> : n \in Names}
  <2>1. PICK n \in Names : rel = << n >>
    BY <1>1
  <2>2. n # "/" /\ n \in Tokens
    BY PathsAssumption DEF PathsAssumption, Tokens
  <2> QED
    BY <2>1, <2>2 DEF WellSpelled
<1>2. CASE rel = <<"..">>
  BY <1>2 DEF WellSpelled, Tokens
<1>3. CASE rel = <<"..", "/", "..">>
  BY <1>3 DEF WellSpelled, Tokens
<1>4. CASE rel = <<".", "/", "..", "/", ".">>
  <2>1. rel \in Seq(Tokens) /\ Len(rel) = 5 /\ rel[1] = "." /\ rel[2] = "/" /\ rel[4] = "/"
    BY <1>4 DEF Tokens
  <2>2. ASSUME NEW k \in 2 .. 5 PROVE rel[k] = "/" \/ rel[k - 1] = "/"
    <3>1. k = 2 \/ k = 3 \/ k = 4 \/ k = 5
      OBVIOUS
    <3> QED
      BY <2>1, <3>1
  <2> QED
    BY <2>1, <2>2 DEF WellSpelled
<1> QED
  BY <1>1, <1>2, <1>3, <1>4 DEF Relatives

\* path.c:427: what is joined to a path leads on from there.
LEMMA JoinPlain ==
  ASSUME NEW path \in Seq(Tokens), WellSpelled(path), Plain(path), NEW rel \in Relatives
  PROVE  __ixland_path_normalize(__ixland_path_join(path, rel)) = Spelling(Follows(Meaning(path), rel))
<1> DEFINE q == IF path[Len(path)] = "/" THEN path ELSE Append(path, "/")
           joined == q \o rel
<1>1. rel \in Seq(Tokens) /\ Len(rel) > 0 /\ rel[1] # "/" /\ WellSpelled(rel) /\ Len(rel) \in Nat
  BY RelativesAre, LenProperties
<1>2. Len(path) \in Nat /\ Len(path) > 0 /\ path # << >> /\ "/" \in Tokens
  BY EmptySeq, LenProperties DEF Plain, Absolute, Tokens
<1>3. __ixland_path_join(path, rel) = joined
  <2>1. ~Absolute(rel)
    BY <1>1 DEF Absolute
  <2>2. path \o <<"/">> = Append(path, "/")
    BY <1>2, AppendIsConcat
  <2>3. path \o <<"/">> \o rel = Append(path, "/") \o rel
    BY <2>2
  <2>4. CASE path[Len(path)] = "/"
    BY <1>2, <2>1, <2>4 DEF __ixland_path_join
  <2>5. CASE path[Len(path)] # "/"
    BY <1>2, <2>1, <2>3, <2>5 DEF __ixland_path_join
  <2> QED
    BY <2>4, <2>5
<1>4. /\ q \in Seq(Tokens) /\ Len(q) >= Len(path) /\ Alike(path, q, Len(path))
      /\ q[Len(q)] = "/" /\ Len(q) \in Nat /\ WellSpelled(q)
      /\ Meaning(q) = Meaning(path) /\ Meaning(path) \in Seq(Names)
  <2>0. << >> \in Seq(Names) /\ Meaning(path) \in Seq(Names)
    BY NormalizePlain
  <2>1. CASE path[Len(path)] = "/"
    <3>1. q = path
      BY <2>1
    <3> HIDE DEF q
    <3>2. Alike(path, path, Len(path))
      BY DEF Alike
    <3> QED
      BY <1>2, <2>0, <2>1, <3>1, <3>2
  <2>2. CASE path[Len(path)] # "/"
    <3>1. q = Append(path, "/")
      BY <2>2
    <3> HIDE DEF q
    <3>2. q \in Seq(Tokens) /\ Len(q) = Len(path) + 1 /\ q[Len(path) + 1] = "/"
          /\ \A k \in 1 .. Len(path) : q[k] = path[k]
      BY <1>2, <3>1, AppendProperties
    <3>3. Alike(path, q, Len(path))
      BY <3>2 DEF Alike
    <3>4. WellSpelled(q)
      <4> SUFFICES ASSUME NEW k \in 2 .. Len(q) PROVE q[k] = "/" \/ q[k - 1] = "/"
        BY DEF WellSpelled
      <4>1. CASE k = Len(path) + 1
        BY <3>2, <4>1
      <4>2. CASE k # Len(path) + 1
        <5>1. k \in 2 .. Len(path) /\ k \in 1 .. Len(path) /\ k - 1 \in 1 .. Len(path)
          BY <1>2, <3>2, <4>2
        <5>2. path[k] = "/" \/ path[k - 1] = "/"
          BY <5>1 DEF WellSpelled
        <5> QED
          BY <3>2, <5>1, <5>2
      <4> QED
        BY <4>1, <4>2
    <3>5. Meaning(q) = Enter(Meaning(path), "/")
      BY <1>2, <2>0, <3>1, EnterFold DEF Meaning, Follows
    <3>6. Meaning(q) = Meaning(path)
      BY <3>5 DEF Enter
    <3>7. Len(q) >= Len(path) /\ q[Len(q)] = "/" /\ Len(q) \in Nat
      BY <1>2, <3>2
    <3> QED
      BY <2>0, <3>2, <3>3, <3>4, <3>6, <3>7
  <2> QED
    BY <2>1, <2>2
<1> HIDE DEF q
<1>5. /\ joined \in Seq(Tokens) /\ Len(joined) = Len(q) + Len(rel)
      /\ \A k \in 1 .. Len(q) : joined[k] = q[k]
      /\ \A k \in 1 .. Len(rel) : joined[Len(q) + k] = rel[k]
  <2>1. joined \in Seq(Tokens) /\ Len(joined) = Len(q) + Len(rel)
        /\ \A i \in 1 .. Len(q) + Len(rel) : joined[i] = IF i <= Len(q) THEN q[i] ELSE rel[i - Len(q)]
    BY <1>1, <1>4, ConcatProperties
  <2> HIDE DEF joined
  <2>2. ASSUME NEW k \in 1 .. Len(q) PROVE joined[k] = q[k]
    BY <1>1, <1>4, <2>1
  <2>3. ASSUME NEW k \in 1 .. Len(rel) PROVE joined[Len(q) + k] = rel[k]
    <3>1. Len(q) + k \in 1 .. Len(q) + Len(rel) /\ ~(Len(q) + k <= Len(q)) /\ (Len(q) + k) - Len(q) = k
      BY <1>1, <1>4
    <3> QED
      BY <2>1, <3>1
  <2> QED
    BY <2>1, <2>2, <2>3
<1>6. Meaning(joined) = Follows(Meaning(path), rel)
  <2>1. << >> \in Seq(Names)
    OBVIOUS
  <2>2. Meaning(joined) = Follows(Follows(<< >>, q), rel)
    BY <1>1, <1>4, <2>1, FollowsBoth DEF Meaning
  <2> QED
    BY <1>4, <2>2 DEF Meaning
<1> HIDE DEF joined
<1>7. WellSpelled(joined)
  <2> SUFFICES ASSUME NEW k \in 2 .. Len(joined) PROVE joined[k] = "/" \/ joined[k - 1] = "/"
    BY DEF WellSpelled
  <2>1. CASE k <= Len(q)
    <3>1. k \in 2 .. Len(q) /\ k \in 1 .. Len(q) /\ k - 1 \in 1 .. Len(q)
      BY <1>4, <2>1
    <3>2. q[k] = "/" \/ q[k - 1] = "/"
      BY <1>4, <3>1 DEF WellSpelled
    <3> QED
      BY <1>5, <3>1, <3>2
  <2>2. CASE k = Len(q) + 1
    <3>1. k - 1 = Len(q) /\ Len(q) \in 1 .. Len(q)
      BY <1>2, <1>4, <2>2
    <3> QED
      BY <1>4, <1>5, <3>1
  <2>3. CASE k > Len(q) + 1
    <3> DEFINE j == k - Len(q)
    <3>1. j \in 2 .. Len(rel) /\ j \in 1 .. Len(rel) /\ j - 1 \in 1 .. Len(rel)
          /\ k = Len(q) + j /\ k - 1 = Len(q) + (j - 1)
      BY <1>1, <1>4, <1>5, <2>3
    <3> HIDE DEF j
    <3>2. rel[j] = "/" \/ rel[j - 1] = "/"
      BY <1>1, <3>1 DEF WellSpelled
    <3> QED
      BY <1>5, <3>1, <3>2
  <2>4. k \in Int /\ Len(q) \in Int
    BY <1>1, <1>4, <1>5
  <2>5. k <= Len(q) \/ k = Len(q) + 1 \/ k > Len(q) + 1
    BY <2>4
  <2> QED
    BY <2>1, <2>2, <2>3, <2>5, Zenon
<1>8. Plain(joined)
  <2>1. Len(path) <= Len(joined)
    BY <1>1, <1>2, <1>4, <1>5
  <2>2. Alike(path, joined, Len(path))
    <3>1. \A k \in 1 .. Len(path) : k \in 1 .. Len(q)
      BY <1>2, <1>4
    <3> QED
      BY <1>4, <1>5, <3>1 DEF Alike
  <2> QED
    BY <1>5, <2>1, <2>2, PlainLonger
<1> QED
  BY <1>3, <1>5, <1>6, <1>7, <1>8, NormalizePlain

-----------------------------------------------------------------------------
(* The first generation                                                    *)

Collapsed(path) == FoldLeft(Collapse, << >>, path)

\* path.c:65: collapsing never changes what a path leads to.
LEMMA CollapsedMeaning ==
  ASSUME NEW path \in Seq(Tokens)
  PROVE  /\ Collapsed(path) \in Seq(Tokens) /\ Meaning(Collapsed(path)) = Meaning(path)
         /\ Meaning(path) \in Seq(Names)
<1> DEFINE S == {p \in Seq(Tokens) : /\ Collapsed(p) \in Seq(Tokens)
                                     /\ Meaning(Collapsed(p)) = Meaning(p)}
<1>0. << >> \in Seq(Names) /\ << >> \in Seq(Tokens) /\ << >> \in Seq(Chars)
  OBVIOUS
<1>1. << >> \in S
  <2>1. Collapsed(<< >>) = << >>
    BY <1>0, CollapseFold DEF Collapsed
  <2> QED
    BY <1>0, <2>1
<1>2. ASSUME NEW p \in Seq(Tokens), NEW t \in Tokens, p \in S PROVE Append(p, t) \in S
  <2> DEFINE c == Collapsed(p)
  <2>1. c \in Seq(Tokens) /\ Meaning(c) = Meaning(p) /\ Append(p, t) \in Seq(Tokens)
    BY <1>2
  <2>2. Collapsed(Append(p, t)) = Collapse(c, t)
    <3>1. p \in Seq(Chars) /\ t \in Chars
      BY DEF Chars
    <3> QED
      BY <3>1, CollapseFold DEF Collapsed
  <2> HIDE DEF c
  <2>3. Meaning(Append(p, t)) = Enter(Meaning(p), t) /\ Meaning(Append(c, t)) = Enter(Meaning(c), t)
    BY <1>0, <2>1, EnterFold DEF Meaning, Follows
  <2>4. CASE t = "/" /\ c # << >> /\ c[Len(c)] = "/"
    <3>1. Collapse(c, t) = c
      BY <2>4 DEF Collapse
    <3>2. Enter(Meaning(p), t) = Meaning(p)
      BY <2>4 DEF Enter
    <3> QED
      BY <2>1, <2>2, <2>3, <3>1, <3>2
  <2>5. CASE ~(t = "/" /\ c # << >> /\ c[Len(c)] = "/")
    <3>1. Collapse(c, t) = Append(c, t) /\ Append(c, t) \in Seq(Tokens)
      BY <2>1, <2>5 DEF Collapse
    <3> QED
      BY <2>1, <2>2, <2>3, <3>1
  <2> QED
    BY <2>4, <2>5
<1>3. Seq(Tokens) \subseteq S
  <2> HIDE DEF S
  <2> QED
    BY <1>1, <1>2, InductSeq
<1> QED
  BY <1>0, <1>3, EnterFold DEF Meaning, Follows

\* path.c:80: nor does dropping the last slash.
LEMMA DroppedMeaning ==
  ASSUME NEW path \in Seq(Tokens)
  PROVE  Meaning(TrailingDropped(path)) = Meaning(path)
<1>1. CASE Len(path) > 1 /\ path[Len(path)] = "/"
  <2>0. path # << >>
    BY <1>1
  <2>1. PICK q \in Seq(Tokens), t \in Tokens : path = Append(q, t)
    BY <2>0, SequenceEmptyOrAppend
  <2>2. Len(path) - 1 = Len(q) /\ t = "/"
    <3>1. Len(path) = Len(q) + 1 /\ path[Len(q) + 1] = t /\ Len(q) \in Nat
      BY <2>1, AppendProperties, LenProperties
    <3> QED
      BY <1>1, <3>1
  <2>3. TrailingDropped(path) = q
    <3>1. SubSeq(path, 1, Len(q)) = q
      BY <2>1, AllButLast
    <3> QED
      BY <1>1, <2>2, <3>1 DEF TrailingDropped
  <2>4. Meaning(path) = Enter(Meaning(q), t)
    <3>1. << >> \in Seq(Names)
      OBVIOUS
    <3> QED
      BY <2>1, <3>1, EnterFold DEF Meaning, Follows
  <2> QED
    BY <2>2, <2>3, <2>4 DEF Enter
<1>2. CASE ~(Len(path) > 1 /\ path[Len(path)] = "/")
  BY <1>2 DEF TrailingDropped
<1> QED
  BY <1>1, <1>2

\* No slash follows another.
Single(path) == \A k \in 2 .. Len(path) : path[k - 1] # "/" \/ path[k] # "/"

\* The root of the sandbox has no slash to collapse.
LEMMA RootIs ==
  /\ SandboxRoot \in Seq(Chars) /\ Len(SandboxRoot) \in Nat /\ Len(SandboxRoot) > 0
  /\ SandboxRoot[Len(SandboxRoot)] # "/" /\ Collapsed(SandboxRoot) = SandboxRoot
<1> DEFINE R == SandboxRoot
           S == {p \in Seq(Chars) : Single(p) => Collapsed(p) = p}
<1>1. R \in Seq(Chars) /\ Len(R) \in Nat /\ Len(R) > 0
  <2>1. R \in Seq(STRING) /\ R # << >>
    BY PathsAssumption DEF PathsAssumption
  <2>2. R \in Seq(Chars)
    BY <2>1, SeqMonotonic DEF Chars
  <2> QED
    BY <2>1, <2>2, EmptySeq, LenProperties
<1>2. R[Len(R)] # "/" /\ Single(R)
  BY PathsAssumption DEF PathsAssumption, Single
<1>3. << >> \in S
  <2>1. << >> \in Seq(Chars)
    OBVIOUS
  <2>2. Collapsed(<< >>) = << >>
    BY <2>1, CollapseFold DEF Collapsed
  <2> QED
    BY <2>1, <2>2
<1>4. ASSUME NEW p \in Seq(Chars), NEW t \in Chars, p \in S PROVE Append(p, t) \in S
  <2> DEFINE q == Append(p, t)
  <2>1. q \in Seq(Chars) /\ Len(q) = Len(p) + 1 /\ q[Len(p) + 1] = t /\ Len(p) \in Nat
        /\ \A k \in 1 .. Len(p) : q[k] = p[k]
    BY AppendProperties, LenProperties
  <2>2. Collapsed(q) = Collapse(Collapsed(p), t)
    BY CollapseFold DEF Collapsed
  <2>3. SUFFICES ASSUME Single(q) PROVE Collapsed(q) = q
    BY <2>1
  <2>4. Single(p)
    <3> HIDE DEF q
    <3> SUFFICES ASSUME NEW k \in 2 .. Len(p) PROVE p[k - 1] # "/" \/ p[k] # "/"
      BY DEF Single
    <3>1. k \in 2 .. Len(q) /\ k \in 1 .. Len(p) /\ k - 1 \in 1 .. Len(p)
      BY <2>1
    <3>2. q[k - 1] # "/" \/ q[k] # "/"
      BY <2>3, <3>1 DEF Single
    <3> QED
      BY <2>1, <3>1, <3>2
  <2>5. Collapsed(p) = p
    BY <1>4, <2>4
  <2>6. ~(t = "/" /\ p # << >> /\ p[Len(p)] = "/")
    <3>1. SUFFICES ASSUME t = "/", p # << >>, p[Len(p)] = "/" PROVE FALSE
      OBVIOUS
    <3> HIDE DEF q
    <3>2. Len(p) > 0
      BY <3>1, EmptySeq
    <3>3. Len(p) + 1 \in 2 .. Len(q) /\ (Len(p) + 1) - 1 = Len(p) /\ Len(p) \in 1 .. Len(p)
      BY <2>1, <3>2
    <3>4. q[(Len(p) + 1) - 1] # "/" \/ q[Len(p) + 1] # "/"
      BY <2>3, <3>3 DEF Single
    <3> QED
      BY <2>1, <3>1, <3>3, <3>4
  <2>7. Collapse(p, t) = q
    BY <2>6 DEF Collapse
  <2> QED
    BY <2>2, <2>5, <2>7
<1>5. Seq(Chars) \subseteq S
  <2> HIDE DEF S
  <2> QED
    BY <1>3, <1>4, InductSeq
<1> QED
  BY <1>1, <1>2, <1>5

\* path.c:65: a path collapses behind the root as it does alone.
LEMMA CollapsedBehindRoot ==
  ASSUME NEW path \in Seq(Chars)
  PROVE  Collapsed(SandboxRoot \o path) = SandboxRoot \o Collapsed(path)
<1> DEFINE R == SandboxRoot
           S == {p \in Seq(Chars) : Collapsed(R \o p) = R \o Collapsed(p)}
<1>0. R \in Seq(Chars) /\ Len(R) \in Nat /\ Len(R) > 0 /\ R[Len(R)] # "/" /\ Collapsed(R) = R
  BY RootIs
<1>1. << >> \in S
  <2>0. << >> \in Seq(Chars)
    OBVIOUS
  <2>1. R \o << >> = R /\ Collapsed(<< >>) = << >>
    BY <1>0, <2>0, ConcatEmptySeq, CollapseFold DEF Collapsed
  <2> QED
    BY <1>0, <2>0, <2>1
<1> HIDE DEF R
<1>2. ASSUME NEW p \in Seq(Chars), NEW t \in Chars, p \in S PROVE Append(p, t) \in S
  <2> DEFINE c == Collapsed(p)
             rc == R \o c
  <2>1. c \in Seq(Chars) /\ Collapsed(Append(p, t)) = Collapse(c, t)
    BY CollapseFold DEF Collapsed
  <2> HIDE DEF c
  <2>2. ASSUME NEW s \in Seq(Chars) PROVE R \o Append(s, t) = Append(R \o s, t) /\ R \o s \in Seq(Chars)
    <3>1. << t >> \in Seq(Chars)
      OBVIOUS
    <3>2. Append(s, t) = s \o << t >> /\ R \o s \in Seq(Chars) /\ R \o (s \o << t >>) = (R \o s) \o << t >>
      BY <1>0, <3>1, AppendIsConcat, ConcatAssociative, ConcatProperties
    <3>3. Append(R \o s, t) = (R \o s) \o << t >>
      BY <3>2, AppendIsConcat
    <3> QED
      BY <3>2, <3>3
  <2>3. Collapsed(R \o Append(p, t)) = Collapse(rc, t)
    <3>1. Collapsed(Append(R \o p, t)) = Collapse(Collapsed(R \o p), t)
      BY <2>2, CollapseFold DEF Collapsed
    <3> QED
      BY <1>2, <2>2, <3>1 DEF c
  <2>4. rc # << >> /\ rc[Len(rc)] = IF c = << >> THEN R[Len(R)] ELSE c[Len(c)]
    <3>1. Len(rc) = Len(R) + Len(c) /\ Len(c) \in Nat
          /\ \A i \in 1 .. Len(R) + Len(c) : rc[i] = IF i <= Len(R) THEN R[i] ELSE c[i - Len(R)]
      BY <1>0, <2>1, ConcatProperties, LenProperties
    <3>2. rc \in Seq(Chars) /\ rc # << >>
      <4>1. rc \in Seq(Chars)
        BY <2>1, <2>2
      <4> HIDE DEF rc
      <4> QED
        BY <1>0, <3>1, <4>1, EmptySeq
    <3> HIDE DEF rc
    <3>3. CASE c = << >>
      <4>1. Len(c) = 0
        BY <3>3
      <4> QED
        BY <1>0, <3>1, <3>2, <3>3, <4>1
    <3>4. CASE c # << >>
      <4>1. Len(c) > 0
        BY <2>1, <3>4, EmptySeq
      <4>2. Len(R) + Len(c) \in 1 .. Len(R) + Len(c) /\ ~(Len(R) + Len(c) <= Len(R)) /\ (Len(R) + Len(c)) - Len(R) = Len(c)
        BY <1>0, <3>1, <4>1
      <4> QED
        BY <3>1, <3>2, <3>4, <4>2
    <3> QED
      BY <3>3, <3>4
  <2>5. Collapse(rc, t) = R \o Collapse(c, t)
    <3> HIDE DEF rc
    <3>1. R \o Append(c, t) = Append(rc, t) /\ R \o c = rc
      BY <2>1, <2>2 DEF rc
    <3> QED
      BY <1>0, <2>4, <3>1 DEF Collapse
  <2>6. Append(p, t) \in Seq(Chars)
    BY AppendProperties
  <2> QED
    BY <2>1, <2>3, <2>5, <2>6
<1>3. Seq(Chars) \subseteq S
  <2> HIDE DEF S
  <2> QED
    BY <1>1, <1>2, InductSeq
<1> QED
  BY <1>3 DEF R

\* A path that has more than slashes behind its first stays longer than that.
LEMMA CollapsedLength ==
  ASSUME NEW path \in Seq(Chars), Len(path) > 1, path[2] # "/"
  PROVE  Len(Collapsed(path)) > 1
<1> DEFINE S == {p \in Seq(Chars) : /\ p # << >> => Len(Collapsed(p)) > 0
                                    /\ Len(p) > 1 /\ p[2] # "/" => Len(Collapsed(p)) > 1}
<1>1. << >> \in S
  BY EmptySeq
<1>2. ASSUME NEW p \in Seq(Chars), NEW t \in Chars, p \in S PROVE Append(p, t) \in S
  <2> DEFINE c == Collapsed(p)
             q == Append(p, t)
  <2>1. c \in Seq(Chars) /\ Collapsed(q) = Collapse(c, t)
    BY CollapseFold DEF Collapsed
  <2>2. q \in Seq(Chars) /\ Len(q) = Len(p) + 1 /\ q[Len(p) + 1] = t /\ Len(p) \in Nat
        /\ \A k \in 1 .. Len(p) : q[k] = p[k]
    BY AppendProperties, LenProperties
  <2> HIDE DEF c
  <2>3. Len(c) \in Nat /\ Len(Append(c, t)) = Len(c) + 1
    BY <2>1, AppendProperties, LenProperties
  <2>4. Len(Collapse(c, t)) \in {Len(c), Len(c) + 1}
    BY <2>3 DEF Collapse
  <2>5. t # "/" \/ c = << >> => Len(Collapse(c, t)) = Len(c) + 1
    BY <2>3 DEF Collapse
  <2>6. c = << >> \/ Len(c) > 0
    BY <2>1, EmptySeq
  <2>7. Len(Collapse(c, t)) > 0
    BY <2>3, <2>4, <2>5, <2>6
  <2>8. p # << >> => Len(c) > 0
    BY <1>2 DEF c
  <2>9. Len(p) > 1 /\ p[2] # "/" => Len(c) > 1
    BY <1>2 DEF c
  <2> HIDE DEF q
  <2>10. ASSUME Len(q) > 1, q[2] # "/" PROVE Len(Collapse(c, t)) > 1
    <3>1. CASE Len(p) = 1
      <4>1. t # "/" /\ p # << >>
        BY <2>2, <2>10, <3>1
      <4> QED
        BY <2>3, <2>5, <2>8, <4>1
    <3>2. CASE Len(p) > 1
      <4>1. p[2] = q[2]
        BY <2>2, <3>2
      <4> QED
        BY <2>3, <2>4, <2>9, <2>10, <3>2, <4>1
    <3>3. Len(p) = 1 \/ Len(p) > 1
      <4>1. Len(q) = Len(p) + 1 /\ Len(p) \in Nat
        BY <2>2
      <4>2. Len(q) > 1
        BY <2>10
      <4>3. \A l \in Nat : l + 1 > 1 => l = 1 \/ l > 1
        OBVIOUS
      <4> QED
        BY <4>1, <4>2, <4>3
    <3> QED
      BY <3>1, <3>2, <3>3
  <2> QED
    BY <2>1, <2>2, <2>7, <2>10 DEF q
<1>3. Seq(Chars) \subseteq S
  <2> HIDE DEF S
  <2> QED
    BY <1>1, <1>2, InductSeq
<1> QED
  BY <1>3

\* A sequence behind another begins with that, and ends as it does alone.
LEMMA Behind ==
  ASSUME NEW D, NEW r \in Seq(D), NEW s \in Seq(D)
  PROVE  /\ IsPrefix(r, r \o s)
         /\ SubSeq(r \o s, Len(r) + 1, Len(r \o s)) = s
<1> DEFINE q == r \o s
           u == SubSeq(q, 1, Len(r))
           v == SubSeq(q, Len(r) + 1, Len(q))
<1>1. q \in Seq(D) /\ Len(q) = Len(r) + Len(s) /\ Len(r) \in Nat /\ Len(s) \in Nat
      /\ \A i \in 1 .. Len(r) + Len(s) : q[i] = IF i <= Len(r) THEN r[i] ELSE s[i - Len(r)]
  BY ConcatProperties, LenProperties
<1> HIDE DEF q
<1>2. \A i \in 1 .. Len(q) : q[i] \in D
  BY <1>1, ElementOfSeq
<1>3. \A i \in 1 .. Len(r) : q[i] = r[i]
  BY <1>1
<1>4. u = r
  <2>1. u \in Seq(D) /\ Len(u) = (IF 1 <= Len(r) THEN Len(r) - 1 + 1 ELSE 0)
        /\ \A i \in 1 .. Len(r) - 1 + 1 : u[i] = q[1 + i - 1]
    <3>1. \A i \in 1 .. Len(r) : q[i] \in D
      BY <1>1, <1>2
    <3> QED
      BY <1>1, <3>1, SubSeqProperties
  <2> HIDE DEF u
  <2>2. Len(u) = Len(r)
    BY <1>1, <2>1
  <2>3. ASSUME NEW i \in 1 .. Len(u) PROVE u[i] = r[i]
    <3>1. i \in 1 .. Len(r) /\ i \in 1 .. Len(r) - 1 + 1 /\ 1 + i - 1 = i
      BY <1>1, <2>2
    <3> QED
      BY <1>3, <2>1, <3>1
  <2> QED
    BY <2>1, <2>2, <2>3, SeqEqual
<1>5. v = s
  <2>1. v \in Seq(D) /\ Len(v) = (IF Len(r) + 1 <= Len(q) THEN Len(q) - (Len(r) + 1) + 1 ELSE 0)
        /\ \A i \in 1 .. Len(q) - (Len(r) + 1) + 1 : v[i] = q[(Len(r) + 1) + i - 1]
    <3>1. \A i \in Len(r) + 1 .. Len(q) : q[i] \in D
      BY <1>1, <1>2
    <3>2. Len(r) + 1 \in Int /\ Len(q) \in Int
      BY <1>1
    <3> QED
      BY <3>1, <3>2, SubSeqProperties
  <2> HIDE DEF v
  <2>2. Len(v) = Len(s)
    BY <1>1, <2>1
  <2>3. ASSUME NEW i \in 1 .. Len(v) PROVE v[i] = s[i]
    <3>1. i \in 1 .. Len(q) - (Len(r) + 1) + 1 /\ (Len(r) + 1) + i - 1 = Len(r) + i
          /\ Len(r) + i \in 1 .. Len(r) + Len(s) /\ ~(Len(r) + i <= Len(r)) /\ (Len(r) + i) - Len(r) = i
      BY <1>1, <2>2
    <3>2. v[i] = q[Len(r) + i]
      BY <2>1, <3>1
    <3>3. q[Len(r) + i] = s[(Len(r) + i) - Len(r)]
      BY <1>1, <3>1
    <3> QED
      BY <3>1, <3>2, <3>3
  <2> QED
    BY <2>1, <2>2, <2>3, SeqEqual
<1>6. Len(r) <= Len(q) /\ SubSeq(r, 1, Len(r)) = r
  BY <1>1, SubSeqFull
<1> QED
  BY <1>4, <1>5, <1>6 DEF IsPrefix, q

\* path.c:113 and 150: a translation is undone.
LEMMA TranslationUndone ==
  ASSUME NEW path \in Seq(Tokens), Absolute(path), Len(path) > 1,
         ixland_path_classify(path) = "VIRTUAL_LINUX"
  PROVE  ixland_path_reverse_translate(ixland_path_translate(path)) = ixland_path_normalize(path)
<1> DEFINE R == SandboxRoot
           c == Collapsed(path)
           d == TrailingDropped(c)
<1>1. path[2] # "/"
  <2>1. path # << >> /\ path # <<"/">>
    <3>1. path = <<"/">> => Len(path) = 1
      OBVIOUS
    <3>2. path # << >>
      BY Zenon DEF Absolute
    <3>3. Len(path) # 1
      <4>1. Len(path) \in Nat
        BY LenProperties
      <4>2. \A l \in Nat : l > 1 => l # 1
        OBVIOUS
      <4> QED
        BY <4>1, <4>2
    <3> QED
      BY <3>1, <3>2, <3>3
  <2>2. Under(path, Virtual \cup Kernel)
    BY <2>1 DEF ixland_path_classify
  <2> QED
    BY <2>2, PathsAssumption DEF Under, PathsAssumption
<1>2. path \in Seq(Chars)
  BY SeqMonotonic DEF Chars
<1>3. R \in Seq(Chars) /\ Len(R) \in Nat /\ Len(R) > 0 /\ c \in Seq(Chars) /\ Len(c) > 1 /\ Len(c) \in Nat
  BY <1>1, <1>2, RootIs, CollapseFold, CollapsedLength, LenProperties DEF Collapsed
<1>4. Collapsed(R \o path) = R \o c
  BY <1>2, CollapsedBehindRoot
<1> HIDE DEF R, c
<1>5. TrailingDropped(R \o c) = R \o d /\ d \in Seq(Chars)
  <2> DEFINE rc == R \o c
  <2>1. c # << >>
    BY <1>3
  <2>2. PICK s \in Seq(Chars), t \in Chars : c = Append(s, t)
    BY <1>3, <2>1, SequenceEmptyOrAppend
  <2>3. << t >> \in Seq(Chars) /\ R \o s \in Seq(Chars)
    BY <1>3, ConcatProperties
  <2>4. rc = Append(R \o s, t)
    <3>1. c = s \o << t >> /\ R \o (s \o << t >>) = (R \o s) \o << t >>
      BY <1>3, <2>2, <2>3, AppendIsConcat, ConcatAssociative
    <3>2. Append(R \o s, t) = (R \o s) \o << t >>
      BY <2>3, AppendIsConcat
    <3> QED
      BY <3>1, <3>2
  <2>5. Len(rc) = Len(R \o s) + 1 /\ rc[Len(rc)] = t /\ SubSeq(rc, 1, Len(R \o s)) = R \o s /\ Len(R \o s) \in Nat
        /\ rc \in Seq(Chars) /\ Len(rc) = Len(R) + Len(c)
    <3>1. Len(rc) = Len(R \o s) + 1 /\ rc[Len(rc)] = t /\ SubSeq(rc, 1, Len(R \o s)) = R \o s /\ Len(R \o s) \in Nat
      BY <2>3, <2>4, AllButLast, AppendProperties, LenProperties
    <3>2. rc \in Seq(Chars) /\ Len(rc) = Len(R) + Len(c)
      BY <1>3, ConcatProperties
    <3> QED
      BY <3>1, <3>2
  <2>6. Len(c) = Len(s) + 1 /\ c[Len(c)] = t /\ SubSeq(c, 1, Len(s)) = s /\ Len(s) \in Nat
    BY <2>2, AllButLast, AppendProperties, LenProperties
  <2> HIDE DEF rc
  <2>7. Len(rc) > 1 /\ Len(rc) - 1 = Len(R \o s) /\ Len(c) - 1 = Len(s)
    BY <1>3, <2>5, <2>6
  <2>8. d = IF t = "/" THEN s ELSE c
    BY <1>3, <2>6, <2>7 DEF TrailingDropped
  <2>9. TrailingDropped(rc) = IF t = "/" THEN R \o s ELSE rc
    BY <2>5, <2>7 DEF TrailingDropped
  <2> HIDE DEF d
  <2>10. R \o d = IF t = "/" THEN R \o s ELSE R \o c
    BY <2>8
  <2>11. d \in Seq(Chars)
    BY <1>3, <2>8
  <2> QED
    BY <2>9, <2>10, <2>11 DEF rc
<1>6. ixland_path_translate(path) = R \o d
  BY <1>4, <1>5 DEF ixland_path_translate, ixland_path_normalize, Collapsed, R
<1>7. ixland_path_normalize(path) = d
  BY DEF ixland_path_normalize, Collapsed, c
<1> HIDE DEF d
<1>8. IsPrefix(R, R \o d) /\ SubSeq(R \o d, Len(R) + 1, Len(R \o d)) = d
  BY <1>3, <1>5, Behind
<1> QED
  BY <1>6, <1>7, <1>8 DEF ixland_path_reverse_translate, R

-----------------------------------------------------------------------------
\* What is behind a name: nothing, or a slash.
Opens(rest) == rest = << >> \/ rest[1] = "/"

\* A spelling begins with the first name.
LEMMA SpellingBegins ==
  ASSUME NEW dirs \in Seq(Names), dirs # << >>
  PROVE  \E s \in Seq(Tokens) : Opens(s) /\ Spelling(dirs) = <<"/", dirs[1]>> \o s
<1> DEFINE S == {q \in Seq(Names) : q # << >> => \E s \in Seq(Tokens) : Opens(s) /\ Spelling(q) = <<"/", q[1]>> \o s}
<1>1. << >> \in S
  OBVIOUS
<1>2. ASSUME NEW q \in Seq(Names), NEW x \in Names, q \in S PROVE Append(q, x) \in S
  <2>0. "/" \in Tokens /\ x \in Tokens
    BY DEF Tokens
  <2>1. Spelt(q) \in Seq(Tokens) /\ Spelling(Append(q, x)) = Append(Append(Spelt(q), "/"), x)
        /\ (q = << >> => Spelt(q) = << >>) /\ (q # << >> => Spelt(q) = Spelling(q))
    BY SpellingLonger
  <2>2. CASE q = << >>
    <3>1. Append(q, x)[1] = x /\ Append(Append(<< >>, "/"), x) = <<"/", x>> /\ <<"/", x>> \in Seq(Tokens)
      <4>1. Append(<< >>, x)[1] = x
        OBVIOUS
      <4>2. Append(<< >>, "/") = <<"/">>
        OBVIOUS
      <4>4. <<"/", x>> = Append(<<"/">>, x)
        BY <2>0
      <4>3. <<"/", x>> \in Seq(Tokens)
        BY <2>0
      <4> QED
        BY <2>2, <4>1, <4>2, <4>3, <4>4
    <3>2. <<"/", x>> \o << >> = <<"/", x>> /\ << >> \in Seq(Tokens)
      BY <3>1, ConcatEmptySeq
    <3>3. Spelling(Append(q, x)) = <<"/", Append(q, x)[1]>> \o << >>
      BY <2>1, <2>2, <3>1, <3>2
    <3>4. Append(q, x) \in Seq(Names) /\ Opens(<< >>)
      BY AppendProperties DEF Opens
    <3> QED
      BY <3>2, <3>3, <3>4
  <2>3. CASE q # << >>
    <3>1. PICK s \in Seq(Tokens) : Opens(s) /\ Spelling(q) = <<"/", q[1]>> \o s
      BY <1>2, <2>3
    <3> DEFINE b == <<"/", q[1]>>
               u == Append(s, "/")
               v == Append(u, x)
    <3>2. Append(q, x)[1] = q[1] /\ q[1] \in Tokens /\ b \in Seq(Tokens)
      <4>1. Len(q) > 0 /\ Len(q) \in Nat
        BY <2>3, EmptySeq
      <4>2. 1 \in 1 .. Len(q)
        BY <4>1
      <4>3. q[1] \in Tokens
        BY <4>2, ElementOfSeq DEF Tokens
      <4> QED
        BY <2>0, <4>2, <4>3, AppendProperties
    <3>8. Opens(v)
      <4>1. s = << >> => u[1] = "/"
        BY <2>0
      <4>2. s # << >> => u[1] = "/"
        <5>1. s # << >> => 1 \in 1 .. Len(s)
          BY EmptySeq, LenProperties
        <5> QED
          BY <2>0, <3>1, <5>1, AppendProperties DEF Opens
      <4>3. u \in Seq(Tokens) /\ Len(u) = Len(s) + 1 /\ Len(s) \in Nat
        BY <2>0, AppendProperties, LenProperties
      <4>4. v[1] = u[1]
        <5> HIDE DEF u
        <5>1. 1 \in 1 .. Len(u)
          BY <4>3
        <5> QED
          BY <2>0, <4>3, <5>1, AppendProperties
      <4> QED
        BY <4>1, <4>2, <4>4 DEF Opens
    <3> HIDE DEF b
    <3>3. ASSUME NEW r \in Seq(Tokens), NEW t \in Tokens PROVE Append(b \o r, t) = b \o Append(r, t) /\ Append(r, t) \in Seq(Tokens)
      <4>1. << t >> \in Seq(Tokens) /\ b \o r \in Seq(Tokens) /\ Append(r, t) \in Seq(Tokens)
        BY <3>2, ConcatProperties, AppendProperties
      <4>2. Append(b \o r, t) = (b \o r) \o << t >> /\ Append(r, t) = r \o << t >>
        BY <4>1, AppendIsConcat
      <4>3. (b \o r) \o << t >> = b \o (r \o << t >>)
        BY <3>2, <4>1, ConcatAssociative
      <4> QED
        BY <4>1, <4>2, <4>3
    <3>4. u \in Seq(Tokens) /\ Append(b \o s, "/") = b \o u
      BY <2>0, <3>3
    <3> HIDE DEF u
    <3>5. v \in Seq(Tokens) /\ Append(b \o u, x) = b \o v
      BY <2>0, <3>3, <3>4
    <3>6. Spelling(Append(q, x)) = <<"/", Append(q, x)[1]>> \o v
      BY <2>1, <2>3, <3>1, <3>2, <3>4, <3>5 DEF b
    <3>7. Append(q, x) \in Seq(Names)
      BY AppendProperties
    <3> HIDE DEF v
    <3> QED
      BY <3>5, <3>6, <3>7, <3>8
  <2> QED
    BY <2>2, <2>3
<1>3. Seq(Names) \subseteq S
  <2> HIDE DEF S
  <2> QED
    BY <1>1, <1>2, InductSeq
<1> QED
  BY <1>3

\* A path that never goes up stays below its first name.
LEMMA StaysBelow ==
  ASSUME NEW path \in Seq(Tokens), Len(path) > 1, path[1] = "/", path[2] \in Names, ~Contains(path, "..")
  PROVE  Meaning(path) \in Seq(Names) /\ Meaning(path) # << >> /\ Meaning(path)[1] = path[2]
<1> DEFINE n == Len(path)
<1>1. n \in Nat /\ n > 1 /\ \A k \in 1 .. n : path[k] \in Tokens /\ path[k] # ".."
  BY LenProperties, ElementOfSeq DEF Contains
<1>2. PICK m : Leads(m, path) /\ Meaning(path) = m[n]
  <2>1. << >> \in Seq(Names)
    OBVIOUS
  <2> QED
    BY <2>1, EnterRun DEF Leads, Meaning, Follows
<1>3. m[0] = << >> /\ (\A k \in 0 .. n : m[k] \in Seq(Names)) /\ \A k \in 1 .. n : m[k] = Enter(m[k - 1], path[k])
  BY <1>2, LeadsOn
<1>4. path[2] \notin {"/", ".", ".."}
  BY PathsAssumption DEF PathsAssumption
<1> DEFINE N == {k \in Nat : k + 2 <= n => m[k + 2] # << >> /\ m[k + 2][1] = path[2]}
<1>5. 0 \in N
  <2>1. 1 \in 1 .. n /\ 2 \in 1 .. n /\ 1 - 1 = 0 /\ 2 - 1 = 1 /\ 0 + 2 = 2
    BY <1>1
  <2>2. m[1] = Enter(m[0], path[1]) /\ m[2] = Enter(m[1], path[2])
    BY <1>3, <2>1
  <2>3. m[1] = << >>
    BY <1>3, <2>2 DEF Enter
  <2>4. m[2] = Append(<< >>, path[2])
    BY <1>4, <2>2, <2>3 DEF Enter
  <2>5. Append(<< >>, path[2]) # << >> /\ Append(<< >>, path[2])[1] = path[2]
    OBVIOUS
  <2> QED
    BY <2>1, <2>4, <2>5
<1>6. ASSUME NEW k \in Nat, k \in N PROVE k + 1 \in N
  <2>1. SUFFICES ASSUME (k + 1) + 2 <= n PROVE m[(k + 1) + 2] # << >> /\ m[(k + 1) + 2][1] = path[2]
    OBVIOUS
  <2>2. (k + 1) + 2 = k + 3 /\ k + 3 \in 1 .. n /\ (k + 3) - 1 = k + 2 /\ k + 2 \in 0 .. n /\ k + 2 <= n
    BY <1>1, <2>1
  <2> DEFINE d == m[k + 2]
             t == path[k + 3]
  <2>3. d \in Seq(Names) /\ d # << >> /\ d[1] = path[2]
    BY <1>3, <1>6, <2>2
  <2>4. m[k + 3] = Enter(d, t) /\ t \in Tokens /\ t # ".."
    BY <1>1, <1>3, <2>2
  <2> HIDE DEF d, t
  <2>5. CASE t \in {"/", "."}
    BY <2>2, <2>3, <2>4, <2>5 DEF Enter
  <2>6. CASE t \in Names
    <3>1. Append(d, t) # << >> /\ Append(d, t)[1] = d[1]
      <4>1. Len(d) > 0 /\ Len(d) \in Nat
        BY <2>3, EmptySeq
      <4>2. 1 \in 1 .. Len(d)
        BY <4>1
      <4> QED
        BY <2>3, <2>6, <4>2, AppendProperties
    <3>2. t \notin {"/", "."}
      BY <2>6, PathsAssumption DEF PathsAssumption
    <3>3. Enter(d, t) = Append(d, t)
      BY <2>4, <3>2 DEF Enter
    <3> QED
      BY <2>2, <2>3, <2>4, <3>1, <3>3
  <2> QED
    BY <2>4, <2>5, <2>6 DEF Tokens
<1>7. Nat \subseteq N
  <2> HIDE DEF N
  <2> QED
    BY <1>5, <1>6, Induct
<1>8. m[n] # << >> /\ m[n][1] = path[2]
  <2>1. n - 2 \in Nat /\ (n - 2) + 2 = n
    BY <1>1
  <2>2. n - 2 \in N
    <3> HIDE DEF N
    <3> QED
      BY <1>7, <2>1
  <2> QED
    BY <2>1, <2>2
<1> QED
  BY <1>1, <1>2, <1>3, <1>8

\* path.c:244: a safe virtual path resolves to one below its first name, whether
\* ixland_vfs_translate translates it or fails.
LEMMA SafeStaysBelow ==
  ASSUME NEW path \in Seq(Tokens), WellSpelled(path), ixland_path_is_safe(path), is_virtual_linux(path)
  PROVE  \A result \in __ixland_path_resolve(path) :
           is_virtual_linux(result.of) /\ result.of[2] = path[2]
<1> DEFINE b == <<"/", path[2]>>
           D == Meaning(path)
<1>1. /\ Len(path) > 1 /\ Len(path) \in Nat /\ path # << >> /\ path[1] = "/" /\ path[2] \in Names
      /\ path[2] \in Virtual /\ path[2] \notin {"/", ".", ".."} /\ ~Contains(path, "..")
  <2>1. Len(path) > 1 /\ path # << >> /\ path[1] = "/" /\ path[2] \in Virtual /\ ~Contains(path, "..")
    BY DEF is_virtual_linux, Absolute, ixland_path_is_safe
  <2>2. path[2] \in Names
    BY <2>1, PathsAssumption DEF PathsAssumption
  <2>3. path[2] \notin {"/", ".", ".."}
    BY <2>2, PathsAssumption DEF PathsAssumption
  <2> QED
    BY <2>1, <2>2, <2>3, LenProperties
<1>2. D \in Seq(Names) /\ D # << >> /\ D[1] = path[2]
  BY <1>1, StaysBelow
<1>3. Plain(path)
  <2>1. 2 \in 1 .. Len(path)
    BY <1>1
  <2>2. \A k \in 1 .. 2 - 1 : k = 1
    OBVIOUS
  <2>3. FirstPart(path) = 2
    BY <1>1, <2>1, <2>2, FirstPartFound
  <2>4. \A i \in 1 .. 2 : path[i] # "."
    <3>1. \A i \in 1 .. 2 : i = 1 \/ i = 2
      OBVIOUS
    <3> QED
      BY <1>1, <3>1
  <2> QED
    BY <1>1, <2>3, <2>4 DEF Plain, Absolute
<1>4. \A result \in __ixland_path_resolve(path) : result.of = Spelling(D)
  <2>1. __ixland_path_normalize(path) = Spelling(D)
    BY <1>3, NormalizePlain
  <2> QED
    BY <2>1 DEF __ixland_path_resolve, ixland_vfs_translate
<1> HIDE DEF D
<1>5. PICK s \in Seq(Tokens) : Opens(s) /\ Spelling(D) = b \o s
  BY <1>2, SpellingBegins
<1> DEFINE p == b \o s
<1>6. b \in Seq(Tokens) /\ Len(b) = 2 /\ b[1] = "/" /\ b[2] = path[2]
  <2>1. "/" \in Tokens /\ path[2] \in Tokens
    BY <1>1 DEF Tokens
  <2> QED
    BY <2>1
<1> HIDE DEF b
<1>7. Len(p) = 2 + Len(s) /\ Len(s) \in Nat /\ p[1] = "/" /\ p[2] = path[2]
  <2>0. Len(s) \in Nat
    BY LenProperties
  <2>1. Len(p) = Len(b) + Len(s) /\ \A k \in 1 .. Len(b) + Len(s) : p[k] = IF k <= Len(b) THEN b[k] ELSE s[k - Len(b)]
    BY <1>6, ConcatProperties
  <2>2. 1 \in 1 .. Len(b) + Len(s) /\ 2 \in 1 .. Len(b) + Len(s) /\ 1 <= Len(b) /\ 2 <= Len(b)
    BY <1>6, <2>0
  <2> HIDE DEF p
  <2> QED
    BY <1>6, <2>0, <2>1, <2>2
<1>8. Len(p) > 2 => p[3] = "/"
  <2>1. SUFFICES ASSUME Len(p) > 2 PROVE p[3] = "/"
    OBVIOUS
  <2>2. Len(s) > 0
    BY <1>7, <2>1
  <2>3. s # << >>
    BY <2>2
  <2>4. p[3] = s[1]
    BY <1>6, <1>7, <2>2, ConcatProperties
  <2> QED
    BY <1>5, <2>3, <2>4 DEF Opens
<1>9. is_virtual_linux(p) /\ p[2] = path[2]
  <2> HIDE DEF p
  <2>1. p # << >> /\ Len(p) > 1
    BY <1>7
  <2> QED
    BY <1>1, <1>7, <1>8, <2>1 DEF is_virtual_linux, Absolute
<1> HIDE DEF p
<1> QED
  BY <1>4, <1>5, <1>9 DEF p

\* path.c:118 and 176: the root itself comes back as the empty path.
LEMMA RootComesBackEmpty ==
  ixland_path_reverse_translate(ixland_path_translate(<<"/">>)) = << >>
<1> DEFINE R == SandboxRoot
           rc == Append(R, "/")
<1>1. R \in Seq(Chars) /\ Len(R) \in Nat /\ Len(R) > 0 /\ "/" \in Chars
  BY RootIs DEF Chars, Tokens
<1>2. <<"/">> \in Seq(Chars) /\ Collapsed(<<"/">>) = <<"/">>
  <2>1. << >> \in Seq(Chars) /\ <<"/">> = Append(<< >>, "/")
    BY <1>1
  <2>2. Collapsed(<<"/">>) = Collapse(Collapsed(<< >>), "/") /\ Collapsed(<< >>) = << >>
    BY <1>1, <2>1, CollapseFold DEF Collapsed
  <2> QED
    BY <1>1, <2>1, <2>2 DEF Collapse
<1>3. Collapsed(R \o <<"/">>) = rc
  <2>1. Collapsed(R \o <<"/">>) = R \o <<"/">>
    BY <1>2, CollapsedBehindRoot
  <2> QED
    BY <1>1, <2>1, AppendIsConcat
<1>4. TrailingDropped(rc) = R
  <2>1. Len(rc) = Len(R) + 1 /\ rc[Len(rc)] = "/" /\ SubSeq(rc, 1, Len(R)) = R
    BY <1>1, AllButLast, AppendProperties
  <2> HIDE DEF rc
  <2>2. Len(rc) > 1 /\ Len(rc) - 1 = Len(R)
    BY <1>1, <2>1
  <2> QED
    BY <2>1, <2>2 DEF TrailingDropped
<1>5. ixland_path_classify(<<"/">>) = "VIRTUAL_LINUX"
  BY DEF ixland_path_classify
<1>6. ixland_path_translate(<<"/">>) = R
  BY <1>3, <1>4, <1>5 DEF ixland_path_translate, ixland_path_normalize, Collapsed
<1>7. << >> \in Seq(Chars) /\ R \o << >> = R
  BY <1>1, ConcatEmptySeq
<1>8. IsPrefix(R, R) /\ SubSeq(R, Len(R) + 1, Len(R)) = << >>
  BY <1>1, <1>7, Behind
<1> QED
  BY <1>6, <1>8 DEF ixland_path_reverse_translate

-----------------------------------------------------------------------------
PathInv == spelled \in Seq(Tokens) /\ WellSpelled(spelled)

\* What the functions are applied to is a path.
LEMMA PathInvHolds == PathSpec => []PathInv
<1>1. PathInit => PathInv
  <2> SUFFICES ASSUME PathInit PROVE PathInv
    OBVIOUS
  <2>1. spelled = << >> /\ << >> \in Seq(Tokens) /\ Len(<< >>) = 0
    BY DEF PathInit
  <2> QED
    BY <2>1 DEF PathInv, WellSpelled
<1>2. PathInv /\ [PathNext]_pathVars => PathInv'
  <2> SUFFICES ASSUME PathInv, [PathNext]_pathVars PROVE PathInv'
    OBVIOUS
  <2>1. ASSUME NEW token \in Tokens, Spells(token) PROVE PathInv'
    <3> DEFINE n == Len(spelled)
    <3>1. spelled' = Append(spelled, token) /\ (spelled # << >> => token = "/" \/ spelled[n] = "/")
      BY <2>1 DEF Spells
    <3>2. n \in Nat /\ spelled' \in Seq(Tokens) /\ Len(spelled') = n + 1 /\ spelled'[n + 1] = token
          /\ \A k \in 1 .. n : spelled'[k] = spelled[k]
      BY <3>1, AppendProperties, LenProperties DEF PathInv
    <3>3. ASSUME NEW k \in 2 .. Len(spelled') PROVE spelled'[k] = "/" \/ spelled'[k - 1] = "/"
      <4>1. CASE k = n + 1
        <5>1. k - 1 = n /\ n \in 1 .. n /\ spelled # << >>
          <6>1. n > 0
            BY <3>2, <3>3, <4>1
          <6> QED
            BY <3>2, <4>1, <6>1
        <5> QED
          BY <3>1, <3>2, <4>1, <5>1
      <4>2. CASE k # n + 1
        <5>1. k \in 2 .. n /\ k \in 1 .. n /\ k - 1 \in 1 .. n
          BY <3>2, <3>3, <4>2
        <5>2. spelled[k] = "/" \/ spelled[k - 1] = "/"
          BY <5>1 DEF PathInv, WellSpelled
        <5> QED
          BY <3>2, <5>1, <5>2
      <4> QED
        BY <4>1, <4>2
    <3> QED
      BY <3>2, <3>3 DEF PathInv, WellSpelled
  <2>2. CASE UNCHANGED pathVars
    BY <2>2 DEF PathInv, WellSpelled, pathVars
  <2> QED
    BY <2>1, <2>2 DEF PathNext
<1> QED
  BY <1>1, <1>2, PTL DEF PathSpec

\* Of every path, of any length and over any names, and for every root that is
\* absolute and has no slash to collapse: the normalizations, joining and the
\* translations of path.c do what PathsAgree says.
THEOREM PathsAgreeAlways == PathSpec => []PathsAgree
<1>1. PathInv => PathsAgree
  <2> SUFFICES ASSUME PathInv PROVE PathsAgree
    OBVIOUS
  <2>0. spelled \in Seq(Tokens) /\ WellSpelled(spelled)
    BY DEF PathInv
  <2>1. ASSUME Plain(spelled)
        PROVE  /\ __ixland_path_normalize(spelled) = Spelling(Meaning(spelled))
               /\ \A rel \in Relatives :
                    __ixland_path_normalize(__ixland_path_join(spelled, rel))
                      = Spelling(Follows(Meaning(spelled), rel))
    BY <2>0, <2>1, NormalizePlain, JoinPlain
  <2>2. Meaning(ixland_path_normalize(spelled)) = Meaning(spelled)
    <3>1. Collapsed(spelled) \in Seq(Tokens) /\ Meaning(Collapsed(spelled)) = Meaning(spelled)
      BY <2>0, CollapsedMeaning
    <3> QED
      BY <3>1, DroppedMeaning DEF ixland_path_normalize, Collapsed
  <2>3. ASSUME Absolute(spelled), ixland_path_classify(spelled) = "VIRTUAL_LINUX"
        PROVE  ixland_path_reverse_translate(ixland_path_translate(spelled))
                 = IF spelled = <<"/">> THEN << >> ELSE ixland_path_normalize(spelled)
    <3>1. CASE spelled = <<"/">>
      BY <3>1, RootComesBackEmpty
    <3>2. CASE spelled # <<"/">>
      <4>1. Len(spelled) > 1
        BY <2>3, <3>2 DEF ixland_path_classify, Absolute, Under
      <4> QED
        BY <2>0, <2>3, <3>2, <4>1, TranslationUndone
    <3> QED
      BY <3>1, <3>2
  <2>4. ASSUME ixland_path_is_safe(spelled), is_virtual_linux(spelled)
        PROVE  \A result \in __ixland_path_resolve(spelled) :
                 is_virtual_linux(result.of) /\ result.of[2] = spelled[2]
    BY <2>0, <2>4, SafeStaysBelow
  <2> QED
    BY <2>1, <2>2, <2>3, <2>4 DEF PathsAgree
<1> QED
  BY <1>1, PathInvHolds, PTL

-----------------------------------------------------------------------------
(* gcd is the greatest common divisor, and a combination of its arguments  *)

\* d divides a and b, and is a combination of them.
IsGcd(d, a, b) ==
  /\ d \in Nat \ {0}
  /\ \E u \in Nat : a = d * u
  /\ \E v \in Nat : b = d * v
  /\ \E x, y \in Int : d = (x * a) + (y * b)

\* What a divided by b leaves.
LEMMA DivMod ==
  ASSUME NEW a \in Nat, NEW b \in Nat \ {0}
  PROVE  /\ a % b \in 0 .. b - 1
         /\ a \div b \in Nat
         /\ a = (b * (a \div b)) + (a % b)
  OBVIOUS

\* The divisor is a gcd where the division leaves nothing.
LEMMA GcdOfMultiple ==
  ASSUME NEW a \in Nat, NEW b \in Nat \ {0}, a % b = 0
  PROVE  IsGcd(b, a, b)
<1>1. a \div b \in Nat /\ a = b * (a \div b)
  BY DivMod
<1>2. b = b * 1 /\ b = (0 * a) + (1 * b) /\ 0 \in Int /\ 1 \in Int /\ 1 \in Nat
  OBVIOUS
<1> QED
  BY <1>1, <1>2, Zenon DEF IsGcd

\* A gcd of the divisor and the remainder is one of the two numbers.
LEMMA GcdOfRemainder ==
  ASSUME NEW a \in Nat, NEW b \in Nat \ {0}, NEW d, IsGcd(d, b, a % b)
  PROVE  IsGcd(d, a, b)
<1> DEFINE q == a \div b
           r == a % b
<1>1. q \in Nat /\ r \in Nat /\ a = (b * q) + r
  <2>1. r \in 0 .. b - 1 /\ q \in Nat /\ a = (b * q) + r
    BY DivMod, Zenon
  <2> HIDE DEF q, r
  <2> QED
    BY <2>1
<1> HIDE DEF q, r
<1>2. d \in Nat \ {0}
  BY DEF IsGcd
<1>3. PICK u \in Nat : b = d * u
  BY DEF IsGcd
<1>4. PICK v \in Nat : r = d * v
  BY DEF IsGcd, r
<1>5. PICK x, y \in Int : d = (x * b) + (y * r)
  BY DEF IsGcd, r
<1>6. a = d * ((u * q) + v) /\ (u * q) + v \in Nat
  <2>1. (d * u) * q = d * (u * q)
    BY <1>1, <1>2, <1>3
  <2>2. d * ((u * q) + v) = (d * (u * q)) + (d * v)
    BY <1>1, <1>2, <1>3, <1>4
  <2>3. a = ((d * u) * q) + (d * v)
    BY <1>1, <1>3, <1>4
  <2> QED
    BY <1>1, <1>3, <1>4, <2>1, <2>2, <2>3
<1>7. d = (y * a) + ((x - (y * q)) * b) /\ x - (y * q) \in Int
  <2>1. y * ((b * q) + r) = (y * (b * q)) + (y * r)
    BY <1>1, <1>5
  <2>2. (x - (y * q)) * b = (x * b) - ((y * q) * b)
    BY <1>1, <1>5
  <2>3. (y * q) * b = y * (b * q)
    BY <1>1, <1>5
  <2> QED
    BY <1>1, <1>5, <2>1, <2>2, <2>3
<1> QED
  BY <1>2, <1>3, <1>6, <1>7 DEF IsGcd

\* Two numbers have one gcd at most.
LEMMA GcdLeast ==
  ASSUME NEW a \in Nat, NEW b \in Nat \ {0}, NEW d, IsGcd(d, a, b), NEW e, IsGcd(e, a, b)
  PROVE  e <= d
<1>1. d \in Nat \ {0} /\ e \in Nat \ {0}
  BY DEF IsGcd
<1>2. PICK u, v \in Nat : a = e * u /\ b = e * v
  BY DEF IsGcd
<1>3. PICK x, y \in Int : d = (x * a) + (y * b)
  BY DEF IsGcd
<1> DEFINE k == (x * u) + (y * v)
<1>4. d = e * k /\ k \in Int
  <2>1. x * (e * u) = e * (x * u)
    BY <1>1, <1>2, <1>3
  <2>2. y * (e * v) = e * (y * v)
    BY <1>1, <1>2, <1>3
  <2>3. e * k = (e * (x * u)) + (e * (y * v))
    BY <1>1, <1>2, <1>3
  <2> QED
    BY <1>1, <1>2, <1>3, <2>1, <2>2, <2>3
<1> HIDE DEF k
<1>5. k > 0
  BY <1>1, <1>4
<1> QED
  BY <1>1, <1>4, <1>5

\* Any two numbers have a gcd.
LEMMA GcdExists ==
  ASSUME NEW a \in Nat, NEW b \in Nat \ {0}
  PROVE  \E d : IsGcd(d, a, b)
<1> DEFINE N == {n \in Nat : \A y \in 1 .. n : \A x \in Nat : \E d : IsGcd(d, x, y)}
<1>1. 0 \in N
  OBVIOUS
<1>2. ASSUME NEW n \in Nat, n \in N PROVE n + 1 \in N
  <2>1. ASSUME NEW y \in 1 .. n + 1, NEW x \in Nat PROVE \E d : IsGcd(d, x, y)
    <3>1. y \in Nat \ {0} /\ x % y \in 0 .. y - 1
      BY DivMod
    <3>2. CASE x % y = 0
      BY <3>1, <3>2, GcdOfMultiple
    <3>3. CASE x % y # 0
      <4>1. x % y \in 1 .. n
        BY <3>1, <3>3
      <4>2. PICK d : IsGcd(d, y, x % y)
        BY <1>2, <3>1, <4>1
      <4> QED
        BY <3>1, <4>2, GcdOfRemainder
    <3> QED
      BY <3>2, <3>3
  <2> QED
    BY <2>1
<1>3. Nat \subseteq N
  <2> HIDE DEF N
  <2> QED
    BY <1>1, <1>2, Induct
<1> QED
  BY <1>3

GcdPairs == Nat \X (Nat \ {0})

\* The function gcd satisfies its equation: the recursion of getopt_long.c ends.
LEMMA GcdEquation ==
  ASSUME NEW a \in Nat, NEW b \in Nat \ {0}
  PROVE  gcd[<<a, b>>] = IF a % b = 0 THEN b ELSE gcd[<<b, a % b>>]
<1> DEFINE g == [p \in GcdPairs |-> CHOOSE d : IsGcd(d, p[1], p[2])]
<1>1. ASSUME NEW x \in Nat, NEW y \in Nat \ {0} PROVE IsGcd(g[<<x, y>>], x, y)
  <2>1. \E d : IsGcd(d, x, y)
    BY GcdExists
  <2>2. g[<<x, y>>] = CHOOSE d : IsGcd(d, x, y)
    BY DEF GcdPairs
  <2> HIDE DEF g
  <2> QED
    BY <2>1, <2>2, Zenon
<1>2. g = [p \in GcdPairs |-> g[p]]
  OBVIOUS
<1> HIDE DEF g
<1>3. ASSUME NEW x \in Nat, NEW y \in Nat \ {0}, NEW d, IsGcd(d, x, y) PROVE g[<<x, y>>] = d
  <2>1. IsGcd(g[<<x, y>>], x, y)
    BY <1>1
  <2>2. d <= g[<<x, y>>] /\ g[<<x, y>>] <= d
    BY <1>3, <2>1, GcdLeast
  <2>3. d \in Nat /\ g[<<x, y>>] \in Nat
    BY <1>3, <2>1 DEF IsGcd
  <2> QED
    BY <2>2, <2>3
<1>4. ASSUME NEW p \in GcdPairs
      PROVE  g[p] = IF p[1] % p[2] = 0 THEN p[2] ELSE g[<<p[2], p[1] % p[2]>>]
  <2>1. p[1] \in Nat /\ p[2] \in Nat \ {0} /\ p = <<p[1], p[2]>>
    BY DEF GcdPairs
  <2>2. CASE p[1] % p[2] = 0
    BY <1>3, <2>1, <2>2, GcdOfMultiple
  <2>3. CASE p[1] % p[2] # 0
    <3>1. p[1] % p[2] \in Nat \ {0}
      BY <2>1, <2>3, DivMod
    <3>2. IsGcd(g[<<p[2], p[1] % p[2]>>], p[2], p[1] % p[2])
      BY <1>1, <2>1, <3>1
    <3>3. IsGcd(g[<<p[2], p[1] % p[2]>>], p[1], p[2])
      BY <2>1, <3>2, GcdOfRemainder
    <3>4. g[p] = g[<<p[2], p[1] % p[2]>>]
      BY <1>3, <2>1, <3>3
    <3> QED
      BY <2>3, <3>4
  <2> QED
    BY <2>2, <2>3
<1>5. g = [p \in GcdPairs |-> IF p[1] % p[2] = 0 THEN p[2] ELSE g[<<p[2], p[1] % p[2]>>]]
  BY <1>2, <1>4
<1>6. gcd = [p \in GcdPairs |-> IF p[1] % p[2] = 0 THEN p[2] ELSE gcd[<<p[2], p[1] % p[2]>>]]
  BY <1>5, Zenon DEF gcd, GcdPairs
<1> QED
  BY <1>6 DEF GcdPairs

\* getopt_long.c:139: what Euclid's algorithm returns.
LEMMA GcdIsGcd ==
  ASSUME NEW a \in Nat, NEW b \in Nat \ {0}
  PROVE  IsGcd(gcd[<<a, b>>], a, b)
<1> DEFINE N == {n \in Nat : \A y \in 1 .. n : \A x \in Nat : IsGcd(gcd[<<x, y>>], x, y)}
<1>1. 0 \in N
  OBVIOUS
<1>2. ASSUME NEW n \in Nat, n \in N PROVE n + 1 \in N
  <2>1. ASSUME NEW y \in 1 .. n + 1, NEW x \in Nat PROVE IsGcd(gcd[<<x, y>>], x, y)
    <3>1. y \in Nat \ {0} /\ x % y \in 0 .. y - 1
      BY DivMod
    <3>2. gcd[<<x, y>>] = IF x % y = 0 THEN y ELSE gcd[<<y, x % y>>]
      BY <3>1, GcdEquation
    <3>3. CASE x % y = 0
      BY <3>1, <3>2, <3>3, GcdOfMultiple
    <3>4. CASE x % y # 0
      <4>1. x % y \in 1 .. n
        BY <3>1, <3>4
      <4>2. IsGcd(gcd[<<y, x % y>>], y, x % y)
        BY <1>2, <3>1, <4>1
      <4> QED
        BY <3>1, <3>2, <3>4, <4>2, GcdOfRemainder
    <3> QED
      BY <3>3, <3>4
  <2> QED
    BY <2>1
<1>3. Nat \subseteq N
  <2> HIDE DEF N
  <2> QED
    BY <1>1, <1>2, Induct
<1> QED
  BY <1>3

-----------------------------------------------------------------------------
(* The positions of a block fall into as many cycles as the gcd says       *)

\* The quotient and the remainder of a multiple and less than one more.
LEMMA DivModOf ==
  ASSUME NEW q \in Nat, NEW b \in Nat \ {0}, NEW r \in 0 .. b - 1
  PROVE  ((b * q) + r) \div b = q /\ ((b * q) + r) % b = r
  OBVIOUS

\* A block from..to-1 that is to be rotated at mid.
IsBlock(from, mid, to) ==
  from \in Nat \ {0} /\ mid \in Nat /\ to \in Nat /\ from < mid /\ mid < to

CycleLen(from, mid, to) == (to - from) \div Cycles(mid - from, to - mid)

Multiple(n, g, m) == n = g * m
Combines(g, x, n, y, b) == g = (x * n) + (y * b)

\* Blocks of a and b words are exchanged in g cycles of L moves.
HasCycles(a, b, g, L) ==
  /\ a \in Nat \ {0} /\ b \in Nat \ {0} /\ g \in Nat \ {0} /\ L \in Nat \ {0}
  /\ Multiple(a + b, g, L)
  /\ g <= b
  /\ \E v \in Nat : Multiple(b, g, v)
  /\ \E x, y \in Int : Combines(g, x, a + b, y, b)

\* Cycles as long as this make up the block, and cannot be shorter.
LEMMA CycleSizes ==
  ASSUME NEW from, NEW mid, NEW to, IsBlock(from, mid, to)
  PROVE  /\ HasCycles(mid - from, to - mid, Cycles(mid - from, to - mid), CycleLen(from, mid, to))
         /\ to - from = Cycles(mid - from, to - mid) * CycleLen(from, mid, to)
<1> DEFINE g == Cycles(mid - from, to - mid)
           L == CycleLen(from, mid, to)
           a == mid - from
           b == to - mid
<1>1. a \in Nat \ {0} /\ b \in Nat \ {0} /\ to - from = a + b
  BY DEF IsBlock
<1>2. L = (a + b) \div g
  BY <1>1 DEF CycleLen
<1>3. IsGcd(g, a, b)
  <2>1. g = gcd[<<a, b>>]
    BY DEF Cycles
  <2> HIDE DEF a, b
  <2> QED
    BY <1>1, <2>1, GcdIsGcd
<1> HIDE DEF a, b, g, L
<1>4. g \in Nat \ {0}
  BY <1>3 DEF IsGcd
<1>5. PICK u, v \in Nat : a = g * u /\ b = g * v
  BY <1>3 DEF IsGcd
<1>6. PICK x, y \in Int : g = (x * a) + (y * b)
  BY <1>3 DEF IsGcd
<1>7. a + b = (g * (u + v)) + 0 /\ u + v \in Nat /\ 0 \in 0 .. g - 1
  BY <1>4, <1>5
<1>8. L = u + v
  <2>1. ((g * (u + v)) + 0) \div g = u + v
    BY <1>4, <1>7, DivModOf
  <2> QED
    BY <1>2, <1>7, <2>1
<1>9. a + b = g * L /\ L \in Nat \ {0}
  <2>1. u # 0
    BY <1>1, <1>4, <1>5
  <2> QED
    BY <1>4, <1>5, <1>7, <1>8, <2>1
<1>10. g <= b
  <2>1. v >= 1
    BY <1>1, <1>4, <1>5
  <2>2. b = g + (g * (v - 1)) /\ g * (v - 1) >= 0
    BY <1>4, <1>5, <2>1
  <2> QED
    BY <1>1, <1>4, <2>2
<1>11. g = (x * (a + b)) + ((y - x) * b) /\ y - x \in Int
  BY <1>1, <1>6
<1>12. \E x1, y1 \in Int : g = (x1 * (a + b)) + (y1 * b)
  BY <1>6, <1>11
<1> QED
  <2>1. HasCycles(a, b, g, L)
    BY <1>1, <1>4, <1>5, <1>9, <1>10, <1>12, Zenon DEF HasCycles, Multiple, Combines
  <2> QED
    BY <1>1, <1>9, <2>1, Zenon DEF a, b, g, L

\* The distance from the start of the block after j moves from mid + i.
Visit(a, b, i, j) == ((a + i) + (j * b)) % (a + b)

\* It stays in the block, and the next is one block of options or operands away.
VisitsOn(a, b, i, j) ==
  /\ Visit(a, b, i, j) \in 0 .. (a + b) - 1
  /\ Visit(a, b, i, j + 1) =
       IF Visit(a, b, i, j) >= a THEN Visit(a, b, i, j) - a ELSE Visit(a, b, i, j) + b

\* That is how a cycle goes on.
LEMMA VisitNext ==
  ASSUME NEW a \in Nat \ {0}, NEW b \in Nat \ {0}, NEW i \in Nat, NEW j \in Nat
  PROVE  VisitsOn(a, b, i, j)
<1> DEFINE m == (a + i) + (j * b)
           n == a + b
           q == m \div n
           r == m % n
<1>1. m \in Nat /\ n \in Nat \ {0}
  OBVIOUS
<1>2. (a + i) + ((j + 1) * b) = m + b
  OBVIOUS
<1>3. r \in 0 .. n - 1 /\ q \in Nat /\ m = (n * q) + r
  <2> HIDE DEF m, n
  <2> QED
    BY <1>1, DivMod, Zenon
<1>4. Visit(a, b, i, j) = r /\ Visit(a, b, i, j + 1) = (m + b) % n
  BY <1>2 DEF Visit
<1>5. n = a + b
  OBVIOUS
<1> HIDE DEF m, n, q, r
<1>6. ASSUME r >= a
      PROVE  /\ Visit(a, b, i, j) \in 0 .. (a + b) - 1
             /\ Visit(a, b, i, j + 1) =
                  IF Visit(a, b, i, j) >= a THEN Visit(a, b, i, j) - a ELSE Visit(a, b, i, j) + b
  <2>1. m + b = (n * (q + 1)) + (r - a) /\ r - a \in 0 .. n - 1 /\ q + 1 \in Nat
    <3>1. n * (q + 1) = (n * q) + n
      BY <1>1, <1>3
    <3> QED
      BY <1>1, <1>3, <1>5, <1>6, <3>1
  <2>2. ((n * (q + 1)) + (r - a)) % n = r - a
    BY <1>1, <2>1, DivModOf
  <2> QED
    BY <1>3, <1>4, <1>5, <1>6, <2>1, <2>2
<1>7. ASSUME r < a
      PROVE  /\ Visit(a, b, i, j) \in 0 .. (a + b) - 1
             /\ Visit(a, b, i, j + 1) =
                  IF Visit(a, b, i, j) >= a THEN Visit(a, b, i, j) - a ELSE Visit(a, b, i, j) + b
  <2>1. m + b = (n * q) + (r + b) /\ r + b \in 0 .. n - 1
    BY <1>1, <1>3, <1>5, <1>7
  <2>2. ((n * q) + (r + b)) % n = r + b
    BY <1>1, <1>3, <2>1, DivModOf
  <2> QED
    BY <1>3, <1>4, <1>5, <1>7, <2>1, <2>2
<1>8. r >= a \/ r < a
  BY <1>3, <1>5
<1>9. /\ Visit(a, b, i, j) \in 0 .. (a + b) - 1
      /\ Visit(a, b, i, j + 1) =
           IF Visit(a, b, i, j) >= a THEN Visit(a, b, i, j) - a ELSE Visit(a, b, i, j) + b
  BY <1>6, <1>7, <1>8
<1> QED
  BY <1>9, Zenon DEF VisitsOn

\* A product of three, either way.
LEMMA TimesAssociates ==
  ASSUME NEW x \in Int, NEW y \in Int, NEW z \in Int
  PROVE  (x * y) * z = x * (y * z)
  OBVIOUS

\* A multiple of g that is nearer to 0 than g is 0.
LEMMA SmallMultiple ==
  ASSUME NEW g \in Nat \ {0}, NEW m \in Int, NEW d \in Int, d = g * m, - g < d, d < g
  PROVE  d = 0
<1>1. CASE m = 0
  BY <1>1
<1>2. CASE m >= 1
  <2>1. g * m = g + (g * (m - 1)) /\ g * (m - 1) >= 0
    BY <1>2
  <2> QED
    BY <2>1
<1>3. CASE m <= - 1
  <2>1. g * m = (- g) - (g * ((- m) - 1)) /\ g * ((- m) - 1) >= 0
    BY <1>3
  <2> QED
    BY <2>1
<1> QED
  BY <1>1, <1>2, <1>3

\* No position is visited twice, by one cycle or by two.
LEMMA VisitOnce ==
  ASSUME NEW a \in Nat \ {0}, NEW b \in Nat \ {0}, NEW g \in Nat \ {0}, NEW L \in Nat \ {0},
         Multiple(a + b, g, L), NEW v \in Nat, Multiple(b, g, v),
         NEW x \in Int, NEW y \in Int, Combines(g, x, a + b, y, b),
         NEW i \in 0 .. g - 1, NEW k \in 0 .. g - 1, NEW j \in 0 .. L - 1, NEW l \in 0 .. L - 1,
         Visit(a, b, i, j) = Visit(a, b, k, l)
  PROVE  i = k /\ j = l
<1> USE DEF Multiple, Combines
<1> DEFINE n == a + b
           q == ((a + i) + (j * b)) \div n
           s == ((a + k) + (l * b)) \div n
<1>1. n \in Nat \ {0} /\ (a + i) + (j * b) \in Nat /\ (a + k) + (l * b) \in Nat
  OBVIOUS
<1>2. /\ q \in Nat /\ (a + i) + (j * b) = (n * q) + Visit(a, b, i, j)
      /\ s \in Nat /\ (a + k) + (l * b) = (n * s) + Visit(a, b, k, l)
      /\ Visit(a, b, i, j) \in Int
  <2>1. /\ q \in Nat /\ (a + i) + (j * b) = (n * q) + (((a + i) + (j * b)) % n)
        /\ s \in Nat /\ (a + k) + (l * b) = (n * s) + (((a + k) + (l * b)) % n)
    <3> HIDE DEF n
    <3> QED
      BY <1>1, DivMod, Zenon
  <2>2. Visit(a, b, i, j) = ((a + i) + (j * b)) % n /\ Visit(a, b, k, l) = ((a + k) + (l * b)) % n
    BY DEF Visit
  <2>3. Visit(a, b, i, j) \in Int
    BY VisitNext DEF VisitsOn
  <2> HIDE DEF n, q, s
  <2> QED
    BY <2>1, <2>2, <2>3, Zenon
<1>3. n = a + b
  OBVIOUS
<1> HIDE DEF n, q, s
<1>4. (i - k) + ((j - l) * b) = n * (q - s)
  <2>1. (j - l) * b = (j * b) - (l * b)
    OBVIOUS
  <2>2. n * (q - s) = (n * q) - (n * s)
    BY <1>1, <1>2
  <2>3. n * q \in Int /\ n * s \in Int /\ j * b \in Int /\ l * b \in Int
    BY <1>1, <1>2
  <2> QED
    BY <1>2, <2>1, <2>2, <2>3
<1>5. i = k
  <2> DEFINE m == (L * (q - s)) - ((j - l) * v)
  <2>1. m \in Int
    BY <1>2
  <2>2. n * (q - s) = g * (L * (q - s))
    <3>1. n = g * L /\ q - s \in Int
      <4>1. q \in Nat /\ s \in Nat
        BY <1>2, Zenon
      <4>2. q - s \in Int
        BY <4>1
      <4> QED
        BY <1>3, <4>2, Zenon
    <3>2. (g * L) * (q - s) = g * (L * (q - s))
      BY <3>1, TimesAssociates
    <3> QED
      BY <3>1, <3>2
  <2>3. (j - l) * b = g * ((j - l) * v)
    OBVIOUS
  <2>4. g * m = (g * (L * (q - s))) - (g * ((j - l) * v))
    BY <1>2
  <2>5. g * (L * (q - s)) \in Int /\ g * ((j - l) * v) \in Int
    BY <1>2
  <2> HIDE DEF m
  <2>6. i - k = g * m
    BY <1>4, <2>2, <2>3, <2>4, <2>5
  <2>7. i - k \in Int /\ - g < i - k /\ i - k < g
    OBVIOUS
  <2>8. i - k = 0
    BY <2>1, <2>6, <2>7, SmallMultiple
  <2> QED
    BY <2>8
<1>6. j = l
  <2> DEFINE m == (x * (j - l)) + (y * (q - s))
  <2>1. m \in Int
    BY <1>2
  <2>2. (j - l) * b = n * (q - s)
    BY <1>4, <1>5
  <2>3. g * (j - l) = n * m
    <3>1. g * (j - l) = ((x * n) + (y * b)) * (j - l)
      BY <1>3
    <3>2. ((x * n) + (y * b)) * (j - l) = (n * (x * (j - l))) + (y * ((j - l) * b))
      BY <1>1
    <3>3. y * ((j - l) * b) = n * (y * (q - s))
      <4>1. y * (n * (q - s)) = n * (y * (q - s))
        BY <1>1, <1>2
      <4> QED
        BY <2>2, <4>1
    <3>4. n * m = (n * (x * (j - l))) + (n * (y * (q - s)))
      BY <1>1, <1>2
    <3> QED
      BY <3>1, <3>2, <3>3, <3>4
  <2>4. g * (j - l) = g * (L * m)
    <3>1. n * m = g * (L * m)
      <4> HIDE DEF m
      <4>1. (g * L) * m = g * (L * m)
        BY <2>1, TimesAssociates
      <4> QED
        BY <1>3, <4>1
    <3> QED
      BY <2>3, <3>1
  <2> HIDE DEF m
  <2>5. j - l = L * m
    <3>1. g * ((j - l) - (L * m)) = 0
      BY <2>1, <2>4
    <3>2. (j - l) - (L * m) = 0
      BY <2>1, <3>1
    <3> QED
      BY <2>1, <3>2
  <2>6. j - l \in Int /\ - L < j - l /\ j - l < L
    OBVIOUS
  <2>7. j - l = 0
    BY <2>1, <2>5, <2>6, SmallMultiple
  <2> QED
    BY <2>7
<1> QED
  BY <1>5, <1>6

\* The moves of the cycles visit no word twice.
LEMMA VisitsDiffer ==
  ASSUME NEW a, NEW b, NEW g, NEW L, HasCycles(a, b, g, L),
         NEW i \in 0 .. g - 1, NEW k \in 0 .. g - 1, NEW j \in 0 .. L - 1, NEW l \in 0 .. L - 1,
         Visit(a, b, i, j) = Visit(a, b, k, l)
  PROVE  i = k /\ j = l
<1>1. a \in Nat \ {0} /\ b \in Nat \ {0} /\ g \in Nat \ {0} /\ L \in Nat \ {0} /\ Multiple(a + b, g, L)
  BY Zenon DEF HasCycles
<1>2. PICK v \in Nat : Multiple(b, g, v)
  BY Zenon DEF HasCycles
<1>3. PICK x, y \in Int : Combines(g, x, a + b, y, b)
  BY Zenon DEF HasCycles
<1> QED
  BY <1>1, <1>2, <1>3, VisitOnce

-----------------------------------------------------------------------------
(* Every position of a block is reached by exactly one cycle               *)

\* Where the k-th exchange moves on from, and where to.
Reached(from, mid, to, k) ==
  from + Visit(mid - from, to - mid, k \div CycleLen(from, mid, to), k % CycleLen(from, mid, to))
\* Where its cycle began, and whether one begins with it.
CycleStart(from, mid, to, k) == mid + (k \div CycleLen(from, mid, to))
Begins(from, mid, to, k) == k % CycleLen(from, mid, to) = 0
Onward(from, mid, to, x) == IF x >= mid THEN x - (mid - from) ELSE x + (to - mid)

\* No two positions are moved to the same one.
LEMMA OnwardOnce ==
  ASSUME NEW from, NEW mid, NEW to, IsBlock(from, mid, to), NEW x \in from .. to - 1
  PROVE  /\ Onward(from, mid, to, x) \in from .. to - 1
         /\ \A y \in from .. to - 1 : Onward(from, mid, to, x) = Onward(from, mid, to, y) => x = y
  BY DEF IsBlock, Onward

\* The moves so far, in cycles that are done and moves along this one.
LEMMA CycleOf ==
  ASSUME NEW g \in Nat \ {0}, NEW L \in Nat \ {0}, NEW k \in 0 .. (g * L) - 1
  PROVE  /\ k \div L \in 0 .. g - 1
         /\ k % L \in 0 .. L - 1
         /\ k = (L * (k \div L)) + (k % L)
         /\ k % L # L - 1 => (k + 1) \div L = k \div L /\ (k + 1) % L = (k % L) + 1
         /\ k % L = L - 1 => (k + 1) % L = 0
<1> DEFINE i == k \div L
           j == k % L
<1>1. k \in Nat /\ k < g * L /\ g * L \in Nat
  OBVIOUS
<1>2. i \in Nat /\ j \in 0 .. L - 1 /\ k = (L * i) + j
  BY <1>1, DivMod, Zenon
<1> HIDE DEF i, j
<1>3. i \in 0 .. g - 1
  <2>1. SUFFICES ASSUME i >= g PROVE FALSE
    BY <1>2
  <2>2. L * i = (g * L) + (L * (i - g)) /\ L * (i - g) >= 0
    BY <1>2, <2>1
  <2> QED
    BY <1>1, <1>2, <2>2
<1>4. j # L - 1 => (k + 1) \div L = i /\ (k + 1) % L = j + 1
  <2>1. SUFFICES ASSUME j # L - 1 PROVE (k + 1) \div L = i /\ (k + 1) % L = j + 1
    OBVIOUS
  <2>2. j + 1 \in 0 .. L - 1
    BY <1>2, <2>1
  <2>3. k + 1 = (L * i) + (j + 1)
    BY <1>2
  <2>4. ((L * i) + (j + 1)) \div L = i /\ ((L * i) + (j + 1)) % L = j + 1
    BY <1>2, <2>2, DivModOf, Zenon
  <2> QED
    BY <2>3, <2>4, Zenon
<1>5. j = L - 1 => (k + 1) % L = 0
  <2>1. SUFFICES ASSUME j = L - 1 PROVE (k + 1) % L = 0
    OBVIOUS
  <2>2. 0 \in 0 .. L - 1 /\ i + 1 \in Nat
    BY <1>2
  <2>3. k + 1 = (L * (i + 1)) + 0
    BY <1>2, <2>1
  <2>4. ((L * (i + 1)) + 0) % L = 0
    BY <2>2, DivModOf, Zenon
  <2> QED
    BY <2>3, <2>4, Zenon
<1> QED
  BY <1>2, <1>3, <1>4, <1>5, Zenon DEF i, j

\* Each exchange but the last of a cycle moves on to where the next one starts
\* from; the last returns to where the cycle began.
LEMMA ReachedNext ==
  ASSUME NEW from, NEW mid, NEW to, IsBlock(from, mid, to), NEW k \in 0 .. (to - from) - 1
  PROVE  /\ Reached(from, mid, to, k) \in from .. to - 1
         /\ CycleStart(from, mid, to, k) \in from .. to - 1
         /\ Begins(from, mid, to, k) => Reached(from, mid, to, k) = CycleStart(from, mid, to, k)
         /\ ~Begins(from, mid, to, k + 1) =>
              /\ Onward(from, mid, to, Reached(from, mid, to, k)) = Reached(from, mid, to, k + 1)
              /\ CycleStart(from, mid, to, k + 1) = CycleStart(from, mid, to, k)
         /\ Begins(from, mid, to, k + 1) =>
              Onward(from, mid, to, Reached(from, mid, to, k)) = CycleStart(from, mid, to, k)
<1> DEFINE a == mid - from
           b == to - mid
           g == Cycles(a, b)
           L == CycleLen(from, mid, to)
           i == k \div L
           j == k % L
<1>0. HasCycles(a, b, g, L) /\ to - from = g * L
  BY CycleSizes, Zenon
<1>1. g \in Nat \ {0} /\ L \in Nat \ {0} /\ g <= b /\ to - from = g * L
  BY <1>0, Zenon DEF HasCycles
<1>2. PICK v \in Nat : b = g * v
  BY <1>0, Zenon DEF HasCycles, Multiple
<1>3. a \in Nat \ {0} /\ b \in Nat \ {0} /\ to - from = a + b /\ from \in Nat /\ mid = from + a /\ to = from + (a + b)
  BY DEF IsBlock
<1>4. /\ i \in 0 .. g - 1 /\ j \in 0 .. L - 1
      /\ j # L - 1 => (k + 1) \div L = i /\ (k + 1) % L = j + 1
      /\ j = L - 1 => (k + 1) % L = 0
  <2>1. k \in 0 .. (g * L) - 1
    BY <1>1, Zenon
  <2> HIDE DEF a, b, g, L
  <2> QED
    BY <1>1, <2>1, CycleOf, Zenon
<1>5. Reached(from, mid, to, k) = from + Visit(a, b, i, j)
  BY DEF Reached
<1>6. j # L - 1 => Reached(from, mid, to, k + 1) = from + Visit(a, b, i, j + 1)
  BY <1>4 DEF Reached
<1> HIDE DEF a, b, g, L, i, j
<1>7. /\ Visit(a, b, i, j) \in 0 .. (a + b) - 1
      /\ Visit(a, b, i, j + 1) = IF Visit(a, b, i, j) >= a THEN Visit(a, b, i, j) - a ELSE Visit(a, b, i, j) + b
  <2>1. i \in Nat /\ j \in Nat /\ a \in Nat \ {0} /\ b \in Nat \ {0}
    BY <1>1, <1>3, <1>4
  <2> QED
    <3>1. VisitsOn(a, b, i, j)
      BY <2>1, VisitNext, Zenon
    <3> QED
      BY <3>1, Zenon DEF VisitsOn
<1>8. Visit(a, b, i, 0) = a + i /\ Visit(a, b, i, L) = a + i
  <2>1. /\ (a + i) + (0 * b) = ((a + b) * 0) + (a + i)
        /\ (a + i) + (L * b) = ((a + b) * v) + (a + i)
    <3>1. a + b = L * g
      BY <1>1, <1>3
    <3>2. (L * g) * v = L * (g * v)
      BY <1>1, <1>2, TimesAssociates
    <3>3. (a + b) * v = L * b
      BY <1>2, <3>1, <3>2
    <3>4. L * b \in Int /\ (a + b) * 0 = 0 /\ 0 * b = 0 /\ a + i \in Int
      BY <1>1, <1>3, <1>4
    <3> QED
      BY <3>3, <3>4
  <2>2. a + i \in 0 .. (a + b) - 1 /\ a + b \in Nat \ {0}
    BY <1>1, <1>3, <1>4
  <2>3. (((a + b) * 0) + (a + i)) % (a + b) = a + i /\ (((a + b) * v) + (a + i)) % (a + b) = a + i
    BY <2>2, DivModOf
  <2> QED
    BY <2>1, <2>3 DEF Visit
<1>9. Onward(from, mid, to, from + Visit(a, b, i, j)) = from + Visit(a, b, i, j + 1)
  BY <1>3, <1>7 DEF Onward
<1>10. mid + i \in from .. to - 1
  BY <1>1, <1>3, <1>4
<1>11. from + Visit(a, b, i, j) \in from .. to - 1
  BY <1>3, <1>7
<1>12. CASE j = L - 1
  <2>1. j + 1 = L /\ (k + 1) % L = 0
    BY <1>1, <1>4, <1>12
  <2>2. Onward(from, mid, to, from + Visit(a, b, i, j)) = mid + i
    BY <1>3, <1>4, <1>8, <1>9, <2>1
  <2>3. j = 0 => from + Visit(a, b, i, j) = mid + i
    BY <1>3, <1>4, <1>8
  <2> QED
    BY <1>5, <1>10, <1>11, <1>12, <2>1, <2>2, <2>3, Zenon DEF L, i, j, CycleStart, Begins
<1>13. CASE j # L - 1
  <2>1. (k + 1) \div L = i /\ (k + 1) % L # 0
    BY <1>1, <1>4, <1>13
  <2>2. j = 0 => from + Visit(a, b, i, j) = mid + i
    BY <1>3, <1>4, <1>8
  <2> QED
    BY <1>5, <1>6, <1>9, <1>10, <1>11, <1>13, <2>1, <2>2, Zenon DEF L, i, j, CycleStart, Begins
<1> QED
  BY <1>12, <1>13

\* No two exchanges reach the same position.
LEMMA ReachedOnce ==
  ASSUME NEW from, NEW mid, NEW to, IsBlock(from, mid, to),
         NEW k \in 0 .. (to - from) - 1, NEW l \in 0 .. (to - from) - 1,
         Reached(from, mid, to, k) = Reached(from, mid, to, l)
  PROVE  k = l
<1> DEFINE a == mid - from
           b == to - mid
           g == Cycles(a, b)
           L == CycleLen(from, mid, to)
<1>1. HasCycles(a, b, g, L) /\ to - from = g * L
  BY CycleSizes, Zenon
<1>2. g \in Nat \ {0} /\ L \in Nat \ {0}
  BY <1>1, Zenon DEF HasCycles
<1>4. a \in Nat \ {0} /\ b \in Nat \ {0} /\ to - from = a + b /\ from \in Nat
  BY DEF IsBlock
<1>5. /\ k \div L \in 0 .. g - 1 /\ k % L \in 0 .. L - 1 /\ k = (L * (k \div L)) + (k % L)
      /\ l \div L \in 0 .. g - 1 /\ l % L \in 0 .. L - 1 /\ l = (L * (l \div L)) + (l % L)
  <2>1. k \in 0 .. (g * L) - 1 /\ l \in 0 .. (g * L) - 1
    BY <1>1, Zenon
  <2> HIDE DEF a, b, g, L
  <2> QED
    BY <1>2, <2>1, CycleOf, Zenon
<1>6. /\ Reached(from, mid, to, k) = from + Visit(a, b, k \div L, k % L)
      /\ Reached(from, mid, to, l) = from + Visit(a, b, l \div L, l % L)
  BY DEF Reached
<1> HIDE DEF a, b, g, L
<1>7. Visit(a, b, k \div L, k % L) \in Int /\ Visit(a, b, l \div L, l % L) \in Int
  <2>1. k \div L \in Nat /\ k % L \in Nat /\ l \div L \in Nat /\ l % L \in Nat
    BY <1>2, <1>5
  <2>2. /\ Visit(a, b, k \div L, k % L) \in 0 .. (a + b) - 1
        /\ Visit(a, b, l \div L, l % L) \in 0 .. (a + b) - 1
    <3>1. VisitsOn(a, b, k \div L, k % L) /\ VisitsOn(a, b, l \div L, l % L)
      BY <1>4, <2>1, VisitNext, Zenon
    <3> QED
      BY <3>1, Zenon DEF VisitsOn
  <2> QED
    BY <2>2
<1>8. Visit(a, b, k \div L, k % L) = Visit(a, b, l \div L, l % L)
  <2> DEFINE p == Visit(a, b, k \div L, k % L)
             q == Visit(a, b, l \div L, l % L)
  <2>1. from + p = from + q
    BY <1>6, Zenon
  <2>2. p \in Int /\ q \in Int
    BY <1>7, Zenon
  <2> HIDE DEF p, q
  <2>3. p = q
    BY <1>4, <2>1, <2>2
  <2> QED
    BY <2>3, Zenon DEF p, q
<1>10. k \div L = l \div L /\ k % L = l % L
  <2> DEFINE i == k \div L
             j == k % L
             h == l \div L
             m == l % L
  <2>1. /\ i \in 0 .. g - 1 /\ h \in 0 .. g - 1 /\ j \in 0 .. L - 1 /\ m \in 0 .. L - 1
        /\ Visit(a, b, i, j) = Visit(a, b, h, m)
    BY <1>5, <1>8, Zenon
  <2> HIDE DEF i, j, h, m
  <2>3. i = h /\ j = m
    BY <1>1, <2>1, VisitsDiffer
  <2> QED
    BY <2>3, Zenon DEF i, j, h, m
<1> QED
  BY <1>5, <1>10

\* So they start from every word of the block.
LEMMA ReachedAll ==
  ASSUME NEW from, NEW mid, NEW to, IsBlock(from, mid, to), NEW x \in from .. to - 1
  PROVE  \E k \in 0 .. (to - from) - 1 : x = Reached(from, mid, to, k)
<1> DEFINE S == 0 .. (to - from) - 1
           T == from .. to - 1
           f == [k \in S |-> Reached(from, mid, to, k)]
<1>1. f \in [S -> T]
  BY ReachedNext
<1>2. \A k, l \in S : f[k] = f[l] => k = l
  BY ReachedOnce
<1>3. f \in Injection(S, T)
  <2> HIDE DEF f, S, T
  <2> QED
    BY <1>1, <1>2 DEF Injection, IsInjective
<1>4. IsFiniteSet(T) /\ Cardinality(S) = Cardinality(T)
  <2>1. from \in Int /\ to \in Int /\ to - 1 \in Int /\ 0 \in Int /\ (to - from) - 1 \in Int /\ to > from
    BY DEF IsBlock
  <2>2. Cardinality(S) = (IF 0 > (to - from) - 1 THEN 0 ELSE ((to - from) - 1) - 0 + 1)
    BY <2>1, FS_Interval
  <2>3. IsFiniteSet(T) /\ Cardinality(T) = (IF from > to - 1 THEN 0 ELSE (to - 1) - from + 1)
    BY <2>1, FS_Interval
  <2>4. ~(0 > (to - from) - 1) /\ ~(from > to - 1) /\ ((to - from) - 1) - 0 + 1 = (to - 1) - from + 1
    BY <2>1
  <2> HIDE DEF S, T
  <2> QED
    BY <2>2, <2>3, <2>4, Zenon
<1>5. f \in Surjection(S, T)
  <2> HIDE DEF f, S, T
  <2> QED
    BY <1>3, <1>4, FS_Injection
<1>6. \E k \in S : f[k] = x
  BY <1>5 DEF Surjection
<1> QED
  BY <1>6

-----------------------------------------------------------------------------
(* What the exchanges have moved after some of them                        *)

\* Where the cycle ends that the k-th exchange is part of.
LEMMA CycleEnds ==
  ASSUME NEW from, NEW mid, NEW to, IsBlock(from, mid, to), NEW k \in 0 .. (to - from) - 1
  PROVE  \E e \in k .. (to - from) - 1 :
           /\ Onward(from, mid, to, Reached(from, mid, to, e)) = CycleStart(from, mid, to, k)
           /\ ~Begins(from, mid, to, k + 1) => e # k
<1> DEFINE g == Cycles(mid - from, to - mid)
           L == CycleLen(from, mid, to)
           i == k \div L
           j == k % L
           e == (L * i) + (L - 1)
<1>1. HasCycles(mid - from, to - mid, g, L) /\ to - from = g * L
  BY CycleSizes, Zenon
<1>2. g \in Nat \ {0} /\ L \in Nat \ {0}
  BY <1>1, Zenon DEF HasCycles
<1>3. i \in 0 .. g - 1 /\ j \in 0 .. L - 1 /\ k = (L * i) + j
  <2>1. k \in 0 .. (g * L) - 1
    BY <1>1, Zenon
  <2> HIDE DEF g
  <2> QED
    BY <1>2, <2>1, CycleOf, Zenon
<1> HIDE DEF g, L, i, j
<1>4. i \in Nat /\ L - 1 \in 0 .. L - 1
  BY <1>2, <1>3
<1>5. e \div L = i /\ e % L = L - 1
  BY <1>2, <1>4, DivModOf, Zenon
<1>6. k <= e /\ e < g * L /\ e \in Nat
  <2>1. (g * L) - (L * (i + 1)) = L * (g - (i + 1)) /\ L * (g - (i + 1)) >= 0 /\ L * (i + 1) = (L * i) + L
    BY <1>2, <1>3
  <2> QED
    BY <1>2, <1>3, <2>1
<1>7. e \in 0 .. (g * L) - 1 /\ g * L \in Nat
  BY <1>2, <1>6
<1>8. (e + 1) % L = 0
  BY <1>2, <1>5, <1>7, CycleOf, Zenon
<1>9. e \in 0 .. (to - from) - 1 /\ e \in k .. (to - from) - 1
  BY <1>1, <1>6, <1>7
<1> HIDE DEF e
<1>10. Onward(from, mid, to, Reached(from, mid, to, e)) = CycleStart(from, mid, to, e)
  <2>1. Begins(from, mid, to, e + 1)
    BY <1>8, Zenon DEF Begins, L
  <2> QED
    BY <1>9, <2>1, ReachedNext, Zenon
<1>11. CycleStart(from, mid, to, e) = CycleStart(from, mid, to, k)
  BY <1>5, Zenon DEF CycleStart, L, i
<1>12. e = k => Begins(from, mid, to, k + 1)
  BY <1>8, Zenon DEF Begins, L
<1> QED
  BY <1>9, <1>10, <1>11, <1>12, Zenon

\* Until then nothing moves to where it began.
LEMMA CycleOpen ==
  ASSUME NEW from, NEW mid, NEW to, IsBlock(from, mid, to), NEW k \in 0 .. (to - from) - 1, NEW l \in 0 .. k,
         Onward(from, mid, to, Reached(from, mid, to, l)) = CycleStart(from, mid, to, k)
  PROVE  l = k /\ Begins(from, mid, to, k + 1)
<1>1. PICK e \in k .. (to - from) - 1 :
           /\ Onward(from, mid, to, Reached(from, mid, to, e)) = CycleStart(from, mid, to, k)
           /\ ~Begins(from, mid, to, k + 1) => e # k
  BY CycleEnds
<1>2. to - from \in Int
  BY DEF IsBlock
<1>3. l \in 0 .. (to - from) - 1 /\ e \in 0 .. (to - from) - 1
  BY <1>2
<1>4. Reached(from, mid, to, l) \in from .. to - 1 /\ Reached(from, mid, to, e) \in from .. to - 1
  BY <1>3, ReachedNext, Zenon
<1>5. Reached(from, mid, to, l) = Reached(from, mid, to, e)
  BY <1>1, <1>4, OnwardOnce, Zenon
<1>6. l = e
  BY <1>3, <1>5, ReachedOnce, Zenon
<1>7. l = k
  BY <1>2, <1>6
<1> QED
  BY <1>1, <1>6, <1>7

\* No two exchanges fill the same position.
LEMMA OnwardsDiffer ==
  ASSUME NEW from, NEW mid, NEW to, IsBlock(from, mid, to),
         NEW k \in 0 .. (to - from) - 1, NEW l \in 0 .. (to - from) - 1,
         Onward(from, mid, to, Reached(from, mid, to, k)) = Onward(from, mid, to, Reached(from, mid, to, l))
  PROVE  k = l
<1>1. Reached(from, mid, to, k) \in from .. to - 1 /\ Reached(from, mid, to, l) \in from .. to - 1
  BY ReachedNext, Zenon
<1>2. Reached(from, mid, to, k) = Reached(from, mid, to, l)
  BY <1>1, OnwardOnce, Zenon
<1> QED
  BY <1>2, ReachedOnce, Zenon

\* The words after k exchanges: those that exchanges have moved on are where
\* they belong, and the one to move next is where the cycle began.
Exchanged(from, mid, to, words, at, k) ==
  LET To(l) == Onward(from, mid, to, Reached(from, mid, to, l))
  IN /\ ~Begins(from, mid, to, k) => at.pos = Reached(from, mid, to, k)
     /\ k < to - from => at.words[CycleStart(from, mid, to, k)] = words[Reached(from, mid, to, k)]
     /\ \A l \in 0 .. k - 1 : at.words[To(l)] = words[Reached(from, mid, to, l)]
     /\ \A x \in DOMAIN words :
          (k < to - from => x # CycleStart(from, mid, to, k)) /\ (\A l \in 0 .. k - 1 : x # To(l))
            => at.words[x] = words[x]

Moves(from, to, n, D) == [pos : from .. to - 1, words : [1 .. n -> D]]

\* Where the next exchange moves on from.
Swapped(at, y, c) ==
  [pos |-> y, words |-> [at.words EXCEPT ![y] = at.words[c], ![c] = at.words[y]]]
MovesFrom(from, mid, to, at, k) == IF Begins(from, mid, to, k) THEN CycleStart(from, mid, to, k) ELSE at.pos

\* getopt_long.c:172, one exchange.
LEMMA SwapIs ==
  ASSUME NEW from, NEW mid, NEW to, IsBlock(from, mid, to), NEW n \in Nat, to <= n + 1, NEW D,
         NEW at \in Moves(from, to, n, D), NEW k \in 0 .. (to - from) - 1
  PROVE  /\ MovesFrom(from, mid, to, at, k) \in from .. to - 1
         /\ Swap(from, mid, to, at, k + 1) =
              Swapped(at, Onward(from, mid, to, MovesFrom(from, mid, to, at, k)), CycleStart(from, mid, to, k))
         /\ Swap(from, mid, to, at, k + 1) \in Moves(from, to, n, D)
<1> DEFINE c == CycleStart(from, mid, to, k)
           last == MovesFrom(from, mid, to, at, k)
           y == Onward(from, mid, to, last)
<1>1. c \in from .. to - 1
  BY ReachedNext, Zenon
<1>2. last \in from .. to - 1
  <2> HIDE DEF c
  <2>1. last = IF Begins(from, mid, to, k) THEN c ELSE at.pos
    BY Zenon DEF c, MovesFrom
  <2>2. at.pos \in from .. to - 1
    BY DEF Moves
  <2> QED
    BY <1>1, <2>1, <2>2, Zenon
<1>3. y \in from .. to - 1
  BY <1>2, OnwardOnce, Zenon
<1>4. (k + 1) - 1 = k
  BY DEF IsBlock
<1>5. Swap(from, mid, to, at, k + 1) = Swapped(at, y, c)
  BY <1>4, Zenon DEF Swap, Swapped, MovesFrom, Onward, Begins, CycleStart, CycleLen
<1>6. from .. to - 1 \subseteq 1 .. n
  BY DEF IsBlock
<1>7. at.words \in [1 .. n -> D]
  BY DEF Moves
<1>8. Swapped(at, y, c) \in Moves(from, to, n, D)
  <2> HIDE DEF c, y
  <2>1. c \in 1 .. n /\ y \in 1 .. n
    BY <1>1, <1>3, <1>6
  <2>2. at.words[c] \in D /\ at.words[y] \in D
    BY <1>7, <2>1
  <2>3. [at.words EXCEPT ![y] = at.words[c], ![c] = at.words[y]] \in [1 .. n -> D]
    BY <1>7, <2>2
  <2> QED
    BY <1>3, <2>3 DEF Moves, Swapped
<1> QED
  BY <1>2, <1>5, <1>8, Zenon

\* One exchange more keeps what the earlier ones have moved.
LEMMA SwapExchanges ==
  ASSUME NEW from, NEW mid, NEW to, IsBlock(from, mid, to), NEW n \in Nat, to <= n + 1, NEW D,
         NEW words \in [1 .. n -> D],
         NEW at \in Moves(from, to, n, D), NEW k \in 0 .. (to - from) - 1,
         Exchanged(from, mid, to, words, at, k)
  PROVE  Exchanged(from, mid, to, words, Swap(from, mid, to, at, k + 1), k + 1)
<1> DEFINE To(l) == Onward(from, mid, to, Reached(from, mid, to, l))
           c == CycleStart(from, mid, to, k)
           x == Reached(from, mid, to, k)
           y == To(k)
           last == MovesFrom(from, mid, to, at, k)
           next == Swap(from, mid, to, at, k + 1)
           N == to - from
<1>0. N \in Nat /\ k \in Nat /\ k < N /\ from .. to - 1 \subseteq 1 .. n /\ DOMAIN words = 1 .. n
  BY DEF IsBlock
<1>1. /\ ~Begins(from, mid, to, k) => at.pos = x
      /\ at.words[c] = words[x]
      /\ \A l \in 0 .. k - 1 : at.words[To(l)] = words[Reached(from, mid, to, l)]
      /\ \A z \in 1 .. n : z # c /\ (\A l \in 0 .. k - 1 : z # To(l)) => at.words[z] = words[z]
  BY <1>0, Zenon DEF Exchanged
<1>2. /\ x \in from .. to - 1 /\ c \in from .. to - 1
      /\ Begins(from, mid, to, k) => x = c
      /\ ~Begins(from, mid, to, k + 1) => y = Reached(from, mid, to, k + 1) /\ CycleStart(from, mid, to, k + 1) = c
      /\ Begins(from, mid, to, k + 1) => y = c
  BY ReachedNext, Zenon
<1>3. last = x
  BY <1>1, <1>2, Zenon DEF MovesFrom
<1>4. next = Swapped(at, y, c)
  <2>1. next = Swapped(at, Onward(from, mid, to, last), c)
    BY SwapIs, Zenon
  <2> QED
    BY <1>3, <2>1, Zenon
<1>5. y \in from .. to - 1
  BY <1>2, OnwardOnce, Zenon
<1>6. \A l \in 0 .. k - 1 : To(l) # y /\ To(l) # c
  <2>1. SUFFICES ASSUME NEW l \in 0 .. k - 1 PROVE To(l) # y /\ To(l) # c
    BY Zenon
  <2>2. l \in 0 .. k /\ l \in 0 .. (to - from) - 1 /\ l # k
    BY <1>0
  <2>3. To(l) # y
    BY <2>2, OnwardsDiffer, Zenon
  <2>4. To(l) # c
    BY <2>2, CycleOpen, Zenon
  <2> QED
    BY <2>3, <2>4
<1>7. at.words \in [1 .. n -> D]
  BY DEF Moves
<1>8. 0 .. (k + 1) - 1 = (0 .. k - 1) \cup {k}
  BY <1>0
<1>9. /\ next.words[c] = at.words[y] /\ next.words[y] = at.words[c] /\ next.pos = y
      /\ \A z \in 1 .. n : z # c /\ z # y => next.words[z] = at.words[z]
  <2> HIDE DEF next, c, y, x
  <2>1. c \in 1 .. n /\ y \in 1 .. n
    BY <1>0, <1>2, <1>5
  <2> QED
    BY <1>4, <1>7, <2>1 DEF Swapped
<1>10. \A l \in 0 .. k - 1 : To(l) \in 1 .. n
  <2>1. SUFFICES ASSUME NEW l \in 0 .. k - 1 PROVE To(l) \in from .. to - 1
    BY <1>0
  <2>2. l \in 0 .. (to - from) - 1
    BY <1>0
  <2> QED
    BY <2>2, ReachedNext, OnwardOnce, Zenon
<1>11. \A l \in 0 .. (k + 1) - 1 : next.words[To(l)] = words[Reached(from, mid, to, l)]
  <2>1. \A l \in 0 .. k - 1 : next.words[To(l)] = words[Reached(from, mid, to, l)]
    BY <1>1, <1>6, <1>9, <1>10, Zenon
  <2>2. next.words[To(k)] = words[Reached(from, mid, to, k)]
    BY <1>1, <1>9, Zenon
  <2> HIDE DEF next, To
  <2> QED
    BY <1>8, <2>1, <2>2
<1>12. CASE ~Begins(from, mid, to, k + 1)
  <2>1. y # c
    <3>1. k \in 0 .. k
      BY <1>0
    <3> QED
      BY <1>12, <3>1, CycleOpen, Zenon
  <2>2. at.words[y] = words[y]
    <3>1. y \in 1 .. n
      BY <1>0, <1>5
    <3> QED
      BY <1>1, <1>6, <2>1, <3>1, Zenon
  <2>3. CycleStart(from, mid, to, k + 1) = c /\ next.pos = Reached(from, mid, to, k + 1)
    BY <1>2, <1>9, <1>12, Zenon
  <2>4. next.words[CycleStart(from, mid, to, k + 1)] = words[Reached(from, mid, to, k + 1)]
    BY <1>2, <1>9, <1>12, <2>2, <2>3, Zenon
  <2>5. k + 1 < to - from
    <3>1. PICK e \in k .. (to - from) - 1 : ~Begins(from, mid, to, k + 1) => e # k
      BY CycleEnds
    <3>2. e # k
      BY <1>12, <3>1, Zenon
    <3> QED
      BY <1>0, <3>2
  <2>6. ASSUME NEW z \in 1 .. n, z # c, \A l \in 0 .. (k + 1) - 1 : z # To(l)
        PROVE  next.words[z] = words[z]
    <3>1. z # y /\ \A l \in 0 .. k - 1 : z # To(l)
      <4> HIDE DEF To
      <4> QED
        BY <1>8, <2>6
    <3> QED
      BY <1>1, <1>9, <2>6, <3>1, Zenon
  <2> QED
    BY <1>0, <1>11, <2>3, <2>4, <2>5, <2>6, Zenon DEF Exchanged
<1>13. CASE Begins(from, mid, to, k + 1)
  <2>1. y = c
    BY <1>2, <1>13, Zenon
  <2>2. \A z \in 1 .. n : next.words[z] = at.words[z]
    BY <1>9, <2>1, Zenon
  <2>3. ASSUME NEW z \in 1 .. n, \A l \in 0 .. (k + 1) - 1 : z # To(l)
        PROVE  next.words[z] = words[z]
    <3>1. z # y /\ \A l \in 0 .. k - 1 : z # To(l)
      <4> HIDE DEF To
      <4> QED
        BY <1>8, <2>3
    <3> QED
      BY <1>1, <2>1, <2>2, <3>1, Zenon
  <2>4. ASSUME k + 1 < to - from
        PROVE  next.words[CycleStart(from, mid, to, k + 1)] = words[Reached(from, mid, to, k + 1)]
    <3>1. k + 1 \in 0 .. (to - from) - 1
      BY <1>0, <2>4
    <3>2. /\ CycleStart(from, mid, to, k + 1) \in from .. to - 1
          /\ Reached(from, mid, to, k + 1) = CycleStart(from, mid, to, k + 1)
      BY <1>13, <3>1, ReachedNext, Zenon
    <3>3. \A l \in 0 .. (k + 1) - 1 : CycleStart(from, mid, to, k + 1) # To(l)
      <4>1. SUFFICES ASSUME NEW l \in 0 .. (k + 1) - 1 PROVE To(l) # CycleStart(from, mid, to, k + 1)
        BY Zenon
      <4>2. l \in 0 .. k + 1 /\ l # k + 1
        BY <1>0
      <4> QED
        BY <3>1, <4>2, CycleOpen, Zenon
    <3>4. CycleStart(from, mid, to, k + 1) \in 1 .. n
      BY <1>0, <3>2, Zenon
    <3> QED
      BY <2>3, <3>2, <3>3, <3>4, Zenon
  <2> QED
    BY <1>0, <1>11, <1>13, <2>3, <2>4, Zenon DEF Exchanged
<1> QED
  BY <1>12, <1>13

-----------------------------------------------------------------------------
(* permute_args rotates the block                                          *)

SwapFn(from, mid, to, n, D) ==
  [x \in Moves(from, to, n, D) \X (1 .. to - from) |-> Swap(from, mid, to, x[1], x[2])]

\* The step of the fold of permute_args, as a function.
LEMMA SwapStep ==
  ASSUME NEW from, NEW mid, NEW to, IsBlock(from, mid, to), NEW n \in Nat, to <= n + 1, NEW D
  PROVE  /\ IsStep(SwapFn(from, mid, to, n, D), Moves(from, to, n, D), 1 .. to - from)
         /\ \A at \in Moves(from, to, n, D), k \in 1 .. to - from :
              SwapFn(from, mid, to, n, D)[<<at, k>>] = Swap(from, mid, to, at, k)
<1>1. ASSUME NEW at \in Moves(from, to, n, D), NEW k \in 1 .. to - from
      PROVE  Swap(from, mid, to, at, k) \in Moves(from, to, n, D)
  <2>1. k - 1 \in 0 .. (to - from) - 1 /\ (k - 1) + 1 = k
    BY DEF IsBlock
  <2>2. Swap(from, mid, to, at, (k - 1) + 1) \in Moves(from, to, n, D)
    BY <2>1, SwapIs, Zenon
  <2> QED
    BY <2>1, <2>2, Zenon
<1> DEFINE V == Moves(from, to, n, D)
           K == 1 .. to - from
<1> HIDE DEF V, K
<1>2. \A at \in V, k \in K : Swap(from, mid, to, at, k) \in V
  BY <1>1 DEF V, K
<1>3. SwapFn(from, mid, to, n, D) = [x \in V \X K |-> Swap(from, mid, to, x[1], x[2])]
  BY DEF SwapFn, V, K
<1>4. /\ IsStep(SwapFn(from, mid, to, n, D), V, K)
      /\ \A at \in V, k \in K : SwapFn(from, mid, to, n, D)[<<at, k>>] = Swap(from, mid, to, at, k)
  BY <1>2, <1>3 DEF IsStep
<1> QED
  BY <1>4 DEF V, K

UpTo(n) == [k \in 1 .. n |-> k]

\* The numbers the fold runs over.
LEMMA UpToIs ==
  ASSUME NEW n \in Nat
  PROVE  UpTo(n) \in Seq(1 .. n) /\ Len(UpTo(n)) = n /\ \A k \in 1 .. n : UpTo(n)[k] = k
  BY DEF UpTo

\* A run of the exchanges.
LEMMA SwapRun ==
  ASSUME NEW from, NEW mid, NEW to, IsBlock(from, mid, to), NEW n \in Nat, to <= n + 1, NEW D,
         NEW words \in [1 .. n -> D]
  PROVE  \E g : /\ Folding(g, Moves(from, to, n, D), SwapFn(from, mid, to, n, D),
                           [pos |-> mid, words |-> words], UpTo(to - from))
                /\ permute_args(from, mid, to, words) = g[to - from].words
<1> DEFINE V == Moves(from, to, n, D)
           K == 1 .. to - from
           h == SwapFn(from, mid, to, n, D)
           base == [pos |-> mid, words |-> words]
           path == UpTo(to - from)
           P(f) == f = [s \in SUBSET DOMAIN path |->
                          IF s = {} THEN base ELSE Swap(from, mid, to, f[s \ {Max(s)}], path[Max(s)])]
<1>0. path \in Seq(K) /\ Len(path) = to - from /\ DOMAIN path = 1 .. to - from
  <2>1. to - from \in Nat
    BY DEF IsBlock
  <2> QED
    BY <2>1, UpToIs DEF UpTo
<1>1. \A s \in SUBSET DOMAIN path : s # {} => path[Max(s)] \in K
  <2> HIDE DEF path, K
  <2> QED
    BY <1>0, LastPosition
<1>2. /\ base \in V /\ IsStep(h, V, K)
      /\ \A at \in V, k \in K : h[<<at, k>>] = Swap(from, mid, to, at, k)
  <2>1. base \in V
    BY DEF Moves, IsBlock
  <2> QED
    BY <2>1, SwapStep
<1>3. permute_args(from, mid, to, words) = (CHOOSE f : P(f))[DOMAIN path].words
  <2> DEFINE ncycle == Cycles(mid - from, to - mid)
  <2>1. ncycle * ((to - from) \div ncycle) = to - from
    BY CycleSizes, Zenon DEF CycleLen
  <2>2. [k \in 1 .. ncycle * ((to - from) \div ncycle) |-> k] = path
    <3> HIDE DEF ncycle
    <3> QED
      BY <2>1, Zenon DEF UpTo
  <2> HIDE DEF path
  <2> QED
    BY <2>2 DEF permute_args, FoldLeft, MapThenFoldSet
<1> HIDE DEF V, K, h, base, path
<1>4. \E f : P(f)
  <2>1. PICK x : FoldTo(x, V, h, base, path, Len(path))
    BY <1>0, <1>2, FoldExists
  <2>2. DOMAIN path = 1 .. Len(path)
    BY <1>0
  <2>3. ASSUME NEW s \in SUBSET DOMAIN path
        PROVE  x[s] = IF s = {} THEN base ELSE Swap(from, mid, to, x[s \ {Max(s)}], path[Max(s)])
    <3>1. s \ {Max(s)} \in SUBSET DOMAIN path
      OBVIOUS
    <3>2. x[s] = FoldAt(x, h, base, path, s) /\ x[s \ {Max(s)}] \in V
      BY <2>1, <2>2, <3>1 DEF FoldTo
    <3> QED
      BY <1>1, <1>2, <3>2 DEF FoldAt
  <2>4. x = [s \in SUBSET DOMAIN path |-> x[s]]
    BY <2>1, <2>2 DEF FoldTo
  <2>5. P(x)
    BY <2>3, <2>4
  <2> QED
    BY <2>5
<1>5. PICK it : P(it) /\ permute_args(from, mid, to, words) = it[DOMAIN path].words
  <2> DEFINE f == CHOOSE f : P(f)
  <2>1. P(f)
    BY <1>4
  <2>2. permute_args(from, mid, to, words) = f[DOMAIN path].words
    BY <1>3
  <2> HIDE DEF f
  <2> QED
    BY <2>1, <2>2
<1>6. Obeys(it, V, h, base, path)
  <2>1. ASSUME NEW s \in SUBSET DOMAIN path, s # {}, it[s \ {Max(s)}] \in V
        PROVE  it[s] = FoldAt(it, h, base, path, s)
    <3>1. it[s] = Swap(from, mid, to, it[s \ {Max(s)}], path[Max(s)])
      BY <1>5, <2>1
    <3> QED
      BY <1>1, <1>2, <2>1, <3>1 DEF FoldAt
  <2>2. it[{}] = base
    BY <1>5
  <2> QED
    BY <2>1, <2>2 DEF Obeys
<1>7. \E g : Folding(g, V, h, base, path) /\ EndsAs(it, g, path)
  BY <1>0, <1>2, <1>6, FoldRun
<1> QED
  BY <1>0, <1>5, <1>7 DEF EndsAs, V, h, base, path

\* w is words with the two blocks exchanged, each of them in order.
Rotates(w, words, from, mid, to, n) ==
  /\ \A x \in from .. to - 1 : w[Onward(from, mid, to, x)] = words[x]
  /\ \A x \in 1 .. n : x \notin from .. to - 1 => w[x] = words[x]

\* That is what permute_args makes of them.
LEMMA PermuteRotates ==
  ASSUME NEW from, NEW mid, NEW to, IsBlock(from, mid, to), NEW n \in Nat, to <= n + 1, NEW D,
         NEW words \in [1 .. n -> D]
  PROVE  /\ permute_args(from, mid, to, words) \in [1 .. n -> D]
         /\ Rotates(permute_args(from, mid, to, words), words, from, mid, to, n)
<1> DEFINE V == Moves(from, to, n, D)
           N == to - from
           Good == {k \in Nat : k <= N => \A g :
                      Folding(g, V, SwapFn(from, mid, to, n, D), [pos |-> mid, words |-> words], UpTo(N))
                        => g[k] \in V /\ Exchanged(from, mid, to, words, g[k], k)}
<1>0. N \in Nat /\ 0 < N /\ Len(UpTo(N)) = N /\ \A k \in 1 .. N : UpTo(N)[k] = k
  <2>1. N \in Nat /\ 0 < N
    BY DEF IsBlock
  <2> HIDE DEF N
  <2> QED
    BY <2>1, UpToIs
<1>1. 0 \in Good
  <2>1. SUFFICES ASSUME NEW g,
                        Folding(g, V, SwapFn(from, mid, to, n, D), [pos |-> mid, words |-> words], UpTo(N))
                 PROVE  g[0] \in V /\ Exchanged(from, mid, to, words, g[0], 0)
    OBVIOUS
  <2>2. g[0] = [pos |-> mid, words |-> words] /\ g[0] \in V
    BY <1>0, <2>1 DEF Folding
  <2>3. 0 \in 0 .. (to - from) - 1 /\ 0 .. 0 - 1 = {}
    BY <1>0
  <2>4. Begins(from, mid, to, 0)
    <3>1. PICK L \in Nat \ {0} : L = CycleLen(from, mid, to)
      BY CycleSizes, Zenon DEF HasCycles
    <3> QED
      BY <3>1 DEF Begins
  <2>5. Reached(from, mid, to, 0) = CycleStart(from, mid, to, 0)
    BY <2>3, <2>4, ReachedNext
  <2>6. g[0].words = words
    BY <2>2
  <2> QED
    BY <2>2, <2>3, <2>4, <2>5, <2>6, Zenon DEF Exchanged
<1>2. ASSUME NEW k \in Nat, k \in Good PROVE k + 1 \in Good
  <2>1. SUFFICES ASSUME k + 1 <= N, NEW g,
                        Folding(g, V, SwapFn(from, mid, to, n, D), [pos |-> mid, words |-> words], UpTo(N))
                 PROVE  g[k + 1] \in V /\ Exchanged(from, mid, to, words, g[k + 1], k + 1)
    <3> HIDE DEF V, N
    <3> QED
      OBVIOUS
  <2>2. g[k] \in V /\ Exchanged(from, mid, to, words, g[k], k)
    <3>1. k <= N
      BY <1>0, <2>1
    <3> QED
      BY <1>2, <2>1, <3>1, Zenon
  <2>3. k \in 0 .. (to - from) - 1 /\ k + 1 \in 1 .. N /\ (k + 1) - 1 = k
    BY <1>0, <2>1
  <2>4. g[k + 1] = SwapFn(from, mid, to, n, D)[<<g[k], k + 1>>]
    BY <1>0, <2>1, <2>3 DEF Folding
  <2>5. g[k + 1] = Swap(from, mid, to, g[k], k + 1)
    <3>1. g[k] \in Moves(from, to, n, D) /\ k + 1 \in 1 .. to - from
      BY <2>2, <2>3, Zenon
    <3>2. IsBlock(from, mid, to) /\ n \in Nat /\ to <= n + 1
      OBVIOUS
    <3>3. \A at \in Moves(from, to, n, D), l \in 1 .. to - from :
            SwapFn(from, mid, to, n, D)[<<at, l>>] = Swap(from, mid, to, at, l)
      BY <3>2, SwapStep, Zenon
    <3> QED
      BY <2>4, <3>1, <3>3, Zenon
  <2>6. Swap(from, mid, to, g[k], k + 1) \in V
    BY <2>2, <2>3, SwapIs, Zenon
  <2>7. Exchanged(from, mid, to, words, Swap(from, mid, to, g[k], k + 1), k + 1)
    BY <2>2, <2>3, SwapExchanges, Zenon
  <2> QED
    BY <2>5, <2>6, <2>7, Zenon
<1>3. N \in Good
  <2> HIDE DEF Good, N
  <2> QED
    BY <1>0, <1>1, <1>2, Induct
<1>4. PICK g : /\ Folding(g, V, SwapFn(from, mid, to, n, D), [pos |-> mid, words |-> words], UpTo(N))
               /\ permute_args(from, mid, to, words) = g[N].words
  BY SwapRun
<1>5. g[N] \in V /\ Exchanged(from, mid, to, words, g[N], N)
  BY <1>0, <1>3, <1>4
<1>6. g[N].words \in [1 .. n -> D]
  BY <1>5 DEF Moves
<1>7. ASSUME NEW x \in from .. to - 1 PROVE g[N].words[Onward(from, mid, to, x)] = words[x]
  <2>1. PICK k \in 0 .. N - 1 : x = Reached(from, mid, to, k)
    BY ReachedAll
  <2> QED
    BY <1>5, <2>1, Zenon DEF Exchanged
<1>8. ASSUME NEW x \in 1 .. n, x \notin from .. to - 1 PROVE g[N].words[x] = words[x]
  <2>1. \A l \in 0 .. N - 1 : Onward(from, mid, to, Reached(from, mid, to, l)) \in from .. to - 1
    BY ReachedNext, OnwardOnce, Zenon
  <2>2. ~(N < to - from) /\ DOMAIN words = 1 .. n
    BY <1>0
  <2>3. \A l \in 0 .. N - 1 : x # Onward(from, mid, to, Reached(from, mid, to, l))
    BY <1>8, <2>1, Zenon
  <2> QED
    BY <1>5, <2>2, <2>3, Zenon DEF Exchanged
<1> QED
  BY <1>4, <1>6, <1>7, <1>8, Zenon DEF Rotates

-----------------------------------------------------------------------------
(* The options of a command line, by where their scan begins               *)

OptionAt(f, words, s, i) ==
  IF i > Len(words) THEN {}
  ELSE IF Operand(words[i])
  THEN CASE s = "permute" -> f[i + 1]
         [] s = "inorder" -> {i} \cup f[i + 1]
         [] OTHER -> {}
  ELSE IF IsEnd(words[i], s) THEN {i}
  ELSE IF Halts(words[i], s) THEN {}
  ELSE IF WantsNext(words[i], s) /\ i < Len(words) THEN {i, i + 1} \cup f[i + 2]
  ELSE {i} \cup f[i + 1]

\* The next index decides nothing but by what f is after it.
LEMMA OptionAtLocal ==
  ASSUME NEW words, Len(words) \in Nat, NEW s, NEW f, NEW g, NEW i \in 1 .. Len(words) + 1,
         \A k \in i + 1 .. Len(words) + 1 : f[k] = g[k]
  PROVE  OptionAt(f, words, s, i) = OptionAt(g, words, s, i)
<1>1. CASE i > Len(words)
  BY <1>1 DEF OptionAt
<1>2. CASE i = Len(words)
  <2>1. f[i + 1] = g[i + 1] /\ ~(i < Len(words))
    BY <1>2
  <2> QED
    BY <2>1, Zenon DEF OptionAt
<1>3. CASE i < Len(words)
  <2>1. f[i + 1] = g[i + 1] /\ f[i + 2] = g[i + 2]
    BY <1>3
  <2> QED
    BY <2>1, Zenon DEF OptionAt
<1> QED
  BY <1>1, <1>2, <1>3

\* The scan of the words satisfies its recursive equation.
LEMMA OptionsEquation ==
  ASSUME NEW words, Len(words) \in Nat, NEW s
  PROVE  \A i \in 1 .. Len(words) + 1 :
           OptionsFrom(words, s)[i] = OptionAt(OptionsFrom(words, s), words, s, i)
<1> DEFINE n == Len(words)
           Good == {m \in Nat : m <= n => \E f : \A i \in (n + 1) - m .. n + 1 : f[i] = OptionAt(f, words, s, i)}
<1> HIDE DEF n
<1>0. n \in Nat /\ n = Len(words)
  BY DEF n
<1>1. 0 \in Good
  <2> DEFINE f == [i \in 1 .. n + 1 |-> {}]
  <2>1. \A i \in (n + 1) - 0 .. n + 1 : i = n + 1 /\ i > n
    BY <1>0
  <2>2. f[n + 1] = {}
    BY <1>0
  <2>3. \A i \in (n + 1) - 0 .. n + 1 : f[i] = OptionAt(f, words, s, i)
    <3> HIDE DEF f
    <3> QED
      BY <1>0, <2>1, <2>2 DEF OptionAt
  <2> QED
    BY <2>3
<1>2. ASSUME NEW m \in Nat, m \in Good PROVE m + 1 \in Good
  <2>1. SUFFICES ASSUME m + 1 <= n
                 PROVE  \E f : \A i \in (n + 1) - (m + 1) .. n + 1 : f[i] = OptionAt(f, words, s, i)
    OBVIOUS
  <2>2. PICK g : \A i \in (n + 1) - m .. n + 1 : g[i] = OptionAt(g, words, s, i)
    BY <1>0, <1>2, <2>1
  <2> DEFINE f == [i \in 1 .. n + 1 |-> IF i = n - m THEN OptionAt(g, words, s, i) ELSE g[i]]
  <2>3. n - m \in 1 .. n + 1 /\ (n + 1) - (m + 1) = n - m
    BY <1>0, <2>1
  <2>4. f[n - m] = OptionAt(g, words, s, n - m)
    BY <2>3
  <2>5. \A k \in (n + 1) - m .. n + 1 : f[k] = g[k]
    BY <1>0, <2>1
  <2> HIDE DEF f
  <2>6. ASSUME NEW i \in n - m .. n + 1 PROVE f[i] = OptionAt(f, words, s, i)
    <3>1. \A k \in i + 1 .. n + 1 : f[k] = g[k]
      BY <1>0, <2>1, <2>5
    <3>2. i \in 1 .. n + 1
      BY <1>0, <2>1
    <3>3. OptionAt(f, words, s, i) = OptionAt(g, words, s, i)
      BY <1>0, <3>1, <3>2, OptionAtLocal
    <3>4. CASE i = n - m
      BY <2>4, <3>3, <3>4
    <3>5. CASE i # n - m
      <4>1. i \in (n + 1) - m .. n + 1
        BY <1>0, <2>1, <3>5
      <4> QED
        BY <2>2, <2>5, <3>3, <4>1
    <3> QED
      BY <3>4, <3>5
  <2> QED
    BY <2>3, <2>6
<1>3. Nat \subseteq Good
  <2> HIDE DEF Good
  <2> QED
    BY <1>1, <1>2, Induct
<1>4. PICK f : \A i \in 1 .. n + 1 : f[i] = OptionAt(f, words, s, i)
  <2>1. n \in Good /\ (n + 1) - n = 1
    <3> HIDE DEF Good
    <3> QED
      BY <1>0, <1>3
  <2> QED
    BY <1>0, <2>1
<1> DEFINE P(h) == h = [i \in 1 .. Len(words) + 1 |-> OptionAt(h, words, s, i)]
<1>5. \E h : P(h)
  <2> DEFINE h == [i \in 1 .. n + 1 |-> f[i]]
  <2>1. ASSUME NEW i \in 1 .. n + 1 PROVE h[i] = OptionAt(h, words, s, i)
    <3>1. \A k \in i + 1 .. n + 1 : h[k] = f[k]
      BY <1>0
    <3> HIDE DEF h
    <3>2. OptionAt(h, words, s, i) = OptionAt(f, words, s, i)
      BY <1>0, <3>1, OptionAtLocal
    <3>3. h[i] = f[i]
      BY DEF h
    <3> QED
      BY <1>4, <3>2, <3>3
  <2>2. h = [i \in 1 .. n + 1 |-> OptionAt(h, words, s, i)]
    BY <2>1
  <2>3. P(h)
    <3> HIDE DEF h
    <3> QED
      BY <1>0, <2>2
  <2> QED
    BY <2>3
<1>6. OptionsFrom(words, s) = CHOOSE h : P(h)
  BY Zenon DEF OptionsFrom, OptionAt
<1>7. P(OptionsFrom(words, s))
  <2> HIDE DEF P
  <2> QED
    BY <1>5, <1>6, Zenon
<1> QED
  BY <1>7

\* What is an option from the i-th word on comes from there on.
LEMMA OptionsBeyond ==
  ASSUME NEW words, Len(words) \in Nat, NEW s, NEW i \in 1 .. Len(words) + 1
  PROVE  OptionsFrom(words, s)[i] \subseteq i .. Len(words)
<1> DEFINE n == Len(words)
           f == OptionsFrom(words, s)
           Good == {m \in Nat : m <= n => \A k \in (n + 1) - m .. n + 1 : f[k] \subseteq k .. n}
<1> HIDE DEF n, f
<1>0. n \in Nat /\ n = Len(words) /\ i \in 1 .. n + 1
  BY DEF n
<1>1. \A k \in 1 .. n + 1 : f[k] = OptionAt(f, words, s, k)
  BY OptionsEquation DEF n, f
<1>2. f[n + 1] = {}
  <2>1. n + 1 \in 1 .. n + 1 /\ n + 1 > Len(words)
    BY <1>0
  <2> QED
    BY <1>1, <2>1 DEF OptionAt
<1>3. 0 \in Good
  BY <1>0, <1>2
<1>4. ASSUME NEW m \in Nat, m \in Good PROVE m + 1 \in Good
  <2>1. SUFFICES ASSUME m + 1 <= n, NEW k \in (n + 1) - (m + 1) .. n + 1 PROVE f[k] \subseteq k .. n
    OBVIOUS
  <2>2. \A j \in (n + 1) - m .. n + 1 : f[j] \subseteq j .. n
    BY <1>0, <1>4, <2>1
  <2>3. CASE k # n - m
    BY <1>0, <2>1, <2>2, <2>3
  <2>4. CASE k = n - m
    <3>1. k \in 1 .. n + 1 /\ k \in 1 .. n /\ k + 1 \in (n + 1) - m .. n + 1
      BY <1>0, <2>1, <2>4
    <3>2. f[k + 1] \subseteq k .. n /\ k \in k .. n
      <4>1. k + 1 .. n \subseteq k .. n
        BY <3>1
      <4> QED
        BY <2>2, <3>1, <4>1
    <3>3. k < n => f[k + 2] \subseteq k .. n /\ k + 1 \in k .. n
      <4>1. SUFFICES ASSUME k < n PROVE f[k + 2] \subseteq k .. n /\ k + 1 \in k .. n
        OBVIOUS
      <4>2. k + 2 .. n \subseteq k .. n /\ k + 1 \in k .. n /\ k + 2 \in (n + 1) - m .. n + 1
        BY <1>0, <2>4, <3>1, <4>1
      <4> QED
        BY <2>2, <4>2
    <3>4. OptionAt(f, words, s, k) \subseteq k .. n
      BY <1>0, <3>2, <3>3, Zenon DEF OptionAt
    <3> QED
      BY <1>1, <3>1, <3>4
  <2> QED
    BY <2>3, <2>4
<1>5. Nat \subseteq Good
  <2> HIDE DEF Good
  <2> QED
    BY <1>3, <1>4, Induct
<1>6. n \in Good /\ (n + 1) - n = 1
  <2> HIDE DEF Good
  <2> QED
    BY <1>0, <1>5
<1>7. f[i] \subseteq i .. n
  BY <1>0, <1>6
<1> QED
  BY <1>7 DEF f, n

-----------------------------------------------------------------------------
(* The words that have been scanned, and where each was given              *)

\* order tells where the n words of argv were given.  Those scanned, before o,
\* are options before s and from e on, and operands between.
Arranges(order, words, opts, argv, s, e, o) ==
  /\ argv = [k \in DOMAIN words |-> words[order[k]]]
  /\ \A k \in DOMAIN words : k >= o => order[k] = k
  /\ \A k \in DOMAIN words : k < o => order[k] < o
  /\ \A k \in DOMAIN words : k < o => (order[k] \in opts <=> k < s \/ k >= e)
  /\ \A j, k \in DOMAIN words :
       j < k /\ k < o /\ (order[j] \in opts <=> order[k] \in opts) => order[j] < order[k]

Arranged(words, opts, argv, s, e, o) ==
  /\ o \in 1 .. Len(words) + 1 /\ e \in 1 .. o /\ s \in 1 .. e
  /\ \E order \in [DOMAIN words -> DOMAIN words] : Arranges(order, words, opts, argv, s, e, o)

\* Before anything has been scanned.
LEMMA ArrangedFirst ==
  ASSUME NEW D, NEW words \in Seq(D), NEW opts
  PROVE  Arranged(words, opts, words, 1, 1, 1)
<1>1. DOMAIN words = 1 .. Len(words) /\ Len(words) \in Nat /\ words = [k \in DOMAIN words |-> words[k]]
  OBVIOUS
<1> DEFINE order == [k \in DOMAIN words |-> k]
<1>2. order \in [DOMAIN words -> DOMAIN words] /\ \A k \in DOMAIN words : order[k] = k
  OBVIOUS
<1> HIDE DEF order
<1>3. words = [k \in DOMAIN words |-> words[order[k]]]
  BY <1>1, <1>2
<1>4. \A k \in DOMAIN words : ~(k < 1)
  BY <1>1
<1>5. Arranges(order, words, opts, words, 1, 1, 1)
  BY <1>2, <1>3, <1>4, Zenon DEF Arranges
<1>6. 1 \in 1 .. Len(words) + 1 /\ 1 \in 1 .. 1
  BY <1>1
<1> QED
  BY <1>2, <1>5, <1>6, Zenon DEF Arranged

\* An option behind those scanned.
LEMMA ArrangedOption ==
  ASSUME NEW D, NEW words \in Seq(D), NEW opts, NEW argv, NEW s, NEW e, NEW o,
         Arranged(words, opts, argv, s, e, o), o <= Len(words), o \in opts
  PROVE  Arranged(words, opts, argv, s, e, o + 1)
<1>1. PICK order \in [DOMAIN words -> DOMAIN words] : Arranges(order, words, opts, argv, s, e, o)
  BY Zenon DEF Arranged
<1>2. DOMAIN words = 1 .. Len(words) /\ Len(words) \in Nat
  OBVIOUS
<1>3. o \in 1 .. Len(words) + 1 /\ e \in 1 .. o /\ s \in 1 .. e
  BY Zenon DEF Arranged
<1>4. o + 1 \in 1 .. Len(words) + 1 /\ e \in 1 .. o + 1 /\ o \in 1 .. Len(words)
  BY <1>2, <1>3
<1>5. \A k \in DOMAIN words : k < o + 1 <=> k < o \/ k = o
  BY <1>2, <1>3
<1>6. \A k \in DOMAIN words : k >= o + 1 => k >= o
  BY <1>2, <1>3
<1>7. order[o] = o /\ o >= e
  BY <1>1, <1>2, <1>3, <1>4 DEF Arranges
<1>8. \A k \in DOMAIN words : order[k] \in Int /\ k \in Int
  BY <1>2
<1>9. ASSUME NEW k \in DOMAIN words, k < o + 1
      PROVE  order[k] < o + 1 /\ (order[k] \in opts <=> k < s \/ k >= e)
  BY <1>1, <1>3, <1>5, <1>7, <1>8, <1>9 DEF Arranges
<1>10. ASSUME NEW j \in DOMAIN words, NEW k \in DOMAIN words, j < k, k < o + 1,
              order[j] \in opts <=> order[k] \in opts
       PROVE  order[j] < order[k]
  <2>1. CASE k < o
    BY <1>1, <1>10, <2>1 DEF Arranges
  <2>2. CASE k = o
    BY <1>1, <1>7, <1>10, <2>2 DEF Arranges
  <2> QED
    BY <1>5, <1>10, <2>1, <2>2
<1>11. Arranges(order, words, opts, argv, s, e, o + 1)
  BY <1>1, <1>6, <1>9, <1>10 DEF Arranges
<1> QED
  BY <1>3, <1>4, <1>11, Zenon DEF Arranged

\* While there are no operands they may be anywhere.
LEMMA ArrangedNone ==
  ASSUME NEW D, NEW words \in Seq(D), NEW opts, NEW argv, NEW s, NEW o,
         Arranged(words, opts, argv, s, s, o), NEW r \in 1 .. o
  PROVE  Arranged(words, opts, argv, r, r, o)
<1>1. PICK order \in [DOMAIN words -> DOMAIN words] : Arranges(order, words, opts, argv, s, s, o)
  BY Zenon DEF Arranged
<1>2. o \in 1 .. Len(words) + 1 /\ s \in 1 .. o /\ DOMAIN words = 1 .. Len(words) /\ Len(words) \in Nat
  BY DEF Arranged
<1>3. \A k \in DOMAIN words : (k < s \/ k >= s) /\ (k < r \/ k >= r)
  BY <1>2
<1>4. Arranges(order, words, opts, argv, r, r, o)
  BY <1>1, <1>3, Zenon DEF Arranges
<1>5. r \in 1 .. r
  BY <1>2
<1> QED
  BY <1>2, <1>4, <1>5, Zenon DEF Arranged

\* An operand behind those scanned, when the operands are last.
LEMMA ArrangedOperand ==
  ASSUME NEW D, NEW words \in Seq(D), NEW opts, NEW argv, NEW s, NEW o,
         Arranged(words, opts, argv, s, o, o), o <= Len(words), o \notin opts
  PROVE  Arranged(words, opts, argv, s, o + 1, o + 1)
<1>1. PICK order \in [DOMAIN words -> DOMAIN words] : Arranges(order, words, opts, argv, s, o, o)
  BY Zenon DEF Arranged
<1>2. DOMAIN words = 1 .. Len(words) /\ Len(words) \in Nat
  OBVIOUS
<1>3. o \in 1 .. Len(words) + 1 /\ s \in 1 .. o
  BY Zenon DEF Arranged
<1>4. o + 1 \in 1 .. Len(words) + 1 /\ o + 1 \in 1 .. o + 1 /\ s \in 1 .. o + 1 /\ o \in 1 .. Len(words)
  BY <1>2, <1>3
<1>5. \A k \in DOMAIN words : k < o + 1 <=> k < o \/ k = o
  BY <1>2, <1>3
<1>6. \A k \in DOMAIN words : k >= o + 1 => k >= o
  BY <1>2, <1>3
<1>7. order[o] = o
  BY <1>1, <1>2, <1>3, <1>4 DEF Arranges
<1>8. \A k \in DOMAIN words : order[k] \in Int /\ k \in Int
  BY <1>2
<1>9. ASSUME NEW k \in DOMAIN words, k < o + 1
      PROVE  order[k] < o + 1 /\ (order[k] \in opts <=> k < s \/ k >= o + 1)
  <2>1. CASE k < o
    <3>1. order[k] < o /\ (order[k] \in opts <=> k < s \/ k >= o)
      BY <1>1, <2>1 DEF Arranges
    <3> QED
      BY <1>2, <1>3, <1>8, <2>1, <3>1
  <2>2. CASE k = o
    BY <1>2, <1>3, <1>7, <2>2
  <2> QED
    BY <1>5, <1>9, <2>1, <2>2
<1>10. ASSUME NEW j \in DOMAIN words, NEW k \in DOMAIN words, j < k, k < o + 1,
              order[j] \in opts <=> order[k] \in opts
       PROVE  order[j] < order[k]
  <2>1. CASE k < o
    BY <1>1, <1>10, <2>1 DEF Arranges
  <2>2. CASE k = o
    BY <1>1, <1>7, <1>10, <2>2 DEF Arranges
  <2> QED
    BY <1>5, <1>10, <2>1, <2>2
<1>11. Arranges(order, words, opts, argv, s, o + 1, o + 1)
  BY <1>1, <1>6, <1>9, <1>10 DEF Arranges
<1> QED
  BY <1>3, <1>4, <1>11, Zenon DEF Arranged

\* Where permute_args brings the k-th word from.
Source(s, e, o, k) ==
  IF k < s \/ k >= o THEN k ELSE IF k < s + (o - e) THEN k + (e - s) ELSE k - (o - e)

Sourced(argv, s, e, o, n) == [k \in 1 .. n |-> argv[Source(s, e, o, k)]]

\* permute_args fills every position from its source.
LEMMA SourceIs ==
  ASSUME NEW s, NEW e, NEW o, IsBlock(s, e, o), NEW n \in Nat, o <= n + 1,
         NEW D, NEW argv \in [1 .. n -> D]
  PROVE  permute_args(s, e, o, argv) = Sourced(argv, s, e, o, n)
<1> DEFINE w == permute_args(s, e, o, argv)
<1>1. s \in Nat \ {0} /\ e \in Nat /\ o \in Nat /\ s < e /\ e < o
  BY DEF IsBlock
<1> HIDE DEF w
<1>2. /\ w \in [1 .. n -> D]
      /\ \A x \in s .. o - 1 : w[Onward(s, e, o, x)] = argv[x]
      /\ \A x \in 1 .. n : x \notin s .. o - 1 => w[x] = argv[x]
  <2>1. w \in [1 .. n -> D] /\ Rotates(w, argv, s, e, o, n)
    BY PermuteRotates DEF w
  <2> QED
    BY <2>1, Zenon DEF Rotates
<1>3. ASSUME NEW k \in 1 .. n PROVE w[k] = argv[Source(s, e, o, k)]
  <2>1. CASE k \notin s .. o - 1
    <3>1. Source(s, e, o, k) = k
      BY <1>1, <2>1 DEF Source
    <3> QED
      BY <1>2, <2>1, <3>1, Zenon
  <2>2. CASE k \in s .. o - 1
    <3>1. Source(s, e, o, k) \in s .. o - 1 /\ Onward(s, e, o, Source(s, e, o, k)) = k
      BY <1>1, <2>2 DEF Source, Onward
    <3>2. w[Onward(s, e, o, Source(s, e, o, k))] = argv[Source(s, e, o, k)]
      BY <1>2, <3>1, Zenon
    <3> QED
      BY <3>1, <3>2, Zenon
  <2> QED
    BY <2>1, <2>2
<1>4. w = [k \in 1 .. n |-> argv[Source(s, e, o, k)]]
  BY <1>2, <1>3
<1> QED
  BY <1>4 DEF w, Sourced

\* The operands are last once permute_args has moved the options before them.
LEMMA ArrangedRotated ==
  ASSUME NEW D, NEW words \in Seq(D), NEW opts, NEW argv, NEW s, NEW e, NEW o,
         Arranged(words, opts, argv, s, e, o), s < e, e < o
  PROVE  Arranged(words, opts, permute_args(s, e, o, argv), o - (e - s), o, o)
<1>1. PICK order \in [DOMAIN words -> DOMAIN words] : Arranges(order, words, opts, argv, s, e, o)
  BY Zenon DEF Arranged
<1> DEFINE n == Len(words)
           argv1 == permute_args(s, e, o, argv)
           r == o - (e - s)
           order1 == [k \in DOMAIN words |-> order[Source(s, e, o, k)]]
<1>2. DOMAIN words = 1 .. n /\ n \in Nat /\ words \in [1 .. n -> D]
  OBVIOUS
<1>3. o \in 1 .. n + 1 /\ e \in 1 .. o /\ s \in 1 .. e
  BY Zenon DEF Arranged
<1> HIDE DEF n
<1>4. /\ s \in Nat \ {0} /\ e \in Nat /\ o \in Nat /\ o <= n + 1
      /\ r \in 1 .. o /\ o \in 1 .. o /\ s < r /\ r = s + (o - e)
  BY <1>2, <1>3
<1>5. \A k \in 1 .. n : Source(s, e, o, k) \in 1 .. n
  <2> SUFFICES ASSUME NEW k \in 1 .. n PROVE Source(s, e, o, k) \in 1 .. n
    OBVIOUS
  <2>1. k \in Int /\ n \in Int /\ s < e /\ e < o
    BY <1>2
  <2> QED
    BY <1>4, <2>1 DEF Source
<1>6. order1 \in [DOMAIN words -> DOMAIN words] /\ \A k \in 1 .. n : order1[k] = order[Source(s, e, o, k)]
  BY <1>2, <1>5
<1>7. argv \in [1 .. n -> D] /\ \A k \in 1 .. n : argv[k] = words[order[k]]
  <2>1. argv = [k \in 1 .. n |-> words[order[k]]]
    BY <1>1, <1>2 DEF Arranges
  <2> QED
    BY <1>2, <2>1
<1>8. argv1 = [k \in 1 .. n |-> argv[Source(s, e, o, k)]]
  <2>1. IsBlock(s, e, o) /\ n \in Nat /\ o <= n + 1 /\ argv \in [1 .. n -> D]
    BY <1>2, <1>4, <1>7, Zenon DEF IsBlock
  <2>2. permute_args(s, e, o, argv) = Sourced(argv, s, e, o, n)
    BY <2>1, SourceIs
  <2> QED
    BY <2>2 DEF Sourced
<1> HIDE DEF argv1, order1, r
<1>9. argv1 = [k \in DOMAIN words |-> words[order1[k]]]
  <2>1. \A k \in 1 .. n : argv[Source(s, e, o, k)] = words[order1[k]]
    BY <1>5, <1>6, <1>7
  <2> QED
    BY <1>2, <1>8, <2>1
<1>10. ASSUME NEW k \in 1 .. n
       PROVE  /\ k >= o => order1[k] = k
              /\ k < o => order1[k] < o
              /\ k < o => (order1[k] \in opts <=> k < r)
  <2> DEFINE b == Source(s, e, o, k)
  <2>1. /\ k >= o => b = k
        /\ k < o => b < o
        /\ k < o => (k < r <=> b < s \/ b >= e)
    <3>1. k \in Int /\ s < e /\ e < o
      BY <1>2
    <3>2. CASE k < s \/ k >= o
      <4>1. b = k
        BY <3>2 DEF Source
      <4> HIDE DEF b
      <4> QED
        BY <1>4, <3>1, <3>2, <4>1
    <3>3. CASE ~(k < s \/ k >= o) /\ k < s + (o - e)
      <4>1. b = k + (e - s)
        BY <3>3 DEF Source
      <4> HIDE DEF b
      <4> QED
        BY <1>4, <3>1, <3>3, <4>1
    <3>4. CASE ~(k < s \/ k >= o) /\ ~(k < s + (o - e))
      <4>1. b = k - (o - e)
        BY <3>4 DEF Source
      <4> HIDE DEF b
      <4> QED
        BY <1>4, <3>1, <3>4, <4>1
    <3> QED
      BY <3>2, <3>3, <3>4
  <2>2. b \in 1 .. n /\ order1[k] = order[b]
    BY <1>5, <1>6, Zenon
  <2> HIDE DEF b
  <2>3. /\ b >= o => order[b] = b
        /\ b < o => order[b] < o
        /\ b < o => (order[b] \in opts <=> b < s \/ b >= e)
    BY <1>1, <1>2, <2>2, Zenon DEF Arranges
  <2> QED
    BY <2>1, <2>2, <2>3
<1>11. ASSUME NEW j \in 1 .. n, NEW k \in 1 .. n, j < k, k < o,
              order1[j] \in opts <=> order1[k] \in opts
       PROVE  order1[j] < order1[k]
  <2> DEFINE b == Source(s, e, o, j)
             c == Source(s, e, o, k)
  <2>1. j < o
    BY <1>4, <1>11
  <2>2. j < r <=> k < r
    BY <1>10, <1>11, <2>1
  <2>3. b < c /\ c < o
    <3>1. /\ n \in Nat /\ s \in Nat \ {0} /\ e \in Nat /\ o \in Nat /\ r = s + (o - e) /\ s < e /\ e < o
          /\ j \in 1 .. n /\ k \in 1 .. n /\ j < k /\ k < o
      BY <1>2, <1>4, <1>11, Zenon
    <3>2. CASE j < r
      BY <2>2, <3>1, <3>2 DEF Source
    <3>3. CASE ~(j < r)
      BY <2>2, <3>1, <3>3 DEF Source
    <3> QED
      BY <3>2, <3>3
  <2>4. b \in 1 .. n /\ c \in 1 .. n /\ order1[j] = order[b] /\ order1[k] = order[c]
    BY <1>5, <1>6, Zenon
  <2> HIDE DEF b, c
  <2> QED
    BY <1>1, <1>2, <1>11, <2>3, <2>4, Zenon DEF Arranges
<1>12. \A k \in 1 .. n : k < o => ~(k >= o)
  BY <1>2, <1>4
<1>13. Arranges(order1, words, opts, argv1, r, o, o)
  BY <1>2, <1>9, <1>10, <1>11, <1>12, Zenon DEF Arranges
<1> QED
  BY <1>3, <1>4, <1>6, <1>13, Zenon DEF Arranged, r, argv1, n

-----------------------------------------------------------------------------
(* What is left to be scanned                                              *)

\* What is left to be scanned from o on decides which of the words there are options.
Left(words, s, o) == OptionsFrom(words, s)[1] \cap (o .. Len(words)) = OptionsFrom(words, s)[o]

\* How many words an option takes.
Takes(word, s, o, n) == IF WantsNext(word, s) /\ o < n THEN 2 ELSE 1

\* Everything is left at first.
LEMMA LeftFirst ==
  ASSUME NEW words, Len(words) \in Nat, NEW s
  PROVE  Left(words, s, 1)
<1>1. OptionsFrom(words, s)[1] \subseteq 1 .. Len(words)
  <2>1. 1 \in 1 .. Len(words) + 1
    OBVIOUS
  <2> QED
    BY <2>1, OptionsBeyond, Zenon
<1> QED
  BY <1>1, Zenon DEF Left

\* An option and its argument are taken from what is left.
LEMMA LeftOption ==
  ASSUME NEW words, Len(words) \in Nat, NEW s, NEW o \in 1 .. Len(words), Left(words, s, o),
         ~Operand(words[o]), ~IsEnd(words[o], s), ~Halts(words[o], s)
  PROVE  LET d == Takes(words[o], s, o, Len(words))
         IN /\ d \in {1, 2}
            /\ o + d \in 1 .. Len(words) + 1
            /\ o \in OptionsFrom(words, s)[1]
            /\ d = 2 => o + 1 \in OptionsFrom(words, s)[1] /\ o + 1 <= Len(words)
            /\ Left(words, s, o + d)
<1> DEFINE f == OptionsFrom(words, s)
           n == Len(words)
<1> HIDE DEF f, n
<1>0. n \in Nat /\ o \in 1 .. n /\ n = Len(words) /\ o \in 1 .. n + 1 /\ ~(o > n)
  BY DEF n
<1>1. f[o] = OptionAt(f, words, s, o) /\ f[1] \cap (o .. n) = f[o]
  BY <1>0, OptionsEquation DEF f, n, Left
<1>2. CASE WantsNext(words[o], s) /\ o < n
  <2>1. Takes(words[o], s, o, n) = 2
    BY <1>2 DEF Takes
  <2>2. f[o] = {o, o + 1} \cup f[o + 2]
    BY <1>0, <1>1, <1>2, Zenon DEF OptionAt
  <2>3. o + 2 \in 1 .. n + 1
    BY <1>0, <1>2
  <2>4. f[o + 2] \subseteq o + 2 .. n
    BY <1>0, <2>3, OptionsBeyond, Zenon DEF f
  <2>5. o \in f[1] /\ o + 1 \in f[1]
    BY <1>1, <2>2
  <2>6. f[1] \cap (o + 2 .. n) = f[o + 2]
    <3>1. ASSUME NEW k \in f[1], k \in o + 2 .. n PROVE k \in f[o + 2]
      <4>1. k \in f[o] /\ k # o /\ k # o + 1
        BY <1>0, <1>1, <3>1
      <4> QED
        BY <2>2, <4>1
    <3>2. ASSUME NEW k \in f[o + 2] PROVE k \in f[1] /\ k \in o + 2 .. n
      BY <1>1, <2>2, <2>4, <3>2
    <3> QED
      BY <3>1, <3>2
  <2> QED
    BY <1>0, <1>2, <2>1, <2>3, <2>5, <2>6 DEF f, Left
<1>3. CASE ~(WantsNext(words[o], s) /\ o < n)
  <2>1. Takes(words[o], s, o, n) = 1
    BY <1>3 DEF Takes
  <2>2. f[o] = {o} \cup f[o + 1]
    BY <1>0, <1>1, <1>3, Zenon DEF OptionAt
  <2>3. o + 1 \in 1 .. n + 1
    BY <1>0
  <2>4. f[o + 1] \subseteq o + 1 .. n
    BY <1>0, <2>3, OptionsBeyond, Zenon DEF f
  <2>5. o \in f[1]
    BY <1>1, <2>2
  <2>6. f[1] \cap (o + 1 .. n) = f[o + 1]
    <3>1. ASSUME NEW k \in f[1], k \in o + 1 .. n PROVE k \in f[o + 1]
      <4>1. k \in f[o] /\ k # o
        BY <1>0, <1>1, <3>1
      <4> QED
        BY <2>2, <4>1
    <3>2. ASSUME NEW k \in f[o + 1] PROVE k \in f[1] /\ k \in o + 1 .. n
      BY <1>1, <2>2, <2>4, <3>2
    <3> QED
      BY <3>1, <3>2
  <2> QED
    BY <1>0, <2>1, <2>3, <2>5, <2>6 DEF f, Left
<1> QED
  BY <1>2, <1>3

\* The word that ends the options is the last of them.
LEMMA LeftEnd ==
  ASSUME NEW words, Len(words) \in Nat, NEW s, NEW o \in 1 .. Len(words), Left(words, s, o),
         ~Operand(words[o]), IsEnd(words[o], s)
  PROVE  /\ o \in OptionsFrom(words, s)[1]
         /\ OptionsFrom(words, s)[1] \cap (o + 1 .. Len(words)) = {}
<1> DEFINE f == OptionsFrom(words, s)
           n == Len(words)
<1> HIDE DEF f, n
<1>0. n \in Nat /\ o \in 1 .. n /\ n = Len(words) /\ o \in 1 .. n + 1 /\ ~(o > n)
  BY DEF n
<1>1. f[o] = OptionAt(f, words, s, o) /\ f[1] \cap (o .. n) = f[o]
  BY <1>0, OptionsEquation DEF f, n, Left
<1>2. f[o] = {o}
  BY <1>0, <1>1, Zenon DEF OptionAt
<1>3. ASSUME NEW k \in f[1], k \in o + 1 .. n PROVE FALSE
  <2>1. k \in o .. n /\ k # o
    BY <1>0, <1>3
  <2> QED
    BY <1>1, <1>2, <2>1
<1>4. o \in f[1]
  BY <1>1, <1>2
<1> QED
  BY <1>3, <1>4 DEF f, n

\* Nothing is taken from the word that getopt stops in.
LEMMA LeftHalt ==
  ASSUME NEW words, Len(words) \in Nat, NEW s, NEW o \in 1 .. Len(words), Left(words, s, o),
         ~Operand(words[o]), ~IsEnd(words[o], s), Halts(words[o], s)
  PROVE  OptionsFrom(words, s)[1] \cap (o .. Len(words)) = {}
<1> DEFINE f == OptionsFrom(words, s)
           n == Len(words)
<1> HIDE DEF f, n
<1>0. n \in Nat /\ o \in 1 .. n /\ n = Len(words) /\ o \in 1 .. n + 1 /\ ~(o > n)
  BY DEF n
<1>1. f[o] = OptionAt(f, words, s, o) /\ f[1] \cap (o .. n) = f[o]
  BY <1>0, OptionsEquation DEF f, n, Left
<1>2. f[o] = {}
  BY <1>0, <1>1, Zenon DEF OptionAt
<1> QED
  BY <1>1, <1>2 DEF f, n

\* An operand is passed over, returned like an option or the end, by the style.
LEMMA LeftOperand ==
  ASSUME NEW words, Len(words) \in Nat, NEW s, NEW o \in 1 .. Len(words), Left(words, s, o),
         Operand(words[o])
  PROVE  /\ s = "permute" => o \notin OptionsFrom(words, s)[1] /\ Left(words, s, o + 1)
         /\ s = "inorder" => o \in OptionsFrom(words, s)[1] /\ Left(words, s, o + 1)
         /\ s \notin {"permute", "inorder"} => OptionsFrom(words, s)[1] \cap (o .. Len(words)) = {}
<1> DEFINE f == OptionsFrom(words, s)
           n == Len(words)
<1> HIDE DEF f, n
<1>0. n \in Nat /\ o \in 1 .. n /\ n = Len(words) /\ o \in 1 .. n + 1 /\ ~(o > n) /\ o + 1 \in 1 .. n + 1
  BY DEF n
<1>1. f[o] = OptionAt(f, words, s, o) /\ f[1] \cap (o .. n) = f[o]
  BY <1>0, OptionsEquation DEF f, n, Left
<1>2. f[o] = CASE s = "permute" -> f[o + 1]
              [] s = "inorder" -> {o} \cup f[o + 1]
              [] OTHER -> {}
  BY <1>0, <1>1, Zenon DEF OptionAt
<1>3. f[o + 1] \subseteq o + 1 .. n
  BY <1>0, OptionsBeyond, Zenon DEF f
<1>4. f[o + 1] \subseteq f[o] /\ f[o] \subseteq {o} \cup f[o + 1]
        => f[1] \cap (o + 1 .. n) = f[o + 1]
  <2>1. SUFFICES ASSUME f[o + 1] \subseteq f[o], f[o] \subseteq {o} \cup f[o + 1]
                 PROVE  f[1] \cap (o + 1 .. n) = f[o + 1]
    OBVIOUS
  <2>2. ASSUME NEW k \in f[1], k \in o + 1 .. n PROVE k \in f[o + 1]
    <3>1. k \in f[o] /\ k # o
      BY <1>0, <1>1, <2>2
    <3> QED
      BY <2>1, <3>1
  <2>3. ASSUME NEW k \in f[o + 1] PROVE k \in f[1] /\ k \in o + 1 .. n
    BY <1>1, <1>3, <2>1, <2>3
  <2> QED
    BY <2>2, <2>3
<1>5. CASE s = "permute"
  <2>1. f[o] = f[o + 1]
    BY <1>2, <1>5
  <2>2. o \notin f[o] /\ o \in o .. n
    BY <1>0, <1>3, <2>1
  <2> QED
    BY <1>0, <1>1, <1>4, <1>5, <2>1, <2>2 DEF f, Left
<1>6. CASE s = "inorder"
  <2>1. f[o] = {o} \cup f[o + 1]
    BY <1>2, <1>6
  <2>2. o \in f[1]
    BY <1>1, <2>1
  <2> QED
    BY <1>0, <1>4, <1>6, <2>1, <2>2 DEF f, Left
<1>7. CASE s \notin {"permute", "inorder"}
  <2>1. f[o] = {}
    BY <1>2, <1>7
  <2> QED
    BY <1>0, <1>1, <1>7, <2>1 DEF f
<1> QED
  BY <1>5, <1>6, <1>7

\* order sorts the words: the options are before r, and each kind is in order.
SortsAs(order, words, opts, argv, r) ==
  /\ argv = [k \in DOMAIN words |-> words[order[k]]]
  /\ \A k \in DOMAIN words : order[k] \in opts <=> k < r
  /\ \A j, k \in DOMAIN words :
       j < k /\ (order[j] \in opts <=> order[k] \in opts) => order[j] < order[k]

\* The words are sorted when none of those left is an option.
LEMMA ArrangedSorts ==
  ASSUME NEW D, NEW words \in Seq(D), NEW opts, NEW argv, NEW r, NEW o,
         Arranged(words, opts, argv, r, o, o), opts \cap (o .. Len(words)) = {}
  PROVE  /\ r \in 1 .. Len(words) + 1
         /\ \E order \in [DOMAIN words -> DOMAIN words] : SortsAs(order, words, opts, argv, r)
<1>1. PICK order \in [DOMAIN words -> DOMAIN words] : Arranges(order, words, opts, argv, r, o, o)
  BY Zenon DEF Arranged
<1>2. o \in 1 .. Len(words) + 1 /\ r \in 1 .. o /\ DOMAIN words = 1 .. Len(words) /\ Len(words) \in Nat
  BY DEF Arranged
<1>3. r \in 1 .. Len(words) + 1
  BY <1>2
<1>4. ASSUME NEW k \in DOMAIN words PROVE order[k] \in opts <=> k < r
  <2>1. CASE k < o
    <3>1. order[k] \in opts <=> k < r \/ k >= o
      BY <1>1, <2>1 DEF Arranges
    <3> QED
      BY <1>2, <2>1, <3>1
  <2>2. CASE k >= o
    <3>1. order[k] = k /\ k \in o .. Len(words) /\ ~(k < r)
      BY <1>1, <1>2, <2>2 DEF Arranges
    <3> QED
      BY <3>1
  <2> QED
    BY <1>2, <2>1, <2>2
<1>5. ASSUME NEW j \in DOMAIN words, NEW k \in DOMAIN words, j < k,
             order[j] \in opts <=> order[k] \in opts
      PROVE  order[j] < order[k]
  <2>1. CASE k < o
    BY <1>1, <1>5, <2>1 DEF Arranges
  <2>2. CASE k >= o
    <3>1. order[k] = k
      BY <1>1, <2>2 DEF Arranges
    <3>2. CASE j < o
      <4>1. order[j] < o /\ order[j] \in Int
        BY <1>1, <1>2, <3>2 DEF Arranges
      <4> QED
        BY <1>2, <2>2, <3>1, <4>1
    <3>3. CASE j >= o
      BY <1>1, <1>5, <3>1, <3>3 DEF Arranges
    <3> QED
      BY <1>2, <3>2, <3>3
  <2> QED
    BY <1>2, <2>1, <2>2
<1>6. SortsAs(order, words, opts, argv, r)
  BY <1>1, <1>4, <1>5 DEF SortsAs, Arranges
<1> QED
  BY <1>3, <1>6

-----------------------------------------------------------------------------
(* The inductive invariant of the scan                                     *)

\* The operands passed over, which are OperandsFrom..Beyond-1 among the words scanned.
OperandsFrom == IF nonopt_start = -1 THEN optind ELSE nonopt_start
Beyond == IF nonopt_end = -1 THEN optind ELSE nonopt_end

Passed ==
  /\ nonopt_start \in {-1} \cup (1 .. optind - 1)
  /\ nonopt_end \in {-1} \cup (1 .. optind)
  /\ nonopt_end # -1 => nonopt_start # -1 /\ nonopt_start < nonopt_end
  /\ Fresh => nonopt_end < optind
  /\ ~Fresh => nonopt_start = -1 \/ nonopt_end # -1

\* Letters p on of the word are left.
Within(word, letters, p, s) ==
  /\ p \in 3 .. Len(word) /\ Reaches(word, p, s)
  /\ letters = SubSeq(word, p, Len(word))

InWord ==
  ~Fresh =>
    /\ optind <= Len(given)
    /\ ~Operand(given[optind])
    /\ ~IsEnd(given[optind], style)
    /\ \E p \in Nat : Within(given[optind], place, p, style)

Ordered ==
  IF style = "permute"
  THEN Arranged(given, Options, nargv, OperandsFrom, Beyond, optind)
  ELSE /\ nargv = given
       /\ nonopt_start = -1 /\ nonopt_end = -1
       /\ \A i \in 1 .. optind - 1 : i \in Options

Scanning ==
  /\ optind \in 1 .. Len(given) + 1
  /\ Passed
  /\ InWord
  /\ Left(given, style, optind)
  /\ Ordered

GetoptInv ==
  /\ given \in Seq(ArgWords)
  /\ style = "idle" => GetoptInit
  /\ style # "idle" /\ ~ended => Scanning
  /\ GetoptPermutes

\* What has not been scanned is as it was given.
LEMMA Ahead ==
  ASSUME given \in Seq(ArgWords), Scanning
  PROVE  /\ Len(nargv) = Len(given)
         /\ optind <= Len(given) => Word = given[optind]
<1>1. optind \in 1 .. Len(given) + 1 /\ DOMAIN given = 1 .. Len(given) /\ Len(given) \in Nat
  BY DEF Scanning
<1>2. CASE style = "permute"
  <2>1. Arranged(given, Options, nargv, OperandsFrom, Beyond, optind)
    BY <1>2, Zenon DEF Scanning, Ordered
  <2>2. PICK order \in [DOMAIN given -> DOMAIN given] :
          Arranges(order, given, Options, nargv, OperandsFrom, Beyond, optind)
    BY <2>1, Zenon DEF Arranged
  <2>3. nargv = [k \in DOMAIN given |-> given[order[k]]]
    BY <2>2, Zenon DEF Arranges
  <2>4. Len(nargv) = Len(given)
    BY <1>1, <2>3
  <2>5. ASSUME optind <= Len(given) PROVE Word = given[optind]
    <3>1. optind \in DOMAIN given /\ optind >= optind
      BY <1>1, <2>5
    <3>2. order[optind] = optind
      BY <2>2, <3>1, Zenon DEF Arranges
    <3> QED
      BY <2>3, <3>1, <3>2 DEF Word
  <2> QED
    BY <2>4, <2>5
<1>3. CASE style # "permute"
  BY <1>3 DEF Scanning, Ordered, Word
<1> QED
  BY <1>2, <1>3

\* Words that were not moved are sorted if those scanned are the options.
LEMMA InPlaceSorts ==
  ASSUME NEW D, NEW words \in Seq(D), NEW opts, NEW o \in 1 .. Len(words) + 1,
         \A i \in 1 .. o - 1 : i \in opts,
         opts \cap (o .. Len(words)) = {}
  PROVE  \E order \in [DOMAIN words -> DOMAIN words] :
           SortsAs(order, words, opts, words, o) /\ \A k \in DOMAIN words : order[k] = k
<1> DEFINE order == [k \in DOMAIN words |-> k]
<1>1. DOMAIN words = 1 .. Len(words) /\ Len(words) \in Nat
  OBVIOUS
<1>2. order \in [DOMAIN words -> DOMAIN words] /\ \A k \in DOMAIN words : order[k] = k
  OBVIOUS
<1> HIDE DEF order
<1>3. words = [k \in DOMAIN words |-> words[order[k]]]
  BY <1>2
<1>4. ASSUME NEW k \in DOMAIN words PROVE order[k] \in opts <=> k < o
  <2>1. order[k] = k
    BY <1>2
  <2>2. CASE k < o
    <3>1. k \in 1 .. o - 1
      BY <1>1, <2>2
    <3> QED
      BY <2>1, <2>2, <3>1
  <2>3. CASE ~(k < o)
    <3>1. k \in o .. Len(words)
      BY <1>1, <2>3
    <3> QED
      BY <2>1, <2>3, <3>1
  <2> QED
    BY <2>2, <2>3
<1>5. SortsAs(order, words, opts, words, o)
  BY <1>2, <1>3, <1>4 DEF SortsAs
<1> QED
  BY <1>2, <1>5

\* The scan has ended before o, after the arguments from e to o-1 were taken for
\* options and the operands s..e-1 moved behind them.
LEMMA PermutedEnd ==
  ASSUME given \in Seq(ArgWords), style = "permute", UNCHANGED <<style, given>>,
         NEW s, NEW o, Arranged(given, Options, nargv', s, o, o), optind' = s,
         Options \cap (o .. Len(given)) = {}
  PROVE  GetoptPermutes'
<1>1. /\ s \in 1 .. Len(given) + 1
      /\ \E order \in [DOMAIN given -> DOMAIN given] : SortsAs(order, given, Options, nargv', s)
  BY ArrangedSorts
<1>2. PICK order \in [DOMAIN given -> DOMAIN given] : SortsAs(order, given, Options, nargv', s)
  BY <1>1
<1>3. Options' = Options
  BY Zenon DEF Options
<1>4. Sorts(order)'
  BY <1>2, <1>3 DEF Sorts, SortsAs
<1> QED
  BY <1>1, <1>2, <1>4 DEF GetoptPermutes

\* The same for the styles that move nothing.
LEMMA InPlaceEnd ==
  ASSUME given \in Seq(ArgWords), UNCHANGED <<style, given>>, nargv' = given,
         optind' \in 1 .. Len(given) + 1,
         \A i \in 1 .. optind' - 1 : i \in Options,
         Options \cap (optind' .. Len(given)) = {}
  PROVE  GetoptPermutes'
<1> DEFINE o == optind'
<1>1. \E order \in [DOMAIN given -> DOMAIN given] :
        SortsAs(order, given, Options, given, o) /\ \A k \in DOMAIN given : order[k] = k
  <2>1. o \in 1 .. Len(given) + 1 /\ (\A i \in 1 .. o - 1 : i \in Options)
        /\ Options \cap (o .. Len(given)) = {}
    OBVIOUS
  <2> HIDE DEF o
  <2> QED
    BY <2>1, InPlaceSorts
<1>2. PICK order \in [DOMAIN given -> DOMAIN given] :
        SortsAs(order, given, Options, given, o) /\ \A k \in DOMAIN given : order[k] = k
  BY <1>1
<1>3. Options' = Options
  BY Zenon DEF Options
<1>4. Sorts(order)'
  BY <1>2, <1>3 DEF Sorts, SortsAs
<1> QED
  BY <1>2, <1>4 DEF GetoptPermutes

\* getopt_long at the end of the words.
LEMMA LongEndsSorts ==
  ASSUME given \in Seq(ArgWords), Scanning, LongEnds
  PROVE  GetoptPermutes'
<1> DEFINE n == Len(given)
<1>1. Len(nargv) = n /\ n \in Nat /\ optind \in 1 .. n + 1
  BY Ahead DEF Scanning
<1>2. optind = n + 1 /\ Fresh /\ UNCHANGED <<style, given>>
  BY <1>1 DEF LongEnds, AtEnd, Ends
<1>3. Options \cap (optind .. n) = {}
  BY <1>2
<1>4. CASE style = "permute"
  <2>1. Arranged(given, Options, nargv, OperandsFrom, Beyond, optind)
    BY <1>4, Zenon DEF Scanning, Ordered
  <2>2. CASE nonopt_end # -1
    <3>1. /\ nargv' = permute_args(nonopt_start, nonopt_end, optind, nargv)
          /\ optind' = optind - (nonopt_end - nonopt_start)
      BY <2>2 DEF LongEnds, Finished
    <3>2. nonopt_start # -1 /\ nonopt_start < nonopt_end /\ nonopt_end < optind
      BY <1>2, <2>2 DEF Scanning, Passed
    <3>3. Arranged(given, Options, nargv, nonopt_start, nonopt_end, optind)
      BY <2>1, <2>2, <3>2 DEF OperandsFrom, Beyond
    <3>4. Arranged(given, Options, nargv', optind - (nonopt_end - nonopt_start), optind, optind)
      BY <3>1, <3>2, <3>3, ArrangedRotated
    <3> QED
      BY <1>2, <1>3, <1>4, <3>1, <3>4, PermutedEnd
  <2>3. CASE nonopt_end = -1
    <3>1. nargv' = nargv /\ optind' = OperandsFrom /\ Beyond = optind
      BY <2>3 DEF LongEnds, Finished, OperandsFrom, Beyond
    <3>2. Arranged(given, Options, nargv', OperandsFrom, optind, optind)
      BY <2>1, <3>1
    <3> QED
      BY <1>2, <1>3, <1>4, <3>1, <3>2, PermutedEnd
  <2> QED
    BY <2>2, <2>3
<1>5. CASE style # "permute"
  <2>1. nargv = given /\ nonopt_start = -1 /\ nonopt_end = -1 /\ \A i \in 1 .. optind - 1 : i \in Options
    BY <1>5 DEF Scanning, Ordered
  <2>2. nargv' = given /\ optind' = optind
    BY <2>1 DEF LongEnds, Finished
  <2> QED
    BY <1>1, <1>2, <1>3, <2>1, <2>2, InPlaceEnd
<1> QED
  BY <1>4, <1>5

\* A word that is an option and the last of them.
LEMMA EndIsOption ==
  ASSUME given \in Seq(ArgWords), Scanning, optind <= Len(given),
         ~Operand(given[optind]), IsEnd(given[optind], style)
  PROVE  optind \in Options /\ Options \cap (optind + 1 .. Len(given)) = {}
<1>1. Len(given) \in Nat /\ optind \in 1 .. Len(given) /\ Left(given, style, optind)
  BY DEF Scanning
<1> QED
  BY <1>1, LeftEnd DEF Options

\* "--" before getopt_long.
LEMMA LongDashesSorts ==
  ASSUME given \in Seq(ArgWords), Scanning, LongDashes
  PROVE  GetoptPermutes'
<1> DEFINE n == Len(given)
           end == IF nonopt_start # -1 /\ nonopt_end = -1 THEN optind ELSE nonopt_end
<1>1. Len(nargv) = n /\ n \in Nat /\ optind \in 1 .. n + 1
  BY Ahead DEF Scanning
<1>2. optind <= n /\ Fresh /\ UNCHANGED <<style, given>> /\ style # "getopt"
  BY <1>1 DEF LongDashes, AtEnd, Ends, Runs
<1>3. given[optind] = Dashes
  BY <1>1, <1>2, Ahead DEF LongDashes
<1>4. ~Operand(given[optind]) /\ IsEnd(given[optind], style)
  BY <1>2, <1>3 DEF Operand, IsEnd, Dashes
<1>5. optind \in Options /\ Options \cap (optind + 1 .. n) = {}
  BY <1>2, <1>4, EndIsOption
<1>6. /\ nargv' = IF end # -1 THEN permute_args(nonopt_start, end, optind + 1, nargv) ELSE nargv
      /\ optind' = optind + 1 - (IF end # -1 THEN end - nonopt_start ELSE 0)
  BY DEF LongDashes
<1>7. CASE style = "permute"
  <2>1. Arranged(given, Options, nargv, OperandsFrom, Beyond, optind)
    BY <1>7, Zenon DEF Scanning, Ordered
  <2>2. Arranged(given, Options, nargv, OperandsFrom, Beyond, optind + 1)
    BY <1>2, <1>5, <2>1, ArrangedOption
  <2>3. CASE nonopt_start # -1
    <3>0. end \in Int /\ nonopt_start \in Int
      BY <1>1 DEF Scanning, Passed
    <3>1. end # -1 /\ nonopt_start < end /\ end < optind + 1
      BY <1>1, <1>2, <2>3 DEF Scanning, Passed
    <3>2. OperandsFrom = nonopt_start /\ Beyond = end
      BY <2>3 DEF OperandsFrom, Beyond
    <3>3. Arranged(given, Options, nargv, nonopt_start, end, optind + 1)
      BY <2>2, <3>2
    <3>4. nargv' = permute_args(nonopt_start, end, optind + 1, nargv)
      BY <1>6, <3>1
    <3> HIDE DEF end
    <3>5. optind' = (optind + 1) - (end - nonopt_start)
      <4>1. optind' = optind + (1 - (end - nonopt_start))
        BY <1>6, <3>1, Zenon
      <4> QED
        BY <1>1, <3>0, <4>1
    <3>6. Arranged(given, Options, nargv', (optind + 1) - (end - nonopt_start), optind + 1, optind + 1)
      BY <3>1, <3>3, <3>4, ArrangedRotated
    <3> QED
      BY <1>2, <1>5, <1>7, <3>5, <3>6, PermutedEnd
  <2>4. CASE nonopt_start = -1
    <3>1. end = -1 /\ OperandsFrom = optind /\ Beyond = optind
      BY <2>4 DEF OperandsFrom, Beyond, Scanning, Passed
    <3>2. nargv' = nargv /\ optind' = optind + 1
      BY <1>1, <1>6, <3>1
    <3>3. Arranged(given, Options, nargv', optind, optind, optind + 1)
      BY <2>2, <3>1, <3>2
    <3>4. optind + 1 \in 1 .. optind + 1
      BY <1>1
    <3>5. Arranged(given, Options, nargv', optind + 1, optind + 1, optind + 1)
      BY <3>3, <3>4, ArrangedNone
    <3> QED
      BY <1>2, <1>5, <1>7, <3>2, <3>5, PermutedEnd
  <2> QED
    BY <2>3, <2>4
<1>8. CASE style # "permute"
  <2>1. nargv = given /\ nonopt_start = -1 /\ nonopt_end = -1 /\ \A i \in 1 .. optind - 1 : i \in Options
    BY <1>8 DEF Scanning, Ordered
  <2>2. nargv' = given /\ optind' = optind + 1
    BY <1>1, <1>6, <2>1
  <2>3. \A i \in 1 .. optind' - 1 : i \in Options
    BY <1>1, <1>5, <2>1, <2>2
  <2>4. optind' \in 1 .. n + 1
    BY <1>1, <1>2, <2>2
  <2> QED
    BY <1>2, <1>5, <2>2, <2>3, <2>4, InPlaceEnd
<1> QED
  BY <1>7, <1>8

\* The parsers that stop at the first operand, or at the end of the words.
LEMMA StopSorts ==
  ASSUME given \in Seq(ArgWords), Scanning, style \in {"getopt", "stop"},
         optind <= Len(given) => Operand(given[optind]),
         UNCHANGED <<style, given, nargv, optind>>
  PROVE  GetoptPermutes'
<1>1. Len(given) \in Nat /\ optind \in 1 .. Len(given) + 1 /\ Left(given, style, optind)
  BY DEF Scanning
<1>2. nargv = given /\ \A i \in 1 .. optind - 1 : i \in Options
  BY DEF Scanning, Ordered
<1>3. CASE optind <= Len(given)
  <2>1. optind \in 1 .. Len(given) /\ Operand(given[optind]) /\ style \notin {"permute", "inorder"}
    BY <1>1, <1>3
  <2>2. Options \cap (optind .. Len(given)) = {}
    BY <1>1, <2>1, LeftOperand DEF Options
  <2> QED
    BY <1>1, <1>2, <2>2, InPlaceEnd
<1>4. CASE ~(optind <= Len(given))
  <2>1. Options \cap (optind .. Len(given)) = {}
    BY <1>1, <1>4
  <2> QED
    BY <1>1, <1>2, <2>1, InPlaceEnd
<1> QED
  BY <1>3, <1>4

\* A word that starts with "--", before getopt.
LEMMA GetoptDashesSorts ==
  ASSUME given \in Seq(ArgWords), Scanning, getopt_dashes
  PROVE  GetoptPermutes'
<1>1. Len(nargv) = Len(given) /\ Len(given) \in Nat /\ optind \in 1 .. Len(given) + 1
  BY Ahead DEF Scanning
<1>2. /\ optind <= Len(given) /\ UNCHANGED <<style, given, nargv>> /\ style = "getopt"
      /\ optind' = optind + 1
  BY <1>1 DEF getopt_dashes, AtEnd, Ends, Runs
<1>3. Word = given[optind]
  BY <1>2, Ahead
<1>4. ~Operand(given[optind]) /\ IsEnd(given[optind], style)
  BY <1>2, <1>3 DEF Operand, IsEnd, getopt_dashes
<1>5. optind \in Options /\ Options \cap (optind + 1 .. Len(given)) = {}
  BY <1>2, <1>4, EndIsOption
<1>6. nargv = given /\ \A i \in 1 .. optind - 1 : i \in Options
  BY <1>2 DEF Scanning, Ordered
<1>7. \A i \in 1 .. optind' - 1 : i \in Options
  BY <1>1, <1>2, <1>5, <1>6
<1>8. optind' \in 1 .. Len(given) + 1
  BY <1>1, <1>2
<1> QED
  BY <1>2, <1>5, <1>6, <1>7, <1>8, InPlaceEnd

\* A dash further into a word, before getopt.
LEMMA HaltSorts ==
  ASSUME given \in Seq(ArgWords), Scanning, getopt_dash
  PROVE  GetoptPermutes'
<1>1. /\ Len(given) \in Nat /\ optind \in 1 .. Len(given) + 1 /\ Left(given, style, optind)
      /\ nargv = given /\ \A i \in 1 .. optind - 1 : i \in Options
  BY DEF Scanning, Ordered, getopt_dash, Runs
<1>2. ~Fresh /\ place[1] = "-" /\ style = "getopt" /\ UNCHANGED <<style, given, nargv, optind>>
  BY DEF getopt_dash, Runs, Ends
<1> DEFINE word == given[optind]
<1>3. optind \in 1 .. Len(given) /\ ~Operand(word) /\ ~IsEnd(word, style)
  BY <1>1, <1>2 DEF Scanning, InWord
<1>4. PICK p \in Nat : Within(word, place, p, style)
  BY <1>2 DEF Scanning, InWord
<1>5. word \in Seq(STRING) /\ Len(word) \in Nat
  BY <1>1, <1>3, GetoptAssumption
<1>6. p \in 3 .. Len(word) /\ Reaches(word, p, style) /\ place = SubSeq(word, p, Len(word))
  BY <1>4, Zenon DEF Within
<1>7. place[1] = word[p]
  <2>1. \A k \in p .. Len(word) : word[k] \in STRING
    BY <1>5, <1>6
  <2>2. \A k \in 1 .. Len(word) - p + 1 : SubSeq(word, p, Len(word))[k] = word[p + k - 1]
    BY <1>5, <1>6, <2>1, SubSeqProperties
  <2>3. 1 \in 1 .. Len(word) - p + 1 /\ p + 1 - 1 = p
    BY <1>5, <1>6
  <2> QED
    BY <1>6, <2>2, <2>3
<1>8. Halts(word, style)
  BY <1>2, <1>6, <1>7 DEF Halts
<1>9. Options \cap (optind .. Len(given)) = {}
  BY <1>1, <1>3, <1>8, LeftHalt DEF Options
<1> QED
  BY <1>1, <1>2, <1>9, InPlaceEnd

-----------------------------------------------------------------------------
(* The steps of the scan                                                   *)

\* getopt_long steps over an operand: it is the last of those passed over, and
\* the options behind the earlier ones have moved in front of them.
LEMMA SkippedScans ==
  ASSUME given \in Seq(ArgWords), Scanning, OperandSkipped
  PROVE  Scanning'
<1> DEFINE n == Len(given)
<1>1. Len(nargv) = n /\ n \in Nat /\ optind \in 1 .. n + 1 /\ Left(given, style, optind)
  BY Ahead DEF Scanning
<1>2. /\ optind \in 1 .. n /\ Fresh /\ UNCHANGED <<style, given, place>> /\ style = "permute"
      /\ optind' = optind + 1
  BY <1>1 DEF OperandSkipped, MeetsOperand, AtEnd
<1>3. Operand(given[optind])
  BY <1>2, Ahead DEF OperandSkipped, MeetsOperand
<1>4. optind \notin Options /\ Left(given, style, optind + 1)
  BY <1>1, <1>2, <1>3, LeftOperand DEF Options
<1>5. Options' = Options
  BY <1>2, Zenon DEF Options
<1>6. Arranged(given, Options, nargv, OperandsFrom, Beyond, optind)
  BY <1>2, Zenon DEF Scanning, Ordered
<1>7. /\ nonopt_start \in {-1} \cup (1 .. optind - 1)
      /\ nonopt_end \in {-1} \cup (1 .. optind)
      /\ nonopt_end # -1 => nonopt_start # -1 /\ nonopt_start < nonopt_end
      /\ nonopt_end < optind
  BY <1>2 DEF Scanning, Passed
<1>8. /\ Arranged(given, Options, nargv', OperandsFrom', optind + 1, optind + 1)
      /\ nonopt_start' \in 1 .. optind /\ nonopt_end' = -1
  <2>1. CASE nonopt_start = -1
    <3>1. nonopt_start' = optind /\ nargv' = nargv /\ nonopt_end' = -1
      BY <1>7, <2>1 DEF OperandSkipped
    <3>2. OperandsFrom = optind /\ Beyond = optind /\ OperandsFrom' = optind
      BY <1>1, <1>7, <2>1, <3>1 DEF OperandsFrom, Beyond
    <3>3. Arranged(given, Options, nargv', optind, optind, optind)
      BY <1>6, <3>1, <3>2
    <3>4. Arranged(given, Options, nargv', optind, optind + 1, optind + 1)
      BY <1>2, <1>4, <3>3, ArrangedOperand
    <3> QED
      BY <1>2, <3>1, <3>2, <3>4
  <2>2. CASE nonopt_start # -1 /\ nonopt_end # -1
    <3> DEFINE r == optind - (nonopt_end - nonopt_start)
    <3>1. nonopt_start' = r /\ nargv' = permute_args(nonopt_start, nonopt_end, optind, nargv)
          /\ nonopt_end' = -1
      BY <2>2 DEF OperandSkipped
    <3>2. Arranged(given, Options, nargv, nonopt_start, nonopt_end, optind)
      BY <1>6, <2>2 DEF OperandsFrom, Beyond
    <3>3. Arranged(given, Options, nargv', r, optind, optind)
      BY <1>7, <2>2, <3>1, <3>2, ArrangedRotated
    <3>4. r \in 1 .. optind /\ r # -1
      BY <1>2, <1>7, <2>2
    <3>5. OperandsFrom' = r
      BY <3>1, <3>4 DEF OperandsFrom
    <3> HIDE DEF r
    <3>6. Arranged(given, Options, nargv', r, optind + 1, optind + 1)
      BY <1>2, <1>4, <3>3, ArrangedOperand
    <3> QED
      BY <3>1, <3>4, <3>5, <3>6
  <2>3. CASE nonopt_start # -1 /\ nonopt_end = -1
    <3>1. nonopt_start' = nonopt_start /\ nargv' = nargv /\ nonopt_end' = -1
      BY <2>3 DEF OperandSkipped, nonopts
    <3>2. OperandsFrom = nonopt_start /\ Beyond = optind /\ OperandsFrom' = nonopt_start
      BY <2>3, <3>1 DEF OperandsFrom, Beyond
    <3>3. Arranged(given, Options, nargv', nonopt_start, optind, optind)
      BY <1>6, <3>1, <3>2
    <3>4. Arranged(given, Options, nargv', nonopt_start, optind + 1, optind + 1)
      BY <1>2, <1>4, <3>3, ArrangedOperand
    <3> QED
      BY <1>2, <1>7, <2>3, <3>1, <3>2, <3>4
  <2> QED
    BY <2>1, <2>2, <2>3
<1>9. Beyond' = optind + 1
  BY <1>2, <1>8 DEF Beyond
<1>10. Ordered'
  BY <1>2, <1>5, <1>8, <1>9 DEF Ordered
<1>11. Fresh'
  BY <1>2 DEF Fresh
<1>12. Passed'
  BY <1>2, <1>8, <1>11 DEF Passed
<1>13. InWord'
  BY <1>11 DEF InWord
<1>14. Left(given, style, optind)'
  BY <1>2, <1>4
<1>15. (optind \in 1 .. Len(given) + 1)'
  BY <1>1, <1>2
<1> QED
  BY <1>10, <1>12, <1>13, <1>14, <1>15 DEF Scanning

\* getopt_long returns an operand like an option.
LEMMA ReturnedScans ==
  ASSUME given \in Seq(ArgWords), Scanning, OperandReturned
  PROVE  Scanning'
<1> DEFINE n == Len(given)
<1>1. Len(nargv) = n /\ n \in Nat /\ optind \in 1 .. n + 1 /\ Left(given, style, optind)
  BY Ahead DEF Scanning
<1>2. /\ optind \in 1 .. n /\ Fresh /\ UNCHANGED <<style, given, nargv, place, nonopt_start, nonopt_end>>
      /\ style = "inorder" /\ optind' = optind + 1
  BY <1>1 DEF OperandReturned, MeetsOperand, AtEnd, nonopts
<1>3. Operand(given[optind])
  BY <1>2, Ahead DEF OperandReturned, MeetsOperand
<1>4. optind \in Options /\ Left(given, style, optind + 1)
  BY <1>1, <1>2, <1>3, LeftOperand DEF Options
<1>5. Options' = Options
  BY <1>2, Zenon DEF Options
<1>6. nargv = given /\ nonopt_start = -1 /\ nonopt_end = -1 /\ \A i \in 1 .. optind - 1 : i \in Options
  BY <1>2 DEF Scanning, Ordered
<1>7. \A i \in 1 .. optind' - 1 : i \in Options
  BY <1>1, <1>2, <1>4, <1>6
<1>8. Ordered'
  BY <1>2, <1>5, <1>6, <1>7 DEF Ordered
<1>9. Fresh'
  BY <1>2 DEF Fresh
<1>10. Passed'
  BY <1>2, <1>6, <1>9 DEF Passed
<1>11. InWord'
  BY <1>9 DEF InWord
<1>12. Left(given, style, optind)'
  BY <1>2, <1>4
<1>13. (optind \in 1 .. Len(given) + 1)'
  BY <1>1, <1>2
<1> QED
  BY <1>8, <1>10, <1>11, <1>12, <1>13 DEF Scanning

\* An option ends the operands passed over.
LEMMA Entered ==
  ASSUME given \in Seq(ArgWords), Scanning, EntersOption
  PROVE  /\ nonopt_start' = nonopt_start
         /\ nonopt_start = -1 => nonopt_end = -1 /\ nonopt_end' = -1
         /\ nonopt_start # -1 => /\ nonopt_start \in 1 .. optind - 1
                                 /\ nonopt_end' \in 1 .. optind /\ nonopt_end' = Beyond
                                 /\ nonopt_start < nonopt_end'
<1>1. Len(given) \in Nat /\ optind \in 1 .. Len(given) + 1 /\ Passed
  BY DEF Scanning
<1>2. CASE Fresh /\ nonopt_start # -1 /\ nonopt_end = -1
  BY <1>1, <1>2 DEF EntersOption, Beyond, Passed
<1>3. CASE ~(Fresh /\ nonopt_start # -1 /\ nonopt_end = -1)
  BY <1>1, <1>3 DEF EntersOption, Beyond, Passed, nonopts
<1> QED
  BY <1>2, <1>3

\* An option is behind the scan, with the argument it took.
LEMMA OptionScans ==
  ASSUME given \in Seq(ArgWords), Scanning, optind <= Len(given),
         ~Operand(given[optind]), ~IsEnd(given[optind], style), ~Halts(given[optind], style),
         EntersOption, UNCHANGED <<style, given, nargv>>, place' = <<>>,
         optind' = optind + Takes(given[optind], style, optind, Len(given))
  PROVE  Scanning'
<1> DEFINE n == Len(given)
           d == Takes(given[optind], style, optind, n)
<1>1. n \in Nat /\ optind \in 1 .. n /\ Left(given, style, optind)
  BY DEF Scanning
<1>2. /\ d \in {1, 2}
      /\ optind + d \in 1 .. n + 1
      /\ optind \in Options
      /\ d = 2 => optind + 1 \in Options /\ optind + 1 <= n
      /\ Left(given, style, optind + d)
  BY <1>1, LeftOption DEF Options
<1>3. optind' = optind + d
  OBVIOUS
<1> HIDE DEF d
<1>4. Options' = Options
  BY Zenon DEF Options
<1>5. Fresh'
  BY DEF Fresh
<1>6. /\ nonopt_start' = nonopt_start
      /\ nonopt_start = -1 => nonopt_end = -1 /\ nonopt_end' = -1
      /\ nonopt_start # -1 => /\ nonopt_start \in 1 .. optind - 1
                              /\ nonopt_end' \in 1 .. optind /\ nonopt_end' = Beyond
                              /\ nonopt_start < nonopt_end'
  BY Entered
<1>7. Passed'
  BY <1>1, <1>2, <1>3, <1>5, <1>6 DEF Passed
<1>8. ASSUME style = "permute" PROVE Ordered'
  <2>1. Arranged(given, Options, nargv, OperandsFrom, Beyond, optind)
    BY <1>8, Zenon DEF Scanning, Ordered
  <2>2. Arranged(given, Options, nargv, OperandsFrom, Beyond, optind + 1)
    BY <1>1, <1>2, <2>1, ArrangedOption
  <2>3. Arranged(given, Options, nargv, OperandsFrom, Beyond, optind + d)
    <3>1. CASE d = 1
      BY <2>2, <3>1
    <3>2. CASE d = 2
      <4>1. Arranged(given, Options, nargv, OperandsFrom, Beyond, (optind + 1) + 1)
        BY <1>2, <2>2, <3>2, ArrangedOption
      <4>2. (optind + 1) + 1 = optind + d
        BY <1>1, <3>2
      <4> QED
        BY <4>1, <4>2
    <3> QED
      BY <1>2, <3>1, <3>2
  <2>4. Arranged(given, Options, nargv, OperandsFrom', Beyond', optind + d)
    <3>1. CASE nonopt_start = -1
      <4>1. OperandsFrom = optind /\ Beyond = optind /\ OperandsFrom' = optind + d /\ Beyond' = optind + d
        BY <1>3, <1>6, <3>1 DEF OperandsFrom, Beyond
      <4>2. Arranged(given, Options, nargv, optind, optind, optind + d)
        BY <2>3, <4>1
      <4>3. optind + d \in 1 .. optind + d
        BY <1>1, <1>2
      <4>4. Arranged(given, Options, nargv, optind + d, optind + d, optind + d)
        BY <4>2, <4>3, ArrangedNone
      <4> QED
        BY <4>1, <4>4
    <3>2. CASE nonopt_start # -1
      <4>1. OperandsFrom' = OperandsFrom
        BY <1>6, <3>2 DEF OperandsFrom
      <4>2. Beyond' = Beyond
        <5>1. nonopt_end' = Beyond /\ nonopt_end' # -1
          BY <1>1, <1>6, <3>2
        <5>2. Beyond' = nonopt_end'
          BY <5>1 DEF Beyond
        <5> QED
          BY <5>1, <5>2
      <4> QED
        BY <2>3, <4>1, <4>2
    <3> QED
      BY <3>1, <3>2
  <2> QED
    BY <1>3, <1>4, <1>8, <2>4 DEF Ordered
<1>9. ASSUME style # "permute" PROVE Ordered'
  <2>1. nargv = given /\ nonopt_start = -1 /\ nonopt_end = -1 /\ \A i \in 1 .. optind - 1 : i \in Options
    BY <1>9 DEF Scanning, Ordered
  <2>2. \A i \in 1 .. optind' - 1 : i \in Options
    BY <1>1, <1>2, <1>3, <2>1
  <2>3. nargv' = given' /\ nonopt_start' = -1 /\ nonopt_end' = -1
    BY <1>6, <2>1
  <2> QED
    BY <1>4, <1>9, <2>2, <2>3 DEF Ordered
<1>10. InWord'
  BY <1>5 DEF InWord
<1>11. Left(given, style, optind)'
  BY <1>2, <1>3
<1>12. (optind \in 1 .. Len(given) + 1)'
  BY <1>2, <1>3
<1>13. Ordered'
  BY <1>8, <1>9
<1> QED
  BY <1>7, <1>10, <1>11, <1>12, <1>13 DEF Scanning

\* Letters of the word are left behind an option without an argument.
LEMMA LetterScans ==
  ASSUME given \in Seq(ArgWords), Scanning,
         EntersOption, UNCHANGED <<style, given, nargv, optind>>, ~Fresh', InWord'
  PROVE  Scanning'
<1>1. Len(given) \in Nat /\ optind \in 1 .. Len(given) + 1 /\ Left(given, style, optind)
  BY DEF Scanning
<1>2. Options' = Options
  BY Zenon DEF Options
<1>3. /\ nonopt_start' = nonopt_start
      /\ nonopt_start = -1 => nonopt_end = -1 /\ nonopt_end' = -1
      /\ nonopt_start # -1 => /\ nonopt_start \in 1 .. optind - 1
                              /\ nonopt_end' \in 1 .. optind /\ nonopt_end' = Beyond
                              /\ nonopt_start < nonopt_end'
  BY Entered
<1>4. Passed'
  BY <1>1, <1>3 DEF Passed
<1>5. OperandsFrom' = OperandsFrom
  BY <1>3 DEF OperandsFrom
<1>6. Beyond' = Beyond
  <2>1. CASE nonopt_start = -1
    BY <1>3, <2>1 DEF Beyond
  <2>2. CASE nonopt_start # -1
    <3>1. nonopt_end' = Beyond /\ nonopt_end' # -1
      BY <1>1, <1>3, <2>2
    <3>2. Beyond' = nonopt_end'
      BY <3>1 DEF Beyond
    <3> QED
      BY <3>1, <3>2
  <2> QED
    BY <2>1, <2>2
<1>7. Ordered'
  <2>1. CASE style = "permute"
    BY <1>2, <1>5, <1>6, <2>1 DEF Scanning, Ordered
  <2>2. CASE style # "permute"
    <3>1. nargv = given /\ nonopt_start = -1 /\ \A i \in 1 .. optind - 1 : i \in Options
      BY <2>2 DEF Scanning, Ordered
    <3> QED
      BY <1>2, <1>3, <2>2, <3>1 DEF Ordered
  <2> QED
    BY <2>1, <2>2
<1>8. Left(given, style, optind)'
  BY <1>1
<1>9. (optind \in 1 .. Len(given) + 1)'
  BY <1>1
<1> QED
  BY <1>4, <1>7, <1>8, <1>9 DEF Scanning

\* The parser is at letter p of the word.
AtLetter(word, letters, p, s) ==
  /\ p \in 2 .. Len(word) /\ Reaches(word, p, s)
  /\ letters = SubSeq(word, p, Len(word))
  /\ letters[1] = word[p]
  /\ Tail(letters) = SubSeq(word, p + 1, Len(word))

\* What is left of a word begins with the letter the parser is at.
LEMMA LettersOf ==
  ASSUME NEW word \in Seq(STRING), NEW p \in 2 .. Len(word), NEW s, Reaches(word, p, s)
  PROVE  AtLetter(word, SubSeq(word, p, Len(word)), p, s)
<1>1. Len(word) \in Nat
  OBVIOUS
<1>2. p \in 1 .. Len(word) /\ Len(word) \in p .. Len(word) /\ p \in Int /\ Len(word) \in Int
  BY <1>1
<1>3. Tail(SubSeq(word, p, Len(word))) = SubSeq(word, p + 1, Len(word))
  BY <1>2, HeadTailOfSubSeq
<1>4. \A k \in p .. Len(word) : word[k] \in STRING
  BY <1>1
<1>5. \A k \in 1 .. Len(word) - p + 1 : SubSeq(word, p, Len(word))[k] = word[p + k - 1]
  BY <1>2, <1>4, SubSeqProperties
<1>6. 1 \in 1 .. Len(word) - p + 1 /\ p + 1 - 1 = p
  BY <1>1
<1>7. SubSeq(word, p, Len(word))[1] = word[p]
  BY <1>5, <1>6
<1> QED
  BY <1>3, <1>7 DEF AtLetter

\* Where the parser is when it comes to an option.
LEMMA InOptionAt ==
  ASSUME given \in Seq(ArgWords), Scanning, InOption
  PROVE  /\ optind <= Len(given)
         /\ given[optind] \in ArgWords
         /\ given[optind] \in Seq(STRING)
         /\ ~Operand(given[optind])
         /\ \E p \in Nat : /\ AtLetter(given[optind], Letters, p, style)
                           /\ p = 2 => given[optind] # Dashes
                           /\ p > 2 => ~IsEnd(given[optind], style)
<1>1. Len(nargv) = Len(given) /\ Len(given) \in Nat /\ optind \in 1 .. Len(given) + 1
  BY Ahead DEF Scanning
<1>2. optind <= Len(given)
  BY <1>1 DEF InOption, AtEnd, Scanning, InWord
<1> DEFINE word == given[optind]
<1>3. Word = word /\ word \in ArgWords
  BY <1>1, <1>2, Ahead
<1>4. word \in Seq(STRING)
  BY <1>3, GetoptAssumption
<1>5. ~Operand(word)
  BY <1>3 DEF InOption, Scanning, InWord
<1>6. Len(word) \in Nat /\ Len(word) > 1
  BY <1>4, <1>5 DEF Operand
<1>7. CASE Fresh
  <2>1. word # << >> /\ 2 \in 2 .. Len(word) /\ Reaches(word, 2, style)
    BY <1>6 DEF Reaches
  <2>2. Letters = SubSeq(word, 2, Len(word))
    BY <1>3, <1>4, <1>7, <2>1, TailIsSubSeq DEF Letters
  <2>3. AtLetter(word, SubSeq(word, 2, Len(word)), 2, style)
    BY <1>4, <2>1, LettersOf
  <2>4. word # Dashes
    BY <1>3, <1>7 DEF InOption
  <2> QED
    BY <1>2, <1>3, <1>4, <1>5, <2>2, <2>3, <2>4
<1>8. CASE ~Fresh
  <2>1. PICK p \in Nat : Within(word, place, p, style)
    BY <1>8 DEF Scanning, InWord
  <2>2. /\ p \in 3 .. Len(word)
        /\ place = SubSeq(word, p, Len(word))
        /\ Reaches(word, p, style)
    BY <2>1, Zenon DEF Within
  <2>3. p \in 2 .. Len(word) /\ p # 2
    BY <1>6, <2>2
  <2>4. Letters = place
    BY <1>8 DEF Letters
  <2>5. AtLetter(word, place, p, style)
    BY <1>4, <2>2, <2>3, LettersOf
  <2>6. ~IsEnd(word, style)
    BY <1>8 DEF Scanning, InWord
  <2> QED
    BY <1>2, <1>3, <1>4, <1>5, <2>3, <2>4, <2>5, <2>6
<1> QED
  BY <1>7, <1>8

\* No argument is taken before the parser is at the letter that takes it.
LEMMA WantsAt ==
  ASSUME NEW word, Len(word) \in Nat, NEW p, NEW s, Reaches(word, p, s),
         word[p] = "-" \/ Arg(word[p], s) # "no" \/ p = Len(word)
  PROVE  WantsNext(word, s) <=> NeedsMore(word, p, s)
<1>1. p \in 2 .. Len(word) /\ \A k \in 2 .. p - 1 : word[k] # "-" /\ Arg(word[k], s) = "no"
  BY DEF Reaches
<1>2. ASSUME NEW k \in 2 .. Len(word), Reaches(word, k, s), NeedsMore(word, k, s)
      PROVE  k = p
  <2>1. CASE k < p
    <3>1. k \in 2 .. p - 1
      BY <1>1, <2>1
    <3>2. word[k] # "-" /\ Arg(word[k], s) = "no"
      BY <1>1, <3>1
    <3> QED
      BY <1>2, <3>2 DEF NeedsMore
  <2>2. CASE k > p
    <3>1. p \in 2 .. k - 1 /\ p # Len(word)
      BY <1>1, <2>2
    <3>2. word[p] # "-" /\ Arg(word[p], s) = "no"
      BY <1>2, <3>1 DEF Reaches
    <3> QED
      BY <3>1, <3>2
  <2> QED
    BY <1>1, <2>1, <2>2
<1> QED
  BY <1>1, <1>2, Zenon DEF WantsNext

\* A long option.
LEMMA LongScans ==
  ASSUME given \in Seq(ArgWords), Scanning, LongOption
  PROVE  Scanning'
<1> DEFINE word == given[optind]
           rest == Tail(Letters)
<1>1. /\ optind <= Len(given) /\ word \in ArgWords /\ word \in Seq(STRING) /\ ~Operand(word)
      /\ \E p \in Nat : /\ AtLetter(word, Letters, p, style)
                        /\ p = 2 => word # Dashes
                        /\ p > 2 => ~IsEnd(word, style)
  BY InOptionAt DEF LongOption
<1>2. PICK p \in Nat : /\ AtLetter(word, Letters, p, style)
                       /\ p = 2 => word # Dashes
                       /\ p > 2 => ~IsEnd(word, style)
  BY <1>1
<1>3. Len(nargv) = Len(given) /\ Len(word) \in Nat
  BY <1>1, Ahead
<1>4. /\ p \in 2 .. Len(word) /\ word[p] = "-" /\ Reaches(word, p, style)
      /\ rest = SubSeq(word, p + 1, Len(word))
  BY <1>2 DEF AtLetter, LongOption
<1>5. style # "getopt"
  BY DEF LongOption
<1>6. ~IsEnd(word, style) /\ ~Halts(word, style)
  <2>1. p = 2 \/ p > 2
    BY <1>3, <1>4
  <2> QED
    BY <1>2, <1>5, <2>1 DEF IsEnd, Halts
<1> HIDE DEF rest, word
<1>7. WantsNext(word, style)
        <=> ~Contains(rest, "=") /\ \E i \in Match(rest) : LongOpts[i].has_arg = "needs"
  <2>1. WantsNext(word, style) <=> NeedsMore(word, p, style)
    BY <1>3, <1>4, WantsAt
  <2> QED
    BY <1>4, <2>1, Zenon DEF NeedsMore
<1>8. parse_long_options(rest) = Takes(word, style, optind, Len(given))
  <2>1. CASE Contains(rest, "=")
    BY <1>7, <2>1, Zenon DEF parse_long_options, Takes
  <2>2. CASE ~Contains(rest, "=")
    <3>1. NameOf(rest) = rest
      BY <2>2, Zenon DEF NameOf
    <3> QED
      BY <1>3, <1>7, <2>2, <3>1, Zenon DEF parse_long_options, Takes
  <2> QED
    BY <2>1, <2>2
<1>9. /\ optind' = optind + Takes(word, style, optind, Len(given))
      /\ place' = << >> /\ EntersOption /\ UNCHANGED <<style, given, nargv>>
  BY <1>8, Zenon DEF LongOption, rest
<1> QED
  BY <1>1, <1>6, <1>9, OptionScans DEF word

-----------------------------------------------------------------------------
(* The theorem                                                             *)

\* What is left of a word from a letter on.
LEMMA RestIs ==
  ASSUME NEW word \in Seq(STRING), NEW p \in 2 .. Len(word)
  PROVE  SubSeq(word, p + 1, Len(word)) = << >> <=> p = Len(word)
<1>1. Len(word) \in Nat /\ p + 1 \in Int
  OBVIOUS
<1>2. \A k \in p + 1 .. Len(word) : word[k] \in STRING
  BY <1>1
<1>3. Len(SubSeq(word, p + 1, Len(word))) = IF p + 1 <= Len(word) THEN Len(word) - (p + 1) + 1 ELSE 0
  BY <1>1, <1>2, SubSeqProperties
<1>4. CASE p = Len(word)
  <2>1. Len(word) < p + 1
    BY <1>1, <1>4
  <2> QED
    BY <1>1, <1>4, <2>1, SubSeqEmpty
<1>5. CASE p # Len(word)
  <2>1. Len(SubSeq(word, p + 1, Len(word))) > 0
    BY <1>1, <1>3, <1>5
  <2>2. Len(<< >>) = 0
    OBVIOUS
  <2>3. Len(SubSeq(word, p + 1, Len(word))) # Len(<< >>)
    BY <2>1, <2>2
  <2>4. SubSeq(word, p + 1, Len(word)) # << >>
    BY <2>3, Zenon
  <2> QED
    BY <1>5, <2>4, Zenon
<1> QED
  BY <1>4, <1>5

\* The argument of an option letter: getopt asks for one that may be left out.
LEMMA ArgIs ==
  ASSUME NEW c, NEW s
  PROVE  LET arg == IF c \in DOMAIN ShortOpts THEN ShortOpts[c] ELSE "no"
         IN /\ arg = "no" <=> Arg(c, s) = "no"
            /\ arg = "needs" \/ (s = "getopt" /\ arg = "may") <=> Arg(c, s) = "needs"
<1>1. CASE c \notin DOMAIN ShortOpts
  <2>1. Arg(c, s) = "no"
    BY <1>1 DEF Arg
  <2> QED
    BY <1>1, <2>1
<1>2. CASE c \in DOMAIN ShortOpts /\ s = "getopt" /\ ShortOpts[c] = "may"
  <2>1. Arg(c, s) = "needs"
    BY <1>2 DEF Arg
  <2> QED
    BY <1>2, <2>1
<1>3. CASE c \in DOMAIN ShortOpts /\ ~(s = "getopt" /\ ShortOpts[c] = "may")
  <2>1. Arg(c, s) = ShortOpts[c]
    BY <1>3 DEF Arg
  <2> QED
    BY <1>3, <2>1
<1> QED
  BY <1>1, <1>2, <1>3

\* An option letter with its argument, or the one after it.
LEMMA ShortScans ==
  ASSUME given \in Seq(ArgWords), Scanning, ShortOption
  PROVE  Scanning'
<1> DEFINE word == given[optind]
           n == Len(given)
           rest == Tail(Letters)
           arg == IF Letters[1] \in DOMAIN ShortOpts THEN ShortOpts[Letters[1]] ELSE "no"
           needs == arg = "needs" \/ (style = "getopt" /\ arg = "may")
<1>1. /\ optind <= n /\ word \in ArgWords /\ word \in Seq(STRING) /\ ~Operand(word)
      /\ \E p \in Nat : /\ AtLetter(word, Letters, p, style)
                        /\ p = 2 => word # Dashes
                        /\ p > 2 => ~IsEnd(word, style)
  BY InOptionAt DEF ShortOption
<1>2. PICK p \in Nat : /\ AtLetter(word, Letters, p, style)
                       /\ p > 2 => ~IsEnd(word, style)
  BY <1>1
<1>3. /\ Len(nargv) = n /\ Len(word) \in Nat /\ n \in Nat /\ optind \in 1 .. n + 1
  BY <1>1, Ahead DEF Scanning
<1>4. p \in 2 .. Len(word) /\ word[p] # "-" /\ rest = SubSeq(word, p + 1, Len(word)) /\ Letters[1] = word[p]
  BY <1>2 DEF AtLetter, ShortOption
<1>5. Reaches(word, p, style)
  BY <1>2, Zenon DEF AtLetter
<1>6. ~IsEnd(word, style)
  <2>1. CASE p = 2
    <3>1. word[2] # "-"
      BY <1>4, <2>1
    <3> QED
      BY <3>1 DEF IsEnd, Dashes
  <2>2. CASE p # 2
    BY <1>2, <1>4, <2>2
  <2> QED
    BY <2>1, <2>2
<1>7. rest = << >> <=> p = Len(word)
  BY <1>1, <1>4, RestIs
<1>8. arg = "no" <=> Arg(word[p], style) = "no"
  BY <1>4, ArgIs
<1>9. needs <=> Arg(word[p], style) = "needs"
  BY <1>4, ArgIs
<1>10. /\ place' = IF arg = "no" THEN rest ELSE << >>
       /\ optind' = CASE arg = "no" /\ rest # << >> -> optind
                      [] needs /\ rest = << >> /\ optind < Len(nargv) -> optind + 2
                      [] OTHER -> optind + 1
       /\ EntersOption /\ UNCHANGED <<style, given, nargv>>
  BY DEF ShortOption
<1> HIDE DEF word, rest, arg, needs, n
<1>11. CASE arg = "no" /\ rest # << >>
  <2>1. place' = rest /\ optind' = optind
    BY <1>10, <1>11
  <2>2. ~Fresh'
    BY <1>11, <2>1 DEF Fresh
  <2>3. p + 1 \in Nat /\ p + 1 \in 3 .. Len(word)
    BY <1>3, <1>4, <1>7, <1>11
  <2>4. Reaches(word, p + 1, style)
    <3>1. \A k \in 2 .. (p + 1) - 1 : k \in 2 .. p - 1 \/ k = p
      BY <1>3, <1>4
    <3>2. word[p] # "-" /\ Arg(word[p], style) = "no"
      BY <1>4, <1>8, <1>11
    <3>3. p + 1 \in 2 .. Len(word)
      BY <2>3
    <3> QED
      BY <1>5, <3>1, <3>2, <3>3, Zenon DEF Reaches
  <2>5. Within(word, place', p + 1, style)
    BY <1>4, <2>1, <2>3, <2>4 DEF Within
  <2>6. InWord'
    BY <1>1, <1>6, <1>10, <2>1, <2>3, <2>5 DEF InWord, word, n
  <2> QED
    BY <1>10, <2>1, <2>2, <2>6, LetterScans
<1>12. CASE ~(arg = "no" /\ rest # << >>)
  <2>1. place' = << >>
    BY <1>10, <1>12
  <2>2. WantsNext(word, style) <=> needs /\ rest = << >>
    <3>1. word[p] = "-" \/ Arg(word[p], style) # "no" \/ p = Len(word)
      BY <1>7, <1>8, <1>12
    <3>2. WantsNext(word, style) <=> NeedsMore(word, p, style)
      BY <1>3, <1>5, <3>1, WantsAt
    <3>3. NeedsMore(word, p, style) <=> p = Len(word) /\ Arg(word[p], style) = "needs"
      BY <1>4, Zenon DEF NeedsMore
    <3> QED
      BY <1>7, <1>9, <3>2, <3>3
  <2>3. optind' = optind + Takes(word, style, optind, n)
    <3>1. optind' = IF needs /\ rest = << >> /\ optind < n THEN optind + 2 ELSE optind + 1
      BY <1>3, <1>10, <1>12
    <3> QED
      BY <2>2, <3>1 DEF Takes
  <2>4. ~Halts(word, style)
    <3>1. SUFFICES ASSUME NEW k \in 3 .. Len(word), Reaches(word, k, style), word[k] = "-"
                   PROVE  FALSE
      BY DEF Halts
    <3>2. CASE k < p
      <4>1. k \in 2 .. p - 1
        BY <1>3, <1>4, <3>2
      <4> QED
        BY <1>5, <3>1, <4>1 DEF Reaches
    <3>3. CASE k = p
      BY <1>4, <3>1, <3>3
    <3>4. CASE k > p
      <4>1. p \in 2 .. k - 1 /\ p # Len(word)
        BY <1>3, <1>4, <3>4
      <4>2. Arg(word[p], style) = "no"
        BY <3>1, <4>1 DEF Reaches
      <4> QED
        BY <1>7, <1>8, <1>12, <4>1, <4>2
    <3> QED
      BY <1>3, <1>4, <3>2, <3>3, <3>4
  <2> QED
    BY <1>1, <1>6, <1>10, <2>1, <2>3, <2>4, OptionScans DEF word, n
<1> QED
  BY <1>11, <1>12

\* A parser begins on words that nobody has moved.
LEMMA BeginsScanning ==
  ASSUME GetoptInit, NEW words \in CommandLines, NEW s \in Styles, ParseBegins(words, s)
  PROVE  given' \in Seq(ArgWords) /\ Scanning'
<1>1. words \in Seq(ArgWords)
  BY GetoptAssumption DEF CommandLines, SeqOf
<1>2. /\ style' = s /\ given' = words /\ nargv' = words /\ optind' = 1 /\ place' = << >>
      /\ nonopt_start' = -1 /\ nonopt_end' = -1
  BY DEF ParseBegins, GetoptInit, nonopts
<1>3. Len(words) \in Nat /\ 1 \in 1 .. Len(words) + 1
  BY <1>1
<1>4. Fresh'
  BY <1>2 DEF Fresh
<1>5. InWord'
  BY <1>4 DEF InWord
<1>6. Passed'
  BY <1>2, <1>4 DEF Passed
<1>7. Left(given, style, optind)'
  BY <1>2, <1>3, LeftFirst
<1>8. Ordered'
  <2>1. OperandsFrom' = 1 /\ Beyond' = 1
    BY <1>2 DEF OperandsFrom, Beyond
  <2>2. Arranged(words, Options', words, 1, 1, 1)
    BY <1>1, ArrangedFirst
  <2>3. \A i \in 1 .. 1 - 1 : i \in Options'
    OBVIOUS
  <2> QED
    BY <1>2, <2>1, <2>2, <2>3 DEF Ordered
<1> QED
  BY <1>1, <1>2, <1>3, <1>5, <1>6, <1>7, <1>8 DEF Scanning

\* Every step of the parsers preserves the invariant.
LEMMA GetoptStep ==
  ASSUME GetoptInv, [GetoptNext]_getoptVars
  PROVE  GetoptInv'
<1> USE DEF GetoptInv
<1>1. ASSUME NEW words \in CommandLines, NEW s \in Styles, ParseBegins(words, s) PROVE GetoptInv'
  <2>1. GetoptInit
    BY <1>1 DEF ParseBegins
  <2>2. given' \in Seq(ArgWords) /\ Scanning'
    BY <1>1, <2>1, BeginsScanning
  <2>3. style' # "idle" /\ ~ended'
    BY <1>1, <2>1 DEF ParseBegins, GetoptInit, Styles
  <2> QED
    BY <2>2, <2>3 DEF GetoptPermutes
<1>2. ASSUME Runs(Styles), Ends, GetoptPermutes' PROVE GetoptInv'
  BY <1>2 DEF Ends, Runs, Styles
<1>3. ASSUME Runs(Styles), Scanning', UNCHANGED <<style, ended, given>> PROVE GetoptInv'
  BY <1>3 DEF Runs, Styles, GetoptPermutes
<1>4. ASSUME Runs(Styles) PROVE given \in Seq(ArgWords) /\ Scanning
  BY <1>4 DEF Runs, Styles
<1>5. \A S \in SUBSET Styles : Runs(S) => Runs(Styles)
  BY DEF Runs
<1>6. \A S \in SUBSET Styles : S \subseteq Styles
  OBVIOUS
<1>7. Styles \ {"getopt"} \in SUBSET Styles /\ {"getopt"} \in SUBSET Styles /\ Styles \in SUBSET Styles
  BY DEF Styles
<1> HIDE DEF GetoptInv
<1>8. CASE LongEnds
  BY <1>2, <1>4, <1>5, <1>7, <1>8, LongEndsSorts DEF LongEnds
<1>9. CASE LongDashes
  BY <1>2, <1>4, <1>5, <1>7, <1>9, LongDashesSorts DEF LongDashes
<1>10. CASE LongOption
  BY <1>3, <1>4, <1>5, <1>7, <1>10, LongScans DEF LongOption, InOption
<1>11. CASE ShortOption
  BY <1>3, <1>4, <1>5, <1>7, <1>11, ShortScans DEF ShortOption, InOption
<1>12. CASE getopt_ends
  <2>1. Runs(Styles) /\ Scanning /\ given \in Seq(ArgWords) /\ Ends
    BY <1>4, <1>5, <1>7, <1>12 DEF getopt_ends
  <2>2. style = "getopt" /\ UNCHANGED <<style, given, nargv, optind>>
    BY <1>12 DEF getopt_ends, Runs, Ends
  <2>3. optind <= Len(given) => Operand(given[optind])
    <3>1. Len(nargv) = Len(given) /\ Len(given) \in Nat /\ optind \in 1 .. Len(given) + 1
      BY <2>1, Ahead DEF Scanning
    <3> QED
      BY <1>12, <2>1, <3>1, Ahead DEF getopt_ends, AtEnd
  <2> QED
    BY <1>2, <2>1, <2>2, <2>3, StopSorts
<1>13. CASE getopt_dashes
  BY <1>2, <1>4, <1>5, <1>7, <1>13, GetoptDashesSorts DEF getopt_dashes
<1>14. CASE OperandReturned
  BY <1>3, <1>4, <1>5, <1>7, <1>14, ReturnedScans DEF OperandReturned, MeetsOperand
<1>15. CASE OperandStops
  <2>1. Runs(Styles) /\ Scanning /\ given \in Seq(ArgWords) /\ Ends
    BY <1>4, <1>5, <1>7, <1>15 DEF OperandStops, MeetsOperand
  <2>2. style = "stop" /\ UNCHANGED <<style, given, nargv, optind>>
    BY <1>15 DEF OperandStops, Ends
  <2>3. optind <= Len(given) => Operand(given[optind])
    BY <1>15, <2>1, Ahead DEF OperandStops, MeetsOperand
  <2> QED
    BY <1>2, <2>1, <2>2, <2>3, StopSorts
<1>16. CASE OperandSkipped
  BY <1>3, <1>4, <1>5, <1>7, <1>16, SkippedScans DEF OperandSkipped, MeetsOperand
<1>17. CASE getopt_dash
  BY <1>2, <1>4, <1>5, <1>7, <1>17, HaltSorts DEF getopt_dash
<1>18. CASE UNCHANGED getoptVars
  <2>1. /\ style' = style /\ ended' = ended /\ given' = given /\ nargv' = nargv
        /\ optind' = optind /\ place' = place
        /\ nonopt_start' = nonopt_start /\ nonopt_end' = nonopt_end
    BY <1>18 DEF getoptVars, nonopts
  <2>2. GetoptInit => GetoptInit'
    BY <2>1 DEF GetoptInit
  <2>3. Scanning => Scanning'
    BY <2>1 DEF Scanning, Passed, InWord, Ordered, OperandsFrom, Beyond, Fresh, Options
  <2>4. GetoptPermutes => GetoptPermutes'
    BY <2>1 DEF GetoptPermutes, Sorts, Options
  <2> QED
    BY <2>1, <2>2, <2>3, <2>4 DEF GetoptInv
<1> QED
  BY <1>1, <1>8, <1>9, <1>10, <1>11, <1>12, <1>13, <1>14, <1>15, <1>16, <1>17, <1>18 DEF GetoptNext

\* getopt.c and getopt_long.c: on every command line and list of options, a parser
\* that is done has the words it was given; getopt_long has moved the options with
\* their arguments in front of the operands, each in their order.
THEOREM GetoptPermutesAlways == GetoptSpec => []GetoptPermutes
<1>1. GetoptInit => GetoptInv
  <2>1. GetoptInit => given \in Seq(ArgWords)
    BY DEF GetoptInit
  <2>2. GetoptInit => style = "idle" /\ ~ended
    BY DEF GetoptInit
  <2> QED
    BY <2>1, <2>2 DEF GetoptInv, GetoptPermutes
<1>2. GetoptInv /\ [GetoptNext]_getoptVars => GetoptInv'
  BY GetoptStep
<1>3. GetoptInv => GetoptPermutes
  BY DEF GetoptInv
<1> QED
  BY <1>1, <1>2, <1>3, PTL DEF GetoptSpec
=============================================================================
