--------------------------- MODULE FdTableProofs ----------------------------
(***************************************************************************)
(* Proofs about FdTable, for careful programs: any number of threads,      *)
(* descriptors, host descriptors and files.                                *)
(***************************************************************************)
EXTENDS FdTable, WellFoundedInduction, TLAPS

-----------------------------------------------------------------------------
(* The inductive invariant.  First, what holds of a thread where it stands.*)

Opening == {"open_host", "open_init", "open_undo"}
Moving == {"io", "io_add", "io_set"}
Duping == {"dup_new", "dup_get_new", "dup_close", "dup_close_get", "dup_clone"}
Ending == {"close_host", "close_free"}

\* The thread holds the mutex of the entry of fd, or that of the table.
HasEntry(th) ==
  \/ pc[th] \in Moving \cup Duping
  \/ pc[th] \in Ending /\ op[th] = "dup2"
HasTable(th) == pc[th] \in {"get", "dup_get_new", "dup_close_get"}

\* The thread found the entry that it closes used, and has not freed it.
MeansToClose(th) ==
  \/ op[th] = "close"
  \/ op[th] = "dup2" /\ pc[th] \in {"dup_get_new", "dup_close", "dup_close_get"} \cup Ending

Labelled(th) ==
  /\ op[th] = "none" <=> pc[th] = "idle"
  /\ op[th] = "open" <=> pc[th] \in Opening
  /\ op[th] = "io" => pc[th] \in {"get"} \cup Moving
  /\ op[th] = "close" => pc[th] \in {"get"} \cup Ending
  /\ op[th] = "dup2" => pc[th] \in {"get"} \cup Ending \cup Duping

Argued(th) ==
  /\ op[th] = "none" => fd[th] = None
  /\ op[th] # "none" => fd[th] \in Fds
  /\ op[th] = "dup2" => new[th] \in Fds \ {fd[th]}
  /\ op[th] # "dup2" => new[th] = None

\* What is in the entries of its arguments.
Found(th) ==
  /\ op[th] # "none" => used[fd[th]]
  /\ op[th] = "open" => real[fd[th]] = None
  /\ MeansToClose(th) => used[Closee(th)]
  /\ pc[th] = "dup_clone" => ~used[new[th]]

\* What it works with.
Works(th) ==
  /\ pc[th] = "close_host" => reg[th] = real[Closee(th)]
  /\ pc[th] = "io_set" => reg[th] \in 0 .. MaxPos
  /\ pc[th] = "io_add" => reg[th] \in 0 .. MaxPos /\ offset[fd[th]] + reg[th] <= MaxPos

-----------------------------------------------------------------------------
(* Who holds the mutexes.                                                  *)
Locked ==
  /\ \A f \in Fds : elock[f] # None => HasEntry(elock[f]) /\ fd[elock[f]] = f
  /\ \A th \in Threads : HasEntry(th) => elock[fd[th]] = th
  /\ tlock # None => HasTable(tlock)
  /\ \A th \in Threads : HasTable(th) => tlock = th

(* Entries and the host's descriptors.                                     *)

\* The entry is in use and nobody is filling or freeing it.
Settled(f) ==
  /\ used[f]
  /\ \A th \in Threads : fd[th] = f => op[th] # "open"
  /\ \A th \in Threads : pc[th] = "close_free" => Closee(th) # f

\* No other entry is a copy of it.
Sole(f) == \A g \in Fds \ {f} : Settled(g) => real[g] # real[f]

HostApart == \A h, i \in Hosts : host[h] = host[i] => h = i \/ host[h] = None

Entries ==
  /\ \A f \in Fds : ~used[f] => real[f] = None
  /\ \A f \in Fds : Settled(f) => real[f] \in Hosts /\ host[real[f]] # None
  /\ \A th \in Threads : MeansToClose(th) /\ pc[th] # "close_free" => Sole(Closee(th))
  /\ \A th \in Threads :
       op[th] = "dup2" /\ pc[th] \in {"get", "dup_new"} /\ used[new[th]] => Sole(new[th])

\* A host descriptor that open has got is in nobody else's hands.
Fresh(th) ==
  pc[th] = "open_init" =>
    /\ reg[th] \in Hosts /\ host[reg[th]] # None /\ pos[host[reg[th]]] = 0
    /\ \A g \in Fds : Settled(g) => real[g] # reg[th]
    /\ \A u \in Threads : u # th /\ pc[u] = "open_init" => reg[u] # reg[th]

Kept ==
  \A h \in Hosts : host[h] # None =>
    \/ \E f \in Fds : Settled(f) /\ real[f] = h
    \/ \E th \in Threads : pc[th] = "open_init" /\ reg[th] = h

\* The offset is the position but for what the call under way is to make up.
Tracks(f) ==
  Settled(f) /\ Sole(f) =>
    /\ (\A th \in Threads : fd[th] = f => pc[th] \notin {"io_add", "io_set"})
         => offset[f] = pos[host[real[f]]]
    /\ \A th \in Threads : fd[th] = f =>
         /\ pc[th] = "io_add" => offset[f] + reg[th] = pos[host[real[f]]]
         /\ pc[th] = "io_set" => reg[th] = pos[host[real[f]]]

-----------------------------------------------------------------------------
ThreadInv == \A th \in Threads : Labelled(th) /\ Argued(th) /\ Found(th) /\ Works(th)
HostInv == HostApart /\ Entries /\ Kept /\ \A th \in Threads : Fresh(th)

FdInv ==
  /\ TypeOK /\ Apart /\ ~ub
  /\ ThreadInv
  /\ Locked
  /\ HostInv
  /\ \A f \in Fds : Tracks(f)

-----------------------------------------------------------------------------
(* Lemmas about one step: only thread th moves.                            *)
OnlyMoves(th) ==
  \A u \in Threads \ {th} :
    /\ pc'[u] = pc[u] /\ op'[u] = op[u] /\ fd'[u] = fd[u]
    /\ new'[u] = new[u] /\ reg'[u] = reg[u]

(* What programs see of a step: the files that the descriptors name, and   *)
(* the positions of these.                                                 *)
Names(f) == IF Settled(f) THEN host[real[f]] ELSE None
NamesStay(S) == \A e \in S : Names(e)' = Names(e)

Unseen ==
  /\ NamesStay(Fds)
  /\ \A e \in Fds : Names(e) # None => pos'[Names(e)] = pos[Names(e)]

Opened ==
  \E f \in Fds, x \in Files :
    /\ Names(f) = None /\ Names(f)' = x /\ NamesStay(Fds \ {f})
    /\ \A e \in Fds : Names(e) # x
    /\ pos' = pos /\ pos[x] = 0

Closed ==
  \E f \in Fds : /\ Names(f) # None /\ Names(f)' = None /\ NamesStay(Fds \ {f})
                 /\ pos' = pos

Copied ==
  \E f, g \in Fds : /\ Names(f) # None /\ Names(g) = None
                    /\ Names(g)' = Names(f) /\ NamesStay(Fds \ {g})
                    /\ pos' = pos

Moved ==
  \E f \in Fds : /\ Names(f) # None /\ NamesStay(Fds)
                 /\ \A x \in Files \ {Names(f)} : pos'[x] = pos[x]

LEMMA LeastIsIn ==
  ASSUME NEW S, S \subseteq Nat, S # {}
  PROVE  Min(S) \in S
<1> DEFINE R == {ss \in Nat \X Nat : ss[1] < ss[2]}
<1>1. IsWellFoundedOn(R, Nat)
  BY NatLessThanWellFounded, Zenon DEF OpToRel
<1>2. \A x, y \in Nat : ~(<<y, x>> \in R) => x <= y
  OBVIOUS
<1> HIDE DEF R
<1>3. PICK x \in S : \A y \in S : ~(<<y, x>> \in R)
  BY <1>1, WFMin
<1>4. \A y \in S : x <= y
  BY <1>2, <1>3
<1> QED
  BY <1>4, Zenon DEF Min

(* Two calls have a descriptor in common only if both read or write it.    *)
LEMMA OthersKeepOff ==
  ASSUME FdInv, NEW th \in Threads, NEW u \in Threads, th # u, NEW f \in Fds,
         f = fd[th] \/ f = new[th], f = fd[u] \/ f = new[u] \/ f = Closee(u)
  PROVE  op[th] = "io" /\ op[u] = "io"
<1>1. f # None
  BY FdTableAssumption DEF FdTableAssumption
<1>2. f \in Uses(th) \cap Uses(u)
  BY <1>1 DEF Uses, Closee
<1> QED
  BY <1>2 DEF FdInv, Apart

LEMMA HolderOf ==
  ASSUME FdInv, NEW f \in Fds, elock[f] # None
  PROVE  \E u \in Threads :
           /\ elock[f] = u /\ HasEntry(u) /\ fd[u] = f /\ used[f]
           /\ op[u] \in {"io", "dup2"}
<1>1. PICK u \in Threads : elock[f] = u
  BY DEF FdInv, TypeOK
<1>2. HasEntry(u) /\ fd[u] = f
  BY <1>1 DEF FdInv, Locked
<1>3. op[u] \in {"io", "dup2"} /\ used[f]
  BY <1>2
     DEF FdInv, TypeOK, ThreadInv, Labelled, Found, HasEntry, Opening, Moving, Duping, Ending
<1> QED
  BY <1>1, <1>2, <1>3

(* What a thread means to close is settled until the host has closed it,   *)
(* and so are the other arguments of its calls.                            *)
LEMMA ArgumentsSettled ==
  ASSUME FdInv, NEW th \in Threads
  PROVE  /\ MeansToClose(th) /\ pc[th] # "close_free" => Closee(th) \in Fds /\ Settled(Closee(th))
         /\ op[th] = "dup2" /\ pc[th] # "close_free" /\ used[new[th]] => new[th] \in Fds /\ Settled(new[th])
         /\ op[th] \in {"io", "dup2"} => fd[th] \in Fds /\ Settled(fd[th])
<1>1. Labelled(th) /\ Argued(th) /\ Found(th) /\ op[th] \in {"none", "open", "io", "close", "dup2"}
  BY DEF FdInv, ThreadInv, TypeOK
<1>2. \A t \in Threads : pc[t] = "close_free" => op[t] \in {"close", "dup2"}
  BY DEF FdInv, ThreadInv, TypeOK, Labelled, Opening, Moving, Duping
<1>3. ASSUME NEW f \in Fds, used[f], f = fd[th] \/ f = new[th], op[th] # "open",
             pc[th] = "close_free" => Closee(th) # f
      PROVE  Settled(f)
  BY <1>1, <1>2, <1>3, OthersKeepOff DEF Settled, Argued
<1>4. MeansToClose(th) /\ pc[th] # "close_free" => Closee(th) \in Fds /\ Settled(Closee(th))
  BY <1>1, <1>3 DEF Closee, MeansToClose, Argued, Found
<1>5. op[th] = "dup2" /\ pc[th] # "close_free" /\ used[new[th]] => new[th] \in Fds /\ Settled(new[th])
  BY <1>1, <1>3 DEF Argued
<1>6. op[th] \in {"io", "dup2"} => fd[th] \in Fds /\ Settled(fd[th])
  BY <1>1, <1>2, <1>3 DEF Argued, Found, Closee
<1> QED
  BY <1>4, <1>5, <1>6

(* Threads that only look leave the mutexes as they are held.              *)
LEMMA LockedFrame ==
  ASSUME FdInv, NEW th \in Threads, OnlyMoves(th), UNCHANGED locks,
         HasEntry(th)' <=> HasEntry(th), HasTable(th)' <=> HasTable(th),
         HasEntry(th) => fd'[th] = fd[th]
  PROVE  Locked'
<1>1. \A t \in Threads : (HasEntry(t)' <=> HasEntry(t)) /\ (HasTable(t)' <=> HasTable(t))
  BY DEF OnlyMoves, HasEntry, HasTable
<1>2. \A t \in Threads : HasEntry(t) => fd'[t] = fd[t]
  BY DEF OnlyMoves
<1>3. elock' = elock /\ tlock' = tlock
  BY DEF locks
<1>4. /\ \A f \in Fds : elock[f] # None => elock[f] \in Threads
      /\ tlock # None => tlock \in Threads
  BY DEF FdInv, TypeOK
<1>5. (\A f \in Fds : elock[f] # None => HasEntry(elock[f]) /\ fd[elock[f]] = f)'
  <2> SUFFICES ASSUME NEW f \in Fds, elock[f] # None
               PROVE  (HasEntry(elock[f]) /\ fd[elock[f]] = f)'
    BY <1>3
  <2>1. PICK t \in Threads : elock[f] = t
    BY <1>4
  <2>2. HasEntry(t)' /\ fd'[t] = f
    BY <1>1, <1>2, <2>1 DEF FdInv, Locked
  <2> QED
    BY <1>3, <2>1, <2>2 DEF HasEntry
<1>6. (\A t \in Threads : HasEntry(t) => elock[fd[t]] = t)'
  BY <1>1, <1>2, <1>3 DEF FdInv, Locked
<1>7. (tlock # None => HasTable(tlock))' /\ (\A t \in Threads : HasTable(t) => tlock = t)'
  BY <1>1, <1>3, <1>4 DEF FdInv, Locked, HasTable
<1> QED
  BY <1>5, <1>6, <1>7 DEF Locked

(* What is settled stays so, and the host does nothing.                    *)
LEMMA HostFrame ==
  ASSUME FdInv, NEW th \in Threads, OnlyMoves(th), host' = host,
         \A e \in Fds : (Settled(e)' <=> Settled(e)) /\ (Settled(e) => real'[e] = real[e]),
         \A e \in Fds : ~used'[e] => real'[e] = None,
         \A t \in Threads \ {th} : op[t] = "dup2" => (used'[new[t]] => used[new[t]]),
         pc[th] # "open_init", pc'[th] # "open_init",
         \A t \in Threads : pc[t] = "open_init" => pos'[host[reg[t]]] = 0,
         \A f \in Fds : MeansToClose(th)' /\ pc'[th] # "close_free" /\ Closee(th)' = f =>
                          Settled(f) /\ Sole(f),
         MeansToClose(th)' => Closee(th)' \in Fds,
         op'[th] = "dup2" /\ pc'[th] \in {"get", "dup_new"} /\ used'[new'[th]] =>
           new'[th] \in Fds /\ Settled(new'[th]) /\ Sole(new'[th])
  PROVE  /\ \A e \in Fds : Settled(e) => (Sole(e)' <=> Sole(e))
         /\ HostInv'
<1>1. \A e \in Fds : Settled(e) => (Sole(e)' <=> Sole(e))
  BY DEF Sole
<1>2. HostApart'
  BY DEF FdInv, HostInv, HostApart
<1>3. Entries'
  <2>1. (\A f \in Fds : Settled(f) => real[f] \in Hosts /\ host[real[f]] # None)'
    BY DEF FdInv, HostInv, Entries
  <2>2. ASSUME NEW t \in Threads, MeansToClose(t)', pc'[t] # "close_free"
        PROVE  Sole(Closee(t))'
    <3>1. PICK f \in Fds : Closee(t)' = f /\ Settled(f) /\ Sole(f)
      <4>1. CASE t = th
        BY <2>2, <4>1
      <4>2. CASE t # th
        <5>1. MeansToClose(t) /\ pc[t] # "close_free" /\ Closee(t)' = Closee(t)
          BY <2>2, <4>2 DEF OnlyMoves, MeansToClose, Closee
        <5> QED
          BY <5>1, ArgumentsSettled DEF FdInv, HostInv, Entries
      <4> QED
        BY <4>1, <4>2
    <3>2. Sole(f)'
      BY <1>1, <3>1
    <3> QED
      BY <3>1, <3>2 DEF Sole
  <2>3. ASSUME NEW t \in Threads, op'[t] = "dup2", pc'[t] \in {"get", "dup_new"}, used'[new'[t]]
        PROVE  Sole(new[t])'
    <3>1. PICK f \in Fds : new'[t] = f /\ Settled(f) /\ Sole(f)
      <4>1. CASE t = th
        BY <2>3, <4>1
      <4>2. CASE t # th
        <5>1. op[t] = "dup2" /\ pc[t] \in {"get", "dup_new"} /\ new'[t] = new[t] /\ used[new[t]]
          BY <2>3, <4>2 DEF OnlyMoves
        <5> QED
          BY <5>1, ArgumentsSettled DEF FdInv, HostInv, Entries
      <4> QED
        BY <4>1, <4>2
    <3>2. Sole(f)'
      BY <1>1, <3>1
    <3> QED
      BY <3>1, <3>2 DEF Sole
  <2> QED
    BY <2>1, <2>2, <2>3 DEF Entries
<1>4. Kept'
  BY DEF FdInv, HostInv, Kept, OnlyMoves
<1>5. \A t \in Threads : Fresh(t)'
  BY DEF FdInv, HostInv, Fresh, OnlyMoves
<1> QED
  BY <1>1, <1>2, <1>3, <1>4, <1>5 DEF HostInv

(* No offset and no position changes, and no call begins or ends to change *)
(* them.                                                                   *)
LEMMA TracksFrame ==
  ASSUME FdInv, NEW th \in Threads, OnlyMoves(th), UNCHANGED <<host, pos>>,
         pc[th] \notin {"io_add", "io_set"}, pc'[th] \notin {"io_add", "io_set"},
         NEW e \in Fds, Settled(e)' <=> Settled(e),
         Settled(e) => real'[e] = real[e] /\ offset'[e] = offset[e] /\ (Sole(e)' <=> Sole(e))
  PROVE  Tracks(e)'
  BY DEF FdInv, Tracks, OnlyMoves

\* Nothing is filled or freed.
LEMMA SettledFrame ==
  ASSUME NEW th \in Threads, OnlyMoves(th), used' = used,
         pc[th] # "close_free", pc'[th] # "close_free",
         op[th] = "open" \/ op'[th] = "open" => op'[th] = op[th] /\ fd'[th] = fd[th]
  PROVE  \A e \in Fds : Settled(e)' <=> Settled(e)
  BY DEF Settled, OnlyMoves, Closee

LEMMA UnseenFrame ==
  ASSUME UNCHANGED <<host, pos>>,
         \A e \in Fds : (Settled(e)' <=> Settled(e)) /\ (Settled(e) => real'[e] = real[e])
  PROVE  Unseen
  BY DEF Unseen, Names, NamesStay

-----------------------------------------------------------------------------
(* The steps that leave the entries and the host alone.                    *)
Looks(th) ==
  \/ OpenFails(th) \/ IoGet(th) \/ CloseGet(th)
  \/ DupGet(th) \/ DupLookup(th) \/ DupNotOpen(th) \/ DupPutNew(th)

LEMMA LooksStep ==
  ASSUME FdInv, NEW th \in Threads, Looks(th), Apart'
  PROVE  FdInv' /\ Unseen
<1> USE FdTableAssumption DEF FdTableAssumption, Looks, OpenFails, IoGet, CloseGet, DupGet,
      DupLookup, DupNotOpen, DupPutNew, GetsForIo, Gets, Lock, MustClose, At, Goto, entries,
      locks, outside, args
<1>1. TypeOK'
  <2>1. CASE CloseGet(th)
    <3>1. Closee(th) \in Fds
      BY <2>1
         DEF FdInv, TypeOK, ThreadInv, Labelled, Argued, Found, Works, Opening, Moving, Duping,
             Ending, MeansToClose, Closee
    <3> QED
      BY <2>1, <3>1 DEF FdInv, TypeOK, Labels
  <2>2. CASE ~CloseGet(th)
    BY <2>2 DEF FdInv, TypeOK, Labels
  <2> QED
    BY <2>1, <2>2
<1>2. OnlyMoves(th) /\ UNCHANGED <<used, real, offset, host, pos, ub>>
  BY DEF FdInv, TypeOK, OnlyMoves
<1>3. ThreadInv'
  BY DEF FdInv, TypeOK, ThreadInv, Labelled, Argued, Found, Works, Opening, Moving, Duping,
         Ending, MeansToClose, Closee
<1>4. Locked'
  <2>1. CASE IoGet(th) \/ DupGet(th)
    <3>1. /\ fd[th] \in Fds /\ elock[fd[th]] = None /\ elock' = [elock EXCEPT ![fd[th]] = th]
          /\ tlock = th /\ tlock' = None /\ pc[th] = "get" /\ pc'[th] \in {"io", "dup_new"}
          /\ fd'[th] = fd[th]
      BY <2>1 DEF FdInv, TypeOK, ThreadInv, Locked, HasTable, Labelled, Argued
    <3>2. \A t \in Threads \ {th} :
            /\ (HasEntry(t)' <=> HasEntry(t)) /\ (HasTable(t)' <=> HasTable(t)) /\ fd'[t] = fd[t]
      BY <1>2 DEF OnlyMoves, HasEntry, HasTable
    <3>3. HasEntry(th)' /\ ~HasTable(th)'
      BY <3>1 DEF HasEntry, HasTable, Moving, Duping
    <3> QED
      BY <3>1, <3>2, <3>3 DEF FdInv, TypeOK, Locked
  <2>2. CASE CloseGet(th) \/ DupPutNew(th)
    BY <2>2
       DEF FdInv, TypeOK, ThreadInv, Locked, HasEntry, HasTable, Labelled, Argued, Found, Works,
           Opening, Moving, Duping, Ending, MeansToClose, Closee
  <2>3. CASE OpenFails(th) \/ DupLookup(th) \/ DupNotOpen(th)
    BY <2>3
       DEF FdInv, TypeOK, ThreadInv, Locked, HasEntry, HasTable, Labelled, Argued, Found, Works,
           Opening, Moving, Duping, Ending, MeansToClose, Closee
  <2> QED
    BY <2>1, <2>2, <2>3
<1>5. \A e \in Fds : Settled(e)' <=> Settled(e)
  <2>1. pc[th] # "close_free" /\ pc'[th] # "close_free" /\ op'[th] = op[th] /\ fd'[th] = fd[th]
    BY DEF FdInv, TypeOK
  <2> QED
    BY <1>2, <2>1, SettledFrame
<1>6. /\ \A e \in Fds : Settled(e) => (Sole(e)' <=> Sole(e))
      /\ HostInv'
  <2>1. /\ pc[th] # "open_init" /\ pc'[th] # "open_init"
        /\ op'[th] = op[th] /\ new'[th] = new[th] /\ Closee(th)' = Closee(th) /\ used' = used
        /\ op[th] \in {"none", "open", "io", "close", "dup2"} /\ pc[th] \notin Ending
        /\ pc'[th] \in {"get", "dup_new"} => pc[th] = "get"
        /\ op[th] = "dup2" /\ pc'[th] \in {"dup_get_new", "dup_close", "dup_close_get", "close_host"} =>
             \/ pc[th] = "dup_new" /\ used[new[th]]
             \/ pc[th] \in {"dup_get_new", "dup_close", "dup_close_get"}
    BY DEF FdInv, TypeOK, ThreadInv, Labelled, Argued, Found, Works, Opening, Moving, Duping,
           Ending, MeansToClose, Closee
  <2>6. MeansToClose(th)' =>
          \/ MeansToClose(th) /\ pc[th] # "close_free"
          \/ op[th] = "dup2" /\ pc[th] = "dup_new" /\ used[new[th]] /\ Closee(th) = new[th]
    <3>1. pc'[th] # "close_free"
      BY DEF FdInv, TypeOK
    <3> QED
      BY <2>1, <3>1 DEF MeansToClose, Closee, Ending
  <2>2. \A f \in Fds : MeansToClose(th)' /\ Closee(th)' = f => Settled(f) /\ Sole(f)
    <3> SUFFICES ASSUME NEW f \in Fds, MeansToClose(th)', Closee(th) = f
                 PROVE  Settled(f) /\ Sole(f)
      BY <2>1
    <3>1. CASE MeansToClose(th) /\ pc[th] # "close_free"
      BY <3>1, ArgumentsSettled DEF FdInv, HostInv, Entries
    <3>2. CASE op[th] = "dup2" /\ pc[th] = "dup_new" /\ used[new[th]] /\ Closee(th) = new[th]
      BY <3>2, ArgumentsSettled DEF FdInv, HostInv, Entries
    <3> QED
      BY <2>6, <3>1, <3>2
  <2>3. MeansToClose(th)' => Closee(th)' \in Fds
    BY <2>1, <2>6, ArgumentsSettled
  <2>4. op'[th] = "dup2" /\ pc'[th] \in {"get", "dup_new"} /\ used'[new'[th]] =>
          new'[th] \in Fds /\ Settled(new'[th]) /\ Sole(new'[th])
    BY <2>1, ArgumentsSettled DEF FdInv, HostInv, Entries
  <2>5. /\ \A t \in Threads : pc[t] = "open_init" => pos'[host[reg[t]]] = 0
        /\ \A e \in Fds : ~used'[e] => real'[e] = None
    BY <1>2 DEF FdInv, HostInv, Fresh, Entries
  <2> QED
    BY <1>2, <1>5, <2>1, <2>2, <2>3, <2>4, <2>5, HostFrame
<1>7. \A e \in Fds : Tracks(e)'
  <2>1. pc[th] \notin {"io_add", "io_set"} /\ pc'[th] \notin {"io_add", "io_set"}
    BY DEF FdInv, TypeOK
  <2> QED
    BY <1>2, <1>5, <1>6, <2>1, TracksFrame
<1>8. Unseen
  BY <1>2, <1>5, UnseenFrame
<1> QED
  BY <1>1, <1>2, <1>3, <1>4, <1>6, <1>7, <1>8 DEF FdInv

LEMMA BeginStep ==
  ASSUME FdInv, NEW th \in Threads, NEW f \in Fds,
         NEW o \in {"io", "close", "dup2"}, NEW g \in Fds \cup {None},
         IF o = "dup2" THEN g \in Fds \ {f} ELSE g = None,
         Begin(th, o, f, g), KeepsCopies, Apart'
  PROVE  FdInv' /\ Unseen
<1> USE FdTableAssumption DEF FdTableAssumption, Begin, At, Call, entries, outside
<1>1. TypeOK'
  BY DEF FdInv, TypeOK, Labels
<1>2. /\ OnlyMoves(th) /\ UNCHANGED <<used, real, offset, host, pos, elock, reg, ub>>
      /\ pc[th] = "idle" /\ pc'[th] = "get" /\ tlock = None /\ tlock' = th
      /\ op'[th] = o /\ fd'[th] = f /\ new'[th] = g /\ used[f]
  BY DEF FdInv, TypeOK, OnlyMoves
<1>3. ThreadInv'
  BY <1>2
     DEF FdInv, ThreadInv, OnlyMoves, Labelled, Argued, Found, Works, Opening, Moving, Duping,
         Ending, MeansToClose, Closee
<1>4. Locked'
  BY <1>2
     DEF FdInv, ThreadInv, Labelled, OnlyMoves, Locked, HasEntry, HasTable, Moving, Duping,
         Ending, TypeOK
<1>5. \A e \in Fds : Settled(e)' <=> Settled(e)
  <2>1. op[th] # "open" /\ op'[th] # "open"
    BY <1>2 DEF FdInv, ThreadInv, Labelled
  <2> QED
    BY <1>2, <2>1, SettledFrame
<1>6. /\ \A e \in Fds : Settled(e) => (Sole(e)' <=> Sole(e))
      /\ HostInv'
  <2>1. \A e \in Fds : e \in Closes(o, f, g) /\ used[e] => Settled(e) /\ Sole(e)
    <3>1. \A e \in Closes(o, f, g) : \A d \in Fds \ {e} : used[e] /\ used[d] => real[e] # real[d]
      BY <1>2 DEF KeepsCopies
    <3>2. \A e \in Fds : e \in Closes(o, f, g) /\ used[e] => Settled(e)'
      <4>1. \A e \in Fds : e \in Closes(o, f, g) => \A t \in Threads \ {th} : Closee(t)' # e /\ fd'[t] # e
        BY <1>2 DEF Apart, Uses, Closes, Closee
      <4> QED
        BY <1>2, <4>1 DEF Settled
    <3> QED
      BY <1>5, <3>1, <3>2 DEF Sole, Settled
  <2>2. \A e \in Fds : MeansToClose(th)' /\ Closee(th)' = e => Settled(e) /\ Sole(e)
    BY <1>2, <2>1 DEF MeansToClose, Closee, Closes, Ending
  <2>3. op'[th] = "dup2" /\ used'[new'[th]] => new'[th] \in Fds /\ Settled(new'[th]) /\ Sole(new'[th])
    BY <1>2, <2>1 DEF Closes
  <2>4. MeansToClose(th)' => Closee(th)' \in Fds
    BY <1>2 DEF MeansToClose, Closee
  <2>5. /\ \A t \in Threads : pc[t] = "open_init" => pos'[host[reg[t]]] = 0
        /\ \A e \in Fds : ~used'[e] => real'[e] = None
    BY <1>2 DEF FdInv, HostInv, Fresh, Entries
  <2> QED
    BY <1>2, <1>5, <2>2, <2>3, <2>4, <2>5, HostFrame
<1>7. \A e \in Fds : Tracks(e)'
  BY <1>2, <1>5, <1>6, TracksFrame
<1>8. Unseen
  BY <1>2, <1>5, UnseenFrame
<1> QED
  BY <1>1, <1>2, <1>3, <1>4, <1>6, <1>7, <1>8 DEF FdInv

-----------------------------------------------------------------------------
(* The steps that move the position of a file, or record it.               *)
Io(th) == HostMove(th) \/ HostSeek(th) \/ IoDone(th)

LEMMA IoStep ==
  ASSUME FdInv, NEW th \in Threads, Io(th), Apart'
  PROVE  FdInv' /\ (Unseen \/ Moved)
<1> USE FdTableAssumption DEF FdTableAssumption
<1> DEFINE e == fd[th]
           x == host[real[e]]
<1>1. /\ op[th] = "io" /\ pc[th] \in Moving /\ e \in Fds /\ Settled(e) /\ elock[e] = th
      /\ real[e] \in Hosts /\ x \in Files
  <2>1. /\ op[th] = "io" /\ pc[th] \in Moving /\ e \in Fds /\ used[e] /\ HasEntry(th)
    BY DEF Io, HostMove, HostSeek, IoDone, At, FdInv, TypeOK, ThreadInv, Labelled, Argued,
           Found, Works, Opening, Moving, Duping, Ending, MeansToClose, Closee, HasEntry
  <2>2. Settled(e)
    BY <2>1, OthersKeepOff
       DEF Settled, FdInv, TypeOK, ThreadInv, Labelled, Opening, Moving, Ending
  <2>3. elock[e] = th
    BY <2>1 DEF FdInv, Locked
  <2>4. real[e] \in Hosts /\ host[real[e]] # None
    BY <2>1, <2>2 DEF FdInv, HostInv, Entries
  <2> QED
    BY <2>1, <2>2, <2>3, <2>4 DEF FdInv, TypeOK
<1>2. /\ OnlyMoves(th) /\ UNCHANGED <<used, real, host, tlock, ub>>
      /\ \A f \in Fds \ {e} : offset'[f] = offset[f] /\ elock'[f] = elock[f]
      /\ \A f \in Files \ {x} : pos'[f] = pos[f]
  BY <1>1
     DEF Io, HostMove, HostSeek, IoDone, Goto, Return, Call, Unlock, Lock, File, FileOf, args,
     entries, locks, outside, OnlyMoves, FdInv, TypeOK
<1>3. \/ /\ pc[th] = "io" /\ pc'[th] = "io_add" /\ op'[th] = "io" /\ fd'[th] = e /\ new'[th] = None
         /\ offset' = offset /\ elock' = elock
         /\ reg'[th] \in 0 .. MaxPos /\ offset[e] + reg'[th] <= MaxPos
         /\ pos'[x] = pos[x] + reg'[th] /\ pos' \in [Files -> 0 .. MaxPos]
         /\ reg' = [reg EXCEPT ![th] = reg'[th]]
      \/ /\ pc[th] = "io" /\ pc'[th] = "io_set" /\ op'[th] = "io" /\ fd'[th] = e /\ new'[th] = None
         /\ offset' = offset /\ elock' = elock
         /\ reg'[th] \in 0 .. MaxPos /\ pos'[x] = reg'[th] /\ pos' \in [Files -> 0 .. MaxPos]
         /\ reg' = [reg EXCEPT ![th] = reg'[th]]
      \/ /\ pc[th] \in {"io_add", "io_set"}
         /\ pc'[th] = "idle" /\ op'[th] = "none" /\ fd'[th] = None /\ new'[th] = None
         /\ offset'[e] = IF pc[th] = "io_add" THEN offset[e] + reg[th] ELSE reg[th]
         /\ offset' \in [Fds -> 0 .. MaxPos]
         /\ elock'[e] = None /\ pos' = pos
         /\ reg' = [reg EXCEPT ![th] = None]
  <2>1. CASE HostMove(th)
    <3>1. PICK n \in 0 .. MaxPos :
            /\ n # 0 => pos[x] + n <= MaxPos /\ offset[e] + n <= MaxPos
            /\ pos' = IF n = 0 THEN pos ELSE [pos EXCEPT ![x] = @ + n]
            /\ reg' = [reg EXCEPT ![th] = n]
      BY <1>1, <2>1 DEF HostMove, File, FileOf
    <3>2. pos \in [Files -> 0 .. MaxPos] /\ offset[e] \in 0 .. MaxPos /\ reg'[th] = n
      BY <1>1, <3>1 DEF FdInv, TypeOK
    <3>3. pos'[x] = pos[x] + n /\ pos' \in [Files -> 0 .. MaxPos] /\ offset[e] + n <= MaxPos
      BY <1>1, <3>1, <3>2
    <3> QED
      BY <1>1, <2>1, <3>1, <3>2, <3>3
         DEF HostMove, At, Goto, args, entries, locks, FdInv, TypeOK,
         ThreadInv, Argued
  <2>2. CASE HostSeek(th)
    BY <1>1, <2>2 DEF HostSeek, At, Goto, File, FileOf, args, entries, locks, FdInv, TypeOK,
       ThreadInv, Argued
  <2>3. CASE IoDone(th)
    BY <1>1, <2>3
       DEF IoDone, At, Return, Call, Unlock, Lock, outside, FdInv, TypeOK, ThreadInv, Works
  <2> QED
    BY <2>1, <2>2, <2>3 DEF Io
<1>4. TypeOK'
  BY <1>1, <1>2, <1>3
     DEF Io, HostMove, HostSeek, IoDone, Goto, Return, Call, Unlock, Lock, args,
     entries, locks, outside, FdInv, TypeOK, Labels
<1>5. ThreadInv'
  <2> SUFFICES ASSUME NEW t \in Threads
               PROVE  (Labelled(t) /\ Argued(t) /\ Found(t) /\ Works(t))'
    BY DEF ThreadInv
  <2>1. CASE t = th
    BY <1>1, <1>2, <1>3, <2>1
       DEF FdInv, ThreadInv, Labelled, Argued, Found, Works, Opening, Moving, Duping, Ending,
           MeansToClose, Closee
  <2>2. CASE t # th
    <3>1. pc[t] = "io_add" => fd[t] \in Fds \ {e}
      BY <1>1, <2>2 DEF FdInv, ThreadInv, TypeOK, Labelled, Argued, Locked, HasEntry, Moving
    <3> QED
      BY <1>2, <2>2, <3>1
         DEF FdInv, ThreadInv, OnlyMoves, Labelled, Argued, Found, Works, Opening, Moving,
             Duping, Ending, MeansToClose, Closee
  <2> QED
    BY <2>1, <2>2
<1>6. Locked'
  <2>1. \A t \in Threads \ {th} :
          /\ (HasEntry(t)' <=> HasEntry(t)) /\ (HasTable(t)' <=> HasTable(t)) /\ fd'[t] = fd[t]
    BY <1>2 DEF OnlyMoves, HasEntry, HasTable
  <2>2. /\ HasEntry(th) /\ ~HasTable(th) /\ ~HasTable(th)'
        /\ HasEntry(th)' => fd'[th] = e /\ elock' = elock
        /\ ~HasEntry(th)' => elock'[e] = None
    BY <1>1, <1>3 DEF HasEntry, HasTable, Moving, Duping, Ending
  <2>3. \A t \in Threads \ {th} : HasEntry(t) => fd[t] \in Fds \ {e}
    BY <1>1
       DEF FdInv, ThreadInv, TypeOK, Labelled, Argued, Locked, HasEntry, Moving, Duping, Ending
  <2>4. \A f \in Fds \ {e} : elock[f] # None => elock[f] \in Threads \ {th}
    BY <1>1, <2>2 DEF FdInv, TypeOK, Locked
  <2>5. tlock \in (Threads \ {th}) \cup {None}
    BY <2>2 DEF FdInv, TypeOK, Locked
  <2>6. (\A f \in Fds : elock[f] # None => HasEntry(elock[f]) /\ fd[elock[f]] = f)'
    <3> SUFFICES ASSUME NEW f \in Fds, elock'[f] # None
                 PROVE  (HasEntry(elock[f]) /\ fd[elock[f]] = f)'
      OBVIOUS
    <3>1. CASE f = e
      BY <1>1, <2>2, <3>1 DEF HasEntry
    <3>2. CASE f # e
      <4>1. PICK u \in Threads \ {th} : elock[f] = u /\ elock'[f] = u
        BY <1>2, <2>4, <3>2
      <4>2. HasEntry(u)' /\ fd'[u] = f
        BY <2>1, <3>2, <4>1 DEF FdInv, Locked
      <4> QED
        BY <4>1, <4>2 DEF HasEntry
    <3> QED
      BY <3>1, <3>2
  <2>7. ASSUME NEW t \in Threads, HasEntry(t)'
        PROVE  elock'[fd'[t]] = t
    <3>1. CASE t = th
      BY <1>1, <2>2, <2>7, <3>1
    <3>2. CASE t # th
      <4>1. HasEntry(t) /\ fd'[t] = fd[t] /\ fd[t] \in Fds \ {e}
        BY <2>1, <2>3, <2>7, <3>2
      <4> QED
        BY <1>2, <4>1 DEF FdInv, Locked
    <3> QED
      BY <3>1, <3>2
  <2>8. (tlock # None => HasTable(tlock))' /\ (\A t \in Threads : HasTable(t) => tlock = t)'
    BY <1>2, <2>1, <2>2, <2>5 DEF OnlyMoves, HasTable, FdInv, Locked
  <2> QED
    BY <2>6, <2>7, <2>8 DEF Locked
<1>7. \A f \in Fds : Settled(f)' <=> Settled(f)
  BY <1>1, <1>2, <1>3, SettledFrame DEF Moving
<1>8. /\ \A f \in Fds : Settled(f) => (Sole(f)' <=> Sole(f))
      /\ HostInv'
  <2>1. \A t \in Threads : pc[t] = "open_init" => pos'[host[reg[t]]] = 0
    <3> SUFFICES ASSUME NEW t \in Threads, pc[t] = "open_init"
                 PROVE  pos'[host[reg[t]]] = 0
      OBVIOUS
    <3>1. /\ reg[t] \in Hosts /\ host[reg[t]] \in Files /\ pos[host[reg[t]]] = 0
          /\ reg[t] # real[e]
      BY <1>1 DEF FdInv, HostInv, Fresh, TypeOK
    <3>2. host[reg[t]] # x
      BY <1>1, <3>1 DEF FdInv, HostInv, HostApart
    <3> QED
      BY <1>2, <3>1, <3>2
  <2>2. /\ pc[th] # "open_init" /\ pc'[th] # "open_init"
        /\ op'[th] # "dup2" /\ ~MeansToClose(th)'
    BY <1>1, <1>3 DEF MeansToClose, Moving
  <2>3. \A f \in Fds : ~used'[f] => real'[f] = None
    BY <1>2 DEF FdInv, HostInv, Entries
  <2> QED
    BY <1>2, <1>7, <2>1, <2>2, <2>3, HostFrame
<1>9. \A f \in Fds : Tracks(f)'
  <2> SUFFICES ASSUME NEW f \in Fds, Settled(f), Sole(f)
               PROVE  Tracks(f)'
    BY <1>7, <1>8 DEF Tracks
  <2>1. Tracks(f) /\ real[f] \in Hosts /\ host[real[f]] \in Files
    BY DEF FdInv, HostInv, Entries, TypeOK
  <2>2. CASE f = e
    <3>1. \A t \in Threads : t # th /\ fd[t] = e => pc[t] \notin {"io_add", "io_set"}
      BY <1>1 DEF FdInv, Locked, HasEntry, Moving
    <3> QED
      BY <1>1, <1>2, <1>3, <2>1, <2>2, <3>1 DEF Tracks, OnlyMoves, Moving, FdInv, TypeOK
  <2>3. CASE f # e
    <3>1. host[real[f]] # x
      BY <1>1, <2>1, <2>3 DEF Sole, FdInv, HostInv, HostApart, TypeOK
    <3> QED
      BY <1>1, <1>2, <1>3, <2>1, <2>3, <3>1 DEF Tracks, OnlyMoves
  <2> QED
    BY <2>2, <2>3
<1>10. Unseen \/ Moved
  BY <1>1, <1>2, <1>3, <1>7, FdTableAssumption
     DEF FdTableAssumption, Unseen, Moved, Names, NamesStay
<1> QED
  BY <1>2, <1>4, <1>5, <1>6, <1>8, <1>9, <1>10 DEF FdInv

-----------------------------------------------------------------------------
(* open                                                                    *)

LEMMA OpenAllocStep ==
  ASSUME FdInv, NEW th \in Threads, OpenAlloc(th), Apart'
  PROVE  FdInv' /\ Unseen
<1> USE FdTableAssumption DEF FdTableAssumption
<1>1. PICK f \in Fds : f = Min(Unused) /\ ~used[f]
  <2>1. Unused \subseteq Nat /\ Unused # {}
    BY DEF Unused, OpenAlloc
  <2> QED
    BY <2>1, LeastIsIn DEF Unused
<1>2. real[f] = None /\ elock[f] = None
  BY <1>1, HolderOf DEF FdInv, HostInv, Entries
<1>3. /\ OnlyMoves(th) /\ UNCHANGED <<real, elock, tlock, host, pos, reg, ub>>
      /\ used' = [used EXCEPT ![f] = TRUE] /\ offset' = [offset EXCEPT ![f] = 0]
      /\ pc[th] = "idle" /\ pc'[th] = "open_host" /\ op'[th] = "open" /\ fd'[th] = f /\ new'[th] = None
      /\ pc' \in [Threads -> Labels] /\ op' \in [Threads -> {"none", "open", "io", "close", "dup2"}]
      /\ fd' \in [Threads -> Fds \cup {None}] /\ new' \in [Threads -> Fds \cup {None}]
  BY <1>1, <1>2
     DEF OpenAlloc, At, Call, Takes, Unlock, Lock, outside, FdInv, TypeOK, OnlyMoves, Labels
<1>4. TypeOK'
  BY <1>1, <1>3 DEF FdInv, TypeOK
<1>5. \A t \in Threads \ {th} : op[t] # "dup2"
  BY <1>3 DEF Apart, OnlyMoves
<1>6. ThreadInv'
  BY <1>1, <1>2, <1>3, <1>5
     DEF FdInv, TypeOK, ThreadInv, OnlyMoves, Labelled, Argued, Found, Works, Opening, Moving,
         Duping, Ending, MeansToClose, Closee
<1>7. Locked'
  <2>1. ~HasEntry(th) /\ ~HasEntry(th)' /\ ~HasTable(th) /\ ~HasTable(th)'
    BY <1>3 DEF HasEntry, HasTable, Moving, Duping, Ending
  <2> QED
    BY <1>3, <2>1, LockedFrame DEF locks
<1>8. \A e \in Fds : (Settled(e)' <=> Settled(e)) /\ (Settled(e) => e # f)
  <2>1. ~Settled(f) /\ ~Settled(f)'
    BY <1>1, <1>3 DEF Settled
  <2>2. \A e \in Fds \ {f} : used'[e] = used[e] /\ fd'[th] # e
    BY <1>3 DEF FdInv, TypeOK
  <2>3. \A e \in Fds \ {f} : Settled(e)' <=> Settled(e)
    BY <1>3, <2>2 DEF Settled, OnlyMoves, Closee, FdInv, ThreadInv, Labelled, Argued
  <2> QED
    BY <2>1, <2>3
<1>9. /\ \A e \in Fds : Settled(e) => (Sole(e)' <=> Sole(e))
      /\ HostInv'
  <2>1. ~MeansToClose(th)' /\ op'[th] # "dup2"
    BY <1>3 DEF MeansToClose
  <2>2. /\ \A t \in Threads : pc[t] = "open_init" => pos'[host[reg[t]]] = 0
        /\ \A e \in Fds : ~used'[e] => real'[e] = None
    BY <1>1, <1>3 DEF FdInv, TypeOK, HostInv, Fresh, Entries
  <2> QED
    BY <1>3, <1>5, <1>8, <2>1, <2>2, HostFrame
<1>10. \A e \in Fds : Tracks(e)'
  BY <1>1, <1>3, <1>8, <1>9, TracksFrame DEF FdInv, TypeOK
<1>11. Unseen
  BY <1>3, <1>8, UnseenFrame
<1> QED
  BY <1>3, <1>4, <1>6, <1>7, <1>9, <1>10, <1>11 DEF FdInv

LEMMA OpenHostStep ==
  ASSUME FdInv, NEW th \in Threads, OpenHost(th), Apart'
  PROVE  FdInv' /\ Unseen
<1> USE FdTableAssumption DEF FdTableAssumption
<1>1. PICK h \in Hosts, x \in Files :
        /\ host[h] = None /\ \A i \in Hosts : host[i] # x
        /\ host' = [host EXCEPT ![h] = x] /\ pos' = [pos EXCEPT ![x] = 0]
        /\ reg' = [reg EXCEPT ![th] = h]
  BY DEF OpenHost
<1>2. /\ OnlyMoves(th) /\ UNCHANGED <<used, real, offset, elock, tlock, op, fd, new, ub>>
      /\ pc[th] = "open_host" /\ pc'[th] = "open_init" /\ reg'[th] = h
      /\ pc' = [pc EXCEPT ![th] = "open_init"] /\ op[th] = "open"
  BY <1>1
     DEF OpenHost, At, Goto, entries, locks, args, FdInv, TypeOK, OnlyMoves, ThreadInv,
         Labelled, Opening
<1>3. TypeOK'
  BY <1>1, <1>2 DEF FdInv, TypeOK, Labels
<1>4. ThreadInv'
  BY <1>1, <1>2
     DEF FdInv, TypeOK, ThreadInv, OnlyMoves, Labelled, Argued, Found, Works, Opening, Moving,
         Duping, Ending, MeansToClose, Closee
<1>5. Locked'
  <2>1. ~HasEntry(th) /\ ~HasEntry(th)' /\ ~HasTable(th) /\ ~HasTable(th)'
    BY <1>2 DEF HasEntry, HasTable, Moving, Duping, Ending
  <2> QED
    BY <1>2, <2>1, LockedFrame DEF locks
<1>6. \A e \in Fds : Settled(e)' <=> Settled(e)
  BY <1>2, SettledFrame
<1>7. \A e \in Fds : Settled(e) => real[e] \in Hosts \ {h} /\ host[real[e]] \in Files \ {x}
  BY <1>1 DEF FdInv, TypeOK, HostInv, Entries
<1>8. HostInv'
  <2>1. HostApart'
    BY <1>1 DEF FdInv, TypeOK, HostInv, HostApart
  <2>2. \A e \in Fds : Sole(e)' <=> Sole(e)
    BY <1>2, <1>6 DEF Sole
  <2>3. Entries'
    <3>1. \A t \in Threads : (MeansToClose(t)' <=> MeansToClose(t)) /\ Closee(t)' = Closee(t)
      BY <1>2 DEF OnlyMoves, MeansToClose, Closee, Ending
    <3>2. (\A e \in Fds : Settled(e) => real[e] \in Hosts /\ host[real[e]] # None)'
      BY <1>1, <1>2, <1>6, <1>7 DEF FdInv, TypeOK
    <3>3. (\A t \in Threads : MeansToClose(t) /\ pc[t] # "close_free" => Sole(Closee(t)))'
      BY <1>2, <2>2, <3>1, ArgumentsSettled
         DEF OnlyMoves, FdInv, HostInv, Entries, Sole, Settled
    <3>4. (\A t \in Threads : op[t] = "dup2" /\ pc[t] \in {"get", "dup_new"} /\ used[new[t]] => Sole(new[t]))'
      BY <1>2, <2>2, ArgumentsSettled DEF OnlyMoves, FdInv, HostInv, Entries
    <3> QED
      BY <1>2, <3>2, <3>3, <3>4 DEF FdInv, HostInv, Entries
  <2>4. Kept'
    BY <1>1, <1>2, <1>6 DEF FdInv, TypeOK, HostInv, Kept, OnlyMoves
  <2>5. \A t \in Threads : Fresh(t)'
    BY <1>1, <1>2, <1>6, <1>7 DEF FdInv, TypeOK, HostInv, Fresh, OnlyMoves
  <2> QED
    BY <2>1, <2>3, <2>4, <2>5 DEF HostInv
<1>9. \A e \in Fds : Tracks(e)'
  <2>1. \A e \in Fds : Sole(e)' <=> Sole(e)
    BY <1>2, <1>6 DEF Sole
  <2> QED
    BY <1>1, <1>2, <1>6, <1>7, <2>1 DEF FdInv, TypeOK, Tracks, OnlyMoves
<1>10. Unseen
  BY <1>1, <1>2, <1>6, <1>7 DEF FdInv, TypeOK, Unseen, Names, NamesStay
<1> QED
  BY <1>2, <1>3, <1>4, <1>5, <1>8, <1>9, <1>10 DEF FdInv

LEMMA OpenUndoStep ==
  ASSUME FdInv, NEW th \in Threads, OpenUndo(th), Apart'
  PROVE  FdInv' /\ Unseen
<1> USE FdTableAssumption DEF FdTableAssumption
<1>1. PICK f \in Fds : /\ f = fd[th] /\ op[th] = "open" /\ pc[th] = "open_undo"
                       /\ used[f] /\ real[f] = None
  BY DEF OpenUndo, At, FdInv, ThreadInv, Labelled, Argued, Found, Opening
<1>2. elock[f] = None
  BY <1>1, HolderOf, OthersKeepOff
<1>3. /\ OnlyMoves(th) /\ UNCHANGED <<real, elock, tlock, host, pos>> /\ ub' = FALSE
      /\ used' = [used EXCEPT ![f] = FALSE] /\ offset' = [offset EXCEPT ![f] = 0]
      /\ pc'[th] = "idle" /\ op'[th] = "none" /\ fd'[th] = None /\ new'[th] = None
      /\ pc' \in [Threads -> Labels] /\ op' \in [Threads -> {"none", "open", "io", "close", "dup2"}]
      /\ fd' \in [Threads -> Fds \cup {None}] /\ new' \in [Threads -> Fds \cup {None}]
      /\ reg' = [reg EXCEPT ![th] = None]
  BY <1>1, <1>2
     DEF OpenUndo, Freed, Clears, Return, Call, locks, outside, FdInv, TypeOK, OnlyMoves,
         Labels
<1>4. TypeOK'
  <2>1. used' \in [Fds -> BOOLEAN] /\ offset' \in [Fds -> 0 .. MaxPos]
    BY <1>1, <1>3 DEF FdInv, TypeOK
  <2>2. reg' \in [Threads -> Hosts \cup {None} \cup 0 .. MaxPos]
    BY <1>3 DEF FdInv, TypeOK
  <2> QED
    BY <1>3, <2>1, <2>2 DEF FdInv, TypeOK
<1>5. \A t \in Threads \ {th} : fd[t] # f /\ new[t] # f /\ Closee(t) # f
  BY <1>1, OthersKeepOff
<1>6. ThreadInv'
  BY <1>1, <1>3, <1>5
     DEF FdInv, TypeOK, ThreadInv, OnlyMoves, Labelled, Argued, Found, Works, Opening, Moving,
         Duping, Ending, MeansToClose, Closee
<1>7. Locked'
  <2>1. ~HasEntry(th) /\ ~HasEntry(th)' /\ ~HasTable(th) /\ ~HasTable(th)'
    BY <1>1, <1>3 DEF HasEntry, HasTable, Moving, Duping, Ending
  <2> QED
    BY <1>3, <2>1, LockedFrame DEF locks
<1>8. \A e \in Fds : (Settled(e)' <=> Settled(e)) /\ (Settled(e) => e # f)
  BY <1>1, <1>3 DEF FdInv, TypeOK, Settled, OnlyMoves, Closee
<1>9. /\ \A e \in Fds : Settled(e) => (Sole(e)' <=> Sole(e))
      /\ HostInv'
  <2>1. ~MeansToClose(th)' /\ op'[th] # "dup2"
    BY <1>3 DEF MeansToClose
  <2>2. /\ \A t \in Threads : pc[t] = "open_init" => pos'[host[reg[t]]] = 0
        /\ \A e \in Fds : ~used'[e] => real'[e] = None
        /\ \A e \in Fds : used'[e] => used[e]
        /\ \A t \in Threads \ {th} : op[t] = "dup2" => new[t] \in Fds
    BY <1>1, <1>3 DEF FdInv, TypeOK, HostInv, Fresh, Entries, ThreadInv, Argued
  <2> QED
    BY <1>1, <1>3, <1>8, <2>1, <2>2, HostFrame
<1>10. \A e \in Fds : Tracks(e)'
  BY <1>1, <1>3, <1>8, <1>9, TracksFrame DEF FdInv, TypeOK
<1>11. Unseen
  BY <1>3, <1>8, UnseenFrame
<1> QED
  BY <1>3, <1>4, <1>6, <1>7, <1>9, <1>10, <1>11 DEF FdInv

LEMMA OpenInitStep ==
  ASSUME FdInv, NEW th \in Threads, OpenInit(th), Apart'
  PROVE  FdInv' /\ Opened
<1> USE FdTableAssumption DEF FdTableAssumption
<1>1. PICK f \in Fds : /\ f = fd[th] /\ op[th] = "open" /\ pc[th] = "open_init"
                       /\ used[f] /\ ~Settled(f) /\ reg[th] \in Hosts
  <2>1. pc[th] = "open_init" /\ op[th] \in {"none", "open", "io", "close", "dup2"}
    BY DEF OpenInit, At, FdInv, TypeOK
  <2>2. op[th] = "open"
    BY <2>1 DEF FdInv, ThreadInv, Labelled, Opening
  <2>3. fd[th] \in Fds /\ used[fd[th]]
    BY <2>2 DEF FdInv, ThreadInv, Argued, Found
  <2>4. ~Settled(fd[th])
    BY <2>2 DEF Settled
  <2>5. reg[th] \in Hosts
    BY <2>1 DEF FdInv, HostInv, Fresh
  <2> QED
    BY <2>1, <2>2, <2>3, <2>4, <2>5
<1>2. /\ OnlyMoves(th) /\ UNCHANGED <<used, elock, tlock, host, pos>> /\ ub' = FALSE
      /\ real' = [real EXCEPT ![f] = reg[th]] /\ offset' = [offset EXCEPT ![f] = 0]
      /\ pc'[th] = "idle" /\ op'[th] = "none" /\ fd'[th] = None /\ new'[th] = None
      /\ pc' \in [Threads -> Labels] /\ op' \in [Threads -> {"none", "open", "io", "close", "dup2"}]
      /\ fd' \in [Threads -> Fds \cup {None}] /\ new' \in [Threads -> Fds \cup {None}]
      /\ reg' = [reg EXCEPT ![th] = None]
  BY <1>1 DEF OpenInit, Return, Call, locks, outside, FdInv, TypeOK, OnlyMoves, Labels
<1>3. TypeOK'
  <2>1. real' \in [Fds -> Hosts \cup {None}] /\ offset' \in [Fds -> 0 .. MaxPos]
    BY <1>1, <1>2 DEF FdInv, TypeOK
  <2>2. reg' \in [Threads -> Hosts \cup {None} \cup 0 .. MaxPos]
    BY <1>2 DEF FdInv, TypeOK
  <2> QED
    BY <1>2, <2>1, <2>2 DEF FdInv, TypeOK
<1>4. \A t \in Threads \ {th} : fd[t] # f /\ new[t] # f /\ Closee(t) # f
  BY <1>1, OthersKeepOff
<1>5. ThreadInv'
  BY <1>1, <1>2, <1>4
     DEF FdInv, TypeOK, ThreadInv, OnlyMoves, Labelled, Argued, Found, Works, Opening, Moving,
         Duping, Ending, MeansToClose, Closee
<1>6. Locked'
  <2>1. ~HasEntry(th) /\ ~HasEntry(th)' /\ ~HasTable(th) /\ ~HasTable(th)'
    BY <1>1, <1>2 DEF HasEntry, HasTable, Moving, Duping, Ending
  <2> QED
    BY <1>2, <2>1, LockedFrame DEF locks
<1>7. \A e \in Fds : Settled(e)' <=> Settled(e) \/ e = f
  BY <1>1, <1>2, <1>4 DEF Settled, OnlyMoves, Closee
<1>8. /\ real'[f] = reg[th] /\ offset'[f] = 0
      /\ \A e \in Fds \ {f} : real'[e] = real[e] /\ offset'[e] = offset[e]
      /\ \A e \in Fds : Settled(e) => real[e] # reg[th] /\ real'[e] = real[e]
  BY <1>1, <1>2 DEF FdInv, TypeOK, HostInv, Fresh
<1>9. \A e \in Fds : Settled(e) => (Sole(e)' <=> Sole(e))
  BY <1>1, <1>7, <1>8 DEF Sole
<1>10. HostInv'
  <2>1. HostApart'
    BY <1>2 DEF FdInv, HostInv, HostApart
  <2>2. Entries'
    <3>1. (\A e \in Fds : Settled(e) => real[e] \in Hosts /\ host[real[e]] # None)'
      BY <1>1, <1>2, <1>7, <1>8 DEF FdInv, HostInv, Entries, Fresh
    <3>2. (\A e \in Fds : ~used[e] => real[e] = None)'
      BY <1>1, <1>2, <1>8 DEF FdInv, HostInv, Entries
    <3>3. ASSUME NEW t \in Threads, NEW e \in Fds,
                 (\/ MeansToClose(t) /\ pc[t] # "close_free" /\ e = Closee(t)
                  \/ op[t] = "dup2" /\ pc[t] \in {"get", "dup_new"} /\ used[new[t]] /\ e = new[t])'
          PROVE  Sole(e)'
      <4>1. t # th
        BY <1>2, <3>3 DEF MeansToClose
      <4>2. \/ MeansToClose(t) /\ pc[t] # "close_free" /\ e = Closee(t)
            \/ op[t] = "dup2" /\ pc[t] \in {"get", "dup_new"} /\ used[new[t]] /\ e = new[t]
        BY <1>2, <3>3, <4>1 DEF OnlyMoves, MeansToClose, Closee
      <4> QED
        BY <1>9, <4>2, ArgumentsSettled DEF FdInv, HostInv, Entries
    <3>4. \A t \in Threads : /\ MeansToClose(t)' => Closee(t)' \in Fds
                             /\ op'[t] = "dup2" => new'[t] \in Fds
      BY <1>5 DEF ThreadInv, Argued, MeansToClose, Closee
    <3> QED
      BY <3>1, <3>2, <3>3, <3>4 DEF Entries
  <2>3. Kept'
    BY <1>1, <1>2, <1>7, <1>8 DEF FdInv, HostInv, Kept, OnlyMoves
  <2>4. \A t \in Threads : Fresh(t)'
    BY <1>1, <1>2, <1>7, <1>8 DEF FdInv, HostInv, Fresh, OnlyMoves
  <2> QED
    BY <2>1, <2>2, <2>3, <2>4 DEF HostInv
<1>11. \A e \in Fds : Tracks(e)'
  <2>1. Tracks(f)'
    BY <1>1, <1>2, <1>4, <1>8 DEF Tracks, OnlyMoves, FdInv, HostInv, Fresh
  <2>2. ASSUME NEW e \in Fds \ {f}
        PROVE  Tracks(e)'
    BY <1>1, <1>2, <1>7, <1>8, <1>9, <2>2 DEF FdInv, Tracks, OnlyMoves
  <2> QED
    BY <2>1, <2>2
<1>12. Opened
  <2> DEFINE x == host[reg[th]]
  <2>1. x \in Files /\ pos[x] = 0 /\ reg[th] \in Hosts
    BY <1>1 DEF FdInv, TypeOK, HostInv, Fresh
  <2>2. \A e \in Fds : Names(e) # x
    BY <1>8, <2>1 DEF Names, FdInv, HostInv, HostApart, Entries
  <2>3. Names(f) = None /\ Names(f)' = x /\ NamesStay(Fds \ {f})
    BY <1>1, <1>2, <1>7, <1>8 DEF Names, NamesStay
  <2> QED
    BY <1>2, <2>1, <2>2, <2>3 DEF Opened
<1> QED
  BY <1>2, <1>3, <1>5, <1>6, <1>10, <1>11, <1>12 DEF FdInv

-----------------------------------------------------------------------------
(* close, and the end of dup2                                              *)

LEMMA CloseHostStep ==
  ASSUME FdInv, NEW th \in Threads, CloseHost(th), Apart'
  PROVE  FdInv' /\ Closed
<1> USE FdTableAssumption DEF FdTableAssumption
<1>1. PICK c \in Fds : /\ c = Closee(th) /\ reg[th] = real[c] /\ pc[th] = "close_host"
                       /\ MeansToClose(th) /\ Settled(c) /\ Sole(c)
  <2>1. pc[th] = "close_host" /\ MeansToClose(th) /\ reg[th] = real[Closee(th)]
    BY DEF CloseHost, At, FdInv, TypeOK, ThreadInv, Labelled, Argued, Found, Works, Opening,
           Moving, Duping, Ending, MeansToClose, Closee
  <2> QED
    BY <2>1, ArgumentsSettled DEF FdInv, HostInv, Entries
<1>2. /\ OnlyMoves(th) /\ UNCHANGED <<used, real, offset, elock, tlock, pos, op, fd, new, reg, ub>>
      /\ host' = [h \in Hosts |-> IF h = real[c] THEN None ELSE host[h]]
      /\ pc' = [pc EXCEPT ![th] = "close_free"] /\ pc'[th] = "close_free"
  BY <1>1 DEF CloseHost, Goto, entries, locks, args, OnlyMoves, FdInv, TypeOK
<1>3. TypeOK'
  BY <1>1, <1>2 DEF FdInv, TypeOK, Labels
<1>4. ThreadInv'
  BY <1>1, <1>2
     DEF FdInv, TypeOK, ThreadInv, OnlyMoves, Labelled, Argued, Found, Works, Opening, Moving,
         Duping, Ending, MeansToClose, Closee
<1>5. Locked'
  <2>1. /\ (HasEntry(th)' <=> HasEntry(th)) /\ ~HasTable(th) /\ ~HasTable(th)'
    BY <1>1, <1>2 DEF HasEntry, HasTable, Moving, Duping, Ending
  <2> QED
    BY <1>2, <2>1, LockedFrame DEF locks
<1>6. \A e \in Fds : Settled(e)' <=> Settled(e) /\ e # c
  BY <1>1, <1>2 DEF Settled, OnlyMoves, Closee
<1>7. \A e \in Fds : Settled(e) /\ e # c => real[e] # real[c]
  BY <1>1 DEF Sole
<1>8. \A e \in Fds : Settled(e) /\ e # c => (Sole(e)' <=> Sole(e))
  BY <1>1, <1>2, <1>6, <1>7 DEF Sole
<1>9. HostInv'
  <2>1. HostApart'
    BY <1>2 DEF FdInv, HostInv, HostApart
  <2>2. Entries'
    <3>1. (\A e \in Fds : Settled(e) => real[e] \in Hosts /\ host[real[e]] # None)'
      BY <1>2, <1>6, <1>7 DEF FdInv, HostInv, Entries
    <3>2. ASSUME NEW t \in Threads, NEW e \in Fds,
                 (\/ MeansToClose(t) /\ pc[t] # "close_free" /\ e = Closee(t)
                  \/ op[t] = "dup2" /\ pc[t] \in {"get", "dup_new"} /\ used[new[t]] /\ e = new[t])'
          PROVE  Sole(e)'
      <4>1. t # th
        BY <1>2, <3>2
      <4>2. \/ MeansToClose(t) /\ pc[t] # "close_free" /\ e = Closee(t)
            \/ op[t] = "dup2" /\ pc[t] \in {"get", "dup_new"} /\ used[new[t]] /\ e = new[t]
        BY <1>2, <3>2, <4>1 DEF OnlyMoves, MeansToClose, Closee
      <4>3. Settled(e) /\ Sole(e)
        BY <4>2, ArgumentsSettled DEF FdInv, HostInv, Entries
      <4> QED
        BY <1>2, <1>6, <4>3 DEF Sole
    <3>3. \A t \in Threads : /\ MeansToClose(t)' => Closee(t)' \in Fds
                             /\ op'[t] = "dup2" => new'[t] \in Fds
      BY <1>4 DEF ThreadInv, Argued, MeansToClose, Closee
    <3> QED
      BY <1>2, <3>1, <3>2, <3>3 DEF FdInv, HostInv, Entries
  <2>3. Kept'
    BY <1>1, <1>2, <1>6, <1>7 DEF FdInv, HostInv, Kept, OnlyMoves
  <2>4. \A t \in Threads : Fresh(t)'
    BY <1>1, <1>2, <1>6 DEF FdInv, HostInv, Fresh, OnlyMoves
  <2> QED
    BY <2>1, <2>2, <2>3, <2>4 DEF HostInv
<1>10. \A e \in Fds : Tracks(e)'
  <2> SUFFICES ASSUME NEW e \in Fds, Settled(e), e # c, Sole(e)
               PROVE  Tracks(e)'
    BY <1>6, <1>8 DEF Tracks
  <2>1. host'[real[e]] = host[real[e]]
    BY <1>2, <1>7 DEF FdInv, HostInv, Entries
  <2> QED
    BY <1>1, <1>2, <2>1 DEF FdInv, Tracks, OnlyMoves
<1>11. Closed
  <2>1. Names(c) # None /\ Names(c)' = None
    BY <1>1, <1>6 DEF Names, FdInv, HostInv, Entries
  <2>2. NamesStay(Fds \ {c})
    BY <1>2, <1>6, <1>7 DEF Names, NamesStay, FdInv, HostInv, Entries
  <2> QED
    BY <1>2, <2>1, <2>2 DEF Closed
<1> QED
  BY <1>2, <1>3, <1>4, <1>5, <1>9, <1>10, <1>11 DEF FdInv

LEMMA CloseFreeStep ==
  ASSUME FdInv, NEW th \in Threads, CloseFree(th), Apart'
  PROVE  FdInv' /\ Unseen
<1> USE FdTableAssumption DEF FdTableAssumption
<1>1. PICK c \in Fds : /\ c = Closee(th) /\ pc[th] = "close_free" /\ used[c] /\ ~Settled(c)
                       /\ op[th] = "dup2" => c = new[th]
                       /\ op[th] # "dup2" => op[th] = "close" /\ c = fd[th]
  <2>1. pc[th] = "close_free" /\ op[th] \in {"close", "dup2"} /\ MeansToClose(th)
    BY DEF CloseFree, At, FdInv, TypeOK, ThreadInv, Labelled, Opening, Moving, Duping, Ending,
           MeansToClose
  <2>2. Closee(th) \in Fds /\ used[Closee(th)]
    BY <2>1 DEF FdInv, ThreadInv, Argued, Found, Closee
  <2>3. ~Settled(Closee(th))
    BY <2>1 DEF Settled
  <2> QED
    BY <2>1, <2>2, <2>3 DEF Closee
<1>2. \A t \in Threads \ {th} : fd[t] # c /\ new[t] # c /\ Closee(t) # c
  BY <1>1, OthersKeepOff
<1>3. elock[c] = None
  <2> SUFFICES ASSUME NEW u \in Threads, HasEntry(u), fd[u] = c PROVE FALSE
    BY HolderOf
  <2>1. u = th
    BY <1>2
  <2> QED
    BY <1>1, <2>1 DEF HasEntry, Moving, Duping, Ending, FdInv, ThreadInv, Argued
<1>4. /\ UNCHANGED <<elock, tlock, host, pos>> /\ ub' = FALSE
      /\ used' = [used EXCEPT ![c] = FALSE] /\ real' = [real EXCEPT ![c] = None]
      /\ offset' = [offset EXCEPT ![c] = 0] /\ reg' = [reg EXCEPT ![th] = None]
  BY <1>1, <1>3 DEF CloseFree, Freed, Clears, locks, outside, Return
<1>5. /\ OnlyMoves(th)
      /\ \/ /\ op[th] = "dup2" /\ pc'[th] = "dup_clone"
            /\ op'[th] = op[th] /\ fd'[th] = fd[th] /\ new'[th] = new[th]
         \/ /\ op[th] = "close" /\ pc'[th] = "idle"
            /\ op'[th] = "none" /\ fd'[th] = None /\ new'[th] = None
      /\ pc' \in [Threads -> Labels] /\ op' \in [Threads -> {"none", "open", "io", "close", "dup2"}]
      /\ fd' \in [Threads -> Fds \cup {None}] /\ new' \in [Threads -> Fds \cup {None}]
  BY <1>1, <1>4 DEF CloseFree, Return, Call, Goto, args, FdInv, TypeOK, OnlyMoves, Labels
<1>6. TypeOK'
  <2>1. used' \in [Fds -> BOOLEAN] /\ real' \in [Fds -> Hosts \cup {None}]
    BY <1>4 DEF FdInv, TypeOK
  <2>2. offset' \in [Fds -> 0 .. MaxPos]
    BY <1>4 DEF FdInv, TypeOK
  <2>3. reg' \in [Threads -> Hosts \cup {None} \cup 0 .. MaxPos]
    BY <1>4 DEF FdInv, TypeOK
  <2> QED
    BY <1>4, <1>5, <2>1, <2>2, <2>3 DEF FdInv, TypeOK
<1>7. ThreadInv'
  <2> SUFFICES ASSUME NEW t \in Threads
               PROVE  (Labelled(t) /\ Argued(t) /\ Found(t) /\ Works(t))'
    BY DEF ThreadInv
  <2>1. CASE t = th
    BY <1>1, <1>4, <1>5, <2>1
       DEF FdInv, TypeOK, ThreadInv, Labelled, Argued, Found, Works, Opening, Moving, Duping,
           Ending, MeansToClose, Closee
  <2>2. CASE t # th
    BY <1>2, <1>4, <1>5, <2>2
       DEF FdInv, TypeOK, ThreadInv, OnlyMoves, Labelled, Argued, Found, Works, Opening, Moving,
           Duping, Ending, MeansToClose, Closee
  <2> QED
    BY <2>1, <2>2
<1>8. Locked'
  <2>1. /\ (HasEntry(th)' <=> HasEntry(th)) /\ ~HasTable(th) /\ ~HasTable(th)'
        /\ HasEntry(th) => fd'[th] = fd[th]
    BY <1>1, <1>5 DEF HasEntry, HasTable, Moving, Duping, Ending
  <2> QED
    BY <1>4, <1>5, <2>1, LockedFrame DEF locks
<1>9. \A e \in Fds : (Settled(e)' <=> Settled(e)) /\ (Settled(e) => e # c)
  <2>1. ~Settled(c)'
    BY <1>4 DEF Settled, FdInv, TypeOK
  <2>2. \A e \in Fds \ {c} : used'[e] = used[e]
    BY <1>4 DEF FdInv, TypeOK
  <2>3. \A e \in Fds \ {c} : Settled(e)' <=> Settled(e)
    BY <1>1, <1>5, <2>2 DEF Settled, OnlyMoves, Closee
  <2> QED
    BY <1>1, <2>1, <2>3
<1>10. /\ \A e \in Fds : Settled(e) => (Sole(e)' <=> Sole(e))
       /\ HostInv'
  <2>1. ~MeansToClose(th)' /\ pc'[th] \notin {"get", "dup_new", "open_init"} /\ pc[th] # "open_init"
    BY <1>1, <1>5 DEF MeansToClose, Ending
  <2>2. /\ \A t \in Threads : pc[t] = "open_init" => pos'[host[reg[t]]] = 0
        /\ \A e \in Fds : ~used'[e] => real'[e] = None
        /\ \A e \in Fds : used'[e] => used[e]
        /\ \A e \in Fds : Settled(e) => real'[e] = real[e]
        /\ \A t \in Threads \ {th} : op[t] = "dup2" => new[t] \in Fds
    BY <1>1, <1>4, <1>9 DEF FdInv, TypeOK, HostInv, Fresh, Entries, ThreadInv, Argued
  <2> QED
    BY <1>4, <1>5, <1>9, <2>1, <2>2, HostFrame
<1>11. \A e \in Fds : Tracks(e)'
  BY <1>1, <1>4, <1>5, <1>9, <1>10, TracksFrame DEF FdInv, TypeOK
<1>12. Unseen
  <2>1. \A e \in Fds : Settled(e) => real'[e] = real[e]
    BY <1>4, <1>9 DEF FdInv, TypeOK
  <2> QED
    BY <1>4, <1>9, <2>1, UnseenFrame
<1> QED
  BY <1>4, <1>6, <1>7, <1>8, <1>10, <1>11, <1>12 DEF FdInv

LEMMA DupCloneStep ==
  ASSUME FdInv, NEW th \in Threads, DupClone(th), Apart'
  PROVE  FdInv' /\ Copied
<1> USE FdTableAssumption DEF FdTableAssumption
<1>1. PICK s \in Fds, n \in Fds :
        /\ s = fd[th] /\ n = new[th] /\ s # n /\ op[th] = "dup2" /\ pc[th] = "dup_clone"
        /\ used[s] /\ ~used[n] /\ Settled(s) /\ ~Settled(n) /\ tlock = None
  <2>1. /\ op[th] = "dup2" /\ pc[th] = "dup_clone" /\ tlock = None
        /\ fd[th] \in Fds /\ new[th] \in Fds \ {fd[th]} /\ used[fd[th]] /\ ~used[new[th]]
    BY DEF DupClone, At, FdInv, TypeOK, ThreadInv, Labelled, Argued, Found, Opening, Moving,
           Ending
  <2>2. Settled(fd[th]) /\ ~Settled(new[th])
    BY <2>1, ArgumentsSettled DEF Settled
  <2> QED
    BY <2>1, <2>2
<1>2. /\ \A t \in Threads \ {th} : fd[t] # n /\ new[t] # n /\ Closee(t) # n
      /\ \A t \in Threads \ {th} : fd[t] # s /\ new[t] # s /\ Closee(t) # s
  BY <1>1, OthersKeepOff
<1>3. elock[n] = None /\ elock[s] = th
  BY <1>1, HolderOf DEF FdInv, Locked, HasEntry, Duping
<1>4. /\ OnlyMoves(th) /\ UNCHANGED <<tlock, host, pos>> /\ ub' = FALSE
      /\ used' = [used EXCEPT ![n] = TRUE] /\ real' = [real EXCEPT ![n] = real[s]]
      /\ offset' = [offset EXCEPT ![n] = offset[s]] /\ elock' = [elock EXCEPT ![s] = None]
      /\ pc'[th] = "idle" /\ op'[th] = "none" /\ fd'[th] = None /\ new'[th] = None
      /\ reg' = [reg EXCEPT ![th] = None]
  <2>1. /\ UNCHANGED <<tlock, host, pos>> /\ ub' = FALSE
        /\ used' = [used EXCEPT ![n] = TRUE] /\ real' = [real EXCEPT ![n] = real[s]]
        /\ offset' = [offset EXCEPT ![n] = offset[s]] /\ elock' = [elock EXCEPT ![s] = None]
    BY <1>1, <1>3 DEF DupClone, Return, Call, UnlocksOld, outside
  <2>2. /\ pc' = [pc EXCEPT ![th] = "idle"] /\ op' = [op EXCEPT ![th] = "none"]
        /\ fd' = [fd EXCEPT ![th] = None] /\ new' = [new EXCEPT ![th] = None]
        /\ reg' = [reg EXCEPT ![th] = None]
    BY <1>1 DEF DupClone, Return, Call
  <2> QED
    BY <2>1, <2>2 DEF FdInv, TypeOK, OnlyMoves
<1>5. /\ pc' \in [Threads -> Labels] /\ op' \in [Threads -> {"none", "open", "io", "close", "dup2"}]
      /\ fd' \in [Threads -> Fds \cup {None}] /\ new' \in [Threads -> Fds \cup {None}]
  BY <1>1 DEF DupClone, Return, Call, FdInv, TypeOK, Labels
<1>6. TypeOK'
  <2>1. used' \in [Fds -> BOOLEAN] /\ real' \in [Fds -> Hosts \cup {None}]
    BY <1>4 DEF FdInv, TypeOK
  <2>2. offset' \in [Fds -> 0 .. MaxPos] /\ elock' \in [Fds -> Threads \cup {None}]
    BY <1>4 DEF FdInv, TypeOK
  <2>3. reg' \in [Threads -> Hosts \cup {None} \cup 0 .. MaxPos]
    BY <1>4 DEF FdInv, TypeOK
  <2> QED
    BY <1>4, <1>5, <2>1, <2>2, <2>3 DEF FdInv, TypeOK
<1>7. ThreadInv'
  <2> SUFFICES ASSUME NEW t \in Threads
               PROVE  (Labelled(t) /\ Argued(t) /\ Found(t) /\ Works(t))'
    BY DEF ThreadInv
  <2>1. CASE t = th
    BY <1>1, <1>4, <2>1
       DEF Labelled, Argued, Found, Works, Opening, Moving, Duping, Ending, MeansToClose,
           Closee
  <2>2. CASE t # th
    BY <1>2, <1>4, <2>2
       DEF FdInv, TypeOK, ThreadInv, OnlyMoves, Labelled, Argued, Found, Works, Opening, Moving,
           Duping, Ending, MeansToClose, Closee
  <2> QED
    BY <2>1, <2>2
<1>8. Locked'
  <2>1. ~HasEntry(th)' /\ ~HasTable(th)'
    BY <1>4 DEF HasEntry, HasTable, Moving, Duping, Ending
  <2>2. \A t \in Threads \ {th} :
          /\ (HasEntry(t)' <=> HasEntry(t)) /\ (HasTable(t)' <=> HasTable(t)) /\ fd'[t] = fd[t]
    BY <1>4 DEF OnlyMoves, HasEntry, HasTable
  <2>3. (\A f \in Fds : elock[f] # None => HasEntry(elock[f]) /\ fd[elock[f]] = f)'
    <3> SUFFICES ASSUME NEW f \in Fds \ {s}, elock[f] # None, elock'[f] = elock[f]
                 PROVE  (HasEntry(elock[f]) /\ fd[elock[f]] = f)'
      BY <1>4 DEF FdInv, TypeOK
    <3>1. PICK u \in Threads \ {th} : elock[f] = u /\ HasEntry(u) /\ fd[u] = f
      BY <1>1, HolderOf
    <3>2. HasEntry(u)' /\ fd'[u] = f
      BY <2>2, <3>1
    <3> QED
      BY <3>1, <3>2 DEF HasEntry
  <2>4. (\A t \in Threads : HasEntry(t) => elock[fd[t]] = t)'
    <3>1. \A t \in Threads \ {th} : HasEntry(t) => fd[t] \in Fds \ {s}
      BY <1>1, <1>2
         DEF FdInv, TypeOK, ThreadInv, Labelled, Argued, HasEntry, Moving, Duping, Ending
    <3> QED
      BY <1>4, <2>1, <2>2, <3>1 DEF FdInv, TypeOK, Locked
  <2>5. (tlock # None => HasTable(tlock))' /\ (\A t \in Threads : HasTable(t) => tlock = t)'
    BY <1>1, <1>4, <2>1, <2>2 DEF FdInv, Locked
  <2> QED
    BY <2>3, <2>4, <2>5 DEF Locked
<1>9. \A e \in Fds : Settled(e)' <=> Settled(e) \/ e = n
  <2>1. Settled(n)'
    BY <1>2, <1>4 DEF Settled, OnlyMoves, Closee, FdInv, TypeOK
  <2>2. \A e \in Fds \ {n} : used'[e] = used[e]
    BY <1>4 DEF FdInv, TypeOK
  <2>3. \A e \in Fds \ {n} : Settled(e)' <=> Settled(e)
    BY <1>1, <1>4, <2>2 DEF Settled, OnlyMoves, Closee
  <2> QED
    BY <2>1, <2>3
<1>10. /\ real'[n] = real[s] /\ \A e \in Fds \ {n} : real'[e] = real[e] /\ offset'[e] = offset[e]
       /\ \A e \in Fds : Settled(e) => e # n
  BY <1>1, <1>4 DEF FdInv, TypeOK
<1>11. \A e \in Fds \ {s} : Settled(e) => (Sole(e)' <=> Sole(e))
  <2> SUFFICES ASSUME NEW e \in Fds \ {s, n}
               PROVE  Sole(e)' <=> Sole(e)
    BY <1>10
  <2>1. Sole(e)' => Sole(e)
    BY <1>9, <1>10 DEF Sole
  <2>2. ASSUME Sole(e) PROVE Sole(e)'
    <3> SUFFICES ASSUME NEW g \in Fds \ {e}, Settled(g)' PROVE real'[g] # real'[e]
      BY DEF Sole
    <3>1. CASE g = n
      BY <1>1, <1>10, <2>2, <3>1 DEF Sole
    <3>2. CASE g # n
      BY <1>9, <1>10, <2>2, <3>2 DEF Sole
    <3> QED
      BY <3>1, <3>2
  <2> QED
    BY <2>1, <2>2
<1>12. HostInv'
  <2>1. HostApart'
    BY <1>4 DEF FdInv, HostInv, HostApart
  <2>2. Entries'
    <3>1. (\A e \in Fds : Settled(e) => real[e] \in Hosts /\ host[real[e]] # None)'
      BY <1>1, <1>4, <1>9, <1>10 DEF FdInv, HostInv, Entries
    <3>2. (\A e \in Fds : ~used[e] => real[e] = None)'
      BY <1>1, <1>4, <1>10 DEF FdInv, TypeOK, HostInv, Entries
    <3>3. ASSUME NEW t \in Threads, NEW e \in Fds,
                 (\/ MeansToClose(t) /\ pc[t] # "close_free" /\ e = Closee(t)
                  \/ op[t] = "dup2" /\ pc[t] \in {"get", "dup_new"} /\ used[new[t]] /\ e = new[t])'
          PROVE  Sole(e)'
      <4>1. t # th
        BY <1>4, <3>3 DEF MeansToClose
      <4>2. e \notin {s, n}
        BY <1>2, <1>4, <3>3, <4>1 DEF OnlyMoves, Closee
      <4>3. \/ MeansToClose(t) /\ pc[t] # "close_free" /\ e = Closee(t)
            \/ op[t] = "dup2" /\ pc[t] \in {"get", "dup_new"} /\ used[new[t]] /\ e = new[t]
        BY <1>4, <3>3, <4>1, <4>2 DEF OnlyMoves, MeansToClose, Closee, FdInv, TypeOK
      <4>4. Settled(e) /\ Sole(e)
        BY <4>3, ArgumentsSettled DEF FdInv, HostInv, Entries
      <4> QED
        BY <1>11, <4>2, <4>4
    <3>4. \A t \in Threads : /\ MeansToClose(t)' => Closee(t)' \in Fds
                             /\ op'[t] = "dup2" => new'[t] \in Fds
      BY <1>7 DEF ThreadInv, Argued, MeansToClose, Closee
    <3> QED
      BY <3>1, <3>2, <3>3, <3>4 DEF Entries
  <2>3. Kept'
    BY <1>1, <1>4, <1>9, <1>10 DEF FdInv, HostInv, Kept, OnlyMoves
  <2>4. \A t \in Threads : Fresh(t)'
    BY <1>1, <1>4, <1>9, <1>10 DEF FdInv, HostInv, Fresh, OnlyMoves
  <2> QED
    BY <2>1, <2>2, <2>3, <2>4 DEF HostInv
<1>13. \A e \in Fds : Tracks(e)'
  <2>1. ~Sole(n)' /\ ~Sole(s)'
    BY <1>1, <1>9, <1>10 DEF Sole
  <2> SUFFICES ASSUME NEW e \in Fds \ {s, n}, Settled(e), Sole(e)
               PROVE  Tracks(e)'
    BY <1>9, <1>11, <2>1 DEF Tracks
  <2> QED
    BY <1>1, <1>4, <1>10 DEF FdInv, Tracks, OnlyMoves
<1>14. Copied
  <2>1. Names(s) # None /\ Names(n) = None /\ Names(n)' = Names(s)
    BY <1>1, <1>4, <1>9, <1>10 DEF Names, FdInv, HostInv, Entries
  <2>2. NamesStay(Fds \ {n})
    BY <1>4, <1>9, <1>10 DEF Names, NamesStay
  <2> QED
    BY <1>4, <2>1, <2>2 DEF Copied
<1> QED
  BY <1>4, <1>6, <1>7, <1>8, <1>12, <1>13, <1>14 DEF FdInv

-----------------------------------------------------------------------------
LEMMA FdInitInv == Init => FdInv
<1> SUFFICES ASSUME Init PROVE FdInv
  OBVIOUS
<1> USE FdTableAssumption DEF FdTableAssumption, Init
<1>1. TypeOK
  <2>1. 0 \in 0 .. MaxPos /\ "idle" \in Labels
    BY DEF Labels
  <2> QED
    BY <2>1 DEF TypeOK
<1>2. Apart /\ ThreadInv
  BY DEF Apart, Uses, ThreadInv, Labelled, Argued, Found, Works, Opening, Moving, Duping,
         Ending, MeansToClose, Closee
<1>3. Locked
  BY DEF Locked, HasEntry, HasTable, Moving, Duping, Ending
<1>4. HostInv /\ \A f \in Fds : Tracks(f)
  BY DEF HostInv, HostApart, Entries, Kept, Fresh, Settled, Tracks, MeansToClose
<1> QED
  BY <1>1, <1>2, <1>3, <1>4 DEF FdInv

LEMMA FdNextInv ==
  ASSUME FdInv, [CarefulNext]_vars
  PROVE  FdInv' /\ (Unseen \/ Opened \/ Closed \/ Copied \/ Moved)
<1>1. CASE CarefulNext
  <2>1. Apart' /\ KeepsCopies
    BY <1>1 DEF CarefulNext
  <2>2. PICK th \in Threads : Inside(th) \/ Calls(th)
    BY <1>1 DEF CarefulNext, Next
  <2>3. CASE Inside(th)
    <3>1. Looks(th) \/ Io(th) \/ OpenHost(th) \/ OpenUndo(th) \/ OpenInit(th) \/ CloseHost(th)
            \/ CloseFree(th) \/ DupClone(th)
      BY <2>3 DEF Inside, Looks, Io
    <3> QED
      BY <2>1, <3>1, LooksStep, IoStep, OpenHostStep, OpenUndoStep, OpenInitStep, CloseHostStep,
         CloseFreeStep, DupCloneStep
  <2>4. CASE Calls(th)
    <3>1. CASE OpenAlloc(th)
      BY <2>1, <3>1, OpenAllocStep
    <3>2. ASSUME NEW f \in Fds, NEW o \in {"io", "close"}, Begin(th, o, f, None)
          PROVE  FdInv' /\ Unseen
      BY <2>1, <3>2, BeginStep
    <3>3. ASSUME NEW f \in Fds, NEW g \in Fds \ {f}, Begin(th, "dup2", f, g)
          PROVE  FdInv' /\ Unseen
      BY <2>1, <3>3, BeginStep
    <3> QED
      BY <2>4, <3>1, <3>2, <3>3 DEF Calls
  <2> QED
    BY <2>2, <2>3, <2>4
<1>2. CASE UNCHANGED vars
  <2> USE <1>2 DEF vars, entries, locks, outside, args, FdInv
  <2>1. TypeOK' /\ Apart' /\ ~ub'
    BY DEF TypeOK, Apart, Uses
  <2>2. ThreadInv'
    BY DEF ThreadInv, Labelled, Argued, Found, Works, Opening, Moving, Duping, Ending,
           MeansToClose, Closee
  <2>3. Locked'
    BY DEF Locked, HasEntry, HasTable
  <2>4. \A f \in Fds : Settled(f)' <=> Settled(f)
    BY DEF Settled, Closee
  <2>5. \A f \in Fds : Sole(f)' <=> Sole(f)
    BY <2>4 DEF Sole
  <2>6. HostInv'
    <3>1. \A t \in Threads : (MeansToClose(t)' <=> MeansToClose(t)) /\ Closee(t)' = Closee(t)
      BY DEF MeansToClose, Closee
    <3>2. \A t \in Threads : /\ MeansToClose(t) => Closee(t) \in Fds
                             /\ op[t] = "dup2" => new[t] \in Fds
      BY DEF ThreadInv, Argued, MeansToClose, Closee
    <3>3. Entries'
      BY <2>4, <2>5, <3>1, <3>2 DEF HostInv, Entries
    <3>4. HostApart' /\ Kept' /\ \A t \in Threads : Fresh(t)'
      BY <2>4 DEF HostInv, HostApart, Kept, Fresh
    <3> QED
      BY <3>3, <3>4 DEF HostInv
  <2>7. \A f \in Fds : Tracks(f)'
    BY <2>4, <2>5 DEF Tracks
  <2>8. Unseen
    BY <2>4, UnseenFrame
  <2> QED
    BY <2>1, <2>2, <2>3, <2>6, <2>7, <2>8
<1> QED
  BY <1>1, <1>2

(* Every variable keeps its type: in particular an entry's offset stays    *)
(* one that the position of a file can have.                               *)
THEOREM FdTypeCorrect == CarefulSpec => []TypeOK
<1>1. FdInv => TypeOK
  BY DEF FdInv
<1> QED
  BY <1>1, FdInitInv, FdNextInv, PTL DEF CarefulSpec

(* Careful programs never make a call destroy, overwrite or use the mutex  *)
(* of an entry that is locked or gone, in any order of their calls.        *)
LEMMA FdDefined == CarefulSpec => []NothingUndefined
<1>1. FdInv => NothingUndefined
  BY DEF FdInv, NothingUndefined
<1> QED
  BY <1>1, FdInitInv, FdNextInv, PTL DEF CarefulSpec

(* No host descriptor is lost and no entry stays used without one, however *)
(* opens, closes and dup2s are interleaved and whichever opens fail.       *)
THEOREM FdKept == CarefulSpec => []NoLeak
<1>1. FdInv => NoLeak
  <2> SUFFICES ASSUME FdInv PROVE NoLeak
    OBVIOUS
  <2>1. \A h \in Hosts : host[h] # None =>
          \/ \E f \in Fds : used[f] /\ real[f] = h
          \/ \E th \in Threads : pc[th] = "open_init" /\ reg[th] = h
    BY DEF FdInv, HostInv, Kept, Settled
  <2>2. \A f \in Fds : Settled(f) => FileOf(real[f]) # None
    BY DEF FdInv, HostInv, Entries, FileOf
  <2> QED
    BY <2>1, <2>2 DEF NoLeak, Settled
<1> QED
  BY <1>1, FdInitInv, FdNextInv, PTL DEF CarefulSpec

(* The offset of an entry that has no copy is the position of its file     *)
(* between calls, however reads, writes and seeks of threads interleave.   *)
THEOREM FdOffsets == CarefulSpec => []OffsetTracksFile
<1>1. FdInv => OffsetTracksFile
  <2> SUFFICES ASSUME FdInv, NEW f \in Fds, FileOf(real[f]) # None,
                      \A th \in Threads : f \notin Uses(th) \/ pc[th] = "get",
                      \A g \in Fds \ {f} : real[g] # real[f]
               PROVE  offset[f] = pos[FileOf(real[f])]
    BY DEF OffsetTracksFile
  <2>1. f # None
    BY FdTableAssumption DEF FdTableAssumption
  <2>2. Sole(f) /\ real[f] \in Hosts /\ used[f]
    BY FdTableAssumption DEF FdTableAssumption, Sole, FileOf, FdInv, HostInv, Entries
  <2>3. \A th \in Threads : (fd[th] = f \/ Closee(th) = f) => pc[th] = "get"
    BY <2>1 DEF Uses, Closee
  <2>4. \A th \in Threads : pc[th] = "get" => op[th] # "open"
    BY DEF FdInv, ThreadInv, Labelled, Opening
  <2>5. Settled(f)
    BY <2>2, <2>3, <2>4 DEF Settled
  <2> QED
    BY <2>2, <2>3, <2>5 DEF FdInv, Tracks, FileOf
<1> QED
  BY <1>1, FdInitInv, FdNextInv, PTL DEF CarefulSpec

-----------------------------------------------------------------------------
(* The table implements FileTable.                                         *)

LEMMA DenotesIsNames == FdInv => \A f \in Fds : Denotes(f) = Names(f)
<1> SUFFICES ASSUME FdInv, NEW f \in Fds
             PROVE  Denotes(f) = Names(f)
  OBVIOUS
<1>1. CASE Settled(f)
  BY <1>1 DEF Denotes, Names, Settled, FileOf, FdInv, HostInv, Entries
<1>2. CASE ~Settled(f)
  <2>1. CASE \E th \in Threads : fd[th] = f /\ op[th] = "open"
    BY <2>1, <1>2, FdTableAssumption
    DEF FdTableAssumption, Denotes, Names, FileOf, FdInv, ThreadInv, Found
  <2>2. CASE ~\E th \in Threads : fd[th] = f /\ op[th] = "open"
    BY <1>2, <2>2 DEF Denotes, Names, Settled
  <2> QED
    BY <2>1, <2>2
<1> QED
  BY <1>1, <1>2

LEMMA DenotesIsNamesNext == FdInv' => \A f \in Fds : Denotes(f)' = Names(f)'
<1> SUFFICES ASSUME FdInv', NEW f \in Fds
             PROVE  Denotes(f)' = Names(f)'
  OBVIOUS
<1>1. CASE Settled(f)'
  BY <1>1 DEF Denotes, Names, Settled, FileOf, FdInv, HostInv, Entries
<1>2. CASE ~Settled(f)'
  <2>1. CASE \E th \in Threads : fd'[th] = f /\ op'[th] = "open"
    BY <2>1, <1>2, FdTableAssumption
    DEF FdTableAssumption, Denotes, Names, FileOf, FdInv, ThreadInv, Found
  <2>2. CASE ~\E th \in Threads : fd'[th] = f /\ op'[th] = "open"
    BY <1>2, <2>2 DEF Denotes, Names, Settled
  <2> QED
    BY <2>1, <2>2
<1> QED
  BY <1>1, <1>2

LEMMA TableStep ==
  ASSUME FdInv, FdInv', Unseen \/ Opened \/ Closed \/ Copied \/ Moved
  PROVE  [Table!Next]_(Table!vars)
<1> DEFINE t == [f \in Fds |-> Denotes(f)]
           p == [x \in Files |-> IF \E f \in Fds : Denotes(f) = x THEN pos[x] ELSE 0]
<1>1. \A f \in Fds : Denotes(f) = Names(f) /\ Denotes(f)' = Names(f)'
  BY DenotesIsNames, DenotesIsNamesNext
<1>2. /\ t = [f \in Fds |-> Names(f)] /\ t' = [f \in Fds |-> Names(f)']
      /\ p = [x \in Files |-> IF \E f \in Fds : Names(f) = x THEN pos[x] ELSE 0]
      /\ p' = [x \in Files |-> IF \E f \in Fds : Names(f)' = x THEN pos'[x] ELSE 0]
  BY <1>1
<1> HIDE DEF t, p
<1>3. None \notin Files /\ None \notin Fds
  BY FdTableAssumption DEF FdTableAssumption
<1>4. CASE Unseen
  <2>1. t' = t /\ p' = p
    BY <1>2, <1>3, <1>4 DEF Unseen, NamesStay
  <2> QED
    BY <2>1 DEF Table!vars, t, p
<1>5. CASE Opened
  <2>1. PICK f \in Fds, x \in Files :
          /\ Names(f) = None /\ Names(f)' = x /\ NamesStay(Fds \ {f})
          /\ \A e \in Fds : Names(e) # x
          /\ pos' = pos /\ pos[x] = 0
    BY <1>5 DEF Opened
  <2>2. t[f] = None /\ x \notin {t[e] : e \in Fds} \ {None}
    BY <1>2, <2>1
  <2>3. t' = [t EXCEPT ![f] = x] /\ p' = p
    BY <1>2, <1>3, <2>1 DEF NamesStay
  <2>4. Table!Open(f, x)
    BY <2>2, <2>3 DEF Table!Open, Table!OpenIn, t, p
  <2> QED
    BY <2>4 DEF Table!Next
<1>6. CASE Closed
  <2>1. PICK f \in Fds : /\ Names(f) # None /\ Names(f)' = None /\ NamesStay(Fds \ {f})
                         /\ pos' = pos
    BY <1>6 DEF Closed
  <2>2. t[f] # None /\ t' = [t EXCEPT ![f] = None]
    BY <1>2, <2>1 DEF NamesStay
  <2>3. p' = [x \in Files |-> IF x \in {t'[e] : e \in Fds} \ {None} THEN p[x] ELSE 0]
    BY <1>2, <1>3, <2>1 DEF NamesStay
  <2>4. Table!Close(f)
    BY <2>2, <2>3 DEF Table!Close, Table!OpenIn, t, p
  <2> QED
    BY <2>4 DEF Table!Next
<1>7. CASE Copied
  <2>1. PICK f \in Fds, g \in Fds : /\ Names(f) # None /\ Names(g) = None
                                   /\ Names(g)' = Names(f) /\ NamesStay(Fds \ {g})
                                   /\ pos' = pos
    BY <1>7 DEF Copied
  <2>2. t[f] # None /\ t[g] = None /\ t' = [t EXCEPT ![g] = t[f]]
    BY <1>2, <2>1 DEF NamesStay
  <2>3. p' = p
    BY <1>2, <1>3, <2>1 DEF NamesStay
  <2>4. Table!Dup(f, g)
    BY <2>2, <2>3 DEF Table!Dup, t, p
  <2> QED
    BY <2>4 DEF Table!Next
<1>8. CASE Moved
  <2>1. PICK f \in Fds : /\ Names(f) # None /\ NamesStay(Fds)
                         /\ \A x \in Files \ {Names(f)} : pos'[x] = pos[x]
    BY <1>8 DEF Moved
  <2>2. t[f] # None /\ t' = t /\ \A x \in Files \ {t[f]} : p'[x] = p[x]
    BY <1>2, <2>1 DEF NamesStay
  <2>3. Table!Move(f)
    BY <2>2 DEF Table!Move, t, p
  <2> QED
    BY <2>3 DEF Table!Next
<1> QED
  BY <1>4, <1>5, <1>6, <1>7, <1>8

(* To programs that are careful, descriptors denote open files from open   *)
(* or dup2 to close, and calls on one move no other file's position.       *)
LEMMA FdImplements == CarefulSpec => TableSpec
<1>1. Init => Table!Init
  <2> SUFFICES ASSUME Init PROVE Table!Init
    OBVIOUS
  <2>1. \A f \in Fds : Denotes(f) = None
    BY DEF Init, Denotes
  <2>2. \A x \in Files : x # None
    BY FdTableAssumption DEF FdTableAssumption
  <2> QED
    BY <2>1, <2>2 DEF Table!Init, Init
<1>2. FdInv /\ FdInv' /\ [CarefulNext]_vars => [Table!Next]_(Table!vars)
  BY FdNextInv, TableStep
<1>3. FdInv /\ [CarefulNext]_vars => FdInv'
  BY FdNextInv
<1> QED
  BY <1>1, <1>2, <1>3, FdInitInv, PTL DEF CarefulSpec, TableSpec, Table!Spec

=============================================================================
