-------------------------- MODULE TaskTableProofs --------------------------
(***************************************************************************)
(* Proofs about TaskTable, for any number of threads, tasks and PIDs, as   *)
(* long as no lookup falls into the window of NoLateLookup (SerialSpec),   *)
(* and of what the code does in it: that window is the only hole.          *)
(***************************************************************************)
EXTENDS TaskTable, FiniteSetTheorems, TLAPS

-----------------------------------------------------------------------------
(* The inductive invariant.  A task on its way in is not in the table and  *)
(* nobody else knows it; on its way out its count is zero, so that nobody  *)
(* holds it, and it is in the table just until it is unlinked.             *)
ThreadsOK ==
  \A th \in Threads :
    /\ pc[th] = "idle" <=> arg[th] = NoTask
    /\ pc[th] # "idle" => arg[th] \in live
    /\ pc[th] = "link" => arg[th] \notin table
    /\ pc[th] = "unlink" => arg[th] \in table
    /\ pc[th] \in {"free_pid", "free"} => arg[th] \notin table
    /\ pc[th] \in {"unlink", "free_pid", "free"} => refs[arg[th]] = 0

OneOwner ==
  \A th, u \in Threads : arg[th] = arg[u] /\ arg[th] # NoTask => th = u

Reachable ==
  /\ table \subseteq live
  /\ created \subseteq table
  /\ \A th \in Threads : held[th] \subseteq table

(* A task has its PID from its allocation until TaskFreePid.               *)
HasPid == {t \in live : \A th \in Threads : arg[th] = t => pc[th] # "free"}

PidsOK ==
  /\ \A t \in HasPid : pid[t] \in busy
  /\ \A t, u \in HasPid : pid[t] = pid[u] => t = u

IInv ==
  /\ TypeOK
  /\ ThreadsOK
  /\ OneOwner
  /\ Reachable
  /\ RefCountExact
  /\ PidsOK

\* The references to t apart from those of lookups.
Base(t) == IF t \in created \cup TasksAt("link") THEN 1 ELSE 0

-----------------------------------------------------------------------------
LEMMA TeardownOrder ==
  /\ Teardown["drop"] = "unlink"
  /\ Teardown["unlink"] = "free_pid"
  /\ Teardown["free_pid"] = "free"
BY DEF Teardown

LEMMA HoldersFinite ==
  ASSUME NEW t
  PROVE  IsFiniteSet(Holders(t)) /\ Cardinality(Holders(t)) \in Nat
<1>1. Holders(t) \subseteq Threads
  BY DEF Holders
<1>2. IsFiniteSet(Holders(t))
  BY <1>1, TaskTableAssumption, FS_Subset
<1> QED
  BY <1>2, FS_CardinalityType

(* Nobody has a reference to a task whose count is zero; whoever has one   *)
(* keeps the count above zero.                                             *)
LEMMA ZeroMeansUnused ==
  ASSUME IInv, NEW t \in live
  PROVE  /\ refs[t] = 0 => /\ t \notin created
                           /\ \A th \in Threads : t \notin held[th]
         /\ (t \in created \/ \E th \in Threads : t \in held[th]) => refs[t] >= 1
<1>1. /\ IsFiniteSet(Holders(t)) /\ Cardinality(Holders(t)) \in Nat
  BY HoldersFinite
<1>2. refs[t] = Base(t) + Cardinality(Holders(t))
  BY DEF IInv, RefCountExact, Base
<1>3. Cardinality(Holders(t)) = 0 <=> Holders(t) = {}
  BY <1>1, FS_EmptySet
<1>4. Base(t) \in {0, 1} /\ (t \in created => Base(t) = 1)
  BY DEF Base
<1>5. Holders(t) = {} <=> \A th \in Threads : t \notin held[th]
  BY DEF Holders
<1> QED
  BY <1>1, <1>2, <1>3, <1>4, <1>5

(* A task somebody can still use is not being linked or torn down.         *)
LEMMA UsedIsNotOwned ==
  ASSUME IInv, NEW t \in table, refs[t] # 0
  PROVE  \A th \in Threads : arg[th] # t
<1> SUFFICES ASSUME NEW th \in Threads, arg[th] = t
             PROVE  FALSE
  OBVIOUS
<1>1. t # NoTask
  BY TaskTableAssumption DEF IInv, TypeOK
<1>2. pc[th] \in {"link", "unlink", "free_pid", "free"}
  BY <1>1 DEF IInv, TypeOK, ThreadsOK
<1> QED
  BY <1>2 DEF IInv, ThreadsOK

LEMMA InitStep == Init => IInv
<1> SUFFICES ASSUME Init PROVE IInv
  OBVIOUS
<1>1. Pids # {} \/ Tasks = {}
  <2>1. CASE Pids = {}
    <3>1. Cardinality(Pids) = 0
      BY <2>1, FS_EmptySet
    <3>2. Cardinality(Tasks) = 0
      BY <3>1, TaskTableAssumption, FS_CardinalityType
    <3> QED
      BY <3>2, TaskTableAssumption, FS_EmptySet
  <2> QED
    BY <2>1
<1>2. TypeOK
  BY <1>1 DEF Init, TypeOK
<1>3. ThreadsOK /\ OneOwner /\ Reachable /\ RefCountExact /\ PidsOK
  BY DEF Init, ThreadsOK, OneOwner, Reachable, RefCountExact, PidsOK, HasPid
<1> QED
  BY <1>2, <1>3 DEF IInv

-----------------------------------------------------------------------------
LEMMA AllocStep ==
  ASSUME IInv, NEW th \in Threads, NEW t \in Tasks, ixland_task_alloc(th, t)
  PROVE  IInv'
<1> USE DEF IInv, Goto
<1>1. PICK p \in Pids \ busy :
        /\ pc[th] = "idle" /\ t \notin live
        /\ busy' = busy \cup {p}
        /\ pid' = [pid EXCEPT ![t] = p]
        /\ live' = live \cup {t}
        /\ refs' = [refs EXCEPT ![t] = 1]
        /\ pc' = [pc EXCEPT ![th] = "link"]
        /\ arg' = [arg EXCEPT ![th] = t]
        /\ table' = table /\ created' = created /\ held' = held
  BY DEF ixland_task_alloc
<1>2. /\ t # NoTask /\ t \notin table /\ t \notin created
      /\ \A u \in Threads : arg[u] # t /\ t \notin held[u]
  BY <1>1, TaskTableAssumption DEF Reachable, ThreadsOK, TypeOK
<1>3. TypeOK'
  BY <1>1 DEF TypeOK
<1>4. ThreadsOK' /\ OneOwner' /\ Reachable'
  BY <1>1, <1>2 DEF ThreadsOK, OneOwner, Reachable, TypeOK
<1>5. RefCountExact'
  <2>1. TasksAt("link")' = TasksAt("link") \cup {t}
    BY <1>1, <1>2 DEF TasksAt, TypeOK, ThreadsOK
  <2>2. \A u : Holders(u)' = Holders(u)
    BY <1>1 DEF Holders
  <2>3. Holders(t) = {} /\ Cardinality(Holders(t)) = 0
    BY <1>2, FS_EmptySet DEF Holders
  <2> SUFFICES ASSUME NEW u \in live'
               PROVE  refs'[u] = (IF u \in created \cup TasksAt("link") \cup {t} THEN 1 ELSE 0)
                                   + Cardinality(Holders(u))
    BY <1>1, <2>1, <2>2 DEF RefCountExact
  <2>4. CASE u = t
    <3>1. refs'[t] = 1
      BY <1>1 DEF TypeOK
    <3>2. Cardinality(Holders(u)) = 0
      BY <2>3, <2>4, Zenon
    <3> QED
      BY <2>4, <3>1, <3>2
  <2>5. CASE u # t
    BY <1>1, <2>5 DEF TypeOK, RefCountExact
  <2> QED
    BY <2>4, <2>5
<1>6. PidsOK'
  <2>1. HasPid' = HasPid \cup {t}
    BY <1>1, <1>2 DEF HasPid, TypeOK, ThreadsOK
  <2>2. t \notin HasPid
    BY <1>1 DEF HasPid
  <2> QED
    BY <1>1, <2>1, <2>2 DEF PidsOK, TypeOK, HasPid
<1> QED
  BY <1>3, <1>4, <1>5, <1>6

LEMMA LinkStep ==
  ASSUME IInv, NEW th \in Threads, TaskLink(th)
  PROVE  IInv'
<1> USE DEF IInv, Goto
<1> DEFINE t == arg[th]
<1>1. /\ pc[th] = "link"
      /\ table' = table \cup {t}
      /\ created' = created \cup {t}
      /\ pc' = [pc EXCEPT ![th] = "idle"]
      /\ arg' = [arg EXCEPT ![th] = NoTask]
      /\ live' = live /\ pid' = pid /\ refs' = refs /\ busy' = busy /\ held' = held
  BY DEF TaskLink
<1>2. /\ t \in live /\ t \in Tasks /\ t # NoTask
      /\ \A u \in Threads \ {th} : arg[u] # t
  BY <1>1, TaskTableAssumption DEF ThreadsOK, OneOwner, TypeOK
<1>3. TypeOK'
  BY <1>1, <1>2 DEF TypeOK
<1>4. ThreadsOK' /\ OneOwner' /\ Reachable'
  BY <1>1, <1>2 DEF ThreadsOK, OneOwner, Reachable, TypeOK
<1>5. RefCountExact'
  <2>1. (created \cup TasksAt("link"))' = created \cup TasksAt("link")
    BY <1>1, <1>2 DEF TasksAt, TypeOK
  <2>2. \A u : Holders(u)' = Holders(u)
    BY <1>1 DEF Holders
  <2> QED
    BY <1>1, <2>1, <2>2 DEF RefCountExact
<1>6. PidsOK'
  <2>1. HasPid' = HasPid
    BY <1>1, <1>2 DEF HasPid, TypeOK
  <2> QED
    BY <1>1, <2>1 DEF PidsOK
<1> QED
  BY <1>3, <1>4, <1>5, <1>6

(* Taking references to a set of tasks: a lookup takes one, killpg many.   *)
LEMMA CollectStep ==
  ASSUME IInv, NoLateLookup, NEW th \in Threads, NEW S \in SUBSET table,
         held[th] = {}, refs' = Counted(S), held' = [held EXCEPT ![th] = S],
         UNCHANGED <<live, pid, table, busy, created, pc, arg>>
  PROVE  IInv'
<1> USE DEF IInv
<1>1. S \subseteq Tasks /\ S \subseteq live
  BY DEF Reachable, TypeOK
<1>2. \A t \in Tasks : refs'[t] = IF t \in S THEN refs[t] + 1 ELSE refs[t]
  BY DEF Counted
<1>3. \A t \in S : refs[t] # 0
  BY <1>1, <1>2 DEF NoLateLookup, TypeOK
<1>4. \A t \in S : \A u \in Threads : arg[u] # t
  BY <1>3, UsedIsNotOwned
<1>5. TypeOK'
  BY <1>1 DEF TypeOK, Counted
<1>6. ThreadsOK' /\ OneOwner' /\ Reachable'
  BY <1>1, <1>2, <1>4 DEF ThreadsOK, OneOwner, Reachable, TypeOK
<1>7. RefCountExact'
  <2>1. TasksAt("link")' = TasksAt("link")
    BY DEF TasksAt
  <2> SUFFICES ASSUME NEW t \in live
               PROVE  refs'[t] = Base(t) + Cardinality(Holders(t)')
    BY <2>1 DEF RefCountExact, Base
  <2>2. refs[t] = Base(t) + Cardinality(Holders(t)) /\ t \in Tasks
    BY DEF RefCountExact, Base, TypeOK
  <2>3. IsFiniteSet(Holders(t)) /\ Cardinality(Holders(t)) \in Nat /\ Base(t) \in Nat
    BY HoldersFinite DEF Base
  <2>4. th \notin Holders(t)
    BY DEF Holders
  <2>5. CASE t \in S
    <3>1. Holders(t)' = Holders(t) \cup {th}
      BY <2>5 DEF Holders, TypeOK
    <3>2. Cardinality(Holders(t)') = Cardinality(Holders(t)) + 1
      BY <2>3, <2>4, <3>1, FS_AddElement
    <3> QED
      BY <1>2, <2>2, <2>3, <2>5, <3>2
  <2>6. CASE t \notin S
    <3>1. Holders(t)' = Holders(t)
      BY <2>4, <2>6 DEF Holders, TypeOK
    <3> QED
      BY <1>2, <2>2, <2>6, <3>1
  <2> QED
    BY <2>5, <2>6
<1>8. PidsOK'
  BY DEF PidsOK, HasPid
<1> QED
  BY <1>5, <1>6, <1>7, <1>8

-----------------------------------------------------------------------------
(* Giving up a reference to t, one that the count includes: either others  *)
(* remain, or the thread starts to tear the task down.                     *)
LEMMA DropStep ==
  ASSUME IInv, NEW th \in Threads, NEW t \in table, pc[th] = "idle",
         refs[t] >= 1, Drop(th, t),
         created' \subseteq created,
         held' \in [Threads -> SUBSET Tasks],
         \A u \in Threads : held'[u] \subseteq held[u],
         RefCountExact'
  PROVE  IInv'
<1> USE DEF IInv, Goto
<1>1. /\ t \in live /\ t \in Tasks /\ t # NoTask /\ arg[th] = NoTask
      /\ refs[t] \in Nat
      /\ \A u \in Threads : arg[u] # t
  BY UsedIsNotOwned, TaskTableAssumption DEF Reachable, TypeOK, ThreadsOK
<1>2. /\ refs' = [refs EXCEPT ![t] = refs[t] - 1]
      /\ live' = live /\ pid' = pid /\ table' = table /\ busy' = busy
  BY DEF Drop
<1>3. Reachable' /\ created' \in SUBSET Tasks
  BY <1>2 DEF Reachable, TypeOK
<1>4. CASE StillUsed(t)
  <2>1. pc' = pc /\ arg' = arg
    BY <1>4 DEF Drop
  <2>2. TypeOK'
    BY <1>1, <1>2, <1>3, <2>1 DEF TypeOK
  <2>3. ThreadsOK' /\ OneOwner'
    BY <1>1, <1>2, <2>1 DEF ThreadsOK, OneOwner, TypeOK
  <2>4. PidsOK'
    BY <1>2, <2>1 DEF PidsOK, HasPid
  <2> QED
    BY <1>3, <2>2, <2>3, <2>4
<1>5. CASE ~StillUsed(t)
  <2>1. /\ pc' = [pc EXCEPT ![th] = "unlink"]
        /\ arg' = [arg EXCEPT ![th] = t]
    BY <1>5, TeardownOrder DEF Drop
  <2>2. refs'[t] = 0
    BY <1>1, <1>2, <1>5 DEF StillUsed, TypeOK
  <2>3. TypeOK'
    BY <1>1, <1>2, <1>3, <2>1 DEF TypeOK
  <2>4. ThreadsOK' /\ OneOwner'
    BY <1>1, <1>2, <2>1, <2>2 DEF ThreadsOK, OneOwner, TypeOK
  <2>5. HasPid' = HasPid
    BY <1>1, <1>2, <2>1 DEF HasPid, TypeOK
  <2>6. PidsOK'
    BY <1>2, <2>5 DEF PidsOK
  <2> QED
    BY <1>3, <2>3, <2>4, <2>6
<1> QED
  BY <1>4, <1>5

LEMMA FreeHeldStep ==
  ASSUME IInv, NEW th \in Threads, NEW t \in Tasks, TaskFreeHeld(th, t)
  PROVE  IInv'
<1> USE DEF IInv
<1>1. /\ pc[th] = "idle" /\ t \in held[th]
      /\ held' = [held EXCEPT ![th] = held[th] \ {t}]
      /\ created' = created
      /\ Drop(th, t)
  BY DEF TaskFreeHeld
<1>2. t \in table /\ t \in live
  BY <1>1 DEF Reachable
<1>3. refs[t] >= 1
  BY <1>1, <1>2, ZeroMeansUnused
<1>4. /\ held' \in [Threads -> SUBSET Tasks]
      /\ \A u \in Threads : held'[u] \subseteq held[u]
  BY <1>1 DEF TypeOK
<1>5. RefCountExact'
  <2>1. TasksAt("link")' = TasksAt("link")
    <3>1. CASE StillUsed(t)
      BY <1>1, <3>1 DEF Drop, TasksAt
    <3>2. CASE ~StillUsed(t)
      BY <1>1, <3>2, TeardownOrder DEF Drop, Goto, TasksAt, TypeOK
    <3> QED
      BY <3>1, <3>2
  <2>2. refs' = [refs EXCEPT ![t] = refs[t] - 1] /\ live' = live
    BY <1>1 DEF Drop
  <2> SUFFICES ASSUME NEW u \in live
               PROVE  refs'[u] = Base(u) + Cardinality(Holders(u)')
    BY <1>1, <2>1, <2>2 DEF RefCountExact, Base
  <2>3. refs[u] = Base(u) + Cardinality(Holders(u)) /\ u \in Tasks
    BY DEF RefCountExact, Base, TypeOK
  <2>4. IsFiniteSet(Holders(u)) /\ Cardinality(Holders(u)) \in Nat /\ Base(u) \in Nat
    BY HoldersFinite DEF Base
  <2>5. CASE u = t
    <3>1. th \in Holders(u) /\ Holders(u)' = Holders(u) \ {th}
      BY <1>1, <2>5 DEF Holders, TypeOK
    <3>2. Cardinality(Holders(u)') = Cardinality(Holders(u)) - 1
      BY <2>4, <3>1, FS_RemoveElement
    <3> QED
      BY <2>2, <2>3, <2>4, <2>5, <3>2 DEF TypeOK
  <2>6. CASE u # t
    <3>1. Holders(u)' = Holders(u)
      BY <1>1, <2>6 DEF Holders, TypeOK
    <3> QED
      BY <2>2, <2>3, <2>6, <3>1 DEF TypeOK
  <2> QED
    BY <2>5, <2>6
<1> QED
  BY <1>1, <1>2, <1>3, <1>4, <1>5, DropStep

LEMMA FreeCreatedStep ==
  ASSUME IInv, NEW th \in Threads, NEW t \in Tasks, TaskFreeCreated(th, t)
  PROVE  IInv'
<1> USE DEF IInv
<1>1. /\ pc[th] = "idle" /\ t \in created
      /\ created' = created \ {t}
      /\ held' = held
      /\ Drop(th, t)
  BY DEF TaskFreeCreated
<1>2. t \in table /\ t \in live
  BY <1>1 DEF Reachable
<1>3. refs[t] >= 1
  BY <1>1, <1>2, ZeroMeansUnused
<1>4. /\ held' \in [Threads -> SUBSET Tasks]
      /\ \A u \in Threads : held'[u] \subseteq held[u]
  BY <1>1 DEF TypeOK
<1>5. RefCountExact'
  <2>1. TasksAt("link")' = TasksAt("link") /\ t \notin TasksAt("link")
    <3>1. \A u \in Threads : arg[u] # t
      BY <1>2, <1>3, UsedIsNotOwned
    <3>2. CASE StillUsed(t)
      BY <1>1, <3>1, <3>2 DEF Drop, TasksAt
    <3>3. CASE ~StillUsed(t)
      BY <1>1, <3>1, <3>3, TeardownOrder DEF Drop, Goto, TasksAt, TypeOK
    <3> QED
      BY <3>2, <3>3
  <2>2. refs' = [refs EXCEPT ![t] = refs[t] - 1] /\ live' = live
    BY <1>1 DEF Drop
  <2>3. \A u : Holders(u)' = Holders(u)
    BY <1>1 DEF Holders
  <2> SUFFICES ASSUME NEW u \in live
               PROVE  refs'[u] = (IF u \in created' \cup TasksAt("link") THEN 1 ELSE 0)
                                   + Cardinality(Holders(u))
    BY <2>1, <2>2, <2>3 DEF RefCountExact
  <2>4. /\ refs[u] = (IF u \in created \cup TasksAt("link") THEN 1 ELSE 0)
                       + Cardinality(Holders(u))
        /\ u \in Tasks /\ Cardinality(Holders(u)) \in Nat
    BY HoldersFinite DEF RefCountExact, TypeOK
  <2>5. CASE u = t
    BY <1>1, <2>1, <2>2, <2>4, <2>5 DEF TypeOK
  <2>6. CASE u # t
    BY <1>1, <2>2, <2>4, <2>6 DEF TypeOK
  <2> QED
    BY <2>5, <2>6
<1> QED
  BY <1>1, <1>2, <1>3, <1>4, <1>5, DropStep

-----------------------------------------------------------------------------
LEMMA UnlinkStep ==
  ASSUME IInv, NEW th \in Threads, TaskUnlink(th)
  PROVE  IInv'
<1> USE DEF IInv, Goto
<1> DEFINE t == arg[th]
<1>1. /\ pc[th] = "unlink"
      /\ table' = table \ {t}
      /\ pc' = [pc EXCEPT ![th] = "free_pid"]
      /\ arg' = [arg EXCEPT ![th] = t]
      /\ live' = live /\ pid' = pid /\ refs' = refs /\ busy' = busy
      /\ created' = created /\ held' = held
  BY TeardownOrder DEF TaskUnlink, Onward
<1>2. /\ t \in live /\ t \in Tasks /\ t # NoTask /\ refs[t] = 0
      /\ \A u \in Threads \ {th} : arg[u] # t
  BY <1>1, TaskTableAssumption DEF ThreadsOK, OneOwner, TypeOK
<1>3. t \notin created /\ \A u \in Threads : t \notin held[u]
  BY <1>2, ZeroMeansUnused
<1>4. arg' = arg
  BY <1>1 DEF TypeOK
<1>5. TypeOK'
  BY <1>1, <1>4 DEF TypeOK
<1>6. ThreadsOK' /\ OneOwner' /\ Reachable'
  BY <1>1, <1>2, <1>3, <1>4 DEF ThreadsOK, OneOwner, Reachable, TypeOK
<1>7. TasksAt("link")' = TasksAt("link") /\ \A u : Holders(u)' = Holders(u)
  BY <1>1, <1>4 DEF TasksAt, Holders, TypeOK
<1>8. RefCountExact'
  BY <1>1, <1>7 DEF RefCountExact
<1>9. PidsOK'
  <2>1. HasPid' = HasPid
    BY <1>1, <1>4 DEF HasPid, TypeOK
  <2> QED
    BY <1>1, <2>1 DEF PidsOK
<1> QED
  BY <1>5, <1>6, <1>8, <1>9

(* The PID given back is the task's own, and no other task has it.         *)
LEMMA FreePidStep ==
  ASSUME IInv, NEW th \in Threads, TaskFreePid(th)
  PROVE  IInv' /\ pid[arg[th]] \in busy
<1> USE DEF IInv, Goto
<1> DEFINE t == arg[th]
<1>1. /\ pc[th] = "free_pid"
      /\ busy' = busy \ {pid[t]}
      /\ pc' = [pc EXCEPT ![th] = "free"]
      /\ arg' = [arg EXCEPT ![th] = t]
      /\ live' = live /\ pid' = pid /\ refs' = refs /\ table' = table
      /\ created' = created /\ held' = held
  BY TeardownOrder DEF TaskFreePid, Onward
<1>2. /\ t \in live /\ t \in Tasks /\ t # NoTask /\ t \notin table
      /\ \A u \in Threads \ {th} : arg[u] # t
  BY <1>1, TaskTableAssumption DEF ThreadsOK, OneOwner, TypeOK
<1>3. arg' = arg
  BY <1>1 DEF TypeOK
<1>4. TypeOK'
  BY <1>1, <1>3 DEF TypeOK
<1>5. ThreadsOK' /\ OneOwner' /\ Reachable'
  BY <1>1, <1>2, <1>3 DEF ThreadsOK, OneOwner, Reachable, TypeOK
<1>6. TasksAt("link")' = TasksAt("link") /\ \A u : Holders(u)' = Holders(u)
  BY <1>1, <1>3 DEF TasksAt, Holders, TypeOK
<1>7. RefCountExact'
  BY <1>1, <1>6 DEF RefCountExact
<1>8. t \in HasPid
  BY <1>1, <1>2 DEF HasPid
<1>9. HasPid' = HasPid \ {t}
  BY <1>1, <1>2, <1>3 DEF HasPid, TypeOK
<1>10. PidsOK' /\ pid[t] \in busy
  BY <1>1, <1>8, <1>9 DEF PidsOK
<1> QED
  BY <1>4, <1>5, <1>7, <1>10

LEMMA FreeMemStep ==
  ASSUME IInv, NEW th \in Threads, TaskFreeMem(th)
  PROVE  IInv'
<1> USE DEF IInv, Goto
<1> DEFINE t == arg[th]
<1>1. /\ pc[th] = "free"
      /\ live' = live \ {t}
      /\ pc' = [pc EXCEPT ![th] = "idle"]
      /\ arg' = [arg EXCEPT ![th] = NoTask]
      /\ pid' = pid /\ refs' = refs /\ table' = table /\ busy' = busy
      /\ created' = created /\ held' = held
  BY DEF TaskFreeMem
<1>2. /\ t \in live /\ t \in Tasks /\ t # NoTask /\ t \notin table
      /\ \A u \in Threads \ {th} : arg[u] # t
  BY <1>1, TaskTableAssumption DEF ThreadsOK, OneOwner, TypeOK
<1>3. TypeOK'
  BY <1>1 DEF TypeOK
<1>4. ThreadsOK' /\ OneOwner' /\ Reachable'
  BY <1>1, <1>2 DEF ThreadsOK, OneOwner, Reachable, TypeOK
<1>5. TasksAt("link")' = TasksAt("link") /\ \A u : Holders(u)' = Holders(u)
  BY <1>1 DEF TasksAt, Holders, TypeOK
<1>6. RefCountExact'
  BY <1>1, <1>5 DEF RefCountExact
<1>7. HasPid' = HasPid
  BY <1>1, <1>2 DEF HasPid, TypeOK
<1>8. PidsOK'
  BY <1>1, <1>7 DEF PidsOK
<1> QED
  BY <1>3, <1>4, <1>6, <1>8

LEMMA StutterStep ==
  ASSUME IInv, UNCHANGED vars
  PROVE  IInv'
BY DEF IInv, vars, TypeOK, ThreadsOK, OneOwner, Reachable, RefCountExact, TasksAt,
       Holders, PidsOK, HasPid

LEMMA NextIInv == IInv /\ [SerialNext]_vars => IInv'
<1> SUFFICES ASSUME IInv, [SerialNext]_vars PROVE IInv'
  OBVIOUS
<1>1. CASE UNCHANGED vars
  BY <1>1, StutterStep
<1>2. ASSUME NEW th \in Threads, Step(th), NoLateLookup
      PROVE  IInv'
  <2>1. ASSUME NEW t \in Tasks, ixland_task_lookup(th, t)
        PROVE  IInv'
    BY <1>2, <2>1, CollectStep DEF ixland_task_lookup
  <2>2. ASSUME NEW S \in SUBSET table, KillpgCollect(th, S)
        PROVE  IInv'
    BY <1>2, <2>2, CollectStep DEF KillpgCollect
  <2> QED
    BY <1>2, <2>1, <2>2, AllocStep, LinkStep, FreeHeldStep, FreeCreatedStep,
       UnlinkStep, FreePidStep, FreeMemStep DEF Step
<1> QED
  BY <1>1, <1>2 DEF SerialNext, Next

-----------------------------------------------------------------------------
(* Every variable keeps its type; no count ever becomes negative.          *)
THEOREM TaskTypeCorrect == SerialSpec => []TypeOK
<1>1. IInv => TypeOK
  BY DEF IInv
<1> QED
  BY InitStep, NextIInv, <1>1, PTL DEF SerialSpec

(* The count of a task is the number of references to it.                  *)
THEOREM TaskRefCountExact == SerialSpec => []RefCountExact
<1>1. IInv => RefCountExact
  BY DEF IInv
<1> QED
  BY InitStep, NextIInv, <1>1, PTL DEF SerialSpec

(* Two tasks in the table never have the same PID.                         *)
THEOREM TaskPidIdentifies == SerialSpec => []PidIdentifies
<1>1. IInv => PidIdentifies
  <2> SUFFICES ASSUME IInv PROVE PidIdentifies
    OBVIOUS
  <2>1. table \subseteq HasPid
    BY DEF IInv, Reachable, ThreadsOK, HasPid
  <2> QED
    BY <2>1 DEF IInv, PidsOK, PidIdentifies
<1> QED
  BY InitStep, NextIInv, <1>1, PTL DEF SerialSpec

(* The code itself, with nothing assumed of who looks up what: the one step *)
(* that can do harm is the lookup of task.c:111, or the collection of      *)
(* killpg, that counts a task whose count has reached zero.                *)
Revival ==
  \E th \in Threads, t \in table :
    /\ refs[t] = 0
    /\ \/ ixland_task_lookup(th, t)
       \/ \E S \in SUBSET table : t \in S /\ KillpgCollect(th, S)

(* No other step counts such a task.                                       *)
LEMMA OnlyRevivalsCount ==
  ASSUME IInv, [Next]_vars, ~Revival
  PROVE  [SerialNext]_vars
<1>1. CASE UNCHANGED vars
  BY <1>1
<1>2. ASSUME NEW th \in Threads, Step(th)
      PROVE  NoLateLookup
  <2> SUFFICES ASSUME NEW t \in live, refs[t] = 0 PROVE refs'[t] = 0
    BY DEF NoLateLookup
  <2>1. t \in Tasks /\ refs \in [Tasks -> Nat] /\ table \subseteq live
    BY DEF IInv, TypeOK, Reachable
  <2>2. ASSUME NEW u \in Tasks, ixland_task_alloc(th, u)
        PROVE  refs'[t] = 0
    BY <2>1, <2>2 DEF ixland_task_alloc
  <2>3. ASSUME NEW u \in Tasks, ixland_task_lookup(th, u)
        PROVE  refs'[t] = 0
    <3>1. u \in table /\ u # t
      BY <2>3 DEF ixland_task_lookup, Revival
    <3> QED
      BY <2>1, <2>3, <3>1 DEF ixland_task_lookup, Counted
  <2>4. ASSUME NEW S \in SUBSET table, KillpgCollect(th, S)
        PROVE  refs'[t] = 0
    <3>1. t \notin S
      BY <2>4 DEF Revival
    <3> QED
      BY <2>1, <2>4, <3>1 DEF KillpgCollect, Counted
  <2>5. ASSUME NEW u \in Tasks, Drop(th, u), u \in created \/ u \in held[th]
        PROVE  refs'[t] = 0
    <3>1. u \in live /\ u # t
      BY <2>5, ZeroMeansUnused DEF IInv, Reachable
    <3> QED
      BY <2>1, <2>5, <3>1 DEF Drop
  <2>6. CASE TaskLink(th) \/ TaskUnlink(th) \/ TaskFreePid(th) \/ TaskFreeMem(th)
    BY <2>6 DEF TaskLink, TaskUnlink, TaskFreePid, TaskFreeMem
  <2> QED
    BY <1>2, <2>2, <2>3, <2>4, <2>5, <2>6 DEF Step, TaskFreeHeld, TaskFreeCreated
<1> QED
  BY <1>1, <1>2 DEF SerialNext, Next

(* Unless a lookup or a killpg counts a task whose count has reached zero, *)
(* nothing that is held, listed or waited for is freed memory, and every   *)
(* PID that is given back is taken: the window between the decrement of    *)
(* task.c:69 and the unlink is the only hole.                              *)
THEOREM TaskOnlyRevivalsHarm ==
  Spec /\ [][~Revival]_vars => []NoDangling /\ PidFreedOnce
<1>1. IInv => NoDangling
  BY DEF IInv, Reachable, NoDangling
<1>2. IInv => \A th \in Threads : TaskFreePid(th) => pid[arg[th]] \in busy
  BY FreePidStep
<1>3. IInv /\ [Next]_vars /\ [~Revival]_vars => IInv'
  BY OnlyRevivalsCount, NextIInv, StutterStep
<1> QED
  BY InitStep, <1>1, <1>2, <1>3, PTL DEF Spec, PidFreedOnce
=============================================================================
