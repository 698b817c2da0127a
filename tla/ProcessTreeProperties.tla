----------------------- MODULE ProcessTreeProperties -----------------------
(***************************************************************************)
(* What must hold of the process tree, and what the repository says of it. *)
(***************************************************************************)
EXTENDS ProcessTree

Listed(c) == {p \in Tasks : c \in ToSet(children[p])}
Born == {t \in Tasks : pc[t] \notin {"unborn", "unlinked"}}
Reaping(c) == {p \in Tasks : pc[p] = "wait_reap" /\ peer[p] = c}

\* Born, not reaped, and nobody will reap them.
Lost == {c \in (Born \ reaped) \ {init_task} : Listed(c) \cup Reaping(c) = {}}

(* No child is lost and none is reaped twice: every task but init is on    *)
(* exactly one list, once, until one waiter takes it off to free it.  Only *)
(* a fork of init that fails loses children: those it adopted meanwhile    *)
(* (fork.c:180 cuts the list back to what follows the new child).          *)
EveryTaskListed ==
  /\ \A c \in (Born \ reaped) \ {init_task} : Cardinality(Listed(c) \cup Reaping(c)) <= 1
  /\ \A c \in Lost : faults > 0 /\ parent[c] = init_task
  /\ \A p \in Tasks : Cardinality(ToSet(children[p])) = Len(children[p])
  /\ \A c \in reaped : Listed(c) \cup Reaping(c) = {}
  /\ Listed(init_task) = {}

(* The list a task is on is its parent's, except while an exiting parent   *)
(* hands it over; task->ppid follows task->parent.                         *)
ParentAgrees ==
  \A p \in Tasks : \A c \in ToSet(children[p]) :
    /\ \/ parent[c] = p
       \/ pc[p] \in {"exit_adopt", "exit_splice"} /\ parent[c] = init_task
    /\ \/ ppid[c] = parent[c]
       \/ ppid[c] = None /\ exited[init_task]

(* Who will still wake the waiter p about c: c's own thread on its way     *)
(* through exit, or whoever is applying a signal to c.                     *)
Notifiers(p, c) ==
  {t \in Tasks :
     \/ t = c /\ pc[t] \in {"exit_lock_init", "exit_adopt", "exit_splice", "exit_orphan", "exit_parent"}
     \/ t = c /\ pc[t] = "exit_notify" /\ peer[t] = p
     \/ pc[t] = "kill_notify" /\ peer[t] = c}

(* The child waitpid would stop at if no flag changed during its search.   *)
Found(t, w) ==
  LET i == SelectInSeq(children[t], LAMBDA c : Selects(t, w, c))
  IN  IF i = 0 THEN None ELSE children[t][i]

(* No lost wakeup: a waiter sleeps only as long as it has nothing to       *)
(* report, or somebody is about to wake it: for that child or for another, *)
(* whose news its search still saw and its test did not.                   *)
NoLostWakeup ==
  \A p \in asleep :
    /\ waiters[p] > 0
    /\ LET c == Found(p, call[p])
       IN  c # None /\ Reportable(c, call[p].options) =>
             \E d \in ToSet(children[p]) : Notifiers(p, d) # {}

(***************************************************************************)
(* The tree implements ProcessLife, whatever fails: a task is dead once it *)
(* has been taken off its list to be reaped, and whoever has it on a list  *)
(* is responsible for it.                                                  *)
(***************************************************************************)
Phase(c) ==
  IF pc[c] = "unborn" THEN "unborn"
  ELSE IF pc[c] \in {"unlinked", "linked"} THEN "starting"
  ELSE IF c \in Lost THEN (IF exited[c] THEN "abandoned" ELSE "lost")
  ELSE IF c # init_task /\ Listed(c) = {} THEN "dead"
  ELSE IF exited[c] THEN "zombie" ELSE "alive"

Owner(c) == IF Listed(c) = {} THEN None ELSE CHOOSE p \in Tasks : p \in Listed(c)

Life == INSTANCE ProcessLife WITH
  phase <- [c \in Tasks |-> Phase(c)], owner <- [c \in Tasks |-> Owner(c)]
LifeSpec == Life!Spec

-----------------------------------------------------------------------------
(* wait.c:137 -- a child is "reaped (exited/signaled) or just reported     *)
(* (stopped/continued)": what waitpid says of a child and what it does to  *)
(* it agree.                                                               *)
StatusMatchesReap ==
  \A t \in Tasks : report[t] # NoReport =>
    (report[t].status[1] \in {"exited", "signaled"} <=> report[t].pid \in reaped)

(* The mutexes a thread needs before it can go on.                         *)
Wants(t) ==
  CASE pc[t] = "exit_lock_init" -> {init_task}
    [] pc[t] \in {"exit_adopt", "exit_orphan"} -> {AtCursor(t)}
    [] pc[t] = "exit_notify" -> {peer[t]}
    [] pc[t] = "kill_notify" -> {parent[peer[t]]}
    [] OTHER -> {}

(* No set of threads waits for mutexes that only they themselves hold.     *)
NoLockCycle ==
  \A S \in SUBSET Tasks \ {{}} :
    \E t \in S : \A m \in Wants(t) : lock[m] \notin S

(* A thread never uses a task that has been freed under it, and never      *)
(* unlocks a mutex that it did not lock.                                   *)
NothingUndefined == ub = "none"

=============================================================================
