----------------------------- MODULE TaskTable -----------------------------
(***************************************************************************)
(* IXLandSystem/kernel/task.c and the collection loop of signal.c: task    *)
(* structures, the table that finds them by PID, and the reference count   *)
(* that decides when one is freed.                                         *)
(*                                                                         *)
(* A task starts with one reference, the creation reference, which a       *)
(* reaper (waitpid, or fork on failure) gives up; lookups and killpg add   *)
(* references under task_table_lock.  The thread that drops the count to   *)
(* zero tears the task down: it unlinks the task under task_table_lock,    *)
(* gives the PID back and frees the memory, each step after the other and  *)
(* none of them atomic with the decrement.                                 *)
(*                                                                         *)
(* The hash chains are one set, `table': a lookup walks the chain of a PID *)
(* to the task that has it.  The allocator is the pool of module PidPool.  *)
(***************************************************************************)
EXTENDS Integers, FiniteSets

CONSTANTS
  Threads,   \* threads that call into the task table
  Tasks,     \* memory blocks calloc may return for a task
  Pids,      \* the PIDs of the allocator
  NoTask     \* NULL

ASSUME TaskTableAssumption ==
  /\ NoTask \notin Tasks
  /\ IsFiniteSet(Threads)
  \* Memory is the scarcer resource: ixland_alloc_pid does not fail, since
  \* ixland_task_alloc would link a task under task_hash(-1).
  /\ IsFiniteSet(Pids) /\ IsFiniteSet(Tasks)
  /\ Cardinality(Tasks) <= Cardinality(Pids)

VARIABLES
  live,      \* the blocks that are allocated
  pid,       \* task->pid
  refs,      \* task->refs
  table,     \* the tasks linked in task_table
  busy,      \* the PIDs the allocator has handed out
  created,   \* tasks whose creation reference nobody has given up
  held,      \* the references a thread got from a lookup or from killpg
  pc,        \* where each thread stands
  arg        \* the task it is linking or tearing down

vars == <<live, pid, refs, table, busy, created, held, pc, arg>>

Init ==
  /\ live = {}
  /\ pid \in [Tasks -> {CHOOSE p \in Pids : TRUE}]
  /\ refs = [t \in Tasks |-> 0]
  /\ table = {}
  /\ busy = {}
  /\ created = {}
  /\ held = [th \in Threads |-> {}]
  /\ pc = [th \in Threads |-> "idle"]
  /\ arg = [th \in Threads |-> NoTask]

Goto(th, label, t) ==
  /\ pc' = [pc EXCEPT ![th] = label]
  /\ arg' = [arg EXCEPT ![th] = t]

(* calloc, the PID and the fields, all private until the task is linked.   *)
ixland_task_alloc(th, t) ==
  /\ pc[th] = "idle"
  /\ t \notin live
  /\ \E p \in Pids \ busy :
       /\ busy' = busy \cup {p}
       /\ pid' = [pid EXCEPT ![t] = p]
  /\ live' = live \cup {t}
  /\ refs' = [refs EXCEPT ![t] = 1]
  /\ Goto(th, "link", t)
  /\ UNCHANGED <<table, created, held>>

TaskLink(th) ==
  /\ pc[th] = "link"
  /\ table' = table \cup {arg[th]}
  /\ created' = created \cup {arg[th]}
  /\ Goto(th, "idle", NoTask)
  /\ UNCHANGED <<live, pid, refs, busy, held>>

\* Faulty: a reference is handed out and not counted.
Uncounted(S) == refs
(* References to the tasks S are counted before task_table_lock is free.   *)
Counted(S) == [t \in Tasks |-> IF t \in S THEN refs[t] + 1 ELSE refs[t]]

ixland_task_lookup(th, t) ==
  /\ pc[th] = "idle" /\ held[th] = {}
  /\ t \in table
  /\ refs' = Counted({t})
  /\ held' = [held EXCEPT ![th] = {t}]
  /\ UNCHANGED <<live, pid, table, busy, created, pc, arg>>

(* killpg takes a reference to every task S of the group in one pass.      *)
KillpgCollect(th, S) ==
  /\ pc[th] = "idle" /\ held[th] = {}
  /\ S # {} /\ S \subseteq table
  /\ refs' = Counted(S)
  /\ held' = [held EXCEPT ![th] = S]
  /\ UNCHANGED <<live, pid, table, busy, created, pc, arg>>

(***************************************************************************)
(* ixland_task_free: the decrement, then the teardown for whoever brought  *)
(* the count down.  The reference given up is one of the caller's own or   *)
(* the creation reference.                                                 *)
(***************************************************************************)
\* Faulty: one reference too many counts as the last.
UsedByTwo(t) == refs[t] > 2
StillUsed(t) == refs[t] > 1

\* Faulty: the PID is free before the task has left the table.
PidFirst == [drop |-> "free_pid", free_pid |-> "unlink", unlink |-> "free"]
(* The order of the teardown.                                              *)
Teardown == [drop |-> "unlink", unlink |-> "free_pid", free_pid |-> "free"]

Onward(th, label) == Goto(th, Teardown[label], arg[th])

Drop(th, t) ==
  /\ refs' = [refs EXCEPT ![t] = @ - 1]
  /\ IF StillUsed(t)
     THEN UNCHANGED <<pc, arg>>
     ELSE Goto(th, Teardown["drop"], t)
  /\ UNCHANGED <<live, pid, table, busy>>

TaskFreeHeld(th, t) ==
  /\ pc[th] = "idle" /\ t \in held[th]
  /\ held' = [held EXCEPT ![th] = @ \ {t}]
  /\ Drop(th, t)
  /\ UNCHANGED created

TaskFreeCreated(th, t) ==
  /\ pc[th] = "idle" /\ held[th] = {}
  /\ t \in created
  /\ created' = created \ {t}
  /\ Drop(th, t)
  /\ UNCHANGED held

TaskUnlink(th) ==
  /\ pc[th] = "unlink"
  /\ table' = table \ {arg[th]}
  /\ Onward(th, "unlink")
  /\ UNCHANGED <<live, pid, refs, busy, created, held>>

TaskFreePid(th) ==
  /\ pc[th] = "free_pid"
  /\ busy' = busy \ {pid[arg[th]]}
  /\ Onward(th, "free_pid")
  /\ UNCHANGED <<live, pid, refs, table, created, held>>

TaskFreeMem(th) ==
  /\ pc[th] = "free"
  /\ live' = live \ {arg[th]}
  /\ Goto(th, "idle", NoTask)
  /\ UNCHANGED <<pid, refs, table, busy, created, held>>

Step(th) ==
  \/ \E t \in Tasks :
       \/ ixland_task_alloc(th, t)
       \/ ixland_task_lookup(th, t)
       \/ TaskFreeHeld(th, t)
       \/ TaskFreeCreated(th, t)
  \/ \E S \in SUBSET table : KillpgCollect(th, S)
  \/ TaskLink(th)
  \/ TaskUnlink(th)
  \/ TaskFreePid(th)
  \/ TaskFreeMem(th)

Next == \E th \in Threads : Step(th)

Spec == Init /\ [][Next]_vars

(***************************************************************************)
(* The code as it is used when no lookup falls between the decrement to    *)
(* zero and the unlink, the window task_table_lock does not close.         *)
(***************************************************************************)
NoLateLookup == \A t \in live : refs[t] = 0 => refs'[t] = 0

SerialNext == Next /\ NoLateLookup
SerialSpec == Init /\ [][SerialNext]_vars

-----------------------------------------------------------------------------
TypeOK ==
  /\ live \in SUBSET Tasks
  /\ pid \in [Tasks -> Pids]
  /\ refs \in [Tasks -> Nat]
  /\ table \in SUBSET Tasks
  /\ busy \in SUBSET Pids
  /\ created \in SUBSET Tasks
  /\ held \in [Threads -> SUBSET Tasks]
  /\ pc \in [Threads -> {"idle", "link", "unlink", "free_pid", "free"}]
  /\ arg \in [Threads -> Tasks \cup {NoTask}]

TasksAt(label) == {t \in Tasks : \E th \in Threads : pc[th] = label /\ arg[th] = t}
Holders(t) == {th \in Threads : t \in held[th]}

(* The count of a task is the number of references there are to it: the    *)
(* creation reference, still with its creator or in `created', and one per *)
(* lookup not yet undone.  Nothing leaks and nothing is released twice.    *)
RefCountExact ==
  \A t \in live :
    refs[t] = (IF t \in created \cup TasksAt("link") THEN 1 ELSE 0) + Cardinality(Holders(t))

(* What a lookup returned, and what can still be looked up or reaped, is   *)
(* never freed memory.                                                     *)
NoDangling ==
  /\ \A th \in Threads : held[th] \subseteq live
  /\ table \subseteq live
  /\ created \subseteq live

(* Tasks that can be found have different PIDs, and a PID goes back to the *)
(* allocator only after its task has left the table.                       *)
PidIdentifies ==
  /\ \A t, u \in table : pid[t] = pid[u] => t = u
  /\ \A t \in table : pid[t] \in busy

(* A PID is given back once: ixland_free_pid is called for a PID that is   *)
(* busy, what module PidAllocator asks of its callers.                     *)
PidFreedOnce ==
  [][\A th \in Threads : TaskFreePid(th) => pid[arg[th]] \in busy]_vars
=============================================================================
