---------------------------- MODULE ProcessTree ----------------------------
(***************************************************************************)
(* fork.c, exit.c, wait.c and the delivery part of signal.c (all under     *)
(* IXLandSystem/kernel/): the tree of tasks, the mutex and condition       *)
(* variable of each task, and the threads that fork, wait, exit and kill.  *)
(*                                                                         *)
(* A task has one thread, named like the task.  A critical section that    *)
(* takes one mutex is one step; where the code takes a second mutex while  *)
(* it holds a first, or reads shared state after it let go, there is a     *)
(* step per acquisition and per read.  `ub' turns from "none" when a       *)
(* thread does what C and POSIX leave undefined -- it uses a task that has *)
(* been freed, or unlocks a mutex it did not lock -- and the model goes no *)
(* further: what holds in it holds up to the first undefined step.         *)
(*                                                                         *)
(* Not here: the hand-over of a new thread and vfork's suspension of the   *)
(* parent, setpgid and setsid (Pgid is fixed), and what is pending or      *)
(* blocked.  Tasks have a sighand, as those the tests build; pthread_kill  *)
(* of SIGUSR1 reaches no handler and is left out.  Blocks are not reused.  *)
(***************************************************************************)
EXTENDS Integers, Sequences, FiniteSets, SequencesExt

CONSTANTS
  Tasks,       \* task structures
  init_task,   \* the task every orphan is given to
  None,        \* NULL
  Nproc,       \* rlimits[RLIMIT_NPROC].rlim_cur of each task
  Pgid,        \* the process group of each task
  Exiters,     \* the tasks whose program may call exit
  ExitCodes,   \* what they exit with
  WaitCalls,   \* the calls of waitpid each task's program may make
  Killers,     \* the tasks whose program may call kill or killpg
  Signals,     \* what they send: a subset of {"STOP", "CONT", "TERM"}
  MaxKills,    \* bound: calls of kill and killpg in a behaviour
  MaxFaults    \* bound: failures of pthread_create in a behaviour

ASSUME ProcessTreeAssumption ==
  /\ init_task \in Tasks /\ None \notin Tasks
  /\ Nproc \in [Tasks -> Nat]
  /\ Signals \subseteq {"STOP", "CONT", "TERM"}
  /\ MaxKills \in Nat /\ MaxFaults \in Nat

VARIABLES
  parent, ppid,          \* task->parent; the task whose pid is task->ppid
  children,              \* the list from task->children along next_sibling
  state,                 \* task->state
  exited, exit_status,
  termsig,               \* task->termsig, "none" while task->signaled is false
  stopped, continued,
  lock,                  \* the thread that holds task->lock
  waiters,               \* task->waiters
  asleep,                \* threads blocked on their task's wait_cond
  pc,                    \* where each thread stands
  peer,                  \* the other task its current step is about
  call,                  \* the arguments of its waitpid
  cursor,                \* its position in a list it walks
  todo, sig,             \* the tasks its kill still has to signal, and how
  reaped,                \* tasks that gave up their creation reference
  report,                \* what its last waitpid returned
  kills, faults,         \* how often the bounded events happened
  ub                     \* the undefined step that was taken

task == <<parent, ppid, children>>
flags == <<state, exited, exit_status, termsig, stopped, continued>>
sync == <<lock, waiters, asleep>>
local == <<peer, call, cursor, todo, sig, report>>
bounds == <<kills, faults>>
vars == <<task, flags, sync, pc, local, reaped, bounds, ub>>

NoCall == [pid |-> None, options |-> {}]
NoReport == [pid |-> None, status |-> <<>>]
AnyChild == "any"             \* pid == -1
Group == "group"         \* pid == 0, the caller's own group

Init ==
  /\ parent = [t \in Tasks |-> None]
  /\ ppid = [t \in Tasks |-> IF t = init_task THEN init_task ELSE None]
  /\ children = [t \in Tasks |-> <<>>]
  /\ state = [t \in Tasks |-> "RUNNING"]
  /\ exited = [t \in Tasks |-> FALSE]
  /\ exit_status = [t \in Tasks |-> 0]
  /\ termsig = [t \in Tasks |-> "none"]
  /\ stopped = [t \in Tasks |-> FALSE]
  /\ continued = [t \in Tasks |-> FALSE]
  /\ lock = [t \in Tasks |-> None]
  /\ waiters = [t \in Tasks |-> 0]
  /\ asleep = {}
  /\ pc = [t \in Tasks |-> IF t = init_task THEN "run" ELSE "unborn"]
  /\ peer = [t \in Tasks |-> None]
  /\ call = [t \in Tasks |-> NoCall]
  /\ cursor = [t \in Tasks |-> 0]
  /\ todo = [t \in Tasks |-> {}]
  /\ sig = [t \in Tasks |-> "none"]
  /\ reaped = {}
  /\ report = [t \in Tasks |-> NoReport]
  /\ kills = 0
  /\ faults = 0
  /\ ub = "none"

-----------------------------------------------------------------------------
(* The rest of the list s behind e.                                        *)
After(s, e) == SubSeq(s, SelectInSeq(s, LAMBDA x : x = e) + 1, Len(s))

(* A task stays allocated, and in the task table, until it is reaped and   *)
(* no kill holds the reference that its lookup took.                       *)
Freed(t) == t \in reaped /\ \A k \in Tasks : t \notin todo[k]
InTable == {t \in Tasks : pc[t] # "unborn" /\ ~Freed(t)}

(* The thread of t stands at `label'; At also that its task is allocated.  *)
On(t, label) == ub = "none" /\ pc[t] = label
At(t, label) == On(t, label) /\ ~Freed(t)
Goto(t, label) == pc' = [pc EXCEPT ![t] = label]
Unlocked(t) == lock[t] = None

(* pthread_cond_broadcast of wait_cond, under the waiters > 0 test every   *)
(* caller makes; only a task's own thread waits on its wait_cond.          *)
\* Faulty: the test takes a single waiter for none.
BroadcastToMany(t) == asleep' = IF waiters[t] > 1 THEN asleep \ {t} ELSE asleep
Broadcast(t) == asleep' = IF waiters[t] > 0 THEN asleep \ {t} ELSE asleep

-----------------------------------------------------------------------------
(* ixland_fork: the NPROC test, the entry into the task table and the link *)
(* to the parent are three critical sections.                              *)
ForkCheck(t) ==
  /\ At(t, "run") /\ Unlocked(t)
  /\ Len(children[t]) < Nproc[t]
  /\ Goto(t, "fork_alloc")
  /\ UNCHANGED <<task, flags, sync, local, reaped, bounds, ub>>

ForkAlloc(t, c) ==
  /\ At(t, "fork_alloc")
  /\ pc[c] = "unborn"
  /\ ppid' = [ppid EXCEPT ![c] = t]
  /\ peer' = [peer EXCEPT ![t] = c]
  /\ pc' = [pc EXCEPT ![t] = "fork_link", ![c] = "unlinked"]
  /\ UNCHANGED <<parent, children, flags, sync, call, cursor, todo, sig, report,
                 reaped, bounds, ub>>

ForkNoMemory(t) ==
  /\ At(t, "fork_alloc")
  /\ \A c \in Tasks : pc[c] # "unborn"
  /\ Goto(t, "run")
  /\ UNCHANGED <<task, flags, sync, local, reaped, bounds, ub>>

ForkLink(t) ==
  /\ At(t, "fork_link") /\ Unlocked(t)
  /\ parent' = [parent EXCEPT ![peer[t]] = t]
  /\ children' = [children EXCEPT ![t] = <<peer[t]>> \o @]
  /\ pc' = [pc EXCEPT ![t] = "fork_start", ![peer[t]] = "linked"]
  /\ UNCHANGED <<ppid, flags, sync, local, reaped, bounds, ub>>

ForkStart(t) ==
  /\ At(t, "fork_start")
  /\ pc' = [pc EXCEPT ![t] = "run", ![peer[t]] = "run"]
  /\ peer' = [peer EXCEPT ![t] = None]
  /\ UNCHANGED <<task, flags, sync, call, cursor, todo, sig, report, reaped, bounds, ub>>

(* pthread_create fails: the list is cut back to what follows the child.   *)
ForkFail(t) ==
  /\ At(t, "fork_start") /\ Unlocked(t)
  /\ faults < MaxFaults
  /\ faults' = faults + 1
  /\ children' = [children EXCEPT ![t] = After(@, peer[t])]
  /\ reaped' = reaped \cup {peer[t]}
  /\ pc' = [pc EXCEPT ![t] = "run", ![peer[t]] = "gone"]
  /\ peer' = [peer EXCEPT ![t] = None]
  /\ UNCHANGED <<parent, ppid, flags, sync, call, cursor, todo, sig, report, kills, ub>>

-----------------------------------------------------------------------------
(***************************************************************************)
(* ixland_waitpid.  A call waits for one child, for any, or for its group. *)
(* Under task->lock it looks at one child after the other, and stops at    *)
(* the first with something to report, even if the test after the search   *)
(* then finds that this call cannot report it.  The flags of the children  *)
(* are read without the children's mutexes: they may change between the    *)
(* look at one child and the look at the next, and before the test.  What  *)
(* one look or the test reads of a child it reads at once.  For a look and *)
(* for should_reap this loses nothing, as exited, continued and signaled   *)
(* are never taken back; a test in whose middle a flag changes may give up *)
(* where the model reports, and who changed it is about to wake the waiter.*)
(***************************************************************************)
HasNews(c, options) ==
  \/ exited[c]
  \/ "WUNTRACED" \in options /\ stopped[c]
  \/ "WCONTINUED" \in options /\ continued[c]

Selects(t, w, c) ==
  CASE w.pid = AnyChild -> HasNews(c, w.options)
    [] w.pid = Group    -> Pgid[c] = Pgid[t] /\ HasNews(c, w.options)
    [] OTHER            -> c = w.pid

Reportable(c, options) ==
  \/ exited[c]
  \/ "WUNTRACED" \in options /\ stopped[c]
  \/ "WCONTINUED" \in options /\ continued[c] /\ ~stopped[c]

\* Faulty: a stopped child is taken for a terminated one.
ReapsStopped(c) == exited[c] \/ stopped[c]
should_reap(c) == exited[c] \/ termsig[c] # "none"

\* Faulty: a call that returns stays counted.
StillWaiting(n) == n
OneLess(n) == n - 1

(* The child the search, or the walk of ixland_exit, has come to.          *)
AtCursor(t) == children[t][cursor[t]]

(* Nothing to report: the call returns or goes to sleep, with n calls      *)
(* counted in task->waiters, and lets go of task->lock either way.         *)
GivesUp(t, w, n) ==
  /\ IF "WNOHANG" \in w.options \/ children[t] = <<>>
     THEN /\ Goto(t, "run")
          /\ waiters' = [waiters EXCEPT ![t] = OneLess(n)]
          /\ call' = [call EXCEPT ![t] = NoCall]
          /\ UNCHANGED asleep
     ELSE /\ Goto(t, "wait_sleep")
          /\ waiters' = [waiters EXCEPT ![t] = n]
          /\ call' = [call EXCEPT ![t] = w]
          /\ asleep' = asleep \cup {t}
  /\ cursor' = [cursor EXCEPT ![t] = 0]
  /\ lock' = [lock EXCEPT ![t] = None]

(* The search stops at the child at position i, or goes on to the next.    *)
Search(t, w, i, n) ==
  LET stops == i <= Len(children[t]) /\ Selects(t, w, children[t][i])
  IN  IF stops \/ i < Len(children[t])
      THEN /\ Goto(t, IF stops THEN "wait_test" ELSE "wait_look")
           /\ cursor' = [cursor EXCEPT ![t] = IF stops THEN i ELSE i + 1]
           /\ waiters' = [waiters EXCEPT ![t] = n]
           /\ call' = [call EXCEPT ![t] = w]
           /\ lock' = [lock EXCEPT ![t] = t]
           /\ UNCHANGED asleep
      ELSE GivesUp(t, w, n)

ixland_waitpid(t, w) ==
  /\ At(t, "run") /\ Unlocked(t)
  /\ Search(t, w, 1, waiters[t] + 1)
  /\ report' = [report EXCEPT ![t] = NoReport]
  /\ UNCHANGED <<task, flags, peer, todo, sig, reaped, bounds, ub>>

WaitLook(t) ==
  /\ At(t, "wait_look")
  /\ Search(t, call[t], cursor[t], waiters[t])
  /\ UNCHANGED <<task, flags, peer, todo, sig, report, reaped, bounds, ub>>

WaitWake(t) ==
  /\ At(t, "wait_sleep") /\ t \notin asleep /\ Unlocked(t)
  /\ Search(t, call[t], 1, waiters[t])
  /\ UNCHANGED <<task, flags, peer, todo, sig, report, reaped, bounds, ub>>

(* A reported child leaves the list only if it terminated.                 *)
WaitTest(t) ==
  LET c == AtCursor(t)
  IN  /\ At(t, "wait_test")
      /\ IF Reportable(c, call[t].options)
         THEN /\ IF should_reap(c)
                 THEN /\ children' = [children EXCEPT ![t] = RemoveFirst(@, c)]
                      /\ Goto(t, "wait_reap")
                 ELSE /\ UNCHANGED children
                      /\ Goto(t, "wait_report")
              /\ peer' = [peer EXCEPT ![t] = c]
              /\ waiters' = [waiters EXCEPT ![t] = OneLess(@)]
              /\ call' = [call EXCEPT ![t] = NoCall]
              /\ cursor' = [cursor EXCEPT ![t] = 0]
              /\ lock' = [lock EXCEPT ![t] = None]
              /\ UNCHANGED asleep
         ELSE GivesUp(t, call[t], waiters[t]) /\ UNCHANGED <<children, peer>>
      /\ UNCHANGED <<parent, ppid, flags, todo, sig, report, reaped, bounds, ub>>

(* pthread_cond_wait may return without a broadcast.                       *)
SpuriousWake(t) ==
  /\ On(t, "wait_sleep") /\ t \in asleep
  /\ asleep' = asleep \ {t}
  /\ UNCHANGED <<task, flags, lock, waiters, pc, local, reaped, bounds, ub>>

task_to_status(c) ==
  IF termsig[c] # "none" THEN <<"signaled", termsig[c]>>
  ELSE IF stopped[c] THEN <<"stopped", "STOP">>
  ELSE IF continued[c] THEN <<"continued", "CONT">>
  ELSE <<"exited", exit_status[c]>>

(* The status is read after task->lock has been released.                  *)
WaitStatus(t) ==
  /\ \/ At(t, "wait_reap") /\ reaped' = reaped \cup {peer[t]}
     \/ At(t, "wait_report") /\ UNCHANGED reaped
  /\ report' = [report EXCEPT ![t] = [pid |-> peer[t], status |-> task_to_status(peer[t])]]
  /\ peer' = [peer EXCEPT ![t] = None]
  /\ Goto(t, "run")
  /\ UNCHANGED <<task, flags, sync, call, cursor, todo, sig, bounds, ub>>

-----------------------------------------------------------------------------
(***************************************************************************)
(* ixland_exit.  A task with children keeps its own mutex and init's while *)
(* it takes each child's in turn; init itself keeps only its own.  Nobody  *)
(* can be waiting on the wait_cond of a task whose thread is here.         *)
(***************************************************************************)
ExitBegin(t, s) ==
  /\ t \in Exiters /\ At(t, "run") /\ Unlocked(t)
  /\ exit_status' = [exit_status EXCEPT ![t] = s]
  /\ exited' = [exited EXCEPT ![t] = TRUE]
  /\ state' = [state EXCEPT ![t] = "ZOMBIE"]
  /\ IF children[t] = <<>>
     THEN /\ Goto(t, "exit_parent")
          /\ UNCHANGED <<lock, cursor>>
     ELSE /\ lock' = [lock EXCEPT ![t] = t]
          /\ cursor' = [cursor EXCEPT ![t] = 1]
          /\ Goto(t, IF t = init_task THEN "exit_orphan" ELSE "exit_lock_init")
  /\ UNCHANGED <<task, termsig, stopped, continued, waiters, asleep,
                 peer, call, todo, sig, report, reaped, bounds, ub>>

ExitLockInit(t) ==
  /\ At(t, "exit_lock_init") /\ Unlocked(init_task)
  /\ lock' = [lock EXCEPT ![init_task] = t]
  /\ Goto(t, "exit_adopt")
  /\ UNCHANGED <<task, flags, waiters, asleep, local, reaped, bounds, ub>>

\* Faulty: the walk stops before the last child.
MoreButLast(t) == cursor[t] < Len(children[t]) - 1
MoreChildren(t) == cursor[t] < Len(children[t])

Advance(t, label, done) ==
  IF MoreChildren(t)
  THEN /\ cursor' = [cursor EXCEPT ![t] = @ + 1]
       /\ Goto(t, label)
  ELSE /\ cursor' = [cursor EXCEPT ![t] = 0]
       /\ Goto(t, done)

ExitAdopt(t) ==
  /\ At(t, "exit_adopt") /\ Unlocked(AtCursor(t))
  /\ parent' = [parent EXCEPT ![AtCursor(t)] = init_task]
  /\ ppid' = [ppid EXCEPT ![AtCursor(t)] = init_task]
  /\ Advance(t, "exit_adopt", "exit_splice")
  /\ UNCHANGED <<children, flags, sync, peer, call, todo, sig, report, reaped, bounds, ub>>

\* Faulty: the last child is not linked to what init had.
InPlaceOf(mine, inits) == mine
Spliced(mine, inits) == mine \o inits

UnlocksBoth(t) == [lock EXCEPT ![init_task] = None, ![t] = None]

ExitSplice(t) ==
  /\ At(t, "exit_splice")
  /\ children' = [children EXCEPT ![init_task] = Spliced(children[t], @), ![t] = <<>>]
  /\ Broadcast(init_task)
  /\ lock' = UnlocksBoth(t)
  /\ Goto(t, "exit_parent")
  /\ UNCHANGED <<parent, ppid, flags, waiters, local, reaped, bounds, ub>>

ExitOrphan(t) ==
  /\ At(t, "exit_orphan") /\ Unlocked(AtCursor(t))
  /\ ppid' = [ppid EXCEPT ![AtCursor(t)] = None]
  /\ Advance(t, "exit_orphan", "exit_parent")
  /\ lock' = [lock EXCEPT ![t] = IF MoreChildren(t) THEN t ELSE None]
  /\ UNCHANGED <<parent, children, flags, waiters, asleep,
                 peer, call, todo, sig, report, reaped, bounds, ub>>

(* task->parent is read without a lock, to find the mutex to take ...      *)
ExitParent(t) ==
  /\ At(t, "exit_parent")
  /\ IF parent[t] = None
     THEN Goto(t, "gone") /\ UNCHANGED peer
     ELSE Goto(t, "exit_notify") /\ peer' = [peer EXCEPT ![t] = parent[t]]
  /\ UNCHANGED <<task, flags, sync, call, cursor, todo, sig, report, reaped, bounds, ub>>

(* ... and again under that mutex, to find whom to wake and what to unlock.*)
(* These reads are one: only an exiting parent that holds its own mutex    *)
(* changes the pointer, and once it is init's it stays.                    *)
ExitNotify(t) ==
  /\ At(t, "exit_notify") /\ ~Freed(peer[t]) /\ Unlocked(peer[t])
  /\ IF parent[t] = peer[t]
     THEN UNCHANGED <<lock, ub>>
     ELSE lock' = [lock EXCEPT ![peer[t]] = t] /\ ub' = "unlock_not_held"
  /\ Broadcast(parent[t])
  /\ peer' = [peer EXCEPT ![t] = None]
  /\ Goto(t, "gone")
  /\ UNCHANGED <<task, flags, waiters, call, cursor, todo, sig, report, reaped, bounds>>

-----------------------------------------------------------------------------
(***************************************************************************)
(* ixland_kill of one task, and ixland_killpg of the tasks of a group that *)
(* it collected under task_table_lock: __ixland_apply_signal_to_task for   *)
(* each under its mutex, with the parent's mutex taken inside.             *)
(***************************************************************************)
Kill(k, S, g) ==
  /\ k \in Killers /\ At(k, "run") /\ kills < MaxKills
  /\ kills' = kills + 1
  /\ S # {}
  /\ todo' = [todo EXCEPT ![k] = S]
  /\ sig' = [sig EXCEPT ![k] = g]
  /\ Goto(k, "kill")
  /\ UNCHANGED <<task, flags, sync, peer, call, cursor, report, reaped, faults, ub>>

ixland_kill(k, t, g) == t \in InTable /\ Kill(k, {t}, g)
ixland_killpg(k, g) == Kill(k, {t \in InTable : Pgid[t] = Pgid[k]}, g)

SetFlags(t, g) ==
  CASE g = "STOP" -> /\ state' = [state EXCEPT ![t] = "STOPPED"]
                     /\ stopped' = [stopped EXCEPT ![t] = TRUE]
                     /\ UNCHANGED <<exited, termsig, continued>>
    [] g = "CONT" -> /\ state' = [state EXCEPT ![t] = "RUNNING"]
                     /\ stopped' = [stopped EXCEPT ![t] = FALSE]
                     /\ continued' = [continued EXCEPT ![t] = TRUE]
                     /\ UNCHANGED <<exited, termsig>>
    [] g = "TERM" -> /\ termsig' = [termsig EXCEPT ![t] = g]
                     /\ exited' = [exited EXCEPT ![t] = TRUE]
                     /\ state' = [state EXCEPT ![t] = "ZOMBIE"]
                     /\ UNCHANGED <<stopped, continued>>

(* The signal has been applied to t, whose own waiters are woken last.     *)
Delivered(k, t) ==
  /\ todo' = [todo EXCEPT ![k] = @ \ {t}]
  /\ peer' = [peer EXCEPT ![k] = None]
  /\ Goto(k, IF todo[k] = {t} THEN "run" ELSE "kill")

KillApply(k, t) ==
  /\ On(k, "kill") /\ t \in todo[k] /\ Unlocked(t)
  /\ SetFlags(t, sig[k])
  /\ IF parent[t] = None
     THEN /\ Broadcast(t)
          /\ Delivered(k, t)
          /\ UNCHANGED lock
     ELSE /\ lock' = [lock EXCEPT ![t] = k]
          /\ peer' = [peer EXCEPT ![k] = t]
          /\ Goto(k, "kill_notify")
          /\ UNCHANGED <<asleep, todo>>
  /\ UNCHANGED <<task, exit_status, waiters, call, cursor, sig, report, reaped, bounds, ub>>

Wakes(t) == {u \in {t, parent[t]} : waiters[u] > 0}

KillNotify(k) ==
  LET t == peer[k]
  IN  /\ On(k, "kill_notify") /\ ~Freed(parent[t]) /\ Unlocked(parent[t])
      /\ asleep' = asleep \ Wakes(t)
      /\ lock' = [lock EXCEPT ![t] = None]
      /\ Delivered(k, t)
      /\ UNCHANGED <<task, flags, waiters, call, cursor, sig, report, reaped, bounds, ub>>

-----------------------------------------------------------------------------
(* A thread goes on although its task, or the parent of the task it has to *)
(* report on, has been freed.                                              *)
UsesFreed(t) ==
  \/ /\ Freed(t) /\ t \notin asleep
     /\ pc[t] \notin {"unborn", "unlinked", "linked", "gone", "kill", "kill_notify"}
  \/ pc[t] = "exit_notify" /\ Freed(peer[t])
  \/ pc[t] = "kill_notify" /\ Freed(parent[peer[t]])

UseAfterFree(t) ==
  /\ ub = "none" /\ UsesFreed(t)
  /\ ub' = "use_after_free"
  /\ UNCHANGED <<task, flags, sync, pc, local, reaped, bounds>>

(* The steps the kernel code of thread t takes inside a call.              *)
Inside(t) ==
  \/ \E c \in Tasks : ForkAlloc(t, c)
  \/ ForkNoMemory(t)
  \/ ForkLink(t)
  \/ ForkStart(t)
  \/ ForkFail(t)
  \/ WaitWake(t)
  \/ WaitLook(t)
  \/ WaitTest(t)
  \/ WaitStatus(t)
  \/ ExitLockInit(t)
  \/ ExitAdopt(t)
  \/ ExitSplice(t)
  \/ ExitOrphan(t)
  \/ ExitParent(t)
  \/ ExitNotify(t)
  \/ \E u \in Tasks : KillApply(t, u)
  \/ KillNotify(t)
  \/ UseAfterFree(t)

(* The calls its program may make.                                         *)
Calls(t) ==
  \/ ForkCheck(t)
  \/ \E w \in WaitCalls[t] : ixland_waitpid(t, w)
  \/ \E s \in ExitCodes : ExitBegin(t, s)
  \/ \E g \in Signals :
       \/ \E u \in Tasks : ixland_kill(t, u, g)
       \/ ixland_killpg(t, g)

Next == \E t \in Tasks : Inside(t) \/ Calls(t) \/ SpuriousWake(t)

Spec == Init /\ [][Next]_vars

-----------------------------------------------------------------------------
Labels ==
  {"unborn", "unlinked", "linked", "run", "gone", "fork_alloc", "fork_link", "fork_start",
   "wait_sleep", "wait_look", "wait_test", "wait_reap", "wait_report", "exit_lock_init", "exit_adopt",
   "exit_splice", "exit_orphan", "exit_parent", "exit_notify", "kill", "kill_notify"}

TypeOK ==
  /\ parent \in [Tasks -> Tasks \cup {None}]
  /\ ppid \in [Tasks -> Tasks \cup {None}]
  /\ children \in [Tasks -> Seq(Tasks)]
  /\ state \in [Tasks -> {"RUNNING", "STOPPED", "ZOMBIE"}]
  /\ exited \in [Tasks -> BOOLEAN]
  /\ exit_status \in [Tasks -> ExitCodes \cup {0}]
  /\ termsig \in [Tasks -> {"none", "TERM"}]
  /\ stopped \in [Tasks -> BOOLEAN]
  /\ continued \in [Tasks -> BOOLEAN]
  /\ lock \in [Tasks -> Tasks \cup {None}]
  /\ waiters \in [Tasks -> {0, 1}]
  /\ asleep \in SUBSET Tasks
  /\ pc \in [Tasks -> Labels]
  /\ peer \in [Tasks -> Tasks \cup {None}]
  /\ call \in [Tasks -> (UNION {WaitCalls[t] : t \in Tasks}) \cup {NoCall}]
  /\ cursor \in [Tasks -> Nat]
  /\ todo \in [Tasks -> SUBSET Tasks]
  /\ sig \in [Tasks -> Signals \cup {"none"}]
  /\ reaped \in SUBSET Tasks
  /\ kills \in 0 .. MaxKills
  /\ faults \in 0 .. MaxFaults
  /\ ub \in {"none", "use_after_free", "unlock_not_held"}
=============================================================================
