------------------------------- MODULE Vfork --------------------------------
(***************************************************************************)
(* IXLandSystem/kernel/fork.c, second half: vfork.                         *)
(*                                                                         *)
(* The parent waits for child_done in a context on its stack.  execve and  *)
(* exit, in the child's thread, set it through active_vfork_ctx, which is  *)
(* __thread: the parent set its own, and the child's stays NULL.           *)
(***************************************************************************)
EXTENDS Integers

CONSTANTS
  Callers,         \* tasks that call vfork
  MaxStrays        \* bound: spurious wakeups of a parent

Sides == {"parent", "child"}

VARIABLES
  vpc,             \* where each side of each vfork stands
  active,          \* active_vfork_ctx of each side's thread is set
  child_done,      \* ctx.child_done
  wakeups

vforkVars == <<vpc, active, child_done, wakeups>>

Init ==
  /\ vpc = [c \in Callers |-> [parent |-> "run", child |-> "none"]]
  /\ active = [c \in Callers |-> [s \in Sides |-> FALSE]]
  /\ child_done = [c \in Callers |-> FALSE]
  /\ wakeups = [c \in Callers |-> 0]

Moves(c, side, from, to) ==
  /\ vpc[c][side] = from
  /\ vpc' = [vpc EXCEPT ![c][side] = to]

VforkCreates(c) ==
  /\ vpc[c].parent = "run"
  /\ vpc' = [vpc EXCEPT ![c] = [parent |-> "check", child |-> "start"]]
  /\ active' = [active EXCEPT ![c].parent = TRUE]
  /\ UNCHANGED <<child_done, wakeups>>

VforkCreateFails(c) ==
  /\ Moves(c, "parent", "run", "failed")
  /\ UNCHANGED <<active, child_done, wakeups>>

\* Wakes whoever waits on ctx.cond.
Awake(v, c) == IF v[c].parent = "asleep" THEN [v EXCEPT ![c].parent = "check"] ELSE v

\* vfork_child_trampoline broadcasts and jumps; the child returns from vfork.
VforkChildStarts(c) ==
  /\ vpc[c].child = "start"
  /\ vpc' = Awake([vpc EXCEPT ![c].child = "run"], c)
  /\ active' = [active EXCEPT ![c].child = FALSE]
  /\ UNCHANGED <<child_done, wakeups>>

\* The child calls execve or _exit, which call the notifiers.
VforkNotifies(c) ==
  /\ vpc[c].child = "run"
  /\ IF active[c].child
     THEN /\ child_done' = [child_done EXCEPT ![c] = TRUE]
          /\ vpc' = Awake([vpc EXCEPT ![c].child = "gone"], c)
     ELSE /\ vpc' = [vpc EXCEPT ![c].child = "gone"]
          /\ UNCHANGED child_done
  /\ UNCHANGED <<active, wakeups>>

VforkSleeps(c) ==
  /\ ~child_done[c]
  /\ Moves(c, "parent", "check", "asleep")
  /\ UNCHANGED <<active, child_done, wakeups>>

VforkResumes(c) ==
  /\ child_done[c]
  /\ Moves(c, "parent", "check", "returned")
  /\ active' = [active EXCEPT ![c].parent = FALSE]
  /\ UNCHANGED <<child_done, wakeups>>

VforkStray(c) ==
  /\ wakeups[c] < MaxStrays
  /\ Moves(c, "parent", "asleep", "check")
  /\ wakeups' = [wakeups EXCEPT ![c] = @ + 1]
  /\ UNCHANGED <<active, child_done>>

Threads(c) == VforkChildStarts(c) \/ VforkNotifies(c) \/ VforkSleeps(c) \/ VforkResumes(c)

Next ==
  \E c \in Callers :
    VforkCreates(c) \/ VforkCreateFails(c) \/ Threads(c) \/ VforkStray(c)

\* Threads run, and the child of a vfork does call execve or _exit.
Spec == Init /\ [][Next]_vforkVars /\ \A c \in Callers : WF_vforkVars(Threads(c))

\* "Parent resumes when child exits or execs" (fork.c:235).
VforkParentResumes ==
  \A c \in Callers : (vpc[c].child = "gone") ~> (vpc[c].parent = "returned")
=============================================================================
