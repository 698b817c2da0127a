----------------------------- MODULE JobControl -----------------------------
(***************************************************************************)
(* IXLandSystem/kernel/task.c and signal.c: process groups and sessions.   *)
(*                                                                         *)
(* setpgid looks its target up and tests the parent before it locks the    *)
(* target; setsid locks the caller; fork copies both numbers into a child  *)
(* that is already in the table.  killpg reads the group of every task     *)
(* under task_table_lock, which none of them takes, and signals the        *)
(* matches after it let go.  A group or session is named by the task whose *)
(* PID it has; a task has one thread, and PIDs are not used again.         *)
(*                                                                         *)
(* Programs are those of a shell: a process that leads a group stays in    *)
(* it, a group that is joined exists in the caller's session, and one task *)
(* at a time moves a given process.  The code asks for none of this.       *)
(***************************************************************************)
EXTENDS FiniteSets, Integers

CONSTANTS
  Jobs,        \* tasks
  Shell,       \* the first of them
  Signallers,  \* threads that call killpg
  MaxMatches,  \* IXLAND_KILLPG_MAX_MATCHES
  NoJob

ASSUME JobAssumption ==
  /\ Shell \in Jobs
  /\ NoJob \notin Jobs
  /\ MaxMatches \in Nat
  /\ IsFiniteSet(Jobs) /\ Cardinality(Jobs) <= MaxMatches

VARIABLES
  pgid, sid,   \* task->pgid, ->sid
  parentOf,    \* task->ppid
  inTable,     \* the tasks in the table
  does,        \* what a task is in the middle of
  killpgCall,  \* what a killpg has found so far
  stayed       \* history: tasks in the group since its search began

groups == <<pgid, sid, stayed>>
family == <<parentOf, inTable>>
jobVars == <<groups, family, does, killpgCall>>

Idle == [op |-> "none", on |-> NoJob, to |-> NoJob]
NoCall == [stage |-> "none", group |-> NoJob, unseen |-> {}, matches |-> {}, reached |-> {}]

JobInit ==
  /\ pgid = [t \in Jobs |-> t]
  /\ sid = [t \in Jobs |-> t]
  /\ parentOf = [t \in Jobs |-> NoJob]
  /\ inTable = {Shell}
  /\ does = [t \in Jobs |-> Idle]
  /\ killpgCall = [k \in Signallers |-> NoCall]
  /\ stayed = [k \in Signallers |-> {}]

JobRuns(t) ==
  /\ t \in inTable /\ does[t] = Idle
  /\ \A u \in Jobs : does[u].on = t => does[u].op # "fork"

Starts(t, op, on, to) ==
  /\ JobRuns(t)
  /\ does' = [does EXCEPT ![t] = [op |-> op, on |-> on, to |-> to]]

Joins(t, g) ==
  /\ pgid' = [pgid EXCEPT ![t] = g]
  /\ stayed' = [k \in Signallers |->
                  IF g = killpgCall[k].group THEN stayed[k] ELSE stayed[k] \ {t}]

TableFree == \A k \in Signallers : killpgCall[k].stage # "search"   \* task_table_lock

---------------------------------------------------------------------------
(* fork: the child enters the table in a group of its own, then inherits.  *)

ForkEnters(t, child) ==
  /\ child \notin inTable /\ TableFree
  /\ Starts(t, "fork", child, NoJob)
  /\ inTable' = inTable \cup {child}
  /\ UNCHANGED <<groups, parentOf, killpgCall>>

ForkInherits(t) ==
  LET child == does[t].on IN
  /\ does[t].op = "fork"
  /\ parentOf' = [parentOf EXCEPT ![child] = t]
  /\ Joins(child, pgid[t])
  /\ sid' = [sid EXCEPT ![child] = sid[t]]
  /\ does' = [does EXCEPT ![t] = Idle]
  /\ UNCHANGED <<inTable, killpgCall>>

---------------------------------------------------------------------------
(* setpgid and setsid                                                      *)

MayMove(t, joiner) == joiner = t \/ parentOf[joiner] = t

Leads(t) == pgid[t] = t
Moving == {does[t].on : t \in Jobs}
InSession(t) == {pgid[u] : u \in {v \in inTable : sid[v] = sid[t]}}

SetpgidChecks(t, joiner, g) ==
  /\ joiner \in inTable /\ MayMove(t, joiner)
  /\ Starts(t, "setpgid", joiner, g)
  /\ ~Leads(joiner) /\ g \in InSession(t) \cup {joiner}
  /\ joiner \notin Moving /\ does[joiner] = Idle
  /\ UNCHANGED <<groups, family, killpgCall>>

\* Faulty: the session is not compared.
AnySession(t, joiner) == TRUE
SameSession(t, joiner) == sid[joiner] = sid[t]

SetpgidStores(t) ==
  LET joiner == does[t].on IN
  /\ does[t].op = "setpgid"
  /\ IF SameSession(t, joiner)
     THEN Joins(joiner, does[t].to)
     ELSE UNCHANGED <<pgid, stayed>>
  /\ does' = [does EXCEPT ![t] = Idle]
  /\ UNCHANGED <<sid, family, killpgCall>>

ixland_setsid(t) ==
  /\ JobRuns(t)
  /\ pgid[t] # t
  /\ sid' = [sid EXCEPT ![t] = t]
  /\ Joins(t, t)
  /\ UNCHANGED <<family, does, killpgCall>>

---------------------------------------------------------------------------
(* killpg: one task of the table after the other, then the matches.        *)

KillpgBegins(k, g) ==
  /\ killpgCall[k].stage = "none" /\ TableFree
  /\ killpgCall' = [killpgCall EXCEPT ![k] = [NoCall EXCEPT !.stage = "search", !.group = g, !.unseen = inTable]]
  /\ stayed' = [stayed EXCEPT ![k] = {t \in inTable : pgid[t] = g}]
  /\ UNCHANGED <<pgid, sid, family, does>>

\* Faulty: the last place is never used.
RoomButOne(matches) == Cardinality(matches) < MaxMatches - 1
Room(matches) == Cardinality(matches) < MaxMatches

KillpgVisits(k, t) ==
  /\ killpgCall[k].stage = "search" /\ t \in killpgCall[k].unseen
  /\ LET found == IF pgid[t] = killpgCall[k].group /\ Room(killpgCall[k].matches) THEN {t} ELSE {} IN
     killpgCall' = [killpgCall EXCEPT ![k].unseen = @ \ {t}, ![k].matches = @ \cup found]
  /\ UNCHANGED <<groups, family, does>>

KillpgUnlocks(k) ==
  /\ killpgCall[k].stage = "search" /\ killpgCall[k].unseen = {}
  /\ killpgCall' = [killpgCall EXCEPT ![k].stage = IF killpgCall[k].matches = {} THEN "ESRCH" ELSE "deliver"]
  /\ UNCHANGED <<groups, family, does>>

KillpgDelivers(k, t) ==
  /\ killpgCall[k].stage = "deliver" /\ t \in killpgCall[k].matches \ killpgCall[k].reached
  /\ killpgCall' = [killpgCall EXCEPT ![k].reached = @ \cup {t},
                          ![k].stage = IF killpgCall[k].matches \ killpgCall[k].reached = {t} THEN "done" ELSE @]
  /\ UNCHANGED <<groups, family, does>>

KillpgReturns(k) ==
  /\ killpgCall[k].stage \in {"ESRCH", "done"}
  /\ killpgCall' = [killpgCall EXCEPT ![k] = NoCall]
  /\ stayed' = [stayed EXCEPT ![k] = {}]
  /\ UNCHANGED <<pgid, sid, family, does>>

---------------------------------------------------------------------------
JobNext ==
  \/ \E t \in Jobs :
       \/ ForkInherits(t) \/ SetpgidStores(t) \/ ixland_setsid(t)
       \/ \E u \in Jobs : ForkEnters(t, u) \/ \E g \in Jobs : SetpgidChecks(t, u, g)
  \/ \E k \in Signallers :
       \/ KillpgUnlocks(k) \/ KillpgReturns(k)
       \/ \E t \in Jobs : KillpgBegins(k, t) \/ KillpgVisits(k, t) \/ KillpgDelivers(k, t)

JobSpec == JobInit /\ [][JobNext]_jobVars

---------------------------------------------------------------------------
\* A process group lies within one session, whatever fork, setpgid and setsid
\* of several tasks do at once ("can't move to different session").
GroupInSession ==
  \A t, u \in inTable : pgid[t] = pgid[u] => sid[t] = sid[u]

\* killpg reaches every task that was in the group for the whole of the call,
\* while others join, leave and fork beside it, and answers ESRCH only if
\* there is none ("valid PGID with matches: deliver to all").
KillpgReaches ==
  \A k \in Signallers :
    /\ killpgCall[k].stage = "done" => stayed[k] \subseteq killpgCall[k].reached
    /\ killpgCall[k].stage = "ESRCH" => stayed[k] = {}
=============================================================================
