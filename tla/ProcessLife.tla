---------------------------- MODULE ProcessLife ----------------------------
(***************************************************************************)
(* What the process tree promises, without lists, mutexes or wakeups: the  *)
(* life of each task and who is responsible for it.  A task is created and *)
(* entrusted to a parent, started, dies, and is reaped once, by whoever is *)
(* responsible for it then; responsibility moves only to init, and only    *)
(* from a task that has died.  It ends without a reaping only when init    *)
(* takes back a task that it could not start.                              *)
(***************************************************************************)
CONSTANTS Tasks, init_task, None

VARIABLES
  phase,   \* "unborn", "starting", "alive", "zombie" or "dead"; "lost" while it
           \* lives and "abandoned" once it has died if nobody is to reap it
  owner    \* the task that has to reap it, None while there is none

vars == <<phase, owner>>

Init ==
  /\ phase = [t \in Tasks |-> IF t = init_task THEN "alive" ELSE "unborn"]
  /\ owner = [t \in Tasks |-> None]

Create(c) ==
  /\ phase[c] = "unborn"
  /\ phase' = [phase EXCEPT ![c] = "starting"]
  /\ UNCHANGED owner

Entrust(p, c) ==
  /\ phase[c] = "starting" /\ owner[c] = None /\ c # init_task
  /\ owner' = [owner EXCEPT ![c] = p]
  /\ UNCHANGED phase

\* A task may have been killed before it is started.
Start(c) ==
  /\ phase[c] = "starting" /\ owner[c] # None
  /\ \E ph \in {"alive", "zombie"} : phase' = [phase EXCEPT ![c] = ph]
  /\ UNCHANGED owner

Died(ph) == IF ph = "lost" THEN "abandoned" ELSE "zombie"

Die(c) ==
  /\ phase[c] \in {"alive", "lost"}
  /\ phase' = [phase EXCEPT ![c] = Died(@)]
  /\ UNCHANGED owner

Orphan(p) ==
  /\ phase[p] \in {"zombie", "dead", "abandoned"}
  /\ owner' = [t \in Tasks |-> IF owner[t] = p THEN init_task ELSE owner[t]]
  /\ UNCHANGED phase

Reap(c) ==
  /\ phase[c] = "zombie" /\ owner[c] # None
  /\ phase' = [phase EXCEPT ![c] = "dead"]
  /\ owner' = [owner EXCEPT ![c] = None]

Forgotten(ph) == IF ph = "alive" THEN "lost" ELSE "abandoned"

(* fork takes back a task whose thread could not be created.  If it is     *)
(* init's, it may forget started ones among the others that are init's.    *)
Abort(c, forgets) ==
  /\ phase[c] = "starting" /\ owner[c] # None
  /\ \A t \in forgets : owner[t] = init_task /\ phase[t] \in {"alive", "zombie"}
  /\ forgets # {} => owner[c] = init_task
  /\ phase' = [t \in Tasks |-> IF t = c THEN "dead"
                               ELSE IF t \in forgets THEN Forgotten(phase[t]) ELSE phase[t]]
  /\ owner' = [t \in Tasks |-> IF t \in forgets \cup {c} THEN None ELSE owner[t]]

Next ==
  \E c \in Tasks :
    \/ Create(c)
    \/ \E p \in Tasks : Entrust(p, c)
    \/ Start(c)
    \/ Die(c)
    \/ Orphan(c)
    \/ Reap(c)
    \/ \E forgets \in SUBSET Tasks : Abort(c, forgets)

Spec == Init /\ [][Next]_vars
=============================================================================
