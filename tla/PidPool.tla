------------------------------ MODULE PidPool ------------------------------
(***************************************************************************)
(* What the PID allocator of IXLandSystem/kernel/pid.c promises, without   *)
(* its stack, its lock or its lazy initialization: a pool of PIDs.  A      *)
(* caller asks (Request) and is answered with a PID nobody else holds      *)
(* (Grant), or refused, and then only when every PID is taken (Refuse).    *)
(***************************************************************************)
EXTENDS Integers

CONSTANTS
  Callers,   \* the threads that call the allocator
  MinPid,    \* IXLAND_MIN_PID
  MaxPid     \* IXLAND_MAX_PID

PoolPids == MinPid .. MaxPid

NoPid == -1      \* what ixland_alloc_pid returns when it has no PID to give
Pending == 0     \* the call has not returned yet (no PID is 0: MinPid > 0)

VARIABLES
  busy,   \* the PIDs that are not available
  ret     \* what each thread's last call of ixland_alloc_pid returned

vars == <<busy, ret>>

Init ==
  /\ busy = {}
  /\ ret = [t \in Callers |-> Pending]

Request(t) ==
  /\ ret' = [ret EXCEPT ![t] = Pending]
  /\ UNCHANGED busy

Grant(t) ==
  /\ ret[t] = Pending
  /\ \E p \in PoolPids \ busy :
       /\ busy' = busy \cup {p}
       /\ ret' = [ret EXCEPT ![t] = p]

Refuse(t) ==
  /\ ret[t] = Pending
  /\ busy = PoolPids
  /\ ret' = [ret EXCEPT ![t] = NoPid]
  /\ UNCHANGED busy

Release ==
  /\ \E p \in busy : busy' = busy \ {p}
  /\ UNCHANGED ret

Next ==
  \/ \E t \in Callers : Request(t) \/ Grant(t) \/ Refuse(t)
  \/ Release

Spec == Init /\ [][Next]_vars
=============================================================================
