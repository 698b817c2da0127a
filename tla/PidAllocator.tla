---------------------------- MODULE PidAllocator ----------------------------
(***************************************************************************)
(* IXLandSystem/kernel/pid.c: the PID allocator, a LIFO free list kept in  *)
(* an array under pid_lock and filled lazily by whichever thread comes     *)
(* first.  Each critical section under pid_lock is one step; the tests of  *)
(* pid_initialized that the code makes before it takes the lock are steps  *)
(* of their own, so two threads may both find the allocator uninitialized. *)
(*                                                                         *)
(* A PID in `granted' belongs to a caller.  Callers free a PID they hold,  *)
(* and free it once, as ixland_task_free does unless a lookup revives the  *)
(* task it frees: module TaskTable.                                        *)
(***************************************************************************)
EXTENDS Integers

CONSTANTS
  Callers,   \* the threads that call the allocator
  MinPid,    \* IXLAND_MIN_PID
  MaxPid     \* IXLAND_MAX_PID

ASSUME PidRange ==
  /\ MinPid \in Nat \ {0}
  /\ MaxPid \in Nat
  /\ MinPid <= MaxPid

AllPids == MinPid .. MaxPid
PidCount == MaxPid - MinPid + 1     \* IXLAND_PID_COUNT
NoPid == -1
Pending == 0

VARIABLES
  pid_initialized,
  pid_free_stack,    \* static array: zeroes until it is filled
  pid_stack_top,
  granted,           \* the PIDs handed out and not given back
  pidPc,             \* where each thread stands
  freeing,           \* the PID it frees, 0 when it allocates
  ret                \* what its last ixland_alloc_pid returned

pidVars == <<pid_initialized, pid_free_stack, pid_stack_top, granted, pidPc, freeing, ret>>
stack == <<pid_initialized, pid_free_stack, pid_stack_top>>

StackSlots == 0 .. PidCount - 1

PidInit ==
  /\ pid_initialized = FALSE
  /\ pid_free_stack = [i \in StackSlots |-> 0]
  /\ pid_stack_top = 0
  /\ granted = {}
  /\ pidPc = [t \in Callers |-> "idle"]
  /\ freeing = [t \in Callers |-> 0]
  /\ ret = [t \in Callers |-> Pending]

Proceeds(t, label) == pidPc' = [pidPc EXCEPT ![t] = label]

\* Faulty: the numbering starts one too low.
FullStackLow == [i \in StackSlots |-> MaxPid - 1 - i]
(* The list as the loop fills it: MaxPid at the bottom, MinPid on top.     *)
FullStack == [i \in StackSlots |-> MaxPid - i]

\* Faulty: the flag is not read again under pid_lock.
FilledAgain == FALSE
AlreadyFilled == pid_initialized

\* Faulty: the last PID is never handed out.
OneLeft == pid_stack_top <= 1
NoneLeft == pid_stack_top <= 0

(***************************************************************************)
(* ixland_pid_init past its unlocked test: the flag is read again under    *)
(* pid_lock, and the first thread in fills the list.                       *)
(***************************************************************************)
ixland_pid_init(t) ==
  /\ pidPc[t] = "init"
  /\ IF AlreadyFilled
     THEN UNCHANGED stack
     ELSE /\ pid_free_stack' = FullStack
          /\ pid_stack_top' = PidCount
          /\ pid_initialized' = TRUE
  /\ Proceeds(t, IF freeing[t] = 0 THEN "pop" ELSE "push")
  /\ UNCHANGED <<granted, freeing, ret>>

AllocCall(t) ==
  /\ pidPc[t] = "idle"
  /\ Proceeds(t, IF pid_initialized THEN "pop" ELSE "init")
  /\ ret' = [ret EXCEPT ![t] = Pending]
  /\ UNCHANGED <<stack, granted, freeing>>

ixland_alloc_pid(t) ==
  /\ pidPc[t] = "pop"
  /\ IF NoneLeft
     THEN /\ ret' = [ret EXCEPT ![t] = NoPid]
          /\ UNCHANGED <<pid_stack_top, granted>>
     ELSE LET pid == pid_free_stack[pid_stack_top - 1]
          IN  /\ pid_stack_top' = pid_stack_top - 1
              /\ granted' = granted \cup {pid}
              /\ ret' = [ret EXCEPT ![t] = pid]
  /\ Proceeds(t, "idle")
  /\ UNCHANGED <<pid_initialized, pid_free_stack, freeing>>

(* The range test of the code lets through every PID the allocator gave.   *)
FreeCall(t, pid) ==
  /\ pidPc[t] = "idle"
  /\ MinPid <= pid /\ pid <= MaxPid
  /\ granted' = granted \ {pid}
  /\ freeing' = [freeing EXCEPT ![t] = pid]
  /\ Proceeds(t, IF pid_initialized THEN "push" ELSE "init")
  /\ UNCHANGED <<stack, ret>>

ixland_free_pid(t) ==
  /\ pidPc[t] = "push"
  /\ IF pid_stack_top >= PidCount
     THEN UNCHANGED <<pid_free_stack, pid_stack_top>>
     ELSE /\ pid_free_stack' = [pid_free_stack EXCEPT ![pid_stack_top] = freeing[t]]
          /\ pid_stack_top' = pid_stack_top + 1
  /\ freeing' = [freeing EXCEPT ![t] = 0]
  /\ Proceeds(t, "idle")
  /\ UNCHANGED <<pid_initialized, granted, ret>>

PidNext ==
  \E t \in Callers :
    \/ AllocCall(t)
    \/ ixland_pid_init(t)
    \/ ixland_alloc_pid(t)
    \/ \E pid \in granted : FreeCall(t, pid)
    \/ ixland_free_pid(t)

PidSpec == PidInit /\ [][PidNext]_pidVars

-----------------------------------------------------------------------------
\* PIDs whose owner has called ixland_free_pid and whose push is still to come.
Returning == {p \in AllPids : \E t \in Callers : freeing[t] = p}

FreePids == {pid_free_stack[i] : i \in 0 .. pid_stack_top - 1}

PidTypeOK ==
  /\ pid_initialized \in BOOLEAN
  /\ pid_free_stack \in [StackSlots -> AllPids \cup {0}]
  /\ pid_stack_top \in 0 .. PidCount
  /\ granted \in SUBSET AllPids
  /\ pidPc \in [Callers -> {"idle", "init", "pop", "push"}]
  /\ freeing \in [Callers -> AllPids \cup {0}]
  /\ ret \in [Callers -> AllPids \cup {NoPid, Pending}]

(* No PID is lost and none is in two places: once the list is filled, each *)
(* PID is either on the free list, at one place, or with one caller, or on *)
(* its way back.  A second initialization or an unlocked push breaks it.   *)
Conservation ==
  pid_initialized =>
    /\ \A i, j \in 0 .. pid_stack_top - 1 :
         pid_free_stack[i] = pid_free_stack[j] => i = j
    /\ FreePids \cap (granted \cup Returning) = {}
    /\ granted \cap Returning = {}
    /\ FreePids \cup granted \cup Returning = AllPids

(* The allocator implements the pool: what it grants nobody holds, and it  *)
(* refuses (pid.c:51, "No PIDs available") only when every PID is taken.   *)
Pool == INSTANCE PidPool WITH busy <- granted \cup Returning
PoolSpec == Pool!Spec
=============================================================================
