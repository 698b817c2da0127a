------------------------- MODULE PidAllocatorProofs -------------------------
(***************************************************************************)
(* Proofs about PidAllocator, for any PID range and any set of threads.    *)
(***************************************************************************)
EXTENDS PidAllocator, FiniteSetTheorems, TLAPS

-----------------------------------------------------------------------------
(* Where a thread stands determines what it carries, and nothing is handed *)
(* out before the free list is filled.                                     *)
ThreadsOK ==
  \A t \in Callers :
    /\ pidPc[t] \in {"idle", "pop"} => freeing[t] = 0
    /\ pidPc[t] = "push" => freeing[t] # 0
    /\ pidPc[t] \in {"pop", "push"} => pid_initialized
    /\ pidPc[t] = "pop" => ret[t] = Pending
    /\ pidPc[t] = "init" /\ freeing[t] = 0 => ret[t] = Pending

ReturnedOnce ==
  \A t, u \in Callers : freeing[t] = freeing[u] /\ freeing[t] # 0 => t = u

NothingBeforeInit ==
  ~pid_initialized => pid_stack_top = 0 /\ granted = {} /\ Returning = {}

IInv ==
  /\ PidTypeOK
  /\ ThreadsOK
  /\ ReturnedOnce
  /\ NothingBeforeInit
  /\ Conservation

-----------------------------------------------------------------------------
(* The defensive test of pid.c:99 never drops a PID: as long as some PID   *)
(* is missing from a free list without repetitions, the list has room.     *)
LEMMA RoomForMissing ==
  ASSUME NEW f \in [StackSlots -> AllPids \cup {0}], NEW top \in 0 .. PidCount,
         NEW a \in AllPids,
         \A i \in 0 .. top - 1 : f[i] \in AllPids \ {a},
         \A i, j \in 0 .. top - 1 : f[i] = f[j] => i = j
  PROVE  top < PidCount
<1> USE PidRange
<1>1. PidCount \in Nat \ {0} /\ MinPid \in Int /\ MaxPid \in Int
  BY DEF PidCount
<1>2. SUFFICES ASSUME top = PidCount PROVE FALSE
  BY <1>1
<1>3. IsFiniteSet(StackSlots) /\ Cardinality(StackSlots) = PidCount
  BY <1>1, FS_Interval DEF StackSlots
<1>4. IsFiniteSet(AllPids) /\ Cardinality(AllPids) = PidCount
  BY <1>1, FS_Interval DEF AllPids, PidCount
<1>5. IsFiniteSet(AllPids \ {a}) /\ Cardinality(AllPids \ {a}) = PidCount - 1
  BY <1>4, FS_RemoveElement
<1>6. f \in [StackSlots -> AllPids \ {a}]
  BY <1>2 DEF StackSlots
<1>7. Cardinality(AllPids \ {a}) < Cardinality(StackSlots)
  BY <1>1, <1>3, <1>5
<1>8. \E x, y \in StackSlots : x # y /\ f[x] = f[y]
  BY <1>3, <1>5, <1>6, <1>7, FS_PigeonHole
<1> QED
  BY <1>2, <1>8 DEF StackSlots

LEMMA InitIInv == PidInit => IInv
<1> SUFFICES ASSUME PidInit PROVE IInv
  OBVIOUS
<1> USE PidRange DEF PidInit, PidCount, StackSlots, AllPids
<1>1. PidTypeOK
  <2>1. PidCount \in Nat /\ 0 \in 0 .. PidCount
    OBVIOUS
  <2> QED
    BY <2>1 DEF PidTypeOK, Pending
<1>2. ThreadsOK /\ ReturnedOnce
  BY DEF ThreadsOK, ReturnedOnce
<1>3. NothingBeforeInit /\ Conservation
  BY DEF NothingBeforeInit, Conservation, Returning
<1> QED
  BY <1>1, <1>2, <1>3 DEF IInv

-----------------------------------------------------------------------------
LEMMA InitStep ==
  ASSUME IInv, NEW t \in Callers, ixland_pid_init(t)
  PROVE  IInv'
<1> USE PidRange DEF IInv, ixland_pid_init, AlreadyFilled, FullStack, Proceeds, stack
<1>1. PidTypeOK'
  <2>1. PidCount \in 0 .. PidCount
    BY DEF PidCount
  <2>2. [i \in StackSlots |-> MaxPid - i] \in [StackSlots -> AllPids \cup {0}]
    BY DEF StackSlots, AllPids, PidCount
  <2>3. pid_free_stack' \in [StackSlots -> AllPids \cup {0}] /\ pid_stack_top' \in 0 .. PidCount
    BY <2>1, <2>2 DEF PidTypeOK
  <2>4. pid_initialized' \in BOOLEAN
    BY DEF PidTypeOK
  <2> QED
    BY <2>3, <2>4 DEF PidTypeOK
<1>2. ThreadsOK' /\ ReturnedOnce'
  BY DEF ThreadsOK, ReturnedOnce, PidTypeOK
<1>3. Returning' = Returning
  BY DEF Returning
<1>4. NothingBeforeInit' /\ Conservation'
  <2>1. CASE pid_initialized
    BY <2>1, <1>3 DEF NothingBeforeInit, Conservation, FreePids
  <2>2. CASE ~pid_initialized
    <3>1. /\ pid_initialized' /\ granted' = {} /\ Returning' = {}
          /\ pid_stack_top' = PidCount
          /\ pid_free_stack' = [i \in StackSlots |-> MaxPid - i]
      BY <2>2, <1>3 DEF NothingBeforeInit
    <3>2. FreePids' = {MaxPid - i : i \in StackSlots}
      BY <3>1 DEF FreePids, StackSlots
    <3>3. {MaxPid - i : i \in StackSlots} = AllPids
      <4>1. ASSUME NEW p \in AllPids PROVE MaxPid - p \in StackSlots /\ MaxPid - (MaxPid - p) = p
        BY DEF AllPids, StackSlots, PidCount
      <4>2. ASSUME NEW i \in StackSlots PROVE MaxPid - i \in AllPids
        BY DEF AllPids, StackSlots, PidCount
      <4> QED
        BY <4>1, <4>2
    <3>4. \A i, j \in 0 .. pid_stack_top' - 1 :
             pid_free_stack'[i] = pid_free_stack'[j] => i = j
      BY <3>1 DEF StackSlots, PidCount
    <3> QED
      BY <3>1, <3>2, <3>3, <3>4 DEF NothingBeforeInit, Conservation
  <2> QED
    BY <2>1, <2>2 DEF PidTypeOK
<1> QED
  BY <1>1, <1>2, <1>4

LEMMA AllocCallStep ==
  ASSUME IInv, NEW t \in Callers, AllocCall(t)
  PROVE  IInv'
<1> USE DEF IInv, AllocCall, Proceeds, stack
<1>1. PidTypeOK'
  BY DEF PidTypeOK
<1>2. ThreadsOK' /\ ReturnedOnce'
  BY DEF ThreadsOK, ReturnedOnce, PidTypeOK
<1>3. NothingBeforeInit' /\ Conservation'
  BY DEF NothingBeforeInit, Conservation, FreePids, Returning
<1> QED
  BY <1>1, <1>2, <1>3

(* What a pop takes: the top of the free list, which nobody else holds.    *)
LEMMA PopTakesFree ==
  ASSUME IInv, NEW t \in Callers, ixland_alloc_pid(t), pid_stack_top > 0
  PROVE  LET pid == pid_free_stack[pid_stack_top - 1]
         IN  /\ pid \in FreePids
             /\ pid \in AllPids
             /\ pid \notin granted \cup Returning
             /\ granted' = granted \cup {pid}
             /\ pid_stack_top' = pid_stack_top - 1
             /\ ret' = [ret EXCEPT ![t] = pid]
             /\ FreePids' = FreePids \ {pid}
<1> USE PidRange DEF IInv, ixland_alloc_pid, NoneLeft
<1> DEFINE top == pid_stack_top
           pid == pid_free_stack[top - 1]
<1>1. pid_initialized /\ top \in Nat /\ top > 0
  BY DEF ThreadsOK, PidTypeOK
<1>2. pid \in FreePids
  BY <1>1 DEF FreePids
<1>3. pid \in AllPids /\ pid \notin granted \cup Returning
  BY <1>1, <1>2 DEF Conservation
<1>4. granted' = granted \cup {pid} /\ top' = top - 1 /\ ret' = [ret EXCEPT ![t] = pid]
      /\ pid_free_stack' = pid_free_stack
  BY <1>1 DEF PidTypeOK
<1>5. FreePids' = FreePids \ {pid}
  <2>1. ASSUME NEW i \in 0 .. top - 2 PROVE pid_free_stack[i] # pid
    BY <1>1 DEF Conservation
  <2>2. FreePids' = {pid_free_stack[i] : i \in 0 .. top - 2}
    BY <1>1, <1>4 DEF FreePids
  <2>3. \A i \in 0 .. top - 1 : i = top - 1 \/ i \in 0 .. top - 2
    BY <1>1
  <2> QED
    BY <1>1, <2>1, <2>2, <2>3 DEF FreePids
<1> QED
  BY <1>2, <1>3, <1>4, <1>5

LEMMA PopStep ==
  ASSUME IInv, NEW t \in Callers, ixland_alloc_pid(t)
  PROVE  IInv'
<1> USE PidRange DEF IInv, ixland_alloc_pid, NoneLeft, Proceeds
<1>1. pid_initialized /\ pid_initialized' /\ Returning' = Returning
  BY DEF ThreadsOK, Returning
<1>2. CASE pid_stack_top > 0
  <2> DEFINE pid == pid_free_stack[pid_stack_top - 1]
  <2>1. /\ pid \in FreePids /\ pid \in AllPids /\ pid \notin granted \cup Returning
        /\ granted' = granted \cup {pid}
        /\ pid_stack_top' = pid_stack_top - 1
        /\ ret' = [ret EXCEPT ![t] = pid]
        /\ FreePids' = FreePids \ {pid}
    BY <1>2, PopTakesFree
  <2> HIDE DEF pid
  <2>2. PidTypeOK'
    <3>1. pid_stack_top - 1 \in 0 .. PidCount
      BY <1>2 DEF PidTypeOK, PidCount
    <3> QED
      BY <2>1, <3>1 DEF PidTypeOK
  <2>3. ThreadsOK' /\ ReturnedOnce'
    BY DEF ThreadsOK, ReturnedOnce, PidTypeOK
  <2>4. \A i, j \in 0 .. pid_stack_top' - 1 :
           pid_free_stack'[i] = pid_free_stack'[j] => i = j
    BY <1>1, <1>2, <2>1 DEF Conservation, PidTypeOK
  <2>5. Conservation' /\ NothingBeforeInit'
    BY <1>1, <2>1, <2>4 DEF Conservation, NothingBeforeInit
  <2> QED
    BY <2>2, <2>3, <2>5
<1>3. CASE pid_stack_top <= 0
  <2>1. PidTypeOK' /\ ThreadsOK' /\ ReturnedOnce'
    BY <1>3 DEF PidTypeOK, ThreadsOK, ReturnedOnce
  <2>2. Conservation' /\ NothingBeforeInit'
    BY <1>1, <1>3 DEF Conservation, NothingBeforeInit, FreePids
  <2> QED
    BY <2>1, <2>2
<1> QED
  BY <1>2, <1>3 DEF PidTypeOK

LEMMA FreeCallStep ==
  ASSUME IInv, NEW t \in Callers, NEW pid \in granted, FreeCall(t, pid)
  PROVE  /\ IInv'
         /\ granted' \cup Returning' = granted \cup Returning
<1> USE PidRange DEF IInv, FreeCall, Proceeds, stack
<1>1. pid_initialized /\ pid \in AllPids /\ pid # 0 /\ pid \notin Returning
  BY DEF NothingBeforeInit, Conservation, PidTypeOK, AllPids
<1>2. PidTypeOK'
  BY <1>1 DEF PidTypeOK
<1>3. ThreadsOK'
  BY <1>1 DEF ThreadsOK, PidTypeOK
<1>4. ReturnedOnce'
  BY <1>1 DEF ReturnedOnce, Returning, PidTypeOK
<1>5. Returning' = Returning \cup {pid}
  <2>1. freeing[t] = 0 /\ freeing' = [freeing EXCEPT ![t] = pid]
    BY DEF ThreadsOK
  <2>2. \A p \in AllPids : p # 0
    BY DEF AllPids
  <2> QED
    BY <1>1, <2>1, <2>2 DEF Returning, PidTypeOK
<1>6. Conservation' /\ NothingBeforeInit'
  BY <1>1, <1>5 DEF Conservation, NothingBeforeInit, FreePids
<1> QED
  BY <1>1, <1>2, <1>3, <1>4, <1>5, <1>6

(* A push puts back exactly the PID its caller gave up: the list has room. *)
LEMMA PushReturns ==
  ASSUME IInv, NEW t \in Callers, ixland_free_pid(t)
  PROVE  /\ pid_initialized
         /\ freeing[t] \in Returning
         /\ pid_stack_top < PidCount
         /\ Returning' = Returning \ {freeing[t]}
         /\ FreePids' = FreePids \cup {freeing[t]}
         /\ pid_stack_top' = pid_stack_top + 1
         /\ pid_free_stack' = [pid_free_stack EXCEPT ![pid_stack_top] = freeing[t]]
<1> USE PidRange DEF IInv, ixland_free_pid
<1>1. pid_initialized /\ freeing[t] \in AllPids /\ freeing[t] \in Returning
  BY DEF ThreadsOK, PidTypeOK, Returning
<1>2. pid_stack_top < PidCount
  <2>1. \A i \in 0 .. pid_stack_top - 1 : pid_free_stack[i] \in AllPids \ {freeing[t]}
    BY <1>1 DEF Conservation, FreePids
  <2>2. \A i, j \in 0 .. pid_stack_top - 1 :
           pid_free_stack[i] = pid_free_stack[j] => i = j
    BY <1>1 DEF Conservation
  <2> QED
    BY <1>1, <2>1, <2>2, RoomForMissing DEF PidTypeOK
<1>3. /\ pid_stack_top' = pid_stack_top + 1
      /\ pid_free_stack' = [pid_free_stack EXCEPT ![pid_stack_top] = freeing[t]]
      /\ freeing' = [freeing EXCEPT ![t] = 0]
  BY <1>2 DEF PidTypeOK, PidCount
<1>4. Returning' = Returning \ {freeing[t]}
  <2>1. \A p \in AllPids : p # 0
    BY DEF AllPids
  <2> QED
    BY <1>1, <1>3, <2>1 DEF Returning, ReturnedOnce, PidTypeOK
<1>5. FreePids' = FreePids \cup {freeing[t]}
  <2>1. pid_stack_top \in StackSlots /\ pid_stack_top \in Nat
    BY <1>2 DEF PidTypeOK, StackSlots, PidCount
  <2>2. \A i \in 0 .. pid_stack_top - 1 : i \in StackSlots /\ i # pid_stack_top
    BY <1>2, <2>1 DEF StackSlots, PidCount
  <2>3. \A i \in 0 .. pid_stack_top : i = pid_stack_top \/ i \in 0 .. pid_stack_top - 1
    BY <2>1
  <2>4. FreePids' = {pid_free_stack'[i] : i \in 0 .. pid_stack_top}
    BY <1>3, <2>1 DEF FreePids
  <2>5. /\ pid_free_stack'[pid_stack_top] = freeing[t]
        /\ \A i \in 0 .. pid_stack_top - 1 : pid_free_stack'[i] = pid_free_stack[i]
    BY <1>3, <2>1, <2>2 DEF PidTypeOK
  <2>6. pid_stack_top \in 0 .. pid_stack_top
        /\ \A i \in 0 .. pid_stack_top - 1 : i \in 0 .. pid_stack_top
    BY <2>1
  <2> QED
    BY <2>3, <2>4, <2>5, <2>6 DEF FreePids
<1> QED
  BY <1>1, <1>2, <1>3, <1>4, <1>5

LEMMA PushStep ==
  ASSUME IInv, NEW t \in Callers, ixland_free_pid(t)
  PROVE  IInv'
<1> USE PidRange DEF IInv, Proceeds
<1>1. /\ pid_initialized /\ freeing[t] \in Returning /\ pid_stack_top < PidCount
      /\ Returning' = Returning \ {freeing[t]}
      /\ FreePids' = FreePids \cup {freeing[t]}
      /\ pid_stack_top' = pid_stack_top + 1
      /\ pid_free_stack' = [pid_free_stack EXCEPT ![pid_stack_top] = freeing[t]]
  BY PushReturns
<1>2. /\ pidPc[t] = "push" /\ pidPc' = [pidPc EXCEPT ![t] = "idle"]
      /\ freeing' = [freeing EXCEPT ![t] = 0]
      /\ UNCHANGED <<pid_initialized, granted, ret>>
  BY DEF ixland_free_pid
<1>3. freeing[t] \in AllPids /\ pid_stack_top \in StackSlots
  BY <1>1 DEF Returning, PidTypeOK, StackSlots, PidCount
<1>4. PidTypeOK'
  BY <1>1, <1>2, <1>3 DEF PidTypeOK, PidCount
<1>5. ThreadsOK' /\ ReturnedOnce'
  BY <1>2 DEF ThreadsOK, ReturnedOnce, PidTypeOK
<1>6. \A i, j \in 0 .. pid_stack_top' - 1 :
         pid_free_stack'[i] = pid_free_stack'[j] => i = j
  <2>1. ASSUME NEW i \in 0 .. pid_stack_top - 1
        PROVE  pid_free_stack'[i] = pid_free_stack[i] /\ pid_free_stack[i] # freeing[t]
    BY <1>1, <1>3 DEF Conservation, FreePids, PidTypeOK, StackSlots
  <2>2. pid_free_stack'[pid_stack_top] = freeing[t]
    BY <1>1, <1>3 DEF PidTypeOK
  <2>3. \A i \in 0 .. pid_stack_top' - 1 :
           i = pid_stack_top \/ i \in 0 .. pid_stack_top - 1
    BY <1>1 DEF PidTypeOK, PidCount
  <2> QED
    BY <1>1, <2>1, <2>2, <2>3 DEF Conservation
<1>7. Conservation' /\ NothingBeforeInit'
  BY <1>1, <1>2, <1>6 DEF Conservation, NothingBeforeInit
<1> QED
  BY <1>4, <1>5, <1>7

LEMMA StutterStep ==
  ASSUME IInv, UNCHANGED pidVars
  PROVE  IInv'
BY DEF IInv, pidVars, PidTypeOK, ThreadsOK, ReturnedOnce, NothingBeforeInit,
       Conservation, FreePids, Returning

LEMMA NextIInv == IInv /\ [PidNext]_pidVars => IInv'
<1> SUFFICES ASSUME IInv, [PidNext]_pidVars PROVE IInv'
  OBVIOUS
<1> QED
  BY InitStep, AllocCallStep, PopStep, FreeCallStep, PushStep, StutterStep
  DEF PidNext

-----------------------------------------------------------------------------
(* Every variable keeps its type: pid_stack_top never leaves the array.    *)
THEOREM PidTypeCorrect == PidSpec => []PidTypeOK
<1>1. IInv => PidTypeOK
  BY DEF IInv
<1> QED
  BY InitIInv, NextIInv, <1>1, PTL DEF PidSpec

(* No PID is lost, duplicated, or free and in use at once.                 *)
THEOREM PidConservation == PidSpec => []Conservation
<1>1. IInv => Conservation
  BY DEF IInv
<1> QED
  BY InitIInv, NextIInv, <1>1, PTL DEF PidSpec

(* pid.c implements the pool of module PidPool.                            *)
THEOREM PidRefinesPool == PidSpec => PoolSpec
<1>1. PidInit => Pool!Init
  BY PidRange DEF PidInit, Pool!Init, Returning, Pending, Pool!Pending, AllPids
<1>2. IInv /\ [PidNext]_pidVars => [Pool!Next]_(Pool!vars)
  <2> SUFFICES ASSUME IInv, [PidNext]_pidVars
               PROVE  Pool!Next \/ UNCHANGED Pool!vars
    OBVIOUS
  <2> USE DEF Pool!vars, Pool!Next
  <2>1. ASSUME NEW t \in Callers, AllocCall(t)
        PROVE  Pool!Request(t)
    BY <2>1 DEF AllocCall, Pool!Request, Returning, Pending, Pool!Pending
  <2>2. ASSUME NEW t \in Callers, ixland_pid_init(t)
        PROVE  UNCHANGED Pool!vars
    BY <2>2 DEF ixland_pid_init, stack, Returning
  <2>3. ASSUME NEW t \in Callers, ixland_alloc_pid(t)
        PROVE  Pool!Grant(t) \/ Pool!Refuse(t)
    <3>1. Returning' = Returning /\ ret[t] = Pending /\ pid_initialized
      BY <2>3 DEF ixland_alloc_pid, Returning, IInv, ThreadsOK
    <3>2. CASE pid_stack_top > 0
      BY <2>3, <3>1, <3>2, PopTakesFree
      DEF Pool!Grant, Pool!PoolPids, AllPids, Pending, Pool!Pending
    <3>3. CASE pid_stack_top <= 0
      <4>1. FreePids = {}
        BY <3>3 DEF FreePids, IInv, PidTypeOK
      <4>2. granted \cup Returning = AllPids
        BY <3>1, <4>1 DEF IInv, Conservation
      <4> QED
        BY <2>3, <3>1, <3>3, <4>2
        DEF ixland_alloc_pid, NoneLeft, Pool!Refuse, Pool!PoolPids, AllPids, Pending, Pool!Pending,
            NoPid, Pool!NoPid
    <3> QED
      BY <3>2, <3>3 DEF IInv, PidTypeOK
  <2>4. ASSUME NEW t \in Callers, NEW pid \in granted, FreeCall(t, pid)
        PROVE  UNCHANGED Pool!vars
    BY <2>4, FreeCallStep DEF FreeCall
  <2>5. ASSUME NEW t \in Callers, ixland_free_pid(t)
        PROVE  Pool!Release
    <3>1. /\ pid_initialized /\ freeing[t] \in Returning
          /\ Returning' = Returning \ {freeing[t]}
      BY <2>5, PushReturns
    <3>2. granted \cap Returning = {} /\ UNCHANGED <<granted, ret>>
      BY <2>5, <3>1 DEF IInv, Conservation, ixland_free_pid
    <3> QED
      BY <3>1, <3>2 DEF Pool!Release
  <2>6. CASE UNCHANGED pidVars
    BY <2>6 DEF pidVars, Returning
  <2> QED
    BY <2>1, <2>2, <2>3, <2>4, <2>5, <2>6 DEF PidNext
<1> QED
  BY <1>1, <1>2, InitIInv, NextIInv, PTL DEF PidSpec, PoolSpec, Pool!Spec
=============================================================================
