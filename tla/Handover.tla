------------------------------ MODULE Handover ------------------------------
(***************************************************************************)
(* IXLandSystem/kernel/fork.c, first half: how fork shares a context       *)
(* between the parent, on whose stack it lies, and the child's thread.     *)
(*                                                                         *)
(* The child announces itself and waits for its result; the parent waits   *)
(* for the child, sets the result, destroys the mutex and leaves the       *)
(* frame, while the child may still be on its way out of its wait.  What   *)
(* it does from there on is undefined, and the model stops it.             *)
(***************************************************************************)
EXTENDS Integers

CONSTANT MaxStray   \* bound: spurious wakeups

ASSUME HandoverAssumption == MaxStray \in Nat

VARIABLES
  ppc, cpc,        \* where parent and child stand
  child_ready, result,
  thread_set,      \* child->thread, which kill uses
  frame,           \* the context is still there
  strays           \* spurious wakeups so far

handVars == <<ppc, cpc, child_ready, result, thread_set, frame, strays>>

HandInit ==
  /\ ppc = "fork" /\ cpc = "none"
  /\ child_ready = FALSE /\ result = FALSE /\ thread_set = FALSE
  /\ frame = FALSE /\ strays = 0

Parent(from, to) == ppc = from /\ ppc' = to
Child(from, to) == cpc = from /\ cpc' = to

---------------------------------------------------------------------------
(* The parent                                                              *)

ForkCreates ==
  /\ Parent("fork", "check")
  /\ cpc' = "start" /\ frame' = TRUE
  /\ UNCHANGED <<child_ready, result, thread_set, strays>>

ForkCreateFails ==
  /\ Parent("fork", "failed")
  /\ UNCHANGED <<cpc, child_ready, result, thread_set, frame, strays>>

ForkSleeps ==
  /\ ~child_ready /\ Parent("check", "asleep")
  /\ UNCHANGED <<cpc, child_ready, result, thread_set, frame, strays>>

\* Faulty: nobody is told.
Asleep(pc) == pc
\* pthread_cond_broadcast: whoever sleeps on the condition goes on to test.
Told(pc) == IF pc = "asleep" THEN "check" ELSE pc

ForkSetsResult ==
  /\ child_ready /\ Parent("check", "cleanup")
  /\ result' = TRUE /\ cpc' = Told(cpc)
  /\ UNCHANGED <<child_ready, thread_set, frame, strays>>

ForkReturnsPid ==
  /\ Parent("cleanup", "returned")
  /\ frame' = FALSE
  /\ UNCHANGED <<cpc, child_ready, result, thread_set, strays>>

---------------------------------------------------------------------------
(* The child                                                               *)

ChildStarts ==
  /\ Child("start", "announce")
  /\ thread_set' = TRUE
  /\ UNCHANGED <<ppc, child_ready, result, frame, strays>>

ChildAnnounces ==
  /\ Child("announce", "check")
  /\ child_ready' = TRUE /\ ppc' = Told(ppc)
  /\ UNCHANGED <<result, thread_set, frame, strays>>

ChildSleeps ==
  /\ frame /\ ~result /\ Child("check", "asleep")
  /\ UNCHANGED <<ppc, child_ready, result, thread_set, frame, strays>>

ChildJumps ==
  /\ frame /\ result /\ Child("check", "jumped")
  /\ UNCHANGED <<ppc, child_ready, result, thread_set, frame, strays>>

ChildReturns ==
  /\ Child("jumped", "returned")
  /\ UNCHANGED <<ppc, child_ready, result, thread_set, frame, strays>>

ForkStray ==
  /\ strays < MaxStray /\ strays' = strays + 1
  /\ \/ Parent("asleep", "check") /\ UNCHANGED cpc
     \/ Child("asleep", "check") /\ UNCHANGED ppc
  /\ UNCHANGED <<child_ready, result, thread_set, frame>>

ForkParent == ForkSleeps \/ ForkSetsResult \/ ForkReturnsPid
ForkChild == ChildStarts \/ ChildAnnounces \/ ChildSleeps \/ ChildJumps \/ ChildReturns
HandNext == ForkCreates \/ ForkCreateFails \/ ForkParent \/ ForkChild \/ ForkStray

\* Both threads run.
HandFairness == WF_handVars(ForkParent) /\ WF_handVars(ForkChild)

\* The child has been woken, and looks at a context that is gone.
Undefined == cpc = "check" /\ ~frame

\* Both sides of a fork return, the parent only to a child whose thread can be
\* signalled, and neither sleeps through the other's notice, unless the parent
\* was out of its frame before the child was.
ForkHandsOver ==
  (cpc = "start") ~> (ppc = "returned" /\ thread_set /\ (cpc = "returned" \/ Undefined))
=============================================================================
