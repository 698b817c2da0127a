----------------------------- MODULE MCThreads -----------------------------
(***************************************************************************)
(* What must come back, under fairness: the calls on descriptors, who      *)
(* waits for a signal, and both sides of a fork.  Three threads share two  *)
(* descriptors: two can read one at once, and the number that a close      *)
(* gives back to the host is reused by an open of the other descriptor     *)
(* before the entry is free.  focus says what a behaviour is about; only   *)
(* that moves.                                                             *)
(***************************************************************************)
EXTENDS FdTable, Signals, Handover

VARIABLE focus

ThreadsInit ==
  /\ focus \in {"descriptors", "signals", "handover"}
  /\ Init /\ SigInit /\ HandInit

ThreadsNext ==
  \/ focus = "descriptors" /\ CarefulNext /\ UNCHANGED <<focus, sigVars, handVars>>
  \/ focus = "signals" /\ SigNext /\ UNCHANGED <<focus, vars, handVars>>
  \/ focus = "handover" /\ HandNext /\ UNCHANGED <<focus, vars, sigVars>>

ThreadsSpec ==
  /\ ThreadsInit /\ [][ThreadsNext]_<<focus, vars, sigVars, handVars>>
  /\ \A th \in Threads : SF_vars(Inside(th))
  /\ SigFairness /\ HandFairness
=============================================================================
