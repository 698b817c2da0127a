------------------------------ MODULE MCVfork ------------------------------
(* One parent, one vfork, one spurious wakeup.                             *)
EXTENDS Vfork
=============================================================================
