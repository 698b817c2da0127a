----------------------------- MODULE FileTable -----------------------------
(***************************************************************************)
(* What a descriptor table promises to programs: a descriptor denotes one  *)
(* open file from open or dup2 until close, and calls on it move the       *)
(* position of that file and of no other.                                  *)
(***************************************************************************)
CONSTANTS Fds, Files, None

VARIABLES
  table,   \* the file a descriptor denotes, None if it is closed
  pos      \* the position of each open file

vars == <<table, pos>>

Init ==
  /\ table = [fd \in Fds |-> None]
  /\ pos = [f \in Files |-> 0]

OpenIn(t) == {t[fd] : fd \in Fds} \ {None}

Open(fd, f) ==
  /\ table[fd] = None /\ f \notin OpenIn(table)
  /\ table' = [table EXCEPT ![fd] = f]
  /\ UNCHANGED pos

\* A file nobody has open any more has no position.
Close(fd) ==
  /\ table[fd] # None
  /\ table' = [table EXCEPT ![fd] = None]
  /\ pos' = [f \in Files |-> IF f \in OpenIn(table') THEN pos[f] ELSE 0]

Dup(old, new) ==
  /\ table[old] # None /\ table[new] = None
  /\ table' = [table EXCEPT ![new] = table[old]]
  /\ UNCHANGED pos

Move(fd) ==
  /\ table[fd] # None
  /\ \A f \in Files \ {table[fd]} : pos'[f] = pos[f]
  /\ UNCHANGED table

Next ==
  \E fd \in Fds :
    \/ \E f \in Files : Open(fd, f)
    \/ Close(fd)
    \/ \E new \in Fds : Dup(fd, new)
    \/ Move(fd)

Spec == Init /\ [][Next]_vars
=============================================================================
