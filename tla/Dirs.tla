-------------------------------- MODULE Dirs --------------------------------
(***************************************************************************)
(* IXLandSystem/fs/readdir.c and namei.c: one directory that is read with  *)
(* getdents while its names come and go.                                   *)
(*                                                                         *)
(* getdents opens a stream of its own on a duplicate of the descriptor,    *)
(* seeks to the offset in the entry of the table, reads records until the  *)
(* buffer is full and saves where it was.  The duplicate shares the offset *)
(* of the host's file, which runs ahead by what the stream read and did    *)
(* not use.  What telldir says means the same to another stream on some    *)
(* hosts; on others seekdir ignores it.  The calls of namei look at a path *)
(* and then have the host change it, which decides.                        *)
(*                                                                         *)
(* One thread reads, and seeks to the start after an error.                *)
(***************************************************************************)
EXTENDS Integers, Sequences, FiniteSets, FiniteSetsExt

CONSTANTS
  DirSlots,  \* 1 .. n: the names, in the directory's order
  SizeOf,    \* the size of the record of each
  Block,     \* records the host's stream reads at once
  MaxCount,  \* the largest buffer
  Movers     \* threads that call namei

ASSUME DirsAssumption ==
  /\ IsFiniteSet(DirSlots) /\ DirSlots = 1 .. Cardinality(DirSlots)
  /\ Block \in Nat \ {0}

VARIABLES
  kinds,      \* "none", "file", "dir", or "link" (to a directory) of each
  moving,     \* the call of each mover, between the look and the change
  portable,   \* seekdir understands what telldir said to another stream
  dpc, room,  \* where getdents is, and what is left in the buffer
  dirOffset,  \* in the entry of the table: the slot before which to go on, less 1
  hostOffset,
  stream,     \* slots the stream has read and readdir has not returned
  latest,     \* latest_offset
  wrote,      \* this call has returned a record
  scanned,    \* slots returned since the start of the directory
  steady,     \* slots that were there all that time
  left        \* a call ended with records in its stream

tree == <<kinds, moving>>
dirVars == <<tree, portable, dpc, room, dirOffset, hostOffset, stream, latest, wrote, scanned, steady, left>>

Present == {s \in DirSlots : kinds[s] # "none"}
NotMoving == [does |-> "none", at |-> 0, to |-> 0]

DirsInit ==
  /\ kinds = [s \in DirSlots |-> "file"] /\ moving = [m \in Movers |-> NotMoving]
  /\ portable = TRUE /\ dpc = "closed" /\ room = 0
  /\ dirOffset = 0 /\ hostOffset = 0 /\ stream = {} /\ latest = 0
  /\ wrote = FALSE /\ scanned = <<>> /\ steady = {} /\ left = FALSE

---------------------------------------------------------------------------
(* getdents                                                                *)

AtStart ==
  /\ dpc' = "idle" /\ dirOffset' = 0 /\ hostOffset' = 0
  /\ scanned' = <<>> /\ steady' = Present /\ left' = FALSE
  /\ UNCHANGED <<tree, room, stream, latest, wrote>>

OpensDir == dpc = "closed" /\ portable' \in BOOLEAN /\ AtStart

\* lseek, to the start.
Rewinds == dpc \in {"idle", "failed", "ended"} /\ AtStart /\ UNCHANGED portable

Returned(place) == dpc' = place /\ stream' = {} /\ room' = 0 /\ latest' = 0 /\ wrote' = FALSE

\* dup, fdopendir, seekdir; EMFILE and the like are before any change.
ixland_getdents64(size) ==
  /\ dpc = "idle" /\ dpc' = "reading" /\ room' = size
  /\ hostOffset' = IF dirOffset > 0 /\ portable THEN dirOffset ELSE hostOffset
  /\ latest' = dirOffset /\ stream' = {} /\ wrote' = FALSE
  /\ UNCHANGED <<tree, portable, dirOffset, scanned, steady, left>>

\* readdir, when its stream is empty, reads ahead.
Ahead == {s \in Present : s > hostOffset}
Filled ==
  IF stream # {} THEN stream
  ELSE {s \in Ahead : Cardinality({r \in Ahead : r <= s}) <= Block}
HostAfter == IF stream # {} \/ Filled = {} THEN hostOffset ELSE Max(Filled)

Fits == Filled # {} /\ SizeOf[Min(Filled)] <= room

OneRecord ==
  /\ dpc = "reading" /\ Fits
  /\ stream' = Filled \ {Min(Filled)} /\ hostOffset' = HostAfter
  /\ latest' = Min(Filled) /\ room' = room - SizeOf[Min(Filled)]
  /\ wrote' = TRUE /\ scanned' = Append(scanned, Min(Filled))
  /\ UNCHANGED <<tree, portable, dpc, dirOffset, steady, left>>

\* What is saved is where the last record returned ended.  Faulty: where the
\* stream was, a record that did not fit later.
WhereItWas == IF Filled = {} THEN latest ELSE Min(Filled)
Saved == latest

\* No more records, or none that fits: with nothing written, EINVAL, and the
\* saved offset stays though the host's has moved.
GetdentsEnds ==
  /\ dpc = "reading" /\ ~Fits
  /\ hostOffset' = HostAfter
  /\ IF ~wrote /\ Filled # {}
     THEN Returned("failed") /\ UNCHANGED <<dirOffset, left>>
     ELSE /\ Returned(IF ~wrote THEN "ended" ELSE "idle")
          /\ dirOffset' = Saved /\ left' = (left \/ Filled # {})
  /\ UNCHANGED <<tree, portable, scanned, steady>>

\* readdir fails when it has to read: the call fails too if it has returned
\* nothing yet, and otherwise returns what it has, as at the end.
ReadFails ==
  /\ dpc = "reading" /\ stream = {}
  /\ IF wrote THEN Returned("idle") /\ dirOffset' = Saved
     ELSE Returned("failed") /\ UNCHANGED dirOffset
  /\ UNCHANGED <<tree, portable, hostOffset, scanned, steady, left>>

---------------------------------------------------------------------------
(* namei                                                                   *)

\* stat follows links, so that unlink refuses a link to a directory and rmdir
\* has the host refuse it.
Allows(todo) ==
  CASE todo.does \in {"mkdir", "readlink"} -> todo.to = todo.at
    [] todo.does = "rmdir" -> todo.to = todo.at /\ kinds[todo.at] \in {"dir", "link"}
    [] todo.does = "unlink" -> todo.to = todo.at /\ kinds[todo.at] \notin {"dir", "link"}
    [] todo.does = "link" -> kinds[todo.at] = "file" /\ kinds[todo.to] = "none"
    [] todo.does = "symlink" -> todo.to = todo.at /\ kinds[todo.at] = "none"

BeginsCall(m, todo) ==
  /\ moving[m] = NotMoving /\ Allows(todo)
  /\ moving' = [moving EXCEPT ![m] = todo] /\ UNCHANGED kinds

\* What the host makes of the path the call names, or leaves as it is.
Becomes(todo) ==
  CASE todo.does = "mkdir" /\ kinds[todo.at] = "none" -> "dir"
    [] todo.does = "rmdir" /\ kinds[todo.at] = "dir" -> "none"
    [] todo.does = "unlink" /\ kinds[todo.at] \in {"file", "link"} -> "none"
    [] todo.does = "symlink" /\ kinds[todo.at] = "none" -> "link"
    [] todo.does = "link" /\ kinds[todo.at] = "file" /\ kinds[todo.to] = "none" -> "file"
    [] OTHER -> kinds[todo.to]

EndsCall(m) ==
  /\ moving[m] # NotMoving /\ moving' = [moving EXCEPT ![m] = NotMoving]
  /\ kinds' = [kinds EXCEPT ![moving[m].to] = Becomes(moving[m])]

NameiCalls == {"mkdir", "rmdir", "unlink", "link", "symlink", "readlink"}
Moves ==
  /\ \E m \in Movers :
       \/ EndsCall(m)
       \/ \E op \in NameiCalls, at \in DirSlots, to \in DirSlots :
            BeginsCall(m, [does |-> op, at |-> at, to |-> to])
  /\ steady' = steady \cap {s \in DirSlots : kinds'[s] # "none"}
  /\ UNCHANGED <<portable, dpc, room, dirOffset, hostOffset, stream, latest, wrote, scanned, left>>

DirsNext ==
  \/ OpensDir \/ Rewinds \/ OneRecord \/ GetdentsEnds \/ ReadFails \/ Moves
  \/ \E size \in 1 .. MaxCount : ixland_getdents64(size)

DirsSpec == DirsInit /\ [][DirsNext]_dirVars

---------------------------------------------------------------------------

\* However the buffer splits it and whatever is made and removed meanwhile, a
\* scan returns no name twice, and when it has ended it has returned all that were
\* there throughout; on a host whose offsets are private to a stream, if no call
\* left a record in its own.
DentsOnce ==
  /\ \A i, j \in DOMAIN scanned : i < j => scanned[i] < scanned[j]
  /\ dpc = "ended" /\ (portable \/ ~left) => \A s \in steady : \E i \in DOMAIN scanned : scanned[i] = s
=============================================================================
