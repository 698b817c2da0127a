------------------------------ MODULE FdTable ------------------------------
(***************************************************************************)
(* IXLandSystem/fs/: the table of descriptors in fdtable.c and the calls   *)
(* that go through it in open.c, read_write.c and fcntl.c.  Every call on  *)
(* a descriptor looks its entry up under ixland_fd_table_lock and takes    *)
(* the entry's mutex before it lets go of that lock; the entry's mutex     *)
(* stays locked across the host call.  close lets go of the entry before   *)
(* it closes the host's descriptor, and frees the entry after that.        *)
(*                                                                         *)
(* The host is external: it hands out any free number, and its descriptors *)
(* keep the file positions.  Calls on 0, 1 and 2 go straight to the host   *)
(* and leave the table alone; Fds are the others.  Not here: flags, modes  *)
(* and paths of entries, and positions that O_APPEND moves.                *)
(*                                                                         *)
(* `ub' turns TRUE when a locked mutex is destroyed or overwritten, or one *)
(* is used that was destroyed: the model goes no further then.             *)
(***************************************************************************)
EXTENDS Integers, FiniteSets, FiniteSetsExt

CONSTANTS
  Threads,
  Fds,      \* descriptors above STDERR_FILENO, below IXLAND_MAX_FD
  Hosts,    \* descriptors of the host
  Files,    \* open files of the host
  None,     \* no file, no thread, -1
  MaxPos    \* bound: positions of files and offsets of entries

ASSUME FdTableAssumption ==
  /\ Fds \subseteq Nat \ {0, 1, 2}
  /\ MaxPos \in Nat
  /\ None \notin Threads \cup Fds \cup Hosts \cup Files

VARIABLES
  used, real, offset, elock,   \* entry->used, ->fd, ->offset, ->lock
  tlock,                       \* ixland_fd_table_lock
  host,                        \* the file each host descriptor denotes
  pos,                         \* the position of each file
  pc,                          \* where each thread stands
  op, fd, new,                 \* its call and the arguments
  reg,                         \* the host descriptor or position it works with
  ub                           \* an undefined step was taken

entries == <<used, real, offset>>
locks == <<elock, tlock>>
outside == <<host, pos>>
args == <<op, fd, new>>
vars == <<entries, locks, outside, pc, args, reg, ub>>

Init ==
  /\ used = [f \in Fds |-> FALSE]
  /\ real = [f \in Fds |-> None]
  /\ offset = [f \in Fds |-> 0]
  /\ elock = [f \in Fds |-> None]
  /\ tlock = None
  /\ host = [h \in Hosts |-> None]
  /\ pos = [f \in Files |-> 0]
  /\ pc = [th \in Threads |-> "idle"]
  /\ op = [th \in Threads |-> "none"]
  /\ fd = [th \in Threads |-> None]
  /\ new = [th \in Threads |-> None]
  /\ reg = [th \in Threads |-> None]
  /\ ub = FALSE

-----------------------------------------------------------------------------
At(th, label) == ~ub /\ pc[th] = label
Goto(th, label) == pc' = [pc EXCEPT ![th] = label] /\ UNCHANGED args

Call(th, label, o, f, g) ==
  /\ pc' = [pc EXCEPT ![th] = label]
  /\ op' = [op EXCEPT ![th] = o]
  /\ fd' = [fd EXCEPT ![th] = f]
  /\ new' = [new EXCEPT ![th] = g]

Return(th) ==
  /\ Call(th, "idle", "none", None, None)
  /\ reg' = [reg EXCEPT ![th] = None]

Lock(f, th) == elock' = [elock EXCEPT ![f] = th]
Unlock(f) == Lock(f, None)

\* The file behind host descriptor h, None if h is not open.
FileOf(h) == IF h \in Hosts THEN host[h] ELSE None

\* Faulty: the entry stays in the table.
StaysUsed(f) == used
Clears(f) == [used EXCEPT ![f] = FALSE]

(* __ixland_free_fd_impl, for a descriptor that may be free already.       *)
Freed(f) ==
  /\ tlock = None
  /\ used' = Clears(f)
  /\ real' = [real EXCEPT ![f] = None]
  /\ offset' = [offset EXCEPT ![f] = 0]
  /\ ub' = (used[f] /\ elock[f] # None)
  /\ UNCHANGED <<locks, outside>>

-----------------------------------------------------------------------------
(* __ixland_open_impl: the entry is used from here on, with no host        *)
(* descriptor yet.                                                         *)
Unused == {f \in Fds : ~used[f]}

\* Faulty: a second opener does not see the entry taken.
LeavesUnused(f) == used
Takes(f) == [used EXCEPT ![f] = TRUE]

OpenAlloc(th) ==
  /\ At(th, "idle") /\ tlock = None /\ Unused # {}
  /\ LET f == Min(Unused)
     IN  /\ used' = Takes(f)
         /\ real' = [real EXCEPT ![f] = None]
         /\ offset' = [offset EXCEPT ![f] = 0]
         /\ Unlock(f)
         /\ Call(th, "open_host", "open", f, None)
  /\ UNCHANGED <<tlock, outside, reg, ub>>

OpenHost(th) ==
  /\ At(th, "open_host")
  /\ \E h \in Hosts, f \in Files :
       /\ host[h] = None /\ \A i \in Hosts : host[i] # f
       /\ host' = [host EXCEPT ![h] = f]
       /\ pos' = [pos EXCEPT ![f] = 0]
       /\ reg' = [reg EXCEPT ![th] = h]
  /\ Goto(th, "open_init")
  /\ UNCHANGED <<entries, locks, ub>>

OpenFails(th) ==
  /\ At(th, "open_host")
  /\ Goto(th, "open_undo")
  /\ UNCHANGED <<entries, locks, outside, reg, ub>>

OpenUndo(th) ==
  /\ At(th, "open_undo")
  /\ Freed(fd[th])
  /\ Return(th)

OpenInit(th) ==
  /\ At(th, "open_init") /\ elock[fd[th]] = None
  /\ real' = [real EXCEPT ![fd[th]] = reg[th]]
  /\ offset' = [offset EXCEPT ![fd[th]] = 0]
  /\ ub' = ~used[fd[th]]
  /\ Return(th)
  /\ UNCHANGED <<used, locks, outside>>

-----------------------------------------------------------------------------
(* __ixland_get_fd_entry_impl up to the entry's mutex: the table is locked *)
(* and f is used.  Nothing changes for a descriptor that is not.           *)
Begin(th, o, f, g) ==
  /\ At(th, "idle") /\ tlock = None /\ used[f]
  /\ tlock' = th
  /\ Call(th, "get", o, f, g)
  /\ UNCHANGED <<entries, elock, outside, reg, ub>>

(* The rest of it: the entry is locked, then the table is unlocked.        *)
Gets(th, f) ==
  /\ elock[f] = None
  /\ Lock(f, th)
  /\ tlock' = None

(* read, write, lseek, pread, pwrite, fstat, ioctl, fcntl and dup: the     *)
(* host call moves the file's position, or does not.                       *)
\* Faulty: the entry is let go before the host call.
GetsAndPuts(th, f) == elock[f] = None /\ tlock' = None /\ UNCHANGED elock
GetsForIo(th, f) == Gets(th, f)

IoGet(th) ==
  /\ At(th, "get") /\ op[th] = "io"
  /\ GetsForIo(th, fd[th])
  /\ Goto(th, "io")
  /\ UNCHANGED <<entries, outside, reg, ub>>

File(th) == FileOf(real[fd[th]])

\* n bytes are read or written; 0 stands for calls that move nothing too.
HostMove(th) ==
  /\ At(th, "io")
  /\ \E n \in 0 .. MaxPos :
       /\ n # 0 => /\ File(th) # None
                   /\ pos[File(th)] + n <= MaxPos /\ offset[fd[th]] + n <= MaxPos
       /\ pos' = IF n = 0 THEN pos ELSE [pos EXCEPT ![File(th)] = @ + n]
       /\ reg' = [reg EXCEPT ![th] = n]
  /\ Goto(th, "io_add")
  /\ UNCHANGED <<entries, locks, host, ub>>

HostSeek(th) ==
  /\ At(th, "io") /\ File(th) # None
  /\ \E p \in 0 .. MaxPos :
       /\ pos' = [pos EXCEPT ![File(th)] = p]
       /\ reg' = [reg EXCEPT ![th] = p]
  /\ Goto(th, "io_set")
  /\ UNCHANGED <<entries, locks, host, ub>>

IoDone(th) ==
  /\ \/ At(th, "io_add") /\ offset' = [offset EXCEPT ![fd[th]] = @ + reg[th]]
     \/ At(th, "io_set") /\ offset' = [offset EXCEPT ![fd[th]] = reg[th]]
  /\ Unlock(fd[th])
  /\ Return(th)
  /\ UNCHANGED <<used, real, tlock, outside, ub>>

-----------------------------------------------------------------------------
(* __ixland_close_impl, called by programs and by dup2 for newfd.          *)
Closee(th) == IF op[th] = "dup2" THEN new[th] ELSE fd[th]

CloseGet(th) ==
  /\ \/ At(th, "get") /\ op[th] = "close"
     \/ At(th, "dup_close_get")
  /\ elock[Closee(th)] = None
  /\ tlock' = None
  /\ reg' = [reg EXCEPT ![th] = real[Closee(th)]]
  /\ Goto(th, "close_host")
  /\ UNCHANGED <<entries, elock, outside, ub>>

CloseHost(th) ==
  /\ At(th, "close_host")
  /\ host' = [h \in Hosts |-> IF h = reg[th] THEN None ELSE host[h]]
  /\ Goto(th, "close_free")
  /\ UNCHANGED <<entries, locks, pos, reg, ub>>

CloseFree(th) ==
  /\ At(th, "close_free")
  /\ Freed(Closee(th))
  /\ IF op[th] = "dup2"
     THEN Goto(th, "dup_clone") /\ reg' = [reg EXCEPT ![th] = None]
     ELSE Return(th)

-----------------------------------------------------------------------------
(* __ixland_dup2_impl of fd onto new, with the entry of fd locked all the  *)
(* way: new is looked up, let go, closed and overwritten.                  *)
DupGet(th) ==
  /\ At(th, "get") /\ op[th] = "dup2"
  /\ Gets(th, fd[th])
  /\ Goto(th, "dup_new")
  /\ UNCHANGED <<entries, outside, reg, ub>>

\* Faulty: newfd is not closed first.
JustClones(f) == FALSE
MustClose(f) == used[f]

\* The table is locked to look new up, for dup2 and then for close.
DupLookup(th) ==
  /\ tlock = None
  /\ \/ At(th, "dup_new") /\ MustClose(new[th]) /\ Goto(th, "dup_get_new")
     \/ At(th, "dup_close") /\ used[new[th]] /\ Goto(th, "dup_close_get")
  /\ tlock' = th
  /\ UNCHANGED <<entries, elock, outside, reg, ub>>

DupNotOpen(th) ==
  /\ tlock = None
  /\ \/ At(th, "dup_new") /\ ~MustClose(new[th])
     \/ At(th, "dup_close") /\ ~used[new[th]]
  /\ Goto(th, "dup_clone")
  /\ UNCHANGED <<entries, locks, outside, reg, ub>>

DupPutNew(th) ==
  /\ At(th, "dup_get_new") /\ elock[new[th]] = None
  /\ tlock' = None
  /\ Goto(th, "dup_close")
  /\ UNCHANGED <<entries, elock, outside, reg, ub>>

\* Faulty: the copy is made without the lock of the entry copied.
KeepsOld(th) == [elock EXCEPT ![new[th]] = None]
UnlocksOld(th) == [elock EXCEPT ![new[th]] = None, ![fd[th]] = None]

DupClone(th) ==
  /\ At(th, "dup_clone") /\ tlock = None
  /\ used' = [used EXCEPT ![new[th]] = used[fd[th]]]
  /\ real' = [real EXCEPT ![new[th]] = real[fd[th]]]
  /\ offset' = [offset EXCEPT ![new[th]] = offset[fd[th]]]
  /\ elock' = UnlocksOld(th)
  /\ ub' = (used[new[th]] /\ elock[new[th]] # None)
  /\ Return(th)
  /\ UNCHANGED <<tlock, outside>>

-----------------------------------------------------------------------------
Inside(th) ==
  \/ OpenHost(th)
  \/ OpenFails(th)
  \/ OpenUndo(th)
  \/ OpenInit(th)
  \/ IoGet(th)
  \/ HostMove(th)
  \/ HostSeek(th)
  \/ IoDone(th)
  \/ CloseGet(th)
  \/ CloseHost(th)
  \/ CloseFree(th)
  \/ DupGet(th)
  \/ DupLookup(th)
  \/ DupNotOpen(th)
  \/ DupPutNew(th)
  \/ DupClone(th)

Calls(th) ==
  \/ OpenAlloc(th)
  \/ \E f \in Fds : \E o \in {"io", "close"} : Begin(th, o, f, None)
  \/ \E f \in Fds : \E g \in Fds \ {f} : Begin(th, "dup2", f, g)

Next == \E th \in Threads : Inside(th) \/ Calls(th)

Spec == Init /\ [][Next]_vars

(***************************************************************************)
(* What a program has to keep to, in this code, for its descriptors to     *)
(* mean anything: nothing else uses a descriptor while it is closed or is  *)
(* an argument of dup2, nothing is opened during dup2, and a descriptor    *)
(* is not closed as long as it has a copy.                                 *)
(***************************************************************************)
Uses(th) == {fd[th], new[th]} \ {None}

Apart ==
  \A th, u \in Threads : th # u =>
    /\ Uses(th) \cap Uses(u) # {} => op[th] = "io" /\ op[u] = "io"
    /\ op[th] = "dup2" => op[u] # "open"

Closes(o, f, g) == CASE o = "close" -> {f} [] o = "dup2" -> {g} [] OTHER -> {}

KeepsCopies ==
  \A th \in Threads : pc[th] = "idle" =>
    \A f \in Closes(op[th]', fd[th]', new[th]') : \A g \in Fds \ {f} :
      used[f] /\ used[g] => real[f] # real[g]

CarefulNext == Next /\ Apart' /\ KeepsCopies

(* Threads run, host calls return, and a thread that waits for a mutex     *)
(* that is let go again and again gets it in the end.                      *)
CarefulSpec ==
  Init /\ [][CarefulNext]_vars /\ \A th \in Threads : SF_vars(Inside(th))

-----------------------------------------------------------------------------
Labels ==
  {"idle", "open_host", "open_init", "open_undo", "get", "io", "io_add", "io_set",
   "close_host", "close_free", "dup_new", "dup_get_new", "dup_close",
   "dup_close_get", "dup_clone"}

TypeOK ==
  /\ used \in [Fds -> BOOLEAN]
  /\ real \in [Fds -> Hosts \cup {None}]
  /\ offset \in [Fds -> 0 .. MaxPos]
  /\ elock \in [Fds -> Threads \cup {None}]
  /\ tlock \in Threads \cup {None}
  /\ host \in [Hosts -> Files \cup {None}]
  /\ pos \in [Files -> 0 .. MaxPos]
  /\ pc \in [Threads -> Labels]
  /\ op \in [Threads -> {"none", "open", "io", "close", "dup2"}]
  /\ fd \in [Threads -> Fds \cup {None}]
  /\ new \in [Threads -> Fds \cup {None}]
  /\ reg \in [Threads -> Hosts \cup {None} \cup 0 .. MaxPos]
  /\ ub \in BOOLEAN

(* No mutex is destroyed, overwritten or used after its end while calls    *)
(* are under way: entries are reused only when nobody is left in them.     *)
NothingUndefined == ~ub

(* Nothing is lost, whether open succeeds or fails: a host descriptor that *)
(* is open is in the table or about to be put there, and a used entry has  *)
(* one or is just being filled or freed.                                   *)
NoLeak ==
  /\ \A h \in Hosts : host[h] # None =>
       \/ \E f \in Fds : used[f] /\ real[f] = h
       \/ \E th \in Threads : pc[th] = "open_init" /\ reg[th] = h
  /\ \A f \in Fds : used[f] =>
       \/ FileOf(real[f]) # None
       \/ \E th \in Threads : op[th] = "open" /\ fd[th] = f
       \/ \E th \in Threads : pc[th] = "close_free" /\ Closee(th) = f

(* The offset an entry records is the position of its file whenever no     *)
(* call is under way on it, unless copies of it share that file.           *)
OffsetTracksFile ==
  \A f \in Fds : LET h == real[f] IN
    /\ FileOf(h) # None
    /\ \A th \in Threads : f \notin Uses(th) \/ pc[th] = "get"
    /\ \A g \in Fds \ {f} : real[g] # h
    => offset[f] = pos[FileOf(h)]

(* The table implements FileTable: a descriptor is open from the end of    *)
(* open to the host's close, even if the host reuses the number before the *)
(* entry is freed.                                                         *)
Denotes(f) ==
  IF used[f] /\ \A th \in Threads : pc[th] = "close_free" => Closee(th) # f
  THEN FileOf(real[f])
  ELSE None

Table == INSTANCE FileTable WITH
  table <- [f \in Fds |-> Denotes(f)],
  pos <- [x \in Files |-> IF \E f \in Fds : Denotes(f) = x THEN pos[x] ELSE 0]
TableSpec == Table!Spec

(* Every call comes to its end: nobody waits for a mutex for ever.         *)
CallsReturn == \A th \in Threads : pc[th] # "idle" ~> pc[th] = "idle"

-----------------------------------------------------------------------------
\* The thread that th waits for, th itself if it can go on.
WaitsFor(th) ==
  LET holder ==
        CASE pc[th] = "get" -> elock[fd[th]]
          [] pc[th] \in {"dup_get_new", "dup_close_get"} -> elock[new[th]]
          [] pc[th] \in {"dup_new", "dup_close", "dup_clone", "close_free", "open_undo"} -> tlock
          [] OTHER -> None
  IN  IF holder = None THEN th ELSE holder

(* IXLAND_ARCHITECTURAL_ANALYSIS.md:389 -- a lock is held briefly, never   *)
(* across blocking operations: no two threads wait for each other.         *)
NoLockCycle ==
  \A th, u \in Threads : th # u => ~(WaitsFor(th) = u /\ WaitsFor(u) = th)
=============================================================================
