------------------------------- MODULE Files --------------------------------
(***************************************************************************)
(* IXLandSystem/fs/fdtable.c, first half: the descriptor tables of tasks   *)
(* (ixland_files_t) and the counted files they point to (ixland_file_t).   *)
(*                                                                         *)
(* A table has a lock; a file's count is atomic.  Files are shared between *)
(* tables by fork, and with threads that hold one by ixland_file_alloc or  *)
(* ixland_fd_lookup.                                                       *)
(***************************************************************************)
EXTENDS Integers, FiniteSets

CONSTANTS
  Tables,      \* the files tables, one per task
  FirstTable,  \* init's
  Users,       \* threads; each holds at most one file besides the tables
  FileObjs,    \* ixland_file_t blocks
  MaxFds,      \* size of a table
  NoFile

ASSUME FilesAssumption ==
  /\ FirstTable \in Tables
  /\ MaxFds \in Nat
  /\ NoFile \notin FileObjs
  /\ IsFiniteSet(Tables) /\ IsFiniteSet(Users)

VARIABLES
  tables,     \* tables that are allocated
  slot,       \* files->fd[]
  frefs,      \* file->refs, 0 for a block that is free
  hold        \* the file a thread has in its hand

fileVars == <<tables, slot, frefs, hold>>

Slots == 0 .. MaxFds - 1
Empty == [i \in Slots |-> NoFile]

FilesInit ==
  /\ tables = {FirstTable}
  /\ slot = [t \in Tables |-> Empty]
  /\ frefs = [f \in FileObjs |-> 0]
  /\ hold = [u \in Users |-> NoFile]

\* The slots of table s that hold f, and all places that refer to f.
SlotsWith(s, f) == {i \in Slots : s[i] = f}
SlotsOf(f) == {p \in Tables \X Slots : slot[p[1]][p[2]] = f}
HoldersOf(f) == {u \in Users : hold[u] = f}

---------------------------------------------------------------------------
(* Files                                                                   *)

ixland_file_alloc(u, f) ==
  /\ hold[u] = NoFile /\ frefs[f] = 0
  /\ hold' = [hold EXCEPT ![u] = f]
  /\ frefs' = [frefs EXCEPT ![f] = 1]
  /\ UNCHANGED <<tables, slot>>

ixland_file_free(u) ==
  /\ hold[u] # NoFile
  /\ frefs' = [frefs EXCEPT ![hold[u]] = @ - 1]
  /\ hold' = [hold EXCEPT ![u] = NoFile]
  /\ UNCHANGED <<tables, slot>>

---------------------------------------------------------------------------
(* Descriptors, under files->lock                                          *)

\* The first free slot, if any.
FirstFree(s, i) == s[i] = NoFile /\ \A j \in Slots : s[j] = NoFile => i <= j

ixland_fd_alloc(u, t) ==
  /\ t \in tables /\ hold[u] # NoFile
  /\ \E i \in Slots :
       /\ FirstFree(slot[t], i)
       /\ slot' = [slot EXCEPT ![t] = [@ EXCEPT ![i] = hold[u]]]
  /\ frefs' = [frefs EXCEPT ![hold[u]] = @ + 1]
  /\ UNCHANGED <<tables, hold>>

ixland_fd_free(t, i) ==
  /\ t \in tables /\ slot[t][i] # NoFile
  /\ slot' = [slot EXCEPT ![t] = [@ EXCEPT ![i] = NoFile]]
  /\ frefs' = [frefs EXCEPT ![slot[t][i]] = @ - 1]
  /\ UNCHANGED <<tables, hold>>

\* Faulty: what was found is not counted.
FoundOnly(f) == frefs
FoundAndCounted(f) == [frefs EXCEPT ![f] = @ + 1]

ixland_fd_lookup(u, t, i) ==
  /\ t \in tables /\ hold[u] = NoFile /\ slot[t][i] # NoFile
  /\ hold' = [hold EXCEPT ![u] = slot[t][i]]
  /\ frefs' = FoundAndCounted(slot[t][i])
  /\ UNCHANGED <<tables, slot>>

---------------------------------------------------------------------------
(* Whole tables: fork copies one, the last ixland_task_free frees one.     *)

ixland_files_dup(parent, child) ==
  /\ parent \in tables /\ child \notin tables
  /\ tables' = tables \cup {child}
  /\ slot' = [slot EXCEPT ![child] = slot[parent]]
  /\ frefs' = [f \in FileObjs |-> frefs[f] + Cardinality(SlotsWith(slot[parent], f))]
  /\ UNCHANGED hold

\* Every slot of t whose file is in S gives it up.
Released(t, S) ==
  /\ slot' = [slot EXCEPT ![t] = [i \in Slots |-> IF slot[t][i] \in S THEN NoFile ELSE slot[t][i]]]
  /\ frefs' = [f \in FileObjs |->
                 IF f \in S THEN frefs[f] - Cardinality(SlotsWith(slot[t], f)) ELSE frefs[f]]

ixland_files_free(t) ==
  /\ t \in tables
  /\ Released(t, FileObjs)
  /\ tables' = tables \ {t}
  /\ UNCHANGED hold

FilesNext ==
  \/ \E u \in Users :
       \/ ixland_file_free(u)
       \/ \E f \in FileObjs : ixland_file_alloc(u, f)
       \/ \E t \in Tables :
            ixland_fd_alloc(u, t) \/ \E i \in Slots : ixland_fd_lookup(u, t, i)
  \/ \E t \in Tables :
       \/ ixland_files_free(t)
       \/ \E i \in Slots : ixland_fd_free(t, i)
       \/ \E c \in Tables : ixland_files_dup(t, c)

FilesSpec == FilesInit /\ [][FilesNext]_fileVars

---------------------------------------------------------------------------
\* Every variable keeps its type; counts do not go below zero.
FilesTypeOK ==
  /\ tables \subseteq Tables
  /\ slot \in [Tables -> [Slots -> FileObjs \cup {NoFile}]]
  /\ frefs \in [FileObjs -> Nat]
  /\ hold \in [Users -> FileObjs \cup {NoFile}]

\* A file's count is the number of slots and threads that refer to it, through
\* fork, close, exec and lookups at once: it is freed with the last of them
\* (count 0 frees the block) and never before.
FileRefsExact ==
  \A f \in FileObjs : frefs[f] = Cardinality(SlotsOf(f)) + Cardinality(HoldersOf(f))
=============================================================================
