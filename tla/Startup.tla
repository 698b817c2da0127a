------------------------------ MODULE Startup -------------------------------
(***************************************************************************)
(* IXLandSystem/kernel/init.c and the init task of kernel/task.c.          *)
(*                                                                         *)
(* The constructor, ixland_init and getpid may all be the first to call;   *)
(* the library is guarded by a flag and a mutex, the init task by          *)
(* pthread_once, which a failure does not undo.  The destructor takes no   *)
(* lock: it is modelled when no other call is under way.                   *)
(***************************************************************************)
EXTENDS Integers

CONSTANTS Starters       \* threads that call the library

VARIABLES
  upc,                   \* where a thread stands
  initialized,           \* ixland_initialized
  init_lock,             \* holders of ixland_init_lock
  once,                  \* pthread_once: "new", "busy" or "done"
  init_task,             \* "none" or "live"
  vfs                    \* calls of ixland_vfs_init not undone, capped at 2

shared == <<initialized, init_lock, once, init_task, vfs>>
startVars == <<upc, shared>>

StartInit ==
  /\ upc = [t \in Starters |-> "idle"]
  /\ initialized = FALSE
  /\ init_lock = {}
  /\ once = "new"
  /\ init_task = "none"
  /\ vfs = 0

To(t, from, to) == upc[t] = from /\ upc' = [upc EXCEPT ![t] = to]

---------------------------------------------------------------------------
(* ixland_library_init, also from ixland_init                              *)

LibraryTests(t) ==
  /\ ~initialized /\ To(t, "idle", "lock")
  /\ UNCHANGED shared

LibraryLocks(t) ==
  /\ init_lock = {} /\ To(t, "lock", "check")
  /\ init_lock' = {t}
  /\ UNCHANGED <<initialized, once, init_task, vfs>>

\* Faulty: the flag is not read again under the mutex.
NotAgain == FALSE
AlreadyUp == initialized

LibraryChecksAgain(t) ==
  /\ To(t, "check", IF AlreadyUp THEN "unlock" ELSE "vfs")
  /\ UNCHANGED shared

ixland_vfs_init(t) ==
  /\ To(t, "vfs", "once")
  /\ vfs' = IF vfs < 2 THEN vfs + 1 ELSE 2
  /\ UNCHANGED <<initialized, init_lock, once, init_task>>

LibrarySetsFlag(t) ==
  /\ To(t, "tasked", "unlock")
  /\ initialized' = (initialized \/ init_task = "live")
  /\ UNCHANGED <<init_lock, once, init_task, vfs>>

LibraryUnlocks(t) ==
  /\ To(t, "unlock", "idle")
  /\ init_lock' = {}
  /\ UNCHANGED <<initialized, once, init_task, vfs>>

---------------------------------------------------------------------------
(* ixland_task_init, from there or from getpid; the second caller waits.   *)

GetpidCalls(t) ==
  /\ To(t, "idle", "getpid")
  /\ UNCHANGED shared

OnceBegins(t) ==
  /\ once = "new"
  /\ To(t, "once", "making") \/ To(t, "getpid", "making too")
  /\ once' = "busy"
  /\ UNCHANGED <<initialized, init_lock, init_task, vfs>>

\* The task, its files, fs and handlers: whichever fails, all of it is freed.
OnceEnds(t) ==
  /\ To(t, "making", "tasked") \/ To(t, "making too", "idle")
  /\ once' = "done"
  /\ init_task' \in {"live", "none"}
  /\ UNCHANGED <<initialized, init_lock, vfs>>

OncePasses(t) ==
  /\ once = "done"
  /\ To(t, "once", "tasked") \/ To(t, "getpid", "idle")
  /\ UNCHANGED shared

---------------------------------------------------------------------------
(* ixland_library_deinit                                                   *)

DeinitTask(t) ==
  /\ initialized /\ \A u \in Starters : upc[u] = "idle"
  /\ To(t, "idle", "down")
  /\ init_task' = "none"
  /\ UNCHANGED <<initialized, init_lock, once, vfs>>

DeinitFlag(t) ==
  /\ To(t, "down", "idle")
  /\ vfs' = 0 /\ initialized' = FALSE
  /\ UNCHANGED <<init_lock, once, init_task>>

Deiniting == \E t \in Starters : upc[t] = "down"

StartNext ==
  \E t \in Starters :
    \/ DeinitFlag(t)
    \/ ~Deiniting /\
       ( \/ LibraryTests(t) \/ LibraryLocks(t) \/ LibraryChecksAgain(t)
         \/ ixland_vfs_init(t) \/ LibrarySetsFlag(t) \/ LibraryUnlocks(t)
         \/ GetpidCalls(t) \/ OnceBegins(t) \/ OnceEnds(t) \/ OncePasses(t)
         \/ DeinitTask(t) )

StartSpec == StartInit /\ [][StartNext]_startVars

---------------------------------------------------------------------------
\* Whoever sees the library initialized finds its init task and a file system
\* that was initialized exactly once, however many threads came first, and
\* although getpid makes the init task without the library's mutex.
StartedIsWhole ==
  initialized /\ ~Deiniting => init_task = "live" /\ vfs = 1
=============================================================================
