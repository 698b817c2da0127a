# ixland: models and proofs

ixland runs a small Unix inside one iOS process: tasks are threads, and
`IXLandSystem` answers their system calls from tables of its own. This directory
holds TLA+ modules translated from that code, TLC configurations that check them
on small instances, and TLAPS proofs. Paths below are relative to
`src/IXLandSystem/`.

## 1. The system

| Component | Code | State | Operations | What makes it correct |
|---|---|---|---|---|
| PID allocator | `kernel/pid.c` | free list, its length, `pid_initialized`, one mutex | lazy init, `ixland_alloc_pid`, `ixland_free_pid` | no PID lost, none handed out twice, refusal only when all are taken |
| Task table | `kernel/task.c`, collection loop of `kernel/signal.c` | hash table under `task_table_lock`, `refs` of each task | alloc, lookup, free, killpg's collection | counts exact, nothing dangles, a PID leads to one task |
| Process tree | `kernel/fork.c`, `exit.c`, `wait.c`, delivery in `signal.c` | parent, list of children, flags, status; a mutex and a condition variable per task | fork, waitpid, exit, kill, killpg | no child lost or reaped twice, orphans go to init, no waiter sleeps through its child's end |
| vfork, hand-over | `kernel/fork.c` | `fork_ctx_t` on the parent's stack, thread-local vfork context | start of the child, release of the parent | the parent resumes once, and its context outlives the child's use of it |
| Groups and sessions | `kernel/task.c`, killpg in `signal.c` | pgid, sid | setpgid, setsid, inheritance by fork | a group lies in one session; killpg reaches who stays in the group |
| Signal masks and waiting | `kernel/signal.c` | pending, blocked, waiters, the alarm | sigprocmask, pause, sigsuspend, alarm | a pending signal ends a pause; sleepers are counted |
| Descriptor table | `fs/fdtable.c`, `open.c`, `read_write.c`, `fcntl.c` | 256 entries with a mutex each, one table mutex, the host's descriptors | open, close, read, write, lseek, dup2, fcntl | a descriptor denotes the file it was opened for, until close |
| Task file table | `fs/fdtable.c` (`ixland_files_t`) | file pointers with counts | alloc, free, lookup, dup, close on exec | counts exact across fork and exec |
| exec | `fs/exec.c`, `runtime/native/registry.c` | image of a task, command registry | exec of native commands, scripts, wasm | nothing irreversible before the last possible failure |
| epoll | `fs/eventpoll.c` | items, the knotes of a kqueue | create, ctl, wait | no event for a removed item, none missed |
| poll, select | `fs/select.c` | a kqueue per call, the thread's mask | poll, ppoll, select, pselect | what is ready is reported, the mask comes back |
| Paths | `fs/path.c` | none | normalization, classification, translation | `.` and `..` stay under the root, the two generations agree |
| Directories, names | `fs/readdir.c`, `namei.c` | the offset of an entry, the host's offset, a stream per call | getdents, mkdir, rmdir, unlink, link, symlink | no name twice, none that stays is missed |
| Sockets | `kernel/net/network.c` | socket entries, connection state | socket, connect, listen, send, receive, shutdown | a connection belongs to one entry, and a late answer does no harm |
| Start and stop | `kernel/init.c` | a flag and a mutex, `pthread_once` | constructor, `ixland_init`, deinit | initialized once, and whole |
| Option parsing | `getopt.c`, `getopt_long.c` | argv, optind, the block of operands | getopt, getopt_long | words are permuted, none lost or moved across another of its kind |
| ssh command | `ssh_main.c` | session, channel, terminal and socket modes | one run, from arguments to exit code | modes restored, nothing freed twice |
| User database | `IXLandLibC/src/usersdb` | static records, two positions | lookups, iteration | records whole and strings apart |
| WebAssembly | `IXLandWasm/ixland-wasm-engine/wamr` | WAMR objects, a WASI descriptor table | load, call, unload; path_open, fd_read, fd_write, fd_close | each object owned once, through every failure |

Interactions: fork takes a PID and enters the task table; a waiter that reaps and
a fork that fails give up the creation reference, which frees task and PID; kill
and killpg find tasks in the table, change flags under the task's mutex and wake
the task and its parent; exit hands children to init under three kinds of mutex.
dup2 calls close. Threads share all of this; nothing is persistent, so there is
no recovery, and what fails is `calloc`, `pthread_create` and host calls.

What is hard: mutexes of several tasks held at once in different orders; fields
read after or before their mutex; condition variables signalled after a decision
made elsewhere; reference counts decremented outside the table's lock; teardown
and dup2 in several critical sections. `PROJECT.json` lists each at its line with
the property that covers it or the reason why none does yet.

## 2. Modules

| Module | Models |
|---|---|
| `PidPool` | abstract: a set of PIDs that are handed out and given back |
| `PidAllocator` | `pid.c`: the free list, and the test of `pid_initialized` before the mutex |
| `PidAllocatorProofs` | its inductive invariant and the refinement of `PidPool` |
| `TaskTable` | `task.c`: allocation, lookup, the count, the three steps of the teardown |
| `TaskTableProofs` | its inductive invariant |
| `ProcessLife` | abstract: each task's phase and who has to reap it |
| `ProcessTree` | `fork.c`, `exit.c`, `wait.c`, delivery in `signal.c` |
| `ProcessTreeProperties` | the invariants and the refinement of `ProcessLife` |
| `ProcessTreeProofs` | its inductive invariants and the refinement of `ProcessLife` |
| `FileTable` | abstract: descriptors that denote files with a position |
| `FdTable` | the descriptor table and the calls that go through it |
| `FdTableProofs` | its inductive invariant and the refinement of `FileTable`, for careful programs |
| `Files` | `ixland_files_t`: tables of counted files |
| `Exec` | extends `Files`: execve's steps, and the registry of commands |
| `Handover`, `Vfork` | the two halves of `fork.c` that share a context between threads |
| `Signals` | masks, pending sets, pause, sigsuspend, alarm |
| `JobControl` | setpgid, setsid, inheritance, killpg's search |
| `Startup` | `init.c` and the init task |
| `TaskServicesProofs` | the inductive invariants of `Signals`, `JobControl`, `Startup`, `Files` and, on top of the last, `Exec` |
| `Sockets`, `Epoll`, `Poll` | `network.c`, `eventpoll.c`, `select.c` over an external host |
| `Dirs`, `Paths` | `readdir.c` and `namei.c`; `path.c` |
| `Getopt`, `Ssh` | the option parsers; the ssh command |
| `HostServicesProofs` | the inductive invariants of `Sockets`, `Epoll`, `Poll`, `Ssh`, `Dirs`, `Wasm` and `Users`; lemmas about sums |
| `TextProofs` | what the loops of `Paths` compute, for every path, and those of `Getopt`, for every command line |
| `SequenceFacts` | lemmas about least and greatest elements, sequences and folds, for the two above |
| `Wasm`, `Users` | the two users of WAMR; the user and group database |
| `MCServices` | puts the modules that share no state side by side: `PidAllocator`, `TaskTable` and those from `Files` down, less the next |
| `MCThreads` | `FdTable`, `Signals` and `Handover` side by side, under the fairness of each |
| `MCProcessTree`, `MCVfork` | constants for TLC |

The allocator inside `TaskTable` is the set `busy`, that is `PidPool`; what
`PidAllocator` asks of its callers (give back only what you have) is the property
`PidFreedOnce` of `TaskTable`. `ProcessTree` uses the result of `TaskTable` in
turn: a task is freed when its creation reference is given up and no kill holds
it. The window in which that is not so is in `TaskTable` (see `task_table_race`).

### How steps are cut

A critical section under one mutex is one action, named like the function or the
part of it (`ForkLink`, `ExitSplice`). Where the code takes a second mutex while
it holds one, or reads shared state without a mutex, there is an action per
acquisition or read, and `pc` says where the thread stands. A mutex held from one
action to the next is a variable (`lock`, `elock`, `tlock`); one that is taken and
released within an action only has to be free. Blocking is the action's guard
being false.

`ub` in `ProcessTree` and `FdTable` records a step that C or POSIX leave undefined
(a freed task is used; a mutex is unlocked by another thread, destroyed or
overwritten while locked). The model stops there, so that whatever is checked holds
of executions up to that step; a separate run shows that the step is reachable
(`tree_undefined`), and `NothingUndefined` in `threads` that careful programs do not come to one in `FdTable`.

### TaskTable

`live` is what `calloc` returned and `free` has not taken back, `table` the hash
chains as one set, `created` the tasks whose creation reference is still to be
given up, `held` what each thread got from a lookup or a killpg. `Drop` is the
decrement; `Teardown` the order unlink, free PID, free memory. `ixland_task_alloc`
ignores a -1 from the allocator, hence the assumption that there are as many PIDs
as tasks. Files, fs and sighand, freed with the task, are not represented.

The decrement at `task.c:69` is not under `task_table_lock`. `NoLateLookup` says
of a step that it does not take the count of a task up from zero. `SerialSpec`
is the code restricted to such steps, which nothing in the code sees to, and is what
`services` checks; `task_table_race` is the code as it is, and violates
`NoDangling`. `TaskOnlyRevivalsHarm` (section 5) puts the two together: it is about the
code as it is, and says that such a step is the only way to the violation.

### ProcessTree

| Code | Actions |
|---|---|
| fork: NPROC test, allocation, link, start | `ForkCheck`, `ForkAlloc`, `ForkNoMemory`, `ForkLink`, `ForkStart`, `ForkFail` |
| waitpid: the search, element by element; the test of what it found; reap or sleep; the status after it | `ixland_waitpid`, `WaitLook`, `WaitTest`, `WaitWake`, `SpuriousWake`, `WaitStatus` |
| exit: flags; init's mutex; each child; splice; notice | `ExitBegin`, `ExitLockInit`, `ExitAdopt`, `ExitSplice`, `ExitOrphan`, `ExitParent`, `ExitNotify` |
| kill, killpg: choose; apply under the target's mutex; wake the parent under both | `ixland_kill`, `ixland_killpg`, `KillApply`, `KillNotify` |

waitpid holds its own mutex all through the search, and not its children's. So a
child's flags may change between the looks at two children (`wait.c:56`), before the
test of the child that was chosen (lines 93 to 108), and before the status is read. What
one look, or the test with `should_reap` (line 138, exited or signaled), reads of a child
is read in one step. For a look and for `should_reap` this loses nothing, as `exited`,
`signaled` and `continued` are never taken back. For the test it loses that waitpid gives
up where the model reports, if a STOP comes between lines 98 and 104: the sender is
about to wake it then. In `ExitNotify` the reads of `task->parent` at `exit.c:88-91` are
one step, and this is exact: only an exiting parent that holds its own mutex changes the
field, which is the mutex taken at line 87, and once it is init it stays.

A task has one thread. `ppid` holds a task where the code holds that task's PID.
Simplifications: the flags of one signal are set in one step; all tasks have a
sighand, as in the tests (fork itself leaves it NULL); SIGUSR1 sent to the host
thread reaches no handler and is left out; the child continues from fork as
documented, though `fork.c:75` jumps into another thread's frame, which C leaves
undefined; blocks are not reused; `Pgid` does not change; the hand-over, vfork, groups
and masks are modules of their own, not composed with this one. `Nproc` is a parameter:
nothing in the sources sets `task->rlimits`, so that in the tree as it stands fork
refuses.

### FdTable

`used`, `real`, `offset`, `elock` are the fields of an entry, `host` which file
each of the host's descriptors denotes, `pos` that file's position. The host is
external and hands out any free number. One chain of actions stands for read,
write, lseek, pread, pwrite, fstat, ioctl, dup and fcntl: look up (`Begin`,
`IoGet`), host call (`HostMove`, `HostSeek`), update and unlock (`IoDone`). dup3,
F_DUPFD and F_DUPFD_CLOEXEC are dup2. Descriptors 0 to 2 go to the host directly
and are not in the model, nor are flags and paths of entries, or O_APPEND, under
which the recorded offset is not the host's. Nothing calls
`__ixland_file_init_impl`, so that the table starts with no entry used.

The code keeps its promise only to programs that are careful: `Apart` (nothing
else uses a descriptor that is being closed or is an argument of dup2; no open
runs beside a dup2) and `KeepsCopies` (no descriptor is closed while a copy of it
exists). `CarefulSpec` is `Next` restricted to them. They are restrictions on
programs and not on the code, and each excludes a hazard listed in
`PROJECT.json`: dup2 copies the host's number without a count, and is not atomic.

### Signals

A task waits on `wait_cond` with its own `wait_lock` held; kill adds to the pending
set (`KillAdds`) and then broadcasts if `waiters > 0` (`KillWakes`), both under the
other mutex, `task->lock`. pause is test, count, sleep, wake and test again, each a step; sigsuspend is
mask, count, sleep, return. kill's steps may fall anywhere between. A broadcast after
the test and before the sleep is lost; `missed` records it, and `PauseReturns` says
that a pause or sigsuspend returns in every other case. Nothing takes a signal off the pending set and nothing consults the mask, so
that after its first signal a task's pause always returns at once; the model says
the same. alarm keeps one record for all tasks and delivers nothing; the clock it reads
may be set, back too (`ClockMoves`), and then it answers more seconds than were left. A signal sent to
a stray thread of the host has no handler and is left out.

### Handover and Vfork

fork's parent waits for `child_ready`, sets the result, destroys mutex and condition
and leaves the frame they are in; the child may still be on its way out of
`pthread_cond_wait`, and destroys the context once more (`fork.c:214`). A
child that wakes up to a context that is gone has left what C defines, and the model
stops it there (`Undefined`). Up to that, `ForkHandsOver` is about the meeting: the
order of the flags, the broadcasts, spurious wakeups, a failing `pthread_create`.
`Vfork` is the code as it is, with `active_vfork_ctx` per thread.

### JobControl

`setpgid` is two steps (`SetpgidChecks` without the target's mutex, `SetpgidStores`
under it), fork's child enters the table in a group of its own and inherits later
(`ForkEnters`, `ForkInherits`), killpg visits one task after another and delivers
after it let go of the table. Programs behave like a shell: a process that leads a
group stays in it, a group that is joined exists in the caller's session, one task
at a time moves a given process. The code asks for none of this; a reused PID of a
dead leader, or setpgid against setsid, breaks `GroupInSession` otherwise.
`MaxMatches`, 256 in the code, is at least the number of tasks: beyond it killpg
skips tasks and returns 0.

### Files and Exec

`slot`, `frefs` and `hold` are the tables, the counts and what threads got from
`ixland_file_alloc` or `ixland_fd_lookup`. Each call is one action, since a table has
one mutex and a count is atomic. `Exec` adds the steps of execve in the code's order:
classify, copy the arguments, close on exec, reset handlers, look the entry up
(`Order`). FD_CLOEXEC is a flag of the shared file and not of a descriptor, hence
`Cloexec`, a set of files. A script or a WebAssembly file is recognized and refused
with ENOEXEC after the point of no return, and a command may be cleared from the
registry in between: `ExecFailsEarly` names both exceptions.

### Startup

`ixland_library_init` tests the flag without and then with the mutex; getpid reaches
`ixland_task_init` through `pthread_once` alone. A failure there is not retried,
because `pthread_once` does not run twice, and then the library is never
initialized. The destructor takes no lock and is modelled when no other call is under
way. `ixland_vfs_init` is declared and not defined in the tree; that it counts its
calls is all the model says of it.

### Sockets

An entry is taken under the table's mutex and used without it. connect waits 30
seconds for the connection's first change of state, which may be reported in the same
moment (`ConnectTimesOut` against `HostReports`). Network.framework is external.
Programs connect and listen once per socket and use it from one thread at a time; the
network is started first, since `network_init` wipes entries that are in use. Entries
are given back by refusal and at the end only: no call closes a socket.

### Epoll and Poll

`knote` is the kernel's side, `items` and `wants` are the code's. `registered_events`
is never set, so that no knote is ever removed except by closing the descriptor:
CTL_MOD and EPOLLONESHOT take nothing back and CTL_DEL leaves a pointer to a freed
item in the kernel (run `epoll_delete`). kevent registers one filter after the other
and stops at the first it refuses: `CtlAddFails` frees the item, and `CtlModFails` keeps
it with the events it did not get, each with what was registered before. Nothing is
assumed of programs. What holds all the same is `EpollSound`: its history variables
say of which descriptors the last epoll_ctl succeeded (`armed`) and which were deleted,
or refused, since they were opened (`dropped`, and `loose` for each waiter).

`Poll` is a call of poll, ppoll, select or pselect: a look at the descriptors, the
registration with a kqueue of its own, the wait. Descriptors are closed, opened and
made ready between all three. select asks of an event only whether it is out of
band (`select.c:326`), never what was asked of the descriptor: urgent data marks
exceptfds, or nothing if that is NULL, and is counted either way. `PollFaithful` says
just that, and is exact for poll alone. Programs name a descriptor once; the end of a
file (POLLHUP) is left out.

### Dirs and Paths

getdents opens a stream on a duplicate of the descriptor, whose offset the host
shares with it, and saves where it was before the record that did not fit. The host's
offset runs ahead by a block (`Ahead`); `portable` says whether what telldir returned
means anything to another stream, which on macOS it does not, and `left` whether
that has mattered. Calls of namei, which look at a path and then have the host act on it,
change the directory meanwhile. readdir may fail when it has to read (`ReadFails`). One
thread reads, and seeks to the start after an error.

`Paths` enumerates every path up to `MaxTokens` and holds `PathsAgree` against each:
in-place normalization against a definition by meaning (`Follows`, `Spelling`),
translation and its inverse, and where the classifications of the two generations
agree. `ixland_vfs_translate` is declared in `fs/vfs.h` and defined nowhere: it may answer
any path of its own, or fail, and then the normalized path is returned as it is
(`path.c:280`). `/` is left out of the undoing of a translation, and comes back empty. A
relative path counts as external and is only normalized, so that lines 293 to 320 of
`path.c` are never reached. The loops are folds over the path: `Collapse` takes a byte, `Turn` is one turn of
the second generation's in-place loop, with its two indices, of which there are no more
than tokens. A leading `..` of a relative path is copied, as the code does.

### Getopt

`getopt` and `getopt_long` share `nargv`, `optind` and `place`; the styles differ in
what they do with an operand. `permute_args` is the exchange in cycles, by `gcd`, and
`Swap` one exchange. A dash further into a word begins a long option for `getopt_long`
and ends the scan of `getopt` (`getopt_dash`), which leaves `optind` at that word.
`GetoptPermutes` says of a finished parse that the words are those given, the
options with their arguments in front, operands behind, each in order. What an option
is (`Options`) is read off the words as they were given, ahead of the scan and without its
state. An abbreviation matches the first option it begins, and is refused only if it also
begins one that differs in argument, flag or value (`SameOption`). Programs reset the
parser before use, hand over a table of long options, and list no option `-` and no `W;`.

### Wasm, Ssh, Users

`Wasm` holds two programs that share no state: the engine behind the adapter
(`EngineNext`), and the command that runs one WASI program (`WasiNext`), with
stages of loading that fail and are unwound. One thread; descriptors that are open
(for others the WASI calls pass the raw number to the host); close does not fail.
WAMR is external.

`Ssh` follows `ssh_main` through its some twenty returns: what is `owned`, which
streams are in blocking mode, whether the server has `authenticated` the user. libssh2
answers as it likes within what its interface says; what goes over the channel is left
out. A host's key need be neither known nor added for ssh to go on: if
`libssh2_knownhost_addc` fails and the file can be written all the same, `VerifyHost` is
content, and no property says more. After a password the answer is compared before it is
stored (`TryPassword`, run `ssh_password`). The command leaks its sockets, and on most
failures its session, which `SshOrderly` does not deny.

`Users` is every lookup and iteration of the database, with buffers that are too
small by one, exact, and large. `Finds` is whom each call knows: by name the default
user only, which is not what the contract says (run `users_root`). One thread, as the
same contract asks.

## 3. Runs

| Run | Question | Instance | Result |
|---|---|---|---|
| `services` | do the components that share no state keep what they promise? | see below | holds; implements `PidPool` |
| `threads` | the same, of what must come back: do calls, sleepers and forks end? | see below | holds under fairness; implements `FileTable` |
| `task_table_race` | is a task safe from a lookup between decrement and unlink? | 3 threads, 2 tasks | `NoDangling` violated |
| `tree_adopt` | does the tree stay whole under adoption, reaping and signals? | init, two levels below it, 1 kill or killpg, 1 failure | holds; implements `ProcessLife` |
| `tree_status` | does the status agree with what was done to the child (`wait.c:137`)? | init and 2 children, 2 kills | violated |
| `tree_locks` | can threads wait for each other's mutexes? | three levels, no signals | violated |
| `tree_undefined` | is a freed task used? | three levels, no signals | violated |
| `fd_locks` | can threads wait for each other in the table? | 2 threads, 2 descriptors | violated |
| `vfork` | does the parent resume once its child has exec'd or exited? | 1 parent, 1 spurious wakeup | violated, under fairness |
| `services` | do the components that share no state keep what they promise? | see below | holds |
| `epoll_delete` | does a deleted descriptor stay silent? | 1 descriptor, 2 items | violated |
| `ssh_password` | is who is connected by password accepted? | 2 addresses | violated |
| `users_root` | is root found by name? | buffers of 1 and 100 | violated |

`services` is one run for fifteen modules, and `threads` for three. `focus` is chosen in
the initial state and only that component moves: they have no variable in common, so
that an interleaving of two of them shows nothing that each does not show by itself, and
the run's states are the sum of theirs (about 820 000 and 146 000) instead of the
product.

| Property | Module | Says |
|---|---|---|
| `PidTypeOK`, `Conservation`, `PoolSpec` | `PidAllocator` | the free list stays within its array, every PID is free or out exactly once, and one is refused only when all are out |
| `TypeOK`, `RefCountExact`, `NoDangling` | `TaskTable` | counts are exact and nothing referred to is freed, if no lookup falls into the window |
| `PidIdentifies`, `PidFreedOnce` | `TaskTable` | a PID in the table leads to one task, and is given back once, under the same assumption |
| `TypeOK`, `NothingUndefined`, `NoLeak`, `OffsetTracksFile`, `TableSpec`, `CallsReturn` | `FdTable` | for careful programs: no mutex is misused, no host descriptor is lost, offsets are positions, descriptors denote their files, every call returns |
| `PauseReturns`, `SleepersCounted` | `Signals` | a pause with a signal pending, and a sigsuspend under a kill, end, unless the broadcast fell between test and sleep; who sleeps, and nobody else, is counted, on every way in and out of pause and sigsuspend |
| `AlarmBounded` | `Signals` | the seconds left of an alarm never wrap, however late the call, and exceed what is left only by what the clock was set back |
| `GroupInSession`, `KillpgReaches` | `JobControl` | a group lies in one session; killpg reaches everyone who was in the group all through its search |
| `FileRefsExact` | `Files`, `Exec` | a file's count is the number of descriptors and threads that refer to it |
| `ExecStartsClean`, `ExecFailsEarly` | `Exec` | a command starts with its caller's descriptors less the close-on-exec ones; an execve that fails closed nothing |
| `ForkHandsOver` | `Handover` | both sides of a fork return, the child with its thread set, unless the parent's frame is gone first |
| `StartedIsWhole` | `Startup` | who finds the library initialized finds its task and one file system |
| `ConnectionsOwned` | `Sockets` | what the host keeps open, one entry refers to |
| `EpollSound` | `Epoll` | a descriptor gets what its last successful epoll_ctl asked for; an event is copied from its own item unless the descriptor was deleted since it was opened |
| `PollFaithful` | `Poll` | the mask is back on every way out; what was waited for and is so is said, and nothing that is not so or whose filter was not asked for |
| `DentsOnce` | `Dirs` | no name twice; every one that stays is seen |
| `PathsAgree` | `Paths` | normalization agrees with what a path names; translation can be undone; a safe virtual path stays below its first name, translated or not |
| `GetoptPermutes` | `Getopt` | a finished parse has moved options in front of operands, and nothing else |
| `RuntimeOwned` | `Wasm` | every object of WAMR and every file has one owner, through every failure |
| `SshOrderly` | `Ssh` | nothing freed is used or freed again, through all tries; standard input is restored |
| `UsersAgree` | `Users` | a record is the one asked for, and missing only if the call does not know the key; its strings are apart and within the buffer; iterations are whole |

Why the bounds are enough to see the interesting cases:

- Three PIDs and three threads: the list runs empty while two threads race for the
  last PID and a third gives one back.
- Three threads on a task: one looks it up, one signals its group, one reaps it;
  a further task can be given the PID that becomes free.
- Four tasks, init with one child `a`, and `a` with two: an orphan needs two
  levels, a list of two is the least for an adoption walk that holds mutexes over
  several steps. `d`, a leaf, may kill any task or a group; one kill at a time is
  enough to race with every step of exit and wait. init may have a second child and
  one fork may fail, so that init can adopt `b` from `a` while it starts `d`, and lose
  `b` when that fails (`fork.c:180`).
- Three threads on a descriptor table of two: two calls can be in one entry while
  the third closes or opens the other, and the host's number is reused before the
  entry that had it is free. `MaxPos = 1` tells an update that is lost from one
  that is not.
- In `threads`, too: one sleeper and two senders, of which the second may broadcast for
  what the first added.
- In `services`: three jobs, a shell, a leader and a member; two tables of two
  slots and two files, one of them close-on-exec, so that a fork shares what an exec
  closes; two starters; two sockets and two connections, so that one may be reused
  while the other waits; two descriptors and items for a number that is used again;
  command lines of up to four words, with bundled, separated, required and optional
  arguments, and an exact, an ambiguous and a synonymous long option; paths of up to seven
  slashes and names; three loads, so that a failed one has a successor; two
  directory slots with records of different size and blocks of one; buffer lengths on
  both sides of each record's size.

Bounds by name: `MaxKills`, `MaxFaults`, `MaxCommands`, `MaxStray`, `MaxStrays`,
`MaxLoads` (events of a behaviour), `MaxPos`, `MaxTime` (positions, the clock),
`MaxWords`, `MaxTokens` (inputs), `MaxAddrs`, `MaxHandles`, `MaxCount` (what a host or
a caller offers). The tables' sizes are the sizes of the constants.

`CHECK_DEADLOCK FALSE` in the tree's runs: the system really stops when all tasks
have exited, when init waits with nobody left to exit, at the first undefined step,
and in the cycles that `tree_locks` shows. In `fd_locks` the cycle it shows is such a
stop, in `vfork` the parent that sleeps for ever. In `services` and `ssh_password` an ssh
command that has ended, a longest path or a finished parse have no next step, in
`threads` a fork that has ended. `epoll_delete` and `users_root` never stop, and
`task_table_race` checks for deadlock.

There is no run for liveness of the tree. That every waiter gets its child, or that
every call ends, is false of the code: an exit may be stuck in the cycle that
`tree_locks` shows, and with it whoever waits for it. Bounds under which no such cycle
exists have no adoption in them either. What is left of it is safety, `NoLostWakeup`:
nobody sleeps whom nobody is about to wake.

### Fairness

`CarefulSpec` of
`FdTable` has strong fairness, because there other threads may lock and unlock the
table for ever: a thread that waits for a mutex gets it if it is free again and
again. It includes that host calls return; a read that blocks for ever blocks, in
this code, every other caller that looks the same descriptor up, and with it the
table (`fdtable.c:242`).

`SigFairness` has weak fairness of a sleeper's own steps and of kill's second step:
the sender has the mutex and only has to run. Nobody is obliged to send.
`HandFairness` and `Spec` of `Vfork` have weak fairness of both threads of a fork; in
`Vfork` that includes that the child calls execve or exit, as vfork's contract asks.

## 4. What the violations show

- `task_table_race`: `ixland_task_free` decrements outside the table's lock. A
  lookup after the decrement to zero and before the unlink returns a task that is
  freed under its holder.
- `tree_status`: `stopped` and `continued` outlive the exit of a task, so that
  waitpid reaps a child and reports it stopped.
- `tree_locks`: an exiting parent holds its own mutex and init's and wants its
  child's; the child holds its own and wants init's.
- `tree_undefined`: `exited` is visible before `ixland_exit` is done with the task;
  the parent reaps it under the exiting thread.
- `fd_locks`: dup2 waits for the table with an entry locked, a read waits for the
  entry with the table locked.
- `vfork`: `active_vfork_ctx` is `__thread` and set by the parent; exec and exit run in
  the child's thread, find it NULL and tell nobody.
- `epoll_delete`: CTL_DEL builds its changes from `registered_events`, which nothing
  sets; the knote stays, with a pointer to the freed item.
- `ssh_password`: the server's answer is compared before it is assigned
  (`ssh_main.c:660`), so that a wrong password passes for accepted.
- `users_root`: `getpwnam` and its reentrant form know one name, and answer ENOENT for
  root, which the contract and the smoke test ask for.

Met while modelling, and not given a run of their own:

- `killpg` signals the first 256 matches and returns 0; the PID of a dead leader is
  given out again while its group lives.
- FD_CLOEXEC belongs to the shared file, so that setting it in one task sets it in
  all; execve refuses scripts and WebAssembly after it has closed descriptors.
- Socket entries are never released by close, and a socket made before
  `network_init` is wiped by it.
- poll does not count a descriptor that was closed while it waits for others, and
  returns 1 for several of them.
- getdents fails with EINVAL when the first record does not fit and leaves the host's
  offset moved; its saved offset means nothing to the next call on macOS once a record
  stayed in the stream. unlink uses stat, so that a symbolic link to a directory can be
  removed by neither unlink nor rmdir.
- Normalization copies a leading `..`; its branch for relative paths is never
  entered; the two generations disagree about `/bin`, `/proc`, `/sys` and `/lib64`.
- getgrent returns nothing before the first setgrent.
- WASI calls on a closed descriptor act on the host's descriptor of that number, and
  `proc_exit` leaves files open.
- select with a read set only and urgent data pending returns 1 with its sets empty, and
  sets a bit in exceptfds for a descriptor that was in readfds only.
- A CTL_ADD or CTL_MOD that fails half way leaves a knote; after a failed CTL_MOD the
  item asks for what it does not get.
- ssh takes a host for verified whose key it could neither find nor add, if the file
  could be written, and closes none of its sockets.
- Signals are never taken off the pending set, and the mask has no effect; pause and
  sigsuspend sleep through a signal that arrives just before the sleep.
- fork's parent destroys the context while the child may still be in its wait.

## 5. Proofs

`PidAllocatorProofs`, for any range of PIDs and any threads: `PidTypeCorrect`,
`PidConservation`, `PidRefinesPool`. The inductive invariant says that, once the
list has been filled, the list up to its top holds no PID twice and exactly those
that no thread has; before, that no thread has any. Conservation alone is not
inductive: a push needs the list to be without repetitions and the top within the
array. Assumed of callers: only PIDs that are out are given back, each once.

`TaskTableProofs`, for any finite sets of threads, tasks and PIDs with at least as
many PIDs as tasks. For `SerialSpec`: `TaskTypeCorrect`, `TaskRefCountExact`,
`TaskPidIdentifies`. For `Spec`, the code as it is: `TaskOnlyRevivalsHarm`, that
without a `Revival`, a step that takes a count up from zero, nothing dangles and no PID is
given back twice; every way to either, in any interleaving, begins with one
(`OnlyRevivalsCount`). The invariant `IInv`
adds to the counts where each thread stands: a task being linked is not in the
table; one being torn down has count zero, so that nobody holds it, and one thread
only works on it; whoever is found in the table and is not being torn down has a
count of at least one, hence can be looked up safely; tasks that have not reached
the last step of the teardown own their PID. `RefCountExact` by itself does not
bear on the teardown, and `NoDangling` is not inductive without the counts.
`CollectStep` covers lookup and killpg, and is where it matters that there is no revival;
`DropStep` covers both ways to give up a reference.

`Files` (in `TaskServicesProofs`), for any finite sets of tables and threads, any files and any size of a
table: `FilesTypeCorrect`, `FilesRefCountExact`. `FileRefsExact` counts pairs of a
table and a slot; two things make it inductive. A table that is not allocated is
empty, since otherwise the copy that `ixland_files_dup` stores would overwrite
references that are still counted. And the pairs of one table are as many as its slots
(`ColumnCount`), which turns the loops of dup and free, one count up or down per
slot, into the difference of two sets. `SlotStep` and `HandStep` cover the calls
that move one reference; `PlacesFinite` is what their cardinalities need.

The same module carries that invariant through `Exec` and adds where each task stands:
`ExecRefCountExact`, `ExecCleanStart`, `ExecEarlyFailure`. `Progress` relates a task's
place in execve to what it has given up: up to the copies its slots are those it
called with (`before`), from the closing on those less the close-on-exec ones, from the reset on
its handler is not a function. It needs that nobody else writes the slots of a
task inside execve, which is what one thread per task means here. `NativeStays` says
that a path classified as a command is still registered unless the registry has been
cleared since; without it the last lookup could fail for no reason the property names.

`ProcessTreeProofs`, for any number of tasks and any bounds on kills and faults, in
five layers, each of which uses those before it.

1. `TreeTypeCorrect`. `ThreadInv` adds to the types who holds which mutex from one
   step to the next (`Holds`), whom a thread is about (`Peers`: a child that is being
   linked or started is in one thread's hands), that a walk stands within its list
   (`Walks`), and that who sleeps is counted once (`Counted`). The types alone are not
   inductive: adoption reads `children[t][cursor[t]]`, and `waiters` is decremented.
2. `NoTaskIsLost`. `Lists`: no list has a task twice, no task is on two, and one that a
   waiter has taken off is on none and in no second hand. A born task is `Astray` if it is
   neither reaped nor on a list nor in such a hand. No step but a failing fork changes
   who is astray (`SameAstray`): `fork.c:180` sets the list back to what follows the new
   child and drops what was put in front of it meanwhile. `Losses` says who that can be.
   The list of a task other than init still begins with the child it is starting, for
   only init's list grows by another's step; so only init's failing fork loses anybody,
   and only whom it adopted since it linked the new child.
3. `ParentsAreAgreed`, whatever fails. A child's parent is the owner of the list it is
   on, but for a list that its owner hands over: there the children in front of the
   cursor have init for a parent already, and the others do not (`Parents`).
4. `NoWakeupIsLost`. A sleeper's search stops at the first child it chooses, which need
   not be one it can return. `Woken`: if it chooses any that it could return, then at
   that child or before it is one at which it stops in vain or of which somebody is
   about to wake it. `NoLostWakeup` says so of the first chosen child only; it is not
   inductive, since a child may be taken off or be put in front. That the wake goes
   to the right task is `Parents`, that it is sent is `Counted`, and that a decision
   made before cannot be overtaken is `Holds`.
5. `TreeImplements`, whatever fails. `Stage` maps a task that is on a list, in a waiter's
   hand or nowhere to the phases of `ProcessLife`; `Fates` adds that nothing has happened
   to an unborn task. Every step is one step of `ProcessLife` or none (`LifeNext`); a
   failing fork is its `Abort`, which forgets tasks only if init called it
   (`ForkFailLife`, from `Losses`).

Most steps touch no list: `Quiet` says so once, and `StillLife`, `QuietLife` and the
`Quiet...` lemmas of each layer dispose of them together, so that each layer has
a lemma only for the steps that matter to it. The lemmas about lists (`RemovedIn`,
`ConcatIn`, `FrontIn`, `AfterIn`) say what is in a list after a removal or a splice.

`FdTableProofs`, for any number of threads, descriptors, host descriptors and files,
and for `CarefulSpec`: `FdTypeCorrect`, `FdKept` and `FdOffsets`. `FdDefined` and
`FdImplements` are lemmas beside them, and no more should be read into them than that
careful programs are safe: `Apart` keeps calls off the entries whose mutexes are misused
otherwise, and `KeepsCopies` forbids the dup2 and close of an ordinary redirection, for
which the table is not a map of descriptors to files. `FdInv` says for each thread what it has and found (`ThreadInv`), that
who is between lock and unlock holds the mutex and nobody else does (`Locked`), that the
descriptors of the host denote different files and an entry that nobody fills or frees
(`Settled`) has an open one (`HostInv`), and that the recorded offset differs from the
position by what the call under way has still to add (`Tracks`). `NoLeak` and
`OffsetTracksFile` are what remains of it between calls. `Apart` enters where a thread
uses what it looked up, `KeepsCopies` where the host's descriptor is closed. The
refinement maps a descriptor to `Names`, which only the ends of open, close, dup2 and
the host's moves change (`Opened`, `Closed`, `Copied`, `Moved`).

The rest of `TaskServicesProofs`, for any tasks, senders and threads:

- `SleepersAreCounted`, `AlarmIsBounded`: the count is a function of where the task
  stands; of the alarm nothing is needed but its type, as the clock may be set.
- `GroupsInSessions`: a group is named by a task that is in it, a session by one that
  leads it (`Led`); a process is in one call's hands at most (`InHand`); a child that
  has not inherited is alone under its name (`Forked`); the group that a setpgid is
  about to store still is of the session it was checked for, or the process has left
  it by setsid (`Joining`). The last two are the windows of the code.
- `KillpgReachesAll`: what stayed in the group is still to be visited, or among the
  matches, or signalled (`Searched`). `JobAssumption` has a finite number of tasks, no
  more than `MaxMatches`.
- `LibraryStartedIsWhole`: who holds `init_lock`, who is inside `pthread_once`, and how
  often the file system was initialized, or else the init task has failed for good.

`HostServicesProofs`, over a host that does what its interface allows, for any
connections, waiters and names, any finite numbers of sockets and of descriptors
of a poll, any numbers of loads and files, any table of descriptors with room for the
three streams (`WasmAssumption`) and buffers of any size (`UsersAssumption`):

- `ConnectionsAreOwned`: a connection is named in one place, and named if and only if
  it is not over (`Named`).
- `EpollIsSound`: the knotes of a descriptor that was not dropped since it was opened
  point to its item or to none (`Pointing`), one that is armed has all it asked for
  (`Complete`), and what a waiter holds was told of such a descriptor or of a loose one
  (`ToldOf`).
- `PollIsFaithful`: what is registered was asked for and nothing is reported before the
  wait (`PollWaits`); the rest is a property of the one step that ends the call.
- `SshIsOrderly`: which resources are held at which place and by which method.
- `ScansAreWhole`: between two calls, all names up to the saved offset were shown, on
  a host where that offset means something, or else all up to the host's (`AtRest`);
  within a call, those up to the host's offset were shown or are in the stream
  (`InStream`). The proviso that the code needs on macOS is part of the property.
- `RuntimeIsOwned`: the three globals are of one load or all clear (`EngineInv`). A WASI
  program holds at each stage what `HeldAt` lists; its table has each open file in one
  entry (`WasiTabled`); and what the last transfer told is the sum of what it moved (`Told`).
- `UsersAreAgreed`: the strings of a record lie at the partial sums of their sizes, each
  of which is followed by the next (`Totals`, `TotalsGrow`), so that none is outside a buffer
  that holds their total (`Agrees`).

The last two are about sums, which the community modules define by a recursive fold. `SumOf` is
that fold; that it exists, is an integer and does not depend on the order are
inductions over a finite set. The library's induction theorems take an operator and
cannot be used; instead `SmallestOf` gives a smallest set for which the claim
fails, and the step from the set without one element contradicts it.

`TextProofs`. Of `Paths`, for every path, any sets of names and any root of the sandbox that is
absolute and has no slash to collapse or to drop (`PathsAssumption`; the default of
`path.c:117` is one, and for others the translation cannot be undone): `PathsAgreeAlways`.
The bound `MaxTokens` is not used. Three steps lead there.

1. What a fold is. `SequenceFacts` shows that a fold over a sequence is what a run ends
   with (`Folding`): a function from 0 to its length that begins with the base and takes
   each element by the step (`FoldRun`). Inductions are over a set that is given
   (`Induct`, `InductSeq`), which needs no operator as a parameter. `CollapseFold`,
   `EnterFold`, `DescendFold` and `TurnRun` are this for the four folds of `Paths`.
2. The loop of `path.c:352`. `Keeps` is its invariant: before slashes, dst is the spelling
   of what the part of the path up to src leads to; before a name, it is that with a slash
   behind it. A turn keeps this and takes a token (`TurnSpells`), so that after as many
   turns as tokens dst is the spelling, but for a last slash (`NormalizePlain`). It
   needs that a path names a root (`Plain`) and that no name follows another. A join is
   such a path again and leads on from where the first ends (`JoinPlain`, `FollowsBoth`).
3. The first generation. Collapsing keeps what a path leads to (`CollapsedMeaning`) and acts
   behind the root as it does alone (`CollapsedBehindRoot`); a path without `..` keeps the
   first name it went into (`StaysBelow`).

Of `Getopt`, for any words, any list of short and long options and every style:
`GetoptPermutesAlways`. The bound `MaxWords` is not used but to be a number, and
`GetoptAssumption` says only that words are sequences of letters and what an option may
ask for. Four steps lead there.

1. `gcd` is the greatest common divisor and a combination of its arguments (`GcdIsGcd`), by
   induction over the second one; that the recursive function satisfies its equation is
   itself an induction (`GcdEquation`).
2. `permute_args` rotates the block, for blocks of any two sizes (`PermuteRotates`). The
   k-th exchange comes to the position `Reached`, and as many exchanges as the block is long
   come to all positions, each once (`ReachedOnce`, `ReachedAll`): two visits of one position
   are a multiple of the gcd apart, so on one cycle, and less than its length apart, so the
   same (`VisitOnce`). `Exchanged` is the invariant of the loops: what has
   been moved is where it belongs, and what the next exchange moves is at the start of its
   cycle. That there is exactly one cycle for each residue is what `OneCycle`, the faulty
   version, gets wrong.
3. The reference looks ahead and the parser looks back. `Left` ties them: of all the
   options of the command line, those not scanned yet are what the reference finds from
   here on. Each kind of word keeps it (`LeftOption`, `LeftEnd`, `LeftHalt`, `LeftOperand`).
4. The scan. `GetoptInv` keeps, for `permute`, that the words scanned are options, then
   the operands passed over, then options (`Arranged`, between `OperandsFrom` and `Beyond`), each
   kind in the order it was given, and the rest as it was given; a rotation makes the first and
   the last of these one (`ArrangedRotated`). Two indices are not enough: within a word, the
   letters read so far are options without arguments (`Within`), or the next argument
   could not be told (`WantsAt`); and operands are only passed over at the start of one (`Passed`).

Only model-checked:

- `PauseReturns`, `ForkHandsOver` and `CallsReturn`: liveness, which the provers do not do;
  and the violations, which are traces.

## 6. Plan

Done: a module for every component that keeps state of its own. What is left, in this
order:

1. Composition: `Signals` with the delivery of `ProcessTree`, whose kill has one step
   more; `JobControl` with the killpg of `TaskTable`, which holds what it found;
   `Handover` with the fork of `ProcessTree`.
2. Several files of a table behind `Dirs`, so that dup and getdents meet.

## 7. Not modelled

`cred.c`, `time.c`, `resource.c`, `random.c`, `sys.c`, `inode.c`, `stat.c`, `super.c`,
`mount.c`, `ioctl.c`: one host call or a constant answer each. `vfs.c`, whose path walk
always fails and whose open is declared and not defined in the repository. chdir,
fchdir and getcwd, which act on the host process's one working directory, shared by all
tasks. In `path.c` the copy `virtual_to_ios` and `in_sandbox`, which says yes; bind,
accept and socket options, which store nothing that is read or always fail;
`getopt_long_only`; arguments, environment, clocks and random numbers of WASI. Headers,
which declare types. The app, the packages and the build.

## 8. Running

    tlc -workers 2 -config MCThreads.cfg MCThreads.tla
    tlapm TaskTableProofs.tla

Each run of `PROJECT.json` names its module and configuration, and each property of
a passing run a mutant of the model that breaks it, written beside the definition
it replaces and marked "Faulty".
