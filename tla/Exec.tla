-------------------------------- MODULE Exec --------------------------------
(***************************************************************************)
(* IXLandSystem/fs/exec.c and runtime/native/registry.c: execve on top of  *)
(* the files tables, with the registry of native commands.                 *)
(*                                                                         *)
(* execve classifies the path, copies the arguments, closes descriptors,   *)
(* resets signals and only then looks for the entry to run; scripts and    *)
(* WebAssembly files are recognized and then refused.  Meanwhile others    *)
(* register and clear commands, and fork or close files that are shared.   *)
(***************************************************************************)
EXTENDS Files, Sequences

CONSTANTS
  Runners,      \* tasks that call execve
  Programs,     \* what may be run
  Kind,         \* Kind[p]: what the host has at p: "WASI", "SCRIPT" or "NONE"
  Cloexec,      \* files opened with FD_CLOEXEC
  MaxCommands,  \* bound: registrations
  NoPath

ASSUME ExecAssumption ==
  /\ Runners \subseteq Tables
  /\ Kind \in [Programs -> {"WASI", "SCRIPT", "NONE"}]
  /\ Cloexec \subseteq FileObjs
  /\ NoPath \notin Programs

VARIABLES
  registry,  \* the registered paths, the newest first
  xpc,       \* where a task stands in execve
  program,   \* its argument
  image,     \* the type found for it
  handler,   \* the handler of one signal: "DFL", "IGN" or "fn"
  before,    \* history: the slots when execve was called
  cleared    \* history: tasks in execve while the registry was cleared

execState == <<xpc, program, image, before, cleared>>
execVars == <<fileVars, registry, execState, handler>>

ExecInit ==
  /\ FilesInit
  /\ registry = <<>>
  /\ xpc = [t \in Runners |-> "none"]
  /\ program = [t \in Runners |-> NoPath]
  /\ image = [t \in Runners |-> "NONE"]
  /\ handler = [t \in Runners |-> "DFL"]
  /\ before = [t \in Runners |-> Empty]
  /\ cleared = {}

Registered(p) == \E i \in DOMAIN registry : registry[i] = p
Inside(t) == xpc[t] \notin {"none", "failed", "running"}

---------------------------------------------------------------------------
(* The registry                                                            *)

ixland_native_register(p) ==
  /\ Len(registry) < MaxCommands
  /\ registry' = <<p>> \o registry
  /\ UNCHANGED <<fileVars, execState, handler>>

ixland_native_registry_clear ==
  /\ registry # <<>>
  /\ registry' = <<>>
  /\ cleared' = cleared \cup {t \in Runners : Inside(t)}
  /\ UNCHANGED <<fileVars, xpc, program, image, before, handler>>

---------------------------------------------------------------------------
(* execve                                                                  *)

At(t, here, next) ==
  /\ t \in tables /\ xpc[t] = here
  /\ xpc' = [xpc EXCEPT ![t] = next]

\* Faulty: descriptors are closed before the copies, which may fail.
CloseFirst == [classify |-> "close", close |-> "copy", copy |-> "reset", reset |-> "dispatch"]
Order == [classify |-> "copy", copy |-> "close", close |-> "reset", reset |-> "dispatch"]

ixland_execve(t, p) ==
  /\ At(t, "none", "classify")
  /\ program' = [program EXCEPT ![t] = p]
  /\ before' = [before EXCEPT ![t] = slot[t]]
  /\ UNCHANGED <<fileVars, registry, image, cleared, handler>>

ixland_exec_classify(t) ==
  LET type == IF Registered(program[t]) THEN "NATIVE" ELSE Kind[program[t]] IN
  /\ At(t, "classify", IF type = "NONE" THEN "failed" ELSE Order["classify"])
  /\ image' = [image EXCEPT ![t] = type]
  /\ UNCHANGED <<fileVars, registry, program, before, cleared, handler>>

\* argv, envp and the image record: any calloc or strdup may fail.
ExecCopies(t) ==
  /\ At(t, "copy", Order["copy"]) \/ At(t, "copy", "failed")
  /\ UNCHANGED <<fileVars, registry, program, image, before, cleared, handler>>

\* Faulty: whatever is open is closed.
AllFiles == FileObjs
ToClose == Cloexec

ixland_exec_close_cloexec(t) ==
  /\ At(t, "close", Order["close"])
  /\ Released(t, ToClose)
  /\ UNCHANGED <<tables, hold, registry, program, image, before, cleared, handler>>

ResetHandler(h) == IF h = "IGN" THEN "IGN" ELSE "DFL"

ixland_exec_reset_signals(t) ==
  /\ At(t, "reset", Order["reset"])
  /\ handler' = [handler EXCEPT ![t] = ResetHandler(@)]
  /\ UNCHANGED <<fileVars, registry, program, image, before, cleared>>

ixland_exec_native(t) ==
  /\ image[t] = "NATIVE"
  /\ At(t, "dispatch", IF Registered(program[t]) THEN "running" ELSE "failed")
  /\ UNCHANGED <<fileVars, registry, program, image, before, cleared, handler>>

ixland_exec_script(t) ==       \* and ixland_exec_wasi: ENOEXEC
  /\ image[t] \in {"WASI", "SCRIPT"}
  /\ At(t, "dispatch", "failed")
  /\ UNCHANGED <<fileVars, registry, program, image, before, cleared, handler>>

\* An error and the end of a native command both come back to the caller.
ExecReturns(t) ==
  /\ At(t, "failed", "none") \/ At(t, "running", "none")
  /\ program' = [program EXCEPT ![t] = NoPath]
  /\ image' = [image EXCEPT ![t] = "NONE"]
  /\ before' = [before EXCEPT ![t] = Empty]
  /\ cleared' = cleared \ {t}
  /\ UNCHANGED <<fileVars, registry, handler>>

---------------------------------------------------------------------------
(* What goes on beside it                                                  *)

ixland_signal(t, h) ==
  /\ t \in tables /\ xpc[t] = "none"
  /\ handler' = [handler EXCEPT ![t] = h]
  /\ UNCHANGED <<fileVars, registry, execState>>

\* A task in execve does nothing else with its table, and is not freed.  What
\* handlers a child has is left to ixland_signal.
FilesStep ==
  /\ FilesNext
  /\ \A t \in Runners :
       xpc[t] # "none" => slot'[t] = slot[t] /\ (t \in tables' <=> t \in tables)
  /\ UNCHANGED <<registry, execState, handler>>

ExecNext ==
  \/ FilesStep
  \/ ixland_native_registry_clear
  \/ \E p \in Programs : ixland_native_register(p) \/ \E t \in Runners : ixland_execve(t, p)
  \/ \E t \in Runners :
       \/ ixland_exec_classify(t) \/ ExecCopies(t) \/ ixland_exec_close_cloexec(t)
       \/ ixland_exec_reset_signals(t) \/ ixland_exec_native(t) \/ ixland_exec_script(t)
       \/ ExecReturns(t)
       \/ \E h \in {"DFL", "IGN", "fn"} : ixland_signal(t, h)

ExecSpec == ExecInit /\ [][ExecNext]_execVars

---------------------------------------------------------------------------
KeepsExactly(t, S) ==
  \A i \in Slots : slot[t][i] = IF before[t][i] \in S THEN NoFile ELSE before[t][i]

\* A command that starts has its caller's descriptors but for those marked
\* close-on-exec, and none of the old program's handlers.
ExecStartsClean ==
  \A t \in Runners : xpc[t] = "running" => KeepsExactly(t, Cloexec) /\ handler[t] # "fn"

\* An execve that fails leaves the caller its descriptors, unless it fails
\* because the file is a script or WebAssembly, or because the registry was
\* cleared while it was on its way.
ExecFailsEarly ==
  \A t \in Runners :
    xpc[t] = "failed" /\ image[t] \notin {"WASI", "SCRIPT"} /\ t \notin cleared
      => KeepsExactly(t, {})
=============================================================================
