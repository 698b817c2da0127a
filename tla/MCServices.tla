----------------------------- MODULE MCServices -----------------------------
(***************************************************************************)
(* The components that keep to themselves, checked side by side: focus     *)
(* says which one a behaviour is about, and only that one moves: the       *)
(* states of the run are the sum of the components', not their product.    *)
(*                                                                         *)
(* Three threads share three PIDs, so that every PID can be taken and one  *)
(* more thread can be refused, initialize late or push while others pop,   *)
(* and three tasks, so that one can be looked up, signalled with its group *)
(* and reaped at once, and its PID reused.                                 *)
(***************************************************************************)
EXTENDS PidAllocator, TaskTable, JobControl, Exec, Startup, Sockets, Epoll, Getopt, Poll,
        Paths, Wasm, Ssh, Dirs, Users

VARIABLE focus

ProgramKind == [p \in Programs |-> IF p = "cmd" THEN "NONE" ELSE "SCRIPT"]
\* Every kind of word: an optional argument, a required one, an operand, both
\* dashes, an abbreviation of synonyms, an ambiguous one, and an exact name, it too
\* the beginning of others, behind a letter.
Words == {<<"-","c">>, <<"-","a","b">>, <<"x">>, <<"-">>, <<"-","-">>,
          <<"-","-","g">>, <<"-","-","f","o">>, <<"-","a","-","f">>}
Shorts == [c \in {"a", "b", "c"} |-> CASE c = "a" -> "no" [] c = "b" -> "needs" [] OTHER -> "may"]
Longs == <<[name |-> <<"f">>, has_arg |-> "needs", val |-> "f"],
           [name |-> <<"f","o","o">>, has_arg |-> "no", val |-> "f"],
           [name |-> <<"f","o","r">>, has_arg |-> "needs", val |-> "f"],
           [name |-> <<"g","o">>, has_arg |-> "needs", val |-> "g"],
           [name |-> <<"g","e","t">>, has_arg |-> "needs", val |-> "g"]>>
Root == <<"/", "r">>
Sizes == [s \in DirSlots |-> IF s = 2 THEN 2 ELSE 1]

taskVars == <<pidVars, vars, jobVars>>
processVars == <<taskVars, execVars, startVars>>
descriptorVars == <<sockVars, epVars, getoptVars, pollVars>>
commandVars == <<pathVars, engineVars, wasiVars, sshVars, dirVars, usersVars>>

OthersStay(x) ==
  /\ x # "pids" => UNCHANGED pidVars
  /\ x # "tasks" => UNCHANGED vars
  /\ x # "jobs" => UNCHANGED jobVars
  /\ x # "exec" => UNCHANGED execVars
  /\ x # "startup" => UNCHANGED startVars
  /\ x # "sockets" => UNCHANGED sockVars
  /\ x # "epoll" => UNCHANGED epVars
  /\ x # "getopt" => UNCHANGED getoptVars
  /\ x # "poll" => UNCHANGED pollVars
  /\ x # "paths" => UNCHANGED pathVars
  /\ x # "engine" => UNCHANGED engineVars
  /\ x # "wasi" => UNCHANGED wasiVars
  /\ x # "ssh" => UNCHANGED sshVars
  /\ x # "dirs" => UNCHANGED dirVars
  /\ x # "users" => UNCHANGED usersVars

Components == {"pids", "tasks", "jobs", "exec", "startup", "sockets", "epoll", "getopt",
               "poll", "paths", "engine", "wasi", "ssh", "dirs", "users"}

ServicesInit ==
  /\ focus \in Components
  /\ PidInit /\ Init /\ JobInit /\ ExecInit /\ StartInit /\ SockInit /\ EpInit /\ GetoptInit
  /\ PollInit /\ PathInit /\ EngineInit /\ WasiInit /\ SshInit /\ DirsInit /\ UsersInit

ServicesNext ==
  /\ UNCHANGED focus
  /\ \/ focus = "pids" /\ PidNext
     \/ focus = "tasks" /\ SerialNext
     \/ focus = "jobs" /\ JobNext
     \/ focus = "exec" /\ ExecNext
     \/ focus = "startup" /\ StartNext
     \/ focus = "sockets" /\ SockNext
     \/ focus = "epoll" /\ EpNext
     \/ focus = "getopt" /\ GetoptNext
     \/ focus = "poll" /\ PollNext
     \/ focus = "paths" /\ PathNext
     \/ focus = "engine" /\ EngineNext
     \/ focus = "wasi" /\ WasiNext
     \/ focus = "ssh" /\ SshNext
     \/ focus = "dirs" /\ DirsNext
     \/ focus = "users" /\ UsersNext
  /\ OthersStay(focus)

ServicesSpec ==
  ServicesInit /\ [][ServicesNext]_<<focus, processVars, descriptorVars, commandVars>>
=============================================================================
