-------------------------------- MODULE Wasm --------------------------------
(***************************************************************************)
(* IXLandWasm/ixland-wasm-engine/wamr: the two ways of running WebAssembly *)
(* on WAMR.  ixland_wamr_simple.c keeps one loaded module in globals,      *)
(* behind the contract of wasm_adapter.c, whose handles are constants;     *)
(* ixland_wamr.c is a command that runs one program, with a descriptor     *)
(* table of its own.  The two are not linked together, and share no state. *)
(*                                                                         *)
(* Each is used by one thread.  Programs use descriptors that are open:    *)
(* for others the number itself is taken for one of the host.  close never *)
(* fails.                                                                  *)
(***************************************************************************)
EXTENDS Integers, FiniteSets, FiniteSetsExt

CONSTANTS
  MaxLoads,   \* calls of load_module
  MaxWasiFd,  \* WASI_MAX_FD
  MaxHandles  \* files that are open at the host at a time

\* The table has room for the three streams.
ASSUME WasmAssumption ==
  /\ MaxLoads \in Nat /\ MaxHandles \in Nat
  /\ MaxWasiFd \in Nat /\ MaxWasiFd >= 3

VARIABLES
  adapterUp, runtimeUp,                   \* initialized, of the adapter and of the runtime
  wamrModule, wamrInstance, wamrExecEnv,  \* g_wamr_state: the load that made each, or 0
  objects,                                \* WAMR's: <<kind, load>> of what is alive
  loads

engineVars == <<adapterUp, runtimeUp, wamrModule, wamrInstance, wamrExecEnv, objects, loads>>
engineUp == <<adapterUp, runtimeUp>>

EngineInit ==
  /\ adapterUp = FALSE /\ runtimeUp = FALSE
  /\ wamrModule = 0 /\ wamrInstance = 0 /\ wamrExecEnv = 0
  /\ objects = {} /\ loads = 0

GlobalsCleared == wamrModule' = 0 /\ wamrInstance' = 0 /\ wamrExecEnv' = 0
WamrGlobals == {<<"exec_env", wamrExecEnv>>, <<"instance", wamrInstance>>, <<"module", wamrModule>>}
Kept(load) == {<<k, load>> : k \in {"exec_env", "instance", "module"}}

ixland_wamr_init ==
  \/ runtimeUp /\ UNCHANGED <<runtimeUp, objects>>
  \/ ~runtimeUp /\ runtimeUp' = TRUE /\ objects' = objects \cup {<<"runtime", 0>>}
\* The adapter's init does nothing when the adapter is up, whatever the runtime is.
Initializes(byAdapter) ==
  /\ byAdapter => ~adapterUp
  /\ ixland_wamr_init
  /\ adapterUp' = (adapterUp \/ byAdapter)
  /\ UNCHANGED <<wamrModule, wamrInstance, wamrExecEnv, loads>>

\* The adapter's deinit does nothing when the adapter is down, and get_engine
\* brings it up again.
Deinitializes(byAdapter) ==
  /\ byAdapter => adapterUp
  /\ adapterUp' = (adapterUp /\ ~byAdapter)
  /\ runtimeUp' = FALSE
  /\ IF runtimeUp THEN GlobalsCleared /\ objects' = (objects \ WamrGlobals) \ {<<"runtime", 0>>}
     ELSE UNCHANGED <<wamrModule, wamrInstance, wamrExecEnv, objects>>
  /\ UNCHANGED loads

\* What a load that fails at a stage takes down again.  Faulty: the last stage
\* only what it was made from.
UnwindsOne(stage) == IF stage = "exec_env" THEN {"instance"} ELSE {}
Unwinds(stage) ==
  CASE stage = "module" -> {}
    [] stage = "instance" -> {"module"}
    [] stage = "exec_env" -> {"instance", "module"}

Reached(stage) ==
  CASE stage = "module" -> {}
    [] stage = "instance" -> {"module"}
    [] stage = "exec_env" -> {"module", "instance"}

ixland_wamr_load_module ==
  /\ runtimeUp /\ loads < MaxLoads /\ loads' = loads + 1
  /\ \/ /\ wamrModule' = loads' /\ wamrInstance' = loads' /\ wamrExecEnv' = loads'
        /\ objects' = (objects \ WamrGlobals) \cup Kept(loads')
     \/ \E stage \in {"module", "instance", "exec_env"} :
          /\ GlobalsCleared
          /\ objects' = (objects \ WamrGlobals) \cup {<<k, loads'>> : k \in Reached(stage) \ Unwinds(stage)}
  /\ UNCHANGED engineUp

ixland_wamr_unload_module ==
  GlobalsCleared /\ objects' = objects \ WamrGlobals /\ UNCHANGED <<engineUp, loads>>

EngineNext ==
  \/ \E byAdapter \in BOOLEAN : Initializes(byAdapter) \/ Deinitializes(byAdapter)
  \/ ixland_wamr_load_module \/ ixland_wamr_unload_module

\* ixland_wamr_call_function, and memory_read and memory_write, go on.
Callable == runtimeUp /\ wamrInstance # 0 /\ wamrExecEnv # 0
MemoryReached == runtimeUp /\ wamrInstance # 0

EngineOwned ==
  /\ objects = {o \in WamrGlobals : o[2] # 0} \cup {<<"runtime", 0>> : up \in {runtimeUp} \ {FALSE}}
  /\ Callable => wamrModule = wamrInstance /\ wamrInstance = wamrExecEnv /\ WamrGlobals \subseteq objects
  /\ MemoryReached => wamrExecEnv = wamrInstance

---------------------------------------------------------------------------
(* ixland_wamr.c                                                           *)

VARIABLES
  wpc,          \* the stage of ixland_wamr_load_wasm
  chain,        \* what it holds
  wasiTable,    \* real_fd of each entry, -1 when free
  hostHandles,  \* open at the host, with the three streams
  wasiErrno,    \* of the last call of the program
  moved         \* of the last fd_write or fd_read: wanted and done of each buffer, and the total told

wasiVars == <<wpc, chain, wasiTable, hostHandles, wasiErrno, moved>>
WasiFds == 0 .. MaxWasiFd - 1
Streams3 == 0 .. 2
Quiet == [kind |-> "none", wanted |-> <<>>, done |-> <<>>, told |-> 0]
Silent == wasiErrno' = "ESUCCESS" /\ moved' = Quiet

WasiInit ==
  /\ wpc = "main" /\ chain = {} /\ hostHandles = Streams3
  /\ wasiTable = [fd \in WasiFds |-> -1]
  /\ wasiErrno = "ESUCCESS" /\ moved = Quiet

wasi_init ==
  /\ wpc = "main" /\ wpc' = "file"
  /\ wasiTable' = [fd \in WasiFds |-> IF fd \in Streams3 THEN fd ELSE -1]
  /\ Silent /\ UNCHANGED <<chain, hostHandles>>

\* The stages: what each makes, what it lets go of either way, and what it lets
\* go of when it fails.
Stages ==
  [file     |-> [makes |-> {"file"}, after |-> {}, fails |-> {}, next |-> "buffer"],
   buffer   |-> [makes |-> {"buffer"}, after |-> {}, fails |-> {"file"}, next |-> "read"],
   read     |-> [makes |-> {}, after |-> {"file"}, fails |-> {"buffer"}, next |-> "runtime"],
   runtime  |-> [makes |-> {"runtime"}, after |-> {}, fails |-> {"buffer"}, next |-> "natives"],
   natives  |-> [makes |-> {}, after |-> {}, fails |-> {"runtime", "buffer"}, next |-> "load"],
   load     |-> [makes |-> {"module"}, after |-> {"buffer"}, fails |-> {"runtime"}, next |-> "instance"],
   instance |-> [makes |-> {"instance"}, after |-> {}, fails |-> {"module", "runtime"}, next |-> "env"],
   env      |-> [makes |-> {"env"}, after |-> {}, fails |-> {"instance", "module", "runtime"},
                 next |-> "start"],
   start    |-> [makes |-> {}, after |-> {}, fails |-> {"env", "instance", "module", "runtime"},
                 next |-> "running"]]

LoadStage ==
  /\ wpc \in DOMAIN Stages /\ Silent
  /\ LET s == Stages[wpc] IN
     \/ wpc' = s.next /\ chain' = (chain \ s.after) \cup s.makes
     \/ wpc' = "deinit" /\ chain' = (chain \ s.after) \ s.fails
  /\ UNCHANGED <<wasiTable, hostHandles>>

\* _start returns, or traps.
StartReturns ==
  /\ wpc = "running" /\ wpc' = "deinit" /\ chain' = chain \ {"env", "instance", "module", "runtime"}
  /\ Silent /\ UNCHANGED <<wasiTable, hostHandles>>

\* wasi_proc_exit does not come back: what main would close stays open.
ProcExit == wpc = "running" /\ wpc' = "exited" /\ Silent /\ UNCHANGED <<chain, wasiTable, hostHandles>>

wasi_deinit ==
  /\ wpc = "deinit" /\ wpc' = "returned"
  /\ hostHandles' = hostHandles \ {wasiTable[fd] : fd \in WasiFds \ Streams3}
  /\ wasiTable' = [fd \in WasiFds |-> IF fd \in Streams3 THEN wasiTable[fd] ELSE -1]
  /\ Silent /\ UNCHANGED chain

\* Of EINTR, and of all it does not know, errno_to_wasi makes EINVAL.
HostErrors == {"ENOENT", "EMFILE", "EINTR"}
errno_to_wasi(err) == IF err \in {"ENOENT", "EMFILE"} THEN err ELSE "EINVAL"

NoEntry == {fd \in WasiFds \ Streams3 : wasiTable[fd] = -1}
NewHandle == Min((0 .. MaxHandles) \ hostHandles)

wasi_path_open ==
  /\ wpc = "running" /\ moved' = Quiet /\ UNCHANGED <<wpc, chain>>
  /\ \/ /\ \E err \in HostErrors : wasiErrno' = errno_to_wasi(err)
        /\ UNCHANGED <<wasiTable, hostHandles>>
     \/ /\ Cardinality(hostHandles) < MaxHandles
        /\ IF NoEntry = {}
           THEN wasiErrno' = "EMFILE" /\ UNCHANGED <<wasiTable, hostHandles>>
           ELSE /\ wasiTable' = [wasiTable EXCEPT ![Min(NoEntry)] = NewHandle]
                /\ hostHandles' = hostHandles \cup {NewHandle} /\ wasiErrno' = "ESUCCESS"

wasi_fd_close(fd) ==
  /\ wpc = "running" /\ moved' = Quiet /\ UNCHANGED <<wpc, chain>>
  /\ IF wasiTable[fd] = -1
     THEN wasiErrno' = "EBADF" /\ UNCHANGED <<wasiTable, hostHandles>>
     ELSE /\ hostHandles' = hostHandles \ {wasiTable[fd]}
          /\ wasiTable' = [wasiTable EXCEPT ![fd] = -1] /\ wasiErrno' = "ESUCCESS"

\* fd_write and fd_read go from buffer to buffer, and fail when any transfer
\* does, whatever was moved before.  A write ends with the first buffer that is
\* not written whole, a read only at the end of the file: enough is what each
\* transfer must move for the next one to be made.
Transfers(fd, kind, wanted, enough) ==
  /\ wpc = "running" /\ wasiTable[fd] # -1
  /\ \E took \in [DOMAIN wanted -> -1 .. 2] :
       LET tried == {i \in DOMAIN wanted : \A j \in 1 .. i - 1 : took[j] >= enough[j]}
           failed == \E i \in tried : took[i] < 0
       IN /\ \A i \in DOMAIN wanted : took[i] <= wanted[i]
          /\ wasiErrno' = IF failed THEN errno_to_wasi("EINTR") ELSE "ESUCCESS"
          /\ moved' = [kind |-> kind, wanted |-> wanted,
                       done |-> [i \in DOMAIN wanted |-> IF i \in tried THEN took[i] ELSE 0],
                       told |-> IF failed THEN 0 ELSE MapThenSumSet(LAMBDA i : took[i], tried)]
  /\ UNCHANGED <<wpc, chain, wasiTable, hostHandles>>

wasi_fd_write(fd, wanted) == Transfers(fd, "write", wanted, wanted)
wasi_fd_read(fd, wanted) == Transfers(fd, "read", wanted, [i \in DOMAIN wanted |-> 1])

WasiNext ==
  \/ wasi_init \/ LoadStage \/ StartReturns \/ ProcExit \/ wasi_deinit \/ wasi_path_open
  \/ \E fd \in WasiFds :
       \/ wasi_fd_close(fd)
       \/ \E wanted \in {<<1>>, <<2, 1>>} : wasi_fd_write(fd, wanted) \/ wasi_fd_read(fd, wanted)

InTable == {wasiTable[fd] : fd \in {e \in WasiFds : wasiTable[e] # -1}}
WasiOwned ==
  /\ wpc \notin {"main", "deinit", "returned"} =>
       /\ InTable = hostHandles
       /\ Cardinality(hostHandles) = Cardinality({fd \in WasiFds : wasiTable[fd] # -1})
  /\ wpc \in {"deinit", "returned"} => chain = {}
  /\ wpc = "returned" => hostHandles \subseteq Streams3
  /\ wpc \in DOMAIN Stages =>
       (Stages[wpc].after \cup Stages[wpc].fails) \ Stages[wpc].makes \subseteq chain
  /\ wasiErrno = "ESUCCESS" =>
       /\ moved.told = MapThenSumSet(LAMBDA i : moved.done[i], DOMAIN moved.done)
       /\ \A i, j \in DOMAIN moved.wanted :
            i < j /\ moved.done[i] < (IF moved.kind = "write" THEN moved.wanted[i] ELSE 1) => moved.done[j] = 0

---------------------------------------------------------------------------
WasmSpec == EngineInit /\ WasiInit /\ [][EngineNext]_engineVars /\ [][WasiNext]_wasiVars

\* Through failed loads and repeated inits and deinits, what WAMR has alive is
\* exactly what the globals name, all of one load, and nothing when the runtime
\* is down; and of a WASI program every file is in one entry of its table, all it
\* was run with is gone when it returns, a write is a prefix of its buffers and
\* nothing is read after the end of the file.
RuntimeOwned == EngineOwned /\ WasiOwned
=============================================================================
