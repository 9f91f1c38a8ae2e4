------------------------------ MODULE Program ------------------------------
(***************************************************************************)
(* host/main.c with the parts it drives: the options, the loader (module   *)
(* Loader, step by step), the JIT as a call that succeeds or fails, the    *)
(* registration of the debug ELF with GDB, the runtime, and the guest with *)
(* the threads it spawns (host/runtime.c).  Any failure jumps to the one   *)
(* cleanup path, which releases whatever there is.                         *)
(*                                                                         *)
(* `live` are the resources that exist, `held` who is going to release     *)
(* which: <<Main, r>> while main's variable for r is not null, and <<t, r>> *)
(* for a thread t.  The blocks of the module are those of Loader.  A       *)
(* process in which undefined behaviour was reached counts as killed.      *)
(*                                                                         *)
(* An operator X_Y next to X is X with a fault; nothing here uses it.      *)
(***************************************************************************)
EXTENDS Loader

CONSTANTS
  Inputs,         (* command lines (sequences of options), each with the     *)
                  (* bound for the length of the file                        *)
  Threads,        (* bound: the calls of thread-spawn, fewer than int32_t    *)
                  (* ids                                                     *)
  Main            (* the main thread                                         *)

ASSUME ProgramAssumption == Main \notin Threads

VARIABLES
  pc,          (* where main is                                              *)
  argv,        (* the options not parsed yet                                 *)
  opts,        (* the flags parsed so far                                    *)
  live, held,
  lost,        (* history: the dump files whose handle was overwritten       *)
  listed,      (* the entries that GDB finds from __jit_debug_descriptor     *)
  stateful,    (* jit.state_size # 0                                         *)
  cleaned,     (* the steps of the cleanup path taken                        *)
  next_id,     (* m_next_thread_id                                           *)
  spawn,       (* each call of thread-spawn: its caller and progress         *)
  thread,      (* the progress of the thread it starts                       *)
  id, answer   (* the id stored for the thread, the value returned           *)

hostVars == <<live, held>>
threadVars == <<next_id, spawn, thread, id, answer>>
driverVars == <<argv, opts, lost, listed, stateful, cleaned>>
vars == <<loaderVars, pc, hostVars, threadVars, driverVars>>

(* A variable of main; the two blocks of a call of thread-spawn. *)
MainsOwn(r) == <<r, Main>>
ArgsOf(t) == <<"args", t>>
StateOf(t) == <<"state", t>>

Has(r) == MainsOwn(r) \in live

(* The owner gets a resource, or releases it if its variable is not null.  *)
Acquire(owner, rs) ==
  /\ live' = live \cup rs
  /\ held' = held \cup {<<owner, r>> : r \in rs}

Release(owner, rs) ==
  LET mine == {r \in rs : <<owner, r>> \in held} IN
  /\ live' = live \ mine
  /\ held' = held \ {<<owner, r>> : r \in mine}

Goto(label) == pc' = label

ProgramInit ==
  /\ LoaderInit
  /\ \E input \in Inputs : argv = input.argv /\ left = input.length
  /\ pc = "args"
  /\ opts = {}
  /\ live = {} /\ held = {} /\ lost = {} /\ listed = {}
  /\ stateful = FALSE
  /\ cleaned = 0
  /\ next_id = 1
  /\ spawn = [t \in Threads |-> [by |-> t, at |-> "none"]]
  /\ thread = [t \in Threads |-> "none"]
  /\ id = [t \in Threads |-> 0]
  /\ answer = [t \in Threads |-> 0]

-----------------------------------------------------------------------------

(* A dump file is opened whether or not there is one already.              *)
DumpsAgain == argv # <<>> /\ Head(argv) = "dump_file" /\ Has("dump_file")

Overwritten == <<"overwritten", Len(argv)>>

(* One iteration of parse_args.  A path may be given once. *)
ParseOption ==
  /\ pc = "args" /\ argv # <<>>
  /\ argv' = Tail(argv)
  /\ LET o == Head(argv) IN
       \/ /\ o \in {"jit_only", "gdb_jit", "help"}
          /\ opts' = opts \cup {o}
          /\ UNCHANGED <<hostVars, lost>>
       \/ /\ o \in {"module_path", "debug_elf_path", "dump_file"}
          /\ ~Has(o)
          /\ Acquire(Main, {MainsOwn(o)})
          /\ UNCHANGED <<opts, lost>>
       \/ /\ DumpsAgain
          /\ live' = live \cup {Overwritten}
          /\ lost' = lost \cup {Overwritten}
          /\ UNCHANGED <<held, opts>>
  /\ UNCHANGED <<loaderVars, pc, threadVars, listed, stateful, cleaned>>

(* A dump file that cannot be opened: the variable is null when the CHECK  *)
(* looks at it.                                                            *)
DumpFails ==
  /\ pc = "args" /\ DumpsAgain
  /\ live' = (live \ {MainsOwn("dump_file")}) \cup {Overwritten}
  /\ held' = held \ {<<Main, MainsOwn("dump_file")>>}
  /\ lost' = lost \cup {Overwritten}
  /\ Goto("cleanup")
  /\ UNCHANGED <<loaderVars, threadVars, argv, opts, listed, stateful, cleaned>>

ParseEnds ==
  /\ pc = "args" /\ argv = <<>>
  /\ Goto(IF "help" \in opts \/ ~Has("module_path") THEN "cleanup" ELSE "read")
  /\ UNCHANGED <<loaderVars, hostVars, threadVars, driverVars>>

(* read_file; what it opens and allocates it frees when it fails. *)
ReadFile ==
  /\ pc = "read"
  /\ Acquire(Main, {MainsOwn("binary")})
  /\ Goto("load")
  /\ UNCHANGED <<loaderVars, threadVars, driverVars>>

Load ==
  /\ pc = "load"
  /\ LoadModule \/ LoaderStep
  /\ UNCHANGED <<pc, hostVars, threadVars, driverVars>>

(* The loader copied what it needs: the file is freed early, and its       *)
(* variable cleared, because the cleanup path frees it too.                *)
BinaryFreed == Release(Main, {MainsOwn("binary")})

LoadEnds ==
  /\ pc = "load"
  /\ \/ load = "failed" /\ Goto("cleanup") /\ UNCHANGED hostVars
     \/ load = "ok" /\ BinaryFreed /\ Goto("jit")
     \/ load = "crashed" /\ Goto("killed") /\ UNCHANGED hostVars
  /\ UNCHANGED <<loaderVars, threadVars, driverVars>>

DebugInfo == Has("debug_elf_path") \/ "gdb_jit" \in opts

(* wasm_module_jit.  It may fail before or after the mapping exists, which *)
(* then stays in jit for wasm_module_jit_free.                             *)
Jit ==
  /\ pc = "jit"
  /\ \/ /\ Acquire(Main, {MainsOwn("jit")})
        /\ stateful' \in BOOLEAN
        /\ Goto(IF DebugInfo THEN "elf" ELSE "runtime")
     \/ /\ Acquire(Main, {MainsOwn("jit")}) \/ UNCHANGED hostVars
        /\ Goto("cleanup")
        /\ UNCHANGED stateful
  /\ UNCHANGED <<loaderVars, threadVars, argv, opts, lost, listed, cleaned>>

(* wasm_jit_emit_debug_elf; write_debug_elf may fail afterwards. *)
EmitDebugElf ==
  /\ pc = "elf"
  /\ Acquire(Main, {MainsOwn("elf")})
  /\ \/ Goto(IF "gdb_jit" \in opts THEN "register" ELSE "runtime")
     \/ Has("debug_elf_path") /\ Goto("cleanup")
  /\ UNCHANGED <<loaderVars, threadVars, driverVars>>

(* gdb_jit_register: the entry goes to the front of the list. *)
Register ==
  /\ pc = "register"
  /\ Acquire(Main, {MainsOwn("entry")})
  /\ listed' = listed \cup {"entry"}
  /\ Goto("runtime")
  /\ UNCHANGED <<loaderVars, threadVars, argv, opts, lost, stateful, cleaned>>

(* runtime_init: the range is reserved first; committing the initial pages *)
(* may still fail.                                                         *)
RuntimeInit ==
  /\ pc = "runtime"
  /\ Acquire(Main, {MainsOwn("memory")})
  /\ Goto("state") \/ Goto("cleanup")
  /\ UNCHANGED <<loaderVars, threadVars, driverVars>>

(* runtime_alloc_state: without globals there is nothing to allocate. *)
StateBuffer(r) == IF stateful THEN {r} ELSE {}

AllocState ==
  /\ pc = "state"
  /\ Acquire(Main, StateBuffer(MainsOwn("state")))
  /\ Goto(IF "jit_only" \in opts THEN "cleanup" ELSE "run")
  /\ UNCHANGED <<loaderVars, threadVars, driverVars>>

(* CHECK or RETHROW in a phase before anything of that phase is kept.      *)
Fails ==
  /\ \/ pc \in {"read", "elf", "register", "runtime", "state"}
     \/ pc = "args" /\ argv # <<>> /\ ~DumpsAgain
  /\ Goto("cleanup")
  /\ UNCHANGED <<loaderVars, hostVars, threadVars, driverVars>>

(* A thread in the middle of wasi_spawn_thread. *)
InSpawn(t) == \E u \in Threads : spawn[u].by = t /\ spawn[u].at \in {"prepared", "created"}

(* run_module returns: at once without a _start export, or when the guest  *)
(* does.  Nothing waits for the threads.                                   *)
RunReturns ==
  /\ pc = "run"
  /\ ~InSpawn(Main)
  /\ Goto("cleanup")
  /\ UNCHANGED <<loaderVars, hostVars, threadVars, driverVars>>

(* The end of main, each line a step: threads may run in between. *)
CleanupOrder_ElfFirst ==
  <<"elf", "entry", "memory", "jit", "module", "binary", "state", "module_path",
    "debug_elf_path", "dump_file">>

CleanupOrder_NoPath ==
  <<"entry", "elf", "memory", "jit", "module", "binary", "state", "module_path",
    "dump_file">>

CleanupOrder ==
  <<"entry", "elf", "memory", "jit", "module", "binary", "state", "module_path",
    "debug_elf_path", "dump_file">>

(* A line for a variable that is null does nothing. *)
Due(i) == CleanupOrder[i] = "module" \/ <<Main, MainsOwn(CleanupOrder[i])>> \in held

ToDo == {i \in cleaned + 1 .. Len(CleanupOrder) : Due(i)}

IsNext(i) == i \in ToDo /\ \A j \in ToDo : i <= j

Cleanup ==
  /\ pc = "cleanup"
  /\ \E i \in ToDo :
       /\ IsNext(i)
       /\ cleaned' = i
       /\ \/ /\ CleanupOrder[i] = "module"
             /\ wasm_module_free({})
             /\ UNCHANGED <<hostVars, listed>>
          \/ /\ CleanupOrder[i] # "module"
             /\ Release(Main, {MainsOwn(CleanupOrder[i])})
             /\ listed' = listed \ {CleanupOrder[i]}
             /\ UNCHANGED <<heap, module>>
  /\ UNCHANGED <<current_index, sec, temp, left, load, pc, threadVars, argv, opts, lost, stateful>>

(* Every function's name is looked up when it is compiled and again for    *)
(* the debug ELF, and freed with the module: behind the end of the array,  *)
(* if that is too short.                                                   *)
NamesOverrun ==
  /\ ShortNames(module)
  /\ \/ pc \in {"jit", "elf"}
     \/ pc = "cleanup" /\ \E i \in ToDo : IsNext(i) /\ CleanupOrder[i] = "module"
  /\ Goto("killed")
  /\ UNCHANGED <<loaderVars, hostVars, threadVars, driverVars>>

Return ==
  /\ pc = "cleanup" /\ ToDo = {}
  /\ Goto("exited")
  /\ UNCHANGED <<loaderVars, hostVars, threadVars, driverVars>>

-----------------------------------------------------------------------------

(* The process exists until main returns or something ends it. *)
Running == pc \notin {"exited", "killed"}

(* The threads that run guest code. *)
InGuest(t) ==
  /\ Running
  /\ ~InSpawn(t)
  /\ (t = Main /\ pc = "run") \/ (t \in Threads /\ thread[t] = "running")

(* wasi_spawn_thread up to pthread_create: a state buffer, the arguments   *)
(* and an id, or -1 when there is no memory.                               *)
NextId == next_id + 1

SpawnPrepares(t, u) ==
  /\ InGuest(t)
  /\ spawn[u].at = "none"
  /\ spawn' = [spawn EXCEPT ![u] = [by |-> t, at |-> "prepared"]]
  /\ Acquire(t, StateBuffer(StateOf(u)) \cup {ArgsOf(u)})
  /\ id' = [id EXCEPT ![u] = next_id]
  /\ next_id' = NextId
  /\ UNCHANGED <<loaderVars, pc, thread, answer, driverVars>>

SpawnRefused(t, u) ==
  /\ InGuest(t)
  /\ spawn[u].at = "none"
  /\ spawn' = [spawn EXCEPT ![u] = [by |-> t, at |-> "returned"]]
  /\ answer' = [answer EXCEPT ![u] = -1]
  /\ UNCHANGED <<loaderVars, pc, hostVars, thread, next_id, id, driverVars>>

(* pthread_attr_init or pthread_create fails: the spawner frees both. *)
CreateFails(u) ==
  /\ Running
  /\ spawn[u].at = "prepared"
  /\ Release(spawn[u].by, {ArgsOf(u), StateOf(u)})
  /\ spawn' = [spawn EXCEPT ![u].at = "returned"]
  /\ answer' = [answer EXCEPT ![u] = -1]
  /\ UNCHANGED <<loaderVars, pc, thread, next_id, id, driverVars>>

(* The thread exists, and both blocks are its own from here on. *)
HandedOver(u) ==
  LET rs == {ArgsOf(u), StateOf(u)} \cap live IN
  (held \ {<<spawn[u].by, r>> : r \in rs}) \cup {<<u, r>> : r \in rs}

Create(u) ==
  /\ Running
  /\ spawn[u].at = "prepared"
  /\ spawn' = [spawn EXCEPT ![u].at = "created"]
  /\ thread' = [thread EXCEPT ![u] = "started"]
  /\ held' = HandedOver(u)
  /\ UNCHANGED <<loaderVars, pc, live, next_id, id, answer, driverVars>>

(* The spawner returns the id from its own variable, not from the block,   *)
(* where it would find anything (0 here) once the thread has freed it.     *)
ReturnedId_FromArgs(u) == IF ArgsOf(u) \in live THEN id[u] ELSE 0

ReturnedId(u) == id[u]

SpawnReturns(u) ==
  /\ Running
  /\ spawn[u].at = "created"
  /\ spawn' = [spawn EXCEPT ![u].at = "returned"]
  /\ answer' = [answer EXCEPT ![u] = ReturnedId(u)]
  /\ UNCHANGED <<loaderVars, pc, hostVars, thread, next_id, id, driverVars>>

(* thread_trampoline: copies and frees the arguments, runs the guest, and  *)
(* frees the state buffer when the guest returns.                          *)
Trampoline(u) ==
  /\ Running
  /\ thread[u] = "started"
  /\ Release(u, {ArgsOf(u)})
  /\ thread' = [thread EXCEPT ![u] = "running"]
  /\ UNCHANGED <<loaderVars, pc, next_id, spawn, id, answer, driverVars>>

ThreadReturns(u) ==
  /\ InGuest(u)
  /\ Release(u, {StateOf(u)})
  /\ thread' = [thread EXCEPT ![u] = "ended"]
  /\ UNCHANGED <<loaderVars, pc, next_id, spawn, id, answer, driverVars>>

(* proc_exit ends the process as it is. *)
ProcExit(t) ==
  /\ InGuest(t)
  /\ Goto("killed")
  /\ UNCHANGED <<loaderVars, hostVars, threadVars, driverVars>>

-----------------------------------------------------------------------------

DriverStep ==
  \/ ParseOption \/ ParseEnds \/ ReadFile \/ Load \/ LoadEnds \/ Jit
  \/ EmitDebugElf \/ Register \/ RuntimeInit \/ AllocState \/ RunReturns
  \/ DumpFails \/ Fails \/ Cleanup \/ NamesOverrun \/ Return

ThreadStep(u) ==
  \/ CreateFails(u) \/ Create(u) \/ SpawnReturns(u)
  \/ Trampoline(u) \/ ThreadReturns(u)

Next ==
  \/ DriverStep
  \/ \E u \in Threads : ThreadStep(u)
  \/ \E t \in Threads \cup {Main} :
       \/ \E u \in Threads : SpawnPrepares(t, u) \/ SpawnRefused(t, u)
       \/ ProcExit(t)

Spec == ProgramInit /\ [][Next]_vars

-----------------------------------------------------------------------------

(* Every resource that exists has exactly one owner who will release it,   *)
(* and nobody is going to release what no longer exists: across the early  *)
(* free of the file, every failure in every phase, a failed or successful  *)
(* pthread_create and the threads that outlive main's cleanup.  The same   *)
(* holds of the blocks of the module.  Only the dump files whose handle    *)
(* was overwritten have no owner.                                          *)
OwnedOnce ==
  /\ ModuleOwned
  /\ \A r \in live : Cardinality({h \in held : h[2] = r}) = IF r \in lost THEN 0 ELSE 1
  /\ \A h \in held : h[2] \in live

(* When main returns it has released what it acquired in any phase, except *)
(* the dump files whose handle a later option overwrote, which are all     *)
(* still open; the rest of what is left belongs to threads that still run. *)
ExitClean ==
  pc = "exited" =>
    /\ heap = {}
    /\ lost \subseteq live
    /\ \A h \in held : h[1] # Main /\ h[1] \in Threads /\ thread[h[1]] \in {"started", "running"}

(* A debugger may walk the list at any time: every entry in it exists and  *)
(* points to an ELF image that exists.                                     *)
DebuggerSound == "entry" \in listed => Has("entry") /\ Has("elf")

(* What thread-spawn returns is -1, or the positive id of the thread that  *)
(* was started, which no other thread has, even if that thread has already *)
(* freed its arguments or ended.  (The counter is an int32_t: this is of   *)
(* the first 2^31 - 1 calls.)                                              *)
IdsNameThreads ==
  \A u \in Threads : spawn[u].at = "returned" =>
    IF thread[u] = "none"
    THEN answer[u] = -1
    ELSE /\ answer[u] = id[u] /\ answer[u] > 0
         /\ \A w \in Threads \ {u} : thread[w] # "none" => id[w] # id[u]

=============================================================================
