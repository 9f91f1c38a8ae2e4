# Verification of spidir-wasm

TLA+ specifications of spidir-wasm, a WebAssembly runtime that loads a wasm32
module, translates it to the SSA form of the spidir compiler library, generates
and links machine code, and runs it in a small Linux host with shared memory and
threads. The modules are translated from the C sources; `PROJECT.json` maps each
definition to the lines it models. Paths below are relative to the repository.

## 1. Inventory

| Component | Source | State | Operations | Interacts with |
|---|---|---|---|---|
| Module loader | `src/module.c`, `src/buffer.c` | `wasm_module_t` under construction, position in the section order | one parser per section, `wasm_module_free` | called by the driver; everything later reads the module |
| JIT driver | `src/jit/jit.c`, `function.c`, `cfi.c` | `jit_context_t`: per function `inited`, IR reference, thunk; the queue; tables used | `wasm_module_jit`, `jit_emit_spidir`, `jit_prepare_function`, `jit_create_cfi_thunk` | calls the translator, which calls `jit_prepare_function` back; hands the IR to the code generator |
| Function translator | `src/jit/inst.c`, `inst.h`, `function.c` | label stack, operand stacks, current value of every local, the builder's current block | one handler per opcode, `jit_wasm_prepare_branch`, `jit_skip_unreachable` | builds IR in spidir |
| Code generator and linker | `src/jit/codegen.c` | functions emitted with their blobs, index map, queue, sizes of code and rodata, table offsets | `jit_codegen_function(s)`, `_tables`, `_link`, `_fill_*`, cleanup | spidir, the host's page allocation |
| Helpers, libcalls | `src/jit/helpers.c`, `libcall.c` | tables of addresses | lookups | relocations |
| Hash map, vectors | `src/util/hmap.c`, `vec.c` | slots with tombstones, order, size; capacity | insert, lookup, delete, iterate, rehash, free | used by the code generator |
| Debug ELF, GDB | `src/jit/debug_elf.c`, `host/gdb_jit.c` | byte buffers; a linked list a debugger reads | emit; register, unregister | the driver |
| Linear memory, threads | `host/runtime.c` | reservation, committed size (atomic), grow lock, thread ids | `memory.size`, `memory.grow`, `thread-spawn` and its trampoline, init, destroy | called from compiled code on any thread, init and destroy by the driver |
| Host platform | `host/host_platform.c` | none (futexes in guest memory) | atomic wait and notify, allocation | compiled code |
| Driver, WASI, fuzz target | `host/main.c`, `wasi.c`, `fuzz.c` | resources of one run | the pipeline and its cleanup path | all of the above |
| spidir | not in the tree (submodule) | IR, blobs | builder, optimiser, emission | modelled as external from its uses |

What is hard here, and what correctness means:

* **Translator.** SSA is built in one pass without a dominance computation: phis
  appear when the second disagreeing branch arrives and are back-filled, loop
  heads get all their phis in advance, dead code is skipped by counting, and a
  label's end may make its parent dead. Correct means: every merge has, on every
  incoming edge, the value the local or result had at that branch; phis and edges
  match; code goes only into open, reachable blocks; each `end` closes its frame.
* **Code generator.** Two worklists (IR, code) must agree although an optimiser
  runs in between; a layout is computed that linking writes into later, including
  bytes *before* functions, and keeps offsets in fewer bits than sizes; blobs are owned
  by one of two release paths on every failure.
* **Linear memory.** Readers are lock-free, growers lock only sometimes, a mapping
  with `MAP_FIXED` destroys data if its range is wrong, and every early return must
  unlock.
* **Loader.** Sections are checked only against the counts known when they are read,
  and later code trusts the result; a name section may come anywhere; whatever point a
  file breaks off at, each block is freed once, by the parser or with the module.
* **Driver and threads.** Every phase may fail into one cleanup path; two blocks change
  owner with a successful `pthread_create`; threads are detached and outlive `main`'s
  cleanup, and `proc_exit` ends the process under the other threads.
* **Futexes.** Waits that signals interrupt, deadlines, addresses the kernel refuses,
  counts it reads as signed.
* **Hash map.** Tombstones on probe sequences, tables full of them, moves that fail.

`PROJECT.json` lists each hazard at its line with the properties that cover it, or
the reason why none does.

## 2. Modules

### LinearMemory (`host/runtime.c`)

`size` is `m_memory_size` in pages, `committed` the pages mapped read-write, `lock`
the holder of `m_memory_grow_lock`. `wasm_host_memory_grow` is split where another
thread can see or disturb it: entry (`GrowCall`), `GrowLock`, load of the size and
maximum check (`GrowLoad`), `mmap` or its failure (`GrowMap`), release store
(`GrowStore`), `GrowUnlock`. `MemorySize` is the acquire load and `GuestStore` a
store by compiled code to a page a previous `memory.size` covered. `SpawnThread` is
`wasi_spawn_thread`; it does not look at `memory.shared`, neither does the action.
`grantee` is a history variable: to whom a page was handed out. Memory is
sequentially consistent in the model; the release store and acquire load of the
size, and the mutex, are what justifies that for the accesses modelled. Sizes are in
pages: the code's byte arithmetic is in 64 bits and cannot wrap with 32-bit counts.

### Translate (`src/jit/inst.c`, `function.c`)

One function body. The wasm byte stream is the nondeterministic choice of the next opcode,
and a state is what the translator holds after it: `labels` (`jit_label_t` with
`locals_values`, `locals_phis`, result and result phi folded into one sequence `merge`;
`reached` is `locals_values != nullptr`), `locals`, and the IR in `ir`: the branches into
each block in the order the builder makes them (`into`), the blocks with a terminator, the
inputs of each phi, the current block. A value is named for where it is defined: `<<block,
0, n>>` is the n-th value computed, `<<block, i, 0>>` the phi for slot i of the label of
`block`, and `Invalid` is `SPIDIR_VALUE_INVALID`. Branches that one `br_table` builds into
the same block carry equal values, so `PreparedLabels` merges them at once, counted by
`hits`, and their order is left open; the definitions need no recursion over the table and
can be proved about. Each handler with control flow is an action: `Block`, `Loop`, `Br`,
`BrIf`, `BrTable`, `Return`, `Unreachable`, `CallIndirect`, `End` (body, block and loop
ends), `LocalGet`, `LocalSet` (set and tee), `DropOperand`. All opcodes without control
flow are `Operation(sig)`: the handler pops operands of given types and pushes a value of
a given type. `Loads`, `IntCompares`, `AtomicUpdates` and so on list, group by group,
which signatures the handlers have (`PlainOpcodes` is their union), and
`TranslateAssumption` lets an instance use no others. `Call` is a direct call with the
signature of its callee. `SkipFrame`, `SkipEnd` and `SkipPlain` are
`jit_skip_unreachable`. Any failing `CHECK` ends translation through the one cleanup path
(`Reject`). The branches in `into` carry, as history, the values of the locals (and of the
result) at the branch, and `entry` the values the translator goes on with in a merge
block: the reference `MergeCorrect` compares with. `hollow` names the block an empty
`br_table` leaves without terminator.

`Validated` says whether the code has passed wasm validation. The program has no
validator; with `TRUE` the targets of one `br_table` have equal operands.

### Codegen (`src/jit/jit.c`, `function.c`, `cfi.c`, `codegen.c`)

`wasm_module_jit` for one module from a given set. `phase` and `at` are the loop or call
that is running and its position; `ctx` is `jit_context_t` (spidir ids in creation order,
body and thunk of each function, the queue, used tables) and `cg` is `codegen_ctx_t`.
`pending` are the calls that the current step of the loop still makes, first in front:
`jit_prepare_function` for each callee ("prepare"), thunks for each function of a segment
("thunk"), `jit_try_codegen_function` ("try") and in it `jit_codegen_function` ("emit"),
which queues what the code refers to ("push"); each call is one step. Emission of one
function (`CodegenFunction`) gives a blob of any size in `CodeSizes`, any pool in `Pools`,
with up to `MaxRefs` relocations in any order, repeated or not, to functions the IR calls,
since the optimiser may remove calls. Failures: anything outside (allocation, unresolved
import, rejected code) is `Abort`; a failure between appending a function record and
storing its blob leaves the record's handle `null` or `wild`, because `vec_add` does not
initialise memory; failing lookups set `why`. `Release` and `Destroy` are the two places
that destroy blobs. Offsets of functions and pools are `uint32_t` (`Offset`), sizes
`size_t` (`Size`); their ranges are the constants `OffsetRange` and `SizeRange`.
`PoolStart` doubles the rodata with every pool, so both limits are within reach: `cg.fits`
is a history of whether the rodata has stayed below the first. With a wrapped size the
image is too small; a step that writes outside it (`Written`) may end the process
(`Faults`, phase `crashed`) or go unnoticed. Debug capture is on in the model, because
then every relocation must also find its owner in the debug maps. Modules are given by
imports, exports, segments, calls and tables used; the loader only produces segments for
table 0 (here 1), whether or not it exists.

### Hmap and AbstractMap (`src/util/hmap.c`)

`AbstractMap` is what `hmap.h` promises: a finite map `dict`, every operation at once,
only the insertion of a new key may fail, and then changes nothing. `Hmap` is the table:
`table` is the `hmap_t`, a slot is `Free`, `Tombstone` or `<<key, value>>`. The probe
loop of `hmap_find_slot` is `EndsAt`, `InsertNew` is `hmap_insert_new`. `hmap_insert` is
`InsertExisting`, `InsertAbsent`, `InsertGrows` or `InsertCannotGrow` by its branches,
`hmap_delete` is `DeletePresent` (shrinking is best effort) or `DeleteAbsent`.
`hmap_rehash` runs one step per old slot (`RehashSlot`) into `moving`, so that the
states inside its loop are checked as well; `job` is the operation that waits for it.
`reply` is what the last operation returned. The refinement mapping is `Contents(table)`,
the entries in the slots: `Map == INSTANCE AbstractMap WITH dict <- Contents(table)`,
and `ImplementsMap` is `Map!Spec`, so what is returned must be what the map returns too.
`Codegen` uses such a map in place of the table.

### Loader (`src/module.c`)

`wasm_load_module` and `wasm_module_free`. A file is what the loader finds in it: the
choice of the next section (`VectorSection`, `PlainSection`, `StartSection`,
`NameSection`), the blocks of an element as they are allocated (`ElementBlock`), the
element with the indices it refers to (`ElementEnd`, with the range checks of its
parser), and at any point something that a `CHECK` refuses (`LoadFails`). `heap` holds
the live blocks; an allocation takes one that is free, and when there is none it fails.
The allocations of import and export names (`src/module.c:213`, 221, 573) are not checked
and are copied into: `NullCopied` is the crash. The
places of the `wasm_module_t` that point to blocks are `arrays` and
`module_name`, those of a parser's locals are `temp`. `TakenAtOnce` says which parsers
store an element's pointers before it is complete. A subsection of names allocates its
array once for the functions known by then, a repeated name replaces the old one, names
for unknown functions are dropped. `find_section_index` is not applied to custom sections:
`NameSection` is possible between any two sections, any number of times. A second one counts
the functions again, and a name for a function that the array has no element for is written
outside (`NameOutside`); so is what `wasm_module_free` visits (`FreeOutside`, `ShortNames`).
Such accesses lead to `crashed`, of which nothing more is said. A write outside always does;
`wasm_module_free`, which frees what it reads there, may find null and do no harm.

### Program (`host/main.c`, `runtime.c`, `gdb_jit.c`, `wasi.c`)

Extends `Loader`, whose steps are the driver's `Load`. `pc` is the phase of `main`:
options, read, load, compile (`Jit`, with its outcomes), debug ELF, registration, runtime
and state buffer, run, cleanup. `live` are the resources that exist and `held` says which
variable of which thread will release them; `BinaryFreed` is the early free of the file.
`Cleanup` executes the end of `main` line by line (`CleanupOrder`), with the guest threads
still running in between. `wasi_spawn_thread` is `SpawnPrepares`, `Create` or
`CreateFails`, `SpawnReturns`; `thread_trampoline` is `Trampoline` and `ThreadReturns`; the
new thread may run to its end before the spawner continues. `ProcExit` may come from
any thread. Options may be repeated: paths are then refused, a second
`--spidir-dump=<file>` overwrites the handle of the first, whether or not it can be opened
(`ParseOption`, `DumpFails`); the history `lost` has the files that no variable leads to any
more. A name array that is too short is read past its end when functions are compiled and
listed for the debug ELF and when the module is freed (`NamesOverrun`). A process that
reached undefined behaviour counts as killed.

### Futex (`host/host_platform.c`)

Atomic wait and notify on one word of the memory, and on addresses that the kernel refuses
(`Places`): compiled code checks neither alignment nor bounds (`jit_wasm_atomic_wait`,
`jit_wasm_calculate_addr`), and a page that is not mapped stays so here. `Wait` computes the
deadline (kept as the ticks that remain), `IssueDiffers` and `Sleep` are the system call that
finds another or the expected word, `Refuse` is `EINVAL` or `EFAULT`, before the kernel has
looked at the deadline, `Expire`, `Interrupt` (`EINTR`) and `WaitOk` are the ways it ends.
After any error but a differing word and a timeout the loop issues the same call again
(`Retry`). The kernel is external: it compares and sleeps in one step,
chooses whom it wakes, takes the count as a signed number, and lets an expired timer go
before a pending signal. `Clamp` is the code's answer to large counts; `Wait8` is the
unimplemented 64-bit wait, an assertion that ends the process.

### Proof modules and instances

`LinearMemory_proofs`, `Codegen_proofs`, `Hmap_proofs`, `Futex_proofs`, `Loader_proofs`
with `Program_proofs`, and `Translate_proofs` with `Translate_flow_proofs` extend the
modules they are named for with invariants, lemmas and theorems (section 5).
`MCLinearMemory`, `MCTranslate`, `MCCodegen`, `MCHmap`, `MCFutex` and `MCProgram` hold the
instances for TLC; `Loader` is checked as a part of `Program`. An operator
`X_Y` beside `X` in a module is `X` with a fault; it is used only to check that the
properties can fail.

## 3. Runs

| Run | Instance | Question and result |
|---|---|---|
| `shared_memory` | 2 threads, 1 to 3 pages, counts -1, 0, 1, 2 | Grows, size reads and stores interleave freely. Grants are disjoint, mapped and final, the size only grows and is always backed, stores survive, the lock is released on all paths. Holds. |
| `private_memory_threads` | 2 threads, private memory | Fails `StoresKept`: finding 1. |
| `translate_locals` | 1 local, blocks and loops, branch depths 0 and 1, 8 opcodes | The SSA of locals: merge values, phi arity, dominance, open and reachable cursor, frame counting. Holds in all 1.35 million states. |
| `translate_results` | i32 results, two types, `br_table` with 0, 1, 2 entries, `call_indirect`, 7 opcodes | The same for results, and every block is closed at the end. Holds in 1.2 million states. |
| `unvalidated_br_table` | as above, not validated | Fails `BranchValuesDefined`: finding 2. |
| `codegen` | 6 modules, sizes 7 and 32, pools of size 0, 4 and 24 with alignment 1, 4 and 16, up to two relocations per blob, offsets that wrap at 128 and sizes at 256 | Layout, closure of the worklists, refusal of unused imports, single emission, ownership of blobs, contents of tables. Holds in 0.86 million states. |
| `codegen_pool_alignment` | as above | Fails `PoolsAligned`: finding 3. |
| `codegen_failed_emit` | as above | Fails `OnlyBlobsDestroyed`: finding 4. |
| `hmap` | 5 keys, 2 values, 3 hash bits, tables of 2 to 8 slots | The table implements the map in every state: nothing is stored twice or lost behind a tombstone or in a move, and there is always room where the code asserts it. Holds in 49 thousand states. |
| `futex` | 3 threads, words 0 and 1, timeouts none, 0 and 1, counts of 3 bits | Wakeups are counted exactly, none is lost once the word has changed, waits with a timeout on the word end, waits at a refused address never do: finding 7. Holds in 416 thousand states. |
| `program` | 8 command lines, files of up to 6 sections, elements and names, 2 threads | Loaded modules are sound, the array of names has the size its section could know, every block and resource has one owner and is released once on every path, except overwritten dump handles: finding 8; the debugger never meets a dangling entry, `thread-spawn` returns the id of the thread it started. Holds in 0.75 million states. |
| `program_early_names` | files of up to 6 sections, elements and names, compiled only | Fails `NamesInBounds`: finding 5. |

**Bounds and why they are enough.**
Two threads give all races between two growers, a grower and a reader, and a grower and a
writer; the proofs remove the bound. `MaxPages = 3` with counts up to 2 lets one, two and
no grow succeed, and a third be refused. A private memory with one thread has no run of
its own: what it could show is proved (section 5, `Exclusive`). Eight opcodes reach two
nested frames with two branches into the same label and code after it, e.g. a `block` with
const, const, `br_if`, set, `end`, get; loops get two back edges; dead code contains a
nested frame. Depths 0 and 1 name the innermost label and its parent, and the function
body when only one or two labels are open. Two types separate a mistyped operand. The code
sizes are one that is and one that is not a multiple of 16; the pools include none, one
that leaves the offset unaligned to 8 and one with a larger alignment. `MaxRefs = 2` lets
a blob refer to a function twice, or to itself and another. `OffsetRange = 128` and
`SizeRange = 256` stand for 2^32 and 2^64: the few functions of a module exceed neither,
the first or both. They differ by at least a page (`CodegenAssumption`), so that rodata
below the first never rounds up past the second, as in the code.

The signatures the translator runs use (constants of two types, a consumer of
one, calls) are those that change what merges see; more only multiply the states.

`HASH` in `MCHmap` lets two keys collide in every table, at the last slot, a third join
them in small tables, and two more start where the probe sequences of the others go on;
five keys exceed 4/5 of four slots (so the table of eight is used) and deletions shrink it
again. `MAX_CAP_ORDER = 3` makes the refusal to grow past the maximum reachable. Three
futex threads are a waker and two waiters it may choose from, or two wakers; `Width = 3`
has counts above the largest signed one. One tick leaves a wait interrupted before and
after it, any number of times. `FileLen = 6` counts ordered sections, their elements and
names; the code section and its bodies, and custom sections, come free. That is enough for
a type, an import and a function with a name section before, between and after them, for
types, functions and a start section or a name replaced, for imports with exports, and so
on; `MaxBlocks = 16` is never exhausted. Only the module that is compiled and not run
needs long files: nothing after loading depends on the contents, so command lines that go
on have short ones. Two threads let one spawn the other, both be spawned by main, and one
fail while the other runs.

The two translator runs, the code generator's, `program` and `futex` switch deadlock
checking off: a function body ends (`done` or `failed`) or reaches `MaxOps`, compilation
ends, the process ends, and so it does at the assertion of a 64-bit wait.

**Fairness.** `LockReleased` needs `WF(GrowStep(t))` for every thread, i.e. a
thread inside the host call keeps being scheduled and `pthread_mutex_lock` returns when
the mutex stays free. `WaitEnds` needs `WF(Tick)`, the monotonic clock goes on, and
`WF(WaitStep(t))`, the kernel schedules a thread whose call has something to do. Signals
are not limited: the deadline is absolute, so a wait on the word ends however often it is
interrupted, because an expired timer is delivered first. `RefusedSpins` needs no fairness:
no step leads out of such a wait. Guest code is not assumed to do
anything. Everything else is sequential or has safety properties only.

**What a wait does not promise.** A notify that falls between an interrupt and the
re-issue of the call, with the word unchanged, wakes somebody else or nobody. Guests must
change the word first, and `NoLostWakeup` is about those that do.

## 4. Findings

1. *Private memory, several threads* (`host/runtime.c:262`). The comment at 254 says
   private memories are touched by a single thread only, which nothing enforces:
   `wasi_spawn_thread` starts threads over any memory. Two unlocked grows can map the
   same range, the second one over stored data.
2. *Mixed `br_table`* (`src/jit/inst.c:412`). All targets are assumed to carry what the
   default carries. For unvalidated code a block result may be merged with
   `SPIDIR_VALUE_INVALID`.
3. *Pool alignment* (`src/jit/codegen.c:575`). `+=` where the neighbouring code uses
   `=`: offsets of constant pools are not aligned, and every pool more than doubles the
   rodata. `constpool_offset` has 32 bits: of pools of 16 bytes, number n starts at
   16 * 2^n - 32, so the 28th and the 29th are both stored at 2^32 - 32 and overlap, and
   from about the 60th on the size itself wraps. `RodataLayout` and `IndirectTargets` are
   stated, checked and proved for rodata below 2^32 bytes only.
4. *Cleanup of a function that was not emitted* (`src/jit/codegen.c:548`). The blob handle
   of the new record is uninitialised when `hmap_insert` fails.
5. *Name section before the functions* (`src/module.c:706`). The comment at 703 says that
   the order is allowed. The array of names is then sized for the imports alone, and read,
   written and freed as if it had an element for every function.
6. *Unused imports* (`src/jit/codegen.c:636`). A module with an imported function that
   nothing leads to does not compile; `debug_elf.c:75` and 313, which run after a
   successful compilation, expect such imports.
7. *Waits at refused addresses* (`host/host_platform.c:134`). The loop takes every error for
   `EINTR`. An unaligned or unmapped address, which compiled code does not check, makes
   the wait spin for ever, whatever its timeout.
8. *Repeated `--spidir-dump=<file>`* (`host/main.c:131`). The first handle is overwritten
   and never closed; the comment at 75 says that main releases it.

Findings 6 to 8 are shown by properties that say what the code does (`UnusedRefused`,
`RefusedSpins`, and `lost` in `ExitClean`) and hold; the others by runs that fail.

Two comments disagree with the code where no property is at stake. `src/module.c:690` says
that a parse failure in the name section is "downgraded to a no-op"; the code rethrows,
and loading fails (`LoadFails`). `host/main.c:104` says that on a request for help "parsing
stops"; the loop goes on to the next option, and so does `ParseOption`.

## 5. Proofs

Checked by TLAPS, for all values of the constants under the named assumptions.

**LinearMemory_proofs**, from `MemoryAssumption` (limits are naturals, counts integers,
any set of threads) and, for each theorem, `Exclusive`: the memory is shared or there is
only one thread, which covers the unlocked path. Without it the theorems are false, as the
run `private_memory_threads` shows. The invariants are not inductive on their own: that a
mapping hits no used page depends on the loaded size being current. `IInv` adds `Pending`
(an accepted count is non-negative), `Locked` (the region from load to unlock belongs to
the lock holder), `Current` (what a grower loaded is still the size, and fits; after
`mmap` its pages are committed) and `Fresh` (beyond the size nothing is owned or written).
With one lemma per action, `Init => IInv` and `IInv /\ [Next]_vars => IInv'` give
`TypeCorrect`, `SizesAreBacked`, `GrantsAreUsable`; the step lemmas give
`SizeNeverShrinks`, `GrantsAreExclusive` and `StoresAreKept`.

**Codegen_proofs**, from `CodegenAssumption` (module indices in range, pages a multiple of
16 and 8, positive alignments, sizes of a larger range than offsets). `LInv` says element
by element what the layout properties say pairwise: functions are in order below the
running size as long as that is an offset (`CodeOK`), pools are in order and tables behind
all of them in index order as long as the rodata fits (`PoolsOK`, `TablesOK`: the history
`fits` is needed because a size that has wrapped may look small again), functions are only
emitted before any table is placed, and the table loop has passed every table that has an
offset (`PhaseInv`). `LayoutInvariant` proves `Spec => []LInv`; `CodeIsLaidOut` and
`RodataIsLaidOut` follow. They rest on lemmas on alignment and on appending to sequences.

The second part of the module is about the two worklists. `CtxOK` says that
the spidir ids of bodies and thunks lead back to the functions they were made for, `CallsInv`
which calls may be pending in which loop. `BuildInv`: a function that has left the queue of
`jit_emit_spidir` has its callees prepared, or their calls pending. `PreparedInv` and
`RootsInv` follow the loops over exports, segments and the start function, first when these
are prepared and later when they are emitted. The heart is `EmitInv`: whatever
emitted code refers to is emitted, queued, or the call that emits or queues it is
pending; when queue and calls have run out it is emitted. `BlobInv` says which blobs the
linker has freed, `TargetsInv` and `PublishedInv` what has been written to tables and
exports. A failed compilation keeps only what its cleanup needs. None of this depends on the
layout. For imports, `UsedInv` says that what is prepared is in every set of functions that
has the roots and is closed under calls, `ImportsInv` that the loop over the imports has found
those it passed: the lookup fails exactly for imports outside of such a set. Results:
`TypesHold`, `LookupsSucceed`, `UnusedImportsRefused`, `NoCodeTwice`, `BlobsAreFreed`,
`TablesLeadToThunks`.

**Hmap_proofs**, from `HmapAssumption` (a hash for every key, a maximal order not beyond
the hash bits). `Good` says of one table that its counts are right and every entry is on
the probe path of its key before the first free slot; `Moving` says of the table under
construction that it holds just the entries of the slots passed so far, and that an
insertion waits for it only if its key is new. Deleting leaves a tombstone and so cuts no
path; moving an entry never overwrites one. `TypeCorrect` and `EntriesAreFound` follow, and
`HmapImplementsMap` maps each step to a step of `AbstractMap` or a stutter: a rehash
stutters until it ends.

`ThereIsRoom` is a fact about the arithmetic of the probing. The n-th probe is n(n+1)/2
slots on, modulo a power of two. For two probes that meet, the product of two numbers of
which one is odd is divisible by twice the capacity, so the even one is (`OddFactor`), which
is too large: all probes differ (`ProbesDiffer`), and there are as many as slots, so they
visit every slot (`ProbesVisitAll`). It remains that no table is full when an entry goes in:
outside of a move the insertion has checked that, and in a move `CapInv` says that the new
table has more slots than the old one has entries, whether it grew or shrank (`GrownCap`,
`ShrunkCap`).

**Futex_proofs**, from `FutexAssumption` (finitely many threads, fewer than the largest
signed count). `CallInv` says what is known of a call at each of its labels, also that only
calls on the word sleep, which is why nothing ends the others (`RefusedWaitsSpin`). With
`PowerOfTwo` and a lemma per count, what the kernel is asked for after `Clamp` and its own
conversions is the smaller of the count and the waiters (`RequestedFacts`); `WakesAreExact`
and `NoWakeupIsLost` follow.

**Loader_proofs** and **Program_proofs**, from `LoaderAssumption` (the bounds are
naturals) and `ProgramAssumption` (main is not one of the spawned threads). Runs that
reach undefined behaviour are followed up to there. `ModuleSound` is about a loaded
module, but its parts are checked at many times. `OrderInv` says that arrays of sections
still to come do not exist, so an index that was checked (`RefsValid`), the number of
bodies (`BodiesInv`) and the start function (`StartInv`) stay right while later sections
are read: the sections of what they were checked against have passed. `ShapeInv` ties the
section being parsed to its place in the order and to the blocks that only locals hold.
`ModulesAreSound` needs nothing else, wherever the name sections are.

Ownership of blocks is a partition: `Holding` gives the blocks at each place with a
pointer (arrays, elements, the module's name, locals of parsers), and `OwnInv` says that
these sets are disjoint and make up the heap. A step puts a block at one place, takes the
blocks of one place out of the heap, or moves them from one place to another;
`wasm_module_free` takes all. That it misses none with an array of names of any length is
`NamesInv`: the array never has more elements than there are functions, because it has one
for each or for each import (`NamesSized`); the elements it would visit past the end are the
undefined case. `NamesAreSized` follows.

For the driver's resources `HeldInv` says that `held` is a function of what is live and
not `lost` (`Kept`), and of the progress of each call of `thread-spawn`: the caller owns
the two blocks until the thread exists, then the thread does. `LiveInv` bounds what can be
live, `SpawnInv` relates the two ends of a call (a caller waits for it, so neither the
guest of main nor that of a thread returns meanwhile), `IdsInv` has the ids of issued
threads distinct and below the counter. `CleanupInv` and `HeapInv` say what the cleanup
path has released by the line it is at; `DebuggerInv` that the image is there before the
entry and goes after it. From these follow `EverythingHasOneOwner`, `MainReleasesAll`,
both up to the overwritten dump handles (`LostInv`), `SpawnNamesThreads`, for as many
threads as an `int32_t` counts (`runtime.c:65`, 100), and `DebuggerFindsImages`.

**Translate_proofs**, from `TranslateAssumption` and, for each theorem, `Validated`: the
targets of one `br_table` agree. Without it a table carries an operand that does not exist to
some of its targets, as the run `unvalidated_br_table` shows, and no slot of their labels can
be relied on. The theorems are about all bodies: any locals, result type, opcodes, nesting
and length.

No property is inductive by itself: that a phi created now is right for a branch built long
ago depends on the slot having held one value until now. `TrInv` relates the labels to the IR:
`LabelsInv` says of every open label that its inputs are counted right and of each merge slot
that either no phi exists and every branch so far carried the slot's value, or the slot
names its phi and the phi agrees branch by branch (`SlotOK`). Branches come only to blocks
of open labels, so what holds when a label is popped holds of its block for good
(`EntryInv`); for that `ChainOK` keeps the blocks of labels apart. `OpenInv` divides the
blocks into closed ones, hollow ones, those that wait for the `end` of their label
(`Pending`), and the cursor's. `Usable` is the strengthening the merging needs of values: one
that a local, an operand stack or a slot holds is defined and is never a phi of a pending
block; else a local could be confused with the phi that merges it, and in an entered
block `OnEdge` would read it through the wrong phi.

The actions are many but change labels and IR in few ways. `Branches(ir', hits, res)` says
what `hits[t]` branches to each label `t` do to blocks and phis, `TopOf` what becomes of the
innermost label, `CursorMoves` which block is open next; `InPlace`, `HitStep`, `PopStep` and
`PushLabel` conclude `TrInv'` from these for the steps that keep, pop and push a label, and
each action has a lemma that it is such a step. From `TranslationSound` follow `TypesKept`,
`MergesCorrect`, `PhisComplete`, `CursorStaysOpen`, `FramesAgree` and `AllBlocksClosed`.

**Translate_flow_proofs**, from the same assumptions: paths through the IR. The properties
speak of reachability, a recursive function over the blocks. `Reach` is the same set as the
least one that is closed under the branches (`ReachableInside` and `ReachableAll`: each step
of the recursion adds a block or nothing is left to add), and `Dom` is dominance stated
with it: one closed set that leaves a block out shows that the block is not reachable, and
that is how dominance is proved. `FlowInv` says, next to `TrInv`: branches leave closed blocks
that can be reached (`SourcesClosed`, `SourcesReached`); a label counted as reached has a
branch into its block (`ReachedEntered`); the blocks that define what locals and operand
stacks hold, and the heads of the open loops, dominate the cursor (`HeldDominates`);
those that define what code after the end of a frame will find dominate every branch to
that end (`BelowDominates`), and those that define what a branch carries dominate where it
comes from (`CarriedDominates`); a phi's input is what its branch carries (`PhisCarried`).

A step adds branches only from the cursor's block or from new ones, and only to new blocks, to
blocks that wait for their `end`, and to loop heads, which dominate the cursor (`Wired`,
`Grows`). Such growth takes no dominator away: if d dominates the cursor, the old closed set
still is closed (`GrowthBeyond`), if not, no new branch can lead back to what d
dominates (`GrowthAside`). At the `end` of a block, what dominates all its branches
dominates the block (`BelowComes`, `MergedComes`). That back edges go to blocks that dominate
their source is what makes loops harmless; that an operand under a frame cannot be
changed inside of it is what makes `BelowDominates` inductive. From `FlowKept` follow
`CodeReachable` and `UsesDominated`, and `BranchesCarryValues`: under `Validated` the property
that `unvalidated_br_table` refutes without it.

**Only model-checked:** `LockReleased` and `WaitEnds` (liveness under fairness is beyond the
prover), and what the runs of section 3 refute. The library's induction theorems take an
operator that the installed provers cannot instantiate; where a proof needs induction
(`OddFactor`, `ReachableAll`, the existence of the recursive function itself), it takes the
least counterexample from a set of numbers (`LeastOf`).

## 6. Not modelled

* IR contents: which operation a numeric, memory, global or atomic opcode becomes, and
  the encodings of immediates. A `Reject` covers every malformed immediate.
* spidir itself; register allocation, encodings, and the arithmetic of relocations.
* `debug_elf.c`: a pure function from the debug records to bytes. Helper bodies and the
  I/O of `wasi.c`: calls to libc and the system.
* `jit_prepare_state` and `jit_build_state_init`, the layout of the state buffer.
* LEB128, constant expressions, limits and the copying of segments in the loader: an
  element is well formed, or `LoadFails`.
* Lists of several GDB entries: the program registers one.
* What detached threads do to memory that `main` has unmapped: they may run on
  (`host/main.c:308`), `Program` shows that nothing is freed twice or leaked by that, the
  accesses themselves are not modelled.
* `fuzz.c`, which does not free what a late failure of compilation leaves in its result;
  `main.c`, which does, is the caller in `Program`.
* Address-space failures other than a failing `mmap`; signals outside of a wait; a
  `memory.grow` that maps the page of a refused wait, which would then go on.
* What a process does after undefined behaviour, and 2^31 calls of `thread-spawn`.

## 7. Plan

Done: LinearMemory, Codegen, the hash map as an implementation of an abstract map, the
loader, the driver with its threads and futexes, the translator, each with its proofs. Next,
in order of importance:

1. Proofs: the layout of code and rodata as a refinement of an abstract allocator.
2. `StateLayout`: globals, their offsets and initial values, and the code that sets them.
3. An abstract memory that `LinearMemory` refines, and its composition with the threads of
   `Program`: accesses across `runtime_destroy`.
4. The GDB list with several entries, if a caller appears.
