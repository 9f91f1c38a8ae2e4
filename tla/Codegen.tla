------------------------------ MODULE Codegen ------------------------------
(***************************************************************************)
(* From a loaded module to a linked binary: jit_emit_spidir, which turns   *)
(* every function reachable from the exports, the element segments and the *)
(* start function into IR, and jit_codegen, which emits machine code for   *)
(* them, lays it out, links it and publishes the entry addresses.          *)
(*                                                                         *)
(* spidir is external: functions get consecutive ids in the order they are *)
(* created, and emitting one gives a blob of some size, with some constant *)
(* pool and with relocations against functions that its IR calls, not all  *)
(* of them, since the optimiser may have removed some.                     *)
(*                                                                         *)
(* An operator X_Y next to X is X with a fault; nothing here uses it.      *)
(***************************************************************************)
EXTENDS Integers, Sequences, SequencesExt

CONSTANTS
  Modules,     (* the wasm modules that may be compiled, see ModuleOK       *)
  CodeSizes,   (* the code sizes a blob may have                            *)
  Pools,       (* [size, align] of the constant pools a blob may have       *)
  MaxRefs,     (* bound: the relocations of a blob                          *)
  Page,        (* wasm_host_page_size                                       *)
  OffsetRange, (* 2^32: code_offset and constpool_offset are uint32_t       *)
  SizeRange    (* 2^64: the sizes are size_t, table offsets uint64_t        *)

Slot == 8      \* sizeof(void*)
Endbr == 16    \* the gap before every entry, for padding and the endbr64

(* A module: `imports` functions are imported and come first in the index  *)
(* space, `funcs` are its own; calls and indirect give the callees and the *)
(* tables each of its own functions uses; an element segment puts the      *)
(* functions funcs at offset into a table, which the loader only lets be   *)
(* the first one, present or not; no start function is start = -1.         *)
ModuleOK(m) ==
  LET all == 0 .. m.imports + m.funcs - 1
      own == m.imports .. m.imports + m.funcs - 1
  IN  /\ m.imports \in Nat /\ m.funcs \in Nat
      /\ m.exports \in Seq(all)
      /\ m.start \in all \cup {-1}
      /\ m.tables \in Seq(Nat)
      /\ m.elems \in Seq([table : {1}, offset : Nat, funcs : Seq(all)])
      /\ \A f \in own : m.calls[f] \in Seq(all) /\ m.indirect[f] \subseteq DOMAIN m.tables

ASSUME CodegenAssumption ==
  /\ \A m \in Modules : ModuleOK(m)
  /\ CodeSizes \subseteq Nat /\ MaxRefs \in Nat
  /\ \A p \in Pools : p.size \in Nat /\ p.align \in Nat \ {0}
  /\ Page \in Nat \ {0} /\ Page % Endbr = 0 /\ Page % Slot = 0
  /\ OffsetRange \in Nat \ {0} /\ SizeRange \in Nat \ {0} /\ OffsetRange + Page <= SizeRange

VARIABLES
  mod,      (* the module, fixed                                            *)
  phase,    (* the loop or call that wasm_module_jit is in                  *)
  at,       (* the position in the list that the phase walks                *)
  ctx,      (* jit_context_t: ids, body, thunk, queue, used                 *)
  pending,  (* the calls that the current step still makes                  *)
  cg,       (* codegen_ctx_t: funcs, idx, queue, code, rodata, tables; fits *)
            (* is a history: the rodata has always been below OffsetRange   *)
  image,    (* the binary: rx, ro, and what has been published of it        *)
  why       (* the reason of a failure                                      *)

vars == <<mod, phase, at, ctx, pending, cg, image, why>>

Put(fn, x, v) == [y \in DOMAIN fn \cup {x} |-> IF y = x THEN v ELSE fn[y]]

Nothing == [x \in {} |-> 0]

AlignUp(x, align) == ((x + align - 1) \div align) * align

(* What a uint32_t and a size_t keep of a number.  The size of the code    *)
(* never wraps: it sums up blobs that are all in memory.  The size of the  *)
(* rodata does, see PoolStart.                                             *)
Offset(x) == x % OffsetRange

Size(x) == x % SizeRange

IsImport(f) == f < mod.imports

Start == IF mod.start >= 0 THEN <<mod.start>> ELSE <<>>

(* The loops, in the order wasm_module_jit runs them; those over a queue   *)
(* and the single calls have no list.                                      *)
Following ==
  [exports |-> "elems", elems |-> "start", start |-> "build", build |-> "cg_exports",
   cg_exports |-> "cg_imports", cg_imports |-> "cg_elems", cg_elems |-> "cg_start",
   cg_start |-> "cg_queue", cg_queue |-> "cg_tables", cg_tables |-> "alloc", link |-> "fill_exports",
   fill_exports |-> "fill_start", fill_start |-> "fill_elems", fill_elems |-> "lock"]

Work ==
  CASE phase \in {"exports", "cg_exports", "fill_exports"} -> mod.exports
    [] phase \in {"elems", "cg_elems", "fill_elems"} -> mod.elems
    [] phase \in {"start", "cg_start", "fill_start"} -> Start
    [] phase = "cg_imports" -> [i \in 1 .. mod.imports |-> i - 1]
    [] phase = "cg_tables" -> mod.tables
    [] phase = "link" -> cg.funcs
    [] phase = "build" -> ctx.queue
    [] phase = "cg_queue" -> cg.queue
    [] OTHER -> <<>>

(* A failure, or undefined behaviour: nothing more to say of the binary. *)
Broken == phase \in {"failed", "crashed"}

Running == phase # "done" /\ ~Broken

InList(phases) == phase \in phases /\ at <= Len(Work) /\ pending = <<>>

Item == Work[at]

(* jit_prepare_function ("prepare") and with it jit_create_cfi_thunk       *)
(* ("thunk") of a function, jit_try_codegen_function ("try") of one, then  *)
(* jit_codegen_function ("emit") of an id, which may queue ids ("push").   *)
Calls(do, args) == [i \in DOMAIN args |-> [do |-> do, arg |-> args[i]]]

Calling(do) == pending # <<>> /\ Head(pending).do = do

Arg == Head(pending).arg

Return == pending' = Tail(pending) /\ UNCHANGED <<mod, phase, at, why>>

-----------------------------------------------------------------------------
(* jit_prepare_function, jit_create_cfi_thunk and jit_function.            *)

(* A spidir function: the body of f, or its type-checking thunk. *)
Create(c, kind, f) == [c EXCEPT !.ids = Append(@, [kind |-> kind, of |-> f])]

(* The id of an import is 0: it is external and has no code. *)
Prepare(c, f) ==
  CASE f \in DOMAIN c.body -> c
    [] f \notin DOMAIN c.body /\ IsImport(f) -> [c EXCEPT !.body = Put(@, f, 0)]
    [] OTHER -> [Create(c, "body", f) EXCEPT !.body = Put(@, f, Len(c.ids) + 1), !.queue = Append(@, f)]

(* A function that occurs twice in the segments gets a new thunk each time *)
(* and keeps the last one.                                                 *)
MakeThunk(c, f) == [Create(c, "thunk", f) EXCEPT !.thunk = Put(@, f, Len(c.ids) + 1)]

(* The functions with code that the IR of an id calls. *)
IRCalls(id) ==
  LET fn == ctx.ids[id]
      callees == IF fn.kind = "thunk" THEN {fn.of} ELSE ToSet(mod.calls[fn.of])
  IN  {ctx.body[f] : f \in callees} \ {0}

-----------------------------------------------------------------------------
(* The cleanup path of jit_codegen destroys every handle that is not null. *)

Destroy(fn) ==
  CASE fn.blob = "live" -> [fn EXCEPT !.blob = "null", !.freed = @ + 1]
    [] fn.blob = "wild" -> [fn EXCEPT !.blob = "destroyed_wild"]
    [] OTHER -> fn

Cleanup(c) == [c EXCEPT !.funcs = [k \in DOMAIN @ |-> Destroy(@[k])], !.queue = <<>>]

Fail(reason, c) ==
  /\ phase' = "failed"
  /\ why' = reason
  /\ cg' = Cleanup(c)
  /\ pending' = <<>>
  /\ UNCHANGED <<mod, at, ctx, image>>

Step == at' = at + 1 /\ UNCHANGED <<mod, phase, why>>

-----------------------------------------------------------------------------

Init ==
  /\ mod \in Modules
  /\ phase = "exports" /\ at = 1 /\ why = "none"
  /\ ctx = [ids |-> <<>>, body |-> Nothing, thunk |-> Nothing, queue |-> <<>>, used |-> {}]
  /\ pending = <<>>
  /\ cg = [funcs |-> <<>>, idx |-> Nothing, queue |-> <<>>, code |-> 0, rodata |-> 0, tables |-> Nothing,
            fits |-> TRUE]
  /\ image = [rx |-> 0, ro |-> 0, slots |-> Nothing, endbr |-> {}]

(* The end of a loop. *)
Advance ==
  /\ phase \in DOMAIN Following
  /\ at > Len(Work)
  /\ pending = <<>>
  /\ phase' = Following[phase]
  /\ at' = 1
  /\ UNCHANGED <<mod, ctx, pending, cg, image, why>>

(* Anything that fails for reasons outside: an allocation, an import the   *)
(* host cannot resolve, code that the translator or spidir rejects.        *)
Abort == Running /\ Fail("external", cg)

PrepareRoot ==
  /\ InList({"exports", "start"})
  /\ ctx' = Prepare(ctx, Item)
  /\ Step
  /\ UNCHANGED <<pending, cg, image>>

PrepareSegment ==
  /\ InList({"elems"})
  /\ pending' = Calls("thunk", Item.funcs)
  /\ Step
  /\ UNCHANGED <<ctx, cg, image>>

PrepareElem ==
  /\ Calling("thunk")
  /\ ctx' = MakeThunk(Prepare(ctx, Arg), Arg)
  /\ Return
  /\ UNCHANGED <<cg, image>>

(* The queue is a stack.  Translating a call prepares the callee;          *)
(* call_indirect marks its table.                                          *)
BuildNext ==
  /\ phase = "build" /\ pending = <<>>
  /\ ctx.queue # <<>>
  /\ LET f == Last(ctx.queue)
     IN  /\ ctx' = [ctx EXCEPT !.queue = Front(@), !.used = @ \cup mod.indirect[f]]
         /\ pending' = Calls("prepare", mod.calls[f])
  /\ UNCHANGED <<mod, phase, at, cg, image, why>>

BuildCall ==
  /\ Calling("prepare")
  /\ ctx' = Prepare(ctx, Arg)
  /\ Return
  /\ UNCHANGED <<cg, image>>

TryRoots ==
  /\ InList({"cg_exports", "cg_elems", "cg_start"})
  /\ pending' = Calls("try", IF phase = "cg_elems" THEN Item.funcs ELSE <<Item>>)
  /\ Step
  /\ UNCHANGED <<ctx, cg, image>>

(* jit_try_codegen_function: the body, then the thunk. *)
ToTry_NoThunk(f) == IF ctx.body[f] # 0 THEN <<ctx.body[f]>> ELSE <<>>

ToTry(f) ==
  (IF ctx.body[f] # 0 THEN <<ctx.body[f]>> ELSE <<>>)
    \o (IF f \in DOMAIN ctx.thunk THEN <<ctx.thunk[f]>> ELSE <<>>)

TryFunction ==
  /\ Calling("try")
  /\ \/ /\ Arg \notin DOMAIN ctx.body
        /\ Fail("unprepared", cg)
     \/ /\ Arg \in DOMAIN ctx.body
        /\ pending' = Calls("emit", ToTry(Arg)) \o Tail(pending)
        /\ UNCHANGED <<mod, phase, at, ctx, cg, image, why>>

(* Every imported function must have been prepared, called or not. *)
RegisterImport_Unchecked ==
  /\ InList({"cg_imports"})
  /\ Step
  /\ UNCHANGED <<ctx, pending, cg, image>>

RegisterImport ==
  /\ InList({"cg_imports"})
  /\ \/ /\ Item \notin DOMAIN ctx.body
        /\ Fail("unused_import", cg)
     \/ /\ Item \in DOMAIN ctx.body
        /\ Step
        /\ UNCHANGED <<ctx, pending, cg, image>>

PopQueue ==
  /\ phase = "cg_queue" /\ pending = <<>>
  /\ cg.queue # <<>>
  /\ pending' = Calls("emit", <<Last(cg.queue)>>)
  /\ cg' = [cg EXCEPT !.queue = Front(@)]
  /\ UNCHANGED <<mod, phase, at, ctx, image, why>>

-----------------------------------------------------------------------------
(* jit_codegen_function                                                    *)

Visited_Never(c, id) == FALSE

Visited(c, id) == id \in DOMAIN c.idx

(* The gap before the entry is always there, also when no alignment is due. *)
CodeStart_NoGap(code) == AlignUp(code, Endbr)

CodeStart(code) == AlignUp(code, Endbr) + Endbr

(* The size is added to its own aligned value: every pool doubles what     *)
(* comes before it, and some thirty of them exceed a uint32_t, some sixty  *)
(* a size_t.                                                               *)
PoolStart(rodata, align) == rodata + AlignUp(rodata, align)

(* The rodata ends at `end`, or at what a size_t keeps of it. *)
Grown(c, end) == [c EXCEPT !.rodata = Size(end), !.fits = @ /\ end < OffsetRange]

Added_OffByOne(c) == Len(c.funcs) + 1

Added(c) == Len(c.funcs)

Emitted(c, id, blob) ==
  LET entry == CodeStart(c.code)
      pool == PoolStart(c.rodata, blob.pool.align)
      fn == [id |-> id, blob |-> "live", freed |-> 0, entry |-> Offset(entry), size |-> blob.size,
             pool |-> IF blob.pool.size = 0 THEN -1 ELSE Offset(Size(pool)),
             constants |-> blob.pool.size, align |-> blob.pool.align, refs |-> blob.refs]
      added == [c EXCEPT !.funcs = Append(@, fn)]
      known == [added EXCEPT !.idx = Put(@, id, Added(added)), !.code = entry + blob.size]
  IN  IF blob.pool.size = 0 THEN known ELSE Grown(known, pool + blob.pool.size)

(* The element is appended, and counted, before anything is stored in it:  *)
(* its handle is whatever the memory held.                                 *)
EmitFails(c, id) ==
  \E garbage \in {"null", "wild"} :
    Fail("external",
         [c EXCEPT !.funcs = Append(@, [id |-> id, blob |-> garbage, freed |-> 0, entry |-> 0, size |-> 0,
                                        pool |-> -1, constants |-> 0, align |-> 1, refs |-> <<>>])])

Lists(S) == UNION {[1 .. n -> S] : n \in 0 .. MaxRefs}

Blobs(id) == [size : CodeSizes, pool : Pools, refs : Lists(IRCalls(id))]

CodegenFunction ==
  /\ Calling("emit")
  /\ \/ /\ Visited(cg, Arg)
        /\ Return
        /\ UNCHANGED <<ctx, cg, image>>
     \/ /\ ~Visited(cg, Arg)
        /\ EmitFails(cg, Arg)
     \/ /\ ~Visited(cg, Arg)
        /\ \E blob \in Blobs(Arg) :
             /\ cg' = Emitted(cg, Arg, blob)
             /\ pending' = Calls("push", blob.refs) \o Tail(pending)
        /\ UNCHANGED <<mod, phase, at, ctx, image, why>>

(* The loop over the relocations. *)
PushCallee ==
  /\ Calling("push")
  /\ cg' = IF Visited(cg, Arg) THEN cg ELSE [cg EXCEPT !.queue = Append(@, Arg)]
  /\ Return
  /\ UNCHANGED <<ctx, image>>

-----------------------------------------------------------------------------
(* jit_codegen_tables, the allocation, jit_codegen_link.                   *)

TableStart_Unaligned(rodata) == rodata

TableStart(rodata) == AlignUp(rodata, Slot)

LayTable ==
  /\ InList({"cg_tables"})
  /\ \/ /\ at \notin ctx.used
        /\ cg' = cg
     \/ /\ at \in ctx.used
        /\ LET start == TableStart(cg.rodata)
           IN  cg' = Grown([cg EXCEPT !.tables = Put(@, at, Size(start))], start + Slot * Item)
  /\ Step
  /\ UNCHANGED <<ctx, pending, image>>

(* The fresh rodata is zeroed: every table slot holds null. *)
Allocate ==
  /\ phase = "alloc"
  /\ image' = [image EXCEPT !.rx = AlignUp(cg.code, Page), !.ro = Size(AlignUp(cg.rodata, Page)),
                            !.slots = [t \in DOMAIN cg.tables |-> [s \in 1 .. mod.tables[t] |-> 0]]]
  /\ phase' = "link"
  /\ UNCHANGED <<mod, at, ctx, pending, cg, why>>

(* Debug capture names the owner of all code: a body or a current thunk. *)
Owned(id) ==
  LET fn == ctx.ids[id] IN fn.kind = "thunk" => ctx.thunk[fn.of] = id

Release_KeepsHandle(fn) == [fn EXCEPT !.freed = @ + 1]

Release(fn) == [fn EXCEPT !.blob = "null", !.freed = @ + 1]

Link ==
  /\ InList({"link"})
  /\ \/ /\ \E id \in {Item.id} \cup ToSet(Item.refs) : ~Visited(cg, id) \/ ~Owned(id)
        /\ Fail("unresolved", cg)
     \/ /\ \A id \in {Item.id} \cup ToSet(Item.refs) : Visited(cg, id) /\ Owned(id)
        /\ cg' = [cg EXCEPT !.funcs[at] = Release(@)]
        /\ Step
        /\ UNCHANGED <<ctx, pending, image>>

-----------------------------------------------------------------------------
(* jit_codegen_fill_functions and jit_codegen_fill_tables.                 *)

(* jit_get_indirect: the addresses that are given out get an endbr64. *)
Publish_Unmarked(img, ids) == img

Publish(img, ids) == [img EXCEPT !.endbr = @ \cup (ids \ {0})]

FillExport ==
  /\ InList({"fill_exports", "fill_start"})
  /\ LET id == ctx.body[Item]
     IN  \/ /\ id # 0 /\ ~Visited(cg, id)
            /\ Fail("unresolved", cg)
         \/ /\ id = 0 \/ Visited(cg, id)
            /\ image' = Publish(image, {id})
            /\ Step
            /\ UNCHANGED <<ctx, pending, cg>>

FillSegment ==
  /\ InList({"fill_elems"})
  /\ LET t == Item.table
         callable(f) == f \in DOMAIN ctx.thunk /\ Visited(cg, ctx.thunk[f])
         placed == [image EXCEPT !.slots[t] =
                      [s \in DOMAIN @ |-> IF s - Item.offset \in DOMAIN Item.funcs
                                          THEN ctx.thunk[Item.funcs[s - Item.offset]] ELSE @[s]]]
     IN  \/ /\ t \notin DOMAIN mod.tables
            /\ Fail("segment", cg)
         \/ /\ t \in DOMAIN mod.tables
            /\ t \notin ctx.used
            /\ Step
            /\ UNCHANGED <<ctx, pending, cg, image>>
         \/ /\ t \in ctx.used
            /\ Item.offset + Len(Item.funcs) > mod.tables[t]
            /\ Fail("segment", cg)
         \/ /\ t \in ctx.used
            /\ Item.offset + Len(Item.funcs) <= mod.tables[t]
            /\ \E f \in ToSet(Item.funcs) : ~callable(f)
            /\ Fail("unresolved", cg)
         \/ /\ t \in ctx.used
            /\ Item.offset + Len(Item.funcs) <= mod.tables[t]
            /\ \A f \in ToSet(Item.funcs) : callable(f)
            /\ image' = Publish(placed, {ctx.thunk[f] : f \in ToSet(Item.funcs)})
            /\ Step
            /\ UNCHANGED <<ctx, pending, cg>>

(* The bytes of the binary, from and to, that the step at hand writes: a   *)
(* blob's code and pool, the endbr64 before an entry, a segment's slots.   *)
Mark(id) == LET entry == cg.funcs[cg.idx[id]].entry IN <<entry - 4, entry>>

Written ==
  CASE InList({"link"}) ->
         {<<Item.entry, Item.entry + Item.size>>,
          <<image.rx + Item.pool, image.rx + Item.pool + Item.constants>>}
    [] InList({"fill_exports", "fill_start"}) ->
         {Mark(id) : id \in {ctx.body[Item]} \cap DOMAIN cg.idx}
    [] InList({"fill_elems"}) /\ Item.table \in ctx.used ->
         LET slot(n) == image.rx + cg.tables[Item.table] + Slot * (Item.offset + n)
             thunks == {ctx.thunk[f] : f \in ToSet(Item.funcs) \cap DOMAIN ctx.thunk}
         IN  IF Item.offset + Len(Item.funcs) <= mod.tables[Item.table]
             THEN {<<slot(0), slot(Len(Item.funcs))>>} \cup {Mark(id) : id \in thunks \cap DOMAIN cg.idx}
             ELSE {}
    [] OTHER -> {}

(* A wrapped size leaves too small an image.  A write outside it is        *)
(* undefined: it may end the process, or go unnoticed for now.             *)
Faults ==
  /\ \E bytes \in Written :
       bytes[1] < bytes[2] /\ (bytes[1] < 0 \/ image.rx + image.ro < bytes[2])
  /\ phase' = "crashed"
  /\ UNCHANGED <<mod, at, ctx, pending, cg, image, why>>

(* The code becomes executable and the codegen state is freed. *)
Lock ==
  /\ phase = "lock"
  /\ phase' = "done"
  /\ cg' = Cleanup(cg)
  /\ UNCHANGED <<mod, at, ctx, pending, image, why>>

Next ==
  \/ Advance
  \/ Abort
  \/ PrepareRoot
  \/ PrepareSegment
  \/ PrepareElem
  \/ BuildNext
  \/ BuildCall
  \/ TryRoots
  \/ TryFunction
  \/ RegisterImport
  \/ PopQueue
  \/ CodegenFunction
  \/ PushCallee
  \/ LayTable
  \/ Allocate
  \/ Link
  \/ FillExport
  \/ FillSegment
  \/ Faults
  \/ Lock

Spec == Init /\ [][Next]_vars

-----------------------------------------------------------------------------

Fns == DOMAIN cg.funcs

PoolFns == {k \in Fns : cg.funcs[k].pool # -1}

TypeOK ==
  /\ mod \in Modules
  /\ phase \in DOMAIN Following \cup {"alloc", "lock", "done", "failed", "crashed"}
  /\ at \in Nat \ {0}
  /\ ToSet(ctx.queue) \subseteq DOMAIN ctx.body
  /\ \A f \in DOMAIN ctx.body : ctx.body[f] \in 0 .. Len(ctx.ids)
  /\ \A f \in DOMAIN ctx.thunk : ctx.thunk[f] \in DOMAIN ctx.ids
  /\ \A c \in ToSet(pending) : c.do \in {"emit", "push"} => c.arg \in DOMAIN ctx.ids
  /\ ToSet(cg.queue) \subseteq DOMAIN ctx.ids
  /\ \A id \in DOMAIN cg.idx : cg.idx[id] \in Fns
  /\ cg.code \in Nat /\ cg.rodata \in 0 .. SizeRange - 1
  /\ why \in {"none", "external", "unprepared", "unused_import", "unresolved", "segment"}

(* As long as the code is below 2^32 bytes: functions lie one after the    *)
(* other, their entries aligned, and before every entry there are 16 bytes *)
(* that belong to no function: jit_get_indirect can write an endbr64 there *)
(* after linking.                                                          *)
CodeLayout ==
  ~Broken /\ cg.code < OffsetRange =>
    /\ \A k \in Fns : cg.funcs[k].entry % Endbr = 0 /\ cg.funcs[k].entry + cg.funcs[k].size <= cg.code
    /\ \A j, k \in Fns : j < k =>
         cg.funcs[j].entry + cg.funcs[j].size <= cg.funcs[k].entry - Endbr
    /\ Fns # {} => Endbr <= cg.funcs[1].entry
    /\ phase = "link" => cg.code <= image.rx

(* As long as the rodata is below 2^32 bytes: constant pools and used      *)
(* tables do not overlap in it, and the slots of a table are aligned       *)
(* pointers.  Beyond, pools do overlap: a stored offset is cut to 32 bits. *)
RodataLayout ==
  ~Broken /\ cg.fits =>
    /\ \A j, k \in PoolFns : j < k => cg.funcs[j].pool + cg.funcs[j].constants <= cg.funcs[k].pool
    /\ \A k \in PoolFns : 0 <= cg.funcs[k].pool /\ cg.funcs[k].pool + cg.funcs[k].constants <= cg.rodata
    /\ \A t \in DOMAIN cg.tables :
         /\ cg.tables[t] % Slot = 0
         /\ cg.tables[t] + Slot * mod.tables[t] <= cg.rodata
         /\ \A k \in PoolFns : cg.funcs[k].pool + cg.funcs[k].constants <= cg.tables[t]
         /\ \A u \in DOMAIN cg.tables : u < t => cg.tables[u] + Slot * mod.tables[u] <= cg.tables[t]
    /\ phase = "link" => cg.rodata <= image.ro

(* The constant pool of a function is aligned as its blob demands.         *)
PoolsAligned == \A k \in PoolFns : cg.funcs[k].pool % cg.funcs[k].align = 0

(* An import that neither a root nor a call leads to: some set of          *)
(* functions has the exports, the segments and the start function and,     *)
(* with an own function, all that it calls, but not that import.           *)
UnusedImport ==
  LET roots == ToSet(mod.exports) \cup ToSet(Start) \cup UNION {ToSet(e.funcs) : e \in ToSet(mod.elems)}
  IN  \E f \in 0 .. mod.imports - 1 :
        \E S \in SUBSET (0 .. mod.imports + mod.funcs - 1) :
          /\ f \notin S /\ roots \subseteq S
          /\ \A g \in S : IsImport(g) \/ ToSet(mod.calls[g]) \subseteq S

(* The two worklists agree: whatever jit_codegen looks up (a callee of     *)
(* emitted code, an exported function, a table entry's thunk, the owner of *)
(* a relocation, an import) was prepared by jit_emit_spidir and emitted,   *)
(* although the optimiser may have removed calls in between.  The only     *)
(* lookup that can fail is that of an import which the module never uses.  *)
ClosureComplete ==
  /\ why \notin {"unprepared", "unresolved"}
  /\ why = "unused_import" => UnusedImport

(* A module with an import that nothing uses does not compile: the list of *)
(* imports is looked up as a whole, while only functions that are used     *)
(* have been prepared.                                                     *)
UnusedRefused == phase = "done" => ~UnusedImport

(* Every function is emitted at most once, and the index by which callers  *)
(* find a function leads to its own code.                                  *)
EmittedOnce ==
  ~Broken =>
    /\ \A j, k \in Fns : cg.funcs[j].id = cg.funcs[k].id => j = k
    /\ DOMAIN cg.idx = {cg.funcs[k].id : k \in Fns}
    /\ \A id \in DOMAIN cg.idx : cg.funcs[cg.idx[id]].id = id

(* However compilation ends, no blob is leaked and none is destroyed twice *)
(* (by the linker and by the cleanup path).                                *)
BlobsFreedOnce == phase \in {"done", "failed"} => \A k \in Fns : cg.funcs[k].blob # "live" /\ cg.funcs[k].freed <= 1

(* A failed compilation destroys only handles that spidir returned.        *)
OnlyBlobsDestroyed == \A k \in Fns : cg.funcs[k].blob # "destroyed_wild"

(* In a finished binary (with code and rodata below 2^32 bytes) each slot  *)
(* of a table that call_indirect reads is null or leads to the thunk of    *)
(* the function that the last segment to cover it names, never to an       *)
(* unchecked body; and all published code starts with an endbr64.          *)
IndirectTargets ==
  phase = "done" /\ cg.code < OffsetRange /\ cg.fits =>
    /\ \A t \in DOMAIN image.slots : \A s \in DOMAIN image.slots[t] :
         LET covers == {i \in DOMAIN mod.elems : /\ mod.elems[i].table = t
                                                 /\ s - mod.elems[i].offset \in DOMAIN mod.elems[i].funcs}
             slot == image.slots[t][s]
         IN  /\ slot = 0 <=> covers = {}
             /\ slot # 0 =>
                  /\ \E i \in covers :
                       /\ \A j \in covers : j <= i
                       /\ ctx.ids[slot] = [kind |-> "thunk", of |-> mod.elems[i].funcs[s - mod.elems[i].offset]]
                  /\ slot \in image.endbr
    /\ \A f \in ToSet(mod.exports) \cup ToSet(Start) : IsImport(f) \/ ctx.body[f] \in image.endbr

=============================================================================
