------------------------------- MODULE Loader -------------------------------
(***************************************************************************)
(* wasm_load_module of src/module.c: sections are pulled from the file,    *)
(* checked against the order of the format and parsed element by element   *)
(* into arrays of wasm_module_t; wasm_module_free releases a module in any *)
(* state of completion.                                                    *)
(*                                                                         *)
(* A file is what the loader finds in it: at each point the next section   *)
(* or element, or bytes that some CHECK refuses.  `left` bounds the number *)
(* of ordered sections, their elements and the names; there may be any     *)
(* number of custom sections.  Pointers are sets with at most one block;    *)
(* the count of an array is the length of `items`, an element has the      *)
(* blocks it owns and the indices it refers to.                            *)
(*                                                                         *)
(* What the C code leaves undefined (a copy into NULL, an access outside   *)
(* an array) is the state "crashed", of which nothing more is said; an     *)
(* access that only reads may also do no harm.                             *)
(*                                                                         *)
(* An operator X_Y next to X is X with a fault; nothing here uses it.      *)
(***************************************************************************)
EXTENDS Integers, Sequences, FiniteSets

CONSTANTS
  FileLen,    (* bound: ordered sections, their elements and names in the    *)
              (* longest file, without the code section                      *)
  MaxBlocks   (* bound: the names of heap blocks                             *)

ASSUME LoaderAssumption ==
  /\ FileLen \in Nat
  /\ MaxBlocks \in Nat

VARIABLES
  heap,           (* the blocks allocated and not freed                      *)
  module,         (* the wasm_module_t                                       *)
  current_index,  (* the place in the section order                          *)
  sec,            (* the section that is being parsed                        *)
  temp,           (* blocks that only local variables of the parser hold     *)
  left,           (* what is left of the file                                *)
  load            (* "idle", "parsing", "ok", "failed" or "crashed"          *)

loaderVars == <<heap, module, current_index, sec, temp, left, load>>

Blocks == 1 .. MaxBlocks

Kinds == {"type", "import", "function", "table", "global", "export", "elem",
          "code", "data", "names"}

NoArray == [ptr |-> {}, items |-> <<>>]

NoSection == [kind |-> "none"]

(* memset, and start_func = -1; wasm_module_free leaves a plain memset. *)
Zeroed == [arrays |-> [k \in Kinds |-> NoArray], module_name |-> {}, start |-> -1]

Freed == [Zeroed EXCEPT !.start = 0]

Count(m, kind) == Len(m.arrays[kind].items)

(* imports_count + functions_count *)
TotalFuncs(m) == Count(m, "import") + Count(m, "function")

-----------------------------------------------------------------------------

(* The blocks an element owns at most, and whether it takes them over when *)
(* it is complete or at once, so that wasm_module_free finds them.         *)
BlocksOf(kind) ==
  CASE kind \in {"type", "import"} -> 2
    [] kind \in {"export", "elem", "code", "data"} -> 1
    [] OTHER -> 0

TakenAtOnce(kind) == kind \in {"type", "code"}

(* CALLOC'd elements are zero: they own nothing and refer to nothing. *)
ZeroItem == [own |-> {}, refs |-> {}]

(* How many elements of an array wasm_module_free visits. *)
Visited(m, kind) ==
  CASE kind = "code"  -> IF m.arrays["code"].ptr = {} THEN 0 ELSE Count(m, "function")
    [] kind = "names" -> IF m.arrays["names"].ptr = {} THEN 0 ELSE TotalFuncs(m)
    [] OTHER -> Count(m, kind)

(* The walk leaves the array of names. *)
ShortNames(m) == Count(m, "names") < Visited(m, "names")

(* The blocks it frees. *)
FreedBy_ArraysOnly(m) == m.module_name \cup UNION {m.arrays[k].ptr : k \in Kinds}

FreedBy(m) ==
  m.module_name \cup
  UNION {m.arrays[k].ptr \cup
         UNION {m.arrays[k].items[i].own : i \in (1 .. Visited(m, k)) \cap (1 .. Count(m, k))}
           : k \in Kinds}

(* wasm_module_free: called by the loader on failure, and by its callers. *)
wasm_module_free(blocks) ==
  /\ heap' = (heap \ blocks) \ FreedBy(module)
  /\ module' = Freed

LoaderInit ==
  /\ heap = {}
  /\ module = Zeroed
  /\ current_index = 0
  /\ sec = NoSection
  /\ temp = {}
  /\ left \in 0 .. FileLen
  /\ load = "idle"

(* m_expected_section_order, and find_section_index counting from one. *)
SectionOrder == <<"type", "import", "function", "table", "memory", "tag", "global",
                  "export", "start", "elem", "datacount", "code", "data">>

FindSectionIndex(id, index) == {i \in index + 1 .. Len(SectionOrder) : SectionOrder[i] = id}

(* The index after a section at place i, which is i - 1 in the C code. *)
Advance_Never(i) == current_index

Advance(i) == i

(* CALLOC: a block that is not in use; when there is none, only the        *)
(* failures are left.                                                      *)
NewBlock == CHOOSE b \in Blocks : b \notin heap

Allocate == heap # Blocks /\ heap' = heap \cup {NewBlock}

-----------------------------------------------------------------------------

LoadModule ==
  /\ load = "idle"
  /\ load' = "parsing"
  /\ module' = Zeroed
  /\ UNCHANGED <<heap, current_index, sec, temp, left>>

AtSection == load = "parsing" /\ sec = NoSection

Reaches(id, size) ==
  /\ AtSection
  /\ left >= size
  /\ left' = left - size
  /\ \E i \in FindSectionIndex(id, current_index) : current_index' = Advance(i)

(* A section that is a vector: its array is allocated, with n zero         *)
(* elements.  A type section has at least one type (`<` in its CHECK); a   *)
(* code section has one body for each function.                            *)
VectorSection(kind, n) ==
  /\ Reaches(kind, IF kind = "code" THEN 0 ELSE 1 + n)
  /\ kind = "type" => n > 0
  /\ kind = "code" => n = Count(module, "function")
  /\ Allocate
  /\ module' = [module EXCEPT !.arrays[kind] =
                  [ptr |-> {NewBlock}, items |-> [i \in 1 .. n |-> ZeroItem]]]
  /\ sec' = [kind |-> kind, done |-> 0]
  /\ UNCHANGED <<temp, load>>

(* The memory section, which only fills in limits, and the data count,     *)
(* which is ignored.  A tag section is known to the order but not to the   *)
(* switch: it is refused.                                                  *)
PlainSection(kind) ==
  /\ Reaches(kind, 1)
  /\ UNCHANGED <<heap, module, sec, temp, load>>

(* The index is stored before it is checked. *)
StartSection(f) ==
  /\ Reaches("start", 1)
  /\ module' = [module EXCEPT !.start = f]
  /\ sec' = [kind |-> "start", done |-> 0]
  /\ UNCHANGED <<heap, temp, load>>

InVector == load = "parsing" /\ sec.kind \in Kinds \ {"names"}

Current == sec.done + 1

Held == IF TakenAtOnce(sec.kind) THEN module.arrays[sec.kind].items[Current].own ELSE temp

(* The next block of the current element: an argument or result list, a    *)
(* name, a list of functions, the bytes of a body or segment.              *)
AtBlock ==
  /\ InVector
  /\ sec.done < Count(module, sec.kind)
  /\ Cardinality(Held) < BlocksOf(sec.kind)

ElementBlock ==
  /\ AtBlock
  /\ Allocate
  /\ IF TakenAtOnce(sec.kind)
     THEN /\ module' = [module EXCEPT !.arrays[sec.kind].items[Current].own = @ \cup {NewBlock}]
          /\ UNCHANGED temp
     ELSE /\ temp' = temp \cup {NewBlock}
          /\ UNCHANGED module
  /\ UNCHANGED <<current_index, sec, left, load>>

Crashes ==
  /\ load' = "crashed"
  /\ UNCHANGED <<heap, module, current_index, sec, temp, left>>

(* The names of imports and exports are copied into what CALLOC returned,  *)
(* NULL included; the other allocations are CHECKed.                       *)
NullCopied ==
  /\ AtBlock
  /\ sec.kind \in {"import", "export"}
  /\ Crashes

(* The spaces that an element's index may name: export 0x00 a function,    *)
(* 0x03 a global, 0x02 the memory, which has no array.  A type refers to   *)
(* nothing; that it has operands or results is noted instead.              *)
Refs(kind) ==
  CASE kind \in {"import", "function"} -> {{<<"type", i>>} : i \in 0 .. FileLen}
    [] kind = "elem"   -> {{}} \cup {{<<"func", i>>} : i \in 0 .. FileLen}
    [] kind = "export" -> {{}} \cup {{<<s, i>>} : s \in {"func", "global"}, i \in 0 .. FileLen}
    [] kind = "type"   -> {{}, {<<"operands", 0>>}}
    [] OTHER -> {{}}

Valid(m, r) ==
  CASE r[1] = "func"     -> r[2] < TotalFuncs(m)
    [] r[1] = "operands" -> TRUE
    [] OTHER             -> r[2] < Count(m, r[1])

(* The element is complete and stored, the locals are cleared. *)
ElementEnd(refs) ==
  /\ InVector
  /\ sec.done < Count(module, sec.kind)
  /\ Cardinality(Held) = BlocksOf(sec.kind)
  /\ refs \in Refs(sec.kind)
  /\ \A r \in refs : Valid(module, r)
  /\ module' = [module EXCEPT !.arrays[sec.kind].items[Current] =
                  [own |-> @.own \cup temp, refs |-> refs]]
  /\ temp' = {}
  /\ sec' = [sec EXCEPT !.done = @ + 1]
  /\ UNCHANGED <<heap, current_index, left, load>>

VectorEnd ==
  /\ InVector
  /\ sec.done = Count(module, sec.kind)
  /\ sec' = NoSection
  /\ UNCHANGED <<heap, module, current_index, temp, left, load>>

(* The signature of function f of the joint index space (wasm_get_func). *)
TypeOf(m, f) ==
  LET item == IF f < Count(m, "import")
              THEN m.arrays["import"].items[f + 1]
              ELSE m.arrays["function"].items[f - Count(m, "import") + 1]
  IN CHOOSE i \in 0 .. FileLen : <<"type", i>> \in item.refs

EmptySignature(m, f) == m.arrays["type"].items[TypeOf(m, f) + 1].refs = {}

StartEnd ==
  /\ load = "parsing" /\ sec.kind = "start"
  /\ module.start < TotalFuncs(module)
  /\ EmptySignature(module, module.start)
  /\ sec' = NoSection
  /\ UNCHANGED <<heap, module, current_index, temp, left, load>>

-----------------------------------------------------------------------------

(* The functions that the name section knows. *)
NameSlots_HighestIndex(m) == IF TotalFuncs(m) = 0 THEN 0 ELSE TotalFuncs(m) - 1

NameSlots(m) == TotalFuncs(m)

(* A custom section may come anywhere, and more than once; the name        *)
(* section is the only one that is read.  Its total_funcs is counted here. *)
NameSection ==
  /\ AtSection
  /\ sec' = [kind |-> "names", done |-> 0, total |-> NameSlots(module)]
  /\ UNCHANGED <<heap, module, current_index, temp, left, load>>

InNames == load = "parsing" /\ sec.kind = "names"

(* Subsection 0: the first non-empty module name is kept. *)
ModuleName ==
  /\ InNames
  /\ left > 0 /\ left' = left - 1
  /\ module.module_name = {}
  /\ Allocate
  /\ module' = [module EXCEPT !.module_name = {NewBlock}]
  /\ UNCHANGED <<current_index, sec, temp, load>>

(* Subsection 1 allocates the array once, for the functions known then. *)
FunctionNames ==
  /\ InNames
  /\ sec.done = 0
  /\ IF module.arrays["names"].ptr = {} /\ sec.total # 0
     THEN /\ Allocate
          /\ module' = [module EXCEPT !.arrays["names"] =
                          [ptr |-> {NewBlock}, items |-> [i \in 1 .. sec.total |-> ZeroItem]]]
     ELSE UNCHANGED <<heap, module>>
  /\ sec' = [sec EXCEPT !.done = 1]
  /\ UNCHANGED <<current_index, temp, left, load>>

(* One entry: the name is copied (an empty one is NULL) and replaces the   *)
(* old one, or is dropped when the index is out of range, which is tested  *)
(* against the functions known now and not against the array.              *)
OldName(f) == module.arrays["names"].items[f + 1].own

Stored(f) == f < sec.total /\ module.arrays["names"].ptr # {}

AtName == InNames /\ sec.done = 1

FunctionName(f, named) ==
  /\ AtName
  /\ left > 0 /\ left' = left - 1
  /\ named => heap # Blocks
  /\ Stored(f) => f < Count(module, "names")
  /\ LET name == IF named THEN {NewBlock} ELSE {} IN
       IF Stored(f)
       THEN /\ heap' = (heap \ OldName(f)) \cup name
            /\ module' = [module EXCEPT !.arrays["names"].items[f + 1].own = name]
       ELSE UNCHANGED <<heap, module>>
  /\ UNCHANGED <<current_index, sec, temp, load>>

NameOutside(f) ==
  /\ AtName
  /\ Stored(f) /\ f >= Count(module, "names")
  /\ Crashes

NamesEnd ==
  /\ InNames
  /\ sec' = NoSection
  /\ UNCHANGED <<heap, module, current_index, temp, left, load>>

-----------------------------------------------------------------------------

(* The end of the file: functions need a code section. *)
FileEnd ==
  /\ load = "parsing" /\ sec = NoSection
  /\ Count(module, "function") > 0 => module.arrays["code"].ptr # {}
  /\ load' = "ok"
  /\ UNCHANGED <<heap, module, current_index, sec, temp, left>>

(* Any CHECK can fail at any point: truncated or malformed bytes, an index *)
(* out of range, no memory.  The parser frees its locals, the loader the   *)
(* module.                                                                 *)
LoadFails ==
  /\ load = "parsing"
  /\ wasm_module_free(temp)
  /\ load' = "failed"
  /\ sec' = NoSection
  /\ temp' = {}
  /\ UNCHANGED <<current_index, left>>

(* Freeing the module may follow a pointer found behind the names. *)
FreeOutside ==
  /\ load = "parsing"
  /\ ShortNames(module)
  /\ Crashes

LoaderStep ==
  \/ \E kind \in Kinds \ {"names"}, n \in 0 .. FileLen : VectorSection(kind, n)
  \/ \E kind \in {"memory", "datacount"} : PlainSection(kind)
  \/ \E f \in 0 .. FileLen : StartSection(f)
  \/ ElementBlock
  \/ InVector /\ \E refs \in Refs(sec.kind) : ElementEnd(refs)
  \/ VectorEnd \/ StartEnd
  \/ NameSection \/ ModuleName \/ FunctionNames \/ NamesEnd
  \/ \E f \in 0 .. FileLen, named \in BOOLEAN : FunctionName(f, named)
  \/ \E f \in 0 .. FileLen : NameOutside(f)
  \/ FileEnd \/ LoadFails \/ NullCopied \/ FreeOutside

-----------------------------------------------------------------------------

(* The places in a module that hold a pointer to block b. *)
Holders(m, b) ==
  {<<k, 0>> : k \in {l \in Kinds : b \in m.arrays[l].ptr}} \cup
  (IF b \in m.module_name THEN {<<"module_name", 0>>} ELSE {}) \cup
  UNION {{<<k, i>> : i \in {j \in 1 .. Count(m, k) : b \in m.arrays[k].items[j].own}} : k \in Kinds}

(* Each block belongs to one place in the module or to one local of a      *)
(* parser, and each pointer to a block that is allocated: a section that   *)
(* came twice would lose the first array, an element half read must not be *)
(* freed by the parser and again with the module, a replaced name not be   *)
(* forgotten, and a failed load leaves nothing behind.                     *)
ModuleOwned ==
  /\ \A b \in Blocks :
       Cardinality(Holders(module, b)) + (IF b \in temp THEN 1 ELSE 0) = IF b \in heap THEN 1 ELSE 0
  /\ load = "failed" => heap = {}

(* What the compiler and the driver use without checking it again: every   *)
(* index stored in a loaded module is in range, every function has a body, *)
(* and the start function can be called without arguments.                 *)
ModuleSound ==
  load = "ok" /\ module # Freed =>
    /\ \A k \in Kinds : \A i \in 1 .. Count(module, k) :
         \A r \in module.arrays[k].items[i].refs : Valid(module, r)
    /\ Count(module, "code") = Count(module, "function")
    /\ module.start >= 0 =>
         module.start < TotalFuncs(module) /\ EmptySignature(module, module.start)

(* The array of function names was sized by the functions known when the   *)
(* name section came: the file order leaves all of them, or the imports    *)
(* alone; no user can run past it in a module without functions of its own.*)
NamesSized ==
  module.arrays["names"].ptr # {} =>
    Count(module, "names") \in {Count(module, "import"), TotalFuncs(module)}

(* The array of function names of a loaded module has an element for every *)
(* function, which is how many the JIT, the debug ELF and wasm_module_free *)
(* visit, wherever in the file the name section was.                       *)
NamesInBounds ==
  load = "ok" /\ module.arrays["names"].ptr # {} => Count(module, "names") = TotalFuncs(module)

=============================================================================
