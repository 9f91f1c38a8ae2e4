--------------------------- MODULE Loader_proofs ---------------------------
(***************************************************************************)
(* An inductive invariant of the module loader.  Program_proofs carries it *)
(* through the steps of the driver, which calls the loader and frees the   *)
(* module.                                                                 *)
(*                                                                         *)
(* What each section leaves behind is sound because the sections come in   *)
(* order: nothing that was checked against an array is still there when    *)
(* that array changes again.  What the module owns is a partition of the   *)
(* heap by the places that hold a pointer.                                 *)
(***************************************************************************)
EXTENDS Loader, FiniteSetTheorems, TLAPS

Vectors == Kinds \ {"names"}

RefType == {"type", "func", "global", "operands"} \X Nat

ItemType == [own : SUBSET Blocks, refs : SUBSET RefType]

ArrayType == [ptr : SUBSET Blocks, items : Seq(ItemType)]

ModuleType == [arrays : [Kinds -> ArrayType], module_name : SUBSET Blocks, start : Int]

SecType ==
  {NoSection} \cup [kind : Vectors \cup {"start"}, done : Nat]
              \cup [kind : {"names"}, done : Nat, total : Nat]

LTypeOK ==
  /\ heap \in SUBSET Blocks
  /\ temp \in SUBSET Blocks
  /\ module \in ModuleType
  /\ current_index \in 0 .. 13
  /\ sec \in SecType

(* The section being parsed is the one that current_index points to, and   *)
(* only an element that is half read has blocks of its own.                *)
ShapeInv ==
  /\ load \notin {"parsing", "crashed"} => sec = NoSection
  /\ sec.kind \in Vectors \cup {"start"} =>
       current_index \in 1 .. 13 /\ SectionOrder[current_index] = sec.kind
  /\ sec.kind \in Vectors => sec.done <= Count(module, sec.kind)
  /\ temp # {} =>
       /\ sec.kind \in Vectors /\ ~TakenAtOnce(sec.kind)
       /\ sec.done < Count(module, sec.kind)

(* The arrays of sections that are still to come do not exist. *)
OrderInv ==
  /\ \A k \in Kinds, i \in 1 .. 13 :
       SectionOrder[i] = k /\ i > current_index => module.arrays[k] = NoArray
  /\ \A k \in Kinds : module.arrays[k].ptr = {} => module.arrays[k].items = <<>>

RefsValid(m) ==
  \A k \in Kinds : \A i \in 1 .. Count(m, k) : \A r \in m.arrays[k].items[i].refs : Valid(m, r)

BodiesInv == module.arrays["code"].ptr # {} => Count(module, "code") = Count(module, "function")

(* A start function that was checked stays what it was: the section comes  *)
(* after all that the check looks at.                                      *)
StartOK(m) == m.start < TotalFuncs(m) /\ EmptySignature(m, m.start)

StartInv ==
  /\ load = "parsing" \/ (load = "ok" /\ module # Freed)
  /\ module.start >= 0
  => current_index >= 9 /\ (sec.kind = "start" \/ StartOK(module))

LoadedInv == load = "ok" /\ module # Freed => Count(module, "code") = Count(module, "function")

SoundInv == RefsValid(module) /\ BodiesInv /\ StartInv /\ LoadedInv

(* An array of function names was made when there were functions, for the  *)
(* imports or for all of them; the current name section counted those that *)
(* are there now.                                                          *)
NamesInv ==
  /\ NamesSized
  /\ module.arrays["names"].ptr # {} => Count(module, "names") # 0
  /\ sec.kind = "names" => sec.total = TotalFuncs(module)

-----------------------------------------------------------------------------

(* The places that hold pointers, and the blocks at each. *)
Temp == <<"temp", 0>>

Name == <<"module_name", 0>>

Places == {Temp, Name} \cup (Kinds \X Nat)

ItemOwns(m, k, i) == IF i \in 1 .. Count(m, k) THEN m.arrays[k].items[i].own ELSE {}

BlocksAt(m, t, p) ==
  CASE p = Temp -> t
    [] p = Name -> m.module_name
    [] OTHER    -> IF p[2] = 0 THEN m.arrays[p[1]].ptr ELSE ItemOwns(m, p[1], p[2])

Holding(m, t) == [p \in Places |-> BlocksAt(m, t, p)]

Partition(f, H) ==
  /\ \A p \in Places : f[p] \subseteq H
  /\ \A b \in H : \E p \in Places : b \in f[p]
  /\ \A p, q \in Places : p # q => f[p] \cap f[q] = {}

OwnInv ==
  /\ Partition(Holding(module, temp), heap)
  /\ load \in {"idle", "failed"} => heap = {}

OrderedInv == LTypeOK /\ ShapeInv /\ OrderInv /\ SoundInv

OwnedInv == OrderedInv /\ NamesInv /\ OwnInv

-----------------------------------------------------------------------------
(* The order of sections.                                                  *)

(* No section comes twice, and a search finds a later place. *)
LEMMA OrderFacts ==
  /\ Len(SectionOrder) = 13
  /\ \A i, j \in 1 .. 13 : SectionOrder[i] = SectionOrder[j] => i = j
  /\ \A i \in 1 .. 13 : SectionOrder[i] # "names"
  /\ \A i \in 1 .. 13 : SectionOrder[i] \in {"type", "import", "function"} => i <= 3
  /\ \A i \in 1 .. 13 : SectionOrder[i] = "start" => i = 9
  /\ \A i \in 1 .. 13 : SectionOrder[i] = "function" => i = 3
  /\ \A i \in 1 .. 13 : SectionOrder[i] = "code" => i = 12
  /\ SectionOrder[3] = "function" /\ SectionOrder[12] = "code"
<1>1. \A i \in 1 .. 13 : \/ i = 1 \/ i = 2 \/ i = 3 \/ i = 4 \/ i = 5 \/ i = 6 \/ i = 7
                         \/ i = 8 \/ i = 9 \/ i = 10 \/ i = 11 \/ i = 12 \/ i = 13
  OBVIOUS
<1>2. \A i, j \in 1 .. 13 : SectionOrder[i] = SectionOrder[j] => i = j
  BY <1>1, SMTT(60) DEF SectionOrder
<1> QED  BY <1>1, <1>2, SMTT(60) DEF SectionOrder

LEMMA ReachesFacts ==
  ASSUME NEW id, NEW size, LTypeOK, Reaches(id, size)
  PROVE  /\ load = "parsing" /\ sec = NoSection
         /\ current_index' \in 1 .. 13 /\ current_index' > current_index
         /\ SectionOrder[current_index'] = id
<1>1. PICK i \in FindSectionIndex(id, current_index) : current_index' = i
  BY DEF Reaches, Advance
<1>2. i \in current_index + 1 .. 13 /\ SectionOrder[i] = id
  BY <1>1, OrderFacts DEF FindSectionIndex
<1> QED  BY <1>1, <1>2 DEF Reaches, AtSection, LTypeOK

LEMMA NewBlockIsNew ==
  ASSUME heap \subseteq Blocks, heap # Blocks
  PROVE  NewBlock \in Blocks /\ NewBlock \notin heap
<1>1. \E b \in Blocks : b \notin heap
  OBVIOUS
<1> QED  BY <1>1 DEF NewBlock

-----------------------------------------------------------------------------
(* What an assignment to a part of the module changes.                     *)

LEMMA ModuleShape ==
  ASSUME NEW m \in ModuleType, NEW k \in Kinds
  PROVE  /\ m.arrays[k] \in ArrayType
         /\ m.arrays[k].ptr \subseteq Blocks
         /\ m.arrays[k].items \in Seq(ItemType)
         /\ Count(m, k) \in Nat
         /\ \A i \in 1 .. Count(m, k) :
              /\ m.arrays[k].items[i] \in ItemType
              /\ m.arrays[k].items[i].own \subseteq Blocks
              /\ m.arrays[k].items[i].refs \subseteq RefType
         /\ TotalFuncs(m) \in Nat
<1>1. \A l \in Kinds : m.arrays[l] \in ArrayType
  BY DEF ModuleType
<1>2. \A l \in Kinds : m.arrays[l].items \in Seq(ItemType) /\ Count(m, l) \in Nat
  BY <1>1 DEF ArrayType, Count
<1>3. "import" \in Kinds /\ "function" \in Kinds
  BY DEF Kinds
<1>4. TotalFuncs(m) \in Nat
  BY <1>2, <1>3 DEF TotalFuncs
<1>5. \A i \in 1 .. Count(m, k) : m.arrays[k].items[i] \in ItemType
  BY <1>2 DEF Count
<1> QED  BY <1>1, <1>2, <1>4, <1>5 DEF ArrayType, ItemType

WithOwn(m, k, i, own) == [m EXCEPT !.arrays[k].items[i].own = own]

WithItem(m, k, i, x) == [m EXCEPT !.arrays[k].items[i] = x]

(* The blocks of an element are replaced, or nothing is when there is no   *)
(* such element.                                                           *)
OwnReplaced(m, n, k, i, own) ==
  /\ n \in ModuleType
  /\ \A l \in Kinds : l # k => n.arrays[l] = m.arrays[l]
  /\ n.arrays[k].ptr = m.arrays[k].ptr
  /\ Count(n, k) = Count(m, k)
  /\ \A j \in 1 .. Count(m, k) :
       /\ n.arrays[k].items[j].refs = m.arrays[k].items[j].refs
       /\ j # i => n.arrays[k].items[j] = m.arrays[k].items[j]
       /\ j = i => n.arrays[k].items[j].own = own
  /\ n.start = m.start /\ n.module_name = m.module_name

LEMMA OwnAssigned ==
  ASSUME NEW m \in ModuleType, NEW k \in Kinds, NEW i \in Int, NEW own \in SUBSET Blocks,
         NEW n, n = WithOwn(m, k, i, own)
  PROVE  OwnReplaced(m, n, k, i, own)
<1> DEFINE its == m.arrays[k].items
           new == [its EXCEPT ![i].own = own]
           arr == [m.arrays[k] EXCEPT !.items = new]
<1>1. m.arrays[k] \in ArrayType /\ its \in Seq(ItemType) /\ Len(its) \in Nat
  BY ModuleShape DEF Count
<1>2. n = [m EXCEPT !.arrays[k] = arr]
  BY DEF WithOwn
<1>3. /\ new \in Seq(ItemType) /\ Len(new) = Len(its)
      /\ \A j \in 1 .. Len(its) :
           /\ new[j].refs = its[j].refs
           /\ j # i => new[j] = its[j]
           /\ j = i => new[j].own = own
  <2> HIDE DEF its
  <2>1. \A j \in 1 .. Len(its) : its[j] \in ItemType
    BY <1>1
  <2>2. DOMAIN new = 1 .. Len(its)
    BY <1>1
  <2>3. \A j \in 1 .. Len(its) : new[j] = IF j = i THEN [its[j] EXCEPT !.own = own] ELSE its[j]
    BY <1>1
  <2>4. \A j \in 1 .. Len(its) : [its[j] EXCEPT !.own = own] \in ItemType
    BY <2>1 DEF ItemType
  <2>5. new \in [1 .. Len(its) -> ItemType]
    BY <2>1, <2>2, <2>3, <2>4
  <2>6. \A j \in 1 .. Len(its) : [its[j] EXCEPT !.own = own].refs = its[j].refs
                                  /\ [its[j] EXCEPT !.own = own].own = own
    BY <2>1 DEF ItemType
  <2> QED  BY <1>1, <2>3, <2>5, <2>6
<1>4. arr \in ArrayType /\ arr.ptr = m.arrays[k].ptr /\ arr.items = new
  BY <1>1, <1>3 DEF ArrayType
<1> HIDE DEF arr, new
<1>5. /\ n \in ModuleType
      /\ n.arrays[k] = arr
      /\ \A l \in Kinds : l # k => n.arrays[l] = m.arrays[l]
      /\ n.start = m.start /\ n.module_name = m.module_name
  BY <1>2, <1>4 DEF ModuleType
<1> QED  BY <1>3, <1>4, <1>5 DEF Count, OwnReplaced

(* An element is replaced. *)
LEMMA ItemAssigned ==
  ASSUME NEW m \in ModuleType, NEW k \in Kinds, NEW i \in 1 .. Count(m, k),
         NEW x \in ItemType,
         NEW n, n = WithItem(m, k, i, x)
  PROVE  /\ n \in ModuleType
         /\ \A l \in Kinds : l # k => n.arrays[l] = m.arrays[l]
         /\ n.arrays[k].ptr = m.arrays[k].ptr
         /\ Count(n, k) = Count(m, k)
         /\ \A j \in 1 .. Count(m, k) :
              n.arrays[k].items[j] = IF j = i THEN x ELSE m.arrays[k].items[j]
         /\ n.start = m.start /\ n.module_name = m.module_name
<1> DEFINE its == m.arrays[k].items
           new == [its EXCEPT ![i] = x]
           arr == [m.arrays[k] EXCEPT !.items = new]
<1>1. m.arrays[k] \in ArrayType /\ its \in Seq(ItemType) /\ Len(its) \in Nat
  BY ModuleShape DEF Count
<1>2. n = [m EXCEPT !.arrays[k] = arr]
  BY DEF WithItem
<1>3. /\ new \in Seq(ItemType) /\ Len(new) = Len(its)
      /\ \A j \in 1 .. Len(its) : new[j] = IF j = i THEN x ELSE its[j]
  BY <1>1 DEF Count
<1>4. arr \in ArrayType /\ arr.ptr = m.arrays[k].ptr /\ arr.items = new
  BY <1>1, <1>3 DEF ArrayType
<1> HIDE DEF arr, new
<1>5. /\ n \in ModuleType
      /\ n.arrays[k] = arr
      /\ \A l \in Kinds : l # k => n.arrays[l] = m.arrays[l]
      /\ n.start = m.start /\ n.module_name = m.module_name
  BY <1>2, <1>4 DEF ModuleType
<1> QED  BY <1>3, <1>4, <1>5 DEF Count

(* What is valid stays valid when no array gets shorter. *)
LEMMA ValidGrows ==
  ASSUME NEW m \in ModuleType, NEW n \in ModuleType, NEW r \in RefType,
         \A k \in Kinds : Count(m, k) <= Count(n, k), Valid(m, r)
  PROVE  Valid(n, r)
<1>1. \A k \in Kinds : Count(m, k) \in Nat /\ Count(n, k) \in Nat
  BY ModuleShape
<1>2. TotalFuncs(m) <= TotalFuncs(n) /\ TotalFuncs(m) \in Nat /\ TotalFuncs(n) \in Nat
  BY <1>1 DEF TotalFuncs, Kinds
<1>3. r[1] \in {"type", "func", "global", "operands"} /\ r[2] \in Nat
  BY DEF RefType
<1>4. CASE r[1] = "func"
  BY <1>2, <1>3, <1>4 DEF Valid
<1>5. CASE r[1] = "operands"
  BY <1>5 DEF Valid
<1>6. CASE r[1] \in {"type", "global"}
  <2>1. r[1] \in Kinds /\ r[1] # "func" /\ r[1] # "operands"
    BY <1>6 DEF Kinds
  <2>2. Count(m, r[1]) <= Count(n, r[1]) /\ r[2] < Count(m, r[1])
    BY <2>1 DEF Valid
  <2>3. Valid(n, r) <=> r[2] < Count(n, r[1])
    BY <2>1 DEF Valid
  <2> QED  BY <1>1, <1>3, <2>1, <2>2, <2>3
<1> QED  BY <1>3, <1>4, <1>5, <1>6

(* The start function is looked up in three arrays. *)
LEMMA StartStays ==
  ASSUME NEW m \in ModuleType, NEW n \in ModuleType,
         \A k \in {"type", "import", "function"} : n.arrays[k] = m.arrays[k],
         n.start = m.start
  PROVE  StartOK(n) <=> StartOK(m)
<1>1. TotalFuncs(n) = TotalFuncs(m) /\ Count(n, "import") = Count(m, "import")
  BY DEF TotalFuncs, Count
<1>2. TypeOf(n, n.start) = TypeOf(m, m.start)
  BY <1>1 DEF TypeOf
<1>3. EmptySignature(n, n.start) <=> EmptySignature(m, m.start)
  BY <1>2 DEF EmptySignature
<1> QED  BY <1>1, <1>3 DEF StartOK

-----------------------------------------------------------------------------
(* The steps of the loader keep what is loaded sound.                      *)

(* An array that a check looked at may grow, but not after the check of    *)
(* the start function.                                                     *)
StartKept ==
  \/ /\ module'.start = module.start
     /\ module.start >= 0 =>
          \A k \in {"type", "import", "function"} : module'.arrays[k] = module.arrays[k]
     /\ sec.kind = "start" => sec'.kind = "start" \/ StartOK(module)
  \/ sec'.kind = "start" /\ current_index' >= 9

LEMMA StepOrdered ==
  ASSUME OrderedInv, load = "parsing", LTypeOK', ShapeInv',
         current_index' >= current_index,
         \A k \in Kinds : Count(module, k) <= Count(module', k),
         \A k \in Kinds : \A i \in 1 .. Count(module', k) :
           \A r \in module'.arrays[k].items[i].refs :
             \/ i \in 1 .. Count(module, k) /\ r \in module.arrays[k].items[i].refs
             \/ Valid(module', r),
         \A k \in Kinds, i \in 1 .. 13 :
           SectionOrder[i] = k /\ i > current_index' /\ module.arrays[k] = NoArray =>
             module'.arrays[k] = NoArray,
         \A k \in Kinds : module'.arrays[k].ptr = {} => module'.arrays[k].items = <<>>,
         BodiesInv', StartKept,
         load' # "parsing" => Count(module', "code") = Count(module', "function")
  PROVE  OrderedInv'
<1>1. module \in ModuleType /\ module' \in ModuleType
  BY DEF OrderedInv, LTypeOK
<1>2. current_index \in 0 .. 13 /\ current_index' \in 0 .. 13
  BY DEF OrderedInv, LTypeOK
<1>3. OrderInv'
  <2>1. ASSUME NEW k \in Kinds, NEW i \in 1 .. 13,
               SectionOrder[i] = k, i > current_index'
        PROVE  module'.arrays[k] = NoArray
    <3>1. module.arrays[k] = NoArray
      BY <1>2, <2>1 DEF OrderedInv, OrderInv
    <3> QED  BY <2>1, <3>1
  <2> QED  BY <2>1 DEF OrderInv
<1>4. RefsValid(module')
  <2>1. ASSUME NEW k \in Kinds, NEW i \in 1 .. Count(module', k),
               NEW r \in module'.arrays[k].items[i].refs
        PROVE  Valid(module', r)
    <3>1. CASE i \in 1 .. Count(module, k) /\ r \in module.arrays[k].items[i].refs
      <4>1. Valid(module, r)
        BY <3>1 DEF OrderedInv, SoundInv, RefsValid
      <4>2. r \in RefType
        BY <1>1, <3>1, ModuleShape
      <4> QED  BY <1>1, <4>1, <4>2, ValidGrows
    <3> QED  BY <3>1
  <2> QED  BY <2>1 DEF RefsValid
<1>5. StartInv'
  <2> SUFFICES ASSUME module'.start >= 0
               PROVE  current_index' >= 9 /\ (sec'.kind = "start" \/ StartOK(module'))
    BY DEF StartInv
  <2>1. CASE sec'.kind = "start" /\ current_index' >= 9
    BY <2>1
  <2>2. CASE /\ module'.start = module.start
             /\ module.start >= 0 =>
                  \A k \in {"type", "import", "function"} : module'.arrays[k] = module.arrays[k]
             /\ sec.kind = "start" => sec'.kind = "start" \/ StartOK(module)
    <3>1. current_index >= 9 /\ (sec.kind = "start" \/ StartOK(module))
      BY <2>2 DEF OrderedInv, SoundInv, StartInv
    <3>2. \A k \in {"type", "import", "function"} : module'.arrays[k] = module.arrays[k]
      BY <2>2
    <3>3. StartOK(module') <=> StartOK(module)
      BY <1>1, <2>2, <3>2, StartStays
    <3> QED  BY <1>2, <2>2, <3>1, <3>3
  <2> QED  BY <2>1, <2>2 DEF StartKept
<1>6. LoadedInv'
  BY DEF LoadedInv
<1> QED  BY <1>3, <1>4, <1>5, <1>6 DEF OrderedInv, SoundInv

(* A step that leaves the module alone. *)
LEMMA KeptOrdered ==
  ASSUME OrderedInv, load = "parsing", LTypeOK', ShapeInv', module' = module,
         current_index' >= current_index,
         sec.kind = "start" => sec'.kind = "start" \/ StartOK(module),
         load' # "parsing" => Count(module, "code") = Count(module, "function")
  PROVE  OrderedInv'
<1>1. \A k \in Kinds : Count(module, k) \in Nat
  BY ModuleShape DEF OrderedInv, LTypeOK
<1>2. BodiesInv'
  BY DEF OrderedInv, SoundInv, BodiesInv
<1>3. StartKept
  BY DEF StartKept
<1>4. \A k \in Kinds : module'.arrays[k].ptr = {} => module'.arrays[k].items = <<>>
  BY DEF OrderedInv, OrderInv
<1> QED  BY <1>1, <1>2, <1>3, <1>4, StepOrdered

(* A step that changes an element. *)
LEMMA ElementOrdered ==
  ASSUME OrderedInv, load = "parsing", LTypeOK', ShapeInv',
         current_index' = current_index, sec'.kind = sec.kind, load' = load,
         \A k \in Kinds : /\ Count(module', k) = Count(module, k)
                          /\ module'.arrays[k].ptr = module.arrays[k].ptr
                          /\ sec.kind # k /\ k # "names" => module'.arrays[k] = module.arrays[k],
         \A k \in Kinds : \A i \in 1 .. Count(module, k) :
           \A r \in module'.arrays[k].items[i].refs :
             r \in module.arrays[k].items[i].refs \/ Valid(module', r),
         module'.start = module.start
  PROVE  OrderedInv'
<1>1. module \in ModuleType /\ module' \in ModuleType
  BY DEF OrderedInv, LTypeOK
<1>2. \A k \in Kinds : Count(module, k) \in Nat
  BY <1>1, ModuleShape
<1>3. \A k \in Kinds : module'.arrays[k].ptr = {} => module'.arrays[k].items = <<>>
  <2> SUFFICES ASSUME NEW k \in Kinds, module'.arrays[k].ptr = {}
               PROVE  module'.arrays[k].items = <<>>
    OBVIOUS
  <2>1. module.arrays[k].items = <<>>
    BY DEF OrderedInv, OrderInv
  <2>2. Len(module'.arrays[k].items) = 0
    BY <2>1 DEF Count
  <2>3. module'.arrays[k].items \in Seq(ItemType)
    BY <1>1, ModuleShape
  <2> QED  BY <2>2, <2>3
<1>4. ASSUME NEW k \in Kinds, NEW i \in 1 .. 13,
             SectionOrder[i] = k, i > current_index', module.arrays[k] = NoArray
      PROVE  module'.arrays[k] = NoArray
  <2>1. module'.arrays[k].ptr = {}
    BY <1>4 DEF NoArray
  <2>2. module'.arrays[k].items = <<>>
    BY <1>3, <2>1
  <2>3. module'.arrays[k] \in ArrayType
    BY <1>1, ModuleShape
  <2>4. module'.arrays[k] = [ptr |-> module'.arrays[k].ptr, items |-> module'.arrays[k].items]
    BY <2>3 DEF ArrayType
  <2> QED  BY <2>1, <2>2, <2>4 DEF NoArray
<1>5. BodiesInv'
  BY DEF OrderedInv, SoundInv, BodiesInv, Kinds
<1>6. StartKept
  <2>1. module.start >= 0 =>
          \A k \in {"type", "import", "function"} : module'.arrays[k] = module.arrays[k]
    <3> SUFFICES ASSUME module.start >= 0, NEW k \in {"type", "import", "function"}
                 PROVE  module'.arrays[k] = module.arrays[k]
      OBVIOUS
    <3>1. current_index >= 9 /\ current_index \in 0 .. 13
      BY DEF OrderedInv, SoundInv, StartInv, LTypeOK
    <3>2. sec.kind # k
      <4>1. SUFFICES ASSUME sec.kind = k PROVE FALSE
        OBVIOUS
      <4>2. sec.kind \in Vectors
        BY <4>1 DEF Vectors, Kinds
      <4>3. current_index \in 1 .. 13 /\ SectionOrder[current_index] = k
        BY <4>1, <4>2 DEF OrderedInv, ShapeInv
      <4>4. current_index <= 3
        BY <4>3, OrderFacts
      <4> QED  BY <3>1, <4>4
    <3> QED  BY <3>2 DEF Kinds
  <2> QED  BY <2>1 DEF StartKept
<1>7. \A k \in Kinds : \A i \in 1 .. Count(module', k) :
        \A r \in module'.arrays[k].items[i].refs :
          \/ i \in 1 .. Count(module, k) /\ r \in module.arrays[k].items[i].refs
          \/ Valid(module', r)
  OBVIOUS
<1>8. /\ current_index' >= current_index
      /\ \A k \in Kinds : Count(module, k) <= Count(module', k)
  BY <1>2 DEF OrderedInv, LTypeOK
<1> QED  BY <1>3, <1>4, <1>5, <1>6, <1>7, <1>8, StepOrdered

-----------------------------------------------------------------------------

LEMMA SecShapes ==
  ASSUME sec \in SecType
  PROVE  /\ sec.kind = "none" \/ sec.kind \in Vectors \cup {"start", "names"}
         /\ sec.kind # "none" => sec.done \in Nat
         /\ sec.kind \in Vectors \cup {"start"} => sec = [kind |-> sec.kind, done |-> sec.done]
         /\ sec.kind = "names" => sec.total \in Nat
                                  /\ sec = [kind |-> "names", done |-> sec.done, total |-> sec.total]
         /\ "none" \notin Vectors \cup {"start", "names"} /\ "start" \notin Vectors
         /\ "names" \notin Vectors
BY DEF SecType, NoSection, Vectors, Kinds

LEMMA VectorSectionFacts ==
  ASSUME OrderedInv, NEW kind \in Vectors, NEW n \in 0 .. FileLen, VectorSection(kind, n)
  PROVE  /\ kind \in Kinds /\ kind # "names"
         /\ module.arrays[kind] = NoArray
         /\ NewBlock \in Blocks /\ NewBlock \notin heap
         /\ module'.arrays[kind].ptr = {NewBlock}
         /\ Count(module', kind) = n /\ n \in Nat
         /\ \A i \in 1 .. n : module'.arrays[kind].items[i] = ZeroItem
         /\ \A l \in Kinds : l # kind => module'.arrays[l] = module.arrays[l]
         /\ module'.start = module.start /\ module'.module_name = module.module_name
         /\ module' \in ModuleType
<1>1. /\ sec = NoSection /\ current_index' \in 1 .. 13 /\ current_index' > current_index
      /\ SectionOrder[current_index'] = kind
  BY ReachesFacts DEF VectorSection, OrderedInv
<1>2. kind \in Kinds /\ kind # "names"
  BY DEF Vectors
<1>3. module.arrays[kind] = NoArray
  BY <1>1, <1>2 DEF OrderedInv, OrderInv
<1>4. NewBlock \in Blocks /\ NewBlock \notin heap
  BY NewBlockIsNew DEF VectorSection, Allocate, OrderedInv, LTypeOK
<1>5. n \in Nat
  BY LoaderAssumption
<1> DEFINE its == [i \in 1 .. n |-> ZeroItem]
           arr == [ptr |-> {NewBlock}, items |-> its]
<1>6. its \in Seq(ItemType) /\ Len(its) = n
  <2>1. ZeroItem \in ItemType
    BY DEF ZeroItem, ItemType
  <2> QED  BY <1>5, <2>1
<1>7. arr \in ArrayType /\ arr.ptr = {NewBlock} /\ arr.items = its
  BY <1>4, <1>6 DEF ArrayType
<1>8. \A i \in 1 .. n : its[i] = ZeroItem
  OBVIOUS
<1>9. module' = [module EXCEPT !.arrays[kind] = arr]
  BY DEF VectorSection
<1> HIDE DEF arr, its
<1>10. module \in ModuleType
  BY DEF OrderedInv, LTypeOK
<1>11. /\ module' \in ModuleType
       /\ module'.arrays[kind] = arr
       /\ \A l \in Kinds : l # kind => module'.arrays[l] = module.arrays[l]
       /\ module'.start = module.start /\ module'.module_name = module.module_name
  BY <1>2, <1>7, <1>9, <1>10 DEF ModuleType
<1>12. Count(module', kind) = n
  BY <1>6, <1>7, <1>11 DEF Count
<1> QED  BY <1>2, <1>3, <1>4, <1>5, <1>7, <1>8, <1>11, <1>12

LEMMA VectorSectionOrdered ==
  ASSUME OrderedInv, NEW kind \in Vectors, NEW n \in 0 .. FileLen, VectorSection(kind, n)
  PROVE  OrderedInv'
<1>1. /\ load = "parsing" /\ sec = NoSection
      /\ current_index' \in 1 .. 13 /\ current_index' > current_index
      /\ SectionOrder[current_index'] = kind
  BY ReachesFacts DEF VectorSection, OrderedInv
<1>2. /\ kind \in Kinds /\ kind # "names"
      /\ module.arrays[kind] = NoArray
      /\ NewBlock \in Blocks
      /\ module'.arrays[kind].ptr = {NewBlock}
      /\ Count(module', kind) = n /\ n \in Nat
      /\ \A i \in 1 .. n : module'.arrays[kind].items[i] = ZeroItem
      /\ \A l \in Kinds : l # kind => module'.arrays[l] = module.arrays[l]
      /\ module'.start = module.start
      /\ module' \in ModuleType
  BY VectorSectionFacts
<1>3. /\ heap' = heap \cup {NewBlock} /\ temp' = temp /\ load' = load
      /\ sec' = [kind |-> kind, done |-> 0]
      /\ kind = "code" => n = Count(module, "function")
  BY DEF VectorSection, Allocate
<1>4. LTypeOK'
  BY <1>1, <1>2, <1>3 DEF OrderedInv, LTypeOK, SecType
<1>5. ShapeInv'
  <2>1. temp = {}
    BY <1>1, SecShapes DEF OrderedInv, ShapeInv, LTypeOK, NoSection
  <2> QED  BY <1>1, <1>2, <1>3, <2>1 DEF ShapeInv
<1>6. \A l \in Kinds : Count(module, l) \in Nat /\ Count(module', l) \in Nat
  BY <1>2, ModuleShape DEF OrderedInv, LTypeOK
<1>7. Count(module, kind) = 0
  BY <1>2 DEF Count, NoArray
<1>8. \A l \in Kinds : l # kind => Count(module', l) = Count(module, l)
  BY <1>2 DEF Count
<1>9. \A l \in Kinds : Count(module, l) <= Count(module', l)
  BY <1>6, <1>7, <1>8
<1>10. \A l \in Kinds : \A i \in 1 .. Count(module', l) :
         \A r \in module'.arrays[l].items[i].refs :
           \/ i \in 1 .. Count(module, l) /\ r \in module.arrays[l].items[i].refs
           \/ Valid(module', r)
  BY <1>2, <1>8 DEF ZeroItem
<1>11. \A l \in Kinds, i \in 1 .. 13 :
         SectionOrder[i] = l /\ i > current_index' /\ module.arrays[l] = NoArray =>
           module'.arrays[l] = NoArray
  <2> SUFFICES ASSUME NEW l \in Kinds, NEW i \in 1 .. 13, SectionOrder[i] = l,
                      i > current_index', module.arrays[l] = NoArray
               PROVE  module'.arrays[l] = NoArray
    OBVIOUS
  <2>1. l # kind
    BY <1>1, OrderFacts
  <2> QED  BY <1>2, <2>1
<1>12. \A l \in Kinds : module'.arrays[l].ptr = {} => module'.arrays[l].items = <<>>
  BY <1>2 DEF OrderedInv, OrderInv
<1>13. BodiesInv'
  <2> SUFFICES ASSUME module'.arrays["code"].ptr # {}
               PROVE  Count(module', "code") = Count(module', "function")
    BY DEF BodiesInv
  <2>0. "code" \in Kinds /\ "function" \in Kinds
    BY DEF Kinds
  <2>1. CASE kind = "code"
    BY <1>2, <1>3, <1>8, <2>0, <2>1
  <2>2. CASE kind # "code"
    <3>1. module'.arrays["code"] = module.arrays["code"]
      BY <1>2, <2>0, <2>2
    <3>2. module.arrays["code"] # NoArray
      BY <3>1 DEF NoArray
    <3>3. 12 <= current_index
      <4>1. SectionOrder[12] = "code" /\ 12 \in 1 .. 13 /\ current_index \in 0 .. 13
        BY OrderFacts DEF OrderedInv, LTypeOK
      <4> QED  BY <2>0, <3>2, <4>1 DEF OrderedInv, OrderInv
    <3>4. kind # "function"
      BY <1>1, <3>3, OrderFacts DEF OrderedInv, LTypeOK
    <3> QED  BY <1>8, <2>0, <2>2, <3>1, <3>4 DEF OrderedInv, SoundInv, BodiesInv
  <2> QED  BY <2>1, <2>2
<1>14. StartKept
  <2>1. module.start >= 0 =>
          \A k \in {"type", "import", "function"} : module'.arrays[k] = module.arrays[k]
    <3> SUFFICES ASSUME module.start >= 0, NEW k \in {"type", "import", "function"}
                 PROVE  module'.arrays[k] = module.arrays[k]
      OBVIOUS
    <3>1. current_index >= 9 /\ current_index \in 0 .. 13
      BY <1>1 DEF OrderedInv, SoundInv, StartInv, LTypeOK
    <3>2. kind # k
      BY <1>1, <3>1, OrderFacts
    <3> QED  BY <1>2, <3>2 DEF Kinds
  <2> QED  BY <1>1, <1>2, <2>1 DEF StartKept, NoSection
<1>15. current_index' >= current_index /\ ~(load' # "parsing")
  BY <1>1, <1>3 DEF OrderedInv, LTypeOK
<1> QED  BY <1>1, <1>4, <1>5, <1>9, <1>10, <1>11, <1>12, <1>13, <1>14, <1>15, StepOrdered

(* The steps that read the file and change nothing of the module. *)
LEMMA ReadingOrdered ==
  ASSUME OrderedInv,
         \/ \E kind \in {"memory", "datacount"} : PlainSection(kind)
         \/ VectorEnd \/ StartEnd \/ NameSection \/ NamesEnd \/ FileEnd
  PROVE  OrderedInv'
<1>1. load = "parsing" /\ module' = module /\ heap' = heap /\ temp' = temp
  BY DEF PlainSection, Reaches, AtSection, VectorEnd, InVector, StartEnd, NameSection,
         NamesEnd, InNames, FileEnd
<1>2. module \in ModuleType /\ sec \in SecType
  BY DEF OrderedInv, LTypeOK
<1>3. current_index' \in 0 .. 13 /\ current_index' >= current_index
  <2>1. CASE \E kind \in {"memory", "datacount"} : PlainSection(kind)
    BY <2>1, ReachesFacts DEF PlainSection, OrderedInv, LTypeOK
  <2>2. CASE VectorEnd \/ StartEnd \/ NameSection \/ NamesEnd \/ FileEnd
    <3>1. current_index' = current_index
      BY <2>2 DEF VectorEnd, StartEnd, NameSection, NamesEnd, FileEnd
    <3> QED  BY <3>1 DEF OrderedInv, LTypeOK
  <2> QED  BY <2>1, <2>2
<1>4. sec' = NoSection \/ sec' = [kind |-> "names", done |-> 0, total |-> TotalFuncs(module)]
  BY DEF PlainSection, Reaches, AtSection, VectorEnd, StartEnd, NameSection, NameSlots,
         NamesEnd, FileEnd
<1>5. LTypeOK'
  <2>1. TotalFuncs(module) \in Nat
    BY <1>2, ModuleShape DEF Kinds
  <2>2. sec' \in SecType
    BY <1>4, <2>1 DEF SecType
  <2> QED  BY <1>1, <1>2, <1>3, <2>2 DEF OrderedInv, LTypeOK
<1>6. temp = {}
  <2>1. sec.kind \notin Vectors \/ sec.done = Count(module, sec.kind)
    BY SecShapes, <1>2 DEF PlainSection, Reaches, AtSection, NoSection, VectorEnd, StartEnd,
       NameSection, NamesEnd, InNames, FileEnd
  <2>2. CASE sec.kind \notin Vectors
    BY <2>2 DEF OrderedInv, ShapeInv
  <2>3. CASE sec.kind \in Vectors /\ sec.done = Count(module, sec.kind)
    <3>1. Count(module, sec.kind) \in Nat
      BY <1>2, <2>3, ModuleShape DEF Vectors
    <3> QED  BY <2>3, <3>1 DEF OrderedInv, ShapeInv
  <2> QED  BY <2>1, <2>2, <2>3
<1>7. load' # "parsing" => sec' = NoSection
  BY <1>1 DEF PlainSection, VectorEnd, StartEnd, NameSection, NamesEnd, FileEnd
<1>8. ShapeInv'
  <2>1. sec'.kind \notin Vectors \cup {"start"}
    BY <1>4 DEF NoSection, Vectors, Kinds
  <2> QED  BY <1>1, <1>6, <1>7, <2>1 DEF ShapeInv
<1>9. sec.kind = "start" => StartOK(module)
  BY SecShapes, <1>2 DEF PlainSection, Reaches, AtSection, NoSection, VectorEnd, InVector, Vectors, StartEnd,
     StartOK, NameSection, NamesEnd, InNames, FileEnd
<1>10. load' # "parsing" => Count(module, "code") = Count(module, "function")
  <2> SUFFICES ASSUME load' # "parsing"
               PROVE  Count(module, "code") = Count(module, "function")
    OBVIOUS
  <2>1. Count(module, "function") > 0 => module.arrays["code"].ptr # {}
    BY <1>1 DEF PlainSection, VectorEnd, StartEnd, NameSection, NamesEnd, FileEnd
  <2>2. "code" \in Kinds /\ "function" \in Kinds
    BY DEF Kinds
  <2>3. Count(module, "function") \in Nat
    BY <1>2, <2>2, ModuleShape
  <2>4. CASE module.arrays["code"].ptr # {}
    BY <2>4 DEF OrderedInv, SoundInv, BodiesInv
  <2>5. CASE module.arrays["code"].ptr = {}
    <3>1. module.arrays["code"].items = <<>>
      BY <2>2, <2>5 DEF OrderedInv, OrderInv
    <3>2. Count(module, "code") = 0
      BY <3>1 DEF Count
    <3> QED  BY <2>1, <2>3, <2>5, <3>2
  <2> QED  BY <2>4, <2>5
<1> QED  BY <1>1, <1>3, <1>5, <1>8, <1>9, <1>10, KeptOrdered

LEMMA StartSectionOrdered ==
  ASSUME OrderedInv, NEW f \in 0 .. FileLen, StartSection(f)
  PROVE  OrderedInv'
<1>1. /\ load = "parsing" /\ sec = NoSection
      /\ current_index' \in 1 .. 13 /\ current_index' > current_index
      /\ SectionOrder[current_index'] = "start"
  BY ReachesFacts DEF StartSection, OrderedInv
<1>2. current_index' = 9
  BY <1>1, OrderFacts
<1>3. /\ module' = [module EXCEPT !.start = f] /\ sec' = [kind |-> "start", done |-> 0]
      /\ heap' = heap /\ temp' = temp /\ load' = load
  BY DEF StartSection
<1>4. module \in ModuleType /\ f \in Int
  BY LoaderAssumption DEF OrderedInv, LTypeOK
<1>5. module' \in ModuleType /\ module'.arrays = module.arrays
  BY <1>3, <1>4 DEF ModuleType
<1>6. LTypeOK'
  BY <1>1, <1>3, <1>5 DEF OrderedInv, LTypeOK, SecType
<1>7. ShapeInv'
  <2>1. temp = {}
    BY <1>1, SecShapes DEF OrderedInv, ShapeInv, LTypeOK, NoSection
  <2>2. "start" \notin Vectors
    BY DEF Vectors, Kinds
  <2> QED  BY <1>1, <1>3, <2>1, <2>2 DEF ShapeInv
<1>8. \A k \in Kinds : Count(module', k) = Count(module, k) /\ Count(module, k) \in Nat
  BY <1>4, <1>5, ModuleShape DEF Count
<1>9. \A k \in Kinds : module'.arrays[k].ptr = {} => module'.arrays[k].items = <<>>
  BY <1>5 DEF OrderedInv, OrderInv
<1>10. BodiesInv'
  BY <1>5, <1>8 DEF OrderedInv, SoundInv, BodiesInv, Kinds
<1>11. StartKept
  BY <1>2, <1>3 DEF StartKept
<1>12. current_index' >= current_index
  BY <1>1 DEF OrderedInv, LTypeOK
<1>13. \A k \in Kinds, i \in 1 .. 13 :
         SectionOrder[i] = k /\ i > current_index' /\ module.arrays[k] = NoArray =>
           module'.arrays[k] = NoArray
  BY <1>5
<1>14. \A k \in Kinds : Count(module, k) <= Count(module', k)
  BY <1>8
<1>15. \A k \in Kinds : \A i \in 1 .. Count(module', k) :
         \A r \in module'.arrays[k].items[i].refs :
           \/ i \in 1 .. Count(module, k) /\ r \in module.arrays[k].items[i].refs
           \/ Valid(module', r)
  BY <1>5, <1>8
<1>16. ~(load' # "parsing")
  BY <1>1, <1>3
<1> QED  BY <1>1, <1>6, <1>7, <1>9, <1>10, <1>11, <1>12, <1>13, <1>14, <1>15, <1>16, StepOrdered

(* A block for the current element goes to a local or, where the array     *)
(* takes it over at once, to the element.                                  *)
LEMMA ElementBlockFacts ==
  ASSUME OrderedInv, ElementBlock
  PROVE  /\ load = "parsing" /\ load' = load
         /\ current_index' = current_index /\ sec' = sec
         /\ sec.kind \in Kinds /\ sec.kind # "names" /\ sec.kind \in Vectors
         /\ Current \in 1 .. Count(module, sec.kind)
         /\ NewBlock \in Blocks /\ NewBlock \notin heap /\ heap' = heap \cup {NewBlock}
         /\ module' \in ModuleType
         /\ \A l \in Kinds : /\ l # sec.kind => module'.arrays[l] = module.arrays[l]
                             /\ module'.arrays[l].ptr = module.arrays[l].ptr
                             /\ Count(module', l) = Count(module, l)
         /\ \A j \in 1 .. Count(module, sec.kind) :
              /\ module'.arrays[sec.kind].items[j].refs = module.arrays[sec.kind].items[j].refs
              /\ j # Current => module'.arrays[sec.kind].items[j] = module.arrays[sec.kind].items[j]
         /\ module'.start = module.start /\ module'.module_name = module.module_name
         /\ \/ /\ TakenAtOnce(sec.kind) /\ temp' = temp
               /\ module'.arrays[sec.kind].items[Current].own =
                    module.arrays[sec.kind].items[Current].own \cup {NewBlock}
            \/ /\ ~TakenAtOnce(sec.kind) /\ temp' = temp \cup {NewBlock}
               /\ module' = module
<1>1. /\ load = "parsing" /\ load' = load /\ current_index' = current_index /\ sec' = sec
      /\ heap # Blocks /\ heap' = heap \cup {NewBlock}
      /\ sec.kind \in Vectors
  BY DEF ElementBlock, AtBlock, InVector, Allocate, Vectors
<1>2. module \in ModuleType /\ sec \in SecType /\ heap \subseteq Blocks
  BY DEF OrderedInv, LTypeOK
<1>3. sec.kind \in Kinds /\ sec.kind # "names"
  BY <1>1 DEF Vectors
<1>4. Count(module, sec.kind) \in Nat
  BY <1>2, <1>3, ModuleShape
<1>5. Current \in 1 .. Count(module, sec.kind)
  <2>1. sec.done \in Nat
    BY <1>1, <1>2, SecShapes
  <2>2. sec.done < Count(module, sec.kind)
    BY DEF ElementBlock, AtBlock
  <2> QED  BY <1>4, <2>1, <2>2 DEF Current
<1>6. NewBlock \in Blocks /\ NewBlock \notin heap
  BY <1>1, <1>2, NewBlockIsNew
<1>7. CASE ~TakenAtOnce(sec.kind)
  <2>1. module' = module /\ temp' = temp \cup {NewBlock}
    BY <1>7 DEF ElementBlock
  <2> QED  BY <1>1, <1>2, <1>3, <1>5, <1>6, <1>7, <2>1
<1>8. CASE TakenAtOnce(sec.kind)
  <2> DEFINE old == module.arrays[sec.kind].items[Current].own
             own == old \cup {NewBlock}
  <2>1. /\ module' = WithOwn(module, sec.kind, Current, own)
        /\ temp' = temp
    BY <1>8 DEF ElementBlock, WithOwn
  <2>2. old \subseteq Blocks
    BY <1>2, <1>3, <1>5, ModuleShape
  <2>3. own \in SUBSET Blocks
    BY <1>6, <2>2
  <2>4. Current \in Int
    BY <1>5
  <2>8. /\ module \in ModuleType /\ sec.kind \in Kinds /\ Current \in Int /\ own \in SUBSET Blocks
        /\ module' = WithOwn(module, sec.kind, Current, own)
    BY <1>2, <1>3, <2>1, <2>3, <2>4
  <2> HIDE DEF own
  <2>9. OwnReplaced(module, module', sec.kind, Current, own)
    BY ONLY <2>8, OwnAssigned
  <2>5. /\ module' \in ModuleType
        /\ \A l \in Kinds : l # sec.kind => module'.arrays[l] = module.arrays[l]
        /\ module'.arrays[sec.kind].ptr = module.arrays[sec.kind].ptr
        /\ Count(module', sec.kind) = Count(module, sec.kind)
        /\ \A j \in 1 .. Count(module, sec.kind) :
             /\ module'.arrays[sec.kind].items[j].refs = module.arrays[sec.kind].items[j].refs
             /\ j # Current => module'.arrays[sec.kind].items[j] = module.arrays[sec.kind].items[j]
             /\ j = Current => module'.arrays[sec.kind].items[j].own = own
        /\ module'.start = module.start /\ module'.module_name = module.module_name
    BY <2>9 DEF OwnReplaced
  <2>6. \A l \in Kinds : Count(module', l) = Count(module, l)
    BY <2>5 DEF Count
  <2>7. module'.arrays[sec.kind].items[Current].own = own
    BY <1>5, <2>5
  <2> QED  BY <1>1, <1>3, <1>5, <1>6, <1>8, <2>1, <2>5, <2>6, <2>7 DEF own
<1> QED  BY <1>7, <1>8

LEMMA ElementBlockOrdered ==
  ASSUME OrderedInv, ElementBlock
  PROVE  OrderedInv'
<1>1. /\ load = "parsing" /\ load' = load
      /\ current_index' = current_index /\ sec' = sec
      /\ sec.kind \in Kinds /\ sec.kind \in Vectors
      /\ Current \in 1 .. Count(module, sec.kind)
      /\ NewBlock \in Blocks /\ heap' = heap \cup {NewBlock}
      /\ module' \in ModuleType
      /\ \A l \in Kinds : /\ l # sec.kind => module'.arrays[l] = module.arrays[l]
                          /\ module'.arrays[l].ptr = module.arrays[l].ptr
                          /\ Count(module', l) = Count(module, l)
      /\ \A j \in 1 .. Count(module, sec.kind) :
           module'.arrays[sec.kind].items[j].refs = module.arrays[sec.kind].items[j].refs
      /\ module'.start = module.start
      /\ temp' = temp \/ (~TakenAtOnce(sec.kind) /\ temp' = temp \cup {NewBlock})
  BY ElementBlockFacts
<1>2. LTypeOK'
  BY <1>1 DEF OrderedInv, LTypeOK
<1>3. ShapeInv'
  <2>1. sec.done < Count(module, sec.kind)
    BY DEF ElementBlock, AtBlock
  <2> QED  BY <1>1, <2>1 DEF OrderedInv, ShapeInv
<1>4. \A k \in Kinds : \A i \in 1 .. Count(module, k) :
        \A r \in module'.arrays[k].items[i].refs :
          r \in module.arrays[k].items[i].refs \/ Valid(module', r)
  BY <1>1
<1> QED  BY <1>1, <1>2, <1>3, <1>4, ElementOrdered

LEMMA RefsAreTyped ==
  ASSUME NEW kind, NEW refs \in Refs(kind)
  PROVE  refs \subseteq RefType
<1>1. \A i \in 0 .. FileLen : i \in Nat
  BY LoaderAssumption
<1> QED  BY <1>1 DEF Refs, RefType

(* The element takes over what the locals hold. *)
LEMMA ElementEndFacts ==
  ASSUME OrderedInv, NEW refs \in Refs(sec.kind), ElementEnd(refs)
  PROVE  /\ load = "parsing" /\ load' = load /\ heap' = heap /\ temp' = {}
         /\ current_index' = current_index
         /\ sec' = [kind |-> sec.kind, done |-> sec.done + 1]
         /\ sec.kind \in Kinds /\ sec.kind # "names" /\ sec.kind \in Vectors
         /\ Current \in 1 .. Count(module, sec.kind)
         /\ module' \in ModuleType
         /\ \A l \in Kinds : /\ l # sec.kind => module'.arrays[l] = module.arrays[l]
                             /\ module'.arrays[l].ptr = module.arrays[l].ptr
                             /\ Count(module', l) = Count(module, l)
         /\ \A j \in 1 .. Count(module, sec.kind) :
              /\ j # Current => module'.arrays[sec.kind].items[j] = module.arrays[sec.kind].items[j]
              /\ j = Current => /\ module'.arrays[sec.kind].items[j].refs = refs
                                /\ module'.arrays[sec.kind].items[j].own =
                                     module.arrays[sec.kind].items[j].own \cup temp
         /\ \A r \in refs : Valid(module, r) /\ r \in RefType
         /\ module'.start = module.start /\ module'.module_name = module.module_name
<1>1. /\ load = "parsing" /\ load' = load /\ heap' = heap /\ temp' = {}
      /\ current_index' = current_index
      /\ sec.kind \in Vectors
      /\ \A r \in refs : Valid(module, r)
  BY DEF ElementEnd, InVector, Vectors
<1>2. module \in ModuleType /\ sec \in SecType /\ temp \subseteq Blocks
  BY DEF OrderedInv, LTypeOK
<1>3. sec.kind \in Kinds /\ sec.kind # "names"
  BY <1>1 DEF Vectors
<1>4. Count(module, sec.kind) \in Nat
  BY <1>2, <1>3, ModuleShape
<1>5. sec.done \in Nat /\ sec = [kind |-> sec.kind, done |-> sec.done]
  BY <1>1, <1>2, SecShapes
<1>6. Current \in 1 .. Count(module, sec.kind)
  BY <1>4, <1>5 DEF ElementEnd, Current
<1>7. sec' = [kind |-> sec.kind, done |-> sec.done + 1]
  <2>1. sec' = [sec EXCEPT !.done = @ + 1]
    BY DEF ElementEnd
  <2> QED  BY <1>5, <2>1
<1>8. \A r \in refs : r \in RefType
  BY RefsAreTyped
<1> DEFINE old == module.arrays[sec.kind].items[Current].own
           x == [own |-> old \cup temp, refs |-> refs]
<1>9. old \subseteq Blocks
  BY <1>2, <1>3, <1>6, ModuleShape
<1>10. x \in ItemType /\ x.own = old \cup temp /\ x.refs = refs
  BY <1>2, <1>8, <1>9 DEF ItemType
<1>11. module' = WithItem(module, sec.kind, Current, x)
  BY DEF ElementEnd, WithItem
<1> HIDE DEF x
<1>12. /\ module' \in ModuleType
       /\ \A l \in Kinds : l # sec.kind => module'.arrays[l] = module.arrays[l]
       /\ module'.arrays[sec.kind].ptr = module.arrays[sec.kind].ptr
       /\ Count(module', sec.kind) = Count(module, sec.kind)
       /\ \A j \in 1 .. Count(module, sec.kind) :
            module'.arrays[sec.kind].items[j] =
              IF j = Current THEN x ELSE module.arrays[sec.kind].items[j]
       /\ module'.start = module.start /\ module'.module_name = module.module_name
  BY <1>2, <1>3, <1>6, <1>10, <1>11, ItemAssigned
<1>13. \A l \in Kinds : Count(module', l) = Count(module, l)
  BY <1>12 DEF Count
<1>14. \A j \in 1 .. Count(module, sec.kind) :
         /\ j # Current => module'.arrays[sec.kind].items[j] = module.arrays[sec.kind].items[j]
         /\ j = Current => /\ module'.arrays[sec.kind].items[j].refs = refs
                           /\ module'.arrays[sec.kind].items[j].own =
                                module.arrays[sec.kind].items[j].own \cup temp
  BY <1>10, <1>12
<1> QED  BY <1>1, <1>3, <1>6, <1>7, <1>8, <1>12, <1>13, <1>14

LEMMA ElementEndOrdered ==
  ASSUME OrderedInv, NEW refs \in Refs(sec.kind), ElementEnd(refs)
  PROVE  OrderedInv'
<1>1. /\ load = "parsing" /\ load' = load /\ heap' = heap /\ temp' = {}
      /\ current_index' = current_index
      /\ sec' = [kind |-> sec.kind, done |-> sec.done + 1]
      /\ sec.kind \in Kinds /\ sec.kind \in Vectors
      /\ Current \in 1 .. Count(module, sec.kind)
      /\ module' \in ModuleType
      /\ \A l \in Kinds : /\ l # sec.kind => module'.arrays[l] = module.arrays[l]
                          /\ module'.arrays[l].ptr = module.arrays[l].ptr
                          /\ Count(module', l) = Count(module, l)
      /\ \A j \in 1 .. Count(module, sec.kind) :
           /\ j # Current => module'.arrays[sec.kind].items[j] = module.arrays[sec.kind].items[j]
           /\ j = Current => module'.arrays[sec.kind].items[j].refs = refs
      /\ \A r \in refs : Valid(module, r) /\ r \in RefType
      /\ module'.start = module.start
  BY ElementEndFacts
<1>2. module \in ModuleType /\ sec \in SecType
  BY DEF OrderedInv, LTypeOK
<1>3. sec.done \in Nat
  BY <1>1, <1>2, SecShapes
<1>4. LTypeOK'
  BY <1>1, <1>3 DEF OrderedInv, LTypeOK, SecType
<1>5. ShapeInv'
  <2>1. Count(module, sec.kind) \in Nat
    BY <1>1, <1>2, ModuleShape
  <2>2. sec.done + 1 <= Count(module, sec.kind)
    BY <1>1, <2>1 DEF Current
  <2> QED  BY <1>1, <2>2 DEF OrderedInv, ShapeInv
<1>6. \A k \in Kinds : Count(module, k) <= Count(module', k)
  BY <1>1, <1>2, ModuleShape
<1>7. \A r \in refs : Valid(module', r)
  BY <1>1, <1>2, <1>6, ValidGrows
<1>8. \A k \in Kinds : \A i \in 1 .. Count(module, k) :
        \A r \in module'.arrays[k].items[i].refs :
          r \in module.arrays[k].items[i].refs \/ Valid(module', r)
  BY <1>1, <1>7
<1> QED  BY <1>1, <1>4, <1>5, <1>8, ElementOrdered

(* The name section: the array of names, when there is none and there are  *)
(* functions.                                                              *)
LEMMA FunctionNamesFacts ==
  ASSUME OrderedInv, FunctionNames
  PROVE  /\ load = "parsing" /\ load' = load /\ temp' = temp
         /\ current_index' = current_index
         /\ sec.kind = "names" /\ sec.done = 0 /\ sec.total \in Nat
         /\ sec' = [kind |-> "names", done |-> 1, total |-> sec.total]
         /\ \/ module' = module /\ heap' = heap
            \/ /\ module.arrays["names"] = NoArray /\ sec.total # 0
               /\ NewBlock \in Blocks /\ NewBlock \notin heap /\ heap' = heap \cup {NewBlock}
               /\ module' \in ModuleType
               /\ module'.arrays["names"].ptr = {NewBlock}
               /\ Count(module', "names") = sec.total
               /\ \A i \in 1 .. sec.total : module'.arrays["names"].items[i] = ZeroItem
               /\ \A l \in Kinds : l # "names" => module'.arrays[l] = module.arrays[l]
               /\ module'.start = module.start /\ module'.module_name = module.module_name
<1>1. /\ load = "parsing" /\ load' = load /\ temp' = temp
      /\ current_index' = current_index
      /\ sec.kind = "names" /\ sec.done = 0
  BY DEF FunctionNames, InNames
<1>2. module \in ModuleType /\ sec \in SecType /\ heap \subseteq Blocks
  BY DEF OrderedInv, LTypeOK
<1>3. sec.total \in Nat /\ sec = [kind |-> "names", done |-> sec.done, total |-> sec.total]
  BY <1>1, <1>2, SecShapes
<1>4. sec' = [kind |-> "names", done |-> 1, total |-> sec.total]
  <2>1. sec' = [sec EXCEPT !.done = 1]
    BY DEF FunctionNames
  <2> QED  BY <1>3, <2>1
<1>5. CASE ~(module.arrays["names"].ptr = {} /\ sec.total # 0)
  <2>1. module' = module /\ heap' = heap
    BY <1>5 DEF FunctionNames
  <2> QED  BY <1>1, <1>3, <1>4, <2>1
<1>6. CASE module.arrays["names"].ptr = {} /\ sec.total # 0
  <2> DEFINE n == sec.total
             its == [i \in 1 .. n |-> ZeroItem]
             arr == [ptr |-> {NewBlock}, items |-> its]
  <2>1. /\ module' = [module EXCEPT !.arrays["names"] = arr]
        /\ heap # Blocks /\ heap' = heap \cup {NewBlock}
    BY <1>6 DEF FunctionNames, Allocate
  <2>2. "names" \in Kinds
    BY DEF Kinds
  <2>3. module.arrays["names"] = NoArray
    <3>1. module.arrays["names"] \in ArrayType
      BY <1>2, <2>2, ModuleShape
    <3>2. module.arrays["names"].items = <<>>
      BY <1>6, <2>2 DEF OrderedInv, OrderInv
    <3> QED  BY <1>6, <3>1, <3>2 DEF ArrayType, NoArray
  <2>4. NewBlock \in Blocks /\ NewBlock \notin heap
    BY <1>2, <2>1, NewBlockIsNew
  <2>5. its \in Seq(ItemType) /\ Len(its) = n
    <3>1. ZeroItem \in ItemType
      BY DEF ZeroItem, ItemType
    <3> QED  BY <1>3, <3>1
  <2>6. arr \in ArrayType /\ arr.ptr = {NewBlock} /\ arr.items = its
    BY <2>4, <2>5 DEF ArrayType
  <2>7. \A i \in 1 .. n : its[i] = ZeroItem
    OBVIOUS
  <2> HIDE DEF arr, its
  <2>8. /\ module' \in ModuleType
        /\ module'.arrays["names"] = arr
        /\ \A l \in Kinds : l # "names" => module'.arrays[l] = module.arrays[l]
        /\ module'.start = module.start /\ module'.module_name = module.module_name
    BY <1>2, <2>1, <2>2, <2>6 DEF ModuleType
  <2>9. Count(module', "names") = n
    BY <2>5, <2>6, <2>8 DEF Count
  <2> QED  BY <1>1, <1>3, <1>4, <1>6, <2>1, <2>3, <2>4, <2>6, <2>7, <2>8, <2>9
<1> QED  BY <1>5, <1>6

LEMMA FunctionNamesOrdered ==
  ASSUME OrderedInv, FunctionNames
  PROVE  OrderedInv'
<1>1. /\ load = "parsing" /\ load' = load /\ temp' = temp
      /\ current_index' = current_index
      /\ sec.kind = "names" /\ sec.done = 0 /\ sec.total \in Nat
      /\ sec' = [kind |-> "names", done |-> 1, total |-> sec.total]
      /\ \/ module' = module /\ heap' = heap
         \/ /\ module.arrays["names"] = NoArray
            /\ NewBlock \in Blocks /\ heap' = heap \cup {NewBlock}
            /\ module' \in ModuleType
            /\ module'.arrays["names"].ptr = {NewBlock}
            /\ Count(module', "names") = sec.total
            /\ \A i \in 1 .. sec.total : module'.arrays["names"].items[i] = ZeroItem
            /\ \A l \in Kinds : l # "names" => module'.arrays[l] = module.arrays[l]
            /\ module'.start = module.start
  BY FunctionNamesFacts
<1>2. "names" \in Kinds /\ "names" \notin Vectors \cup {"start"}
  BY DEF Kinds, Vectors
<1>3. LTypeOK'
  <2>1. sec' \in SecType
    BY <1>1 DEF SecType
  <2> QED  BY <1>1, <2>1 DEF OrderedInv, LTypeOK
<1>4. ShapeInv'
  BY <1>1, <1>2 DEF OrderedInv, ShapeInv
<1>5. CASE module' = module
  BY <1>1, <1>3, <1>4, <1>5, KeptOrdered DEF OrderedInv, LTypeOK
<1>6. CASE module' # module
  <2>1. /\ module.arrays["names"] = NoArray
        /\ module'.arrays["names"].ptr = {NewBlock}
        /\ Count(module', "names") = sec.total
        /\ \A i \in 1 .. sec.total : module'.arrays["names"].items[i] = ZeroItem
        /\ \A l \in Kinds : l # "names" => module'.arrays[l] = module.arrays[l]
        /\ module'.start = module.start
        /\ module \in ModuleType /\ module' \in ModuleType
    BY <1>1, <1>6 DEF OrderedInv, LTypeOK
  <2>2. Count(module, "names") = 0
    BY <2>1 DEF Count, NoArray
  <2>3. \A l \in Kinds : l # "names" => Count(module', l) = Count(module, l)
    BY <2>1 DEF Count
  <2>4. \A l \in Kinds : Count(module, l) \in Nat /\ Count(module', l) \in Nat
    BY <2>1, ModuleShape
  <2>5. \A l \in Kinds : Count(module, l) <= Count(module', l)
    BY <2>2, <2>3, <2>4
  <2>6. \A l \in Kinds : \A i \in 1 .. Count(module', l) :
          \A r \in module'.arrays[l].items[i].refs :
            \/ i \in 1 .. Count(module, l) /\ r \in module.arrays[l].items[i].refs
            \/ Valid(module', r)
    BY <2>1, <2>3 DEF ZeroItem
  <2>7. \A l \in Kinds, i \in 1 .. 13 :
          SectionOrder[i] = l /\ i > current_index' /\ module.arrays[l] = NoArray =>
            module'.arrays[l] = NoArray
    BY <2>1, OrderFacts
  <2>8. \A l \in Kinds : module'.arrays[l].ptr = {} => module'.arrays[l].items = <<>>
    BY <2>1 DEF OrderedInv, OrderInv
  <2>9. BodiesInv'
    BY <2>1, <2>3 DEF OrderedInv, SoundInv, BodiesInv, Kinds
  <2>10. StartKept
    BY <1>1, <2>1 DEF StartKept, Kinds
  <2>11. current_index' >= current_index /\ ~(load' # "parsing")
    BY <1>1 DEF OrderedInv, LTypeOK
  <2> QED  BY <1>1, <1>3, <1>4, <2>5, <2>6, <2>7, <2>8, <2>9, <2>10, <2>11, StepOrdered
<1> QED  BY <1>5, <1>6

(* A name replaces the one of its function. *)
LEMMA FunctionNameFacts ==
  ASSUME OrderedInv, NEW f \in 0 .. FileLen, NEW named \in BOOLEAN, FunctionName(f, named)
  PROVE  /\ load = "parsing" /\ load' = load /\ temp' = temp
         /\ current_index' = current_index /\ sec' = sec /\ sec.kind = "names"
         /\ \/ module' = module /\ heap' = heap
            \/ /\ module.arrays["names"].ptr # {} /\ f < Count(module, "names")
               /\ \E name \in SUBSET Blocks :
                    /\ name \cap heap = {}
                    /\ heap' = (heap \ OldName(f)) \cup name
                    /\ module' \in ModuleType
                    /\ \A l \in Kinds :
                         /\ l # "names" => module'.arrays[l] = module.arrays[l]
                         /\ module'.arrays[l].ptr = module.arrays[l].ptr
                         /\ Count(module', l) = Count(module, l)
                    /\ \A j \in 1 .. Count(module, "names") :
                         /\ module'.arrays["names"].items[j].refs =
                              module.arrays["names"].items[j].refs
                         /\ j # f + 1 => module'.arrays["names"].items[j] =
                                           module.arrays["names"].items[j]
                         /\ j = f + 1 => module'.arrays["names"].items[j].own = name
                    /\ module'.start = module.start
                    /\ module'.module_name = module.module_name
<1>1. /\ load = "parsing" /\ load' = load /\ temp' = temp
      /\ current_index' = current_index /\ sec' = sec /\ sec.kind = "names"
  BY DEF FunctionName, AtName, InNames
<1>2. module \in ModuleType /\ heap \subseteq Blocks
  BY DEF OrderedInv, LTypeOK
<1>3. CASE ~Stored(f)
  BY <1>1, <1>3 DEF FunctionName
<1>4. CASE Stored(f)
  <2>0. module.arrays["names"].ptr # {} /\ f < Count(module, "names")
    BY <1>4 DEF FunctionName, Stored
  <2> DEFINE name == IF named THEN {NewBlock} ELSE {}
  <2>1. /\ heap' = (heap \ OldName(f)) \cup name
        /\ module' = WithOwn(module, "names", f + 1, name)
    BY <1>4 DEF FunctionName, WithOwn
  <2>2. name \in SUBSET Blocks /\ name \cap heap = {}
    <3>1. CASE named
      <4>1. NewBlock \in Blocks /\ NewBlock \notin heap
        BY <1>2, <3>1, NewBlockIsNew DEF FunctionName
      <4> QED  BY <4>1
    <3>2. CASE ~named
      BY <3>2
    <3> QED  BY <3>1, <3>2
  <2>3. "names" \in Kinds /\ f + 1 \in Int
    BY LoaderAssumption DEF Kinds
  <2> HIDE DEF name
  <2>6. OwnReplaced(module, module', "names", f + 1, name)
    BY <1>2, <2>1, <2>2, <2>3, OwnAssigned
  <2>4. /\ module' \in ModuleType
        /\ \A l \in Kinds : l # "names" => module'.arrays[l] = module.arrays[l]
        /\ module'.arrays["names"].ptr = module.arrays["names"].ptr
        /\ Count(module', "names") = Count(module, "names")
        /\ \A j \in 1 .. Count(module, "names") :
             /\ module'.arrays["names"].items[j].refs = module.arrays["names"].items[j].refs
             /\ j # f + 1 => module'.arrays["names"].items[j] = module.arrays["names"].items[j]
             /\ j = f + 1 => module'.arrays["names"].items[j].own = name
        /\ module'.start = module.start /\ module'.module_name = module.module_name
    BY <2>6 DEF OwnReplaced
  <2>5. \A l \in Kinds : /\ l # "names" => module'.arrays[l] = module.arrays[l]
                         /\ module'.arrays[l].ptr = module.arrays[l].ptr
                         /\ Count(module', l) = Count(module, l)
    BY <2>4 DEF Count
  <2> QED  BY <1>1, <2>0, <2>1, <2>2, <2>4, <2>5
<1> QED  BY <1>3, <1>4

LEMMA FunctionNameOrdered ==
  ASSUME OrderedInv, NEW f \in 0 .. FileLen, NEW named \in BOOLEAN, FunctionName(f, named)
  PROVE  OrderedInv'
<1>1. /\ load = "parsing" /\ load' = load /\ temp' = temp
      /\ current_index' = current_index /\ sec' = sec /\ sec.kind = "names"
  BY FunctionNameFacts
<1>2. "names" \in Kinds /\ "names" \notin Vectors \cup {"start"}
  BY DEF Kinds, Vectors
<1>3. CASE module' = module /\ heap' = heap
  <2>1. LTypeOK'
    BY <1>1, <1>3 DEF OrderedInv, LTypeOK
  <2>2. ShapeInv'
    BY <1>1, <1>2 DEF OrderedInv, ShapeInv
  <2> QED  BY <1>1, <1>3, <2>1, <2>2, KeptOrdered DEF OrderedInv, LTypeOK
<1>4. CASE ~(module' = module /\ heap' = heap)
  <2>1. PICK name \in SUBSET Blocks :
          /\ heap' = (heap \ OldName(f)) \cup name
          /\ module' \in ModuleType
          /\ \A l \in Kinds :
               /\ l # "names" => module'.arrays[l] = module.arrays[l]
               /\ module'.arrays[l].ptr = module.arrays[l].ptr
               /\ Count(module', l) = Count(module, l)
          /\ \A j \in 1 .. Count(module, "names") :
               module'.arrays["names"].items[j].refs = module.arrays["names"].items[j].refs
          /\ module'.start = module.start
    BY <1>4, FunctionNameFacts
  <2>2. LTypeOK'
    BY <1>1, <2>1 DEF OrderedInv, LTypeOK
  <2>3. ShapeInv'
    BY <1>1, <1>2 DEF OrderedInv, ShapeInv
  <2>4. \A k \in Kinds : \A i \in 1 .. Count(module, k) :
          \A r \in module'.arrays[k].items[i].refs :
            r \in module.arrays[k].items[i].refs \/ Valid(module', r)
    BY <2>1
  <2> QED  BY <1>1, <2>1, <2>2, <2>3, <2>4, ElementOrdered
<1> QED  BY <1>3, <1>4

LEMMA ModuleNameOrdered ==
  ASSUME OrderedInv, ModuleName
  PROVE  OrderedInv'
<1>1. /\ load = "parsing" /\ load' = load /\ temp' = temp
      /\ current_index' = current_index /\ sec' = sec /\ sec.kind = "names"
      /\ heap # Blocks /\ heap' = heap \cup {NewBlock}
      /\ module' = [module EXCEPT !.module_name = {NewBlock}]
  BY DEF ModuleName, InNames, Allocate
<1>2. module \in ModuleType /\ heap \subseteq Blocks
  BY DEF OrderedInv, LTypeOK
<1>3. NewBlock \in Blocks
  BY <1>1, <1>2, NewBlockIsNew
<1>4. /\ module' \in ModuleType
      /\ module'.arrays = module.arrays /\ module'.start = module.start
  BY <1>1, <1>2, <1>3 DEF ModuleType
<1>5. LTypeOK'
  BY <1>1, <1>3, <1>4 DEF OrderedInv, LTypeOK
<1>6. ShapeInv'
  <2>1. "names" \notin Vectors \cup {"start"}
    BY DEF Vectors, Kinds
  <2> QED  BY <1>1, <2>1 DEF OrderedInv, ShapeInv
<1>7. \A k \in Kinds : /\ Count(module', k) = Count(module, k)
                       /\ module'.arrays[k].ptr = module.arrays[k].ptr
                       /\ module'.arrays[k] = module.arrays[k]
  BY <1>4 DEF Count
<1>8. \A k \in Kinds : \A i \in 1 .. Count(module, k) :
        \A r \in module'.arrays[k].items[i].refs :
          r \in module.arrays[k].items[i].refs \/ Valid(module', r)
  BY <1>4
<1> QED  BY <1>1, <1>4, <1>5, <1>6, <1>7, <1>8, ElementOrdered

(* A module without arrays. *)
LEMMA EmptyFacts ==
  ASSUME NEW m, m \in {Zeroed, Freed}
  PROVE  /\ m \in ModuleType
         /\ \A k \in Kinds : m.arrays[k] = NoArray /\ Count(m, k) = 0
         /\ m.module_name = {}
         /\ TotalFuncs(m) = 0
<1>1. NoArray \in ArrayType
  BY DEF NoArray, ArrayType
<1>2. [k \in Kinds |-> NoArray] \in [Kinds -> ArrayType]
  BY <1>1
<1>3. /\ m.arrays = [k \in Kinds |-> NoArray] /\ m.module_name = {} /\ m \in ModuleType
  BY <1>2 DEF Zeroed, Freed, ModuleType
<1>4. \A k \in Kinds : m.arrays[k] = NoArray
  BY <1>3
<1>5. \A k \in Kinds : Count(m, k) = 0
  BY <1>4 DEF Count, NoArray
<1>6. TotalFuncs(m) = 0
  BY <1>5 DEF TotalFuncs, Kinds
<1> QED  BY <1>3, <1>4, <1>5, <1>6

LEMMA EmptyOrdered ==
  ASSUME NEW m, m \in {Zeroed, Freed}, LTypeOK', module' = m, sec' = NoSection, temp' = {},
         m = Zeroed \/ load' # "parsing"
  PROVE  OrderedInv'
<1>1. /\ \A k \in Kinds : m.arrays[k] = NoArray /\ Count(m, k) = 0
      /\ "code" \in Kinds /\ "function" \in Kinds
  BY EmptyFacts DEF Kinds
<1>2. ShapeInv'
  BY DEF ShapeInv, NoSection, Vectors, Kinds
<1>3. OrderInv'
  BY <1>1 DEF OrderInv, NoArray
<1>4. RefsValid(module')
  BY <1>1 DEF RefsValid
<1>5. BodiesInv' /\ LoadedInv'
  BY <1>1 DEF BodiesInv, LoadedInv
<1>6. StartInv'
  <2>1. CASE m = Zeroed
    <3>1. module'.start = -1
      BY <2>1 DEF Zeroed
    <3> QED  BY <3>1 DEF StartInv
  <2>2. CASE m = Freed /\ load' # "parsing"
    BY <2>2 DEF StartInv
  <2> QED  BY <2>1, <2>2
<1> QED  BY <1>2, <1>3, <1>4, <1>5, <1>6 DEF OrderedInv, SoundInv

LEMMA LoadModuleOrdered ==
  ASSUME OrderedInv, LoadModule
  PROVE  OrderedInv'
<1>1. sec = NoSection
  BY DEF LoadModule, OrderedInv, ShapeInv
<1>2. temp = {}
  BY <1>1 DEF OrderedInv, ShapeInv, NoSection, Vectors, Kinds
<1>3. LTypeOK'
  BY EmptyFacts DEF LoadModule, OrderedInv, LTypeOK
<1> QED  BY <1>1, <1>2, <1>3, EmptyOrdered DEF LoadModule

(* wasm_module_free, when it is done with what the parsers hold. *)
LEMMA FreedOrdered ==
  ASSUME OrderedInv, NEW blocks, wasm_module_free(blocks), sec' = NoSection, temp' = {},
         load' # "parsing", current_index' = current_index
  PROVE  OrderedInv'
<1>1. LTypeOK'
  BY EmptyFacts DEF wasm_module_free, OrderedInv, LTypeOK, SecType
<1> QED  BY <1>1, EmptyOrdered DEF wasm_module_free

(* Of a load that left the language nothing is said but where it was. *)
LEMMA CrashFacts ==
  ASSUME NullCopied \/ FreeOutside \/ \E f \in 0 .. FileLen : NameOutside(f)
  PROVE  /\ load = "parsing" /\ load' = "crashed"
         /\ UNCHANGED <<heap, module, current_index, sec, temp, left>>
BY DEF NullCopied, NameOutside, FreeOutside, Crashes, AtBlock, InVector, AtName, InNames

LEMMA CrashOrdered ==
  ASSUME OrderedInv, NullCopied \/ FreeOutside \/ \E f \in 0 .. FileLen : NameOutside(f)
  PROVE  OrderedInv'
<1>1. /\ load = "parsing" /\ load' = "crashed"
      /\ UNCHANGED <<heap, module, current_index, sec, temp, left>>
  BY CrashFacts
<1>2. LTypeOK' /\ OrderInv'
  BY <1>1 DEF OrderedInv, LTypeOK, OrderInv
<1>3. ShapeInv'
  BY <1>1 DEF OrderedInv, ShapeInv
<1>4. SoundInv'
  BY <1>1 DEF OrderedInv, SoundInv, BodiesInv, StartInv, LoadedInv
<1> QED  BY <1>2, <1>3, <1>4 DEF OrderedInv

LEMMA LoaderStepOrdered ==
  ASSUME OrderedInv, LoaderStep
  PROVE  OrderedInv'
<1>1. CASE \E kind \in Kinds \ {"names"}, n \in 0 .. FileLen : VectorSection(kind, n)
  BY <1>1, VectorSectionOrdered DEF Vectors
<1>2. CASE \E kind \in {"memory", "datacount"} : PlainSection(kind)
  BY <1>2, ReadingOrdered
<1>3. CASE \E f \in 0 .. FileLen : StartSection(f)
  BY <1>3, StartSectionOrdered
<1>4. CASE ElementBlock
  BY <1>4, ElementBlockOrdered
<1>5. CASE InVector /\ \E refs \in Refs(sec.kind) : ElementEnd(refs)
  BY <1>5, ElementEndOrdered
<1>6. CASE VectorEnd \/ StartEnd \/ NameSection \/ NamesEnd \/ FileEnd
  BY <1>6, ReadingOrdered
<1>7. CASE ModuleName
  BY <1>7, ModuleNameOrdered
<1>8. CASE FunctionNames
  BY <1>8, FunctionNamesOrdered
<1>9. CASE \E f \in 0 .. FileLen, named \in BOOLEAN : FunctionName(f, named)
  BY <1>9, FunctionNameOrdered
<1>10. CASE LoadFails
  BY <1>10, FreedOrdered DEF LoadFails
<1>11. CASE NullCopied \/ FreeOutside \/ \E f \in 0 .. FileLen : NameOutside(f)
  BY <1>11, CrashOrdered
<1> QED  BY <1>1, <1>2, <1>3, <1>4, <1>5, <1>6, <1>7, <1>8, <1>9, <1>10, <1>11 DEF LoaderStep

LEMMA LoaderInitOrdered ==
  ASSUME LoaderInit
  PROVE  OrderedInv
<1>1. LTypeOK
  BY EmptyFacts DEF LoaderInit, LTypeOK, SecType
<1>2. \A k \in Kinds : module.arrays[k] = NoArray /\ Count(module, k) = 0
  BY EmptyFacts DEF LoaderInit
<1>3. ShapeInv
  BY DEF LoaderInit, ShapeInv, NoSection, Vectors, Kinds
<1>4. OrderInv
  BY <1>2 DEF OrderInv, NoArray
<1>5. RefsValid(module)
  BY <1>2 DEF RefsValid
<1>6. BodiesInv /\ StartInv /\ LoadedInv
  BY <1>2 DEF BodiesInv, StartInv, LoadedInv, LoaderInit, Kinds
<1> QED  BY <1>1, <1>3, <1>4, <1>5, <1>6 DEF OrderedInv, SoundInv

LEMMA OrderedIsSound ==
  ASSUME OrderedInv
  PROVE  ModuleSound
<1> SUFFICES ASSUME load = "ok" /\ module # Freed
             PROVE  /\ RefsValid(module)
                    /\ Count(module, "code") = Count(module, "function")
                    /\ module.start >= 0 => StartOK(module)
  BY DEF ModuleSound, RefsValid, StartOK
<1>1. sec = NoSection
  BY DEF OrderedInv, ShapeInv
<1> QED  BY <1>1 DEF OrderedInv, SoundInv, LoadedInv, StartInv, NoSection

-----------------------------------------------------------------------------
(* The places that hold the blocks.                                        *)

LEMMA PlaceFacts ==
  /\ \A p \in Places : p = Temp \/ p = Name \/ (p[1] \in Kinds /\ p[2] \in Nat /\ p = <<p[1], p[2]>>)
  /\ Temp \in Places /\ Name \in Places /\ Temp # Name
  /\ \A k \in Kinds, i \in Nat :
       <<k, i>> \in Places /\ <<k, i>> # Temp /\ <<k, i>> # Name
BY DEF Places, Temp, Name, Kinds

LEMMA HoldingAt ==
  ASSUME NEW m, NEW t
  PROVE  /\ Holding(m, t)[Temp] = t
         /\ Holding(m, t)[Name] = m.module_name
         /\ \A k \in Kinds : Holding(m, t)[<<k, 0>>] = m.arrays[k].ptr
         /\ \A k \in Kinds, i \in Nat \ {0} : Holding(m, t)[<<k, i>>] = ItemOwns(m, k, i)
<1>1. \A p \in Places : Holding(m, t)[p] = BlocksAt(m, t, p)
  BY DEF Holding
<1>2. BlocksAt(m, t, Temp) = t /\ BlocksAt(m, t, Name) = m.module_name
  BY PlaceFacts DEF BlocksAt
<1>3. ASSUME NEW k \in Kinds, NEW i \in Nat
      PROVE  BlocksAt(m, t, <<k, i>>) = IF i = 0 THEN m.arrays[k].ptr ELSE ItemOwns(m, k, i)
  BY PlaceFacts DEF BlocksAt
<1>4. ASSUME NEW k \in Kinds
      PROVE  Holding(m, t)[<<k, 0>>] = m.arrays[k].ptr
  BY <1>1, <1>3, PlaceFacts
<1>5. ASSUME NEW k \in Kinds, NEW i \in Nat \ {0}
      PROVE  Holding(m, t)[<<k, i>>] = ItemOwns(m, k, i)
  BY <1>1, <1>3, PlaceFacts
<1> QED  BY <1>1, <1>2, <1>4, <1>5, PlaceFacts

(* A step assigns only to the places in P. *)
Frame(m, n, t, u, P) ==
  /\ Temp \notin P => u = t
  /\ Name \notin P => n.module_name = m.module_name
  /\ \A k \in Kinds : <<k, 0>> \notin P => n.arrays[k].ptr = m.arrays[k].ptr
  /\ \A k \in Kinds, i \in Nat \ {0} :
       <<k, i>> \notin P => ItemOwns(n, k, i) = ItemOwns(m, k, i)

(* What a step does not assign stays where it is. *)
LEMMA HoldingFrame ==
  ASSUME NEW m, NEW n, NEW t, NEW u, NEW P, Frame(m, n, t, u, P)
  PROVE  \A p \in Places : p \notin P => Holding(n, u)[p] = Holding(m, t)[p]
<1> SUFFICES ASSUME NEW p \in Places, p \notin P
             PROVE  Holding(n, u)[p] = Holding(m, t)[p]
  OBVIOUS
<1>1. CASE p = Temp \/ p = Name
  BY <1>1, HoldingAt DEF Frame
<1>2. CASE p[1] \in Kinds /\ p[2] = 0 /\ p = <<p[1], p[2]>>
  <2>1. n.arrays[p[1]].ptr = m.arrays[p[1]].ptr
    BY <1>2 DEF Frame
  <2>2. /\ Holding(n, u)[<<p[1], 0>>] = n.arrays[p[1]].ptr
        /\ Holding(m, t)[<<p[1], 0>>] = m.arrays[p[1]].ptr
    BY <1>2, HoldingAt
  <2> QED  BY <1>2, <2>1, <2>2
<1>3. CASE p[1] \in Kinds /\ p[2] \in Nat \ {0} /\ p = <<p[1], p[2]>>
  <2>1. ItemOwns(n, p[1], p[2]) = ItemOwns(m, p[1], p[2])
    BY <1>3 DEF Frame
  <2>2. /\ Holding(n, u)[<<p[1], p[2]>>] = ItemOwns(n, p[1], p[2])
        /\ Holding(m, t)[<<p[1], p[2]>>] = ItemOwns(m, p[1], p[2])
    BY <1>3, HoldingAt
  <2> QED  BY <1>3, <2>1, <2>2
<1> QED  BY <1>1, <1>2, <1>3, PlaceFacts

(* One place gets other blocks: those it had are freed, those it gets are  *)
(* new.                                                                    *)
LEMMA PartitionChanges ==
  ASSUME NEW f, NEW g, NEW H, NEW p \in Places, Partition(f, H),
         \A q \in Places : q \notin {p} => g[q] = f[q],
         g[p] \cap (H \ f[p]) = {}
  PROVE  Partition(g, (H \ f[p]) \cup g[p])
<1> DEFINE G == (H \ f[p]) \cup g[p]
<1>1. ASSUME NEW q \in Places
      PROVE  g[q] \subseteq G
  <2>1. CASE q = p
    BY <2>1
  <2>2. CASE q # p
    <3>1. g[q] = f[q] /\ f[q] \subseteq H /\ f[q] \cap f[p] = {}
      BY <2>2 DEF Partition
    <3> QED  BY <3>1
  <2> QED  BY <2>1, <2>2
<1>2. ASSUME NEW b \in G
      PROVE  \E q \in Places : b \in g[q]
  <2>1. CASE b \in g[p]
    BY <2>1
  <2>2. CASE b \in H \ f[p]
    <3>1. PICK q \in Places : b \in f[q]
      BY <2>2 DEF Partition
    <3>2. q # p
      BY <2>2, <3>1
    <3> QED  BY <3>1, <3>2
  <2> QED  BY <2>1, <2>2
<1>3. ASSUME NEW q \in Places, NEW r \in Places, q # r
      PROVE  g[q] \cap g[r] = {}
  <2>1. \A s \in Places : s # p => g[s] \subseteq H \ f[p]
    <3> SUFFICES ASSUME NEW s \in Places, s # p
                 PROVE  g[s] \subseteq H \ f[p]
      OBVIOUS
    <3>1. g[s] = f[s] /\ f[s] \subseteq H /\ f[s] \cap f[p] = {}
      BY DEF Partition
    <3> QED  BY <3>1
  <2>2. CASE q # p /\ r # p
    <3>1. g[q] = f[q] /\ g[r] = f[r] /\ f[q] \cap f[r] = {}
      BY <1>3, <2>2 DEF Partition
    <3> QED  BY <3>1
  <2>3. CASE q = p
    <3>1. g[r] \subseteq H \ f[p]
      BY <1>3, <2>1, <2>3
    <3> QED  BY <2>3, <3>1
  <2>4. CASE r = p
    <3>1. g[q] \subseteq H \ f[p]
      BY <1>3, <2>1, <2>4
    <3> QED  BY <2>4, <3>1
  <2> QED  BY <2>2, <2>3, <2>4
<1> QED  BY <1>1, <1>2, <1>3 DEF Partition

Moves(f, g, p, o) ==
  /\ p # o
  /\ g[p] = {} /\ g[o] = f[o] \cup f[p]
  /\ \A q \in Places : q # p /\ q # o => g[q] = f[q]

(* The blocks of one place move to another. *)
LEMMA PartitionMoves ==
  ASSUME NEW f, NEW g, NEW H, NEW p \in Places, NEW o \in Places, Partition(f, H),
         Moves(f, g, p, o)
  PROVE  Partition(g, H)
<1>0. /\ p # o
      /\ g[p] = {} /\ g[o] = f[o] \cup f[p]
      /\ \A q \in Places : q # p /\ q # o => g[q] = f[q]
  BY DEF Moves
<1>1. ASSUME NEW q \in Places
      PROVE  g[q] \subseteq H
  <2>1. f[q] \subseteq H /\ f[p] \subseteq H
    BY DEF Partition
  <2>2. CASE q = p
    BY <1>0, <2>2
  <2>3. CASE q = o
    BY <1>0, <2>1, <2>3
  <2>4. CASE q \notin {p, o}
    <3>1. g[q] = f[q]
      BY <1>0, <2>4
    <3> QED  BY <2>1, <3>1
  <2> QED  BY <2>2, <2>3, <2>4
<1>2. ASSUME NEW b \in H
      PROVE  \E q \in Places : b \in g[q]
  <2>1. PICK q \in Places : b \in f[q]
    BY DEF Partition
  <2>2. CASE q \in {p, o}
    <3>1. b \in g[o]
      BY <1>0, <2>1, <2>2
    <3> QED  BY <3>1
  <2>3. CASE q \notin {p, o}
    <3>1. g[q] = f[q]
      BY <1>0, <2>3
    <3> QED  BY <2>1, <3>1
  <2> QED  BY <2>2, <2>3
<1>3. ASSUME NEW q \in Places, NEW r \in Places, q # r
      PROVE  g[q] \cap g[r] = {}
  <2>1. \A s, z \in Places : s # z => f[s] \cap f[z] = {}
    BY DEF Partition
  <2>2. CASE q = p \/ r = p
    BY <1>0, <2>2
  <2>3. CASE q = o /\ r # p
    <3>1. g[r] = f[r] /\ f[r] \cap f[o] = {} /\ f[r] \cap f[p] = {}
      BY <1>0, <1>3, <2>1, <2>3
    <3> QED  BY <1>0, <2>3, <3>1
  <2>4. CASE r = o /\ q # p
    <3>1. g[q] = f[q] /\ f[q] \cap f[o] = {} /\ f[q] \cap f[p] = {}
      BY <1>0, <1>3, <2>1, <2>4
    <3> QED  BY <1>0, <2>4, <3>1
  <2>5. CASE q \notin {p, o} /\ r \notin {p, o}
    <3>1. g[q] = f[q] /\ g[r] = f[r]
      BY <1>0, <2>5
    <3> QED  BY <1>3, <2>1, <3>1
  <2> QED  BY <2>2, <2>3, <2>4, <2>5
<1> QED  BY <1>1, <1>2, <1>3 DEF Partition

-----------------------------------------------------------------------------
(* The steps of the loader keep the ownership of blocks.                   *)

LEMMA NamesKept ==
  ASSUME NamesInv,
         \A k \in {"import", "function", "names"} :
           /\ Count(module', k) = Count(module, k)
           /\ module'.arrays[k].ptr = module.arrays[k].ptr,
         sec'.kind = "names" => sec.kind = "names" /\ sec'.total = sec.total
  PROVE  NamesInv'
<1>1. TotalFuncs(module') = TotalFuncs(module)
  BY DEF TotalFuncs
<1> QED  BY <1>1 DEF NamesInv, NamesSized

(* A new array of zero elements. *)
LEMMA ArrayAllocated ==
  ASSUME NEW m \in ModuleType, NEW n \in ModuleType, NEW k \in Kinds, NEW b, NEW t, NEW H,
         m.arrays[k] = NoArray, n.arrays[k].ptr = {b}, b \notin H,
         \A i \in 1 .. Count(n, k) : n.arrays[k].items[i] = ZeroItem,
         \A l \in Kinds : l # k => n.arrays[l] = m.arrays[l],
         n.module_name = m.module_name,
         Partition(Holding(m, t), H)
  PROVE  Partition(Holding(n, t), H \cup {b})
<1> DEFINE p == <<k, 0>>
           f == Holding(m, t)
           g == Holding(n, t)
<1>1. p \in Places
  BY PlaceFacts
<1>2. f[p] = {} /\ g[p] = {b}
  BY HoldingAt DEF NoArray
<1>3. \A l \in Kinds, i \in Nat \ {0} : ItemOwns(n, l, i) = ItemOwns(m, l, i)
  <2> SUFFICES ASSUME NEW l \in Kinds, NEW i \in Nat \ {0}
               PROVE  ItemOwns(n, l, i) = ItemOwns(m, l, i)
    OBVIOUS
  <2>1. CASE l # k
    BY <2>1 DEF ItemOwns, Count
  <2>2. CASE l = k
    <3>1. ItemOwns(m, k, i) = {}
      BY DEF ItemOwns, Count, NoArray
    <3>2. ItemOwns(n, k, i) = {}
      BY DEF ItemOwns, ZeroItem
    <3> QED  BY <2>2, <3>1, <3>2
  <2> QED  BY <2>1, <2>2
<1>4. \A l \in Kinds : <<l, 0>> \notin {p} => n.arrays[l].ptr = m.arrays[l].ptr
  OBVIOUS
<1>5. \A q \in Places : q \notin {p} => g[q] = f[q]
  <2>1. Frame(m, n, t, t, {p})
    BY <1>3, <1>4 DEF Frame
  <2> QED  BY <2>1, HoldingFrame
<1> HIDE DEF f, g, p
<1>6. Partition(f, H)
  BY DEF f
<1>7. g[p] \cap (H \ f[p]) = {}
  BY <1>2
<1>8. Partition(g, (H \ f[p]) \cup g[p])
  BY <1>1, <1>5, <1>6, <1>7, PartitionChanges
<1>9. (H \ f[p]) \cup g[p] = H \cup {b}
  BY <1>2
<1> QED  BY <1>8, <1>9 DEF g

(* Only element i of the array of k differs. *)
OtherElement(m, n, k, i) ==
  /\ m \in ModuleType /\ n \in ModuleType /\ k \in Kinds /\ i \in 1 .. Count(m, k)
  /\ \A l \in Kinds : /\ l # k => n.arrays[l] = m.arrays[l]
                      /\ n.arrays[l].ptr = m.arrays[l].ptr
                      /\ Count(n, l) = Count(m, l)
  /\ \A j \in 1 .. Count(m, k) : j # i => n.arrays[k].items[j] = m.arrays[k].items[j]
  /\ n.module_name = m.module_name

(* An element gets other blocks. *)
LEMMA ItemOwnsOthers ==
  ASSUME NEW m, NEW n, NEW k, NEW i, OtherElement(m, n, k, i), NEW t, NEW H, NEW H2,
         n.arrays[k].items[i].own \cap (H \ m.arrays[k].items[i].own) = {},
         H2 = (H \ m.arrays[k].items[i].own) \cup n.arrays[k].items[i].own,
         Partition(Holding(m, t), H)
  PROVE  Partition(Holding(n, t), H2)
<1> USE DEF OtherElement
<1> DEFINE p == <<k, i>>
           f == Holding(m, t)
           g == Holding(n, t)
<1>1. i \in Nat \ {0}
  BY ModuleShape
<1>2. p \in Places /\ Temp # p /\ Name # p
  BY <1>1, PlaceFacts
<1>3. f[p] = m.arrays[k].items[i].own /\ g[p] = n.arrays[k].items[i].own
  BY <1>1, HoldingAt DEF ItemOwns
<1>4. \A l \in Kinds, j \in Nat \ {0} :
        <<l, j>> \notin {p} => ItemOwns(n, l, j) = ItemOwns(m, l, j)
  <2> SUFFICES ASSUME NEW l \in Kinds, NEW j \in Nat \ {0}, <<l, j>> # p
               PROVE  ItemOwns(n, l, j) = ItemOwns(m, l, j)
    OBVIOUS
  <2>1. CASE l # k
    BY <2>1 DEF ItemOwns
  <2>2. CASE l = k /\ j # i
    BY <2>2 DEF ItemOwns
  <2> QED  BY <2>1, <2>2
<1>5. \A q \in Places : q \notin {p} => g[q] = f[q]
  <2>1. Frame(m, n, t, t, {p})
    BY <1>4 DEF Frame
  <2> QED  BY <2>1, HoldingFrame
<1> HIDE DEF f, g, p
<1>6. Partition(f, H)
  BY DEF f
<1>7. g[p] \cap (H \ f[p]) = {}
  BY <1>3
<1>8. Partition(g, (H \ f[p]) \cup g[p])
  BY <1>2, <1>5, <1>6, <1>7, PartitionChanges
<1> QED  BY <1>3, <1>8 DEF g

LEMMA VectorSectionOwned ==
  ASSUME OwnedInv, NEW kind \in Vectors, NEW n \in 0 .. FileLen,
         VectorSection(kind, n)
  PROVE  NamesInv' /\ OwnInv'
<1>0. OrderedInv
  BY DEF OwnedInv
<1>1. /\ load = "parsing" /\ sec = NoSection
      /\ current_index' \in 1 .. 13 /\ current_index < current_index'
      /\ SectionOrder[current_index'] = kind
  BY <1>0, ReachesFacts DEF VectorSection, OrderedInv, LTypeOK
<1>2. /\ kind \in Kinds /\ kind # "names"
      /\ module.arrays[kind] = NoArray
      /\ NewBlock \in Blocks /\ NewBlock \notin heap
      /\ module'.arrays[kind].ptr = {NewBlock}
      /\ Count(module', kind) = n
      /\ \A i \in 1 .. n : module'.arrays[kind].items[i] = ZeroItem
      /\ \A l \in Kinds : l # kind => module'.arrays[l] = module.arrays[l]
      /\ module'.module_name = module.module_name
      /\ module' \in ModuleType
  BY <1>0, VectorSectionFacts
<1>3. /\ heap' = heap \cup {NewBlock} /\ temp' = temp /\ load' = load
      /\ sec' = [kind |-> kind, done |-> 0]
  BY DEF VectorSection, Allocate
<1>4. module \in ModuleType
  BY <1>0 DEF OrderedInv, LTypeOK
<1>5. NamesInv'
  <2>0. "names" \in Kinds /\ "import" \in Kinds /\ "function" \in Kinds
    BY DEF Kinds
  <2>1. CASE kind = "import"
    <3>1. Count(module, "import") = 0
      BY <1>2, <2>1 DEF Count, NoArray
    <3>2. module.arrays["function"] = NoArray
      <4>1. current_index < 3
        BY <1>0, <1>1, <2>1, OrderFacts DEF OrderedInv, LTypeOK
      <4> QED  BY <1>0, <2>0, <4>1, OrderFacts DEF OrderedInv, OrderInv, LTypeOK
    <3>3. TotalFuncs(module) = 0
      BY <3>1, <3>2 DEF TotalFuncs, Count, NoArray
    <3>4. module.arrays["names"].ptr = {}
      BY <3>1, <3>3 DEF OwnedInv, NamesInv, NamesSized
    <3>5. module'.arrays["names"].ptr = {}
      BY <1>2, <2>0, <3>4
    <3> QED  BY <1>2, <1>3, <3>5 DEF NamesInv, NamesSized
  <2>2. CASE kind = "function"
    <3>1. Count(module, "function") = 0
      BY <1>2, <2>2 DEF Count, NoArray
    <3>2. Count(module, "import") \in Nat
      BY <1>4, <2>0, ModuleShape
    <3>3. TotalFuncs(module) = Count(module, "import")
      BY <3>1, <3>2 DEF TotalFuncs
    <3>4. \A k \in {"import", "names"} : module'.arrays[k] = module.arrays[k]
      BY <1>2, <2>0, <2>2
    <3>5. /\ Count(module', "names") = Count(module, "names")
          /\ Count(module', "import") = Count(module, "import")
      BY <3>4 DEF Count
    <3> QED  BY <1>2, <1>3, <3>3, <3>4, <3>5 DEF OwnedInv, NamesInv, NamesSized
  <2>3. CASE kind \notin {"import", "function"}
    <3>1. \A k \in {"import", "function", "names"} : module'.arrays[k] = module.arrays[k]
      BY <1>2, <2>0, <2>3
    <3> QED  BY <1>2, <1>3, <3>1, NamesKept DEF Count, OwnedInv
  <2> QED  BY <2>1, <2>2, <2>3
<1>6. Partition(Holding(module, temp), heap)
  BY DEF OwnedInv, OwnInv
<1>7. Partition(Holding(module', temp), heap \cup {NewBlock})
  BY <1>2, <1>4, <1>6, ArrayAllocated
<1>8. OwnInv'
  BY <1>1, <1>3, <1>7 DEF OwnInv
<1> QED  BY <1>5, <1>8

LEMMA ReadingOwned ==
  ASSUME OwnedInv,
         \/ \E kind \in {"memory", "datacount"} : PlainSection(kind)
         \/ VectorEnd \/ StartEnd \/ NameSection \/ NamesEnd \/ FileEnd
  PROVE  NamesInv' /\ OwnInv'
<1>1. /\ load = "parsing" /\ module' = module /\ heap' = heap /\ temp' = temp
      /\ load' \in {"parsing", "ok"}
  BY DEF PlainSection, Reaches, AtSection, VectorEnd, InVector, StartEnd, NameSection,
         NamesEnd, InNames, FileEnd
<1>2. sec' = NoSection \/ sec' = [kind |-> "names", done |-> 0, total |-> TotalFuncs(module)]
  BY DEF PlainSection, Reaches, AtSection, VectorEnd, StartEnd, NameSection, NameSlots,
         NamesEnd, FileEnd
<1>3. NamesInv'
  BY <1>1, <1>2 DEF OwnedInv, NamesInv, NamesSized, NoSection
<1>4. OwnInv'
  BY <1>1 DEF OwnedInv, OwnInv
<1> QED  BY <1>3, <1>4

LEMMA StartSectionOwned ==
  ASSUME OwnedInv, NEW f \in 0 .. FileLen, StartSection(f)
  PROVE  NamesInv' /\ OwnInv'
<1>1. /\ load = "parsing" /\ load' = load /\ heap' = heap /\ temp' = temp
      /\ module' = [module EXCEPT !.start = f] /\ sec' = [kind |-> "start", done |-> 0]
  BY DEF StartSection, Reaches, AtSection
<1>2. module \in ModuleType /\ f \in Int
  BY LoaderAssumption DEF OwnedInv, OrderedInv, LTypeOK
<1>3. /\ module' \in ModuleType /\ module'.arrays = module.arrays
      /\ module'.module_name = module.module_name
  BY <1>1, <1>2 DEF ModuleType
<1>4. NamesInv'
  BY <1>1, <1>3, NamesKept DEF OwnedInv, Count
<1>5. Holding(module', temp) = Holding(module, temp)
  <2>1. \A k, i : ItemOwns(module', k, i) = ItemOwns(module, k, i)
    BY <1>3 DEF ItemOwns, Count
  <2>2. \A p : BlocksAt(module', temp, p) = BlocksAt(module, temp, p)
    BY <1>3, <2>1 DEF BlocksAt
  <2> QED  BY <2>2 DEF Holding
<1>6. OwnInv'
  BY <1>1, <1>5 DEF OwnedInv, OwnInv
<1> QED  BY <1>4, <1>6

LEMMA ElementBlockOwned ==
  ASSUME OwnedInv, ElementBlock
  PROVE  NamesInv' /\ OwnInv'
<1>1. /\ load = "parsing" /\ load' = load /\ sec' = sec
      /\ sec.kind \in Kinds /\ sec.kind # "names"
      /\ Current \in 1 .. Count(module, sec.kind)
      /\ NewBlock \in Blocks /\ NewBlock \notin heap /\ heap' = heap \cup {NewBlock}
      /\ module' \in ModuleType
      /\ \A l \in Kinds : /\ l # sec.kind => module'.arrays[l] = module.arrays[l]
                          /\ module'.arrays[l].ptr = module.arrays[l].ptr
                          /\ Count(module', l) = Count(module, l)
      /\ \A j \in 1 .. Count(module, sec.kind) :
           j # Current => module'.arrays[sec.kind].items[j] = module.arrays[sec.kind].items[j]
      /\ module'.module_name = module.module_name
      /\ \/ /\ TakenAtOnce(sec.kind) /\ temp' = temp
            /\ module'.arrays[sec.kind].items[Current].own =
                 module.arrays[sec.kind].items[Current].own \cup {NewBlock}
         \/ /\ ~TakenAtOnce(sec.kind) /\ temp' = temp \cup {NewBlock}
            /\ module' = module
  BY ElementBlockFacts DEF OwnedInv
<1>2. module \in ModuleType
  BY DEF OwnedInv, OrderedInv, LTypeOK
<1>3. NamesInv'
  BY <1>1, NamesKept DEF OwnedInv, Kinds
<1>4. Partition(Holding(module, temp), heap)
  BY DEF OwnedInv, OwnInv
<1>5. CASE TakenAtOnce(sec.kind)
  <2> DEFINE own == module.arrays[sec.kind].items[Current].own
             new == module'.arrays[sec.kind].items[Current].own
  <2>1. new = own \cup {NewBlock} /\ temp' = temp
    BY <1>1, <1>5
  <2>2. own \subseteq heap
    <3>0. Count(module, sec.kind) \in Nat /\ Current \in 1 .. Count(module, sec.kind) /\ sec.kind \in Kinds
      BY <1>1, <1>2, ModuleShape
    <3>1. Current \in Nat \ {0}
      BY ONLY <3>0
    <3>4. Holding(module, temp)[<<sec.kind, Current>>] = ItemOwns(module, sec.kind, Current)
      BY ONLY <3>0, <3>1, HoldingAt
    <3>2. Holding(module, temp)[<<sec.kind, Current>>] = own
      BY <3>0, <3>4 DEF ItemOwns
    <3>3. <<sec.kind, Current>> \in Places
      BY <1>1, <3>1, PlaceFacts
    <3> QED  BY <1>4, <3>2, <3>3 DEF Partition
  <2>3. new \cap (heap \ own) = {} /\ heap' = (heap \ own) \cup new
    BY <1>1, <2>1, <2>2
  <2>4. OtherElement(module, module', sec.kind, Current)
    BY <1>1, <1>2 DEF OtherElement
  <2>5. Partition(Holding(module', temp), heap')
    BY ONLY <1>4, <2>3, <2>4, ItemOwnsOthers DEF own, new
  <2> QED  BY <1>1, <1>3, <2>1, <2>5 DEF OwnInv
<1>6. CASE ~TakenAtOnce(sec.kind)
  <2> DEFINE f == Holding(module, temp)
             g == Holding(module, temp')
  <2>1. module' = module /\ temp' = temp \cup {NewBlock}
    BY <1>1, <1>6
  <2>2. \A q \in Places : q \notin {Temp} => g[q] = f[q]
    <3>1. Frame(module, module, temp, temp', {Temp})
      BY DEF Frame
    <3> QED  BY <3>1, HoldingFrame
  <2>3. f[Temp] = temp /\ g[Temp] = temp' /\ Temp \in Places
    BY HoldingAt, PlaceFacts
  <2> HIDE DEF f, g
  <2>4. Partition(f, heap)
    BY <1>4 DEF f
  <2>5. temp \subseteq heap
    BY <2>3, <2>4 DEF Partition
  <2>6. g[Temp] \cap (heap \ f[Temp]) = {} /\ heap' = (heap \ f[Temp]) \cup g[Temp]
    BY <1>1, <2>1, <2>3, <2>5
  <2>7. Partition(g, heap')
    BY <2>2, <2>3, <2>4, <2>6, PartitionChanges
  <2> QED  BY <1>1, <1>3, <2>1, <2>7 DEF OwnInv, g
<1> QED  BY <1>5, <1>6

LEMMA ElementEndOwned ==
  ASSUME OwnedInv, NEW refs \in Refs(sec.kind), ElementEnd(refs)
  PROVE  NamesInv' /\ OwnInv'
<1>1. /\ load = "parsing" /\ load' = load /\ heap' = heap /\ temp' = {}
      /\ sec' = [kind |-> sec.kind, done |-> sec.done + 1]
      /\ sec.kind \in Kinds /\ sec.kind # "names"
      /\ Current \in 1 .. Count(module, sec.kind)
      /\ \A l \in Kinds : /\ l # sec.kind => module'.arrays[l] = module.arrays[l]
                          /\ module'.arrays[l].ptr = module.arrays[l].ptr
                          /\ Count(module', l) = Count(module, l)
      /\ \A j \in 1 .. Count(module, sec.kind) :
           /\ j # Current => module'.arrays[sec.kind].items[j] = module.arrays[sec.kind].items[j]
           /\ j = Current => module'.arrays[sec.kind].items[j].own =
                               module.arrays[sec.kind].items[j].own \cup temp
      /\ module'.module_name = module.module_name
  BY ElementEndFacts DEF OwnedInv
<1>2. module \in ModuleType
  BY DEF OwnedInv, OrderedInv, LTypeOK
<1>3. NamesInv'
  BY <1>1, NamesKept DEF OwnedInv, Kinds
<1> DEFINE f == Holding(module, temp)
           g == Holding(module', temp')
           o == <<sec.kind, Current>>
<1>4. Current \in Nat \ {0}
  BY <1>1, <1>2, ModuleShape
<1>5. o \in Places /\ Temp \in Places /\ Temp # o
  BY <1>1, <1>4, PlaceFacts
<1>6. f[Temp] = temp /\ g[Temp] = {}
  BY <1>1, HoldingAt
<1>7. g[o] = f[o] \cup f[Temp]
  <2>1. f[o] = module.arrays[sec.kind].items[Current].own
    BY <1>1, <1>4, HoldingAt DEF ItemOwns
  <2>2. g[o] = module'.arrays[sec.kind].items[Current].own
    BY <1>1, <1>4, HoldingAt DEF ItemOwns
  <2>3. module'.arrays[sec.kind].items[Current].own =
          module.arrays[sec.kind].items[Current].own \cup temp
    BY <1>1
  <2> QED  BY <1>6, <2>1, <2>2, <2>3
<1>8. \A q \in Places : q # Temp /\ q # o => g[q] = f[q]
  <2>1. \A l \in Kinds, j \in Nat \ {0} :
          <<l, j>> \notin {Temp, o} => ItemOwns(module', l, j) = ItemOwns(module, l, j)
    <3> SUFFICES ASSUME NEW l \in Kinds, NEW j \in Nat \ {0}, <<l, j>> # o
                 PROVE  ItemOwns(module', l, j) = ItemOwns(module, l, j)
      OBVIOUS
    <3>1. CASE l # sec.kind
      BY <1>1, <3>1 DEF ItemOwns
    <3>2. CASE l = sec.kind /\ j # Current
      BY <1>1, <3>2 DEF ItemOwns
    <3> QED  BY <3>1, <3>2
  <2>2. Frame(module, module', temp, temp', {Temp, o})
    BY <1>1, <2>1 DEF Frame
  <2> QED  BY <2>2, HoldingFrame
<1> HIDE DEF f, g, o
<1>9. Partition(f, heap)
  BY DEF OwnedInv, OwnInv, f
<1>10. Partition(g, heap)
  <2>1. Moves(f, g, Temp, o)
    BY <1>5, <1>6, <1>7, <1>8 DEF Moves
  <2> QED  BY <1>5, <1>9, <2>1, PartitionMoves
<1>11. OwnInv'
  BY <1>1, <1>10 DEF OwnInv, g
<1> QED  BY <1>3, <1>11

LEMMA ModuleNameOwned ==
  ASSUME OwnedInv, ModuleName
  PROVE  NamesInv' /\ OwnInv'
<1>1. /\ load = "parsing" /\ load' = load /\ temp' = temp /\ sec' = sec
      /\ heap # Blocks /\ heap' = heap \cup {NewBlock}
      /\ module.module_name = {}
      /\ module' = [module EXCEPT !.module_name = {NewBlock}]
  BY DEF ModuleName, InNames, Allocate
<1>2. module \in ModuleType /\ heap \subseteq Blocks
  BY DEF OwnedInv, OrderedInv, LTypeOK
<1>3. NewBlock \notin heap
  BY <1>1, <1>2, NewBlockIsNew
<1>4. module'.arrays = module.arrays /\ module'.module_name = {NewBlock}
  BY <1>1, <1>2 DEF ModuleType
<1>5. NamesInv'
  BY <1>1, <1>4, NamesKept DEF OwnedInv, Count
<1> DEFINE f == Holding(module, temp)
           g == Holding(module', temp)
<1>6. f[Name] = {} /\ g[Name] = {NewBlock} /\ Name \in Places
  BY <1>1, <1>4, HoldingAt, PlaceFacts
<1>7. \A q \in Places : q \notin {Name} => g[q] = f[q]
  <2>1. \A k, i : ItemOwns(module', k, i) = ItemOwns(module, k, i)
    BY <1>4 DEF ItemOwns, Count
  <2>2. Frame(module, module', temp, temp, {Name})
    BY <1>4, <2>1 DEF Frame
  <2> QED  BY <2>2, HoldingFrame
<1> HIDE DEF f, g
<1>8. Partition(f, heap)
  BY DEF OwnedInv, OwnInv, f
<1>9. g[Name] \cap (heap \ f[Name]) = {} /\ heap' = (heap \ f[Name]) \cup g[Name]
  BY <1>1, <1>3, <1>6
<1>10. Partition(g, heap')
  BY <1>6, <1>7, <1>8, <1>9, PartitionChanges
<1>11. OwnInv'
  BY <1>1, <1>10 DEF OwnInv, g
<1> QED  BY <1>5, <1>11

LEMMA FunctionNamesOwned ==
  ASSUME OwnedInv, FunctionNames
  PROVE  NamesInv' /\ OwnInv'
<1>1. /\ load = "parsing" /\ load' = load /\ temp' = temp
      /\ sec.kind = "names"
      /\ sec' = [kind |-> "names", done |-> 1, total |-> sec.total]
      /\ \/ module' = module /\ heap' = heap
         \/ /\ module.arrays["names"] = NoArray /\ sec.total # 0
            /\ NewBlock \in Blocks /\ NewBlock \notin heap /\ heap' = heap \cup {NewBlock}
            /\ module' \in ModuleType
            /\ module'.arrays["names"].ptr = {NewBlock}
            /\ Count(module', "names") = sec.total
            /\ \A i \in 1 .. sec.total : module'.arrays["names"].items[i] = ZeroItem
            /\ \A l \in Kinds : l # "names" => module'.arrays[l] = module.arrays[l]
            /\ module'.module_name = module.module_name
  BY FunctionNamesFacts DEF OwnedInv
<1>2. sec.total = TotalFuncs(module) /\ module \in ModuleType
  BY <1>1 DEF OwnedInv, NamesInv, OrderedInv, LTypeOK
<1>3. Partition(Holding(module, temp), heap)
  BY DEF OwnedInv, OwnInv
<1>4. CASE module' = module /\ heap' = heap
  <2>1. NamesInv'
    BY <1>1, <1>4, NamesKept DEF OwnedInv
  <2> QED  BY <1>1, <1>3, <1>4, <2>1 DEF OwnInv
<1>5. CASE ~(module' = module /\ heap' = heap)
  <2>1. TotalFuncs(module') = TotalFuncs(module)
    BY <1>1, <1>5 DEF TotalFuncs, Count, Kinds
  <2>2. NamesInv'
    BY <1>1, <1>2, <1>5, <2>1 DEF NamesInv, NamesSized
  <2>3. "names" \in Kinds
    BY DEF Kinds
  <2>4. Partition(Holding(module', temp), heap \cup {NewBlock})
    BY <1>1, <1>2, <1>3, <1>5, <2>3, ArrayAllocated
  <2>5. heap' = heap \cup {NewBlock}
    BY <1>1, <1>5
  <2> QED  BY <1>1, <2>2, <2>4, <2>5 DEF OwnInv
<1> QED  BY <1>4, <1>5

LEMMA FunctionNameOwned ==
  ASSUME OwnedInv, NEW f \in 0 .. FileLen, NEW named \in BOOLEAN, FunctionName(f, named)
  PROVE  NamesInv' /\ OwnInv'
<1>0. OrderedInv /\ module \in ModuleType
  BY DEF OwnedInv, OrderedInv, LTypeOK
<1>1. /\ load = "parsing" /\ load' = load /\ temp' = temp /\ sec' = sec /\ sec.kind = "names"
      /\ \/ module' = module /\ heap' = heap
         \/ f < Count(module, "names")
  BY <1>0, FunctionNameFacts
<1>2. Partition(Holding(module, temp), heap)
  BY DEF OwnedInv, OwnInv
<1>3. CASE module' = module /\ heap' = heap
  <2>1. NamesInv'
    BY <1>1, <1>3, NamesKept DEF OwnedInv
  <2> QED  BY <1>1, <1>2, <1>3, <2>1 DEF OwnInv
<1>4. CASE ~(module' = module /\ heap' = heap)
  <2>1. PICK name \in SUBSET Blocks :
          /\ name \cap heap = {}
          /\ heap' = (heap \ OldName(f)) \cup name
          /\ module' \in ModuleType
          /\ \A l \in Kinds :
               /\ l # "names" => module'.arrays[l] = module.arrays[l]
               /\ module'.arrays[l].ptr = module.arrays[l].ptr
               /\ Count(module', l) = Count(module, l)
          /\ \A j \in 1 .. Count(module, "names") :
               /\ j # f + 1 => module'.arrays["names"].items[j] = module.arrays["names"].items[j]
               /\ j = f + 1 => module'.arrays["names"].items[j].own = name
          /\ module'.module_name = module.module_name
    BY <1>0, <1>4, FunctionNameFacts
  <2>2. NamesInv'
    BY <1>1, <2>1, NamesKept DEF OwnedInv, Kinds
  <2>3. f + 1 \in 1 .. Count(module, "names")
    <3>1. Count(module, "names") \in Nat /\ f \in Nat
      BY <1>0, ModuleShape, LoaderAssumption DEF Kinds
    <3> QED  BY <1>1, <1>4, <3>1
  <2> DEFINE own == module.arrays["names"].items[f + 1].own
             new == module'.arrays["names"].items[f + 1].own
  <2>4. OldName(f) = own /\ new = name
    BY <2>1, <2>3 DEF OldName
  <2>5. new \cap (heap \ own) = {} /\ heap' = (heap \ own) \cup new
    BY <2>1, <2>4
  <2>6. "names" \in Kinds
    BY DEF Kinds
  <2>7. \A j \in 1 .. Count(module, "names") :
          j # f + 1 => module'.arrays["names"].items[j] = module.arrays["names"].items[j]
    BY <2>1
  <2> DEFINE i == f + 1
  <2> HIDE DEF i
  <2>8. Partition(Holding(module', temp), heap')
    <3>1. i \in 1 .. Count(module, "names")
      BY <2>3 DEF i
    <3>2. \A j \in 1 .. Count(module, "names") :
            j # i => module'.arrays["names"].items[j] = module.arrays["names"].items[j]
      BY <2>7 DEF i
    <3>3. /\ module'.arrays["names"].items[i].own \cap
               (heap \ module.arrays["names"].items[i].own) = {}
          /\ heap' = (heap \ module.arrays["names"].items[i].own) \cup
                       module'.arrays["names"].items[i].own
      BY <2>5 DEF i
    <3>4. OtherElement(module, module', "names", i)
      BY <1>0, <2>1, <2>6, <3>1, <3>2 DEF OtherElement
    <3> QED  BY ONLY <1>2, <3>3, <3>4, ItemOwnsOthers
  <2> QED  BY <1>1, <2>2, <2>8 DEF OwnInv
<1> QED  BY <1>3, <1>4

(* wasm_module_free visits every element of every array, and of the names  *)
(* more when the array is short.                                           *)
LEMMA AllVisited ==
  ASSUME OwnedInv, NEW k \in Kinds, NEW i \in 1 .. Count(module, k)
  PROVE  i \in 1 .. Visited(module, k)
<1>1. module.arrays[k].ptr # {}
  <2>1. SUFFICES ASSUME module.arrays[k].ptr = {} PROVE FALSE
    OBVIOUS
  <2>2. module.arrays[k].items = <<>>
    BY <2>1 DEF OwnedInv, OrderedInv, OrderInv
  <2>3. Count(module, k) = 0
    BY <2>2 DEF Count
  <2> QED  BY <2>3
<1>2. CASE k = "code"
  BY <1>1, <1>2 DEF Visited, OwnedInv, OrderedInv, SoundInv, BodiesInv
<1>3. CASE k = "names"
  <2>1. Count(module, "names") \in {Count(module, "import"), TotalFuncs(module)}
    BY <1>1, <1>3 DEF OwnedInv, NamesInv, NamesSized
  <2>2. \A l \in Kinds : Count(module, l) \in Nat
    BY ModuleShape DEF OwnedInv, OrderedInv, LTypeOK
  <2>3. Count(module, "names") <= TotalFuncs(module) /\ TotalFuncs(module) \in Nat
    BY <2>1, <2>2 DEF TotalFuncs, Kinds
  <2> QED  BY <1>1, <1>3, <2>2, <2>3 DEF Visited, Kinds
<1>4. CASE k \notin {"code", "names"}
  BY <1>4 DEF Visited
<1> QED  BY <1>2, <1>3, <1>4

(* So it frees all that is allocated, but for what the locals hold. *)
LEMMA AllFreed ==
  ASSUME OwnedInv
  PROVE  heap \subseteq temp \cup FreedBy(module)
<1> SUFFICES ASSUME NEW b \in heap, b \notin temp
             PROVE  b \in FreedBy(module)
  OBVIOUS
<1> DEFINE f == Holding(module, temp)
<1>1. PICK p \in Places : b \in f[p]
  BY DEF OwnedInv, OwnInv, Partition
<1>2. p # Temp
  BY <1>1, HoldingAt
<1>3. CASE p = Name
  <2>1. b \in module.module_name
    BY <1>1, <1>3, HoldingAt
  <2> QED  BY <2>1 DEF FreedBy
<1>4. CASE p[1] \in Kinds /\ p[2] = 0 /\ p = <<p[1], p[2]>>
  <2>1. f[<<p[1], 0>>] = module.arrays[p[1]].ptr
    BY <1>4, HoldingAt
  <2>2. b \in module.arrays[p[1]].ptr
    BY <1>1, <1>4, <2>1
  <2> QED  BY <1>4, <2>2 DEF FreedBy
<1>5. CASE p[1] \in Kinds /\ p[2] \in Nat \ {0} /\ p = <<p[1], p[2]>>
  <2>1. f[<<p[1], p[2]>>] = ItemOwns(module, p[1], p[2])
    BY <1>5, HoldingAt
  <2>2. b \in ItemOwns(module, p[1], p[2])
    BY <1>1, <1>5, <2>1
  <2>3. p[2] \in 1 .. Count(module, p[1]) /\ b \in module.arrays[p[1]].items[p[2]].own
    BY <2>2 DEF ItemOwns
  <2>4. p[2] \in 1 .. Visited(module, p[1])
    BY <1>5, <2>3, AllVisited
  <2> QED  BY <1>5, <2>3, <2>4 DEF FreedBy
<1> QED  BY <1>1, <1>2, <1>3, <1>4, <1>5, PlaceFacts

(* An empty module over an empty heap. *)
LEMMA EmptyOwned ==
  ASSUME NEW m, m \in {Zeroed, Freed}
  PROVE  Partition(Holding(m, {}), {})
<1>1. /\ \A k \in Kinds : m.arrays[k] = NoArray /\ Count(m, k) = 0
      /\ m.module_name = {}
  BY EmptyFacts
<1>2. ASSUME NEW p \in Places
      PROVE  Holding(m, {})[p] = {}
  <2>1. CASE p = Temp \/ p = Name
    BY <1>1, <2>1, HoldingAt
  <2>2. CASE p[1] \in Kinds /\ p[2] = 0 /\ p = <<p[1], p[2]>>
    <3>1. Holding(m, {})[<<p[1], 0>>] = m.arrays[p[1]].ptr
      BY <2>2, HoldingAt
    <3> QED  BY <1>1, <2>2, <3>1 DEF NoArray
  <2>3. CASE p[1] \in Kinds /\ p[2] \in Nat \ {0} /\ p = <<p[1], p[2]>>
    <3>1. Holding(m, {})[<<p[1], p[2]>>] = ItemOwns(m, p[1], p[2])
      BY <2>3, HoldingAt
    <3>2. ItemOwns(m, p[1], p[2]) = {}
      BY <1>1, <2>3 DEF ItemOwns
    <3> QED  BY <2>3, <3>1, <3>2
  <2> QED  BY <2>1, <2>2, <2>3, PlaceFacts
<1> QED  BY <1>2 DEF Partition

LEMMA FreedOwned ==
  ASSUME OwnedInv, NEW blocks, temp \subseteq blocks, wasm_module_free(blocks),
         sec' = NoSection, temp' = {}
  PROVE  NamesInv' /\ OwnInv' /\ heap' = {}
<1>1. module' = Freed /\ heap' = (heap \ blocks) \ FreedBy(module)
  BY DEF wasm_module_free
<1>2. heap' = {}
  BY <1>1, AllFreed
<1>3. Partition(Holding(module', temp'), heap')
  BY <1>1, <1>2, EmptyOwned
<1>4. NamesInv'
  <2>1. module'.arrays["names"].ptr = {}
    BY <1>1, EmptyFacts DEF NoArray, Kinds
  <2> QED  BY <2>1 DEF NamesInv, NamesSized, NoSection
<1> QED  BY <1>2, <1>3, <1>4 DEF OwnInv

LEMMA LoadModuleOwned ==
  ASSUME OwnedInv, LoadModule
  PROVE  NamesInv' /\ OwnInv'
<1>1. /\ load = "idle" /\ load' = "parsing" /\ module' = Zeroed
      /\ heap' = heap /\ temp' = temp /\ sec' = sec
  BY DEF LoadModule
<1>2. sec = NoSection
  BY <1>1 DEF OwnedInv, OrderedInv, ShapeInv
<1>3. temp = {}
  BY <1>2 DEF OwnedInv, OrderedInv, ShapeInv, NoSection, Vectors, Kinds
<1>4. heap = {}
  BY <1>1 DEF OwnedInv, OwnInv
<1>5. Partition(Holding(module', temp'), heap')
  BY <1>1, <1>3, <1>4, EmptyOwned
<1>6. NamesInv'
  <2>1. module'.arrays["names"].ptr = {}
    BY <1>1, EmptyFacts DEF NoArray, Kinds
  <2> QED  BY <1>1, <1>2, <2>1 DEF NamesInv, NamesSized, NoSection
<1> QED  BY <1>1, <1>5, <1>6 DEF OwnInv

LEMMA CrashOwned ==
  ASSUME OwnedInv, NullCopied \/ FreeOutside \/ \E f \in 0 .. FileLen : NameOutside(f)
  PROVE  NamesInv' /\ OwnInv'
<1>1. load' = "crashed" /\ UNCHANGED <<heap, module, sec, temp>>
  BY CrashFacts
<1>2. NamesInv'
  BY <1>1 DEF OwnedInv, NamesInv, NamesSized
<1>3. OwnInv'
  BY <1>1 DEF OwnedInv, OwnInv
<1> QED  BY <1>2, <1>3

LEMMA LoaderStepOwned ==
  ASSUME OwnedInv, LoaderStep
  PROVE  OwnedInv'
<1>0. OrderedInv /\ OrderedInv'
  BY LoaderStepOrdered DEF OwnedInv
<1> SUFFICES NamesInv' /\ OwnInv'
  BY <1>0 DEF OwnedInv
<1>1. CASE \E kind \in Kinds \ {"names"}, n \in 0 .. FileLen : VectorSection(kind, n)
  BY <1>1, VectorSectionOwned DEF Vectors
<1>2. CASE \E kind \in {"memory", "datacount"} : PlainSection(kind)
  BY <1>2, ReadingOwned
<1>3. CASE \E f \in 0 .. FileLen : StartSection(f)
  BY <1>3, StartSectionOwned
<1>4. CASE ElementBlock
  BY <1>4, ElementBlockOwned
<1>5. CASE InVector /\ \E refs \in Refs(sec.kind) : ElementEnd(refs)
  BY <1>5, ElementEndOwned
<1>6. CASE VectorEnd \/ StartEnd \/ NameSection \/ NamesEnd \/ FileEnd
  BY <1>6, ReadingOwned
<1>7. CASE ModuleName
  BY <1>7, ModuleNameOwned
<1>8. CASE FunctionNames
  BY <1>8, FunctionNamesOwned
<1>9. CASE \E f \in 0 .. FileLen, named \in BOOLEAN : FunctionName(f, named)
  BY <1>9, FunctionNameOwned
<1>10. CASE LoadFails
  BY <1>10, FreedOwned DEF LoadFails
<1>11. CASE NullCopied \/ FreeOutside \/ \E f \in 0 .. FileLen : NameOutside(f)
  BY <1>11, CrashOwned
<1> QED  BY <1>1, <1>2, <1>3, <1>4, <1>5, <1>6, <1>7, <1>8, <1>9, <1>10, <1>11 DEF LoaderStep

LEMMA LoaderInitOwned ==
  ASSUME LoaderInit
  PROVE  OwnedInv
<1>1. OrderedInv
  BY LoaderInitOrdered
<1>2. OwnInv
  BY EmptyOwned DEF LoaderInit, OwnInv
<1>3. NamesInv
  <2>1. module.arrays["names"].ptr = {}
    BY EmptyFacts DEF LoaderInit, NoArray, Kinds
  <2> QED  BY <2>1 DEF LoaderInit, NamesInv, NamesSized, NoSection
<1> QED  BY <1>1, <1>2, <1>3 DEF OwnedInv

(* A holder of a block is an array, an element or the module's name. *)
LEMMA HolderCases ==
  ASSUME NEW m, NEW b, NEW p
  PROVE  p \in Holders(m, b) <=>
           \/ \E k \in Kinds : p = <<k, 0>> /\ b \in m.arrays[k].ptr
           \/ \E k \in Kinds : \E i \in 1 .. Count(m, k) :
                p = <<k, i>> /\ b \in m.arrays[k].items[i].own
           \/ p = Name /\ b \in m.module_name
<1> DEFINE A == {<<k, 0>> : k \in {l \in Kinds : b \in m.arrays[l].ptr}}
           I(k) == {<<k, i>> : i \in {j \in 1 .. Count(m, k) : b \in m.arrays[k].items[j].own}}
           B == UNION {I(k) : k \in Kinds}
           C == IF b \in m.module_name THEN {<<"module_name", 0>>} ELSE {}
<1>1. Holders(m, b) = A \cup C \cup B
  BY Zenon DEF Holders
<1>2. p \in A <=> \E k \in Kinds : p = <<k, 0>> /\ b \in m.arrays[k].ptr
  OBVIOUS
<1>3. \A k : p \in I(k) <=> \E i \in 1 .. Count(m, k) :
                            p = <<k, i>> /\ b \in m.arrays[k].items[i].own
  OBVIOUS
<1>4. p \in C <=> p = Name /\ b \in m.module_name
  BY DEF Name
<1> HIDE DEF A, I, C
<1>5. p \in B <=> \E k \in Kinds : p \in I(k)
  OBVIOUS
<1> HIDE DEF B
<1>6. p \in B <=> \E k \in Kinds : \E i \in 1 .. Count(m, k) :
                  p = <<k, i>> /\ b \in m.arrays[k].items[i].own
  BY <1>3, <1>5
<1>7. p \in Holders(m, b) <=> p \in A \/ p \in B \/ p \in C
  BY <1>1
<1> QED  BY <1>2, <1>4, <1>6, <1>7

(* A partition has exactly one place for each block of the heap. *)
LEMMA OwnedIsOwnedOnce ==
  ASSUME OwnedInv
  PROVE  ModuleOwned
<1> DEFINE f == Holding(module, temp)
<1>0. module \in ModuleType
  BY DEF OwnedInv, OrderedInv, LTypeOK
<1>1. ASSUME NEW b
      PROVE  Holders(module, b) = {p \in Places \ {Temp} : b \in f[p]}
  <2>1. ASSUME NEW p \in Holders(module, b)
        PROVE  p \in Places \ {Temp} /\ b \in f[p]
    <3>1. CASE \E k \in Kinds : p = <<k, 0>> /\ b \in module.arrays[k].ptr
      <4>1. PICK k \in Kinds : p = <<k, 0>> /\ b \in module.arrays[k].ptr
        BY <3>1
      <4> QED  BY <4>1, HoldingAt, PlaceFacts
    <3>2. CASE \E k \in Kinds : \E i \in 1 .. Count(module, k) :
                 p = <<k, i>> /\ b \in module.arrays[k].items[i].own
      <4>0. PICK k \in Kinds : \E i \in 1 .. Count(module, k) :
              p = <<k, i>> /\ b \in module.arrays[k].items[i].own
        BY <3>2
      <4>1. PICK i \in 1 .. Count(module, k) :
              p = <<k, i>> /\ b \in module.arrays[k].items[i].own
        BY <4>0
      <4>2. i \in Nat \ {0}
        BY <1>0, ModuleShape
      <4>3. f[p] = ItemOwns(module, k, i)
        BY <4>1, <4>2, HoldingAt
      <4> QED  BY <4>1, <4>2, <4>3, PlaceFacts DEF ItemOwns
    <3>3. CASE b \in module.module_name /\ p = Name
      BY <3>3, HoldingAt, PlaceFacts
    <3> QED  BY <2>1, <3>1, <3>2, <3>3, HolderCases
  <2>2. ASSUME NEW p \in Places, p # Temp, b \in f[p]
        PROVE  p \in Holders(module, b)
    <3>1. CASE p = Name
      <4>1. b \in module.module_name
        BY <2>2, <3>1, HoldingAt
      <4> QED  BY <3>1, <4>1, HolderCases
    <3>2. CASE p[1] \in Kinds /\ p[2] = 0 /\ p = <<p[1], p[2]>>
      <4>1. f[<<p[1], 0>>] = module.arrays[p[1]].ptr
        BY <3>2, HoldingAt
      <4>2. b \in module.arrays[p[1]].ptr
        BY <2>2, <3>2, <4>1
      <4> QED  BY <3>2, <4>2, HolderCases
    <3>3. CASE p[1] \in Kinds /\ p[2] \in Nat \ {0} /\ p = <<p[1], p[2]>>
      <4>1. f[<<p[1], p[2]>>] = ItemOwns(module, p[1], p[2])
        BY <3>3, HoldingAt
      <4>2. b \in ItemOwns(module, p[1], p[2])
        BY <2>2, <3>3, <4>1
      <4>3. p[2] \in 1 .. Count(module, p[1]) /\ b \in module.arrays[p[1]].items[p[2]].own
        BY <4>2 DEF ItemOwns
      <4> QED  BY <3>3, <4>3, HolderCases
    <3> QED  BY <2>2, <3>1, <3>2, <3>3, PlaceFacts
  <2> QED  BY <2>1, <2>2
<1>2. f[Temp] = temp /\ Temp \in Places
  BY HoldingAt, PlaceFacts
<1> HIDE DEF f
<1>3. Partition(f, heap)
  BY DEF OwnedInv, OwnInv, f
<1>4. ASSUME NEW b
      PROVE  Cardinality(Holders(module, b)) + (IF b \in temp THEN 1 ELSE 0) =
               IF b \in heap THEN 1 ELSE 0
  <2> DEFINE H == Holders(module, b)
  <2>1. H = {p \in Places \ {Temp} : b \in f[p]}
    BY <1>1
  <2> HIDE DEF H
  <2>2. CASE b \notin heap
    <3>1. H = {} /\ b \notin temp
      BY <1>2, <1>3, <2>1, <2>2 DEF Partition
    <3> QED  BY <2>2, <3>1, FS_EmptySet DEF H
  <2>3. CASE b \in temp
    <3>1. b \in heap
      BY <1>2, <1>3, <2>3 DEF Partition
    <3>2. H = {}
      BY <1>2, <1>3, <2>1, <2>3 DEF Partition
    <3>3. Cardinality(H) = 0
      BY <3>2, FS_EmptySet
    <3> QED  BY <2>3, <3>1, <3>3 DEF H
  <2>4. CASE b \in heap /\ b \notin temp
    <3>1. PICK p \in Places : b \in f[p]
      BY <1>3, <2>4 DEF Partition
    <3>2. p # Temp
      BY <1>2, <2>4, <3>1
    <3>3. \A q \in Places : b \in f[q] => q = p
      BY <1>3, <3>1 DEF Partition
    <3>4. H = {p}
      BY <2>1, <3>1, <3>2, <3>3
    <3>5. Cardinality(H) = 1
      BY <3>4, FS_Singleton
    <3> QED  BY <2>4, <3>5 DEF H
  <2> QED  BY <2>2, <2>3, <2>4
<1> QED  BY <1>4 DEF ModuleOwned, OwnedInv, OwnInv

=============================================================================
