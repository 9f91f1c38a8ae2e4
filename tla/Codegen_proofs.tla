--------------------------- MODULE Codegen_proofs ---------------------------
(***************************************************************************)
(* The layout that jit_codegen computes is right for every module, every   *)
(* code and constant pool size and every page size, as long as offsets fit *)
(* into 32 bits: functions, gaps, pools and tables never overlap and lie   *)
(* inside the allocated image.  And, whatever the sizes, its two worklists *)
(* agree with one another and with the linker.                             *)
(***************************************************************************)
EXTENDS Codegen, TLAPS

-----------------------------------------------------------------------------
(* Facts about alignment and about appending to a sequence.                *)

(* ALIGN_UP never moves down, moves by less than the alignment, and ends   *)
(* on a multiple of it.                                                    *)
LEMMA AlignUpFacts ==
  ASSUME NEW x \in Nat, NEW a \in Nat \ {0}
  PROVE  /\ AlignUp(x, a) \in Nat
         /\ x <= AlignUp(x, a)
         /\ AlignUp(x, a) < x + a
<1> DEFINE q == (x + a - 1) \div a
<1>1. q \in Nat /\ x + a - 1 < a * q + a /\ a * q <= x + a - 1
  BY SMT
<1>2. AlignUp(x, a) = q * a
  BY DEF AlignUp
<1>3. q * a \in Nat /\ q * a = a * q
  BY <1>1
<1> QED  BY <1>1, <1>2, <1>3

(* The entry of a function is 16-aligned and a gap behind the code so far. *)
LEMMA CodeStartFacts ==
  ASSUME NEW x \in Nat
  PROVE  /\ CodeStart(x) \in Nat
         /\ CodeStart(x) % Endbr = 0
         /\ x + Endbr <= CodeStart(x)
BY DEF CodeStart, AlignUp, Endbr

(* A table starts at an aligned slot behind the rodata so far. *)
LEMMA TableStartFacts ==
  ASSUME NEW x \in Nat
  PROVE  TableStart(x) \in Nat /\ TableStart(x) % Slot = 0 /\ x <= TableStart(x)
BY DEF TableStart, AlignUp, Slot

(* A constant pool starts behind the rodata so far. *)
LEMMA PoolStartFacts ==
  ASSUME NEW x \in Nat, NEW a \in Nat \ {0}
  PROVE  PoolStart(x, a) \in Nat /\ x <= PoolStart(x, a)
<1>1. AlignUp(x, a) \in Nat /\ x <= AlignUp(x, a)
  BY AlignUpFacts
<1>2. ASSUME NEW y \in Nat, x <= y  PROVE  x + y \in Nat /\ x <= x + y
  OBVIOUS
<1> QED  BY <1>1, <1>2 DEF PoolStart

(* What a machine integer keeps of a number; of a small one, all. *)
LEMMA RangeFacts ==
  ASSUME NEW x \in Nat
  PROVE  /\ Offset(x) \in Nat /\ Size(x) \in 0 .. SizeRange - 1
         /\ x < OffsetRange => Offset(x) = x /\ Size(x) = x
         /\ x < OffsetRange + Page => Size(x) = x
<1>1. ASSUME NEW r \in Nat \ {0}
      PROVE  x % r \in 0 .. r - 1 /\ (x < r => x % r = x)
  OBVIOUS
<1>2. /\ OffsetRange \in Nat \ {0} /\ SizeRange \in Nat \ {0} /\ Page \in Nat \ {0}
      /\ OffsetRange + Page <= SizeRange
  BY CodegenAssumption
<1>3. x % OffsetRange \in 0 .. OffsetRange - 1 /\ (x < OffsetRange => x % OffsetRange = x)
  BY <1>1, <1>2
<1>4. x % SizeRange \in 0 .. SizeRange - 1 /\ (x < SizeRange => x % SizeRange = x)
  BY <1>1, <1>2
<1>5. x < OffsetRange \/ x < OffsetRange + Page => x < SizeRange
  BY <1>2
<1> QED  BY <1>2, <1>3, <1>4, <1>5 DEF Offset, Size

IsSeq(s) == \E S : s \in Seq(S)

(* Appending to any sequence adds one element at the end. *)
LEMMA AppendFacts ==
  ASSUME NEW s, IsSeq(s), NEW e
  PROVE  /\ IsSeq(Append(s, e))
         /\ Len(s) \in Nat /\ DOMAIN s = 1 .. Len(s)
         /\ Len(Append(s, e)) = Len(s) + 1
         /\ DOMAIN Append(s, e) = 1 .. Len(s) + 1
         /\ \A i \in 1 .. Len(s) : Append(s, e)[i] = s[i]
         /\ Append(s, e)[Len(s) + 1] = e
<1>1. PICK S : s \in Seq(S)
  BY DEF IsSeq
<1> DEFINE T == S \cup {e}
<1>2. s \in Seq(T)
  BY <1>1
<1>3. Append(s, e) \in Seq(T)
  BY <1>2
<1> QED  BY <1>2, <1>3 DEF IsSeq

(* Replacing an element of a sequence gives a sequence. *)
LEMMA UpdateFacts ==
  ASSUME NEW s, IsSeq(s), NEW i \in DOMAIN s, NEW e
  PROVE  IsSeq([s EXCEPT ![i] = e]) /\ DOMAIN [s EXCEPT ![i] = e] = DOMAIN s
<1>1. PICK S : s \in Seq(S)
  BY DEF IsSeq
<1> DEFINE T == S \cup {e}
<1>2. s \in Seq(T)
  BY <1>1
<1>3. [s EXCEPT ![i] = e] \in Seq(T)
  BY <1>2
<1> QED  BY <1>3 DEF IsSeq

(* Mapping the elements of a sequence gives a sequence. *)
LEMMA MapFacts ==
  ASSUME NEW s, IsSeq(s)
  PROVE  LET t == [i \in DOMAIN s |-> Destroy(s[i])] IN IsSeq(t) /\ DOMAIN t = DOMAIN s
<1> DEFINE t == [i \in DOMAIN s |-> Destroy(s[i])]
           T == {Destroy(s[i]) : i \in DOMAIN s}
<1>1. Len(s) \in Nat /\ DOMAIN s = 1 .. Len(s)
  BY AppendFacts
<1>2. t \in [1 .. Len(s) -> T]
  BY <1>1
<1>3. t \in Seq(T)
  BY <1>1, <1>2
<1> QED  BY <1>3 DEF IsSeq

-----------------------------------------------------------------------------
(* The inductive invariant.                                                *)

(* The phases in which jit_codegen_function runs, and those before them:   *)
(* no table has been laid out yet.                                         *)
EmitPhases == {"cg_exports", "cg_elems", "cg_start", "cg_queue"}

EarlyPhases == EmitPhases \cup {"exports", "elems", "start", "build", "cg_imports"}

Shape(c) == DOMAIN c = {"funcs", "idx", "queue", "code", "rodata", "tables", "fits"}

FnFields ==
  {"id", "blob", "freed", "entry", "size", "pool", "constants", "align", "refs"}

(* A list of functions, laid out as CodeLayout says, element by element. *)
CodeOK(fs, code) ==
  /\ IsSeq(fs)
  /\ code \in Nat
  /\ \A k \in DOMAIN fs : DOMAIN fs[k] = FnFields /\ fs[k].entry \in Nat /\ fs[k].size \in Nat
  /\ code < OffsetRange =>
       /\ \A k \in DOMAIN fs :
            /\ fs[k].entry % Endbr = 0
            /\ Endbr <= fs[k].entry
            /\ fs[k].entry + fs[k].size <= code
       /\ \A j, k \in DOMAIN fs : j < k => fs[j].entry + fs[j].size <= fs[k].entry - Endbr

(* The pools of a list of functions, in order below `rodata`. *)
PoolsOK(fs, rodata, fits) ==
  /\ rodata \in 0 .. SizeRange - 1
  /\ \A k \in DOMAIN fs : fs[k].pool \in Nat \cup {-1} /\ fs[k].constants \in Nat
  /\ fits =>
       /\ rodata < OffsetRange
       /\ \A k \in DOMAIN fs : fs[k].pool # -1 => fs[k].pool + fs[k].constants <= rodata
       /\ \A j, k \in DOMAIN fs : j < k /\ fs[j].pool # -1 /\ fs[k].pool # -1 =>
            fs[j].pool + fs[j].constants <= fs[k].pool

(* The tables, behind the pools, in the order of their indices. *)
TablesOK(fs, tabs, rodata, fits) ==
  /\ \A t \in DOMAIN tabs : t \in DOMAIN mod.tables /\ tabs[t] \in Nat
  /\ fits =>
       /\ \A t \in DOMAIN tabs :
            /\ tabs[t] % Slot = 0
            /\ tabs[t] + Slot * mod.tables[t] <= rodata
            /\ \A k \in DOMAIN fs : fs[k].pool # -1 => fs[k].pool + fs[k].constants <= tabs[t]
       /\ \A t, u \in DOMAIN tabs : u < t => tabs[u] + Slot * mod.tables[u] <= tabs[t]

LayoutInv ==
  /\ Shape(cg)
  /\ CodeOK(cg.funcs, cg.code)
  /\ PoolsOK(cg.funcs, cg.rodata, cg.fits)
  /\ TablesOK(cg.funcs, cg.tables, cg.rodata, cg.fits)

(* Calls are pending only before the tables are laid out, and the      *)
(* table the loop is at comes after those that have an offset.             *)
PhaseInv ==
  /\ mod \in Modules
  /\ at \in Nat \ {0}
  /\ pending # <<>> => phase \in EarlyPhases
  /\ phase \in EarlyPhases => DOMAIN cg.tables = {}
  /\ phase = "cg_tables" => \A t \in DOMAIN cg.tables : t < at

ImageInv ==
  /\ DOMAIN image = {"rx", "ro", "slots", "endbr"}
  /\ phase = "link" => cg.code <= image.rx /\ (cg.fits => cg.rodata <= image.ro)

LInv ==
  /\ PhaseInv
  /\ phase # "failed" => LayoutInv /\ ImageInv

(* What the loop structure of wasm_module_jit allows. *)
LEMMA AdvancePhases ==
  ASSUME phase \in DOMAIN Following, phase' = Following[phase]
  PROVE  /\ phase' \notin {"failed", "link"}
         /\ phase \in EmitPhases \cup {"exports", "elems", "start", "build", "cg_imports"} 
              \/ phase' \notin EarlyPhases \cup {"cg_tables"}
         /\ phase' = "cg_tables" => phase \in EarlyPhases
BY DEF Following, EarlyPhases, EmitPhases

(* The rodata after something has been laid out at its end. *)
LEMMA GrownFacts ==
  ASSUME NEW c, Shape(c), NEW end \in Nat
  PROVE  LET g == Grown(c, end)
         IN  /\ Shape(g)
             /\ g.funcs = c.funcs /\ g.idx = c.idx /\ g.queue = c.queue /\ g.tables = c.tables /\ g.code = c.code
             /\ g.rodata \in 0 .. SizeRange - 1
             /\ g.fits => c.fits /\ end < OffsetRange /\ g.rodata = end
BY RangeFacts DEF Grown, Shape

(* The codegen state after jit_codegen_function. *)
LEMMA EmittedFacts ==
  ASSUME NEW c, Shape(c), c.code \in Nat, c.rodata \in 0 .. SizeRange - 1, NEW id, NEW blob,
         blob.size \in Nat, blob.pool.size \in Nat, blob.pool.align \in Nat \ {0}
  PROVE  LET e == Emitted(c, id, blob)
             start == PoolStart(c.rodata, blob.pool.align)
         IN  /\ Shape(e)
             /\ e.tables = c.tables /\ e.queue = c.queue
             /\ e.idx = Put(c.idx, id, Len(e.funcs))
             /\ e.code = CodeStart(c.code) + blob.size
             /\ IF blob.pool.size = 0
                THEN e.rodata = c.rodata /\ e.fits = c.fits
                ELSE /\ e.rodata \in 0 .. SizeRange - 1
                     /\ e.fits => /\ c.fits /\ start + blob.pool.size < OffsetRange
                                  /\ e.rodata = start + blob.pool.size
             /\ \E f : /\ e.funcs = Append(c.funcs, f)
                       /\ DOMAIN f = FnFields
                       /\ f.id = id /\ f.blob = "live" /\ f.freed = 0 /\ f.refs = blob.refs
                       /\ f.entry = Offset(CodeStart(c.code))
                       /\ f.size = blob.size
                       /\ f.constants = blob.pool.size
                       /\ f.pool = IF blob.pool.size = 0 THEN -1 ELSE Offset(Size(start))
<1> DEFINE entry == CodeStart(c.code)
           start == PoolStart(c.rodata, blob.pool.align)
           f == [id |-> id, blob |-> "live", freed |-> 0, entry |-> Offset(entry), size |-> blob.size,
                 pool |-> IF blob.pool.size = 0 THEN -1 ELSE Offset(Size(start)),
                 constants |-> blob.pool.size, align |-> blob.pool.align, refs |-> blob.refs]
           added == [c EXCEPT !.funcs = Append(@, f)]
           known == [added EXCEPT !.idx = Put(@, id, Added(added)), !.code = entry + blob.size]
           e == IF blob.pool.size = 0 THEN known ELSE Grown(known, start + blob.pool.size)
<1>1. Emitted(c, id, blob) = e
  BY DEF Emitted
<1>2. /\ DOMAIN f = FnFields
      /\ f.id = id /\ f.blob = "live" /\ f.freed = 0 /\ f.refs = blob.refs
      /\ f.entry = Offset(entry) /\ f.size = blob.size /\ f.constants = blob.pool.size
      /\ f.pool = IF blob.pool.size = 0 THEN -1 ELSE Offset(Size(start))
  BY DEF FnFields
<1>3. start \in Nat
  BY PoolStartFacts
<1> HIDE DEF f, entry, start
<1>4. /\ Shape(added) /\ added.funcs = Append(c.funcs, f) /\ added.rodata = c.rodata /\ added.tables = c.tables
      /\ added.idx = c.idx /\ added.queue = c.queue /\ added.fits = c.fits
  BY DEF Shape
<1> HIDE DEF added
<1>5. /\ Shape(known) /\ known.funcs = added.funcs /\ known.code = entry + blob.size
      /\ known.rodata = added.rodata /\ known.tables = added.tables /\ known.fits = added.fits
      /\ known.idx = Put(added.idx, id, Len(added.funcs)) /\ known.queue = added.queue
  BY <1>4 DEF Shape, Added
<1>0. IF blob.pool.size = 0 THEN e = known ELSE e = Grown(known, start + blob.pool.size)
  OBVIOUS
<1> HIDE DEF known, e
<1>6. /\ Shape(e) /\ e.funcs = known.funcs /\ e.tables = known.tables
      /\ e.idx = known.idx /\ e.queue = known.queue /\ e.code = known.code
      /\ IF blob.pool.size = 0
         THEN e.rodata = known.rodata /\ e.fits = known.fits
         ELSE /\ e.rodata \in 0 .. SizeRange - 1
              /\ e.fits => /\ known.fits /\ start + blob.pool.size < OffsetRange
                           /\ e.rodata = start + blob.pool.size
  <2>1. CASE blob.pool.size = 0
    BY <1>0, <1>5, <2>1
  <2>2. CASE blob.pool.size # 0
    <3>1. start + blob.pool.size \in Nat
      BY <1>3
    <3>2. e = Grown(known, start + blob.pool.size)
      BY <1>0, <2>2
    <3>3. /\ Shape(e) /\ e.funcs = known.funcs /\ e.tables = known.tables
          /\ e.idx = known.idx /\ e.queue = known.queue /\ e.code = known.code
          /\ e.rodata \in 0 .. SizeRange - 1
          /\ e.fits => /\ known.fits /\ start + blob.pool.size < OffsetRange
                       /\ e.rodata = start + blob.pool.size
      BY ONLY <1>5, <3>1, <3>2, GrownFacts
    <3> QED  BY <2>2, <3>3
  <2> QED  BY <2>1, <2>2
<1>7. entry = CodeStart(c.code) /\ start = PoolStart(c.rodata, blob.pool.align)
  BY DEF entry, start
<1>8. /\ e.funcs = Append(c.funcs, f) /\ e.tables = c.tables /\ e.queue = c.queue
      /\ e.idx = Put(c.idx, id, Len(Append(c.funcs, f)))
  BY <1>4, <1>5, <1>6, Zenon
<1>9. /\ e.code = entry + blob.size
      /\ IF blob.pool.size = 0
         THEN e.rodata = c.rodata /\ e.fits = c.fits
         ELSE /\ e.rodata \in 0 .. SizeRange - 1
              /\ e.fits => /\ c.fits /\ start + blob.pool.size < OffsetRange
                           /\ e.rodata = start + blob.pool.size
  BY <1>4, <1>5, <1>6, Zenon
<1> HIDE DEF entry
<1> QED  BY <1>1, <1>2, <1>6, <1>7, <1>8, <1>9, Zenon

(* A function laid out behind the others keeps the layout right. *)
LEMMA EmittedLayout ==
  ASSUME NEW c, Shape(c), CodeOK(c.funcs, c.code), PoolsOK(c.funcs, c.rodata, c.fits), NEW id, NEW blob,
         blob.size \in Nat, blob.pool.size \in Nat, blob.pool.align \in Nat \ {0}
  PROVE  LET e == Emitted(c, id, blob) IN CodeOK(e.funcs, e.code) /\ PoolsOK(e.funcs, e.rodata, e.fits)
<1> DEFINE e == Emitted(c, id, blob)
           n == Len(c.funcs)
           entry == CodeStart(c.code)
           start == PoolStart(c.rodata, blob.pool.align)
<1>1. IsSeq(c.funcs) /\ c.code \in Nat /\ c.rodata \in 0 .. SizeRange - 1 /\ c.rodata \in Nat
  <2>1. SizeRange \in Nat
    BY CodegenAssumption
  <2> QED  BY <2>1 DEF CodeOK, PoolsOK
<1>2. /\ e.code = entry + blob.size
      /\ IF blob.pool.size = 0
         THEN e.rodata = c.rodata /\ e.fits = c.fits
         ELSE /\ e.rodata \in 0 .. SizeRange - 1
              /\ e.fits => c.fits /\ start + blob.pool.size < OffsetRange /\ e.rodata = start + blob.pool.size
  BY <1>1, EmittedFacts
<1>3. PICK f : /\ e.funcs = Append(c.funcs, f)
               /\ DOMAIN f = FnFields
               /\ f.entry = Offset(entry)
               /\ f.size = blob.size
               /\ f.constants = blob.pool.size
               /\ f.pool = IF blob.pool.size = 0 THEN -1 ELSE Offset(Size(start))
  BY <1>1, EmittedFacts
<1>4. /\ IsSeq(e.funcs) /\ n \in Nat /\ DOMAIN c.funcs = 1 .. n
      /\ DOMAIN e.funcs = 1 .. n + 1
      /\ \A i \in 1 .. n : e.funcs[i] = c.funcs[i]
      /\ e.funcs[n + 1] = f
  BY <1>1, <1>3, AppendFacts
<1>5. entry \in Nat /\ entry % Endbr = 0 /\ c.code + Endbr <= entry
  BY <1>1, CodeStartFacts
<1>6. start \in Nat /\ c.rodata <= start
  BY <1>1, PoolStartFacts
<1>7. f.entry \in Nat /\ f.pool \in Nat \cup {-1}
  <2>1. Size(start) \in Nat
    BY <1>6, RangeFacts
  <2> QED  BY <1>3, <1>5, <2>1, RangeFacts
<1> HIDE DEF e, n, entry, start
<1>8. CodeOK(e.funcs, e.code)
  <2>1. e.code \in Nat /\ c.code <= e.code
    BY <1>1, <1>2, <1>5 DEF Endbr
  <2>2. ASSUME NEW k \in 1 .. n + 1
        PROVE  DOMAIN e.funcs[k] = FnFields /\ e.funcs[k].entry \in Nat /\ e.funcs[k].size \in Nat
    <3>1. CASE k \in 1 .. n
      BY <3>1, <1>4 DEF CodeOK
    <3>2. CASE k = n + 1
      BY <3>2, <1>3, <1>4, <1>7
    <3> QED  BY <3>1, <3>2, <1>4
  <2>3. ASSUME e.code < OffsetRange
        PROVE  c.code < OffsetRange /\ f.entry = entry
    <3>1. entry < OffsetRange /\ c.code < OffsetRange /\ OffsetRange \in Nat
      BY <1>1, <1>2, <1>5, <2>3, CodegenAssumption DEF Endbr
    <3> QED  BY <1>3, <1>5, <3>1, RangeFacts
  <2>4. ASSUME e.code < OffsetRange, NEW k \in 1 .. n + 1
        PROVE  /\ e.funcs[k].entry % Endbr = 0
               /\ Endbr <= e.funcs[k].entry
               /\ e.funcs[k].entry + e.funcs[k].size <= e.code
    <3>1. CASE k \in 1 .. n
      <4>1. /\ c.funcs[k].entry \in Nat /\ c.funcs[k].size \in Nat
            /\ c.funcs[k].entry % Endbr = 0
            /\ Endbr <= c.funcs[k].entry
            /\ c.funcs[k].entry + c.funcs[k].size <= c.code
        BY <3>1, <1>4, <2>3, <2>4 DEF CodeOK
      <4>2. e.funcs[k] = c.funcs[k]
        BY <3>1, <1>4
      <4>3. c.funcs[k].entry + c.funcs[k].size <= e.code
        BY <4>1, <2>1, <1>1
      <4> QED  BY <4>1, <4>2, <4>3
    <3>2. CASE k = n + 1
      <4>1. e.funcs[k] = f /\ f.entry = entry /\ f.size = blob.size
        BY <3>2, <1>3, <1>4, <2>3, <2>4
      <4>2. Endbr <= entry /\ entry + blob.size <= e.code
        BY <1>1, <1>2, <1>5 DEF Endbr
      <4> QED  BY <4>1, <4>2, <1>5
    <3> QED  BY <3>1, <3>2, <1>4
  <2>5. ASSUME e.code < OffsetRange, NEW j \in 1 .. n + 1, NEW k \in 1 .. n + 1, j < k
        PROVE  e.funcs[j].entry + e.funcs[j].size <= e.funcs[k].entry - Endbr
    <3>1. j \in 1 .. n
      BY <2>5, <1>4
    <3>2. CASE k \in 1 .. n
      BY <3>1, <3>2, <2>3, <2>5, <1>4 DEF CodeOK
    <3>3. CASE k = n + 1
      <4>1. /\ c.funcs[j].entry \in Nat /\ c.funcs[j].size \in Nat
            /\ c.funcs[j].entry + c.funcs[j].size <= c.code
        BY <3>1, <1>4, <2>3, <2>5 DEF CodeOK
      <4>2. e.funcs[j] = c.funcs[j] /\ e.funcs[k] = f /\ f.entry = entry
        BY <3>1, <3>3, <1>4, <2>3, <2>5
      <4>3. c.funcs[j].entry + c.funcs[j].size <= entry - Endbr
        BY <4>1, <1>1, <1>5 DEF Endbr
      <4> QED  BY <4>2, <4>3
    <3> QED  BY <3>2, <3>3, <1>4
  <2> QED  BY <2>1, <2>2, <2>4, <2>5, <1>4 DEF CodeOK
<1>9. PoolsOK(e.funcs, e.rodata, e.fits)
  <2>1. e.rodata \in 0 .. SizeRange - 1
    BY <1>1, <1>2
  <2>2. ASSUME NEW k \in 1 .. n + 1
        PROVE  e.funcs[k].pool \in Nat \cup {-1} /\ e.funcs[k].constants \in Nat
    <3>1. CASE k \in 1 .. n
      BY <3>1, <1>4 DEF PoolsOK
    <3>2. CASE k = n + 1
      BY <3>2, <1>3, <1>4, <1>7
    <3> QED  BY <3>1, <3>2, <1>4
  <2>3. ASSUME e.fits
        PROVE  /\ c.fits /\ c.rodata < OffsetRange /\ e.rodata < OffsetRange
               /\ e.rodata \in Nat /\ c.rodata <= e.rodata
               /\ f.pool # -1 => c.rodata <= f.pool /\ f.pool + f.constants = e.rodata
    <3>1. CASE blob.pool.size = 0
      <4>1. e.rodata = c.rodata /\ c.fits
        BY <1>2, <2>3, <3>1, Zenon
      <4>2. f.pool = -1
        BY <1>3, <3>1
      <4>3. c.rodata < OffsetRange
        BY <4>1 DEF PoolsOK
      <4> QED  BY <1>1, <4>1, <4>2, <4>3
    <3>2. CASE blob.pool.size # 0
      <4>1. c.fits /\ start + blob.pool.size < OffsetRange /\ e.rodata = start + blob.pool.size
        BY <1>2, <2>3, <3>2
      <4>2. start < OffsetRange
        BY <1>6, <4>1, CodegenAssumption
      <4>3. Offset(Size(start)) = start
        BY <1>6, <4>2, RangeFacts
      <4>4. f.pool = start /\ f.constants = blob.pool.size
        BY <1>3, <3>2, <4>3
      <4>5. c.rodata < OffsetRange
        BY <4>1 DEF PoolsOK
      <4> QED  BY <1>1, <1>6, <4>1, <4>4, <4>5
    <3> QED  BY <3>1, <3>2
  <2>4. ASSUME e.fits, NEW k \in 1 .. n + 1, e.funcs[k].pool # -1
        PROVE  e.funcs[k].pool + e.funcs[k].constants <= e.rodata
    <3>1. CASE k \in 1 .. n
      <4>1. /\ c.funcs[k].pool \in Nat /\ c.funcs[k].constants \in Nat
            /\ c.funcs[k].pool + c.funcs[k].constants <= c.rodata
        BY <3>1, <1>4, <2>3, <2>4 DEF PoolsOK
      <4>2. e.funcs[k] = c.funcs[k]
        BY <3>1, <1>4
      <4> QED  BY <4>1, <4>2, <2>3, <2>4, <1>1
    <3>2. CASE k = n + 1
      BY <3>2, <1>3, <1>4, <1>7, <2>3, <2>4
    <3> QED  BY <3>1, <3>2, <1>4
  <2>5. ASSUME e.fits, NEW j \in 1 .. n + 1, NEW k \in 1 .. n + 1,
               j < k, e.funcs[j].pool # -1, e.funcs[k].pool # -1
        PROVE  e.funcs[j].pool + e.funcs[j].constants <= e.funcs[k].pool
    <3>1. j \in 1 .. n
      BY <2>5, <1>4
    <3>2. CASE k \in 1 .. n
      BY <3>1, <3>2, <2>3, <2>5, <1>4 DEF PoolsOK
    <3>3. CASE k = n + 1
      <4>1. e.funcs[j] = c.funcs[j] /\ e.funcs[k] = f
        BY <3>1, <3>3, <1>4
      <4>2. /\ c.funcs[j].pool \in Nat /\ c.funcs[j].constants \in Nat
            /\ c.funcs[j].pool + c.funcs[j].constants <= c.rodata
        BY <3>1, <4>1, <2>3, <2>5, <1>4 DEF PoolsOK
      <4>3. c.rodata <= f.pool /\ f.pool \in Nat
        BY <4>1, <1>7, <2>3, <2>5
      <4> QED  BY <1>1, <4>1, <4>2, <4>3
    <3> QED  BY <3>2, <3>3, <1>4
  <2> QED  BY <2>1, <2>2, <2>3, <2>4, <2>5, <1>4 DEF PoolsOK
<1> QED  BY <1>8, <1>9 DEF e

-----------------------------------------------------------------------------
(* The steps.                                                              *)

LEMMA InitInv == ASSUME Init PROVE LInv
<1>1. IsSeq(<<>>) /\ DOMAIN <<>> = {}
  BY DEF IsSeq
<1>2. Shape(cg) /\ cg.funcs = <<>> /\ cg.code = 0 /\ cg.rodata = 0 /\ DOMAIN cg.tables = {}
  BY DEF Init, Shape, Nothing
<1>3. LayoutInv
  BY <1>1, <1>2, CodegenAssumption DEF LayoutInv, CodeOK, PoolsOK, TablesOK
<1>4. ImageInv /\ PhaseInv
  BY <1>2 DEF ImageInv, PhaseInv, Init, EmitPhases, EarlyPhases
<1> QED  BY <1>3, <1>4 DEF LInv

(* A failure leaves nothing to say about the layout. *)
LEMMA FailStep ==
  ASSUME LInv, NEW reason, NEW c, Fail(reason, c)
  PROVE  LInv'
BY DEF LInv, PhaseInv, Fail, EarlyPhases, EmitPhases

(* A step that changes neither the layout nor the image. *)
LEMMA QuietStep ==
  ASSUME LInv, phase # "failed", phase' # "failed", phase' = "link" => phase = "link",
         mod' = mod, PhaseInv', Shape(cg)', DOMAIN image' = DOMAIN image,
         cg'.funcs = cg.funcs, cg'.code = cg.code, cg'.rodata = cg.rodata, cg'.tables = cg.tables,
         cg'.fits = cg.fits, image'.rx = image.rx, image'.ro = image.ro
  PROVE  LInv'
<1>1. LayoutInv'
  BY DEF LInv, LayoutInv, TablesOK
<1>2. ImageInv'
  BY DEF LInv, ImageInv
<1> QED  BY <1>1, <1>2 DEF LInv

LEMMA AdvanceStep ==
  ASSUME LInv, Advance
  PROVE  LInv'
<1>1. /\ phase' \notin {"failed", "link"}
      /\ phase \in EarlyPhases \/ phase' \notin EarlyPhases \cup {"cg_tables"}
      /\ phase' = "cg_tables" => phase \in EarlyPhases
  BY AdvancePhases DEF Advance, EarlyPhases
<1>2. phase # "failed"
  BY DEF Advance, Following
<1>3. PhaseInv'
  BY <1>1 DEF LInv, PhaseInv, Advance
<1> QED  BY <1>1, <1>2, <1>3, QuietStep DEF LInv, LayoutInv, Advance

(* The actions of jit_emit_spidir and the loops of jit_codegen_functions   *)
(* move only the queues.                                                   *)
LEMMA LoopStep ==
  ASSUME LInv, phase \in EarlyPhases, phase' = phase, at' \in Nat \ {0}, mod' = mod, image' = image,
         \/ cg' = cg
         \/ \E q : cg' = [cg EXCEPT !.queue = q]
  PROVE  LInv'
<1>1. phase # "failed" /\ phase # "link" /\ phase # "cg_tables"
  BY DEF EarlyPhases, EmitPhases
<1>2. Shape(cg) /\ DOMAIN cg.tables = {}
  BY <1>1 DEF LInv, LayoutInv, PhaseInv
<1>3. /\ Shape(cg') /\ cg'.funcs = cg.funcs /\ cg'.code = cg.code
      /\ cg'.rodata = cg.rodata /\ cg'.tables = cg.tables /\ cg'.fits = cg.fits
  BY <1>2 DEF Shape
<1>4. PhaseInv'
  BY <1>1, <1>2, <1>3 DEF LInv, PhaseInv
<1> QED  BY <1>1, <1>3, <1>4, QuietStep DEF LInv

LEMMA CodegenFunctionStep ==
  ASSUME LInv, CodegenFunction, phase # "failed"
  PROVE  LInv'
<1> USE DEF LInv
<1>0. pending # <<>> /\ phase \in EarlyPhases
  BY DEF CodegenFunction, Calling, PhaseInv
<1>1. CASE EmitFails(cg, Arg)
  BY <1>1, FailStep DEF EmitFails
<1>2. CASE Return /\ UNCHANGED <<ctx, cg, image>>
  BY <1>0, <1>2, LoopStep DEF Return, PhaseInv
<1>3. CASE /\ \E blob \in Blobs(Arg) : cg' = Emitted(cg, Arg, blob)
           /\ UNCHANGED <<mod, phase, at, ctx, image, why>>
  <2>1. PICK blob \in Blobs(Arg) : cg' = Emitted(cg, Arg, blob)
    BY <1>3
  <2>2. blob.size \in Nat /\ blob.pool.size \in Nat /\ blob.pool.align \in Nat \ {0}
    <3>1. blob.size \in CodeSizes /\ blob.pool \in Pools
      BY DEF Blobs
    <3> QED  BY <3>1, CodegenAssumption
  <2>3. phase \in EarlyPhases /\ DOMAIN cg.tables = {}
    BY <1>0 DEF PhaseInv
  <2>4. Shape(cg') /\ cg'.tables = cg.tables
    BY <2>1, <2>2, EmittedFacts DEF LayoutInv, CodeOK, PoolsOK
  <2>5. CodeOK(cg'.funcs, cg'.code) /\ PoolsOK(cg'.funcs, cg'.rodata, cg'.fits)
    BY <2>1, <2>2, EmittedLayout DEF LayoutInv
  <2>6. LayoutInv'
    BY <2>3, <2>4, <2>5 DEF LayoutInv, TablesOK
  <2>7. PhaseInv'
    BY <1>3, <2>3, <2>4 DEF PhaseInv
  <2>8. ImageInv'
    BY <1>3, <2>3 DEF ImageInv, EarlyPhases, EmitPhases
  <2> QED  BY <2>6, <2>7, <2>8
<1> QED  BY <1>1, <1>2, <1>3 DEF CodegenFunction

LEMMA LinkStep ==
  ASSUME LInv, Link
  PROVE  LInv'
<1> USE DEF LInv
<1>1. phase = "link" /\ at \in DOMAIN cg.funcs
  <2>1. phase = "link" /\ at \in Nat \ {0} /\ at <= Len(cg.funcs)
    BY DEF Link, InList, Work, PhaseInv
  <2> QED  BY <2>1, AppendFacts DEF LayoutInv, CodeOK
<1>2. CASE Fail("unresolved", cg)
  BY <1>2, FailStep
<1>3. CASE cg' = [cg EXCEPT !.funcs[at] = Release(@)] /\ Step /\ UNCHANGED <<ctx, pending, image>>
  <2> DEFINE fs == [cg.funcs EXCEPT ![at] = Release(@)]
  <2>1. cg' = [cg EXCEPT !.funcs = fs]
    BY <1>3
  <2>2. LayoutInv
    BY <1>1
  <2>3. /\ Shape(cg') /\ cg'.funcs = fs /\ cg'.code = cg.code /\ cg'.rodata = cg.rodata
        /\ cg'.tables = cg.tables /\ cg'.fits = cg.fits
    BY <2>1, <2>2 DEF Shape, LayoutInv
  <2>4. IsSeq(fs) /\ DOMAIN fs = DOMAIN cg.funcs
    BY <1>1, <2>2, UpdateFacts DEF LayoutInv, CodeOK
  <2>5. ASSUME NEW k \in DOMAIN cg.funcs
        PROVE  /\ DOMAIN fs[k] = FnFields
               /\ fs[k].entry = cg.funcs[k].entry /\ fs[k].size = cg.funcs[k].size
               /\ fs[k].pool = cg.funcs[k].pool /\ fs[k].constants = cg.funcs[k].constants
    BY <2>2 DEF Release, LayoutInv, CodeOK, FnFields
  <2> HIDE DEF fs
  <2>6. CodeOK(fs, cg.code)
    BY <2>2, <2>4, <2>5 DEF LayoutInv, CodeOK
  <2>7. PoolsOK(fs, cg.rodata, cg.fits)
    BY <2>2, <2>4, <2>5 DEF LayoutInv, PoolsOK
  <2>8. mod' = mod /\ phase' = phase /\ at' = at + 1 /\ pending' = pending /\ image' = image
    BY <1>3 DEF Step
  <2>9. TablesOK(cg.funcs, cg.tables, cg.rodata, cg.fits)'
    BY <2>2, <2>3, <2>4, <2>5, <2>8 DEF LayoutInv, TablesOK
  <2>10. LayoutInv'
    BY <2>3, <2>6, <2>7, <2>9 DEF LayoutInv
  <2>11. PhaseInv' /\ ImageInv'
    BY <1>1, <2>3, <2>8 DEF PhaseInv, ImageInv, EarlyPhases, EmitPhases
  <2> QED  BY <2>10, <2>11
<1> QED  BY <1>2, <1>3 DEF Link

LEMMA LayTableStep ==
  ASSUME LInv, LayTable
  PROVE  LInv'
<1> USE DEF LInv
<1>1. /\ phase = "cg_tables" /\ pending = <<>>
      /\ mod' = mod /\ phase' = phase /\ at' = at + 1 /\ pending' = pending /\ image' = image
  BY DEF LayTable, InList, Step
<1>2. at \in Nat \ {0} /\ mod.tables \in Seq(Nat) /\ at <= Len(mod.tables) /\ LayoutInv /\ ImageInv
  BY <1>1, CodegenAssumption DEF LayTable, InList, Work, PhaseInv, ModuleOK
<1>3. at \in DOMAIN mod.tables /\ mod.tables[at] \in Nat /\ Item = mod.tables[at]
  BY <1>1, <1>2 DEF Item, Work
<1>0. \A t \in DOMAIN cg.tables : t < at /\ t < at + 1
  <2>1. \A t \in DOMAIN cg.tables : t \in Nat
    BY <1>2 DEF LayoutInv, TablesOK
  <2>2. \A t \in DOMAIN cg.tables : t < at
    BY <1>1 DEF PhaseInv
  <2> QED  BY <2>1, <2>2, <1>2
<1>4. CASE cg' = cg
  <2>1. PhaseInv'
    BY <1>0, <1>1, <1>2, <1>4 DEF PhaseInv, EarlyPhases, EmitPhases
  <2> QED  BY <1>1, <1>2, <1>4, <2>1, QuietStep DEF LayoutInv
<1>5. CASE cg' = Grown([cg EXCEPT !.tables = Put(@, at, Size(TableStart(cg.rodata)))],
                       TableStart(cg.rodata) + Slot * Item)
  <2> DEFINE start == TableStart(cg.rodata)
             o == Size(start)
             tabs == Put(cg.tables, at, o)
             ro == cg'.rodata
             laid == [cg EXCEPT !.tables = tabs]
  <2>1. cg.rodata \in Nat /\ (cg.fits => cg.rodata < OffsetRange)
    BY <1>2, CodegenAssumption DEF LayoutInv, PoolsOK
  <2>2. start \in Nat /\ start % Slot = 0 /\ cg.rodata <= start
    BY <2>1, TableStartFacts
  <2>12. start + Slot * mod.tables[at] \in Nat /\ start <= start + Slot * mod.tables[at]
    BY <1>3, <2>2 DEF Slot
  <2>13. /\ Shape(laid) /\ laid.funcs = cg.funcs /\ laid.code = cg.code /\ laid.tables = tabs
         /\ laid.fits = cg.fits
    BY <1>2 DEF LayoutInv, Shape
  <2>14. cg' = Grown(laid, start + Slot * mod.tables[at])
    BY <1>3, <1>5
  <2>17. o \in Nat
    BY <2>2, RangeFacts
  <2> HIDE DEF laid, start
  <2>3. /\ Shape(cg') /\ cg'.funcs = cg.funcs /\ cg'.code = cg.code
        /\ cg'.tables = tabs /\ ro \in 0 .. SizeRange - 1
        /\ cg'.fits => /\ cg.fits /\ start + Slot * mod.tables[at] < OffsetRange
                       /\ ro = start + Slot * mod.tables[at]
    BY <2>12, <2>13, <2>14, GrownFacts
  <2>15. ASSUME cg'.fits
         PROVE  /\ cg.fits /\ cg.rodata < OffsetRange /\ ro < OffsetRange
                /\ o % Slot = 0 /\ cg.rodata <= o
                /\ o + Slot * mod.tables[at] <= ro /\ cg.rodata <= ro
    <3>1. OffsetRange \in Nat /\ start < OffsetRange
      BY <2>2, <2>3, <2>12, <2>15, CodegenAssumption
    <3>2. o = start
      BY <2>2, <3>1, RangeFacts
    <3> QED  BY <2>1, <2>2, <2>3, <2>12, <2>15, <3>2
  <2>4. /\ DOMAIN tabs = DOMAIN cg.tables \cup {at}
        /\ tabs[at] = o
        /\ \A t \in DOMAIN cg.tables : t # at => tabs[t] = cg.tables[t]
    BY DEF Put
  <2>5. ro \in Nat
    BY <2>3, CodegenAssumption
  <2>6. \A t \in DOMAIN cg.tables : t < at
    BY <1>0
  <2> HIDE DEF o, tabs, ro
  <2>7. PoolsOK(cg.funcs, ro, cg'.fits)
    <3>1. PoolsOK(cg.funcs, cg.rodata, cg.fits)
      BY <1>2 DEF LayoutInv
    <3>2. ASSUME cg'.fits, NEW k \in DOMAIN cg.funcs, cg.funcs[k].pool # -1
          PROVE  cg.funcs[k].pool + cg.funcs[k].constants <= ro
      <4>1. /\ cg.funcs[k].pool \in Nat /\ cg.funcs[k].constants \in Nat
            /\ cg.funcs[k].pool + cg.funcs[k].constants <= cg.rodata
        BY <2>15, <3>1, <3>2 DEF PoolsOK
      <4> QED  BY <2>1, <2>5, <2>15, <3>2, <4>1
    <3> QED  BY <2>3, <2>15, <3>1, <3>2 DEF PoolsOK
  <2>8. TablesOK(cg.funcs, tabs, ro, cg'.fits)
    <3>0. ASSUME NEW t \in DOMAIN tabs
          PROVE  t \in DOMAIN mod.tables /\ tabs[t] \in Nat
      <4>1. CASE t = at
        BY <4>1, <1>3, <2>4, <2>17
      <4>2. CASE t # at
        BY <4>2, <1>2, <2>4 DEF LayoutInv, TablesOK
      <4> QED  BY <4>1, <4>2
    <3>1. ASSUME cg'.fits, NEW t \in DOMAIN tabs
          PROVE  /\ tabs[t] % Slot = 0
                 /\ tabs[t] + Slot * mod.tables[t] <= ro
                 /\ \A k \in DOMAIN cg.funcs : cg.funcs[k].pool # -1 =>
                      cg.funcs[k].pool + cg.funcs[k].constants <= tabs[t]
      <4>1. CASE t = at
        <5>1. tabs[t] = o
          BY <4>1, <2>4
        <5>3. tabs[t] + Slot * mod.tables[t] <= ro /\ o % Slot = 0 /\ cg.rodata <= o
          BY <4>1, <5>1, <2>15, <3>1
        <5>4. ASSUME NEW k \in DOMAIN cg.funcs, cg.funcs[k].pool # -1
              PROVE  cg.funcs[k].pool + cg.funcs[k].constants <= o
          <6>1. /\ cg.funcs[k].pool \in Nat /\ cg.funcs[k].constants \in Nat
                /\ cg.funcs[k].pool + cg.funcs[k].constants <= cg.rodata
            BY <5>4, <1>2, <2>15, <3>1 DEF LayoutInv, PoolsOK
          <6> QED  BY ONLY <6>1, <5>3, <2>1, <2>17
        <5> QED  BY <5>1, <5>3, <5>4
      <4>2. CASE t # at
        <5>1. t \in DOMAIN cg.tables /\ tabs[t] = cg.tables[t]
          BY <4>2, <2>4
        <5>2. /\ t \in DOMAIN mod.tables
              /\ cg.tables[t] \in Nat /\ cg.tables[t] % Slot = 0
              /\ cg.tables[t] + Slot * mod.tables[t] <= cg.rodata
              /\ \A k \in DOMAIN cg.funcs : cg.funcs[k].pool # -1 =>
                   cg.funcs[k].pool + cg.funcs[k].constants <= cg.tables[t]
          BY <5>1, <1>2, <2>15, <3>1 DEF LayoutInv, TablesOK
        <5>3. mod.tables[t] \in Nat
          BY <5>2, <1>2
        <5>4. cg.tables[t] + Slot * mod.tables[t] <= ro
          BY <5>2, <5>3, <2>1, <2>5, <2>15, <3>1 DEF Slot
        <5> QED  BY <5>1, <5>2, <5>4
      <4> QED  BY <4>1, <4>2
    <3>2. ASSUME cg'.fits, NEW t \in DOMAIN tabs, NEW u \in DOMAIN tabs, u < t
          PROVE  tabs[u] + Slot * mod.tables[u] <= tabs[t]
      <4>1. u # at /\ u \in DOMAIN cg.tables /\ tabs[u] = cg.tables[u]
        <5>1. t \in Nat /\ u \in Nat /\ at \in Nat
          BY <3>0, <1>2, <1>3
        <5>2. t <= at
          BY <5>1, <2>4, <2>6
        <5>3. u # at
          BY ONLY <5>1, <5>2, <3>2
        <5> QED  BY <5>3, <2>4
      <4>2. CASE t = at
        <5>1. /\ cg.tables[u] \in Nat /\ u \in DOMAIN mod.tables
              /\ cg.tables[u] + Slot * mod.tables[u] <= cg.rodata
          BY <4>1, <1>2, <2>15, <3>2 DEF LayoutInv, TablesOK
        <5>2. mod.tables[u] \in Nat
          BY <5>1, <1>2
        <5>3. cg.rodata <= o /\ tabs[t] = o
          BY <2>4, <2>15, <3>2, <4>2
        <5> QED  BY <4>1, <5>1, <5>2, <5>3, <2>1, <2>17 DEF Slot
      <4>3. CASE t # at
        <5>1. t \in DOMAIN cg.tables /\ tabs[t] = cg.tables[t]
          BY <4>3, <2>4
        <5> QED  BY <5>1, <4>1, <3>2, <1>2, <2>15 DEF LayoutInv, TablesOK
      <4> QED  BY <4>2, <4>3
    <3> QED  BY <3>0, <3>1, <3>2 DEF TablesOK
  <2>9. LayoutInv'
    <3>1. cg'.rodata = ro
      BY DEF ro
    <3> QED  BY <1>1, <1>2, <2>3, <2>7, <2>8, <3>1 DEF LayoutInv, TablesOK
  <2>10. PhaseInv'
    <3>1. \A t \in DOMAIN cg'.tables : t < at'
      BY <1>0, <1>1, <1>2, <2>3, <2>4
    <3> QED  BY <3>1, <1>1, <1>2 DEF PhaseInv, EarlyPhases, EmitPhases
  <2>11. ImageInv'
    BY <1>1, <1>2 DEF ImageInv
  <2> QED  BY <2>9, <2>10, <2>11
<1> QED  BY <1>4, <1>5 DEF LayTable

LEMMA AllocateStep ==
  ASSUME LInv, Allocate
  PROVE  LInv'
<1> USE DEF LInv
<1>1. /\ phase = "alloc" /\ phase' = "link" /\ LayoutInv /\ ImageInv
      /\ mod' = mod /\ at' = at /\ pending' = pending /\ cg' = cg
  BY DEF Allocate
<1>2. /\ image'.rx = AlignUp(cg.code, Page) /\ image'.ro = Size(AlignUp(cg.rodata, Page))
      /\ DOMAIN image' = DOMAIN image
  BY <1>1 DEF Allocate, ImageInv
<1>3. cg.code <= AlignUp(cg.code, Page) /\ (cg.fits => cg.rodata <= Size(AlignUp(cg.rodata, Page)))
  <2>1. cg.code \in Nat /\ cg.rodata \in Nat /\ Page \in Nat \ {0} /\ OffsetRange \in Nat
    BY <1>1, CodegenAssumption DEF LayoutInv, CodeOK, PoolsOK
  <2>2. AlignUp(cg.rodata, Page) \in Nat /\ cg.rodata <= AlignUp(cg.rodata, Page)
        /\ AlignUp(cg.rodata, Page) < cg.rodata + Page
    BY <2>1, AlignUpFacts
  <2>3. ASSUME cg.fits PROVE Size(AlignUp(cg.rodata, Page)) = AlignUp(cg.rodata, Page)
    <3>1. cg.rodata < OffsetRange
      BY <1>1, <2>3 DEF LayoutInv, PoolsOK
    <3>2. AlignUp(cg.rodata, Page) < OffsetRange + Page
      BY ONLY <2>1, <2>2, <3>1
    <3> QED  BY <2>2, <3>2, RangeFacts
  <2> QED  BY <2>1, <2>2, <2>3, AlignUpFacts
<1>4. ImageInv'
  BY <1>1, <1>2, <1>3 DEF ImageInv
<1>5. PhaseInv' /\ LayoutInv'
  BY <1>1 DEF PhaseInv, LayoutInv, TablesOK, EarlyPhases, EmitPhases
<1> QED  BY <1>4, <1>5

(* The steps that fill in the image leave the layout as it is. *)
LEMMA FillStep ==
  ASSUME LInv, phase \in {"fill_exports", "fill_start", "fill_elems"}, cg' = cg, Step, pending' = pending,
         DOMAIN image' = DOMAIN image
  PROVE  LInv'
<1>1. LayoutInv /\ ImageInv
  BY DEF LInv
<1>2. mod' = mod /\ phase' = phase /\ at' = at + 1
  BY DEF Step
<1>3. PhaseInv'
  BY <1>2 DEF LInv, PhaseInv, EarlyPhases, EmitPhases
<1>4. LayoutInv' /\ ImageInv'
  BY <1>1, <1>2 DEF LayoutInv, TablesOK, ImageInv
<1> QED  BY <1>3, <1>4 DEF LInv

(* Undefined behaviour changes nothing that is said of the layout. *)
LEMMA FaultStep ==
  ASSUME LInv, Faults
  PROVE  LInv'
<1>1. Written # {} /\ phase' = "crashed" /\ UNCHANGED <<mod, at, ctx, pending, cg, image, why>>
  BY DEF Faults
<1>2. phase \in {"link", "fill_exports", "fill_start", "fill_elems"} /\ pending = <<>>
  BY <1>1 DEF Written, InList
<1>3. PhaseInv'
  BY <1>1, <1>2 DEF LInv, PhaseInv, EarlyPhases, EmitPhases
<1>4. LayoutInv' /\ ImageInv'
  BY <1>1, <1>2 DEF LInv, LayoutInv, TablesOK, ImageInv
<1> QED  BY <1>3, <1>4 DEF LInv

LEMMA LockStep ==
  ASSUME LInv, Lock
  PROVE  LInv'
<1>1. /\ LayoutInv /\ ImageInv /\ phase = "lock" /\ phase' = "done"
      /\ mod' = mod /\ at' = at /\ pending' = pending /\ image' = image /\ cg' = Cleanup(cg)
  BY DEF Lock, LInv
<1> DEFINE fs == [k \in DOMAIN cg.funcs |-> Destroy(cg.funcs[k])]
<1>2. /\ Shape(cg') /\ cg'.funcs = fs /\ cg'.code = cg.code /\ cg'.rodata = cg.rodata
      /\ cg'.tables = cg.tables /\ cg'.fits = cg.fits
  BY <1>1 DEF Cleanup, Shape, LayoutInv
<1>3. IsSeq(fs) /\ DOMAIN fs = DOMAIN cg.funcs
  BY <1>1, MapFacts DEF LayoutInv, CodeOK
<1>4. ASSUME NEW k \in DOMAIN cg.funcs
      PROVE  /\ DOMAIN fs[k] = FnFields
             /\ fs[k].entry = cg.funcs[k].entry /\ fs[k].size = cg.funcs[k].size
             /\ fs[k].pool = cg.funcs[k].pool /\ fs[k].constants = cg.funcs[k].constants
  BY <1>1 DEF Destroy, LayoutInv, CodeOK, FnFields
<1> HIDE DEF fs
<1>5. CodeOK(fs, cg.code)
  BY <1>1, <1>3, <1>4 DEF LayoutInv, CodeOK
<1>6. PoolsOK(fs, cg.rodata, cg.fits)
  BY <1>1, <1>3, <1>4 DEF LayoutInv, PoolsOK
<1>7. TablesOK(cg.funcs, cg.tables, cg.rodata, cg.fits)'
  BY <1>1, <1>2, <1>3, <1>4 DEF LayoutInv, TablesOK
<1>8. LayoutInv'
  BY <1>2, <1>5, <1>6, <1>7 DEF LayoutInv
<1>9. PhaseInv' /\ ImageInv'
  BY <1>1 DEF LInv, PhaseInv, ImageInv, EarlyPhases, EmitPhases
<1> QED  BY <1>8, <1>9 DEF LInv

LEMMA NextInv ==
  ASSUME LInv, Next
  PROVE  LInv'
<1> USE DEF LInv
<1>0. at + 1 \in Nat \ {0} /\ at \in Nat \ {0}
  BY DEF PhaseInv
<1>1. CASE Advance
  BY <1>1, AdvanceStep
<1>2. CASE Abort
  BY <1>2, FailStep DEF Abort
<1>3. CASE PrepareRoot
  BY <1>0, <1>3, LoopStep DEF PrepareRoot, InList, Step, EarlyPhases
<1>4. CASE PrepareSegment
  BY <1>0, <1>4, LoopStep DEF PrepareSegment, InList, Step, EarlyPhases
<1>5. CASE PrepareElem \/ BuildCall \/ PushCallee
  <2>1. phase \in EarlyPhases
    BY <1>5 DEF PrepareElem, BuildCall, PushCallee, Calling, PhaseInv
  <2>2. UNCHANGED <<mod, phase, at, image>> /\ (cg' = cg \/ \E q : cg' = [cg EXCEPT !.queue = q])
    BY <1>5 DEF PrepareElem, BuildCall, PushCallee, Return
  <2> QED  BY <1>0, <2>1, <2>2, LoopStep
<1>6. CASE BuildNext
  BY <1>0, <1>6, LoopStep DEF BuildNext, EarlyPhases
<1>16. CASE TryRoots
  BY <1>0, <1>16, LoopStep DEF TryRoots, InList, Step, EarlyPhases, EmitPhases
<1>17. CASE TryFunction
  <2>1. CASE Fail("unprepared", cg)
    BY <2>1, FailStep
  <2>2. CASE UNCHANGED <<mod, phase, at, ctx, cg, image, why>>
    BY <1>0, <1>17, <2>2, LoopStep DEF TryFunction, Calling, PhaseInv
  <2> QED  BY <1>17, <2>1, <2>2 DEF TryFunction
<1>7. CASE RegisterImport
  <2>1. CASE Fail("unused_import", cg)
    BY <2>1, FailStep
  <2>2. CASE Step /\ UNCHANGED <<ctx, pending, cg, image>>
    BY <1>0, <1>7, <2>2, LoopStep DEF RegisterImport, InList, Step, EarlyPhases
  <2> QED  BY <1>7, <2>1, <2>2 DEF RegisterImport
<1>8. CASE PopQueue
  BY <1>0, <1>8, LoopStep DEF PopQueue, EarlyPhases, EmitPhases
<1>9. CASE CodegenFunction
  <2>1. phase # "failed"
    BY <1>9 DEF CodegenFunction, Calling, PhaseInv, EarlyPhases, EmitPhases
  <2> QED  BY <1>9, <2>1, CodegenFunctionStep
<1>10. CASE LayTable
  BY <1>10, LayTableStep
<1>11. CASE Allocate
  BY <1>11, AllocateStep
<1>12. CASE Link
  BY <1>12, LinkStep
<1>13. CASE FillExport
  <2>1. CASE Fail("unresolved", cg)
    BY <2>1, FailStep
  <2>2. CASE /\ image' = Publish(image, {ctx.body[Item]})
             /\ Step
             /\ UNCHANGED <<ctx, pending, cg>>
    BY <1>13, <2>2, FillStep DEF FillExport, InList, Publish
  <2> QED  BY <1>13, <2>1, <2>2 DEF FillExport
<1>14. CASE FillSegment
  <2>1. CASE \E reason : Fail(reason, cg)
    BY <2>1, FailStep
  <2>2. CASE Step /\ UNCHANGED <<ctx, pending, cg>> /\ DOMAIN image' = DOMAIN image
    BY <1>14, <2>2, FillStep DEF FillSegment, InList
  <2>3. \/ Fail("segment", cg) \/ Fail("unresolved", cg)
        \/ Step /\ UNCHANGED <<ctx, pending, cg>> /\ DOMAIN image' = DOMAIN image
    BY <1>14 DEF FillSegment, Publish
  <2> QED  BY <2>1, <2>2, <2>3
<1>15. CASE Lock
  BY <1>15, LockStep
<1>18. CASE Faults
  BY <1>18, FaultStep
<1> QED
  BY <1>1, <1>2, <1>3, <1>4, <1>5, <1>6, <1>7, <1>8, <1>9, <1>10, <1>11, <1>12, <1>13, <1>14, <1>15,
     <1>16, <1>17, <1>18 DEF Next

-----------------------------------------------------------------------------
(* The theorems.                                                           *)

THEOREM LayoutInvariant == Spec => []LInv
<1>1. LInv /\ [Next]_vars => LInv'
  <2>1. CASE UNCHANGED vars
    BY <2>1 DEF vars, LInv, PhaseInv, LayoutInv, TablesOK, ImageInv
  <2> QED  BY <2>1, NextInv
<1> QED  BY <1>1, InitInv, PTL DEF Spec

(* jit_codegen_function and jit_get_indirect: in every module, as long as  *)
(* its code is below 2^32 bytes, functions do not overlap, entries are     *)
(* 16-aligned, and the endbr64 of a published entry falls into a gap that  *)
(* no code uses.                                                           *)
THEOREM CodeIsLaidOut == Spec => []CodeLayout
<1>1. LInv => CodeLayout
  <2> SUFFICES ASSUME LInv, phase # "failed", cg.code < OffsetRange PROVE CodeLayout
    BY DEF CodeLayout, Broken
  <2>1. CodeOK(cg.funcs, cg.code) /\ ImageInv
    BY DEF LInv, LayoutInv
  <2>2. Fns # {} => 1 \in Fns
    BY <2>1, AppendFacts DEF CodeOK, Fns
  <2> QED  BY <2>1, <2>2 DEF CodeLayout, CodeOK, Fns, ImageInv
<1> QED  BY <1>1, LayoutInvariant, PTL

(* jit_codegen_function and jit_codegen_tables: as long as the rodata is   *)
(* below 2^32 bytes, constant pools and the pointer tables that            *)
(* call_indirect reads share it without overlapping, and every table is    *)
(* aligned for its pointers.                                               *)
THEOREM RodataIsLaidOut == Spec => []RodataLayout
<1>1. LInv => RodataLayout
  <2> SUFFICES ASSUME LInv, phase # "failed", cg.fits PROVE RodataLayout
    BY DEF RodataLayout, Broken
  <2>1. PoolsOK(cg.funcs, cg.rodata, cg.fits) /\ TablesOK(cg.funcs, cg.tables, cg.rodata, cg.fits) /\ ImageInv
    BY DEF LInv, LayoutInv
  <2>2. \A j, k \in PoolFns : j < k => cg.funcs[j].pool + cg.funcs[j].constants <= cg.funcs[k].pool
    BY <2>1 DEF PoolsOK, PoolFns, Fns
  <2>3. \A k \in PoolFns : 0 <= cg.funcs[k].pool /\ cg.funcs[k].pool + cg.funcs[k].constants <= cg.rodata
    BY <2>1 DEF PoolsOK, PoolFns, Fns
  <2>4. \A t \in DOMAIN cg.tables :
          /\ cg.tables[t] % Slot = 0
          /\ cg.tables[t] + Slot * mod.tables[t] <= cg.rodata
          /\ \A k \in PoolFns : cg.funcs[k].pool + cg.funcs[k].constants <= cg.tables[t]
          /\ \A u \in DOMAIN cg.tables : u < t => cg.tables[u] + Slot * mod.tables[u] <= cg.tables[t]
    BY <2>1 DEF TablesOK, PoolFns, Fns
  <2> QED  BY <2>1, <2>2, <2>3, <2>4 DEF RodataLayout, ImageInv
<1> QED  BY <1>1, LayoutInvariant, PTL

-----------------------------------------------------------------------------
(* The two worklists agree, whatever calls the optimiser removes: what the *)
(* linker and the tables look up has been emitted, once, every blob is     *)
(* freed once, and every slot of a used table leads to the right thunk.    *)
(* The inductive invariant.                                                *)

All == 0 .. mod.imports + mod.funcs - 1

IRPhases == {"exports", "elems", "start", "build"}

LinkPhases == {"link", "fill_exports", "fill_start", "fill_elems", "lock", "done"}

Called(do, x) == [do |-> do, arg |-> x] \in ToSet(pending)

(* jit_context_t: the ids lead back to the functions they were made for.   *)
CtxOK(c) ==
  /\ c = [ids |-> c.ids, body |-> c.body, thunk |-> c.thunk, queue |-> c.queue, used |-> c.used]
  /\ IsSeq(c.ids) /\ IsSeq(c.queue)
  /\ DOMAIN c.body \subseteq All
  /\ \A f \in DOMAIN c.body :
       IF IsImport(f)
       THEN c.body[f] = 0
       ELSE c.body[f] \in DOMAIN c.ids /\ c.ids[c.body[f]] = [kind |-> "body", of |-> f]
  /\ DOMAIN c.thunk \subseteq DOMAIN c.body
  /\ \A f \in DOMAIN c.thunk :
       c.thunk[f] \in DOMAIN c.ids /\ c.ids[c.thunk[f]] = [kind |-> "thunk", of |-> f]
  /\ \A f \in ToSet(c.queue) : f \in DOMAIN c.body /\ ~IsImport(f)
  /\ c.used \subseteq DOMAIN mod.tables

(* The ids that code generation may meet: bodies and the last thunks. *)
Current ==
  {ctx.body[f] : f \in {g \in DOMAIN ctx.body : ~IsImport(g)}}
    \cup {ctx.thunk[f] : f \in DOMAIN ctx.thunk}

(* Each kind of call is pending only in the loops that make it. *)
CallsInv ==
  /\ IsSeq(pending)
  /\ \A c \in ToSet(pending) :
       /\ c = [do |-> c.do, arg |-> c.arg]
       /\ \/ c.do = "thunk" /\ phase = "elems" /\ c.arg \in All
          \/ c.do = "prepare" /\ phase = "build" /\ c.arg \in All
          \/ c.do = "try" /\ phase \in {"cg_exports", "cg_elems", "cg_start"} /\ c.arg \in DOMAIN ctx.body
          \/ c.do \in {"emit", "push"} /\ phase \in EmitPhases /\ c.arg \in Current

(* A function that has left the queue of jit_emit_spidir has its callees   *)
(* prepared, but for those it is still at.                                 *)
BuildInv ==
  /\ \A f \in DOMAIN ctx.body : IsImport(f) \/ f \in ToSet(ctx.queue)
       \/ \A g \in ToSet(mod.calls[f]) : g \in DOMAIN ctx.body \/ Called("prepare", g)
  /\ phase \notin IRPhases => ctx.queue = <<>>

PreparedInv ==
  /\ \A i \in DOMAIN mod.exports :
       mod.exports[i] \in DOMAIN ctx.body \/ (phase = "exports" /\ at <= i)
  /\ \A i \in DOMAIN mod.elems : \A f \in ToSet(mod.elems[i].funcs) :
       \/ f \in DOMAIN ctx.thunk
       \/ phase = "exports"
       \/ phase = "elems" /\ (at <= i \/ Called("thunk", f))
  /\ \A i \in DOMAIN Start :
       \/ Start[i] \in DOMAIN ctx.body
       \/ phase \in {"exports", "elems"}
       \/ phase = "start" /\ at <= i

(* Code that has been emitted refers to code that has been emitted or will *)
(* be: it is queued, or its call is pending.                               *)
EmitInv ==
  /\ IsSeq(cg.queue)
  /\ DOMAIN cg.idx \cup ToSet(cg.queue) \subseteq Current
  /\ \A id \in DOMAIN cg.idx : cg.idx[id] \in DOMAIN cg.funcs /\ cg.funcs[cg.idx[id]].id = id
  /\ \A k \in DOMAIN cg.funcs :
       /\ cg.funcs[k].id \in DOMAIN cg.idx /\ cg.idx[cg.funcs[k].id] = k
       /\ \A r \in ToSet(cg.funcs[k].refs) :
            /\ r \in Current
            /\ r \in DOMAIN cg.idx \cup ToSet(cg.queue) \/ Called("emit", r) \/ Called("push", r)
  /\ phase \in IRPhases => cg.funcs = <<>>
  /\ phase \notin EmitPhases \cup {"cg_imports"} => cg.queue = <<>>

(* The body and the thunk of a root are emitted, or about to be. *)
Out(id) == id \in DOMAIN cg.idx \/ Called("emit", id)

Done(f) ==
  /\ f \in DOMAIN ctx.body
  /\ IsImport(f) \/ Out(ctx.body[f])
  /\ f \in DOMAIN ctx.thunk => Out(ctx.thunk[f])

RootsInv ==
  /\ \A i \in DOMAIN mod.exports :
       \/ Done(mod.exports[i])
       \/ phase \in IRPhases
       \/ phase = "cg_exports" /\ (at <= i \/ Called("try", mod.exports[i]))
  /\ \A i \in DOMAIN mod.elems : \A f \in ToSet(mod.elems[i].funcs) :
       \/ Done(f)
       \/ phase \in IRPhases \cup {"cg_exports", "cg_imports"}
       \/ phase = "cg_elems" /\ (at <= i \/ Called("try", f))
  /\ \A i \in DOMAIN Start :
       \/ Done(Start[i])
       \/ phase \in IRPhases \cup {"cg_exports", "cg_imports", "cg_elems"}
       \/ phase = "cg_start" /\ (at <= i \/ Called("try", Start[i]))

(* The linker frees the blobs one by one. *)
BlobInv ==
  \A k \in DOMAIN cg.funcs :
    IF phase \in LinkPhases \ {"link"} \/ (phase = "link" /\ k < at)
    THEN cg.funcs[k].blob = "null" /\ cg.funcs[k].freed = 1
    ELSE cg.funcs[k].blob = "live" /\ cg.funcs[k].freed = 0

(* Segment i has been copied into its table. *)
Placed(i) == phase \in {"lock", "done"} \/ (phase = "fill_elems" /\ i < at)

Covers(t, s) ==
  {i \in DOMAIN mod.elems : /\ Placed(i) /\ mod.elems[i].table = t
                            /\ s - mod.elems[i].offset \in DOMAIN mod.elems[i].funcs}

(* A slot has what the last segment that covers it put there. *)
SlotOK(t, s) ==
  LET slot == image.slots[t][s]
  IN  IF Covers(t, s) = {}
      THEN slot = 0
      ELSE /\ slot \in image.endbr
           /\ \E i \in Covers(t, s) :
                LET f == mod.elems[i].funcs[s - mod.elems[i].offset]
                IN  /\ \A j \in Covers(t, s) : j <= i
                    /\ f \in DOMAIN ctx.thunk /\ slot = ctx.thunk[f]

TargetsInv ==
  /\ phase = "cg_tables" => DOMAIN cg.tables = {t \in ctx.used : t < at}
  /\ phase \in {"alloc"} \cup LinkPhases => DOMAIN cg.tables = ctx.used
  /\ phase \in LinkPhases =>
       /\ DOMAIN image.slots = ctx.used
       /\ \A t \in ctx.used :
            DOMAIN image.slots[t] = 1 .. mod.tables[t] /\ \A s \in 1 .. mod.tables[t] : SlotOK(t, s)

PublishedInv ==
  phase \in LinkPhases =>
    /\ \A i \in DOMAIN mod.exports :
         \/ IsImport(mod.exports[i]) \/ ctx.body[mod.exports[i]] \in image.endbr
         \/ phase = "link"
         \/ phase = "fill_exports" /\ at <= i
    /\ \A i \in DOMAIN Start :
         \/ IsImport(Start[i]) \/ ctx.body[Start[i]] \in image.endbr
         \/ phase \in {"link", "fill_exports"}
         \/ phase = "fill_start" /\ at <= i

Phases == DOMAIN Following \cup {"alloc", "lock", "done"}

RunInv ==
  /\ phase \in Phases /\ why = "none"
  /\ CtxOK(ctx) /\ CallsInv /\ BuildInv /\ PreparedInv
  /\ EmitInv /\ RootsInv /\ BlobInv
  /\ TargetsInv /\ PublishedInv

(* A compilation that has failed or crashed takes no more steps. *)
CInv ==
  IF Broken THEN TypeOK /\ BlobsFreedOnce /\ why \notin {"unprepared", "unresolved"} ELSE RunInv

-----------------------------------------------------------------------------
(* Lists.                                                                  *)

LEMMA EmptyList == IsSeq(<<>>) /\ ToSet(<<>>) = {} /\ DOMAIN <<>> = {}
BY DEF IsSeq, ToSet

LEMMA OneItem ==
  ASSUME NEW e
  PROVE  IsSeq(<<e>>) /\ ToSet(<<e>>) = {e} /\ Len(<<e>>) = 1 /\ DOMAIN <<e>> = {1} /\ <<e>>[1] = e
<1>1. <<e>> \in Seq({e})
  OBVIOUS
<1>2. DOMAIN <<e>> = {1} /\ <<e>>[1] = e
  OBVIOUS
<1> QED  BY <1>1, <1>2 DEF IsSeq, ToSet

(* What the loops that walk a list test. *)
LEMMA ListFacts ==
  ASSUME NEW s, IsSeq(s)
  PROVE  /\ Len(s) \in Nat /\ DOMAIN s = 1 .. Len(s)
         /\ s # <<>> => Len(s) \in DOMAIN s
         /\ \A n \in Nat \ {0} : /\ n <= Len(s) => n \in DOMAIN s
                                 /\ n > Len(s) => \A i \in DOMAIN s : i < n
<1>1. PICK S : s \in Seq(S)
  BY DEF IsSeq
<1>2. Len(s) \in Nat /\ DOMAIN s = 1 .. Len(s)
  BY <1>1
<1>3. s # <<>> => Len(s) # 0
  BY <1>1
<1> QED  BY <1>2, <1>3

LEMMA TailFacts ==
  ASSUME NEW s, IsSeq(s), s # <<>>
  PROVE  IsSeq(Tail(s)) /\ ToSet(s) = {Head(s)} \cup ToSet(Tail(s))
<1>1. PICK S : s \in Seq(S)
  BY DEF IsSeq
<1>2. /\ Tail(s) \in Seq(S) /\ Len(s) \in Nat \ {0} /\ Head(s) = s[1]
      /\ Len(Tail(s)) = Len(s) - 1
      /\ \A i \in 1 .. Len(s) - 1 : Tail(s)[i] = s[i + 1]
  BY <1>1
<1>3. DOMAIN s = 1 .. Len(s) /\ DOMAIN Tail(s) = 1 .. Len(s) - 1
  BY <1>1, <1>2
<1>4. ASSUME NEW x
      PROVE  x \in ToSet(s) <=> x = Head(s) \/ x \in ToSet(Tail(s))
  <2>1. ASSUME x \in ToSet(s)
        PROVE  x = Head(s) \/ x \in ToSet(Tail(s))
    <3>1. PICK i \in 1 .. Len(s) : x = s[i]
      BY <1>3, <2>1 DEF ToSet
    <3>2. CASE i = 1
      BY <3>1, <3>2, <1>2
    <3>3. CASE i # 1
      <4>1. i - 1 \in 1 .. Len(s) - 1 /\ Tail(s)[i - 1] = x
        BY <1>2, <3>1, <3>3
      <4> QED  BY <4>1, <1>3 DEF ToSet
    <3> QED  BY <3>2, <3>3
  <2>2. ASSUME x = Head(s) \/ x \in ToSet(Tail(s))
        PROVE  x \in ToSet(s)
    <3>1. CASE x = Head(s)
      <4>1. 1 \in DOMAIN s /\ x = s[1]
        BY <1>2, <1>3, <3>1
      <4> QED  BY <4>1 DEF ToSet
    <3>2. CASE x \in ToSet(Tail(s))
      <4>1. PICK i \in 1 .. Len(s) - 1 : x = Tail(s)[i]
        BY <1>3, <3>2 DEF ToSet
      <4>2. i + 1 \in DOMAIN s /\ x = s[i + 1]
        BY <1>2, <1>3, <4>1
      <4> QED  BY <4>2 DEF ToSet
    <3> QED  BY <2>2, <3>1, <3>2
  <2> QED  BY <2>1, <2>2
<1> QED  BY <1>2, <1>4 DEF IsSeq

LEMMA FrontFacts ==
  ASSUME NEW s, IsSeq(s), s # <<>>
  PROVE  IsSeq(Front(s)) /\ ToSet(s) = {Last(s)} \cup ToSet(Front(s))
<1>1. PICK S : s \in Seq(S)
  BY DEF IsSeq
<1> DEFINE n == Len(s)
<1>2. n \in Nat \ {0} /\ DOMAIN s = 1 .. n /\ Last(s) = s[n]
  BY <1>1 DEF Last
<1>3. /\ Front(s) \in Seq(S) /\ DOMAIN Front(s) = 1 .. n - 1
      /\ \A i \in 1 .. n - 1 : Front(s)[i] = s[i]
  <2>1. Front(s) = SubSeq(s, 1, n - 1)
    BY DEF Front
  <2>2. \A i \in 1 .. n - 1 : s[i] \in S
    BY <1>1, <1>2
  <2>3. /\ SubSeq(s, 1, n - 1) \in Seq(S) /\ Len(SubSeq(s, 1, n - 1)) = n - 1
        /\ \A i \in 1 .. n - 1 : SubSeq(s, 1, n - 1)[i] = s[i]
    BY <1>1, <1>2, <2>2
  <2> QED  BY <2>1, <2>3
<1>4. ASSUME NEW x
      PROVE  x \in ToSet(s) <=> x = Last(s) \/ x \in ToSet(Front(s))
  <2> HIDE DEF n
  <2>1. \A i : i \in 1 .. n <=> i = n \/ i \in 1 .. n - 1
    BY <1>2
  <2>2. ToSet(s) = {s[i] : i \in 1 .. n} /\ ToSet(Front(s)) = {s[i] : i \in 1 .. n - 1}
    BY <1>2, <1>3 DEF ToSet
  <2> QED  BY <1>2, <2>1, <2>2
<1> QED  BY <1>3, <1>4 DEF IsSeq

LEMMA ConcatFacts ==
  ASSUME NEW s, NEW t, IsSeq(s), IsSeq(t)
  PROVE  IsSeq(s \o t) /\ ToSet(s \o t) = ToSet(s) \cup ToSet(t)
<1>1. PICK S : s \in Seq(S)
  BY DEF IsSeq
<1>2. PICK T : t \in Seq(T)
  BY DEF IsSeq
<1> DEFINE U == S \cup T
           m == Len(s)
           n == Len(t)
<1>3. s \in Seq(U) /\ t \in Seq(U)
  BY <1>1, <1>2
<1>4. /\ m \in Nat /\ n \in Nat /\ DOMAIN s = 1 .. m /\ DOMAIN t = 1 .. n
      /\ s \o t \in Seq(U) /\ DOMAIN (s \o t) = 1 .. m + n
  BY <1>3
<1>5. /\ \A i \in 1 .. m : (s \o t)[i] = s[i]
      /\ \A i \in m + 1 .. m + n : (s \o t)[i] = t[i - m]
  BY <1>3, <1>4
<1> HIDE DEF m, n
<1>6. ASSUME NEW x \in ToSet(s \o t)
      PROVE  x \in ToSet(s) \cup ToSet(t)
  <2>1. PICK i \in 1 .. m + n : x = (s \o t)[i]
    BY <1>4 DEF ToSet
  <2>2. CASE i \in 1 .. m
    BY <1>4, <1>5, <2>1, <2>2 DEF ToSet
  <2>3. CASE i \in m + 1 .. m + n
    <3>1. i - m \in DOMAIN t /\ x = t[i - m]
      BY <1>4, <1>5, <2>1, <2>3
    <3> QED  BY <3>1 DEF ToSet
  <2> QED  BY <1>4, <2>2, <2>3
<1>7. ASSUME NEW x \in ToSet(s)
      PROVE  x \in ToSet(s \o t)
  <2>1. PICK i \in 1 .. m : x = s[i]
    BY <1>4 DEF ToSet
  <2>2. i \in 1 .. m + n
    BY <1>4
  <2> QED  BY <1>4, <1>5, <2>1, <2>2 DEF ToSet
<1>8. ASSUME NEW x \in ToSet(t)
      PROVE  x \in ToSet(s \o t)
  <2>1. PICK i \in 1 .. n : x = t[i]
    BY <1>4 DEF ToSet
  <2>2. m + i \in m + 1 .. m + n /\ m + i \in 1 .. m + n /\ (m + i) - m = i
    BY <1>4
  <2>3. (s \o t)[m + i] = x
    BY <1>5, <2>1, <2>2
  <2> QED  BY <1>4, <2>2, <2>3 DEF ToSet
<1> QED  BY <1>4, <1>6, <1>7, <1>8 DEF IsSeq

LEMMA AppendedFacts ==
  ASSUME NEW s, IsSeq(s), NEW e
  PROVE  IsSeq(Append(s, e)) /\ ToSet(Append(s, e)) = ToSet(s) \cup {e}
<1> DEFINE n == Len(s)
           a == Append(s, e)
<1>1. /\ IsSeq(a) /\ n \in Nat /\ DOMAIN s = 1 .. n /\ DOMAIN a = 1 .. n + 1
      /\ \A i \in 1 .. n : a[i] = s[i]
      /\ a[n + 1] = e
  BY AppendFacts
<1>2. \A i : i \in 1 .. n + 1 <=> i \in 1 .. n \/ i = n + 1
  BY <1>1
<1> HIDE DEF a, n
<1> QED  BY <1>1, <1>2 DEF ToSet, a

(* A list of calls makes one call for each argument. *)
LEMMA CallsFacts ==
  ASSUME NEW do, NEW args, IsSeq(args)
  PROVE  /\ IsSeq(Calls(do, args))
         /\ ToSet(Calls(do, args)) = {[do |-> do, arg |-> x] : x \in ToSet(args)}
<1> DEFINE S == {[do |-> do, arg |-> x] : x \in ToSet(args)}
           s == Calls(do, args)
<1>1. Len(args) \in Nat /\ DOMAIN args = 1 .. Len(args)
  BY ListFacts
<1>2. s = [i \in 1 .. Len(args) |-> [do |-> do, arg |-> args[i]]]
  BY <1>1 DEF Calls
<1>3. \A i \in 1 .. Len(args) : s[i] \in S
  BY <1>1, <1>2 DEF ToSet
<1>4. s \in [1 .. Len(args) -> S]
  BY <1>2, <1>3
<1>5. s \in Seq(S)
  BY <1>1, <1>4
<1>6. ToSet(s) = S
  <2>1. ASSUME NEW x \in ToSet(s)
        PROVE  x \in S
    BY <1>2, <1>3 DEF ToSet
  <2>2. ASSUME NEW x \in S
        PROVE  x \in ToSet(s)
    <3>1. PICK y \in ToSet(args) : x = [do |-> do, arg |-> y]
      OBVIOUS
    <3>2. PICK i \in 1 .. Len(args) : y = args[i]
      BY <1>1 DEF ToSet
    <3>3. DOMAIN s = 1 .. Len(args) /\ s[i] = x
      BY <1>2, <3>1, <3>2
    <3> QED  BY <3>3 DEF ToSet
  <2> QED  BY <2>1, <2>2
<1> QED  BY <1>5, <1>6 DEF IsSeq

-----------------------------------------------------------------------------
(* The module, and what a step does to jit_context_t.                      *)

SegmentOK(e) == e.table = 1 /\ e.offset \in Nat /\ IsSeq(e.funcs) /\ ToSet(e.funcs) \subseteq All

LEMMA ModuleFacts ==
  ASSUME mod \in Modules
  PROVE  /\ IsSeq(mod.exports) /\ ToSet(mod.exports) \subseteq All
         /\ IsSeq(mod.elems) /\ \A i \in DOMAIN mod.elems : SegmentOK(mod.elems[i])
         /\ IsSeq(Start) /\ ToSet(Start) \subseteq All
         /\ IsSeq(mod.tables) /\ \A t \in DOMAIN mod.tables : mod.tables[t] \in Nat
         /\ \A f \in All : IsImport(f) \/
              /\ IsSeq(mod.calls[f]) /\ ToSet(mod.calls[f]) \subseteq All
              /\ mod.indirect[f] \subseteq DOMAIN mod.tables
<1>0. ASSUME NEW S, NEW s \in Seq(S)
      PROVE  IsSeq(s) /\ ToSet(s) \subseteq S /\ \A i \in DOMAIN s : s[i] \in S
  BY DEF IsSeq, ToSet
<1>1. /\ mod.imports \in Nat /\ mod.funcs \in Nat
      /\ mod.exports \in Seq(All)
      /\ mod.start \in All \cup {-1}
      /\ mod.tables \in Seq(Nat)
      /\ mod.elems \in Seq([table : {1}, offset : Nat, funcs : Seq(All)])
      /\ \A f \in mod.imports .. mod.imports + mod.funcs - 1 :
           mod.calls[f] \in Seq(All) /\ mod.indirect[f] \subseteq DOMAIN mod.tables
  BY CodegenAssumption DEF ModuleOK, All
<1>2. ASSUME NEW i \in DOMAIN mod.elems
      PROVE  SegmentOK(mod.elems[i])
  <2>1. mod.elems[i] \in [table : {1}, offset : Nat, funcs : Seq(All)]
    BY <1>0, <1>1
  <2>2. mod.elems[i].table = 1 /\ mod.elems[i].offset \in Nat /\ mod.elems[i].funcs \in Seq(All)
    BY <2>1
  <2> QED  BY <1>0, <2>2 DEF SegmentOK
<1>3. IsSeq(Start) /\ ToSet(Start) \subseteq All
  <2>1. CASE mod.start >= 0
    BY <1>1, <2>1, OneItem DEF Start
  <2>2. CASE ~(mod.start >= 0)
    BY <2>2, EmptyList DEF Start
  <2> QED  BY <2>1, <2>2
<1>4. ASSUME NEW f \in All, ~IsImport(f)
      PROVE  /\ IsSeq(mod.calls[f]) /\ ToSet(mod.calls[f]) \subseteq All
             /\ mod.indirect[f] \subseteq DOMAIN mod.tables
  <2>1. f \in mod.imports .. mod.imports + mod.funcs - 1
    BY <1>1, <1>4 DEF All, IsImport
  <2> QED  BY <1>0, <1>1, <2>1
<1> QED  BY <1>0, <1>1, <1>2, <1>3, <1>4

(* Preparing a function once is preparing it for good. *)
LEMMA PrepareFacts ==
  ASSUME NEW c, CtxOK(c), NEW f \in All
  PROVE  LET d == Prepare(c, f)
         IN  /\ CtxOK(d)
             /\ DOMAIN d.body = DOMAIN c.body \cup {f}
             /\ \A g \in DOMAIN c.body : d.body[g] = c.body[g]
             /\ d.thunk = c.thunk /\ d.used = c.used
             /\ ToSet(c.queue) \subseteq ToSet(d.queue)
             /\ f \in DOMAIN c.body \/ IsImport(f) \/ f \in ToSet(d.queue)
<1> DEFINE d == Prepare(c, f)
<1>1. CASE f \in DOMAIN c.body
  BY <1>1 DEF Prepare
<1>2. CASE f \notin DOMAIN c.body /\ IsImport(f)
  <2>1. d = [c EXCEPT !.body = Put(c.body, f, 0)]
    BY <1>2 DEF Prepare
  <2>2. /\ d = [ids |-> c.ids, body |-> Put(c.body, f, 0), thunk |-> c.thunk,
                queue |-> c.queue, used |-> c.used]
    BY <2>1 DEF CtxOK
  <2>3. /\ DOMAIN Put(c.body, f, 0) = DOMAIN c.body \cup {f}
        /\ Put(c.body, f, 0)[f] = 0
        /\ \A g \in DOMAIN c.body : Put(c.body, f, 0)[g] = c.body[g]
    BY <1>2 DEF Put
  <2>4. /\ d.ids = c.ids /\ d.body = Put(c.body, f, 0) /\ d.thunk = c.thunk
        /\ d.queue = c.queue /\ d.used = c.used
        /\ d = [ids |-> d.ids, body |-> d.body, thunk |-> d.thunk, queue |-> d.queue, used |-> d.used]
    BY <2>2
  <2> HIDE DEF d
  <2>5. CtxOK(d)
    BY <1>2, <2>3, <2>4 DEF CtxOK
  <2> QED  BY <1>2, <2>3, <2>4, <2>5 DEF d
<1>3. CASE f \notin DOMAIN c.body /\ ~IsImport(f)
  <2> DEFINE e == [kind |-> "body", of |-> f]
             n == Len(c.ids) + 1
  <2>1. d = [[c EXCEPT !.ids = Append(c.ids, e)] EXCEPT !.body = Put(c.body, f, n), !.queue = Append(c.queue, f)]
    BY <1>3 DEF Prepare, Create, CtxOK
  <2>2. /\ d = [ids |-> Append(c.ids, e), body |-> Put(c.body, f, n), thunk |-> c.thunk,
                queue |-> Append(c.queue, f), used |-> c.used]
    BY <2>1 DEF CtxOK
  <2>3. /\ DOMAIN Put(c.body, f, n) = DOMAIN c.body \cup {f}
        /\ Put(c.body, f, n)[f] = n
        /\ \A g \in DOMAIN c.body : Put(c.body, f, n)[g] = c.body[g]
    BY <1>3 DEF Put
  <2>4. /\ d.ids = Append(c.ids, e) /\ d.body = Put(c.body, f, n) /\ d.thunk = c.thunk
        /\ d.queue = Append(c.queue, f) /\ d.used = c.used
        /\ d = [ids |-> d.ids, body |-> d.body, thunk |-> d.thunk, queue |-> d.queue, used |-> d.used]
    BY <2>2
  <2>5. /\ IsSeq(d.ids) /\ n \in DOMAIN d.ids /\ d.ids[n] = e
        /\ \A i \in DOMAIN c.ids : i \in DOMAIN d.ids /\ d.ids[i] = c.ids[i]
    <3>1. /\ IsSeq(Append(c.ids, e)) /\ Len(c.ids) \in Nat /\ DOMAIN c.ids = 1 .. Len(c.ids)
          /\ DOMAIN Append(c.ids, e) = 1 .. n
          /\ \A i \in 1 .. Len(c.ids) : Append(c.ids, e)[i] = c.ids[i]
          /\ Append(c.ids, e)[n] = e
      BY AppendFacts DEF CtxOK
    <3> QED  BY <2>4, <3>1
  <2>6. IsSeq(d.queue) /\ ToSet(d.queue) = ToSet(c.queue) \cup {f}
    BY <2>4, AppendedFacts DEF CtxOK
  <2>7. e = [kind |-> "body", of |-> f]
    OBVIOUS
  <2> HIDE DEF d, n, e
  <2>8. ASSUME NEW g \in DOMAIN d.body
        PROVE  IF IsImport(g)
               THEN d.body[g] = 0
               ELSE d.body[g] \in DOMAIN d.ids /\ d.ids[d.body[g]] = [kind |-> "body", of |-> g]
    <3>1. CASE g = f
      BY <1>3, <2>3, <2>4, <2>5, <2>7, <3>1
    <3>2. CASE g \in DOMAIN c.body
      BY <2>3, <2>4, <2>5, <3>2 DEF CtxOK
    <3> QED  BY <2>3, <2>4, <3>1, <3>2
  <2>9. ASSUME NEW g \in DOMAIN d.thunk
        PROVE  d.thunk[g] \in DOMAIN d.ids /\ d.ids[d.thunk[g]] = [kind |-> "thunk", of |-> g]
    BY <2>4, <2>5 DEF CtxOK
  <2>10. CtxOK(d)
    BY <1>3, <2>3, <2>4, <2>5, <2>6, <2>8, <2>9 DEF CtxOK
  <2> QED  BY <2>3, <2>4, <2>6, <2>10 DEF d
<1> QED  BY <1>1, <1>2, <1>3

(* A new thunk takes the place of the old one. *)
LEMMA MakeThunkFacts ==
  ASSUME NEW c, CtxOK(c), NEW f \in DOMAIN c.body
  PROVE  LET d == MakeThunk(c, f)
         IN  /\ CtxOK(d)
             /\ d.body = c.body /\ d.queue = c.queue /\ d.used = c.used
             /\ DOMAIN d.thunk = DOMAIN c.thunk \cup {f}
<1> DEFINE d == MakeThunk(c, f)
           e == [kind |-> "thunk", of |-> f]
           n == Len(c.ids) + 1
<1>1. d = [[c EXCEPT !.ids = Append(c.ids, e)] EXCEPT !.thunk = Put(c.thunk, f, n)]
  BY DEF MakeThunk, Create, CtxOK
<1>2. d = [ids |-> Append(c.ids, e), body |-> c.body, thunk |-> Put(c.thunk, f, n),
           queue |-> c.queue, used |-> c.used]
  BY <1>1 DEF CtxOK
<1>3. /\ DOMAIN Put(c.thunk, f, n) = DOMAIN c.thunk \cup {f}
      /\ Put(c.thunk, f, n)[f] = n
      /\ \A g \in DOMAIN c.thunk : g # f => Put(c.thunk, f, n)[g] = c.thunk[g]
  BY DEF Put
<1>4. /\ d.ids = Append(c.ids, e) /\ d.body = c.body /\ d.thunk = Put(c.thunk, f, n)
      /\ d.queue = c.queue /\ d.used = c.used
      /\ d = [ids |-> d.ids, body |-> d.body, thunk |-> d.thunk, queue |-> d.queue, used |-> d.used]
  BY <1>2
<1>5. /\ IsSeq(d.ids) /\ n \in DOMAIN d.ids /\ d.ids[n] = e
      /\ \A i \in DOMAIN c.ids : i \in DOMAIN d.ids /\ d.ids[i] = c.ids[i]
  <2>1. /\ IsSeq(Append(c.ids, e)) /\ Len(c.ids) \in Nat /\ DOMAIN c.ids = 1 .. Len(c.ids)
        /\ DOMAIN Append(c.ids, e) = 1 .. n
        /\ \A i \in 1 .. Len(c.ids) : Append(c.ids, e)[i] = c.ids[i]
        /\ Append(c.ids, e)[n] = e
    BY AppendFacts DEF CtxOK
  <2> QED  BY <1>4, <2>1
<1>6. e = [kind |-> "thunk", of |-> f]
  OBVIOUS
<1> HIDE DEF d, n, e
<1>7. ASSUME NEW g \in DOMAIN d.body
      PROVE  IF IsImport(g)
             THEN d.body[g] = 0
             ELSE d.body[g] \in DOMAIN d.ids /\ d.ids[d.body[g]] = [kind |-> "body", of |-> g]
  BY <1>4, <1>5 DEF CtxOK
<1>8. ASSUME NEW g \in DOMAIN d.thunk
      PROVE  d.thunk[g] \in DOMAIN d.ids /\ d.ids[d.thunk[g]] = [kind |-> "thunk", of |-> g]
  <2>1. CASE g = f
    BY <1>3, <1>4, <1>5, <1>6, <2>1
  <2>2. CASE g # f
    BY <1>3, <1>4, <1>5, <2>2 DEF CtxOK
  <2> QED  BY <2>1, <2>2
<1>9. CtxOK(d)
  BY <1>3, <1>4, <1>5, <1>7, <1>8 DEF CtxOK
<1> QED  BY <1>3, <1>4, <1>9 DEF d

(* Every id in play was created for a function, and owns its code. *)
LEMMA CurrentFacts ==
  ASSUME CtxOK(ctx), NEW id \in Current
  PROVE  /\ id \in DOMAIN ctx.ids /\ id # 0 /\ Owned(id)
         /\ ctx.ids[id].of \in DOMAIN ctx.body
         /\ ctx.ids[id].kind # "thunk" => ~IsImport(ctx.ids[id].of)
<1>1. \A i \in DOMAIN ctx.ids : i # 0
  BY ListFacts DEF CtxOK
<1>2. CASE \E f \in DOMAIN ctx.body : ~IsImport(f) /\ id = ctx.body[f]
  <2>1. PICK f \in DOMAIN ctx.body : ~IsImport(f) /\ id = ctx.body[f]
    BY <1>2
  <2>2. id \in DOMAIN ctx.ids /\ ctx.ids[id] = [kind |-> "body", of |-> f]
    BY <2>1 DEF CtxOK
  <2>3. ctx.ids[id].kind = "body" /\ ctx.ids[id].of = f
    BY <2>2
  <2> QED  BY <1>1, <2>1, <2>2, <2>3 DEF Owned
<1>3. CASE \E f \in DOMAIN ctx.thunk : id = ctx.thunk[f]
  <2>1. PICK f \in DOMAIN ctx.thunk : id = ctx.thunk[f]
    BY <1>3
  <2>2. id \in DOMAIN ctx.ids /\ ctx.ids[id] = [kind |-> "thunk", of |-> f] /\ f \in DOMAIN ctx.body
    BY <2>1 DEF CtxOK
  <2>3. ctx.ids[id].kind = "thunk" /\ ctx.ids[id].of = f
    BY <2>2
  <2> QED  BY <1>1, <2>1, <2>2, <2>3 DEF Owned
<1> QED  BY <1>2, <1>3 DEF Current

-----------------------------------------------------------------------------
(* Calls that are made and that return.                                    *)

LEMMA NoCalls ==
  ASSUME pending = <<>>
  PROVE  \A do, x : ~Called(do, x)
BY EmptyList DEF Called

LEMMA HeadCall ==
  ASSUME CallsInv, NEW do, Calling(do)
  PROVE  /\ [do |-> do, arg |-> Arg] \in ToSet(pending)
         /\ IsSeq(Tail(pending)) /\ ToSet(Tail(pending)) \subseteq ToSet(pending)
         /\ \A d, x : Called(d, x) =>
              (d = do /\ x = Arg) \/ [do |-> d, arg |-> x] \in ToSet(Tail(pending))
<1>1. /\ IsSeq(Tail(pending)) /\ ToSet(pending) = {Head(pending)} \cup ToSet(Tail(pending))
  BY TailFacts DEF Calling, CallsInv
<1>2. Head(pending) = [do |-> do, arg |-> Arg]
  <2>1. Head(pending) = [do |-> Head(pending).do, arg |-> Head(pending).arg]
    BY <1>1 DEF CallsInv
  <2>2. Head(pending).do = do
    BY DEF Calling
  <2> QED  BY <2>1, <2>2 DEF Arg
<1>3. ASSUME NEW d, NEW x, Called(d, x)
      PROVE  (d = do /\ x = Arg) \/ [do |-> d, arg |-> x] \in ToSet(Tail(pending))
  <2>1. CASE [do |-> d, arg |-> x] = [do |-> do, arg |-> Arg]
    BY <2>1
  <2>2. CASE [do |-> d, arg |-> x] \in ToSet(Tail(pending))
    BY <2>2
  <2> QED  BY <1>1, <1>2, <1>3, <2>1, <2>2 DEF Called
<1> QED  BY <1>1, <1>2, <1>3

-----------------------------------------------------------------------------
(* The steps of jit_emit_spidir.                                           *)

(* Nothing has been emitted yet. *)
LEMMA IRStep ==
  ASSUME RunInv, phase \in IRPhases, UNCHANGED <<mod, phase, cg, image, why>>,
         CtxOK(ctx)', CallsInv', PreparedInv',
         DOMAIN ctx.body \subseteq DOMAIN ctx'.body,
         \A f \in DOMAIN ctx'.body :
           \/ IsImport(f) \/ f \in ToSet(ctx'.queue)
           \/ f \in DOMAIN ctx.body /\ f \notin ToSet(ctx.queue)
           \/ \A g \in ToSet(mod.calls[f]) : Called("prepare", g)',
         \A g : Called("prepare", g) => g \in DOMAIN ctx'.body \/ Called("prepare", g)'
  PROVE  RunInv'
<1>1. BuildInv'
  <2>1. ASSUME NEW f \in DOMAIN ctx'.body
        PROVE  IsImport(f)' \/ f \in ToSet(ctx'.queue)
                 \/ \A g \in ToSet(mod'.calls[f]) : g \in DOMAIN ctx'.body \/ Called("prepare", g)'
    <3>1. CASE f \in DOMAIN ctx.body /\ f \notin ToSet(ctx.queue)
      <4>1. IsImport(f) \/ \A g \in ToSet(mod.calls[f]) : g \in DOMAIN ctx.body \/ Called("prepare", g)
        BY <3>1 DEF RunInv, BuildInv
      <4> QED  BY <4>1 DEF IsImport
    <3> QED  BY <3>1 DEF IsImport
  <2> QED  BY <2>1 DEF BuildInv
<1>2. cg.funcs = <<>> /\ DOMAIN cg.funcs = {} /\ DOMAIN cg.idx = {} /\ cg.queue = <<>>
  <2>1. cg.funcs = <<>> /\ cg.queue = <<>>
    BY DEF RunInv, EmitInv, IRPhases, EmitPhases
  <2> QED  BY <2>1, EmptyList DEF RunInv, EmitInv
<1>3. EmitInv'
  BY <1>2, EmptyList DEF EmitInv
<1>4. RootsInv' /\ BlobInv'
  BY <1>2 DEF RootsInv, BlobInv
<1>5. TargetsInv' /\ PublishedInv'
  BY DEF TargetsInv, PublishedInv, IRPhases, LinkPhases
<1> QED  BY <1>1, <1>3, <1>4, <1>5 DEF RunInv


LEMMA LoopItem ==
  ASSUME LInv, NEW phases, InList(phases), IsSeq(Work)
  PROVE  /\ phase \in phases /\ pending = <<>>
         /\ at \in DOMAIN Work /\ at \in Nat \ {0} /\ Item = Work[at]
         /\ \A do, x : ~Called(do, x)
BY ListFacts, NoCalls DEF InList, LInv, PhaseInv, Item

(* An index that the loop has still to reach, or the one it is at. *)
LEMMA NextIndex ==
  ASSUME NEW s, IsSeq(s), NEW i \in DOMAIN s, NEW n \in Nat, n <= i
  PROVE  i = n \/ n + 1 <= i
BY ListFacts

LEMMA PrepareRootStep ==
  ASSUME LInv, RunInv, PrepareRoot
  PROVE  RunInv'
<1> USE DEF RunInv
<1>1. /\ ctx' = Prepare(ctx, Item) /\ at' = at + 1 /\ phase \in {"exports", "start"}
      /\ UNCHANGED <<mod, phase, pending, cg, image, why>>
  BY DEF PrepareRoot, Step, InList
<1>2. mod \in Modules
  BY DEF LInv, PhaseInv
<1>3. /\ IsSeq(Work) /\ Work = (IF phase = "exports" THEN mod.exports ELSE Start)
      /\ ToSet(Work) \subseteq All
  BY <1>1, <1>2, ModuleFacts DEF Work
<1>4. /\ pending = <<>> /\ at \in DOMAIN Work /\ at \in Nat \ {0} /\ Item = Work[at]
      /\ \A do, x : ~Called(do, x)
  BY <1>3, LoopItem DEF PrepareRoot
<1>5. Item \in All
  BY <1>3, <1>4 DEF ToSet
<1>6. /\ CtxOK(ctx')
      /\ DOMAIN ctx'.body = DOMAIN ctx.body \cup {Item}
      /\ ctx'.thunk = ctx.thunk
      /\ ToSet(ctx.queue) \subseteq ToSet(ctx'.queue)
      /\ Item \in DOMAIN ctx.body \/ IsImport(Item) \/ Item \in ToSet(ctx'.queue)
  BY <1>1, <1>5, PrepareFacts
<1>7. CtxOK(ctx)'
  BY <1>1, <1>6 DEF CtxOK, All, IsImport
<1>8. CallsInv'
  BY <1>1, <1>4, EmptyList DEF CallsInv
<1>9. PreparedInv'
  <2>1. ASSUME NEW i \in DOMAIN mod.exports
        PROVE  mod.exports[i] \in DOMAIN ctx'.body \/ (phase = "exports" /\ at + 1 <= i)
    <3>1. mod.exports[i] \in DOMAIN ctx.body \/ (phase = "exports" /\ at <= i)
      BY DEF PreparedInv
    <3>2. CASE phase = "exports" /\ at <= i
      BY <1>2, <1>3, <1>4, <1>6, <3>2, NextIndex, ModuleFacts
    <3> QED  BY <1>6, <3>1, <3>2
  <2>2. ASSUME NEW i \in DOMAIN Start
        PROVE  \/ Start[i] \in DOMAIN ctx'.body
               \/ phase \in {"exports", "elems"}
               \/ phase = "start" /\ at + 1 <= i
    <3>1. \/ Start[i] \in DOMAIN ctx.body
          \/ phase \in {"exports", "elems"}
          \/ phase = "start" /\ at <= i
      BY DEF PreparedInv
    <3>2. CASE phase = "start" /\ at <= i
      BY <1>2, <1>3, <1>4, <1>6, <3>2, NextIndex, ModuleFacts
    <3> QED  BY <1>6, <3>1, <3>2
  <2>3. Start' = Start
    BY <1>1 DEF Start
  <2>4. ASSUME NEW i \in DOMAIN mod.elems, NEW f \in ToSet(mod.elems[i].funcs)
        PROVE  f \in DOMAIN ctx.thunk \/ phase = "exports"
    BY <1>1, <1>4 DEF PreparedInv
  <2> QED  BY <1>1, <1>6, <2>1, <2>2, <2>3, <2>4 DEF PreparedInv
<1>10. \A f \in DOMAIN ctx'.body :
         IsImport(f) \/ f \in ToSet(ctx'.queue) \/ (f \in DOMAIN ctx.body /\ f \notin ToSet(ctx.queue))
  BY <1>6
<1> QED  BY <1>1, <1>4, <1>6, <1>7, <1>8, <1>9, <1>10, IRStep DEF IRPhases

LEMMA PrepareSegmentStep ==
  ASSUME LInv, RunInv, PrepareSegment
  PROVE  RunInv'
<1> USE DEF RunInv
<1>1. /\ phase = "elems" /\ at' = at + 1 /\ pending' = Calls("thunk", Item.funcs)
      /\ UNCHANGED <<mod, phase, ctx, cg, image, why>>
  BY DEF PrepareSegment, Step, InList
<1>2. mod \in Modules
  BY DEF LInv, PhaseInv
<1>3. IsSeq(Work) /\ Work = mod.elems
  BY <1>1, <1>2, ModuleFacts DEF Work
<1>4. /\ at \in DOMAIN mod.elems /\ at \in Nat \ {0} /\ Item = mod.elems[at]
      /\ \A do, x : ~Called(do, x)
  BY <1>3, LoopItem DEF PrepareSegment
<1>5. IsSeq(Item.funcs) /\ ToSet(Item.funcs) \subseteq All
  BY <1>2, <1>4, ModuleFacts DEF SegmentOK
<1>6. IsSeq(pending') /\ ToSet(pending') = {[do |-> "thunk", arg |-> x] : x \in ToSet(Item.funcs)}
  BY <1>1, <1>5, CallsFacts
<1>7. CtxOK(ctx)'
  BY <1>1 DEF CtxOK, All, IsImport
<1>8. CallsInv'
  <2>1. ASSUME NEW c \in ToSet(pending')
        PROVE  c = [do |-> c.do, arg |-> c.arg] /\ c.do = "thunk" /\ c.arg \in All
    BY <1>5, <1>6
  <2> QED  BY <1>1, <1>6, <2>1 DEF CallsInv, All
<1>9. PreparedInv'
  <2>1. ASSUME NEW i \in DOMAIN mod.elems, NEW f \in ToSet(mod.elems[i].funcs)
        PROVE  f \in DOMAIN ctx.thunk \/ at + 1 <= i \/ Called("thunk", f)'
    <3>1. f \in DOMAIN ctx.thunk \/ at <= i
      BY <1>1, <1>4 DEF PreparedInv
    <3>2. CASE at <= i
      <4>1. i = at \/ at + 1 <= i
        BY <1>3, <1>4, <3>2, NextIndex
      <4>2. CASE i = at
        BY <1>4, <1>6, <4>2 DEF Called
      <4> QED  BY <4>1, <4>2
    <3> QED  BY <3>1, <3>2
  <2>2. /\ \A i \in DOMAIN mod.exports : mod.exports[i] \in DOMAIN ctx.body
    BY <1>1 DEF PreparedInv
  <2> QED  BY <1>1, <2>1, <2>2 DEF PreparedInv, Start
<1> QED  BY <1>1, <1>4, <1>7, <1>8, <1>9, IRStep DEF IRPhases

LEMMA PrepareElemStep ==
  ASSUME LInv, RunInv, PrepareElem
  PROVE  RunInv'
<1> USE DEF RunInv
<1> DEFINE c == Prepare(ctx, Arg)
<1>1. /\ Calling("thunk") /\ ctx' = MakeThunk(c, Arg) /\ pending' = Tail(pending)
      /\ UNCHANGED <<mod, phase, at, cg, image, why>>
  BY DEF PrepareElem, Return
<1>2. /\ [do |-> "thunk", arg |-> Arg] \in ToSet(pending)
      /\ IsSeq(pending') /\ ToSet(pending') \subseteq ToSet(pending)
      /\ \A d, x : Called(d, x) => (d = "thunk" /\ x = Arg) \/ Called(d, x)'
  BY <1>1, HeadCall DEF Called
<1>3. phase = "elems" /\ Arg \in All
  <2>1. ASSUME NEW e \in ToSet(pending), e.do = "thunk"
        PROVE  phase = "elems" /\ e.arg \in All
    BY <2>1 DEF CallsInv
  <2> QED  BY <1>2, <2>1
<1>4. /\ CtxOK(c) /\ DOMAIN c.body = DOMAIN ctx.body \cup {Arg} /\ c.thunk = ctx.thunk
      /\ ToSet(ctx.queue) \subseteq ToSet(c.queue)
      /\ Arg \in DOMAIN ctx.body \/ IsImport(Arg) \/ Arg \in ToSet(c.queue)
  BY <1>3, PrepareFacts
<1> HIDE DEF c
<1>5. /\ CtxOK(ctx') /\ DOMAIN ctx'.body = DOMAIN ctx.body \cup {Arg}
      /\ ctx'.queue = c.queue /\ DOMAIN ctx'.thunk = DOMAIN ctx.thunk \cup {Arg}
  <2>1. Arg \in DOMAIN c.body
    BY <1>4
  <2> QED  BY <1>1, <1>4, <2>1, MakeThunkFacts
<1>6. CtxOK(ctx)'
  BY <1>1, <1>5 DEF CtxOK, All, IsImport
<1>7. CallsInv'
  <2>1. ASSUME NEW e \in ToSet(pending')
        PROVE  e = [do |-> e.do, arg |-> e.arg] /\ e.do = "thunk" /\ e.arg \in All
    BY <1>2, <1>3 DEF CallsInv, EmitPhases
  <2> QED  BY <1>1, <1>2, <1>3, <2>1 DEF CallsInv, All
<1>8. PreparedInv'
  BY <1>1, <1>2, <1>3, <1>5 DEF PreparedInv, Start
<1>9. \A f \in DOMAIN ctx'.body :
        IsImport(f) \/ f \in ToSet(ctx'.queue) \/ (f \in DOMAIN ctx.body /\ f \notin ToSet(ctx.queue))
  BY <1>4, <1>5
<1> QED  BY <1>1, <1>2, <1>3, <1>5, <1>6, <1>7, <1>8, <1>9, IRStep DEF IRPhases

(* jit_function is called of an internal function that was prepared. *)
LEMMA BuildNextStep ==
  ASSUME LInv, RunInv, BuildNext
  PROVE  RunInv'
<1> USE DEF RunInv
<1> DEFINE f == Last(ctx.queue)
<1>1. /\ phase = "build" /\ pending = <<>> /\ ctx.queue # <<>>
      /\ ctx' = [ctx EXCEPT !.queue = Front(ctx.queue), !.used = ctx.used \cup mod.indirect[f]]
      /\ pending' = Calls("prepare", mod.calls[f])
      /\ UNCHANGED <<mod, phase, at, cg, image, why>>
  BY DEF BuildNext
<1>2. mod \in Modules
  BY DEF LInv, PhaseInv
<1>3. IsSeq(Front(ctx.queue)) /\ ToSet(ctx.queue) = {f} \cup ToSet(Front(ctx.queue))
  BY <1>1, FrontFacts DEF CtxOK
<1>4. f \in DOMAIN ctx.body /\ ~IsImport(f) /\ f \in All
  BY <1>3 DEF CtxOK
<1>5. /\ IsSeq(mod.calls[f]) /\ ToSet(mod.calls[f]) \subseteq All
      /\ mod.indirect[f] \subseteq DOMAIN mod.tables
  BY <1>2, <1>4, ModuleFacts
<1> HIDE DEF f
<1>6. IsSeq(pending') /\ ToSet(pending') = {[do |-> "prepare", arg |-> x] : x \in ToSet(mod.calls[f])}
  BY <1>1, <1>5, CallsFacts
<1>7. ctx' = [ids |-> ctx.ids, body |-> ctx.body, thunk |-> ctx.thunk,
              queue |-> Front(ctx.queue), used |-> ctx.used \cup mod.indirect[f]]
  BY <1>1 DEF CtxOK
<1>8. /\ ctx'.ids = ctx.ids /\ ctx'.body = ctx.body /\ ctx'.thunk = ctx.thunk
      /\ ctx'.queue = Front(ctx.queue) /\ ctx'.used = ctx.used \cup mod.indirect[f]
      /\ ctx' = [ids |-> ctx'.ids, body |-> ctx'.body, thunk |-> ctx'.thunk,
                 queue |-> ctx'.queue, used |-> ctx'.used]
  BY <1>7
<1>9. CtxOK(ctx)'
  BY <1>1, <1>3, <1>5, <1>8 DEF CtxOK, All, IsImport
<1>10. CallsInv'
  <2>1. ASSUME NEW e \in ToSet(pending')
        PROVE  e = [do |-> e.do, arg |-> e.arg] /\ e.do = "prepare" /\ e.arg \in All
    BY <1>5, <1>6
  <2> QED  BY <1>1, <1>6, <2>1 DEF CallsInv, All
<1>11. PreparedInv'
  BY <1>1, <1>8 DEF PreparedInv, Start
<1>12. ASSUME NEW g \in DOMAIN ctx'.body
       PROVE  \/ g \in ToSet(ctx'.queue)
              \/ g \in DOMAIN ctx.body /\ g \notin ToSet(ctx.queue)
              \/ \A h \in ToSet(mod.calls[g]) : Called("prepare", h)'
  <2>1. CASE g = f
    BY <1>6, <2>1 DEF Called
  <2>2. CASE g # f
    BY <1>3, <1>8, <2>2
  <2> QED  BY <2>1, <2>2
<1>13. \A do, x : ~Called(do, x)
  BY <1>1, NoCalls
<1> QED  BY <1>1, <1>8, <1>9, <1>10, <1>11, <1>12, <1>13, IRStep DEF IRPhases

LEMMA BuildCallStep ==
  ASSUME LInv, RunInv, BuildCall
  PROVE  RunInv'
<1> USE DEF RunInv
<1>1. /\ Calling("prepare") /\ ctx' = Prepare(ctx, Arg) /\ pending' = Tail(pending)
      /\ UNCHANGED <<mod, phase, at, cg, image, why>>
  BY DEF BuildCall, Return
<1>2. /\ [do |-> "prepare", arg |-> Arg] \in ToSet(pending)
      /\ IsSeq(pending') /\ ToSet(pending') \subseteq ToSet(pending)
      /\ \A d, x : Called(d, x) => (d = "prepare" /\ x = Arg) \/ Called(d, x)'
  BY <1>1, HeadCall DEF Called
<1>3. phase = "build" /\ Arg \in All
  <2>1. ASSUME NEW e \in ToSet(pending), e.do = "prepare"
        PROVE  phase = "build" /\ e.arg \in All
    BY <2>1 DEF CallsInv
  <2> QED  BY <1>2, <2>1
<1>4. /\ CtxOK(ctx') /\ DOMAIN ctx'.body = DOMAIN ctx.body \cup {Arg} /\ ctx'.thunk = ctx.thunk
      /\ ToSet(ctx.queue) \subseteq ToSet(ctx'.queue)
      /\ Arg \in DOMAIN ctx.body \/ IsImport(Arg) \/ Arg \in ToSet(ctx'.queue)
  BY <1>1, <1>3, PrepareFacts
<1>5. CtxOK(ctx)'
  BY <1>1, <1>4 DEF CtxOK, All, IsImport
<1>6. CallsInv'
  <2>1. ASSUME NEW e \in ToSet(pending')
        PROVE  e = [do |-> e.do, arg |-> e.arg] /\ e.do = "prepare" /\ e.arg \in All
    BY <1>2, <1>3 DEF CallsInv, EmitPhases
  <2> QED  BY <1>1, <1>2, <1>3, <2>1 DEF CallsInv, All
<1>7. PreparedInv'
  BY <1>1, <1>3, <1>4 DEF PreparedInv, Start
<1>8. \A f \in DOMAIN ctx'.body :
        IsImport(f) \/ f \in ToSet(ctx'.queue) \/ (f \in DOMAIN ctx.body /\ f \notin ToSet(ctx.queue))
  BY <1>4
<1> QED  BY <1>1, <1>2, <1>3, <1>4, <1>5, <1>6, <1>7, <1>8, IRStep DEF IRPhases

-----------------------------------------------------------------------------
(* The steps of jit_codegen_functions.                                     *)

(* jit_context_t is complete: every body has its callees prepared. *)
LEMMA Complete ==
  ASSUME RunInv, phase \notin IRPhases
  PROVE  /\ ctx.queue = <<>>
         /\ \A f \in DOMAIN ctx.body : IsImport(f) \/ ToSet(mod.calls[f]) \subseteq DOMAIN ctx.body
         /\ \A x : ~Called("prepare", x) /\ ~Called("thunk", x)
<1>1. \A e \in ToSet(pending) : e.do # "prepare" /\ e.do # "thunk"
  BY DEF RunInv, CallsInv, IRPhases
<1>2. \A x : ~Called("prepare", x) /\ ~Called("thunk", x)
  BY <1>1 DEF Called
<1>3. ctx.queue = <<>> /\ ToSet(ctx.queue) = {}
  BY EmptyList DEF RunInv, BuildInv
<1> QED  BY <1>2, <1>3 DEF RunInv, BuildInv

(* What these steps leave as it is. *)
LEMMA EmissionStep ==
  ASSUME RunInv, phase \in EmitPhases \cup {"cg_imports"}, UNCHANGED <<mod, phase, ctx, image, why>>,
         CallsInv', EmitInv', RootsInv', BlobInv'
  PROVE  RunInv'
<1>1. phase \notin IRPhases \cup LinkPhases \cup {"cg_tables", "alloc"}
  BY DEF EmitPhases, IRPhases, LinkPhases
<1>2. CtxOK(ctx)'
  BY DEF RunInv, CtxOK, All, IsImport
<1>3. BuildInv'
  BY <1>1, Complete DEF BuildInv, IsImport, RunInv
<1>4. PreparedInv'
  BY <1>1 DEF RunInv, PreparedInv, Start, IRPhases
<1>5. TargetsInv' /\ PublishedInv'
  BY <1>1 DEF TargetsInv, PublishedInv
<1> QED  BY <1>2, <1>3, <1>4, <1>5 DEF RunInv

(* No step of these loses an id that is to be emitted. *)
LEMMA QueueStep ==
  ASSUME RunInv, phase \in EmitPhases \cup {"cg_imports"}, UNCHANGED <<mod, phase, ctx>>,
         cg'.funcs = cg.funcs, cg'.idx = cg.idx, IsSeq(cg'.queue), ToSet(cg'.queue) \subseteq Current,
         phase = "cg_imports" => cg'.queue = cg.queue,
         \A x \in ToSet(cg.queue) : x \in ToSet(cg'.queue) \/ Called("emit", x)',
         \A x : Called("emit", x) => x \in DOMAIN cg.idx \/ Called("emit", x)',
         \A x : Called("push", x) =>
           x \in DOMAIN cg.idx \/ x \in ToSet(cg'.queue) \/ Called("push", x)'
  PROVE  EmitInv' /\ BlobInv' /\ \A f : Done(f) => Done(f)'
<1>1. phase \notin IRPhases \cup LinkPhases
  BY DEF EmitPhases, IRPhases, LinkPhases
<1>2. Current' = Current
  BY DEF Current, IsImport
<1>3. EmitInv'
  BY <1>1, <1>2 DEF RunInv, EmitInv
<1>4. BlobInv'
  BY <1>1 DEF RunInv, BlobInv, LinkPhases
<1>5. ASSUME NEW f, Done(f)
      PROVE  Done(f)'
  BY <1>5 DEF Done, Out, IsImport
<1> QED  BY <1>3, <1>4, <1>5

LEMMA TryRootsStep ==
  ASSUME LInv, RunInv, TryRoots
  PROVE  RunInv'
<1> DEFINE args == IF phase = "cg_elems" THEN Item.funcs ELSE <<Item>>
<1>1. /\ phase \in {"cg_exports", "cg_elems", "cg_start"} /\ at' = at + 1
      /\ pending' = Calls("try", args) /\ UNCHANGED <<mod, phase, ctx, cg, image, why>>
  BY DEF TryRoots, Step, InList
<1>2. mod \in Modules
  BY DEF LInv, PhaseInv
<1>3. /\ IsSeq(Work)
      /\ Work = CASE phase = "cg_exports" -> mod.exports
                  [] phase = "cg_elems" -> mod.elems
                  [] phase = "cg_start" -> Start
  BY <1>1, <1>2, ModuleFacts DEF Work
<1>4. /\ at \in DOMAIN Work /\ at \in Nat \ {0} /\ Item = Work[at]
      /\ \A do, x : ~Called(do, x)
  BY <1>3, LoopItem DEF TryRoots
<1>5. PreparedInv /\ CtxOK(ctx) /\ phase \notin {"exports", "elems", "start"}
  BY <1>1 DEF RunInv
<1>6. IsSeq(args) /\ ToSet(args) \subseteq DOMAIN ctx.body
  <2>1. CASE phase = "cg_elems"
    <3>1. args = mod.elems[at].funcs /\ at \in DOMAIN mod.elems
      BY <1>3, <1>4, <2>1
    <3>2. IsSeq(args)
      BY <1>2, <3>1, ModuleFacts DEF SegmentOK
    <3>3. ToSet(args) \subseteq DOMAIN ctx.thunk
      BY <1>5, <3>1 DEF PreparedInv
    <3> QED  BY <1>5, <3>2, <3>3 DEF CtxOK
  <2>2. CASE phase # "cg_elems"
    <3>1. args = <<Item>> /\ Item \in DOMAIN ctx.body
      BY <1>1, <1>3, <1>4, <1>5, <2>2 DEF PreparedInv
    <3> QED  BY <3>1, OneItem
  <2> QED  BY <2>1, <2>2
<1>7. IsSeq(pending') /\ ToSet(pending') = {[do |-> "try", arg |-> x] : x \in ToSet(args)}
  BY <1>1, <1>6, CallsFacts
<1>8. CallsInv'
  <2>1. ASSUME NEW c \in ToSet(pending')
        PROVE  c = [do |-> c.do, arg |-> c.arg] /\ c.do = "try" /\ c.arg \in DOMAIN ctx.body
    BY <1>6, <1>7
  <2> QED  BY <1>1, <1>7, <2>1 DEF CallsInv
<1>9. EmitInv' /\ BlobInv' /\ \A f : Done(f) => Done(f)'
  <2>1. IsSeq(cg.queue) /\ ToSet(cg.queue) \subseteq Current
    BY DEF RunInv, EmitInv
  <2> QED  BY <1>1, <1>4, <2>1, QueueStep DEF EmitPhases
<1>10. \A x \in ToSet(args) : Called("try", x)'
  BY <1>7 DEF Called
<1>11. RootsInv'
  <2>0. Start' = Start
    BY <1>1 DEF Start
  <2>1. ASSUME NEW i \in DOMAIN mod.exports
        PROVE  Done(mod.exports[i])' \/
                 (phase = "cg_exports" /\ (at + 1 <= i \/ Called("try", mod.exports[i])'))
    <3>1. Done(mod.exports[i]) \/ (phase = "cg_exports" /\ at <= i)
      BY <1>1, <1>4 DEF RunInv, RootsInv, IRPhases
    <3>2. CASE phase = "cg_exports" /\ at <= i
      <4>1. i = at \/ at + 1 <= i
        BY <1>3, <1>4, <3>2, NextIndex
      <4>2. CASE i = at
        <5>1. args = <<mod.exports[i]>>
          BY <1>3, <1>4, <3>2, <4>2
        <5> QED  BY <1>1, <1>10, <3>2, <5>1, OneItem
      <4> QED  BY <3>2, <4>1, <4>2
    <3> QED  BY <1>1, <1>9, <3>1, <3>2
  <2>2. ASSUME NEW i \in DOMAIN mod.elems, NEW f \in ToSet(mod.elems[i].funcs)
        PROVE  \/ Done(f)' \/ phase = "cg_exports"
               \/ phase = "cg_elems" /\ (at + 1 <= i \/ Called("try", f)')
    <3>1. Done(f) \/ phase = "cg_exports" \/ (phase = "cg_elems" /\ at <= i)
      BY <1>1, <1>4 DEF RunInv, RootsInv, IRPhases
    <3>2. CASE phase = "cg_elems" /\ at <= i
      <4>1. i = at \/ at + 1 <= i
        BY <1>3, <1>4, <3>2, NextIndex
      <4>2. CASE i = at
        <5>1. args = mod.elems[i].funcs
          BY <1>3, <1>4, <3>2, <4>2
        <5> QED  BY <1>10, <3>2, <5>1
      <4> QED  BY <3>2, <4>1, <4>2
    <3> QED  BY <1>1, <1>9, <3>1, <3>2
  <2>3. ASSUME NEW i \in DOMAIN Start
        PROVE  \/ Done(Start[i])' \/ phase \in {"cg_exports", "cg_elems"}
               \/ phase = "cg_start" /\ (at + 1 <= i \/ Called("try", Start[i])')
    <3>1. Done(Start[i]) \/ phase \in {"cg_exports", "cg_elems"} \/ (phase = "cg_start" /\ at <= i)
      BY <1>1, <1>4 DEF RunInv, RootsInv, IRPhases
    <3>2. CASE phase = "cg_start" /\ at <= i
      <4>1. i = at \/ at + 1 <= i
        BY <1>3, <1>4, <3>2, NextIndex
      <4>2. CASE i = at
        <5>1. args = <<Start[i]>>
          BY <1>3, <1>4, <3>2, <4>2
        <5> QED  BY <2>0, <1>10, <3>2, <5>1, OneItem
      <4> QED  BY <3>2, <4>1, <4>2
    <3> QED  BY <2>0, <1>9, <3>1, <3>2
  <2> QED  BY <1>1, <2>0, <2>1, <2>2, <2>3 DEF RootsInv
<1> QED  BY <1>1, <1>8, <1>9, <1>11, EmissionStep DEF EmitPhases

(* While no root is being tried, only what is pending matters. *)
LEMMA RootsKept ==
  ASSUME RunInv, UNCHANGED <<mod, phase, at>>,
         \A f : Done(f) => Done(f)',
         \A f : Called("try", f) => Done(f)' \/ Called("try", f)'
  PROVE  RootsInv'
<1>1. Start' = Start
  BY DEF Start
<1> QED  BY <1>1 DEF RunInv, RootsInv

LEMMA TryFunctionStep ==
  ASSUME LInv, RunInv, TryFunction
  PROVE  RunInv'
<1>1. Calling("try") /\ CallsInv /\ CtxOK(ctx)
  BY DEF TryFunction, RunInv
<1>2. /\ [do |-> "try", arg |-> Arg] \in ToSet(pending)
      /\ IsSeq(Tail(pending)) /\ ToSet(Tail(pending)) \subseteq ToSet(pending)
      /\ \A d, x : Called(d, x) => (d = "try" /\ x = Arg) \/ [do |-> d, arg |-> x] \in ToSet(Tail(pending))
  BY <1>1, HeadCall
<1>3. phase \in {"cg_exports", "cg_elems", "cg_start"} /\ Arg \in DOMAIN ctx.body
  <2>1. ASSUME NEW e \in ToSet(pending), e.do = "try"
        PROVE  phase \in {"cg_exports", "cg_elems", "cg_start"} /\ e.arg \in DOMAIN ctx.body
    BY <1>1, <2>1 DEF CallsInv
  <2> QED  BY <1>2, <2>1
<1>4. /\ pending' = Calls("emit", ToTry(Arg)) \o Tail(pending)
      /\ UNCHANGED <<mod, phase, at, ctx, cg, image, why>>
  BY <1>3 DEF TryFunction
<1> DEFINE b == IF ctx.body[Arg] # 0 THEN <<ctx.body[Arg]>> ELSE <<>>
           t == IF Arg \in DOMAIN ctx.thunk THEN <<ctx.thunk[Arg]>> ELSE <<>>
<1>5. /\ IsSeq(b) /\ IsSeq(t) /\ ToSet(b) \subseteq Current /\ ToSet(t) \subseteq Current
      /\ IsImport(Arg) \/ ctx.body[Arg] \in ToSet(b)
      /\ Arg \in DOMAIN ctx.thunk => ctx.thunk[Arg] \in ToSet(t)
  <2>1. ToSet(b) \subseteq Current /\ IsSeq(b) /\ (IsImport(Arg) \/ ctx.body[Arg] \in ToSet(b))
    <3>1. CASE IsImport(Arg)
      BY <1>1, <1>3, <3>1, EmptyList DEF CtxOK
    <3>2. CASE ~IsImport(Arg)
      <4>1. ctx.body[Arg] \in DOMAIN ctx.ids /\ ctx.body[Arg] \in Current
        BY <1>1, <1>3, <3>2 DEF CtxOK, Current
      <4>2. ctx.body[Arg] # 0
        BY <1>1, <4>1, CurrentFacts
      <4> QED  BY <4>1, <4>2, OneItem
    <3> QED  BY <3>1, <3>2
  <2>2. IsSeq(t) /\ ToSet(t) \subseteq Current /\ (Arg \in DOMAIN ctx.thunk => ctx.thunk[Arg] \in ToSet(t))
    BY EmptyList, OneItem DEF Current
  <2> QED  BY <2>1, <2>2
<1>6. IsSeq(ToTry(Arg)) /\ ToSet(ToTry(Arg)) = ToSet(b) \cup ToSet(t)
  <2>1. ToTry(Arg) = b \o t
    BY DEF ToTry
  <2> HIDE DEF b, t
  <2> QED  BY <1>5, <2>1, ConcatFacts
<1> HIDE DEF b, t
<1>7. /\ IsSeq(Calls("emit", ToTry(Arg)))
      /\ ToSet(Calls("emit", ToTry(Arg))) = {[do |-> "emit", arg |-> x] : x \in ToSet(ToTry(Arg))}
  BY <1>6, CallsFacts
<1>8. /\ IsSeq(pending')
      /\ ToSet(pending') = {[do |-> "emit", arg |-> x] : x \in ToSet(ToTry(Arg))} \cup ToSet(Tail(pending))
  BY <1>2, <1>4, <1>7, ConcatFacts
<1>9. CallsInv'
  <2>1. Current' = Current
    BY <1>4 DEF Current, IsImport
  <2>2. ASSUME NEW c, c \in {[do |-> "emit", arg |-> x] : x \in ToSet(ToTry(Arg))}
        PROVE  c = [do |-> c.do, arg |-> c.arg] /\ c.do = "emit" /\ c.arg \in Current
    BY <1>5, <1>6, <2>2
  <2> QED  BY <1>1, <1>2, <1>3, <1>4, <1>8, <2>1, <2>2 DEF CallsInv, EmitPhases, All
<1>10. EmitInv' /\ BlobInv' /\ \A f : Done(f) => Done(f)'
  <2>1. IsSeq(cg.queue) /\ ToSet(cg.queue) \subseteq Current
    BY DEF RunInv, EmitInv
  <2>2. \A d, x : d # "try" /\ Called(d, x) => Called(d, x)'
    BY <1>2, <1>8 DEF Called
  <2> QED  BY <1>3, <1>4, <2>1, <2>2, QueueStep DEF EmitPhases
<1>11. ASSUME NEW f, Called("try", f)
       PROVE  Done(f)' \/ Called("try", f)'
  <2>1. CASE f = Arg
    <3>1. \A x \in ToSet(ToTry(Arg)) : Called("emit", x)'
      BY <1>8 DEF Called
    <3> QED  BY <1>3, <1>4, <1>5, <1>6, <2>1, <3>1 DEF Done, Out, IsImport
  <2>2. CASE f # Arg
    BY <1>2, <1>8, <1>11, <2>2 DEF Called
  <2> QED  BY <2>1, <2>2
<1>12. RootsInv'
  BY <1>4, <1>10, <1>11, RootsKept
<1> QED  BY <1>3, <1>4, <1>9, <1>10, <1>12, EmissionStep DEF EmitPhases

LEMMA RegisterImportStep ==
  ASSUME LInv, RunInv, RegisterImport, phase' # "failed"
  PROVE  RunInv'
<1>1. /\ phase = "cg_imports" /\ pending = <<>>
      /\ UNCHANGED <<mod, phase, ctx, pending, cg, image, why>>
  BY DEF RegisterImport, Step, InList, Fail
<1>2. CallsInv'
  BY <1>1, EmptyList DEF CallsInv
<1>3. EmitInv' /\ BlobInv' /\ \A f : Done(f) => Done(f)'
  <2>1. IsSeq(cg.queue) /\ ToSet(cg.queue) \subseteq Current
    BY DEF RunInv, EmitInv
  <2> QED  BY <1>1, <2>1, NoCalls, QueueStep
<1>4. RootsInv'
  BY <1>1, <1>3 DEF RunInv, RootsInv, Start
<1> QED  BY <1>1, <1>2, <1>3, <1>4, EmissionStep

LEMMA PopQueueStep ==
  ASSUME LInv, RunInv, PopQueue
  PROVE  RunInv'
<1> DEFINE id == Last(cg.queue)
<1>1. /\ phase = "cg_queue" /\ pending = <<>> /\ cg.queue # <<>>
      /\ pending' = Calls("emit", <<id>>)
      /\ cg' = [cg EXCEPT !.queue = Front(cg.queue)]
      /\ UNCHANGED <<mod, phase, at, ctx, image, why>>
  BY DEF PopQueue
<1>2. IsSeq(cg.queue) /\ ToSet(cg.queue) \subseteq Current
  BY DEF RunInv, EmitInv
<1>3. IsSeq(Front(cg.queue)) /\ ToSet(cg.queue) = {id} \cup ToSet(Front(cg.queue))
  BY <1>1, <1>2, FrontFacts
<1> HIDE DEF id
<1>4. Shape(cg)
  BY <1>1 DEF LInv, LayoutInv
<1>5. cg'.funcs = cg.funcs /\ cg'.idx = cg.idx /\ cg'.queue = Front(cg.queue)
  BY <1>1, <1>4 DEF Shape
<1>6. IsSeq(pending') /\ ToSet(pending') = {[do |-> "emit", arg |-> x] : x \in {id}}
  BY <1>1, OneItem, CallsFacts
<1>7. ASSUME NEW x, x = id
      PROVE  Called("emit", x)'
  BY <1>6, <1>7 DEF Called
<1>8. CallsInv'
  <2>1. Current' = Current /\ id \in Current
    BY <1>1, <1>2, <1>3 DEF Current, IsImport
  <2> QED  BY <1>1, <1>6, <2>1 DEF CallsInv, EmitPhases
<1>9. \A do, x : ~Called(do, x)
  BY <1>1, NoCalls
<1>10. EmitInv' /\ BlobInv' /\ \A f : Done(f) => Done(f)'
  <2>1. ToSet(cg'.queue) \subseteq Current /\ IsSeq(cg'.queue)
    BY <1>2, <1>3, <1>5
  <2>2. \A x \in ToSet(cg.queue) : x \in ToSet(cg'.queue) \/ Called("emit", x)'
    BY <1>3, <1>5, <1>7
  <2> QED  BY <1>1, <1>5, <1>9, <2>1, <2>2, QueueStep DEF EmitPhases
<1>11. RootsInv'
  BY <1>1, <1>9, <1>10, RootsKept
<1> QED  BY <1>1, <1>8, <1>10, <1>11, EmissionStep DEF EmitPhases

(* What is pending and is not a root is pending after a call returns. *)
LEMMA ReturnFacts ==
  ASSUME RunInv, NEW do \in {"emit", "push"}, Calling(do), Return, ctx' = ctx
  PROVE  /\ phase \in EmitPhases /\ Arg \in Current
         /\ CallsInv'
         /\ \A d, x : Called(d, x) => (d = do /\ x = Arg) \/ Called(d, x)'
<1>1. pending' = Tail(pending) /\ UNCHANGED <<mod, phase, at, why>>
  BY DEF Return
<1>2. CallsInv
  BY DEF RunInv
<1>3. /\ [do |-> do, arg |-> Arg] \in ToSet(pending)
      /\ IsSeq(Tail(pending)) /\ ToSet(Tail(pending)) \subseteq ToSet(pending)
      /\ \A d, x : Called(d, x) => (d = do /\ x = Arg) \/ [do |-> d, arg |-> x] \in ToSet(Tail(pending))
  BY <1>2, HeadCall
<1>4. phase \in EmitPhases /\ Arg \in Current
  <2>1. ASSUME NEW e \in ToSet(pending), e.do = do
        PROVE  phase \in EmitPhases /\ e.arg \in Current
    BY <1>2, <2>1 DEF CallsInv
  <2> QED  BY <1>3, <2>1
<1>5. CallsInv'
  <2>1. Current' = Current /\ All' = All
    BY <1>1 DEF Current, IsImport, All
  <2> QED  BY <1>1, <1>2, <1>3, <2>1 DEF CallsInv
<1> QED  BY <1>1, <1>3, <1>4, <1>5 DEF Called

LEMMA PushCalleeStep ==
  ASSUME LInv, RunInv, PushCallee
  PROVE  RunInv'
<1>1. /\ Calling("push") /\ Return /\ UNCHANGED <<mod, phase, at, ctx, image, why>>
      /\ cg' = IF Visited(cg, Arg) THEN cg ELSE [cg EXCEPT !.queue = Append(cg.queue, Arg)]
  BY DEF PushCallee, Return
<1>2. /\ phase \in EmitPhases /\ Arg \in Current /\ CallsInv'
      /\ \A d, x : Called(d, x) => (d = "push" /\ x = Arg) \/ Called(d, x)'
  BY <1>1, ReturnFacts
<1>3. Shape(cg) /\ IsSeq(cg.queue) /\ ToSet(cg.queue) \subseteq Current
  BY <1>2 DEF LInv, LayoutInv, RunInv, EmitInv, EmitPhases
<1>4. /\ cg'.funcs = cg.funcs /\ cg'.idx = cg.idx /\ IsSeq(cg'.queue)
      /\ ToSet(cg.queue) \subseteq ToSet(cg'.queue) /\ ToSet(cg'.queue) \subseteq Current
      /\ Arg \in DOMAIN cg.idx \cup ToSet(cg'.queue)
  <2>1. CASE Visited(cg, Arg)
    BY <1>1, <1>3, <2>1 DEF Visited
  <2>2. CASE ~Visited(cg, Arg)
    <3>1. cg'.funcs = cg.funcs /\ cg'.idx = cg.idx /\ cg'.queue = Append(cg.queue, Arg)
      BY <1>1, <1>3, <2>2 DEF Shape
    <3>2. IsSeq(cg'.queue) /\ ToSet(cg'.queue) = ToSet(cg.queue) \cup {Arg}
      BY <1>3, <3>1, AppendedFacts
    <3> QED  BY <1>2, <1>3, <3>1, <3>2
  <2> QED  BY <2>1, <2>2
<1>5. EmitInv' /\ BlobInv' /\ \A f : Done(f) => Done(f)'
  <2>1. phase # "cg_imports"
    BY <1>2 DEF EmitPhases
  <2> QED  BY <1>1, <1>2, <1>4, <2>1, QueueStep
<1>6. RootsInv'
  BY <1>1, <1>2, <1>5, RootsKept
<1> QED  BY <1>1, <1>2, <1>5, <1>6, EmissionStep

(* What an emitted function may call was prepared, and is in play. *)
LEMMA IRCallsFacts ==
  ASSUME RunInv, phase \notin IRPhases, NEW id \in Current
  PROVE  IRCalls(id) \subseteq Current
<1> DEFINE fn == ctx.ids[id]
           callees == IF fn.kind = "thunk" THEN {fn.of} ELSE ToSet(mod.calls[fn.of])
<1>1. fn.of \in DOMAIN ctx.body /\ (fn.kind # "thunk" => ~IsImport(fn.of))
  BY CurrentFacts DEF RunInv
<1>2. callees \subseteq DOMAIN ctx.body
  BY <1>1, Complete
<1>3. ASSUME NEW f \in callees, ctx.body[f] # 0
      PROVE  ctx.body[f] \in Current
  <2>1. ~IsImport(f)
    BY <1>2, <1>3 DEF RunInv, CtxOK
  <2> QED  BY <1>2, <2>1 DEF Current
<1>4. IRCalls(id) = {ctx.body[f] : f \in callees} \ {0}
  BY DEF IRCalls
<1> HIDE DEF callees
<1> QED  BY <1>3, <1>4

LEMMA CodegenFunctionRunStep ==
  ASSUME LInv, RunInv, CodegenFunction, phase' # "failed"
  PROVE  RunInv'
<1>1. Calling("emit") /\ CtxOK(ctx) /\ CallsInv /\ EmitInv
  BY DEF CodegenFunction, RunInv
<1>2. CASE Visited(cg, Arg) /\ Return /\ UNCHANGED <<ctx, cg, image>>
  <2>1. UNCHANGED <<mod, phase, at, ctx, cg, image, why>>
    BY <1>2 DEF Return
  <2>2. /\ phase \in EmitPhases /\ Arg \in Current /\ CallsInv'
        /\ \A d, x : Called(d, x) => (d = "emit" /\ x = Arg) \/ Called(d, x)'
    BY <1>1, <1>2, ReturnFacts
  <2>3. IsSeq(cg.queue) /\ ToSet(cg.queue) \subseteq Current /\ Arg \in DOMAIN cg.idx
    BY <1>1, <1>2 DEF EmitInv, Visited
  <2>4. phase # "cg_imports"
    BY <2>2 DEF EmitPhases
  <2>5. EmitInv' /\ BlobInv' /\ \A f : Done(f) => Done(f)'
    BY <2>1, <2>2, <2>3, <2>4, QueueStep
  <2>6. RootsInv'
    BY <2>1, <2>2, <2>5, RootsKept
  <2> QED  BY <2>1, <2>2, <2>5, <2>6, EmissionStep
<1>3. CASE /\ ~Visited(cg, Arg)
           /\ \E blob \in Blobs(Arg) :
                cg' = Emitted(cg, Arg, blob) /\ pending' = Calls("push", blob.refs) \o Tail(pending)
           /\ UNCHANGED <<mod, phase, at, ctx, image, why>>
  <2>1. PICK blob \in Blobs(Arg) :
               cg' = Emitted(cg, Arg, blob) /\ pending' = Calls("push", blob.refs) \o Tail(pending)
    BY <1>3
  <2> DEFINE refs == blob.refs
             n == Len(cg.funcs)
  <2>2. UNCHANGED <<mod, phase, at, ctx, image, why>>
    BY <1>3
  <2>3. /\ [do |-> "emit", arg |-> Arg] \in ToSet(pending)
        /\ IsSeq(Tail(pending)) /\ ToSet(Tail(pending)) \subseteq ToSet(pending)
        /\ \A d, x : Called(d, x) => (d = "emit" /\ x = Arg) \/ [do |-> d, arg |-> x] \in ToSet(Tail(pending))
    BY <1>1, HeadCall
  <2>4. phase \in EmitPhases /\ Arg \in Current
    <3>1. ASSUME NEW e \in ToSet(pending), e.do = "emit"
          PROVE  phase \in EmitPhases /\ e.arg \in Current
      BY <1>1, <3>1 DEF CallsInv
    <3> QED  BY <2>3, <3>1
  <2>5. phase \notin IRPhases \cup LinkPhases \cup {"cg_imports"}
    BY <2>4 DEF EmitPhases, IRPhases, LinkPhases
  <2>6. IsSeq(refs) /\ ToSet(refs) \subseteq Current
    <3>1. PICK m \in 0 .. MaxRefs : refs \in [1 .. m -> IRCalls(Arg)]
      BY DEF Blobs, Lists
    <3>2. refs \in Seq(IRCalls(Arg))
      BY <3>1, CodegenAssumption
    <3>3. IRCalls(Arg) \subseteq Current
      BY <2>4, <2>5, IRCallsFacts
    <3> QED  BY <3>2, <3>3 DEF IsSeq, ToSet
  <2>7. /\ IsSeq(Calls("push", refs))
        /\ ToSet(Calls("push", refs)) = {[do |-> "push", arg |-> x] : x \in ToSet(refs)}
    BY <2>6, CallsFacts
  <2>8. /\ IsSeq(pending')
        /\ ToSet(pending') = {[do |-> "push", arg |-> x] : x \in ToSet(refs)} \cup ToSet(Tail(pending))
    BY <2>1, <2>3, <2>7, ConcatFacts
  <2>9. Shape(cg) /\ IsSeq(cg.funcs) /\ cg.code \in Nat /\ cg.rodata \in 0 .. SizeRange - 1
    BY <2>4 DEF LInv, LayoutInv, CodeOK, PoolsOK, EmitPhases
  <2>22. blob.size \in Nat /\ blob.pool.size \in Nat /\ blob.pool.align \in Nat \ {0}
    <3>1. blob.size \in CodeSizes /\ blob.pool \in Pools
      BY DEF Blobs
    <3> QED  BY <3>1, CodegenAssumption
  <2>10. PICK fn : /\ cg'.funcs = Append(cg.funcs, fn)
                   /\ fn.id = Arg /\ fn.blob = "live" /\ fn.freed = 0 /\ fn.refs = refs
    BY <2>1, <2>9, <2>22, EmittedFacts
  <2>11. cg'.queue = cg.queue /\ cg'.idx = Put(cg.idx, Arg, Len(cg'.funcs))
    BY <2>1, <2>9, <2>22, EmittedFacts
  <2>12. /\ n \in Nat /\ DOMAIN cg.funcs = 1 .. n /\ DOMAIN cg'.funcs = 1 .. n + 1
         /\ Len(cg'.funcs) = n + 1
         /\ \A k \in 1 .. n : cg'.funcs[k] = cg.funcs[k]
         /\ cg'.funcs[n + 1] = fn
    BY <2>9, <2>10, AppendFacts
  <2>13. /\ DOMAIN cg'.idx = DOMAIN cg.idx \cup {Arg}
         /\ cg'.idx[Arg] = n + 1
         /\ \A id \in DOMAIN cg.idx : id # Arg /\ cg'.idx[id] = cg.idx[id]
    BY <1>3, <2>11, <2>12 DEF Put, Visited
  <2>14. Current' = Current
    BY <2>2 DEF Current, IsImport
  <2> HIDE DEF refs, n
  <2>15. ASSUME NEW d, NEW x, Called(d, x)
         PROVE  (d = "emit" /\ x \in DOMAIN cg'.idx) \/ Called(d, x)'
    BY <2>3, <2>8, <2>13, <2>15 DEF Called
  <2>16. \A x \in ToSet(refs) : Called("push", x)'
    BY <2>8 DEF Called
  <2>17. CallsInv'
    <3>1. ASSUME NEW c, c \in {[do |-> "push", arg |-> x] : x \in ToSet(refs)}
          PROVE  c = [do |-> c.do, arg |-> c.arg] /\ c.do = "push" /\ c.arg \in Current
      BY <2>6, <3>1
    <3>2. All' = All
      BY <2>2 DEF All
    <3> QED  BY <1>1, <2>2, <2>3, <2>4, <2>8, <2>14, <3>1, <3>2 DEF CallsInv
  <2>18. EmitInv'
    <3>1. ASSUME NEW k \in 1 .. n + 1
          PROVE  /\ cg'.funcs[k].id \in DOMAIN cg'.idx /\ cg'.idx[cg'.funcs[k].id] = k
                 /\ \A r \in ToSet(cg'.funcs[k].refs) :
                      /\ r \in Current
                      /\ r \in DOMAIN cg'.idx \cup ToSet(cg'.queue) \/ Called("emit", r)' \/ Called("push", r)'
      <4>1. CASE k \in 1 .. n
        BY <1>1, <2>11, <2>12, <2>13, <2>15, <4>1 DEF EmitInv
      <4>2. CASE k = n + 1
        BY <2>6, <2>10, <2>12, <2>13, <2>16, <4>2
      <4> QED  BY <2>12, <4>1, <4>2
    <3>2. ASSUME NEW id \in DOMAIN cg'.idx
          PROVE  cg'.idx[id] \in 1 .. n + 1 /\ cg'.funcs[cg'.idx[id]].id = id
      <4>1. CASE id \in DOMAIN cg.idx
        <5>1. cg.idx[id] \in 1 .. n /\ cg.funcs[cg.idx[id]].id = id
          BY <1>1, <2>12, <4>1 DEF EmitInv
        <5> QED  BY <2>12, <2>13, <4>1, <5>1
      <4>2. CASE id = Arg
        BY <2>10, <2>12, <2>13, <4>2
      <4> QED  BY <2>13, <4>1, <4>2
    <3> QED  BY <1>1, <2>2, <2>4, <2>5, <2>11, <2>12, <2>13, <2>14, <3>1, <3>2 DEF EmitInv
  <2>19. BlobInv'
    <3>1. \A k \in 1 .. n + 1 : cg'.funcs[k].blob = "live" /\ cg'.funcs[k].freed = 0
      BY <2>5, <2>10, <2>12 DEF RunInv, BlobInv, LinkPhases
    <3> QED  BY <2>2, <2>5, <2>12, <3>1 DEF BlobInv, LinkPhases
  <2>20. ASSUME NEW f, Done(f)
         PROVE  Done(f)'
    BY <2>2, <2>13, <2>15, <2>20 DEF Done, Out, IsImport
  <2>21. RootsInv'
    BY <2>2, <2>15, <2>20, RootsKept
  <2> QED  BY <2>2, <2>4, <2>17, <2>18, <2>19, <2>21, EmissionStep
<1>4. CASE EmitFails(cg, Arg)
  BY <1>4 DEF EmitFails, Fail
<1> QED  BY <1>2, <1>3, <1>4 DEF CodegenFunction

-----------------------------------------------------------------------------
(* From one loop to the next.                                              *)

(* Nobody counts the passes over a queue: they end when it is empty. *)
QueueAt == phase \in {"build", "cg_queue", "alloc"} => at = 1

LEMMA QueueAtStep ==
  ASSUME QueueAt, Next
  PROVE  QueueAt'
<1>1. CASE Advance
  BY <1>1 DEF Advance, QueueAt
<1>2. CASE PrepareRoot \/ PrepareSegment \/ TryRoots \/ LayTable
  BY <1>2 DEF PrepareRoot, PrepareSegment, TryRoots, LayTable, InList, Step, QueueAt
<1>3. CASE BuildNext \/ PopQueue \/ Allocate \/ Lock \/ Abort
  BY <1>3 DEF BuildNext, PopQueue, Allocate, Lock, Abort, Fail, QueueAt
<1>4. CASE PrepareElem \/ BuildCall \/ PushCallee
  BY <1>4 DEF PrepareElem, BuildCall, PushCallee, Return, QueueAt
<1>5. CASE TryFunction \/ CodegenFunction
  BY <1>5 DEF TryFunction, CodegenFunction, EmitFails, Fail, Return, QueueAt
<1>6. CASE RegisterImport \/ Link
  BY <1>6 DEF RegisterImport, Link, InList, Fail, Step, QueueAt
<1>7. CASE FillExport
  BY <1>7 DEF FillExport, InList, Fail, Step, QueueAt
<1>8. CASE FillSegment
  BY <1>8 DEF FillSegment, InList, Fail, Step, QueueAt
<1>9. CASE Faults
  BY <1>9 DEF Faults, QueueAt
<1> QED  BY <1>1, <1>2, <1>3, <1>4, <1>5, <1>6, <1>7, <1>8, <1>9 DEF Next

(* A loop that ends has seen every item. *)
LEMMA LoopDone ==
  ASSUME LInv, at > Len(Work), NEW s, Work = s, IsSeq(s)
  PROVE  \A i \in DOMAIN s : i < at /\ ~(at <= i)
BY ListFacts DEF LInv, PhaseInv

LEMMA AdvanceFrom ==
  ASSUME Advance
  PROVE  /\ at' = 1 /\ pending = <<>> /\ UNCHANGED <<mod, ctx, pending, cg, image, why>>
         /\ \/ phase = "exports" /\ phase' = "elems"
            \/ phase = "elems" /\ phase' = "start"
            \/ phase = "start" /\ phase' = "build"
            \/ phase = "build" /\ phase' = "cg_exports"
            \/ phase = "cg_exports" /\ phase' = "cg_imports"
            \/ phase = "cg_imports" /\ phase' = "cg_elems"
            \/ phase = "cg_elems" /\ phase' = "cg_start"
            \/ phase = "cg_start" /\ phase' = "cg_queue"
            \/ phase = "cg_queue" /\ phase' = "cg_tables"
            \/ phase = "cg_tables" /\ phase' = "alloc"
            \/ phase = "link" /\ phase' = "fill_exports"
            \/ phase = "fill_exports" /\ phase' = "fill_start"
            \/ phase = "fill_start" /\ phase' = "fill_elems"
            \/ phase = "fill_elems" /\ phase' = "lock"
BY DEF Advance, Following

(* What the loop that ends has done. *)
LEMMA AdvanceSeen ==
  ASSUME LInv, RunInv, QueueAt, Advance
  PROVE  /\ phase \in {"exports", "cg_exports", "fill_exports"} =>
              \A i \in DOMAIN mod.exports : i < at /\ ~(at <= i)
         /\ phase \in {"elems", "cg_elems", "fill_elems"} =>
              \A i \in DOMAIN mod.elems : i < at /\ ~(at <= i)
         /\ phase \in {"start", "cg_start", "fill_start"} =>
              \A i \in DOMAIN Start : i < at /\ ~(at <= i)
         /\ phase = "cg_tables" => \A i \in DOMAIN mod.tables : i < at
         /\ phase = "link" => \A i \in DOMAIN cg.funcs : i < at
         /\ phase = "build" => ctx.queue = <<>>
         /\ phase = "cg_queue" => cg.queue = <<>>
<1>1. at > Len(Work)
  BY DEF Advance
<1>2. /\ IsSeq(mod.exports) /\ IsSeq(mod.elems) /\ IsSeq(Start) /\ IsSeq(mod.tables)
  BY ModuleFacts DEF LInv, PhaseInv
<1>3. CASE phase \in {"exports", "cg_exports", "fill_exports"}
  <2>1. Work = mod.exports
    BY <1>3 DEF Work
  <2> QED  BY <1>1, <1>2, <1>3, <2>1, LoopDone
<1>4. CASE phase \in {"elems", "cg_elems", "fill_elems"}
  <2>1. Work = mod.elems
    BY <1>4 DEF Work
  <2> QED  BY <1>1, <1>2, <1>4, <2>1, LoopDone
<1>5. CASE phase \in {"start", "cg_start", "fill_start"}
  <2>1. Work = Start
    BY <1>5 DEF Work
  <2> QED  BY <1>1, <1>2, <1>5, <2>1, LoopDone
<1>6. CASE phase = "cg_tables"
  <2>1. Work = mod.tables
    BY <1>6 DEF Work
  <2> QED  BY <1>1, <1>2, <1>6, <2>1, LoopDone
<1>7. CASE phase = "link"
  <2>1. Work = cg.funcs /\ IsSeq(cg.funcs)
    BY <1>7 DEF Work, LInv, LayoutInv, CodeOK
  <2> QED  BY <1>1, <1>7, <2>1, LoopDone
<1>8. CASE phase = "build"
  <2>1. Work = ctx.queue /\ IsSeq(ctx.queue) /\ at = 1
    BY <1>8 DEF Work, RunInv, CtxOK, QueueAt
  <2> QED  BY <1>1, <1>8, <2>1, ListFacts
<1>9. CASE phase = "cg_queue"
  <2>1. Work = cg.queue /\ IsSeq(cg.queue) /\ at = 1
    BY <1>9 DEF Work, RunInv, EmitInv, QueueAt
  <2> QED  BY <1>1, <1>9, <2>1, ListFacts
<1> QED  BY <1>3, <1>4, <1>5, <1>6, <1>7, <1>8, <1>9

LEMMA AdvanceRunStep ==
  ASSUME LInv, RunInv, QueueAt, Advance
  PROVE  RunInv'
<1>1. /\ at' = 1 /\ pending = <<>> /\ pending' = <<>>
      /\ UNCHANGED <<mod, ctx, cg, image, why>> /\ Start' = Start /\ All' = All
  BY AdvanceFrom DEF Start, All
<1>2. /\ IsSeq(mod.exports) /\ IsSeq(mod.elems) /\ IsSeq(Start) /\ IsSeq(mod.tables)
  BY ModuleFacts DEF LInv, PhaseInv
<1>3. \A s : IsSeq(s) => \A i \in DOMAIN s : at' <= i /\ ~(i < at')
  BY <1>1, ListFacts
<1>4. (\A do, x : ~Called(do, x)) /\ (\A do, x : ~Called(do, x)')
  BY <1>1, EmptyList DEF Called
<1>5. CtxOK(ctx)' /\ CallsInv'
  BY <1>1, EmptyList DEF RunInv, CtxOK, IsImport, CallsInv
<1>6. BuildInv'
  <2>1. phase' \notin IRPhases => ctx.queue = <<>>
    BY AdvanceFrom, AdvanceSeen DEF RunInv, BuildInv, IRPhases
  <2> QED  BY <1>1, <1>4, <2>1 DEF RunInv, BuildInv, IsImport
<1>7. PreparedInv'
  <2>1. ASSUME NEW i \in DOMAIN mod.exports
        PROVE  mod.exports[i] \in DOMAIN ctx.body
    BY AdvanceFrom, AdvanceSeen DEF RunInv, PreparedInv
  <2>2. ASSUME NEW i \in DOMAIN mod.elems, NEW f \in ToSet(mod.elems[i].funcs)
        PROVE  f \in DOMAIN ctx.thunk \/ (phase' = "elems" /\ at' <= i)
    BY <1>2, <1>3, <1>4, AdvanceFrom, AdvanceSeen DEF RunInv, PreparedInv
  <2>3. ASSUME NEW i \in DOMAIN Start
        PROVE  \/ Start[i] \in DOMAIN ctx.body
               \/ phase' \in {"exports", "elems"}
               \/ phase' = "start" /\ at' <= i
    BY <1>2, <1>3, AdvanceFrom, AdvanceSeen DEF RunInv, PreparedInv
  <2> QED  BY <1>1, <2>1, <2>2, <2>3 DEF PreparedInv
<1>8. EmitInv'
  <2>1. phase' \in IRPhases => phase \in IRPhases
    BY AdvanceFrom DEF IRPhases
  <2>2. phase' \notin EmitPhases \cup {"cg_imports"} => cg.queue = <<>>
    BY AdvanceFrom, AdvanceSeen DEF RunInv, EmitInv, EmitPhases
  <2>3. Current' = Current
    BY <1>1 DEF Current, IsImport
  <2> QED  BY <1>1, <1>4, <2>1, <2>2, <2>3 DEF RunInv, EmitInv
<1>9. ASSUME NEW f, Done(f)
      PROVE  Done(f)'
  BY <1>1, <1>4, <1>9 DEF Done, Out, IsImport
<1>10. RootsInv'
  <2>1. ASSUME NEW i \in DOMAIN mod.exports
        PROVE  Done(mod.exports[i]) \/ phase' \in IRPhases \/ (phase' = "cg_exports" /\ at' <= i)
    BY <1>2, <1>3, <1>4, AdvanceFrom, AdvanceSeen DEF RunInv, RootsInv, IRPhases
  <2>2. ASSUME NEW i \in DOMAIN mod.elems, NEW f \in ToSet(mod.elems[i].funcs)
        PROVE  \/ Done(f) \/ phase' \in IRPhases \cup {"cg_exports", "cg_imports"}
               \/ phase' = "cg_elems" /\ at' <= i
    BY <1>2, <1>3, <1>4, AdvanceFrom, AdvanceSeen DEF RunInv, RootsInv, IRPhases
  <2>3. ASSUME NEW i \in DOMAIN Start
        PROVE  \/ Done(Start[i]) \/ phase' \in IRPhases \cup {"cg_exports", "cg_imports", "cg_elems"}
               \/ phase' = "cg_start" /\ at' <= i
    BY <1>2, <1>3, <1>4, AdvanceFrom, AdvanceSeen DEF RunInv, RootsInv, IRPhases
  <2> QED  BY <1>1, <1>9, <2>1, <2>2, <2>3 DEF RootsInv
<1>11. BlobInv'
  <2>1. ASSUME NEW k \in DOMAIN cg.funcs
        PROVE  IF phase' \in LinkPhases \ {"link"}
               THEN cg.funcs[k].blob = "null" /\ cg.funcs[k].freed = 1
               ELSE phase' # "link" /\ cg.funcs[k].blob = "live" /\ cg.funcs[k].freed = 0
    BY AdvanceFrom, AdvanceSeen DEF RunInv, BlobInv, LinkPhases
  <2> QED  BY <1>1, <2>1 DEF BlobInv
<1>12. TargetsInv'
  <2>1. ctx.used \subseteq DOMAIN mod.tables /\ \A t \in DOMAIN mod.tables : ~(t < 1)
    BY <1>1, <1>2, <1>3 DEF RunInv, CtxOK
  <2>2. phase' = "cg_tables" => DOMAIN cg.tables = {t \in ctx.used : t < at'}
    <3>1. phase' = "cg_tables" => DOMAIN cg.tables = {}
      BY AdvanceFrom DEF LInv, PhaseInv, EarlyPhases, EmitPhases
    <3> QED  BY <1>1, <2>1, <3>1
  <2>3. phase' \in {"alloc"} \cup LinkPhases => DOMAIN cg.tables = ctx.used
    <3>1. CASE phase = "cg_tables"
      <4>1. {t \in ctx.used : t < at} = ctx.used
        BY <2>1, <3>1, AdvanceSeen
      <4> QED  BY <3>1, <4>1 DEF RunInv, TargetsInv
    <3> QED  BY <3>1, AdvanceFrom DEF RunInv, TargetsInv, LinkPhases
  <2>4. phase' \in LinkPhases => phase \in LinkPhases
    BY AdvanceFrom DEF LinkPhases
  <2>5. ASSUME NEW i \in DOMAIN mod.elems
        PROVE  Placed(i)' <=> Placed(i)
    <3>1. CASE phase = "fill_elems"
      BY <1>1, <3>1, AdvanceFrom, AdvanceSeen DEF Placed
    <3>2. CASE phase # "fill_elems"
      BY <1>1, <1>2, <1>3, <3>2, AdvanceFrom DEF Placed
    <3> QED  BY <3>1, <3>2
  <2>6. ASSUME NEW t, NEW s
        PROVE  Covers(t, s)' = Covers(t, s)
    BY <1>1, <2>5 DEF Covers
  <2>7. ASSUME NEW t, NEW s, SlotOK(t, s)
        PROVE  SlotOK(t, s)'
    BY <1>1, <2>6, <2>7 DEF SlotOK
  <2> QED  BY <1>1, <2>2, <2>3, <2>4, <2>7 DEF RunInv, TargetsInv
<1>13. PublishedInv'
  <2>1. phase' \in LinkPhases => phase \in LinkPhases
    BY AdvanceFrom DEF LinkPhases
  <2>2. ASSUME NEW i \in DOMAIN mod.exports, phase \in LinkPhases
        PROVE  \/ IsImport(mod.exports[i]) \/ ctx.body[mod.exports[i]] \in image.endbr
               \/ phase' = "fill_exports" /\ at' <= i
    BY <1>2, <1>3, <2>2, AdvanceFrom, AdvanceSeen DEF RunInv, PublishedInv
  <2>3. ASSUME NEW i \in DOMAIN Start, phase \in LinkPhases
        PROVE  \/ IsImport(Start[i]) \/ ctx.body[Start[i]] \in image.endbr
               \/ phase' = "fill_exports"
               \/ phase' = "fill_start" /\ at' <= i
    BY <1>2, <1>3, <2>3, AdvanceFrom, AdvanceSeen DEF RunInv, PublishedInv
  <2> QED  BY <1>1, <2>1, <2>2, <2>3 DEF PublishedInv, IsImport
<1>14. phase' \in Phases /\ why' = "none"
  BY <1>1, AdvanceFrom DEF RunInv, Phases, Following
<1> QED  BY <1>5, <1>6, <1>7, <1>8, <1>10, <1>11, <1>12, <1>13, <1>14 DEF RunInv

-----------------------------------------------------------------------------
(* The tables, the linker and the addresses that are given out.            *)

Late == {"cg_tables", "alloc"} \cup LinkPhases

LEMMA NothingPending ==
  ASSUME LInv, RunInv, phase \in Late
  PROVE  /\ pending = <<>> /\ cg.queue = <<>> /\ \A do, x : ~Called(do, x)
         /\ LayoutInv /\ ImageInv
         /\ phase \notin IRPhases \cup EmitPhases \cup {"cg_imports", "failed"}
<1>1. phase \notin EarlyPhases \cup IRPhases \cup EmitPhases \cup {"cg_imports", "failed"}
  BY DEF Late, LinkPhases, IRPhases, EarlyPhases, EmitPhases
<1>2. pending = <<>>
  BY <1>1 DEF LInv, PhaseInv
<1>3. cg.queue = <<>>
  BY <1>1 DEF RunInv, EmitInv
<1> QED  BY <1>1, <1>2, <1>3, NoCalls DEF LInv

(* All code has been emitted: what a root leads to, and what it calls. *)
LEMMA Closed ==
  ASSUME LInv, RunInv, phase \in Late
  PROVE  /\ \A k \in DOMAIN cg.funcs : \A id \in {cg.funcs[k].id} \cup ToSet(cg.funcs[k].refs) :
              id \in Current /\ Visited(cg, id) /\ Owned(id)
         /\ \A i \in DOMAIN mod.exports : Done(mod.exports[i])
         /\ \A i \in DOMAIN Start : Done(Start[i])
         /\ \A i \in DOMAIN mod.elems : \A f \in ToSet(mod.elems[i].funcs) :
              f \in DOMAIN ctx.thunk /\ Done(f)
         /\ \A f : Done(f) =>
              /\ f \in DOMAIN ctx.body
              /\ IF IsImport(f) THEN ctx.body[f] = 0 ELSE Visited(cg, ctx.body[f]) /\ ctx.body[f] # 0
              /\ f \in DOMAIN ctx.thunk => Visited(cg, ctx.thunk[f]) /\ ctx.thunk[f] # 0
<1>1. /\ cg.queue = <<>> /\ ToSet(cg.queue) = {} /\ \A do, x : ~Called(do, x)
      /\ phase \notin IRPhases \cup EmitPhases \cup {"cg_imports"}
  BY NothingPending, EmptyList
<1>2. ASSUME NEW k \in DOMAIN cg.funcs, NEW id \in {cg.funcs[k].id} \cup ToSet(cg.funcs[k].refs)
      PROVE  id \in Current /\ Visited(cg, id) /\ Owned(id)
  <2>1. id \in Current /\ id \in DOMAIN cg.idx
    BY <1>1 DEF RunInv, EmitInv
  <2>2. CtxOK(ctx)
    BY DEF RunInv
  <2> QED  BY <2>1, <2>2, CurrentFacts DEF Visited
<1>3. \A i \in DOMAIN mod.exports : Done(mod.exports[i])
  BY <1>1 DEF RunInv, RootsInv, EmitPhases
<1>4. \A i \in DOMAIN Start : Done(Start[i])
  BY <1>1 DEF RunInv, RootsInv, EmitPhases
<1>5. \A i \in DOMAIN mod.elems : \A f \in ToSet(mod.elems[i].funcs) : f \in DOMAIN ctx.thunk /\ Done(f)
  BY <1>1 DEF RunInv, RootsInv, PreparedInv, EmitPhases, IRPhases
<1>6. ASSUME NEW f, Done(f)
      PROVE  /\ f \in DOMAIN ctx.body
             /\ IF IsImport(f) THEN ctx.body[f] = 0 ELSE Visited(cg, ctx.body[f]) /\ ctx.body[f] # 0
             /\ f \in DOMAIN ctx.thunk => Visited(cg, ctx.thunk[f]) /\ ctx.thunk[f] # 0
  <2>1. f \in DOMAIN ctx.body /\ CtxOK(ctx)
    BY <1>6 DEF Done, RunInv
  <2>2. DOMAIN cg.idx \subseteq Current /\ \A id \in Current : id # 0
    BY <2>1, CurrentFacts DEF RunInv, EmitInv
  <2> QED  BY <1>1, <1>6, <2>1, <2>2 DEF Done, Out, Visited, CtxOK
<1> QED  BY <1>2, <1>3, <1>4, <1>5, <1>6

(* What these steps leave as it is. *)
LEMMA LateStep ==
  ASSUME LInv, RunInv, phase \in Late, phase' \in Late, UNCHANGED <<mod, ctx, pending, why>>,
         cg'.idx = cg.idx, cg'.queue = cg.queue, DOMAIN cg'.funcs = DOMAIN cg.funcs,
         \A k \in DOMAIN cg.funcs :
           cg'.funcs[k].id = cg.funcs[k].id /\ cg'.funcs[k].refs = cg.funcs[k].refs,
         BlobInv', TargetsInv', PublishedInv'
  PROVE  RunInv'
<1>1. /\ pending' = <<>> /\ cg.queue = <<>> /\ (\A do, x : ~Called(do, x))
      /\ phase \notin IRPhases \cup EmitPhases \cup {"cg_imports"}
  BY NothingPending
<1>2. phase' \notin IRPhases \cup EmitPhases \cup {"cg_imports"}
  BY DEF Late, LinkPhases, IRPhases, EmitPhases
<1>3. Start' = Start /\ Current' = Current
  BY DEF Start, Current, IsImport
<1>4. CtxOK(ctx)' /\ CallsInv'
  BY <1>1, EmptyList DEF RunInv, CtxOK, IsImport, All, CallsInv
<1>5. BuildInv' /\ PreparedInv'
  BY <1>1, <1>2, <1>3, Complete DEF RunInv, BuildInv, PreparedInv, IsImport, IRPhases
<1>6. EmitInv'
  BY <1>1, <1>2, <1>3 DEF RunInv, EmitInv
<1>7. RootsInv'
  <2>1. ASSUME NEW f, Done(f)
        PROVE  Done(f)'
    BY <1>1, <2>1 DEF Done, Out, IsImport
  <2> QED  BY <1>3, <2>1, Closed DEF RootsInv
<1>8. phase' \in Phases
  BY DEF Late, LinkPhases, Phases, Following
<1> QED  BY <1>4, <1>5, <1>6, <1>7, <1>8 DEF RunInv

LEMMA LayTableRunStep ==
  ASSUME LInv, RunInv, LayTable
  PROVE  RunInv'
<1>1. /\ phase = "cg_tables" /\ at' = at + 1 /\ at \in Nat \ {0}
      /\ UNCHANGED <<mod, phase, ctx, pending, image, why>>
  BY DEF LayTable, InList, Step, LInv, PhaseInv
<1>2. Shape(cg)
  BY <1>1 DEF LInv, LayoutInv
<1>3. /\ cg'.idx = cg.idx /\ cg'.queue = cg.queue /\ cg'.funcs = cg.funcs
      /\ DOMAIN cg'.tables = DOMAIN cg.tables \cup (ctx.used \cap {at})
  <2>1. CASE at \notin ctx.used /\ cg' = cg
    BY <2>1
  <2>2. CASE /\ at \in ctx.used
             /\ cg' = Grown([cg EXCEPT !.tables = Put(@, at, Size(TableStart(cg.rodata)))],
                            TableStart(cg.rodata) + Slot * Item)
    <3> DEFINE laid == [cg EXCEPT !.tables = Put(cg.tables, at, Size(TableStart(cg.rodata)))]
               end == TableStart(cg.rodata) + Slot * Item
    <3>1. /\ laid.idx = cg.idx /\ laid.queue = cg.queue /\ laid.funcs = cg.funcs
          /\ laid.tables = Put(cg.tables, at, Size(TableStart(cg.rodata))) /\ Shape(laid)
      BY <1>2 DEF Shape
    <3>2. cg' = Grown(laid, end)
      BY <2>2
    <3> HIDE DEF laid, end
    <3>3. cg'.idx = laid.idx /\ cg'.queue = laid.queue /\ cg'.funcs = laid.funcs /\ cg'.tables = laid.tables
      BY <3>1, <3>2 DEF Grown, Shape
    <3> QED  BY <2>2, <3>1, <3>3 DEF Put
  <2> QED  BY <2>1, <2>2 DEF LayTable
<1>4. TargetsInv'
  <2>1. \A t \in ctx.used : t \in Nat
    <3>1. IsSeq(mod.tables) /\ ctx.used \subseteq DOMAIN mod.tables
      BY ModuleFacts DEF LInv, PhaseInv, RunInv, CtxOK
    <3> QED  BY <3>1, ListFacts
  <2>2. \A t \in ctx.used : t < at + 1 <=> t < at \/ t = at
    BY <1>1, <2>1
  <2>3. DOMAIN cg.tables = {t \in ctx.used : t < at}
    BY <1>1 DEF RunInv, TargetsInv
  <2>4. DOMAIN cg'.tables = {t \in ctx.used : t < at + 1}
    BY <1>3, <2>2, <2>3
  <2> QED  BY <1>1, <2>4 DEF TargetsInv, LinkPhases
<1>5. BlobInv' /\ PublishedInv'
  BY <1>1, <1>3 DEF RunInv, BlobInv, PublishedInv, LinkPhases
<1> QED  BY <1>1, <1>3, <1>4, <1>5, LateStep DEF Late

LEMMA AllocateRunStep ==
  ASSUME LInv, RunInv, QueueAt, Allocate
  PROVE  RunInv'
<1>1. /\ phase = "alloc" /\ phase' = "link" /\ at = 1 /\ at' = 1
      /\ UNCHANGED <<mod, ctx, pending, cg, why>>
  BY DEF Allocate, QueueAt
<1>2. DOMAIN cg.tables = ctx.used
  BY <1>1 DEF RunInv, TargetsInv
<1>3. image'.slots = [t \in ctx.used |-> [s \in 1 .. mod.tables[t] |-> 0]]
  <2>1. ImageInv
    BY <1>1 DEF LInv
  <2> QED  BY <1>2, <2>1 DEF Allocate, ImageInv
<1>4. \A t, s : Covers(t, s)' = {}
  BY <1>1 DEF Covers, Placed
<1>5. TargetsInv'
  <2>1. /\ DOMAIN image'.slots = ctx'.used
        /\ \A t \in ctx'.used :
             /\ DOMAIN image'.slots[t] = 1 .. mod'.tables[t]
             /\ \A s \in 1 .. mod'.tables[t] : image'.slots[t][s] = 0
    BY <1>1, <1>3
  <2>2. \A t \in ctx'.used : \A s \in 1 .. mod'.tables[t] : SlotOK(t, s)'
    BY <1>4, <2>1 DEF SlotOK
  <2>3. phase' # "cg_tables" /\ DOMAIN cg'.tables = ctx'.used
    BY <1>1, <1>2
  <2> QED  BY <2>1, <2>2, <2>3 DEF TargetsInv
<1>6. BlobInv'
  <2>1. IsSeq(cg.funcs)
    BY <1>1 DEF LInv, LayoutInv, CodeOK
  <2>2. \A k \in DOMAIN cg.funcs : ~(k < 1)
    BY <2>1, ListFacts
  <2> QED  BY <1>1, <2>2 DEF RunInv, BlobInv, LinkPhases
<1>7. PublishedInv'
  BY <1>1 DEF PublishedInv
<1> QED  BY <1>1, <1>5, <1>6, <1>7, LateStep DEF Late, LinkPhases

LEMMA LinkRunStep ==
  ASSUME LInv, RunInv, Link
  PROVE  RunInv'
<1>1. /\ phase = "link" /\ phase \in Late
  BY DEF Link, InList, Late, LinkPhases
<1>2. Shape(cg) /\ IsSeq(cg.funcs) /\ Work = cg.funcs
  BY <1>1 DEF LInv, LayoutInv, CodeOK, Work
<1>3. at \in DOMAIN cg.funcs /\ at \in Nat \ {0} /\ Item = cg.funcs[at]
  BY <1>2, LoopItem DEF Link
<1>4. /\ cg' = [cg EXCEPT !.funcs[at] = Release(@)] /\ at' = at + 1
      /\ UNCHANGED <<mod, phase, ctx, pending, image, why>>
  <2>1. \A id \in {Item.id} \cup ToSet(Item.refs) : Visited(cg, id) /\ Owned(id)
    BY <1>1, <1>3, Closed
  <2> QED  BY <2>1 DEF Link, Step
<1>5. /\ cg'.idx = cg.idx /\ cg'.queue = cg.queue /\ cg'.tables = cg.tables
      /\ cg'.funcs = [cg.funcs EXCEPT ![at] = Release(cg.funcs[at])]
  BY <1>2, <1>4 DEF Shape
<1>6. cg.funcs[at].freed = 0 /\ DOMAIN cg.funcs[at] = FnFields
  BY <1>1, <1>3 DEF RunInv, BlobInv, LInv, LayoutInv, CodeOK, LinkPhases
<1>7. /\ Release(cg.funcs[at]).blob = "null" /\ Release(cg.funcs[at]).freed = 1
      /\ Release(cg.funcs[at]).id = cg.funcs[at].id /\ Release(cg.funcs[at]).refs = cg.funcs[at].refs
  BY <1>6 DEF Release, FnFields
<1>8. BlobInv'
  <2>1. ASSUME NEW k \in DOMAIN cg.funcs
        PROVE  IF k < at + 1
               THEN cg'.funcs[k].blob = "null" /\ cg'.funcs[k].freed = 1
               ELSE cg'.funcs[k].blob = "live" /\ cg'.funcs[k].freed = 0
    <3>1. k \in Nat
      BY <1>2, ListFacts
    <3>2. CASE k = at
      BY <1>3, <1>5, <1>7, <3>2
    <3>3. CASE k # at
      <4>1. cg'.funcs[k] = cg.funcs[k] /\ (k < at <=> k < at + 1)
        BY <1>3, <1>5, <3>1, <3>3
      <4> QED  BY <1>1, <4>1 DEF RunInv, BlobInv
    <3> QED  BY <3>2, <3>3
  <2> QED  BY <1>1, <1>4, <1>5, <2>1 DEF BlobInv
<1>9. TargetsInv' /\ PublishedInv'
  <2>1. \A t, s : Covers(t, s)' = Covers(t, s)
    BY <1>1, <1>4 DEF Covers, Placed
  <2>2. ASSUME NEW t, NEW s, SlotOK(t, s)
        PROVE  SlotOK(t, s)'
    BY <1>4, <2>1, <2>2 DEF SlotOK
  <2> QED  BY <1>1, <1>4, <1>5, <2>2 DEF RunInv, TargetsInv, PublishedInv
<1>10. \A k \in DOMAIN cg.funcs : cg'.funcs[k].id = cg.funcs[k].id /\ cg'.funcs[k].refs = cg.funcs[k].refs
  BY <1>5, <1>7
<1> QED  BY <1>1, <1>4, <1>5, <1>8, <1>9, <1>10, LateStep

(* Code that is given out is marked, and what is marked stays marked. *)
LEMMA PublishFacts ==
  ASSUME NEW img, DOMAIN img = {"rx", "ro", "slots", "endbr"}, NEW ids
  PROVE  Publish(img, ids).slots = img.slots /\ Publish(img, ids).endbr = img.endbr \cup (ids \ {0})
BY DEF Publish

LEMMA FillExportRunStep ==
  ASSUME LInv, RunInv, FillExport
  PROVE  RunInv'
<1>1. phase \in {"fill_exports", "fill_start"} /\ phase \in Late
  BY DEF FillExport, InList, Late, LinkPhases
<1>2. /\ IsSeq(mod.exports) /\ IsSeq(Start)
      /\ Work = (IF phase = "fill_exports" THEN mod.exports ELSE Start)
  BY <1>1, ModuleFacts DEF LInv, PhaseInv, Work
<1>3. at \in DOMAIN Work /\ at \in Nat \ {0} /\ Item = Work[at]
  BY <1>2, LoopItem DEF FillExport
<1>4. IF IsImport(Item) THEN ctx.body[Item] = 0 ELSE Visited(cg, ctx.body[Item]) /\ ctx.body[Item] # 0
  <2>1. Done(Item)
    BY <1>1, <1>2, <1>3, Closed
  <2> QED  BY <1>1, <2>1, Closed
<1>5. /\ image' = Publish(image, {ctx.body[Item]}) /\ at' = at + 1
      /\ UNCHANGED <<mod, phase, ctx, pending, cg, why>>
  BY <1>4 DEF FillExport, Step
<1>6. image'.slots = image.slots /\ image'.endbr = image.endbr \cup ({ctx.body[Item]} \ {0})
  <2>1. ImageInv
    BY <1>1 DEF LInv
  <2> QED  BY <1>5, <2>1, PublishFacts DEF ImageInv
<1>7. TargetsInv'
  <2>1. \A t, s : Covers(t, s)' = Covers(t, s)
    BY <1>1, <1>5 DEF Covers, Placed
  <2>2. ASSUME NEW t, NEW s, SlotOK(t, s)
        PROVE  SlotOK(t, s)'
    BY <1>5, <1>6, <2>1, <2>2 DEF SlotOK
  <2> QED  BY <1>1, <1>5, <1>6, <2>2 DEF RunInv, TargetsInv
<1>8. PublishedInv'
  <2>0. Start' = Start
    BY <1>5 DEF Start
  <2>1. ASSUME NEW i \in DOMAIN mod.exports
        PROVE  \/ IsImport(mod.exports[i]) \/ ctx.body[mod.exports[i]] \in image'.endbr
               \/ phase = "fill_exports" /\ at + 1 <= i
    <3>1. \/ IsImport(mod.exports[i]) \/ ctx.body[mod.exports[i]] \in image.endbr
          \/ phase = "fill_exports" /\ at <= i
      BY <1>1 DEF RunInv, PublishedInv, LinkPhases
    <3>2. CASE phase = "fill_exports" /\ at <= i
      <4>1. i = at \/ at + 1 <= i
        BY <1>2, <1>3, <3>2, NextIndex
      <4> QED  BY <1>2, <1>3, <1>4, <1>6, <3>2, <4>1
    <3> QED  BY <1>6, <3>1, <3>2
  <2>2. ASSUME NEW i \in DOMAIN Start
        PROVE  \/ IsImport(Start[i]) \/ ctx.body[Start[i]] \in image'.endbr
               \/ phase = "fill_exports"
               \/ phase = "fill_start" /\ at + 1 <= i
    <3>1. \/ IsImport(Start[i]) \/ ctx.body[Start[i]] \in image.endbr
          \/ phase = "fill_exports"
          \/ phase = "fill_start" /\ at <= i
      BY <1>1 DEF RunInv, PublishedInv, LinkPhases
    <3>2. CASE phase = "fill_start" /\ at <= i
      <4>1. i = at \/ at + 1 <= i
        BY <1>2, <1>3, <3>2, NextIndex
      <4> QED  BY <1>2, <1>3, <1>4, <1>6, <3>2, <4>1
    <3> QED  BY <1>6, <3>1, <3>2
  <2> QED  BY <1>5, <2>0, <2>1, <2>2 DEF PublishedInv, IsImport
<1>9. BlobInv'
  BY <1>1, <1>5 DEF RunInv, BlobInv
<1> QED  BY <1>1, <1>5, <1>7, <1>8, <1>9, LateStep

(* Every function that a segment names has its thunk, and its code. *)
LEMMA Callable ==
  ASSUME LInv, RunInv, InList({"fill_elems"})
  PROVE  /\ phase = "fill_elems" /\ phase \in Late
         /\ at \in DOMAIN mod.elems /\ at \in Nat \ {0} /\ Item = mod.elems[at] /\ SegmentOK(Item)
         /\ \A f \in ToSet(Item.funcs) :
              f \in DOMAIN ctx.thunk /\ Visited(cg, ctx.thunk[f]) /\ ctx.thunk[f] # 0
<1>1. phase = "fill_elems" /\ phase \in Late
  BY DEF InList, Late, LinkPhases
<1>2. /\ IsSeq(mod.elems) /\ Work = mod.elems
      /\ \A i \in DOMAIN mod.elems : SegmentOK(mod.elems[i])
  BY <1>1, ModuleFacts DEF LInv, PhaseInv, Work
<1>3. at \in DOMAIN mod.elems /\ at \in Nat \ {0} /\ Item = mod.elems[at]
  BY <1>2, LoopItem
<1> QED  BY <1>1, <1>2, <1>3, Closed

LEMMA FillSegmentRunStep ==
  ASSUME LInv, RunInv, FillSegment, phase' # "failed"
  PROVE  RunInv'
<1> DEFINE t == Item.table
           ids == {ctx.thunk[f] : f \in ToSet(Item.funcs)}
           lands(s) == s - Item.offset \in DOMAIN Item.funcs
           placed == [image EXCEPT !.slots[t] =
                        [s \in DOMAIN @ |-> IF s - Item.offset \in DOMAIN Item.funcs
                                            THEN ctx.thunk[Item.funcs[s - Item.offset]] ELSE @[s]]]
<1>1. /\ phase = "fill_elems" /\ phase \in Late
      /\ at \in DOMAIN mod.elems /\ at \in Nat \ {0} /\ Item = mod.elems[at] /\ SegmentOK(Item)
      /\ \A f \in ToSet(Item.funcs) :
           f \in DOMAIN ctx.thunk /\ Visited(cg, ctx.thunk[f]) /\ ctx.thunk[f] # 0
  BY Callable DEF FillSegment
<1>2. /\ at' = at + 1 /\ UNCHANGED <<mod, phase, ctx, pending, cg, why>>
      /\ \/ t \notin ctx.used /\ image' = image
         \/ t \in ctx.used /\ image' = Publish(placed, ids)
  BY DEF FillSegment, Step, Fail
<1>3. /\ DOMAIN image = {"rx", "ro", "slots", "endbr"}
      /\ DOMAIN image.slots = ctx.used
      /\ \A u \in ctx.used : DOMAIN image.slots[u] = 1 .. mod.tables[u]
  BY <1>1 DEF LInv, ImageInv, RunInv, TargetsInv, LinkPhases
<1>4. /\ image.endbr \subseteq image'.endbr
      /\ DOMAIN image'.slots = ctx.used
      /\ \A u \in ctx.used : DOMAIN image'.slots[u] = 1 .. mod.tables[u]
      /\ \A u \in ctx.used : u # t => image'.slots[u] = image.slots[u]
      /\ t \in ctx.used => /\ ids \ {0} \subseteq image'.endbr
                           /\ \A s \in 1 .. mod.tables[t] :
                                image'.slots[t][s] = IF lands(s) THEN ctx.thunk[Item.funcs[s - Item.offset]]
                                                     ELSE image.slots[t][s]
  <2>1. CASE t \notin ctx.used
    BY <1>2, <1>3, <2>1
  <2>2. CASE t \in ctx.used
    <3> DEFINE row == [s \in 1 .. mod.tables[t] |-> IF s - Item.offset \in DOMAIN Item.funcs
                                                    THEN ctx.thunk[Item.funcs[s - Item.offset]]
                                                    ELSE image.slots[t][s]]
    <3>1. placed = [image EXCEPT !.slots = [image.slots EXCEPT ![t] = row]]
      BY <1>3, <2>2
    <3>2. /\ DOMAIN placed = {"rx", "ro", "slots", "endbr"}
          /\ placed.slots = [image.slots EXCEPT ![t] = row] /\ placed.endbr = image.endbr
      BY <1>3, <3>1
    <3>3. /\ DOMAIN row = 1 .. mod.tables[t]
          /\ \A s \in 1 .. mod.tables[t] :
               row[s] = IF lands(s) THEN ctx.thunk[Item.funcs[s - Item.offset]] ELSE image.slots[t][s]
      OBVIOUS
    <3> HIDE DEF placed, row, ids, lands, t
    <3>4. image'.slots = [image.slots EXCEPT ![t] = row] /\ image'.endbr = image.endbr \cup (ids \ {0})
      BY <1>2, <2>2, <3>2, PublishFacts
    <3>5. /\ DOMAIN image'.slots = ctx.used /\ image'.slots[t] = row
          /\ \A u \in ctx.used : u # t => image'.slots[u] = image.slots[u]
      BY <1>3, <2>2, <3>4
    <3> QED  BY <1>3, <2>2, <3>3, <3>4, <3>5
  <2> QED  BY <2>1, <2>2
<1>5. ASSUME NEW u, NEW s, u \in ctx.used
      PROVE  Covers(u, s)' = Covers(u, s) \cup (IF u = t /\ lands(s) THEN {at} ELSE {})
  <2>1. \A i \in DOMAIN mod.elems : i \in Nat
    BY ListFacts, ModuleFacts DEF LInv, PhaseInv
  <2>2. \A i \in DOMAIN mod.elems : Placed(i)' <=> Placed(i) \/ i = at
    <3>1. /\ phase = "fill_elems" /\ phase' = "fill_elems" /\ "fill_elems" \notin {"lock", "done"}
          /\ at \in Nat /\ at' = at + 1
      BY <1>1, <1>2, Zenon
    <3>2. ASSUME NEW i \in DOMAIN mod.elems
          PROVE  /\ Placed(i) <=> i < at
                 /\ Placed(i)' <=> i < at + 1
      BY <3>1 DEF Placed
    <3>3. ASSUME NEW i \in Nat
          PROVE  i < at + 1 <=> i < at \/ i = at
      BY <3>1
    <3> QED  BY <2>1, <3>2, <3>3, Zenon
  <2>3. /\ mod' = mod /\ at \in DOMAIN mod.elems
        /\ mod.elems[at].table = t /\ (lands(s) <=> s - mod.elems[at].offset \in DOMAIN mod.elems[at].funcs)
    BY <1>1, <1>2
  <2> HIDE DEF t, lands, ids, placed
  <2>4. ASSUME NEW i
        PROVE  i \in Covers(u, s)' <=> i \in Covers(u, s) \/ (i = at /\ u = t /\ lands(s))
    BY <2>2, <2>3, Zenon DEF Covers
  <2> QED  BY <2>4
<1>6. \A u, s : \A i \in Covers(u, s) : i < at /\ i <= at
  <2>1. \A i \in DOMAIN mod.elems : i \in Nat
    BY ListFacts, ModuleFacts DEF LInv, PhaseInv
  <2> QED  BY <1>1, <2>1 DEF Covers, Placed
<1>7. ASSUME NEW u \in ctx.used, NEW s \in 1 .. mod.tables[u]
      PROVE  SlotOK(u, s)'
  <2>1. SlotOK(u, s)
    BY <1>1 DEF RunInv, TargetsInv, LinkPhases
  <2>2. CASE u = t /\ lands(s)
    <3> DEFINE f == Item.funcs[s - Item.offset]
    <3>1. f \in ToSet(Item.funcs)
      BY <2>2 DEF ToSet
    <3>2. f \in DOMAIN ctx.thunk /\ ctx.thunk[f] \in ids \ {0}
      BY <1>1, <3>1
    <3>3. image'.slots[u][s] = ctx.thunk[f] /\ ctx.thunk[f] \in image'.endbr
      BY <1>4, <2>2, <3>2
    <3>4. at \in Covers(u, s)' /\ \A j \in Covers(u, s)' : j <= at
      BY <1>1, <1>5, <1>6, <2>2
    <3>5. f = mod.elems[at].funcs[s - mod.elems[at].offset]
      BY <1>1
    <3> HIDE DEF f, t, ids, lands
    <3> QED  BY <1>2, <3>2, <3>3, <3>4, <3>5 DEF SlotOK
  <2>3. CASE ~(u = t /\ lands(s))
    <3>1. Covers(u, s)' = Covers(u, s)
      BY <1>5, <2>3
    <3>2. image'.slots[u][s] = image.slots[u][s]
      <4>1. CASE u = t
        BY <1>4, <2>3, <4>1
      <4>2. CASE u # t
        BY <1>4, <4>2
      <4> QED  BY <4>1, <4>2
    <3> HIDE DEF t, ids, lands
    <3> QED  BY <1>2, <1>4, <2>1, <3>1, <3>2 DEF SlotOK
  <2> QED  BY <2>2, <2>3
<1> HIDE DEF t, ids, lands, placed
<1>8. TargetsInv'
  BY <1>1, <1>2, <1>4, <1>7 DEF RunInv, TargetsInv, LinkPhases
<1>9. PublishedInv'
  BY <1>1, <1>2, <1>4 DEF RunInv, PublishedInv, IsImport, Start
<1>10. BlobInv'
  BY <1>1, <1>2 DEF RunInv, BlobInv
<1> QED  BY <1>1, <1>2, <1>8, <1>9, <1>10, LateStep

LEMMA LockRunStep ==
  ASSUME LInv, RunInv, Lock
  PROVE  RunInv'
<1>1. /\ phase = "lock" /\ phase' = "done" /\ phase \in Late /\ phase' \in Late
      /\ cg' = Cleanup(cg) /\ UNCHANGED <<mod, at, ctx, pending, image, why>>
  BY DEF Lock, Late, LinkPhases
<1>2. Shape(cg) /\ IsSeq(cg.funcs) /\ cg.queue = <<>>
  BY <1>1, NothingPending DEF LayoutInv, CodeOK
<1>3. /\ cg'.funcs = [k \in DOMAIN cg.funcs |-> Destroy(cg.funcs[k])]
      /\ cg'.idx = cg.idx /\ cg'.queue = <<>> /\ cg'.tables = cg.tables
  BY <1>1, <1>2 DEF Cleanup, Shape
<1>4. ASSUME NEW k \in DOMAIN cg.funcs
      PROVE  cg'.funcs[k] = cg.funcs[k] /\ cg.funcs[k].blob = "null" /\ cg.funcs[k].freed = 1
  <2>1. cg.funcs[k].blob = "null" /\ cg.funcs[k].freed = 1
    BY <1>1 DEF RunInv, BlobInv, LinkPhases
  <2> QED  BY <1>3, <2>1 DEF Destroy
<1>5. BlobInv'
  BY <1>1, <1>3, <1>4 DEF BlobInv, LinkPhases
<1>6. TargetsInv'
  <2>1. \A t, s : Covers(t, s)' = Covers(t, s)
    BY <1>1 DEF Covers, Placed
  <2>2. ASSUME NEW t, NEW s, SlotOK(t, s)
        PROVE  SlotOK(t, s)'
    BY <1>1, <2>1, <2>2 DEF SlotOK
  <2> QED  BY <1>1, <1>3, <2>2 DEF RunInv, TargetsInv, LinkPhases
<1>7. PublishedInv'
  BY <1>1 DEF RunInv, PublishedInv, LinkPhases, IsImport, Start
<1> QED  BY <1>1, <1>2, <1>3, <1>4, <1>5, <1>6, <1>7, LateStep

-----------------------------------------------------------------------------
(* A compilation that fails.                                               *)

LEMMA RunTypes ==
  ASSUME LInv, RunInv
  PROVE  TypeOK
<1>1. /\ CtxOK(ctx) /\ IsSeq(ctx.ids) /\ mod \in Modules /\ at \in Nat \ {0}
      /\ phase \in Phases /\ why = "none" /\ phase # "failed"
  BY DEF RunInv, CtxOK, LInv, PhaseInv, Phases, Following
<1>2. LayoutInv
  BY <1>1 DEF LInv
<1>3. DOMAIN ctx.ids \subseteq 0 .. Len(ctx.ids)
  BY <1>1, ListFacts
<1>4. Current \subseteq DOMAIN ctx.ids
  BY <1>1, CurrentFacts
<1>5. \A f \in DOMAIN ctx.body : ctx.body[f] \in 0 .. Len(ctx.ids)
  <2>1. Len(ctx.ids) \in Nat
    BY <1>1, ListFacts
  <2>2. 0 \in 0 .. Len(ctx.ids)
    BY <2>1
  <2> QED  BY <1>1, <1>3, <2>2 DEF CtxOK
<1>6. \A c \in ToSet(pending) : c.do \in {"emit", "push"} => c.arg \in DOMAIN ctx.ids
  <2>1. \A c \in ToSet(pending) : c.do \in {"emit", "push"} => c.arg \in Current
    BY DEF RunInv, CallsInv
  <2> QED  BY <1>4, <2>1
<1>7. /\ ToSet(cg.queue) \subseteq DOMAIN ctx.ids
      /\ \A id \in DOMAIN cg.idx : cg.idx[id] \in Fns
  BY <1>4 DEF RunInv, EmitInv, Fns
<1>8. cg.code \in Nat /\ cg.rodata \in 0 .. SizeRange - 1
  BY <1>2 DEF LayoutInv, CodeOK, PoolsOK
<1>9. /\ ToSet(ctx.queue) \subseteq DOMAIN ctx.body
      /\ \A f \in DOMAIN ctx.thunk : ctx.thunk[f] \in DOMAIN ctx.ids
  BY <1>1 DEF CtxOK
<1>10. phase \in DOMAIN Following \cup {"alloc", "lock", "done", "failed", "crashed"}
  BY <1>1 DEF Phases
<1> QED  BY <1>1, <1>5, <1>6, <1>7, <1>8, <1>9, <1>10 DEF TypeOK

(* A handle before the cleanup path: of a blob, null, or garbage. *)
Handle(fn) ==
  /\ DOMAIN fn = FnFields
  /\ \/ fn.blob = "live" /\ fn.freed = 0
     \/ fn.blob \in {"null", "wild"} /\ fn.freed \in {0, 1}

LEMMA FailedStep ==
  ASSUME LInv, RunInv, NEW reason \in {"external", "unused_import", "segment"}, NEW c, Fail(reason, c),
         Shape(c), IsSeq(c.funcs), c.idx = cg.idx, c.code = cg.code, c.rodata = cg.rodata,
         DOMAIN cg.funcs \subseteq DOMAIN c.funcs,
         \A k \in DOMAIN c.funcs : Handle(c.funcs[k])
  PROVE  CInv'
<1>1. /\ phase' = "failed" /\ why' = reason /\ cg' = Cleanup(c) /\ pending' = <<>>
      /\ UNCHANGED <<mod, at, ctx, image>>
  BY DEF Fail
<1>2. /\ cg'.funcs = [k \in DOMAIN c.funcs |-> Destroy(c.funcs[k])]
      /\ cg'.queue = <<>> /\ cg'.idx = cg.idx /\ cg'.code = cg.code /\ cg'.rodata = cg.rodata
  BY <1>1 DEF Cleanup, Shape
<1>3. TypeOK'
  BY <1>1, <1>2, RunTypes, EmptyList DEF TypeOK, Fns
<1>4. ASSUME NEW k \in DOMAIN c.funcs
      PROVE  Destroy(c.funcs[k]).blob # "live" /\ Destroy(c.funcs[k]).freed <= 1
  BY DEF Destroy, Handle, FnFields
<1>5. BlobsFreedOnce'
  BY <1>2, <1>4 DEF BlobsFreedOnce, Fns
<1> QED  BY <1>1, <1>3, <1>5 DEF CInv, Broken

(* Every handle is that of a blob, or the linker has cleared it. *)
LEMMA RunHandles ==
  ASSUME LInv, RunInv
  PROVE  Shape(cg) /\ IsSeq(cg.funcs) /\ \A k \in DOMAIN cg.funcs : Handle(cg.funcs[k])
<1>1. LayoutInv
  BY DEF LInv, RunInv, Phases, Following
<1> QED  BY <1>1 DEF RunInv, BlobInv, LayoutInv, CodeOK, Handle

LEMMA CleanFail ==
  ASSUME LInv, RunInv, NEW reason \in {"external", "unused_import", "segment"}, Fail(reason, cg)
  PROVE  CInv'
BY RunHandles, FailedStep

LEMMA EmitFailsStep ==
  ASSUME LInv, RunInv, NEW id, EmitFails(cg, id)
  PROVE  CInv'
<1>1. PICK garbage \in {"null", "wild"} :
        Fail("external",
             [cg EXCEPT !.funcs = Append(@, [id |-> id, blob |-> garbage, freed |-> 0, entry |-> 0, size |-> 0,
                                             pool |-> -1, constants |-> 0, align |-> 1, refs |-> <<>>])])
  BY DEF EmitFails
<1> DEFINE fn == [id |-> id, blob |-> garbage, freed |-> 0, entry |-> 0, size |-> 0,
                  pool |-> -1, constants |-> 0, align |-> 1, refs |-> <<>>]
           c == [cg EXCEPT !.funcs = Append(cg.funcs, fn)]
<1>2. Fail("external", c)
  BY <1>1
<1>3. Handle(fn)
  BY DEF Handle, FnFields
<1> HIDE DEF fn
<1>4. /\ Shape(c) /\ c.funcs = Append(cg.funcs, fn)
      /\ c.idx = cg.idx /\ c.code = cg.code /\ c.rodata = cg.rodata
  BY RunHandles DEF Shape
<1> HIDE DEF c
<1>5. /\ IsSeq(c.funcs) /\ DOMAIN cg.funcs \subseteq DOMAIN c.funcs
      /\ \A k \in DOMAIN c.funcs : Handle(c.funcs[k])
  <2>1. /\ IsSeq(c.funcs) /\ Len(cg.funcs) \in Nat /\ DOMAIN cg.funcs = 1 .. Len(cg.funcs)
        /\ DOMAIN c.funcs = 1 .. Len(cg.funcs) + 1
        /\ \A k \in 1 .. Len(cg.funcs) : c.funcs[k] = cg.funcs[k]
        /\ c.funcs[Len(cg.funcs) + 1] = fn
    BY <1>4, RunHandles, AppendFacts
  <2>2. ASSUME NEW k \in DOMAIN c.funcs
        PROVE  Handle(c.funcs[k])
    <3>1. CASE k \in 1 .. Len(cg.funcs)
      BY <2>1, <3>1, RunHandles
    <3>2. CASE k = Len(cg.funcs) + 1
      BY <1>3, <2>1, <3>2
    <3> QED  BY <2>1, <3>1, <3>2
  <2> QED  BY <2>1, <2>2
<1> QED  BY <1>2, <1>4, <1>5, FailedStep

-----------------------------------------------------------------------------
(* The theorems.                                                           *)

LEMMA ClosureInit ==
  ASSUME Init
  PROVE  QueueAt /\ CInv
<1>1. /\ mod \in Modules /\ phase = "exports" /\ at = 1 /\ why = "none" /\ pending = <<>>
      /\ ctx = [ids |-> <<>>, body |-> Nothing, thunk |-> Nothing, queue |-> <<>>, used |-> {}]
      /\ cg.funcs = <<>> /\ cg.idx = Nothing /\ cg.queue = <<>>
  BY DEF Init
<1>2. DOMAIN Nothing = {}
  BY DEF Nothing
<1>3. CtxOK(ctx)
  <2>1. ctx.ids = <<>> /\ ctx.body = Nothing /\ ctx.thunk = Nothing /\ ctx.queue = <<>> /\ ctx.used = {}
    BY <1>1
  <2>2. ctx = [ids |-> ctx.ids, body |-> ctx.body, thunk |-> ctx.thunk, queue |-> ctx.queue, used |-> ctx.used]
    BY <1>1
  <2> QED  BY <1>2, <2>1, <2>2, EmptyList DEF CtxOK
<1>4. CallsInv
  BY <1>1, EmptyList DEF CallsInv
<1>5. BuildInv
  BY <1>1, <1>2 DEF BuildInv, IRPhases
<1>6. PreparedInv
  <2>1. \A i \in DOMAIN mod.exports : at <= i
    BY <1>1, ModuleFacts, ListFacts
  <2> QED  BY <1>1, <2>1 DEF PreparedInv
<1>7. EmitInv
  BY <1>1, <1>2, EmptyList DEF EmitInv, EmitPhases, IRPhases
<1>8. RootsInv /\ BlobInv /\ TargetsInv /\ PublishedInv
  BY <1>1, EmptyList DEF RootsInv, BlobInv, TargetsInv, PublishedInv, IRPhases, LinkPhases
<1>9. RunInv
  BY <1>1, <1>3, <1>4, <1>5, <1>6, <1>7, <1>8 DEF RunInv, Phases, Following
<1> QED  BY <1>1, <1>9 DEF CInv, QueueAt, Broken

(* No call is pending and no loop runs after a failure or a crash. *)
LEMMA FailedStops ==
  ASSUME LInv, Broken
  PROVE  ~Next
<1>1. pending = <<>> /\ phase \in {"failed", "crashed"}
  BY DEF LInv, PhaseInv, EarlyPhases, EmitPhases, Broken
<1> QED
  BY <1>1 DEF Next, Advance, Abort, PrepareRoot, PrepareSegment, PrepareElem, BuildNext, BuildCall, TryRoots,
              TryFunction, RegisterImport, PopQueue, CodegenFunction, PushCallee, LayTable, Allocate, Link,
              FillExport, FillSegment, Faults, Written, Lock, Running, Broken, InList, Calling, Following

(* Undefined behaviour ends a compilation that has gone well so far. *)
LEMMA FaultRunStep ==
  ASSUME LInv, RunInv, Faults
  PROVE  CInv'
<1>1. phase' = "crashed" /\ UNCHANGED <<mod, at, ctx, pending, cg, image, why>>
  BY DEF Faults
<1>2. TypeOK'
  BY <1>1, RunTypes DEF TypeOK, Fns
<1>3. why' = "none"
  BY <1>1 DEF RunInv
<1> QED  BY <1>1, <1>2, <1>3 DEF CInv, Broken, BlobsFreedOnce

LEMMA ClosureStep ==
  ASSUME LInv, QueueAt, CInv, Next
  PROVE  CInv'
<1>1. ~Broken /\ phase # "failed"
  BY FailedStops DEF Broken
<1>2. RunInv
  BY <1>1 DEF CInv
<1>3. ASSUME RunInv'
      PROVE  CInv'
  <2>1. ~Broken'
    BY <1>3 DEF RunInv, Phases, Following, Broken
  <2> QED  BY <1>3, <2>1 DEF CInv
<1>4. CASE Advance
  BY <1>2, <1>3, <1>4, AdvanceRunStep
<1>5. CASE Abort
  BY <1>2, <1>5, CleanFail DEF Abort
<1>6. CASE PrepareRoot
  BY <1>2, <1>3, <1>6, PrepareRootStep
<1>7. CASE PrepareSegment
  BY <1>2, <1>3, <1>7, PrepareSegmentStep
<1>8. CASE PrepareElem
  BY <1>2, <1>3, <1>8, PrepareElemStep
<1>9. CASE BuildNext
  BY <1>2, <1>3, <1>9, BuildNextStep
<1>10. CASE BuildCall
  BY <1>2, <1>3, <1>10, BuildCallStep
<1>11. CASE TryRoots
  BY <1>2, <1>3, <1>11, TryRootsStep
<1>12. CASE TryFunction
  BY <1>2, <1>3, <1>12, TryFunctionStep
<1>13. CASE RegisterImport
  <2>1. CASE Fail("unused_import", cg)
    BY <1>2, <2>1, CleanFail
  <2>2. CASE phase' # "failed"
    BY <1>2, <1>3, <1>13, <2>2, RegisterImportStep
  <2>3. Fail("unused_import", cg) \/ phase' # "failed"
    BY <1>1, <1>13 DEF RegisterImport, Step
  <2> QED  BY <2>1, <2>2, <2>3
<1>14. CASE PopQueue
  BY <1>2, <1>3, <1>14, PopQueueStep
<1>15. CASE CodegenFunction
  <2>1. CASE EmitFails(cg, Arg)
    BY <1>2, <2>1, EmitFailsStep
  <2>2. CASE phase' # "failed"
    BY <1>2, <1>3, <1>15, <2>2, CodegenFunctionRunStep
  <2>3. EmitFails(cg, Arg) \/ phase' # "failed"
    BY <1>1, <1>15 DEF CodegenFunction, Return
  <2> QED  BY <2>1, <2>2, <2>3
<1>16. CASE PushCallee
  BY <1>2, <1>3, <1>16, PushCalleeStep
<1>17. CASE LayTable
  BY <1>2, <1>3, <1>17, LayTableRunStep
<1>18. CASE Allocate
  BY <1>2, <1>3, <1>18, AllocateRunStep
<1>19. CASE Link
  BY <1>2, <1>3, <1>19, LinkRunStep
<1>20. CASE FillExport
  BY <1>2, <1>3, <1>20, FillExportRunStep
<1>21. CASE FillSegment
  <2>1. CASE Fail("segment", cg)
    BY <1>2, <2>1, CleanFail
  <2>2. CASE phase' # "failed"
    BY <1>2, <1>3, <1>21, <2>2, FillSegmentRunStep
  <2>3. Fail("segment", cg) \/ phase' # "failed"
    <3>1. \A f \in ToSet(Item.funcs) : f \in DOMAIN ctx.thunk /\ Visited(cg, ctx.thunk[f])
      BY <1>2, <1>21, Callable DEF FillSegment
    <3> QED  BY <1>1, <1>21, <3>1 DEF FillSegment, Step
  <2> QED  BY <2>1, <2>2, <2>3
<1>22. CASE Lock
  BY <1>2, <1>3, <1>22, LockRunStep
<1>23. CASE Faults
  BY <1>2, <1>23, FaultRunStep
<1> QED
  BY <1>4, <1>5, <1>6, <1>7, <1>8, <1>9, <1>10, <1>11, <1>12, <1>13, <1>14, <1>15, <1>16, <1>17, <1>18,
     <1>19, <1>20, <1>21, <1>22, <1>23 DEF Next

LEMMA ClosureStutter ==
  ASSUME QueueAt, CInv, UNCHANGED vars
  PROVE  QueueAt' /\ CInv'
<1>1. UNCHANGED <<mod, phase, at, ctx, pending, cg, image, why>>
  BY DEF vars
<1>2. All' = All /\ Start' = Start /\ Current' = Current
  BY <1>1 DEF All, Start, Current, IsImport
<1>3. \A t, s : Covers(t, s)' = Covers(t, s)
  BY <1>1 DEF Covers, Placed
<1>4. ASSUME NEW t, NEW s
      PROVE  SlotOK(t, s)' <=> SlotOK(t, s)
  BY <1>1, <1>3 DEF SlotOK
<1>5. ASSUME NEW f
      PROVE  Done(f)' <=> Done(f)
  BY <1>1 DEF Done, Out, Called, IsImport
<1>6. CASE Broken
  BY <1>1, <1>6 DEF CInv, TypeOK, Fns, BlobsFreedOnce, Broken, QueueAt
<1>7. CASE ~Broken
  <2>1. RunInv
    BY <1>7 DEF CInv
  <2>2. CtxOK(ctx)' /\ CallsInv' /\ BuildInv' /\ PreparedInv'
    BY <1>1, <1>2, <2>1 DEF RunInv, CtxOK, CallsInv, BuildInv, PreparedInv, Called, IsImport
  <2>3. EmitInv'
    BY <1>1, <1>2, <2>1 DEF RunInv, EmitInv, Called
  <2>4. RootsInv'
    BY <1>1, <1>2, <1>5, <2>1 DEF RunInv, RootsInv, Called
  <2>5. BlobInv' /\ TargetsInv' /\ PublishedInv'
    BY <1>1, <1>2, <1>4, <2>1 DEF RunInv, BlobInv, TargetsInv, PublishedInv, IsImport
  <2> QED  BY <1>1, <1>7, <2>1, <2>2, <2>3, <2>4, <2>5 DEF RunInv, CInv, QueueAt, Broken
<1> QED  BY <1>6, <1>7

(* jit_emit_spidir and jit_codegen: the invariant from which the other     *)
(* theorems follow.                                                        *)
THEOREM ClosureInvariant == Spec => [](LInv /\ QueueAt /\ CInv)
<1>1. Init => QueueAt /\ CInv
  BY ClosureInit
<1>2. LInv /\ QueueAt /\ CInv /\ [Next]_vars => QueueAt' /\ CInv'
  BY ClosureStep, QueueAtStep, ClosureStutter
<1> QED  BY <1>1, <1>2, LayoutInvariant, PTL DEF Spec

(* The ids, queues and calls of a compilation lead only to functions that  *)
(* exist, whatever jit_codegen's loops are at.                             *)
THEOREM TypesHold == Spec => []TypeOK
<1>1. LInv /\ QueueAt /\ CInv => TypeOK
  BY RunTypes DEF CInv
<1> QED  BY <1>1, ClosureInvariant, PTL

-----------------------------------------------------------------------------
(* The imports.  What jit_emit_spidir prepares is used: it is in every set *)
(* that has the roots and is closed under calls.                           *)

Roots == ToSet(mod.exports) \cup ToSet(Start) \cup UNION {ToSet(e.funcs) : e \in ToSet(mod.elems)}

ClosedSet(S) ==
  /\ S \subseteq All /\ Roots \subseteq S
  /\ \A g \in S : IsImport(g) \/ ToSet(mod.calls[g]) \subseteq S

UsedInv ==
  \A S : ClosedSet(S) =>
    /\ DOMAIN ctx.body \subseteq S
    /\ \A x : Called("prepare", x) \/ Called("thunk", x) => x \in S

(* The loop over the imports has found those that it has passed. *)
ImportsInv ==
  \A f \in 0 .. mod.imports - 1 :
    \/ f \in DOMAIN ctx.body
    \/ phase \in IRPhases \cup {"cg_exports", "failed", "crashed"}
    \/ phase = "cg_imports" /\ at <= f + 1

WhyInv == why = "unused_import" => UnusedImport

UInv == UsedInv /\ ImportsInv /\ WhyInv

LEMMA UnusedFacts ==
  UnusedImport <=> \E f \in 0 .. mod.imports - 1 : \E S : ClosedSet(S) /\ f \notin S
BY DEF UnusedImport, ClosedSet, Roots, All

LEMMA UsedInit == ASSUME Init PROVE UInv
<1>1. DOMAIN ctx.body = {} /\ pending = <<>> /\ phase = "exports" /\ why = "none"
  BY DEF Init, Nothing
<1> QED  BY <1>1, NoCalls DEF UInv, UsedInv, ImportsInv, WhyInv, IRPhases

(* A step that prepares, and is about to prepare, nothing new. *)
LEMMA UsedKept ==
  ASSUME UsedInv, mod' = mod,
         \A S : ClosedSet(S) =>
           /\ DOMAIN ctx'.body \subseteq S
           /\ \A x : Called("prepare", x)' \/ Called("thunk", x)' => x \in S
  PROVE  UsedInv'
BY DEF UsedInv, ClosedSet, Roots, Start, All, IsImport

(* The steps that prepare functions, or are about to. *)
LEMMA UsedStep ==
  ASSUME LInv, RunInv, UsedInv,
         PrepareRoot \/ PrepareSegment \/ PrepareElem \/ BuildNext \/ BuildCall
  PROVE  UsedInv' /\ phase \in IRPhases /\ phase' = phase /\ why' = why
<1>0. /\ mod' = mod /\ mod \in Modules /\ CtxOK(ctx) /\ CallsInv
  BY DEF LInv, PhaseInv, RunInv, PrepareRoot, PrepareSegment, PrepareElem, BuildNext, BuildCall, Step, Return
<1>1. CASE PrepareRoot
  <2>1. /\ phase \in {"exports", "start"} /\ pending' = pending /\ ctx' = Prepare(ctx, Item)
        /\ phase' = phase /\ why' = why
    BY <1>1 DEF PrepareRoot, InList, Step
  <2>2. /\ IsSeq(Work) /\ Work = (IF phase = "exports" THEN mod.exports ELSE Start)
        /\ ToSet(Work) \subseteq All
    BY <1>0, <2>1, ModuleFacts DEF Work
  <2>3. at \in DOMAIN Work /\ Item = Work[at]
    BY <1>1, <2>2, LoopItem DEF PrepareRoot
  <2>4. Item \in All /\ Item \in Roots
    BY <2>2, <2>3 DEF ToSet, Roots
  <2>5. DOMAIN ctx'.body = DOMAIN ctx.body \cup {Item}
    BY <1>0, <2>1, <2>4, PrepareFacts
  <2>6. \A d, x : Called(d, x)' <=> Called(d, x)
    BY <2>1 DEF Called
  <2> QED  BY <1>0, <2>1, <2>4, <2>5, <2>6, UsedKept DEF UsedInv, ClosedSet, IRPhases
<1>2. CASE PrepareSegment
  <2>1. /\ phase = "elems" /\ pending' = Calls("thunk", Item.funcs) /\ ctx' = ctx
        /\ phase' = phase /\ why' = why
    BY <1>2 DEF PrepareSegment, InList, Step
  <2>2. IsSeq(Work) /\ Work = mod.elems
    BY <1>0, <2>1, ModuleFacts DEF Work
  <2>3. at \in DOMAIN mod.elems /\ Item = mod.elems[at]
    BY <1>2, <2>2, LoopItem DEF PrepareSegment
  <2>4. IsSeq(Item.funcs) /\ ToSet(Item.funcs) \subseteq Roots
    <3>1. Item \in ToSet(mod.elems)
      BY <2>3 DEF ToSet
    <3> QED  BY <1>0, <2>3, <3>1, ModuleFacts DEF SegmentOK, Roots
  <2>5. ToSet(pending') = {[do |-> "thunk", arg |-> x] : x \in ToSet(Item.funcs)}
    BY <2>1, <2>4, CallsFacts
  <2>6. \A x : Called("prepare", x)' \/ Called("thunk", x)' => x \in ToSet(Item.funcs)
    BY <2>5 DEF Called
  <2> QED  BY <1>0, <2>1, <2>4, <2>6, UsedKept DEF UsedInv, ClosedSet, IRPhases
<1>3. CASE PrepareElem \/ BuildCall
  <2>1. PICK do \in {"thunk", "prepare"} :
          /\ Calling(do) /\ pending' = Tail(pending) /\ phase' = phase /\ why' = why
          /\ ctx' = IF do = "thunk" THEN MakeThunk(Prepare(ctx, Arg), Arg) ELSE Prepare(ctx, Arg)
    BY <1>3 DEF PrepareElem, BuildCall, Return
  <2>2. /\ Called(do, Arg)
        /\ \A d, x : Called(d, x)' => Called(d, x)
    BY <1>0, <2>1, HeadCall DEF Called
  <2>3. phase \in IRPhases /\ Arg \in All
    <3>1. ASSUME NEW e \in ToSet(pending), e.do \in {"thunk", "prepare"}
          PROVE  phase \in {"elems", "build"} /\ e.arg \in All
      BY <1>0, <3>1 DEF CallsInv
    <3> QED  BY <2>2, <3>1 DEF Called, IRPhases
  <2>4. DOMAIN ctx'.body = DOMAIN ctx.body \cup {Arg}
    <3> DEFINE c == Prepare(ctx, Arg)
    <3>1. CtxOK(c) /\ DOMAIN c.body = DOMAIN ctx.body \cup {Arg}
      BY <1>0, <2>3, PrepareFacts
    <3> HIDE DEF c
    <3>2. MakeThunk(c, Arg).body = c.body
      <4>1. Arg \in DOMAIN c.body
        BY <3>1
      <4> QED  BY <3>1, <4>1, MakeThunkFacts
    <3> QED  BY <2>1, <3>1, <3>2 DEF c
  <2> QED  BY <1>0, <2>1, <2>2, <2>3, <2>4, UsedKept DEF UsedInv
<1>4. CASE BuildNext
  <2> DEFINE f == Last(ctx.queue)
  <2>1. /\ phase = "build" /\ ctx.queue # <<>> /\ pending' = Calls("prepare", mod.calls[f])
        /\ ctx' = [ctx EXCEPT !.queue = Front(ctx.queue), !.used = ctx.used \cup mod.indirect[f]]
        /\ phase' = phase /\ why' = why
    BY <1>4 DEF BuildNext
  <2>2. f \in DOMAIN ctx.body /\ ~IsImport(f) /\ f \in All
    <3>1. ToSet(ctx.queue) = {f} \cup ToSet(Front(ctx.queue))
      BY <1>0, <2>1, FrontFacts DEF CtxOK
    <3> QED  BY <1>0, <3>1 DEF CtxOK
  <2>3. IsSeq(mod.calls[f])
    BY <1>0, <2>2, ModuleFacts
  <2> HIDE DEF f
  <2>4. ToSet(pending') = {[do |-> "prepare", arg |-> x] : x \in ToSet(mod.calls[f])}
    BY <2>1, <2>3, CallsFacts
  <2>5. \A x : Called("prepare", x)' \/ Called("thunk", x)' => x \in ToSet(mod.calls[f])
    BY <2>4 DEF Called
  <2>6. ctx'.body = ctx.body
    BY <1>0, <2>1 DEF CtxOK
  <2> QED  BY <1>0, <2>1, <2>2, <2>5, <2>6, UsedKept DEF UsedInv, ClosedSet, IRPhases
<1> QED  BY <1>1, <1>2, <1>3, <1>4

(* An import that has not been prepared is not used: the functions that    *)
(* have been prepared are closed under calls.                              *)
LEMMA UnusedFound ==
  ASSUME LInv, RunInv, RegisterImport, Fail("unused_import", cg)
  PROVE  UnusedImport
<1>1. phase = "cg_imports" /\ InList({"cg_imports"}) /\ mod.imports \in Nat
  <2>1. mod \in Modules
    BY DEF LInv, PhaseInv
  <2> QED  BY <2>1, CodegenAssumption DEF RegisterImport, InList, ModuleOK
<1>2. Work = [i \in 1 .. mod.imports |-> i - 1] /\ IsSeq(Work)
  <2>1. Work = [i \in 1 .. mod.imports |-> i - 1]
    BY <1>1 DEF Work
  <2>2. Work \in Seq(Int)
    BY <1>1, <2>1
  <2> QED  BY <2>1, <2>2 DEF IsSeq
<1>3. Item \in 0 .. mod.imports - 1
  BY <1>1, <1>2, LoopItem
<1>4. Item \notin DOMAIN ctx.body
  BY <1>1 DEF RegisterImport, Fail, Step
<1>5. ClosedSet(DOMAIN ctx.body)
  <2>1. phase \notin IRPhases /\ phase \notin {"exports", "elems", "start"}
    BY <1>1 DEF IRPhases
  <2>2. DOMAIN ctx.body \subseteq All /\ DOMAIN ctx.thunk \subseteq DOMAIN ctx.body
    BY DEF RunInv, CtxOK
  <2>3. Roots \subseteq DOMAIN ctx.body
    BY <2>1, <2>2 DEF RunInv, PreparedInv, Roots, ToSet
  <2>4. \A g \in DOMAIN ctx.body : IsImport(g) \/ ToSet(mod.calls[g]) \subseteq DOMAIN ctx.body
    BY <2>1, Complete
  <2> QED  BY <2>2, <2>3, <2>4 DEF ClosedSet
<1> QED  BY <1>3, <1>4, <1>5, UnusedFacts

(* The steps after jit_emit_spidir, and those that end a loop or all. *)
LEMMA OtherUsed ==
  ASSUME LInv, CInv, CInv', UsedInv, Next,
         ~(PrepareRoot \/ PrepareSegment \/ PrepareElem \/ BuildNext \/ BuildCall)
  PROVE  mod' = mod /\ ctx' = ctx /\ UsedInv'
<1>1. mod' = mod /\ ctx' = ctx
  BY DEF Next, Advance, Abort, TryRoots, TryFunction, RegisterImport, PopQueue, CodegenFunction, EmitFails,
         PushCallee, LayTable, Allocate, Link, FillExport, FillSegment, Faults, Lock, Fail, Step, Return
<1>2. RunInv
  BY FailedStops DEF CInv
<1>3. \/ pending' = pending \/ pending' = <<>>
      \/ phase' = phase /\ (phase \in EmitPhases \/ Calling("try") \/ Calling("emit") \/ Calling("push"))
  BY DEF Next, Advance, Abort, TryRoots, TryFunction, RegisterImport, PopQueue, CodegenFunction, EmitFails,
         PushCallee, LayTable, Allocate, Link, FillExport, FillSegment, Faults, Lock, Fail, Step, Return,
         EmitPhases, InList
<1>4. ASSUME NEW x, Called("prepare", x)' \/ Called("thunk", x)'
      PROVE  Called("prepare", x) \/ Called("thunk", x)
  <2>1. CASE pending' = pending
    BY <1>4, <2>1 DEF Called
  <2>2. CASE pending' = <<>>
    BY <1>4, <2>2, EmptyList DEF Called
  <2>3. CASE phase' = phase /\ (phase \in EmitPhases \/ Calling("try") \/ Calling("emit") \/ Calling("push"))
    <3>1. phase \in EmitPhases
      <4>1. ASSUME NEW do \in {"try", "emit", "push"}, Calling(do)
            PROVE  phase \in EmitPhases
        <5>1. ASSUME NEW e \in ToSet(pending), e.do = do
              PROVE  phase \in EmitPhases
          BY <1>2, <5>1 DEF RunInv, CallsInv, EmitPhases
        <5>2. [do |-> do, arg |-> Arg] \in ToSet(pending)
          BY <1>2, <4>1, HeadCall DEF RunInv
        <5> QED  BY <5>1, <5>2
      <4> QED  BY <2>3, <4>1
    <3>2. CallsInv'
      BY <2>3, <3>1 DEF CInv, RunInv, Broken, EmitPhases
    <3>3. ASSUME NEW e \in ToSet(pending')
          PROVE  e.do # "prepare" /\ e.do # "thunk"
      BY <2>3, <3>1, <3>2 DEF CallsInv, EmitPhases
    <3> QED  BY <1>4, <3>3 DEF Called
  <2> QED  BY <1>3, <2>1, <2>2, <2>3
<1>5. UsedInv'
  BY <1>1, <1>4, UsedKept DEF UsedInv
<1> QED  BY <1>1, <1>5

LEMMA ImportsStep ==
  ASSUME LInv, CInv, ImportsInv, Next, mod' = mod, ctx' = ctx
  PROVE  ImportsInv'
<1>0. mod.imports \in Nat /\ at \in Nat \ {0}
  BY CodegenAssumption DEF LInv, PhaseInv, ModuleOK
<1>1. CASE Advance
  <2>1. at' = 1 /\ (phase = "cg_imports" => at > mod.imports)
    <3>1. phase = "cg_imports" => Work = [i \in 1 .. mod.imports |-> i - 1]
      BY DEF Work
    <3>2. Len([i \in 1 .. mod.imports |-> i - 1]) = mod.imports
      BY <1>0
    <3> QED  BY <1>1, <3>1, <3>2 DEF Advance
  <2>2. ASSUME NEW f \in 0 .. mod.imports - 1
        PROVE  1 <= f + 1 /\ (at > mod.imports => ~(at <= f + 1))
    BY <1>0
  <2> QED  BY <1>1, <2>1, <2>2, AdvanceFrom DEF ImportsInv, IRPhases
<1>2. CASE RegisterImport
  <2>1. CASE phase' = "failed"
    BY <2>1 DEF ImportsInv
  <2>2. CASE phase' # "failed"
    <3>1. /\ phase = "cg_imports" /\ phase' = phase /\ at' = at + 1 /\ at <= Len(Work)
          /\ Item \in DOMAIN ctx.body
      BY <1>2, <2>2 DEF RegisterImport, InList, Fail, Step
    <3>2. Work = [i \in 1 .. mod.imports |-> i - 1] /\ Len(Work) = mod.imports
      BY <1>0, <3>1 DEF Work
    <3>3. Item = at - 1
      BY <1>0, <3>1, <3>2 DEF Item
    <3>4. ASSUME NEW f \in 0 .. mod.imports - 1, at <= f + 1
          PROVE  f = at - 1 \/ at + 1 <= f + 1
      BY <1>0, <3>4
    <3> QED  BY <3>1, <3>3, <3>4 DEF ImportsInv, IRPhases
  <2> QED  BY <2>1, <2>2
<1>3. CASE ~Advance /\ ~RegisterImport
  <2>1. \/ phase' \in {"failed", "crashed"}
        \/ phase' = phase /\ (phase # "cg_imports" \/ at' = at)
        \/ phase = "alloc" /\ phase' = "link"
        \/ phase = "lock" /\ phase' = "done"
    BY <1>3 DEF Next, Abort, PrepareRoot, PrepareSegment, PrepareElem, BuildNext, BuildCall, TryRoots,
                TryFunction, PopQueue, CodegenFunction, EmitFails, PushCallee, LayTable, Allocate, Link,
                FillExport, FillSegment, Faults, Lock, Fail, Step, Return, InList
  <2> QED  BY <2>1 DEF ImportsInv, IRPhases
<1> QED  BY <1>1, <1>2, <1>3

LEMMA UsedNext ==
  ASSUME LInv, CInv, CInv', UInv, Next
  PROVE  UInv'
<1>0. UsedInv /\ ImportsInv /\ WhyInv
  BY DEF UInv
<1>1. RunInv
  BY FailedStops DEF CInv
<1>2. CASE PrepareRoot \/ PrepareSegment \/ PrepareElem \/ BuildNext \/ BuildCall
  <2>1. UsedInv' /\ phase \in IRPhases /\ phase' = phase /\ why' = why
    BY <1>0, <1>1, <1>2, UsedStep
  <2>2. why = "none"
    BY <1>1 DEF RunInv
  <2> QED  BY <2>1, <2>2 DEF UInv, ImportsInv, WhyInv
<1>3. CASE ~(PrepareRoot \/ PrepareSegment \/ PrepareElem \/ BuildNext \/ BuildCall)
  <2>1. mod' = mod /\ ctx' = ctx /\ UsedInv'
    BY <1>0, <1>3, OtherUsed
  <2>2. ImportsInv'
    BY <1>0, <2>1, ImportsStep
  <2>3. why' = "unused_import" => RegisterImport /\ Fail("unused_import", cg)
    <3>1. why = "none"
      BY <1>1 DEF RunInv
    <3> QED
      BY <1>3, <3>1 DEF Next, Advance, Abort, TryRoots, TryFunction, RegisterImport, PopQueue, CodegenFunction,
                        EmitFails, PushCallee, LayTable, Allocate, Link, FillExport, FillSegment, Faults, Lock,
                        Fail, Step, Return
  <2>4. UnusedImport' = UnusedImport
    BY <2>1 DEF UnusedImport, Start, IsImport
  <2>5. WhyInv'
    BY <1>1, <2>3, <2>4, UnusedFound DEF WhyInv
  <2> QED  BY <2>1, <2>2, <2>5 DEF UInv
<1> QED  BY <1>2, <1>3

LEMMA UsedStutter == ASSUME UInv, UNCHANGED vars PROVE UInv'
<1>1. UNCHANGED <<mod, phase, at, ctx, pending, cg, image, why>>
  BY DEF vars
<1>2. UsedInv'
  BY <1>1, UsedKept DEF UInv, UsedInv, Called
<1>3. UnusedImport' = UnusedImport
  BY <1>1 DEF UnusedImport, Start, IsImport
<1> QED  BY <1>1, <1>2, <1>3 DEF UInv, ImportsInv, WhyInv

(* jit_emit_spidir and the loop over the imports in jit_codegen_functions: *)
(* the invariant about imports.                                            *)
THEOREM ImportsInvariant == Spec => []UInv
<1>1. Init => UInv
  BY UsedInit
<1>2. (LInv /\ QueueAt /\ CInv) /\ (LInv /\ QueueAt /\ CInv)' /\ UInv /\ [Next]_vars => UInv'
  BY UsedNext, UsedStutter
<1> QED  BY <1>1, <1>2, ClosureInvariant, PTL DEF Spec

(* jit_try_codegen_function, the loop over the imports, jit_codegen_link   *)
(* and jit_codegen_fill_tables find what they look up, whichever calls of  *)
(* a module the optimiser removes; only the lookup of an import that the   *)
(* module does not use fails.                                              *)
THEOREM LookupsSucceed == Spec => []ClosureComplete
<1>1. LInv /\ QueueAt /\ CInv => why \notin {"unprepared", "unresolved"}
  BY DEF CInv, RunInv
<1>2. UInv => (why = "unused_import" => UnusedImport)
  BY DEF UInv, WhyInv
<1> QED  BY <1>1, <1>2, ClosureInvariant, ImportsInvariant, PTL DEF ClosureComplete

(* The loop over the imports in jit_codegen_functions: whatever else a     *)
(* module has, it does not compile if it has an import that it never uses. *)
THEOREM UnusedImportsRefused == Spec => []UnusedRefused
<1>1. UInv => UnusedRefused
  <2> SUFFICES ASSUME UInv, phase = "done", NEW f \in 0 .. mod.imports - 1, NEW S, ClosedSet(S)
               PROVE  f \in S
    BY UnusedFacts DEF UnusedRefused
  <2>1. f \in DOMAIN ctx.body
    BY DEF UInv, ImportsInv, IRPhases
  <2> QED  BY <2>1 DEF UInv, UsedInv
<1> QED  BY <1>1, ImportsInvariant, PTL

(* jit_codegen_function: a function that is called from several places, or *)
(* queued several times, is emitted once and found at its own code.        *)
THEOREM NoCodeTwice == Spec => []EmittedOnce
<1>1. LInv /\ QueueAt /\ CInv => EmittedOnce
  <2> SUFFICES ASSUME CInv, ~Broken PROVE EmittedOnce
    BY DEF EmittedOnce
  <2>1. EmitInv
    BY DEF CInv, RunInv
  <2>2. \A j, k \in Fns : cg.funcs[j].id = cg.funcs[k].id => j = k
    BY <2>1 DEF EmitInv, Fns
  <2>3. ASSUME NEW id
        PROVE  id \in DOMAIN cg.idx <=> \E k \in Fns : id = cg.funcs[k].id
    BY <2>1 DEF EmitInv, Fns
  <2> QED  BY <2>1, <2>2, <2>3 DEF EmittedOnce, EmitInv
<1> QED  BY <1>1, ClosureInvariant, PTL

(* jit_codegen_link and the cleanup path of jit_codegen: between them they *)
(* destroy every blob once, wherever the compilation stops.                *)
THEOREM BlobsAreFreed == Spec => []BlobsFreedOnce
<1>1. LInv /\ QueueAt /\ CInv => BlobsFreedOnce
  <2>1. CASE Broken
    BY <2>1 DEF CInv
  <2>2. CASE ~Broken
    BY <2>2 DEF CInv, RunInv, BlobInv, BlobsFreedOnce, Broken, Fns, LinkPhases
  <2> QED  BY <2>1, <2>2
<1> QED  BY <1>1, ClosureInvariant, PTL

(* jit_codegen_fill_tables and jit_get_indirect: what call_indirect reads  *)
(* is null or the marked thunk of the function that the module put there,  *)
(* however its segments overlap.                                           *)
THEOREM TablesLeadToThunks == Spec => []IndirectTargets
<1>1. LInv /\ QueueAt /\ CInv => IndirectTargets
  <2> SUFFICES ASSUME LInv, CInv, phase = "done" PROVE IndirectTargets
    BY DEF IndirectTargets
  <2>1. RunInv /\ CtxOK(ctx) /\ TargetsInv /\ PublishedInv
    BY DEF CInv, RunInv, Broken
  <2>2. /\ DOMAIN image.slots = ctx.used
        /\ \A t \in ctx.used :
             DOMAIN image.slots[t] = 1 .. mod.tables[t] /\ \A s \in 1 .. mod.tables[t] : SlotOK(t, s)
    BY <2>1 DEF TargetsInv, LinkPhases
  <2>3. ASSUME NEW t \in DOMAIN image.slots, NEW s \in DOMAIN image.slots[t]
        PROVE  LET covers == {i \in DOMAIN mod.elems : /\ mod.elems[i].table = t
                                                       /\ s - mod.elems[i].offset \in DOMAIN mod.elems[i].funcs}
                   slot == image.slots[t][s]
               IN  /\ slot = 0 <=> covers = {}
                   /\ slot # 0 =>
                        /\ \E i \in covers :
                             /\ \A j \in covers : j <= i
                             /\ ctx.ids[slot] = [kind |-> "thunk", of |-> mod.elems[i].funcs[s - mod.elems[i].offset]]
                        /\ slot \in image.endbr
    <3> DEFINE slot == image.slots[t][s]
    <3>1. Covers(t, s) = {i \in DOMAIN mod.elems : /\ mod.elems[i].table = t
                                                   /\ s - mod.elems[i].offset \in DOMAIN mod.elems[i].funcs}
      BY DEF Covers, Placed
    <3>2. SlotOK(t, s)
      BY <2>2
    <3>3. \A f \in DOMAIN ctx.thunk : ctx.thunk[f] # 0 /\ ctx.ids[ctx.thunk[f]] = [kind |-> "thunk", of |-> f]
      <4>1. \A f \in DOMAIN ctx.thunk : ctx.thunk[f] \in Current
        BY DEF Current
      <4> QED  BY <2>1, <4>1, CurrentFacts DEF CtxOK
    <3>4. CASE Covers(t, s) = {}
      BY <3>1, <3>2, <3>4 DEF SlotOK
    <3>5. CASE Covers(t, s) # {}
      <4>1. PICK i \in Covers(t, s) :
              LET f == mod.elems[i].funcs[s - mod.elems[i].offset]
              IN  /\ \A j \in Covers(t, s) : j <= i
                  /\ f \in DOMAIN ctx.thunk /\ slot = ctx.thunk[f]
        BY <3>2, <3>5 DEF SlotOK
      <4>2. slot \in image.endbr
        BY <3>2, <3>5 DEF SlotOK
      <4>3. slot # 0 /\ ctx.ids[slot] = [kind |-> "thunk", of |-> mod.elems[i].funcs[s - mod.elems[i].offset]]
        BY <3>3, <4>1
      <4> QED  BY <3>1, <3>5, <4>1, <4>2, <4>3
    <3> QED  BY <3>4, <3>5
  <2>4. \A f \in ToSet(mod.exports) \cup ToSet(Start) : IsImport(f) \/ ctx.body[f] \in image.endbr
    BY <2>1 DEF PublishedInv, LinkPhases, ToSet
  <2> QED  BY <2>3, <2>4 DEF IndirectTargets
<1> QED  BY <1>1, ClosureInvariant, PTL

=============================================================================
