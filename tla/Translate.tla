----------------------------- MODULE Translate -----------------------------
(***************************************************************************)
(* One wasm function body translated to SSA: jit_build_function and the    *)
(* opcode handlers of src/jit/inst.c.  A state holds the label stack, the  *)
(* current SSA value of every wasm local and the IR built so far; every    *)
(* handler that jit_wasm_opcode or jit_skip_unreachable may run next is an *)
(* action.  The byte stream is abstracted to the choice of the next        *)
(* opcode and its immediates; arithmetic, memory and call handlers are     *)
(* abstracted to the operands they pop and the value they push.            *)
(*                                                                         *)
(* The IR is spidir's, as the handlers use its builder: blocks closed by   *)
(* one terminator, values defined in a block, phis whose k-th input        *)
(* belongs to the k-th branch built into their block.  A value is named    *)
(* for where it is defined, <<block, slot, n>>: slot 0 is the n-th value   *)
(* computed, any other the phi for that slot of the block's label.         *)
(*                                                                         *)
(* An operator X_Y next to X is X with a fault; nothing here uses it.      *)
(***************************************************************************)
EXTENDS Integers, Sequences, FiniteSets, SequencesExt

CONSTANTS
  LocalType,   (* the types of the parameters and locals, in index order    *)
  RetType,     (* the function's result type, or NoType                     *)
  BlockTypes,  (* the result types block and loop are opened with           *)
  Signatures,  (* [pops, push] of the plain opcodes in the code             *)
  I32, I64, F32, F64, (* the types of spidir that wasm values have          *)
  NoType,      (* SPIDIR_TYPE_NONE                                          *)
  Depths,      (* the label indices br and br_if are given                  *)
  Tables,      (* [targets, default] of the br_table opcodes in the code    *)
  CallTypes,   (* [pops, push] of the types of the functions called         *)
  Validated,   (* whether the code has passed wasm validation, which this   *)
               (* program leaves to others: the targets of a br_table agree *)
  MaxOps       (* bound: opcodes per function body                          *)

-----------------------------------------------------------------------------
(* What the opcodes without control flow pop and push, handler by handler. *)

ValueTypes == {I32, I64, F32, F64}
Ints == {I32, I64}
Floats == {F32, F64}

Sig(pops, push) == [pops |-> pops, push |-> push]

Nops == {Sig(<<>>, NoType)}
Selects == {Sig(<<t, t, I32>>, t) : t \in ValueTypes}
GlobalGets == {Sig(<<>>, t) : t \in ValueTypes}
GlobalSets == {Sig(<<t>>, NoType) : t \in ValueTypes}

(* Memory is addressed by an i32. *)
Loads == {Sig(<<I32>>, t) : t \in ValueTypes}
Stores == {Sig(<<I32, t>>, NoType) : t \in ValueTypes}
SizeAndGrow == {Sig(<<>>, I32), Sig(<<I32>>, I32)}

(* memory.init, copy and fill take three numbers, data.drop none. *)
Inits == {Sig(<<I32, I32, I32>>, NoType), Sig(<<>>, NoType)}
CopyAndFill == {Sig(<<I32, I32, I32>>, NoType)}

Consts == {Sig(<<>>, t) : t \in ValueTypes}
IntCompares == {Sig(<<t>>, I32) : t \in Ints} \cup {Sig(<<t, t>>, I32) : t \in Ints}
FloatCompares == {Sig(<<t, t>>, I32) : t \in Floats}

(* iconv, trunc_sat, itof, fconv and bitcast. *)
IntConversions == {Sig(<<s>>, t) : s \in Ints, t \in Ints}
Truncations == {Sig(<<s>>, t) : s \in Floats, t \in Ints}
ToFloats == {Sig(<<s>>, t) : s \in Ints, t \in Floats}
FloatConversions == {Sig(<<F64>>, F32), Sig(<<F32>>, F64)}
Bitcasts == {Sig(<<F32>>, I32), Sig(<<F64>>, I64), Sig(<<I32>>, F32), Sig(<<I64>>, F64)}

Shifts == {Sig(<<t, t>>, t) : t \in Ints}
FloatArithmetic == {Sig(<<t>>, t) : t \in Floats} \cup {Sig(<<t, t>>, t) : t \in Floats}
IntArithmetic == {Sig(<<t>>, t) : t \in Ints} \cup {Sig(<<t, t>>, t) : t \in Ints}

NotifyAndWait == {Sig(<<I32, I32>>, I32)} \cup {Sig(<<I32, t, I64>>, I32) : t \in Ints}
AtomicAccesses == {Sig(<<I32, t>>, NoType) : t \in Ints} \cup {Sig(<<I32>>, t) : t \in Ints}
AtomicUpdates == {Sig(<<I32, t, t>>, t) : t \in Ints} \cup {Sig(<<I32, t>>, t) : t \in Ints}

PlainOpcodes ==
  Nops \cup Selects \cup GlobalGets \cup GlobalSets
  \cup Loads \cup Stores \cup SizeAndGrow \cup Inits \cup CopyAndFill
  \cup Consts \cup IntCompares \cup FloatCompares
  \cup IntConversions \cup Truncations \cup ToFloats \cup FloatConversions \cup Bitcasts
  \cup Shifts \cup FloatArithmetic \cup IntArithmetic
  \cup NotifyAndWait \cup AtomicAccesses \cup AtomicUpdates

ASSUME TranslateAssumption ==
  /\ MaxOps \in Nat
  /\ Depths \subseteq Nat
  /\ Validated \in BOOLEAN
  /\ NoType \notin ValueTypes
  /\ LocalType \in Seq(ValueTypes)
  /\ {RetType} \cup BlockTypes \subseteq ValueTypes \cup {NoType}
  /\ Signatures \subseteq PlainOpcodes
  /\ \A sig \in CallTypes :
       sig.pops \in Seq(ValueTypes) /\ sig.push \in ValueTypes \cup {NoType}
  /\ \A tbl \in Tables : tbl.targets \in Seq(Nat) /\ tbl.default \in Nat

VARIABLES
  ir,      (* the IR: into (the branches into each block), cur, term,       *)
           (* values (how many were computed), phis, hollow                 *)
  labels,  (* func->labels, innermost last                                  *)
  locals,  (* func->locals: the value of each local at the cursor           *)
  status,  (* "running", "done", or "failed" after a CHECK                  *)
  ops,     (* opcodes consumed                                              *)
  nest,    (* history: open frames by the structure of the code alone       *)
  entry    (* history: values standing for the locals (and the result) when *)
           (* translation goes on in a block several branches reach         *)

vars == <<ir, labels, locals, status, ops, nest, entry>>

Invalid == <<0, 0, 0>>   \* SPIDIR_VALUE_INVALID
NoPhi == Invalid         \* a phi id of UINT32_MAX

LocalIdx == DOMAIN LocalType

-----------------------------------------------------------------------------
(* spidir's builder, as far as the handlers rely on it.                    *)

NewBlock(m) == Len(m.into) + 1

CreateBlocks(m, n) == [m EXCEPT !.into = @ \o [i \in 1 .. n |-> <<>>]]

(* A value computed at the cursor. *)
NewValue(m) == <<m.cur, 0, m.values + 1>>

Define(m) == [m EXCEPT !.values = @ + 1]

Phi(b, slot) == <<b, slot, 0>>

Edge(src, vals) == [src |-> src, vals |-> vals]

Terminate(m) == [m EXCEPT !.term = @ \cup {m.cur}]

(* The cursor's block is closed with a branch to dst, or to one of two. *)
Arrive(m, dst, vals) == [m EXCEPT !.into[dst] = Append(@, Edge(m.cur, vals))]

Jump(m, dst, vals) == Terminate(Arrive(m, dst, vals))

Fork(m, dst, vals, other, rest) == Terminate(Arrive(Arrive(m, dst, vals), other, rest))

At(m, b) == [m EXCEPT !.cur = b]

(* Some phis, new or old, get these inputs. *)
WithPhis(m, new) ==
  [m EXCEPT !.phis = [p \in DOMAIN @ \cup DOMAIN new |-> IF p \in DOMAIN new THEN new[p] ELSE @[p]]]

-----------------------------------------------------------------------------
(* Labels and operand stacks.                                              *)

Label(block, rtype, loop, merge) ==
  [block |-> block, stack |-> <<>>, merge |-> merge, reached |-> loop,
   inputs |-> 0, loop |-> loop, terminated |-> FALSE, depth |-> 0, rtype |-> rtype]

TopIdx == Len(labels)
Top == labels[TopIdx]
Target(d) == TopIdx - d

(* The label the code calls the function body: a branch to it returns. *)
IsBody(t) == t = 1

(* Branches to a block carry its result, branches to a loop nothing. *)
MergesResult(l) == l.rtype # NoType /\ ~l.loop

Operand(t) ==
  CASE IsBody(t) /\ RetType # NoType -> <<RetType>>
    [] ~IsBody(t) /\ MergesResult(labels[t]) -> <<labels[t].rtype>>
    [] OTHER -> <<>>

CanPop(tys) ==
  LET base == Len(Top.stack) - Len(tys)
  IN  base >= 0 /\ \A i \in DOMAIN tys : Top.stack[base + i].type = tys[i]

Drop(stack, n) == SubSeq(stack, 1, Len(stack) - n)

(* The value n places from the top of the current operand stack. *)
Peek(n) == Top.stack[Len(Top.stack) - n].val

(* What a branch to label t carries: the locals and the result it merges.  *)
Carried(t, res) == locals \o (IF MergesResult(labels[t]) THEN <<res>> ELSE <<>>)

Live == status = "running" /\ labels # <<>> /\ ops < MaxOps /\ ~Top.terminated

Consume == ops' = ops + 1 /\ status' = status

-----------------------------------------------------------------------------
(* jit_wasm_prepare_branch                                                 *)

(* v arrives at slot i of a label: the first is copied, and nothing is to  *)
(* do while all agree; then a phi takes over.                              *)
Disagrees(l, i, v) == l.reached /\ v # l.merge[i].val

MergeSlot(l, i, v) ==
  CASE ~l.reached -> [val |-> v, phi |-> NoPhi]
    [] Disagrees(l, i, v) /\ l.merge[i].phi = NoPhi ->
         [val |-> Phi(l.block, i), phi |-> Phi(l.block, i)]
    [] OTHER -> l.merge[i]

(* A new phi repeats the old value for every branch that came before. *)
Backfill_Missing(l, i) == <<>>

Backfill(l, i) == [k \in 1 .. l.inputs |-> l.merge[i].val]

PhiInputs(l, i) == IF l.merge[i].phi = NoPhi THEN Backfill(l, i) ELSE ir.phis[Phi(l.block, i)]

(* All branches that one opcode builds, hits[t] of them to label t: those  *)
(* to one label carry the same, so each is merged as often as it is hit.   *)
Once(t) == [u \in DOMAIN labels |-> IF u = t THEN 1 ELSE 0]

PreparedLabels(ls, hits, res) ==
  [t \in DOMAIN ls |->
     IF hits[t] = 0 THEN ls[t]
     ELSE [ls[t] EXCEPT !.merge = [i \in DOMAIN Carried(t, res) |->
                                     MergeSlot(labels[t], i, Carried(t, res)[i])],
                        !.reached = TRUE,
                        !.inputs = @ + hits[t]]]

Touched(t, res) ==
  {i \in DOMAIN Carried(t, res) : Disagrees(labels[t], i, Carried(t, res)[i])}

LabelOf(b) == CHOOSE t \in DOMAIN labels : labels[t].block = b

PreparedPhis(hits, res) ==
  LET hit == {t \in DOMAIN labels : hits[t] > 0} IN
  [p \in UNION {{Phi(labels[t].block, i) : i \in Touched(t, res)} : t \in hit} |->
     LET t == LabelOf(p[1]) IN
     PhiInputs(labels[t], p[2]) \o [k \in 1 .. hits[t] |-> Carried(t, res)[p[2]]]]

(* The current label once n operands are popped. *)
Popped(n) == [labels EXCEPT ![TopIdx].stack = Drop(@, n)]

Close(ls) == [ls EXCEPT ![TopIdx].terminated = TRUE]

-----------------------------------------------------------------------------

Init ==
  /\ ir = [into |-> << <<>> >>, cur |-> 1, term |-> {}, values |-> Len(LocalType),
           phis |-> [v \in {} |-> <<>>], hollow |-> {}]
  /\ labels = <<Label(0, NoType, FALSE, <<>>)>>
  /\ locals = [i \in LocalIdx |-> <<1, 0, i>>]
  /\ status = "running"
  /\ ops = 0
  /\ nest = 1
  /\ entry = [b \in {} |-> <<>>]

(* Plain opcodes: pop, compute in the current block, push.  A constant of  *)
(* the module, as global.get may push one, is built in the block as well.  *)
Operation(sig) ==
  /\ Live
  /\ CanPop(sig.pops)
  /\ LET rest == Popped(Len(sig.pops))
         out == [val |-> NewValue(ir), type |-> sig.push]
     IN  \/ /\ sig.push = NoType
            /\ labels' = rest
            /\ ir' = ir
         \/ /\ sig.push # NoType
            /\ labels' = [rest EXCEPT ![TopIdx].stack = Append(@, out)]
            /\ ir' = Define(ir)
  /\ Consume
  /\ UNCHANGED <<locals, nest, entry>>

(* A direct call prepares its callee, which is the subject of Codegen.     *)
Call(sig) == Operation(sig)

(* call_indirect splits the block for its bounds check and calls in the    *)
(* in-bounds block; the other one traps.                                   *)
CallIndirect(sig) ==
  /\ Live
  /\ CanPop(Append(sig.pops, I32))
  /\ LET ok == NewBlock(ir)
         trap == ok + 1
         split == Fork(CreateBlocks(ir, 2), ok, locals, trap, locals)
         called == At(Terminate(At(split, trap)), ok)
         rest == Popped(Len(sig.pops) + 1)
         out == [val |-> NewValue(called), type |-> sig.push]
     IN  \/ /\ sig.push = NoType
            /\ labels' = rest
            /\ ir' = called
         \/ /\ sig.push # NoType
            /\ labels' = [rest EXCEPT ![TopIdx].stack = Append(@, out)]
            /\ ir' = Define(called)
  /\ Consume
  /\ UNCHANGED <<locals, nest, entry>>

DropOperand ==
  /\ Live
  /\ Top.stack # <<>>
  /\ labels' = Popped(1)
  /\ Consume
  /\ UNCHANGED <<ir, locals, nest, entry>>

LocalGet(i) ==
  /\ Live
  /\ locals[i] # Invalid
  /\ labels' = [labels EXCEPT ![TopIdx].stack = Append(@, [val |-> locals[i], type |-> LocalType[i]])]
  /\ Consume
  /\ UNCHANGED <<ir, locals, nest, entry>>

(* local.set pops its operand, local.tee leaves it. *)
LocalSet(i) ==
  /\ Live
  /\ CanPop(<<LocalType[i]>>)
  /\ locals' = [locals EXCEPT ![i] = Peek(0)]
  /\ \/ labels' = Popped(1)
     \/ labels' = labels
  /\ Consume
  /\ UNCHANGED <<ir, nest, entry>>

Block(rtype) ==
  /\ Live
  /\ labels' = Append(labels, Label(NewBlock(ir), rtype, FALSE, <<>>))
  /\ ir' = CreateBlocks(ir, 1)
  /\ nest' = nest + 1
  /\ Consume
  /\ UNCHANGED <<locals, entry>>

(* A loop head gets a phi for every local at once: its back edges are not  *)
(* known yet.  The slots hold no value, so every back edge adds an input.  *)
LoopSlot_Shared(v) == [val |-> v, phi |-> v]

LoopSlot(v) == [val |-> Invalid, phi |-> v]

Loop(rtype) ==
  /\ Live
  /\ LET head == NewBlock(ir)
         phis == [p \in {Phi(head, i) : i \in LocalIdx} |-> <<locals[p[2]]>>]
     IN  /\ ir' = WithPhis(At(Jump(CreateBlocks(ir, 1), head, locals), head), phis)
         /\ locals' = [i \in LocalIdx |-> Phi(head, i)]
         /\ labels' = Append(labels, Label(head, rtype, TRUE, [i \in LocalIdx |-> LoopSlot(Phi(head, i))]))
         /\ entry' = [b \in DOMAIN entry \cup {head} |-> IF b = head THEN locals' ELSE entry[b]]
  /\ nest' = nest + 1
  /\ Consume

-----------------------------------------------------------------------------
(* Branches.                                                               *)

Br(d) ==
  /\ Live
  /\ d < TopIdx
  /\ CanPop(Operand(Target(d)))
  /\ LET t == Target(d)
         n == Len(Operand(t))
         res == IF n = 0 THEN Invalid ELSE Peek(0)
     IN  \/ /\ IsBody(t)
            /\ ir' = Terminate(ir)
            /\ labels' = Close(Popped(n))
         \/ /\ ~IsBody(t)
            /\ ir' = Jump(WithPhis(ir, PreparedPhis(Once(t), res)), labels[t].block, Carried(t, res))
            /\ labels' = Close(PreparedLabels(Popped(n), Once(t), res))
  /\ Consume
  /\ UNCHANGED <<locals, nest, entry>>

(* The carried operand stays on the stack for the fallthrough. *)
BrIf(d) ==
  /\ Live
  /\ d < TopIdx
  /\ CanPop(<<I32>>)
  /\ Len(Top.stack) > Len(Operand(Target(d)))
  /\ LET t == Target(d)
         res == IF Operand(t) = <<>> THEN Invalid ELSE Peek(1)
         cont == NewBlock(ir)
         ret == cont + 1
     IN  \/ /\ IsBody(t)
            /\ LET split == Fork(CreateBlocks(ir, 2), ret, locals, cont, locals)
               IN  ir' = At(Terminate(At(split, ret)), cont)
            /\ labels' = Popped(1)
         \/ /\ ~IsBody(t)
            /\ LET merged == WithPhis(CreateBlocks(ir, 1), PreparedPhis(Once(t), res))
               IN  ir' = At(Fork(merged, labels[t].block, Carried(t, res), cont, locals), cont)
            /\ labels' = PreparedLabels(Popped(1), Once(t), res)
  /\ Consume
  /\ UNCHANGED <<locals, nest, entry>>

(* One comparison block per entry, one shared return block; with an empty  *)
(* table the first comparison block is created all the same.  Branch 0 is  *)
(* the default, from the block of the br_table; branch j comes from the    *)
(* j-th comparison.                                                        *)
BrTable(tbl) ==
  /\ Live
  /\ \A d \in {tbl.targets[i] : i \in DOMAIN tbl.targets} \cup {tbl.default} : d < TopIdx
  /\ Validated => \A i \in DOMAIN tbl.targets : Operand(Target(tbl.targets[i])) = Operand(Target(tbl.default))
  /\ CanPop(Append(Operand(Target(tbl.default)), I32))
  /\ LET branches == 0 .. Len(tbl.targets)
         to(j) == Target(IF j = 0 THEN tbl.default ELSE tbl.targets[j])
         n == Len(Operand(to(0)))
         res == IF n = 0 THEN Invalid ELSE Peek(1)
         hits == [t \in DOMAIN labels |->
                    IF IsBody(t) THEN 0 ELSE Cardinality({j \in branches : to(j) = t})]
         cases == IF tbl.targets = <<>> THEN 1 ELSE Len(tbl.targets)
         case(j) == Len(ir.into) + j
         ret == case(cases + 1)
         haveRet == \E j \in branches : IsBody(to(j))
         branch(j) == Edge(IF j = 0 THEN ir.cur ELSE case(j),
                           IF IsBody(to(j)) THEN locals ELSE Carried(to(j), res))
         dest(j) == IF IsBody(to(j)) THEN ret ELSE labels[to(j)].block
         arriving(b) == LET js == SetToSeq({j \in branches : dest(j) = b})
                        IN  [k \in DOMAIN js |-> branch(js[k])]
         before(b) == CASE b \in DOMAIN ir.into -> ir.into[b]
                        [] b = case(1) -> <<Edge(ir.cur, locals)>>
                        [] b \in case(2) .. case(cases) -> <<Edge(b - 1, locals)>>
                        [] OTHER -> <<>>
     IN  /\ ir' = [WithPhis(ir, PreparedPhis(hits, res)) EXCEPT
                     !.into = [b \in 1 .. case(cases) + (IF haveRet THEN 1 ELSE 0) |->
                                 before(b) \o arriving(b)],
                     !.term = @ \cup {ir.cur} \cup {case(i) : i \in DOMAIN tbl.targets}
                                \cup (IF haveRet THEN {ret} ELSE {}),
                     !.hollow = IF tbl.targets = <<>> THEN @ \cup {case(1)} ELSE @,
                     !.cur = CASE haveRet -> ret
                               [] ~haveRet /\ tbl.targets # <<>> -> case(cases)
                               [] OTHER -> @]
         /\ labels' = Close(PreparedLabels(Popped(n + 1), hits, res))
  /\ Consume
  /\ UNCHANGED <<locals, nest, entry>>

(* return drops every operand below the result. *)
Return ==
  /\ Live
  /\ CanPop(Operand(1))
  /\ ir' = Terminate(ir)
  /\ labels' = [Close(labels) EXCEPT ![TopIdx].stack = <<>>]
  /\ Consume
  /\ UNCHANGED <<locals, nest, entry>>

Unreachable ==
  /\ Live
  /\ ir' = Terminate(ir)
  /\ labels' = Close(labels)
  /\ Consume
  /\ UNCHANGED <<locals, nest, entry>>

-----------------------------------------------------------------------------
(* jit_wasm_end.  Every variant pops the label and leaves the operand      *)
(* stack of a fallthrough balanced.                                        *)

Falls == ~Top.terminated

Outer == Front(labels)

(* The continuation is dead: the enclosing label is, too. *)
OuterClosed_Forgotten == Outer

OuterClosed == [Outer EXCEPT ![TopIdx - 1].terminated = TRUE]

OuterWith(rtype, v) ==
  IF rtype = NoType THEN Outer
  ELSE [Outer EXCEPT ![TopIdx - 1].stack = Append(@, [val |-> v, type |-> rtype])]

EndBody ==
  /\ TopIdx = 1
  /\ Falls => CanPop(Operand(1)) /\ Len(Top.stack) = Len(Operand(1))
  /\ ir' = IF Falls THEN Terminate(ir) ELSE ir
  /\ labels' = <<>>
  /\ UNCHANGED <<locals, entry>>

(* The locals after a block: the merged values. *)
AfterBlock_Stale(l) == locals

AfterBlock(l) == [i \in LocalIdx |-> l.merge[i].val]

(* The operand after a block: the merged result, not the one falling in. *)
AfterResult_FallIn(l, res) == IF Falls THEN res ELSE l.merge[Len(l.merge)].val

AfterResult(l, res) == l.merge[Len(l.merge)].val

(* The continuation of a label that nothing reaches. *)
Seal_Forgotten(m) == m

Seal(m) == Terminate(m)

EndBlock ==
  /\ TopIdx > 1
  /\ ~Top.loop
  /\ LET n == Len(Operand(TopIdx))
         res == IF n = 0 THEN Invalid ELSE Peek(0)
         once == Once(TopIdx)
         out == IF Falls
                THEN [ir |-> Jump(WithPhis(ir, PreparedPhis(once, res)), Top.block, Carried(TopIdx, res)),
                      label |-> PreparedLabels(labels, once, res)[TopIdx]]
                ELSE [ir |-> ir, label |-> Top]
         l == out.label
         result == AfterResult(l, res)
     IN  /\ Falls => CanPop(Operand(TopIdx)) /\ Len(Top.stack) = n
         /\ \/ /\ ~l.reached
               /\ ir' = Seal(At(out.ir, l.block))
               /\ labels' = OuterClosed
               /\ UNCHANGED <<locals, entry>>
            \/ /\ l.reached
               /\ ir' = At(out.ir, l.block)
               /\ locals' = AfterBlock(l)
               /\ labels' = OuterWith(l.rtype, IF MergesResult(l) THEN result ELSE Invalid)
               /\ entry' = [b \in DOMAIN entry \cup {l.block} |->
                              IF b # l.block THEN entry[b]
                              ELSE locals' \o (IF MergesResult(l) THEN <<result>> ELSE <<>>)]

(* A loop is left by falling through only, with the locals as they are. *)
AfterLoop_Merged(l) == [i \in LocalIdx |-> l.merge[i].val]

AfterLoop(l) == locals

EndLoop ==
  /\ TopIdx > 1
  /\ Top.loop
  /\ LET next == NewBlock(ir)
         n == IF Top.rtype = NoType THEN 0 ELSE 1
     IN  \/ /\ Falls
            /\ n = 1 => CanPop(<<Top.rtype>>)
            /\ Len(Top.stack) = n
            /\ ir' = At(Jump(CreateBlocks(ir, 1), next, locals), next)
            /\ labels' = OuterWith(Top.rtype, IF n = 1 THEN Peek(0) ELSE Invalid)
         \/ /\ ~Falls
            /\ ir' = Seal(At(CreateBlocks(ir, 1), next))
            /\ labels' = OuterClosed
  /\ locals' = AfterLoop(Top)
  /\ entry' = entry

(* The end of a label, reached in live code or after its dead code. *)
End ==
  /\ status = "running" /\ labels # <<>> /\ ops < MaxOps
  /\ Top.terminated => Top.depth = 0
  /\ EndBody \/ EndBlock \/ EndLoop
  /\ nest' = nest - 1
  /\ Consume

-----------------------------------------------------------------------------
(* jit_skip_unreachable: only the nesting of dead code is tracked.         *)

Dead == status = "running" /\ labels # <<>> /\ ops < MaxOps /\ Top.terminated

SkipOpen_Flat(d) == d

SkipOpen(d) == d + 1

SkipFrame ==
  /\ Dead
  /\ labels' = [labels EXCEPT ![TopIdx].depth = SkipOpen(@)]
  /\ nest' = nest + 1
  /\ Consume
  /\ UNCHANGED <<ir, locals, entry>>

SkipEnd ==
  /\ Dead
  /\ Top.depth > 0
  /\ labels' = [labels EXCEPT ![TopIdx].depth = @ - 1]
  /\ nest' = nest - 1
  /\ Consume
  /\ UNCHANGED <<ir, locals, entry>>

SkipPlain ==
  /\ Dead
  /\ Consume
  /\ UNCHANGED <<ir, labels, locals, nest, entry>>

-----------------------------------------------------------------------------

(* The code is used up exactly when the last label closes. *)
Finish ==
  /\ status = "running"
  /\ labels = <<>>
  /\ status' = "done"
  /\ UNCHANGED <<ir, labels, locals, ops, nest, entry>>

(* A CHECK fails: truncated or unknown code, a label index out of range, a *)
(* missing or mistyped operand, an unbalanced stack, code after the last   *)
(* end or labels left at the end of the code, or a failed allocation.  The *)
(* labels are freed and the caller destroys the whole IR.                  *)
Reject ==
  /\ status = "running"
  /\ status' = "failed"
  /\ labels' = <<>>
  /\ locals' = <<>>
  /\ ir' = [into |-> <<>>, cur |-> 0, term |-> {}, values |-> 0,
            phis |-> [v \in {} |-> <<>>], hollow |-> {}]
  /\ entry' = [b \in {} |-> <<>>]
  /\ nest' = 0
  /\ ops' = 0

Next ==
  \/ \E sig \in CallTypes : Call(sig)
  \/ \E sig \in Signatures : Operation(sig)
  \/ \E sig \in CallTypes : CallIndirect(sig)
  \/ DropOperand
  \/ \E i \in LocalIdx : LocalGet(i) \/ LocalSet(i)
  \/ \E rtype \in BlockTypes : Block(rtype) \/ Loop(rtype)
  \/ \E d \in Depths : Br(d) \/ BrIf(d)
  \/ \E tbl \in Tables : BrTable(tbl)
  \/ Return
  \/ Unreachable
  \/ End
  \/ SkipFrame
  \/ SkipEnd
  \/ SkipPlain
  \/ Finish
  \/ Reject

Spec == Init /\ [][Next]_vars

-----------------------------------------------------------------------------

Blocks == DOMAIN ir.into

EdgesInto(b) == ir.into[b]

(* Where a value is defined, and whether it is. *)
DefinedIn(v) == v[1]

IsValue(v) ==
  /\ DefinedIn(v) \in Blocks
  /\ IF v[2] = 0 THEN v[3] \in 1 .. ir.values ELSE v \in DOMAIN ir.phis

(* The blocks reachable from the entry along paths that avoid a block. *)
ReachableAvoiding(avoid) ==
  LET succ(set) == {b \in Blocks : \E e \in ToSet(EdgesInto(b)) : e.src \in set}
      step[n \in 0 .. Len(ir.into)] ==
        IF n = 0 THEN {1} \ avoid
        ELSE LET before == step[n - 1] IN before \cup (succ(before) \ avoid)
  IN  step[Len(ir.into)]

Dominates(d, b) == b \notin ReachableAvoiding({d})

(* The value that v, seen in block b, has when b is entered by its k-th edge. *)
OnEdge(b, v, k) == IF v \in DOMAIN ir.phis /\ DefinedIn(v) = b THEN ir.phis[v][k] ELSE v

TypeOK ==
  /\ status \in {"running", "done", "failed"}
  /\ ops \in 0 .. MaxOps /\ nest \in 0 .. MaxOps + 1
  /\ ir.term \subseteq Blocks /\ ir.cur \in 0 .. Len(ir.into)
  /\ \A b \in Blocks : \A e \in ToSet(EdgesInto(b)) : e.src \in Blocks
  /\ \A i \in DOMAIN labels : labels[i].block \in 0 .. Len(ir.into) /\ labels[i].inputs \in Nat
  /\ \A i \in DOMAIN locals : IsValue(locals[i])

(* However a block with several predecessors is entered, each local, and   *)
(* the block's result, has there the value it had at the branch taken: the *)
(* phis that prepare_branch creates lazily, back-fills and extends agree   *)
(* edge by edge with the locals at each br, br_if, br_table and end.       *)
MergeCorrect ==
  \A b \in DOMAIN entry : \A k \in DOMAIN EdgesInto(b) : \A i \in DOMAIN entry[b] :
    OnEdge(b, entry[b][i], k) = EdgesInto(b)[k].vals[i]

(* A phi has exactly one input per branch built into its block, also in    *)
(* the middle of the translation and for repeated br_table targets.        *)
PhiPerEdge == \A v \in DOMAIN ir.phis : Len(ir.phis[v]) = Len(EdgesInto(DefinedIn(v)))

(* Code is emitted only into an open block, and skipped only when the      *)
(* block is closed: label->terminated of the innermost label and the state *)
(* of the builder's block never disagree.                                  *)
CursorOpen ==
  status = "running" /\ labels # <<>> =>
    /\ Top.terminated <=> ir.cur \in ir.term
    /\ \A i \in DOMAIN labels : i < TopIdx => ~labels[i].terminated

(* Code that is not skipped can be reached from the function's entry: a    *)
(* label whose continuation nothing reaches closes the enclosing one.      *)
CursorReachable ==
  status = "running" /\ labels # <<>> /\ ~Top.terminated => ir.cur \in ReachableAvoiding({})

(* Every `end` closes the frame it closes in the wasm text, dead code      *)
(* included: labels and unreachable_depth together count the open frames.  *)
FramesMatch ==
  status # "failed" =>
    nest = Len(labels) + (IF labels = <<>> THEN 0 ELSE Top.depth)

(* Every value in a local, on an operand stack or flowing into a phi is    *)
(* defined on every path to its use.                                       *)
ValuesDominate ==
  /\ status = "running" /\ labels # <<>> /\ ~Top.terminated =>
       \A v \in ToSet(locals) \cup UNION {{labels[i].stack[j].val : j \in DOMAIN labels[i].stack} :
                                           i \in DOMAIN labels} :
         Dominates(DefinedIn(v), ir.cur)
  /\ \A v \in DOMAIN ir.phis : \A k \in DOMAIN ir.phis[v] :
       Dominates(DefinedIn(ir.phis[v][k]), EdgesInto(DefinedIn(v))[k].src)

(* A branch to a block that merges a result brings one along: a br_table   *)
(* pops the operand of its default label for all of its targets.           *)
BranchValuesDefined ==
  \A b \in Blocks : \A e \in ToSet(EdgesInto(b)) : Invalid \notin ToSet(e.vals)

(* A finished function has closed every block it created, continuations of *)
(* dead labels included, except the comparison block that an empty         *)
(* br_table leaves open behind its always-false condition.                 *)
BlocksClosed == status = "done" => Blocks \ ir.term = ir.hollow

=============================================================================
