------------------------- MODULE Translate_proofs -------------------------
(***************************************************************************)
(* The SSA that the function translator builds, for every function body:   *)
(* an inductive invariant of Translate, and what follows from it.          *)
(*                                                                         *)
(* Branches come only to the blocks of open labels.  For each of those the *)
(* invariant relates the label's merge slots to the branches built so far; *)
(* once the label is popped no more can come, and its block stays right.   *)
(***************************************************************************)
EXTENDS Translate, FiniteSetTheorems, TLAPS

Value == Nat \X Nat \X Nat

Types == ValueTypes \cup {NoType}

BranchType == [src : Nat, vals : Seq(Value)]

Slot == [val : Value, phi : Value]

LabelType ==
  [block : Nat, stack : Seq([val : Value, type : Types]), merge : Seq(Slot), reached : BOOLEAN,
   inputs : Nat, loop : BOOLEAN, terminated : BOOLEAN, depth : Nat, rtype : Types]

IsPhis(P) ==
  /\ DOMAIN P \subseteq Value
  /\ P = [p \in DOMAIN P |-> P[p]]
  /\ \A p \in DOMAIN P : P[p] \in Seq(Value)

IsIr(m) ==
  /\ m = [into |-> m.into, cur |-> m.cur, term |-> m.term, values |-> m.values,
          phis |-> m.phis, hollow |-> m.hollow]
  /\ m.into \in Seq(Seq(BranchType))
  /\ m.cur \in Nat
  /\ m.term \subseteq Nat
  /\ m.values \in Nat
  /\ IsPhis(m.phis)
  /\ m.hollow \subseteq Nat

Shape ==
  /\ status \in {"running", "done", "failed"}
  /\ IsIr(ir)
  /\ labels \in Seq(LabelType)
  /\ locals \in Seq(Value)
  /\ status # "failed" => Len(locals) = Len(LocalType)
  /\ status # "running" => labels = <<>>
  /\ ops \in 0 .. MaxOps
  /\ nest \in Nat

(* Label 1 is the body; the others have blocks of their own, made in order. *)
(* Only the innermost label can be in dead code.                            *)
ChainOK(ls) ==
  /\ \A s, t \in DOMAIN ls : s < t => ls[s].block < ls[t].block
  /\ ls # <<>> => ls[1].block = 0 /\ ~ls[1].loop /\ ls[1].rtype = NoType /\ ls[1].merge = <<>>
  /\ \A t \in DOMAIN ls : ls[t].block <= Len(ir.into)
  /\ \A t \in DOMAIN ls : t < Len(ls) => ~ls[t].terminated
  /\ \A t \in DOMAIN ls : ~ls[t].terminated => ls[t].depth = 0

Frames == status # "failed" => nest = Len(labels) + (IF labels = <<>> THEN 0 ELSE Top.depth)

OpsInv == nest <= ops + 1

(* The blocks the open blocks and ifs go on in. *)
Pending == {labels[t].block : t \in {u \in DOMAIN labels : u > 1 /\ ~labels[u].loop}}

(* A block without a terminator is waiting for the end of its label, is the *)
(* cursor's, or was left behind by an empty br_table.                       *)
OpenInv ==
  /\ ir.term \subseteq Blocks
  /\ ir.cur \in 0 .. Len(ir.into)
  /\ ir.hollow \subseteq Blocks \ ir.term
  /\ Pending \cap (ir.term \cup ir.hollow) = {}
  /\ \A b \in Blocks \ (ir.term \cup ir.hollow \cup Pending) :
       labels # <<>> /\ ~Top.terminated /\ b = ir.cur
  /\ labels # <<>> =>
       IF Top.terminated THEN ir.cur \in ir.term
       ELSE ir.cur \in Blocks \ (ir.term \cup ir.hollow \cup Pending)

SourcesInv == \A b \in Blocks : \A k \in DOMAIN ir.into[b] : ir.into[b][k].src \in Blocks

(* Slot i of label l, with the branches E into its block and the phis P. *)
SlotOK(l, E, P, i) ==
  LET p == Phi(l.block, i) IN
  IF l.merge[i].phi = NoPhi
  THEN /\ ~l.loop
       /\ \A k \in DOMAIN E : E[k].vals[i] = l.merge[i].val
  ELSE /\ l.merge[i].phi = p
       /\ l.merge[i].val = IF l.loop THEN Invalid ELSE p
       /\ p \in DOMAIN P
       /\ \A k \in DOMAIN E : P[p][k] = E[k].vals[i]

LabelOK(l, E, P) ==
  /\ Len(E) = l.inputs + (IF l.loop THEN 1 ELSE 0)
  /\ l.loop => l.reached
  /\ l.reached => Len(l.merge) = Len(LocalType) + (IF MergesResult(l) THEN 1 ELSE 0)
  /\ ~l.reached => l.merge = <<>> /\ l.inputs = 0
  /\ \A p \in DOMAIN P : p[1] = l.block =>
       p[2] \in DOMAIN l.merge /\ p = Phi(l.block, p[2]) /\ l.merge[p[2]].phi = p
  /\ \A i \in DOMAIN l.merge : SlotOK(l, E, P, i)

LabelsInv ==
  \A t \in DOMAIN labels : t > 1 => LabelOK(labels[t], ir.into[labels[t].block], ir.phis)

PhisInv ==
  \A p \in DOMAIN ir.phis : p[1] \in Blocks /\ p[2] > 0 /\ Len(ir.phis[p]) = Len(ir.into[p[1]])

(* A value that code at the cursor may use: it is not the phi of a block   *)
(* that translation has not come to.                                       *)
Usable(v) == v \in Value /\ IsValue(v) /\ DefinedIn(v) \notin Pending

ValuesInv ==
  /\ \A i \in DOMAIN locals : Usable(locals[i])
  /\ \A t \in DOMAIN labels : \A j \in DOMAIN labels[t].stack : Usable(labels[t].stack[j].val)
  /\ \A t \in DOMAIN labels : \A i \in DOMAIN labels[t].merge :
       labels[t].merge[i].phi = NoPhi => Usable(labels[t].merge[i].val)

EntryInv ==
  /\ entry = [b \in DOMAIN entry |-> entry[b]]
  /\ DOMAIN entry \subseteq Blocks \ Pending
  /\ \A t \in DOMAIN labels : t > 1 /\ labels[t].loop =>
       /\ labels[t].block \in DOMAIN entry
       /\ entry[labels[t].block] = [i \in LocalIdx |-> Phi(labels[t].block, i)]
  /\ \A b \in DOMAIN entry : \A k \in DOMAIN EdgesInto(b) : \A i \in DOMAIN entry[b] :
       OnEdge(b, entry[b][i], k) = EdgesInto(b)[k].vals[i]

Chain == ChainOK(labels)

TrInv ==
  /\ Shape
  /\ Chain
  /\ Frames
  /\ OpsInv
  /\ OpenInv
  /\ SourcesInv
  /\ LabelsInv
  /\ PhisInv
  /\ ValuesInv
  /\ EntryInv

-----------------------------------------------------------------------------
(* Sequences, and the builder's operations.                                *)

(* A function on an initial segment of the naturals is a sequence. *)
LEMMA SeqOfFunction ==
  ASSUME NEW S, NEW n \in Nat, NEW f \in [1 .. n -> S]
  PROVE  f \in Seq(S) /\ Len(f) = n /\ DOMAIN f = 1 .. n
  OBVIOUS

(* Changing the elements of a sequence keeps its length. *)
LEMMA SeqExcept ==
  ASSUME NEW S, NEW s \in Seq(S), NEW i \in DOMAIN s, NEW x \in S
  PROVE  /\ [s EXCEPT ![i] = x] \in Seq(S)
         /\ Len([s EXCEPT ![i] = x]) = Len(s)
         /\ [s EXCEPT ![i] = x][i] = x
         /\ \A j \in DOMAIN s : j # i => [s EXCEPT ![i] = x][j] = s[j]
  OBVIOUS

LEMMA SeqConcat ==
  ASSUME NEW S, NEW s \in Seq(S), NEW t \in Seq(S)
  PROVE  /\ s \o t \in Seq(S)
         /\ Len(s \o t) = Len(s) + Len(t)
         /\ \A k \in 1 .. Len(s) : (s \o t)[k] = s[k]
         /\ \A k \in 1 .. Len(t) : (s \o t)[Len(s) + k] = t[k]
         /\ \A k \in 1 .. Len(s \o t) : k > Len(s) => (s \o t)[k] = t[k - Len(s)]
  OBVIOUS

LEMMA SeqConcatLen ==
  ASSUME NEW S, NEW s \in Seq(S), NEW t \in Seq(S)
  PROVE  Len(s \o t) = Len(s) + Len(t)
  OBVIOUS

LEMMA SeqAppend ==
  ASSUME NEW S, NEW s \in Seq(S), NEW x \in S
  PROVE  /\ Append(s, x) \in Seq(S)
         /\ Len(Append(s, x)) = Len(s) + 1
         /\ \A k \in 1 .. Len(s) : Append(s, x)[k] = s[k]
         /\ Append(s, x)[Len(s) + 1] = x
  OBVIOUS

LEMMA SeqPrefix ==
  ASSUME NEW S, NEW s \in Seq(S), NEW n \in 0 .. Len(s)
  PROVE  /\ SubSeq(s, 1, n) \in Seq(S)
         /\ Len(SubSeq(s, 1, n)) = n
         /\ \A k \in 1 .. n : SubSeq(s, 1, n)[k] = s[k]
  OBVIOUS

(* New blocks have no branches into them yet. *)
LEMMA CreateBlocksFacts ==
  ASSUME NEW m, IsIr(m), NEW n \in Nat
  PROVE  /\ IsIr(CreateBlocks(m, n))
         /\ Len(CreateBlocks(m, n).into) = Len(m.into) + n
         /\ \A b \in 1 .. Len(m.into) : CreateBlocks(m, n).into[b] = m.into[b]
         /\ \A b \in Len(m.into) + 1 .. Len(m.into) + n : CreateBlocks(m, n).into[b] = <<>>
         /\ CreateBlocks(m, n).cur = m.cur
         /\ CreateBlocks(m, n).term = m.term
         /\ CreateBlocks(m, n).values = m.values
         /\ CreateBlocks(m, n).phis = m.phis
         /\ CreateBlocks(m, n).hollow = m.hollow
<1> DEFINE new == [i \in 1 .. n |-> <<>>]
<1>0. <<>> \in Seq(BranchType)
  OBVIOUS
<1>1. new \in [1 .. n -> Seq(BranchType)]
  BY <1>0
<1>2. new \in Seq(Seq(BranchType)) /\ Len(new) = n
  BY <1>1, SeqOfFunction
<1>3. CreateBlocks(m, n) = [m EXCEPT !.into = m.into \o new]
  BY DEF CreateBlocks
<1>4. \A i \in 1 .. n : new[i] = <<>>
  OBVIOUS
<1> HIDE DEF new
<1>5. /\ m.into \o new \in Seq(Seq(BranchType))
      /\ Len(m.into \o new) = Len(m.into) + n
      /\ \A b \in 1 .. Len(m.into) : (m.into \o new)[b] = m.into[b]
      /\ \A b \in 1 .. Len(m.into \o new) : b > Len(m.into) => (m.into \o new)[b] = new[b - Len(m.into)]
  <2>1. m.into \in Seq(Seq(BranchType))
    BY DEF IsIr
  <2> DEFINE old == m.into
  <2> HIDE DEF old
  <2>2. old \in Seq(Seq(BranchType))
    BY <2>1 DEF old
  <2>3. /\ old \o new \in Seq(Seq(BranchType))
        /\ Len(old \o new) = Len(old) + n
        /\ \A b \in 1 .. Len(old) : (old \o new)[b] = old[b]
        /\ \A b \in 1 .. Len(old \o new) : b > Len(old) => (old \o new)[b] = new[b - Len(old)]
    <3>1. old \in Seq(Seq(BranchType)) /\ new \in Seq(Seq(BranchType))
      BY <1>2, <2>2
    <3>2. /\ old \o new \in Seq(Seq(BranchType))
          /\ Len(old \o new) = Len(old) + Len(new)
          /\ \A b \in 1 .. Len(old) : (old \o new)[b] = old[b]
          /\ \A b \in 1 .. Len(old \o new) : b > Len(old) => (old \o new)[b] = new[b - Len(old)]
      BY ONLY <3>1, SeqConcat
    <3> QED
      BY ONLY <1>2, <3>2
  <2> QED
    BY <2>3 DEF old
<1> DEFINE into == m.into \o new
<1>6. ASSUME NEW b \in Len(m.into) + 1 .. Len(m.into) + n
      PROVE  into[b] = <<>>
  <2>1. b \in 1 .. Len(m.into \o new) /\ b > Len(m.into) /\ b - Len(m.into) \in 1 .. n
    BY <1>5 DEF IsIr
  <2> QED
    BY <2>1, <1>5, <1>4
<1> HIDE DEF into
<1>7. CreateBlocks(m, n) = [into |-> into, cur |-> m.cur, term |-> m.term, values |-> m.values,
                            phis |-> m.phis, hollow |-> m.hollow]
  BY <1>3 DEF IsIr, into
<1> QED
  BY <1>5, <1>6, <1>7 DEF IsIr, into

LEMMA ArriveFacts ==
  ASSUME NEW m, IsIr(m), NEW dst \in 1 .. Len(m.into), NEW vals \in Seq(Value)
  PROVE  /\ IsIr(Arrive(m, dst, vals))
         /\ Len(Arrive(m, dst, vals).into) = Len(m.into)
         /\ Arrive(m, dst, vals).into[dst] = Append(m.into[dst], Edge(m.cur, vals))
         /\ \A b \in 1 .. Len(m.into) : b # dst => Arrive(m, dst, vals).into[b] = m.into[b]
         /\ Arrive(m, dst, vals).cur = m.cur
         /\ Arrive(m, dst, vals).term = m.term
         /\ Arrive(m, dst, vals).values = m.values
         /\ Arrive(m, dst, vals).phis = m.phis
         /\ Arrive(m, dst, vals).hollow = m.hollow
<1> DEFINE x == Append(m.into[dst], Edge(m.cur, vals))
           into == [m.into EXCEPT ![dst] = x]
<1>1. Edge(m.cur, vals) \in BranchType
  BY DEF Edge, BranchType, IsIr
<1>2. m.into[dst] \in Seq(BranchType)
  BY DEF IsIr
<1>3. x \in Seq(BranchType)
  BY <1>1, <1>2, SeqAppend
<1>4. Arrive(m, dst, vals) = [m EXCEPT !.into = into]
  BY DEF Arrive, IsIr
<1> HIDE DEF x
<1>5. /\ into \in Seq(Seq(BranchType)) /\ Len(into) = Len(m.into) /\ into[dst] = x
      /\ \A b \in DOMAIN m.into : b # dst => into[b] = m.into[b]
  BY <1>3, SeqExcept DEF IsIr
<1> HIDE DEF into
<1>6. Arrive(m, dst, vals) = [into |-> into, cur |-> m.cur, term |-> m.term, values |-> m.values,
                              phis |-> m.phis, hollow |-> m.hollow]
  BY <1>4 DEF IsIr
<1> DEFINE a == Arrive(m, dst, vals)
<1>7. /\ a = [into |-> a.into, cur |-> a.cur, term |-> a.term, values |-> a.values, phis |-> a.phis,
              hollow |-> a.hollow]
      /\ a.into = into /\ a.cur = m.cur /\ a.term = m.term /\ a.values = m.values /\ a.phis = m.phis
      /\ a.hollow = m.hollow
  BY ONLY <1>6
<1> HIDE DEF a
<1>8. IsIr(a)
  BY <1>5, <1>7 DEF IsIr
<1>9. /\ Len(a.into) = Len(m.into) /\ a.into[dst] = x
      /\ \A b \in 1 .. Len(m.into) : b # dst => a.into[b] = m.into[b]
  <2>1. DOMAIN m.into = 1 .. Len(m.into)
    BY DEF IsIr
  <2> QED
    BY ONLY <1>5, <1>7, <2>1
<1> QED
  BY ONLY <1>7, <1>8, <1>9 DEF a, x

(* The cursor's block of m is closed with a branch to dst. *)
Jumped(j, m, dst, vals) ==
  /\ IsIr(j) /\ Len(j.into) = Len(m.into)
  /\ j.into[dst] = Append(m.into[dst], Edge(m.cur, vals))
  /\ \A b \in 1 .. Len(m.into) : b # dst => j.into[b] = m.into[b]
  /\ j.cur = m.cur /\ j.term = m.term \cup {m.cur} /\ j.values = m.values
  /\ j.phis = m.phis /\ j.hollow = m.hollow

LEMMA JumpFacts ==
  ASSUME NEW m, IsIr(m), NEW dst \in 1 .. Len(m.into), NEW vals \in Seq(Value)
  PROVE  Jumped(Jump(m, dst, vals), m, dst, vals)
<1> DEFINE a == Arrive(m, dst, vals)
<1>1. /\ IsIr(a) /\ Len(a.into) = Len(m.into)
      /\ a.into[dst] = Append(m.into[dst], Edge(m.cur, vals))
      /\ \A b \in 1 .. Len(m.into) : b # dst => a.into[b] = m.into[b]
      /\ a.cur = m.cur /\ a.term = m.term /\ a.values = m.values /\ a.phis = m.phis /\ a.hollow = m.hollow
  BY ArriveFacts
<1> HIDE DEF a
<1>2. Jump(m, dst, vals) = [a EXCEPT !.term = @ \cup {a.cur}]
  BY DEF Jump, Terminate, a
<1> DEFINE j == Jump(m, dst, vals)
<1>3. j = [into |-> a.into, cur |-> a.cur, term |-> a.term \cup {a.cur}, values |-> a.values,
           phis |-> a.phis, hollow |-> a.hollow]
  BY <1>1, <1>2 DEF IsIr
<1> HIDE DEF j
<1>4. /\ IsIr(j) /\ j.into = a.into /\ j.cur = a.cur /\ j.term = a.term \cup {a.cur}
      /\ j.values = a.values /\ j.phis = a.phis /\ j.hollow = a.hollow
  BY <1>1, <1>3 DEF IsIr
<1>5. Jumped(j, m, dst, vals)
  BY <1>1, <1>4 DEF Jumped
<1> QED
  BY <1>5 DEF j

LEMMA TerminateFacts ==
  ASSUME NEW m, IsIr(m)
  PROVE  /\ IsIr(Terminate(m))
         /\ Terminate(m).into = m.into
         /\ Terminate(m).cur = m.cur
         /\ Terminate(m).term = m.term \cup {m.cur}
         /\ Terminate(m).values = m.values
         /\ Terminate(m).phis = m.phis
         /\ Terminate(m).hollow = m.hollow
<1> DEFINE closed == m.term \cup {m.cur}
<1>1. Terminate(m) = [m EXCEPT !.term = closed]
  BY DEF Terminate
<1>2. closed \subseteq Nat
  BY DEF IsIr
<1> HIDE DEF closed
<1>3. Terminate(m) = [into |-> m.into, cur |-> m.cur, term |-> closed, values |-> m.values,
                      phis |-> m.phis, hollow |-> m.hollow]
  BY <1>1 DEF IsIr
<1>4. IsIr(Terminate(m)) /\ Terminate(m).term = closed
  BY <1>2, <1>3 DEF IsIr
<1> QED
  BY <1>3, <1>4 DEF closed

LEMMA AtFacts ==
  ASSUME NEW m, IsIr(m), NEW b \in Nat
  PROVE  /\ IsIr(At(m, b))
         /\ At(m, b).into = m.into
         /\ At(m, b).cur = b
         /\ At(m, b).term = m.term
         /\ At(m, b).values = m.values
         /\ At(m, b).phis = m.phis
         /\ At(m, b).hollow = m.hollow
<1>1. At(m, b) = [into |-> m.into, cur |-> b, term |-> m.term, values |-> m.values,
                  phis |-> m.phis, hollow |-> m.hollow]
  BY DEF IsIr, At
<1> QED
  BY <1>1 DEF IsIr

LEMMA DefineFacts ==
  ASSUME NEW m, IsIr(m)
  PROVE  /\ IsIr(Define(m))
         /\ Define(m).into = m.into
         /\ Define(m).cur = m.cur
         /\ Define(m).term = m.term
         /\ Define(m).values = m.values + 1
         /\ Define(m).phis = m.phis
         /\ Define(m).hollow = m.hollow
<1>1. Define(m) = [into |-> m.into, cur |-> m.cur, term |-> m.term, values |-> m.values + 1,
                   phis |-> m.phis, hollow |-> m.hollow]
  BY DEF IsIr, Define
<1> QED
  BY <1>1 DEF IsIr

LEMMA WithPhisFacts ==
  ASSUME NEW m, IsIr(m), NEW new, IsPhis(new)
  PROVE  /\ IsIr(WithPhis(m, new))
         /\ WithPhis(m, new).into = m.into
         /\ WithPhis(m, new).cur = m.cur
         /\ WithPhis(m, new).term = m.term
         /\ WithPhis(m, new).values = m.values
         /\ WithPhis(m, new).hollow = m.hollow
         /\ DOMAIN WithPhis(m, new).phis = DOMAIN m.phis \cup DOMAIN new
         /\ \A p \in DOMAIN new : WithPhis(m, new).phis[p] = new[p]
         /\ \A p \in DOMAIN m.phis \ DOMAIN new : WithPhis(m, new).phis[p] = m.phis[p]
<1> DEFINE phis == [p \in DOMAIN m.phis \cup DOMAIN new |-> IF p \in DOMAIN new THEN new[p] ELSE m.phis[p]]
<1>1. WithPhis(m, new) = [m EXCEPT !.phis = phis]
  BY DEF WithPhis
<1>2. /\ DOMAIN phis = DOMAIN m.phis \cup DOMAIN new
      /\ phis = [p \in DOMAIN phis |-> phis[p]]
      /\ \A p \in DOMAIN new : phis[p] = new[p]
      /\ \A p \in DOMAIN m.phis \ DOMAIN new : phis[p] = m.phis[p]
  OBVIOUS
<1> HIDE DEF phis
<1>3. IsPhis(phis)
  BY <1>2 DEF IsPhis, IsIr
<1>4. WithPhis(m, new) = [into |-> m.into, cur |-> m.cur, term |-> m.term, values |-> m.values,
                          phis |-> phis, hollow |-> m.hollow]
  BY <1>1 DEF IsIr
<1> QED
  BY <1>2, <1>3, <1>4 DEF IsIr

(* A branch to one of two different blocks. *)
Forked(f, m, dst, vals, other, rest) ==
  /\ IsIr(f) /\ Len(f.into) = Len(m.into)
  /\ f.into[dst] = Append(m.into[dst], Edge(m.cur, vals))
  /\ f.into[other] = Append(m.into[other], Edge(m.cur, rest))
  /\ \A b \in 1 .. Len(m.into) : b # dst /\ b # other => f.into[b] = m.into[b]
  /\ f.cur = m.cur /\ f.term = m.term \cup {m.cur} /\ f.values = m.values
  /\ f.phis = m.phis /\ f.hollow = m.hollow

LEMMA ForkFacts ==
  ASSUME NEW m, IsIr(m), NEW dst \in 1 .. Len(m.into), NEW vals \in Seq(Value),
         NEW other \in 1 .. Len(m.into), NEW rest \in Seq(Value), other # dst
  PROVE  Forked(Fork(m, dst, vals, other, rest), m, dst, vals, other, rest)
<1> DEFINE a == Arrive(m, dst, vals)
           c == Arrive(a, other, rest)
<1>1. /\ IsIr(a) /\ Len(a.into) = Len(m.into)
      /\ a.into[dst] = Append(m.into[dst], Edge(m.cur, vals))
      /\ \A b \in 1 .. Len(m.into) : b # dst => a.into[b] = m.into[b]
      /\ a.cur = m.cur /\ a.term = m.term /\ a.values = m.values /\ a.phis = m.phis /\ a.hollow = m.hollow
  BY ArriveFacts
<1> HIDE DEF a
<1>2. /\ IsIr(c) /\ Len(c.into) = Len(a.into)
      /\ c.into[other] = Append(a.into[other], Edge(a.cur, rest))
      /\ \A b \in 1 .. Len(a.into) : b # other => c.into[b] = a.into[b]
      /\ c.cur = a.cur /\ c.term = a.term /\ c.values = a.values /\ c.phis = a.phis /\ c.hollow = a.hollow
  <2>1. IsIr(a) /\ other \in 1 .. Len(a.into)
    BY <1>1
  <2> QED
    BY <2>1, ArriveFacts
<1> HIDE DEF c
<1>3. Fork(m, dst, vals, other, rest) = Terminate(c)
  BY DEF Fork, a, c
<1> DEFINE f == Fork(m, dst, vals, other, rest)
<1>4. /\ IsIr(f) /\ f.into = c.into /\ f.cur = c.cur /\ f.term = c.term \cup {c.cur}
      /\ f.values = c.values /\ f.phis = c.phis /\ f.hollow = c.hollow
  BY <1>2, <1>3, TerminateFacts
<1> HIDE DEF f
<1>5. /\ f.into[dst] = Append(m.into[dst], Edge(m.cur, vals))
      /\ f.into[other] = Append(m.into[other], Edge(m.cur, rest))
      /\ \A b \in 1 .. Len(m.into) : b # dst /\ b # other => f.into[b] = m.into[b]
      /\ Len(f.into) = Len(m.into)
  BY <1>1, <1>2, <1>4
<1>6. f.cur = m.cur /\ f.term = m.term \cup {m.cur}
  BY <1>1, <1>2, <1>4
<1>7. f.values = m.values /\ f.phis = m.phis /\ f.hollow = m.hollow
  BY <1>1, <1>2, <1>4
<1> QED
  <2>1. Forked(f, m, dst, vals, other, rest)
    BY <1>4, <1>5, <1>6, <1>7 DEF Forked
  <2> QED
    BY <2>1 DEF f

-----------------------------------------------------------------------------
(* What branches do to labels, phis and the blocks they reach.             *)

(* F is E with n more branches, each carrying C. *)
Extends(E, F, n, C) ==
  /\ Len(F) = Len(E) + n
  /\ \A k \in 1 .. Len(E) : F[k] = E[k]
  /\ \A k \in Len(E) + 1 .. Len(F) : F[k].vals = C

(* m is the IR after hits[t] branches to each label t, and whatever else   *)
(* happens to blocks of no label.                                          *)
Branches(m, hits, res) ==
  /\ IsIr(m)
  /\ Len(ir.into) <= Len(m.into)
  /\ ir.values <= m.values
  /\ \A b \in DOMAIN m.into : \A k \in DOMAIN m.into[b] : m.into[b][k].src \in DOMAIN m.into
  /\ \A t \in DOMAIN labels : t > 1 =>
       Extends(ir.into[labels[t].block], m.into[labels[t].block], hits[t], Carried(t, res))
  /\ \A b \in Blocks : (\A t \in DOMAIN labels : labels[t].block # b) => m.into[b] = ir.into[b]
  /\ \A p \in DOMAIN m.phis : p[1] \in Blocks => p \in DOMAIN ir.phis \cup DOMAIN PreparedPhis(hits, res)
  /\ DOMAIN ir.phis \cup DOMAIN PreparedPhis(hits, res) \subseteq DOMAIN m.phis
  /\ \A p \in DOMAIN PreparedPhis(hits, res) : m.phis[p] = PreparedPhis(hits, res)[p]
  /\ \A p \in DOMAIN ir.phis \ DOMAIN PreparedPhis(hits, res) : m.phis[p] = ir.phis[p]

(* The branches of one step: none to the body, and what they carry is      *)
(* defined.                                                                *)
Hits(hits, res) ==
  /\ hits \in [DOMAIN labels -> Nat]
  /\ hits[1] = 0
  /\ \A t \in DOMAIN labels : hits[t] > 0 /\ MergesResult(labels[t]) => Usable(res)

LEMMA CarriedFacts ==
  ASSUME Shape, status = "running", NEW t \in DOMAIN labels, NEW res,
         MergesResult(labels[t]) => res \in Value
  PROVE  /\ Carried(t, res) \in Seq(Value)
         /\ Len(Carried(t, res)) = Len(LocalType) + (IF MergesResult(labels[t]) THEN 1 ELSE 0)
         /\ \A i \in 1 .. Len(LocalType) : Carried(t, res)[i] = locals[i]
         /\ MergesResult(labels[t]) => Carried(t, res)[Len(LocalType) + 1] = res
<1>1. locals \in Seq(Value) /\ Len(locals) = Len(LocalType)
  BY DEF Shape
<1>2. CASE MergesResult(labels[t])
  <2>1. Carried(t, res) = locals \o <<res>>
    BY <1>2 DEF Carried
  <2>2. <<res>> \in Seq(Value) /\ Len(<<res>>) = 1 /\ <<res>>[1] = res
    BY <1>2
  <2>3. /\ locals \o <<res>> \in Seq(Value)
        /\ Len(locals \o <<res>>) = Len(locals) + 1
        /\ \A k \in 1 .. Len(locals) : (locals \o <<res>>)[k] = locals[k]
        /\ (locals \o <<res>>)[Len(locals) + 1] = res
    BY <1>1, <2>2
  <2> QED
    BY <1>1, <1>2, <2>1, <2>3
<1>3. CASE ~MergesResult(labels[t])
  <2>1. Carried(t, res) = locals
    BY <1>1, <1>3 DEF Carried
  <2> QED
    BY <1>1, <1>3, <2>1
<1> QED
  BY <1>2, <1>3

LEMMA LabelTyped ==
  ASSUME NEW l \in LabelType
  PROVE  /\ l = [block |-> l.block, stack |-> l.stack, merge |-> l.merge, reached |-> l.reached,
                 inputs |-> l.inputs, loop |-> l.loop, terminated |-> l.terminated,
                 depth |-> l.depth, rtype |-> l.rtype]
         /\ l.block \in Nat
         /\ l.stack \in Seq([val : Value, type : Types])
         /\ l.merge \in Seq(Slot)
         /\ l.reached \in BOOLEAN
         /\ l.inputs \in Nat
         /\ l.loop \in BOOLEAN
         /\ l.terminated \in BOOLEAN
         /\ l.depth \in Nat
         /\ l.rtype \in Types
  BY DEF LabelType

LEMMA LabelsTyped ==
  ASSUME Shape, NEW t \in DOMAIN labels
  PROVE  /\ t \in Nat /\ t >= 1 /\ t <= Len(labels)
         /\ 1 \in DOMAIN labels /\ labels # <<>>
         /\ labels[t] \in LabelType
  BY DEF Shape

(* Labels have blocks of their own. *)
LEMMA BlocksDiffer ==
  ASSUME Shape, Chain, NEW s \in DOMAIN labels, NEW t \in DOMAIN labels,
         labels[s].block = labels[t].block
  PROVE  s = t
<1>1. s \in Nat /\ t \in Nat /\ labels[s].block \in Nat /\ labels[t].block \in Nat
  BY LabelsTyped, LabelTyped
<1> QED
  BY <1>1 DEF Chain, ChainOK

LEMMA LabelOfFacts ==
  ASSUME Shape, Chain, NEW t \in DOMAIN labels
  PROVE  LabelOf(labels[t].block) = t
  BY BlocksDiffer DEF LabelOf

LEMMA BlockFacts ==
  ASSUME Shape, Chain, NEW t \in DOMAIN labels, t > 1
  PROVE  labels[t].block \in Blocks /\ labels[t].block > 0 /\ labels[t].block \in Nat
<1>1. 1 \in DOMAIN labels /\ t \in Nat /\ labels # <<>>
  BY LabelsTyped
<1>2. labels[1].block = 0 /\ labels[1].block < labels[t].block /\ labels[t].block <= Len(ir.into)
  BY <1>1 DEF Chain, ChainOK
<1>3. labels[t].block \in Nat
  BY LabelsTyped, LabelTyped
<1>4. DOMAIN ir.into = 1 .. Len(ir.into) /\ Len(ir.into) \in Nat
  BY DEF Shape, IsIr
<1> QED
  BY <1>2, <1>3, <1>4 DEF Blocks

Copies(n, x) == [k \in 1 .. n |-> x]

LEMMA PreparedPhisFacts ==
  ASSUME Shape, Chain, NEW hits \in [DOMAIN labels -> Nat], NEW res
  PROVE  /\ PreparedPhis(hits, res) =
              [p \in DOMAIN PreparedPhis(hits, res) |-> PreparedPhis(hits, res)[p]]
         /\ \A p \in DOMAIN PreparedPhis(hits, res) :
              \E t \in DOMAIN labels : hits[t] > 0 /\ \E i \in Touched(t, res) : p = Phi(labels[t].block, i)
         /\ \A t \in DOMAIN labels : \A i \in Touched(t, res) : hits[t] > 0 =>
              /\ Phi(labels[t].block, i) \in DOMAIN PreparedPhis(hits, res)
              /\ PreparedPhis(hits, res)[Phi(labels[t].block, i)] =
                   PhiInputs(labels[t], i) \o Copies(hits[t], Carried(t, res)[i])
<1> DEFINE hit == {t \in DOMAIN labels : hits[t] > 0}
           dom == UNION {{Phi(labels[t].block, i) : i \in Touched(t, res)} : t \in hit}
           input(p) == PhiInputs(labels[LabelOf(p[1])], p[2])
                         \o Copies(hits[LabelOf(p[1])], Carried(LabelOf(p[1]), res)[p[2]])
<1>1. PreparedPhis(hits, res) = [p \in dom |-> input(p)]
  BY DEF PreparedPhis, Copies
<1>2. ASSUME NEW t \in DOMAIN labels, NEW i \in Touched(t, res), hits[t] > 0
      PROVE  /\ Phi(labels[t].block, i) \in dom
             /\ input(Phi(labels[t].block, i)) =
                  PhiInputs(labels[t], i) \o Copies(hits[t], Carried(t, res)[i])
  <2>1. Phi(labels[t].block, i)[1] = labels[t].block /\ Phi(labels[t].block, i)[2] = i
    BY DEF Phi
  <2>2. LabelOf(Phi(labels[t].block, i)[1]) = t
    BY <2>1, LabelOfFacts
  <2>3. Phi(labels[t].block, i) \in dom
    BY <1>2
  <2> QED
    BY <2>1, <2>2, <2>3
<1>3. \A p \in dom : \E t \in DOMAIN labels : hits[t] > 0 /\ \E i \in Touched(t, res) : p = Phi(labels[t].block, i)
  OBVIOUS
<1> HIDE DEF hit, dom, input
<1>4. DOMAIN PreparedPhis(hits, res) = dom /\ \A p \in dom : PreparedPhis(hits, res)[p] = input(p)
  BY <1>1
<1> QED
  BY <1>1, <1>2, <1>3, <1>4

(* What Hits gives for each label hit. *)
LEMMA CarriedUsable ==
  ASSUME Shape, status = "running", ValuesInv, NEW hits, NEW res, Hits(hits, res),
         NEW t \in DOMAIN labels, hits[t] > 0
  PROVE  /\ Carried(t, res) \in Seq(Value)
         /\ Len(Carried(t, res)) = Len(LocalType) + (IF MergesResult(labels[t]) THEN 1 ELSE 0)
         /\ \A i \in DOMAIN Carried(t, res) : Usable(Carried(t, res)[i])
<1>1. MergesResult(labels[t]) => res \in Value /\ Usable(res)
  BY DEF Hits, Usable
<1>2. /\ Carried(t, res) \in Seq(Value)
      /\ Len(Carried(t, res)) = Len(LocalType) + (IF MergesResult(labels[t]) THEN 1 ELSE 0)
      /\ \A i \in 1 .. Len(LocalType) : Carried(t, res)[i] = locals[i]
      /\ MergesResult(labels[t]) => Carried(t, res)[Len(LocalType) + 1] = res
  BY <1>1, CarriedFacts
<1>3. DOMAIN locals = 1 .. Len(LocalType) /\ Len(LocalType) \in Nat
  BY TranslateAssumption DEF Shape
<1>4. \A i \in 1 .. Len(LocalType) : Usable(Carried(t, res)[i])
  BY <1>2, <1>3 DEF ValuesInv
<1>5. DOMAIN Carried(t, res) = 1 .. Len(Carried(t, res))
  BY <1>2
<1>6. ASSUME NEW i \in DOMAIN Carried(t, res)
      PROVE  Usable(Carried(t, res)[i])
  <2>1. CASE i \in 1 .. Len(LocalType)
    BY <2>1, <1>4
  <2>2. CASE i \notin 1 .. Len(LocalType)
    <3>1. MergesResult(labels[t]) /\ i = Len(LocalType) + 1
      BY <1>2, <1>3, <1>5, <1>6, <2>2
    <3> QED
      BY <3>1, <1>1, <1>2
  <2> QED
    BY <2>1, <2>2
<1> QED
  BY <1>2, <1>6

(* Labels that differ in their stacks, or in being dead, only. *)
SameMerge(k, l) ==
  /\ k.block = l.block
  /\ k.merge = l.merge
  /\ k.reached = l.reached
  /\ k.inputs = l.inputs
  /\ k.loop = l.loop
  /\ k.rtype = l.rtype

LEMMA MergeSlotType ==
  ASSUME Shape, NEW t \in DOMAIN labels, t > 1, LabelsInv, NEW v \in Value,
         NEW i \in 1 .. Len(LocalType) + (IF MergesResult(labels[t]) THEN 1 ELSE 0)
  PROVE  MergeSlot(labels[t], i, v) \in Slot
<1>1. labels[t].merge \in Seq(Slot) /\ labels[t].block \in Nat /\ Len(LocalType) \in Nat
  BY LabelsTyped, LabelTyped, TranslateAssumption
<1>2. labels[t].reached => i \in DOMAIN labels[t].merge
  BY <1>1 DEF LabelsInv, LabelOK
<1>3. labels[t].reached => labels[t].merge[i] \in Slot
  BY <1>1, <1>2
<1>4. NoPhi \in Value
  BY DEF NoPhi, Invalid, Value
<1>5. Phi(labels[t].block, i) \in Value
  BY <1>1 DEF Phi, Value
<1>6. CASE ~labels[t].reached
  <2>1. MergeSlot(labels[t], i, v) = [val |-> v, phi |-> NoPhi]
    BY <1>6 DEF MergeSlot, Disagrees
  <2> QED
    BY <2>1, <1>4 DEF Slot
<1>7. CASE labels[t].reached /\ v # labels[t].merge[i].val /\ labels[t].merge[i].phi = NoPhi
  <2>1. MergeSlot(labels[t], i, v) = [val |-> Phi(labels[t].block, i), phi |-> Phi(labels[t].block, i)]
    BY <1>7 DEF MergeSlot, Disagrees
  <2> QED
    BY <2>1, <1>5 DEF Slot
<1>8. CASE labels[t].reached /\ ~(v # labels[t].merge[i].val /\ labels[t].merge[i].phi = NoPhi)
  <2>1. MergeSlot(labels[t], i, v) = labels[t].merge[i]
    BY <1>8 DEF MergeSlot, Disagrees
  <2> QED
    BY <2>1, <1>3, <1>8
<1> QED
  BY <1>6, <1>7, <1>8

Merged(t, res) == [i \in DOMAIN Carried(t, res) |-> MergeSlot(labels[t], i, Carried(t, res)[i])]

LEMMA MergedType ==
  ASSUME Shape, status = "running", ValuesInv, LabelsInv, NEW hits, NEW res, Hits(hits, res),
         NEW t \in DOMAIN labels, hits[t] > 0
  PROVE  Merged(t, res) \in Seq(Slot) /\ Len(Merged(t, res)) = Len(Carried(t, res)) /\ t > 1
<1>1. /\ Carried(t, res) \in Seq(Value)
      /\ Len(Carried(t, res)) = Len(LocalType) + (IF MergesResult(labels[t]) THEN 1 ELSE 0)
  BY CarriedUsable
<1>2. t > 1
  BY LabelsTyped DEF Hits
<1> DEFINE C == Carried(t, res)
           n == Len(LocalType) + (IF MergesResult(labels[t]) THEN 1 ELSE 0)
<1> HIDE DEF C
<1>3. C \in Seq(Value) /\ Len(C) = n /\ DOMAIN C = 1 .. n
  BY <1>1 DEF C
<1>4. \A i \in 1 .. n : C[i] \in Value
  BY <1>3
<1>5. \A i \in 1 .. n : MergeSlot(labels[t], i, C[i]) \in Slot
  BY <1>2, <1>4, MergeSlotType
<1>6. Merged(t, res) = [i \in 1 .. n |-> MergeSlot(labels[t], i, C[i])]
  BY <1>3 DEF Merged, C
<1>7. Merged(t, res) \in [1 .. n -> Slot]
  BY <1>5, <1>6
<1>8. n \in Nat
  BY TranslateAssumption
<1> HIDE DEF n
<1> QED
  BY <1>7, <1>8, <1>2, <1>3, SeqOfFunction DEF C

(* A label that n branches reach. *)
HitLabel(l, merge, n) == [l EXCEPT !.merge = merge, !.reached = TRUE, !.inputs = @ + n]

LEMMA HitLabelFacts ==
  ASSUME NEW l \in LabelType, NEW merge \in Seq(Slot), NEW n \in Nat
  PROVE  /\ HitLabel(l, merge, n) \in LabelType
         /\ HitLabel(l, merge, n).block = l.block
         /\ HitLabel(l, merge, n).stack = l.stack
         /\ HitLabel(l, merge, n).merge = merge
         /\ HitLabel(l, merge, n).reached
         /\ HitLabel(l, merge, n).inputs = l.inputs + n
         /\ HitLabel(l, merge, n).loop = l.loop
         /\ HitLabel(l, merge, n).terminated = l.terminated
         /\ HitLabel(l, merge, n).depth = l.depth
         /\ HitLabel(l, merge, n).rtype = l.rtype
<1> DEFINE lab(m, r, i) == [block |-> l.block, stack |-> l.stack, merge |-> m, reached |-> r,
                            inputs |-> i, loop |-> l.loop, terminated |-> l.terminated,
                            depth |-> l.depth, rtype |-> l.rtype]
           sum == l.inputs + n
           yes == TRUE
<1>4. HitLabel(l, merge, n) = [[[l EXCEPT !.merge = merge] EXCEPT !.reached = yes] EXCEPT !.inputs = sum]
  <2>1. HitLabel(l, merge, n) = [[[l EXCEPT !.merge = merge] EXCEPT !.reached = TRUE] EXCEPT !.inputs = l.inputs + n]
    BY DEF HitLabel
  <2> QED
    BY <2>1
<1> HIDE DEF sum, yes
<1>0. l = lab(l.merge, l.reached, l.inputs)
  BY LabelTyped
<1>1. [l EXCEPT !.merge = merge] = lab(merge, l.reached, l.inputs)
  BY <1>0
<1>2. [lab(merge, l.reached, l.inputs) EXCEPT !.reached = yes] = lab(merge, yes, l.inputs)
  OBVIOUS
<1>3. [lab(merge, yes, l.inputs) EXCEPT !.inputs = sum] = lab(merge, yes, sum)
  OBVIOUS
<1>5. sum \in Nat
  <2>1. l.inputs \in Nat
    BY LabelTyped
  <2> QED
    BY <2>1 DEF sum
<1> HIDE DEF lab
<1>6. HitLabel(l, merge, n) = lab(merge, yes, sum)
  BY <1>1, <1>2, <1>3, <1>4
<1>7. /\ l.block \in Nat /\ l.stack \in Seq([val : Value, type : Types]) /\ l.loop \in BOOLEAN
      /\ l.terminated \in BOOLEAN /\ l.depth \in Nat /\ l.rtype \in Types
  BY LabelTyped
<1>8. lab(merge, yes, sum) \in LabelType
  BY <1>5, <1>7 DEF lab, yes, LabelType
<1> QED
  BY <1>6, <1>8 DEF lab, yes, sum

LEMMA PreparedLabelsFacts ==
  ASSUME Shape, status = "running", ValuesInv, LabelsInv, NEW hits, NEW res, Hits(hits, res),
         NEW ls \in Seq(LabelType), Len(ls) = Len(labels)
  PROVE  /\ PreparedLabels(ls, hits, res) \in Seq(LabelType)
         /\ Len(PreparedLabels(ls, hits, res)) = Len(labels)
         /\ \A t \in DOMAIN labels :
              LET l == PreparedLabels(ls, hits, res)[t] IN
              /\ hits[t] = 0 => l = ls[t]
              /\ l.block = ls[t].block
              /\ l.stack = ls[t].stack
              /\ l.loop = ls[t].loop
              /\ l.terminated = ls[t].terminated
              /\ l.depth = ls[t].depth
              /\ l.rtype = ls[t].rtype
              /\ hits[t] > 0 => l.merge = Merged(t, res) /\ l.reached /\ l.inputs = ls[t].inputs + hits[t]
<1> DEFINE new(t) == IF hits[t] = 0 THEN ls[t]
                     ELSE HitLabel(ls[t], Merged(t, res), hits[t])
<1>1. PreparedLabels(ls, hits, res) = [t \in DOMAIN ls |-> new(t)]
  BY DEF PreparedLabels, Merged, HitLabel
<1>2. DOMAIN ls = 1 .. Len(labels) /\ DOMAIN labels = 1 .. Len(labels) /\ Len(labels) \in Nat
  BY DEF Shape
<1>3. ASSUME NEW t \in DOMAIN labels
      PROVE  /\ new(t) \in LabelType
             /\ hits[t] = 0 => new(t) = ls[t]
             /\ new(t).block = ls[t].block
             /\ new(t).stack = ls[t].stack
             /\ new(t).loop = ls[t].loop
             /\ new(t).terminated = ls[t].terminated
             /\ new(t).depth = ls[t].depth
             /\ new(t).rtype = ls[t].rtype
             /\ hits[t] > 0 => new(t).merge = Merged(t, res) /\ new(t).reached /\ new(t).inputs = ls[t].inputs + hits[t]
  <2>1. ls[t] \in LabelType /\ hits[t] \in Nat
    BY <1>2 DEF Hits
  <2>2. CASE hits[t] = 0
    BY <2>1, <2>2
  <2>3. CASE hits[t] > 0
    <3>1. Merged(t, res) \in Seq(Slot)
      BY <2>3, MergedType
    <3>2. new(t) = HitLabel(ls[t], Merged(t, res), hits[t])
      BY <2>1, <2>3
    <3> HIDE DEF new
    <3> QED
      BY <2>1, <2>3, <3>1, <3>2, HitLabelFacts
  <2> QED
    BY <2>1, <2>2, <2>3
<1> HIDE DEF new
<1>4. \A t \in DOMAIN labels : PreparedLabels(ls, hits, res)[t] = new(t)
  BY <1>1, <1>2
<1>5. PreparedLabels(ls, hits, res) \in [1 .. Len(labels) -> LabelType]
  BY <1>1, <1>2, <1>3
<1>6. PreparedLabels(ls, hits, res) \in Seq(LabelType) /\ Len(PreparedLabels(ls, hits, res)) = Len(labels)
  BY <1>2, <1>5, SeqOfFunction
<1> QED
  BY <1>3, <1>4, <1>6

LEMMA LabelOKSame ==
  ASSUME NEW k, NEW l, NEW E, NEW P, SameMerge(k, l), LabelOK(l, E, P)
  PROVE  LabelOK(k, E, P)
  BY DEF SameMerge, LabelOK, SlotOK, MergesResult

(* The phis of label t's block after the step: the old ones, and those of  *)
(* slots that a branch to t touched.                                       *)
LEMMA PhisOfBlock ==
  ASSUME Shape, Chain, NEW hits, NEW res, Hits(hits, res), NEW m, Branches(m, hits, res),
         NEW t \in DOMAIN labels, t > 1
  PROVE  /\ \A p \in DOMAIN m.phis : p[1] = labels[t].block =>
              \/ p \in DOMAIN ir.phis
              \/ hits[t] > 0 /\ \E i \in Touched(t, res) : p = Phi(labels[t].block, i)
         /\ \A p \in DOMAIN ir.phis : p[1] = labels[t].block /\ (hits[t] = 0 \/ p[2] \notin Touched(t, res)) =>
              p \in DOMAIN m.phis /\ m.phis[p] = ir.phis[p]
         /\ \A i \in Touched(t, res) : hits[t] > 0 =>
              /\ Phi(labels[t].block, i) \in DOMAIN m.phis
              /\ m.phis[Phi(labels[t].block, i)] =
                   PhiInputs(labels[t], i) \o Copies(hits[t], Carried(t, res)[i])
<1> DEFINE new == PreparedPhis(hits, res)
           b == labels[t].block
<1>1. /\ \A p \in DOMAIN new : \E s \in DOMAIN labels :
           hits[s] > 0 /\ \E i \in Touched(s, res) : p = Phi(labels[s].block, i)
      /\ \A s \in DOMAIN labels : \A i \in Touched(s, res) : hits[s] > 0 =>
           /\ Phi(labels[s].block, i) \in DOMAIN new
           /\ new[Phi(labels[s].block, i)] = PhiInputs(labels[s], i) \o Copies(hits[s], Carried(s, res)[i])
  <2>1. hits \in [DOMAIN labels -> Nat]
    BY DEF Hits
  <2>2. Shape /\ Chain /\ hits \in [DOMAIN labels -> Nat]
    BY <2>1
  <2> QED
    BY ONLY <2>2, PreparedPhisFacts DEF new
<1>2. /\ \A p \in DOMAIN m.phis : p[1] \in Blocks => p \in DOMAIN ir.phis \cup DOMAIN new
      /\ DOMAIN ir.phis \cup DOMAIN new \subseteq DOMAIN m.phis
      /\ \A p \in DOMAIN new : m.phis[p] = new[p]
      /\ \A p \in DOMAIN ir.phis \ DOMAIN new : m.phis[p] = ir.phis[p]
  BY DEF Branches
<1> HIDE DEF new
<1>3. ASSUME NEW p \in DOMAIN new, p[1] = b
      PROVE  hits[t] > 0 /\ \E i \in Touched(t, res) : p = Phi(b, i) /\ p[2] = i
  <2>1. PICK s \in DOMAIN labels : hits[s] > 0 /\ \E i \in Touched(s, res) : p = Phi(labels[s].block, i)
    BY <1>1
  <2>2. PICK i \in Touched(s, res) : p = Phi(labels[s].block, i)
    BY <2>1
  <2>3. p[1] = labels[s].block /\ p[2] = i
    BY <2>2 DEF Phi
  <2>4. s = t
    BY <1>3, <2>3, BlocksDiffer
  <2> QED
    BY <2>1, <2>2, <2>3, <2>4
<1>4. b \in Blocks
  BY BlockFacts
<1>5. \A p \in DOMAIN m.phis : p[1] = b =>
        p \in DOMAIN ir.phis \/ (hits[t] > 0 /\ \E i \in Touched(t, res) : p = Phi(b, i))
  BY <1>2, <1>3, <1>4
<1>6. ASSUME NEW p \in DOMAIN ir.phis, p[1] = b, hits[t] = 0 \/ p[2] \notin Touched(t, res)
      PROVE  p \in DOMAIN m.phis /\ m.phis[p] = ir.phis[p]
  <2>1. p \notin DOMAIN new
    BY <1>3, <1>6
  <2> QED
    BY <1>2, <1>6, <2>1
<1>7. ASSUME NEW i \in Touched(t, res), hits[t] > 0
      PROVE  /\ Phi(b, i) \in DOMAIN m.phis
             /\ m.phis[Phi(b, i)] = PhiInputs(labels[t], i) \o Copies(hits[t], Carried(t, res)[i])
  BY <1>1, <1>2, <1>7
<1> QED
  BY <1>5, <1>6, <1>7

(* s is what the branches E have for slot i. *)
Column(s, E, i) ==
  /\ Len(s) = Len(E)
  /\ \A k \in 1 .. Len(E) : s[k] = E[k].vals[i]

LEMMA ColumnExtended ==
  ASSUME NEW E \in Seq(BranchType), NEW F \in Seq(BranchType), NEW n \in Nat, NEW C, NEW i,
         NEW s \in Seq(Value), C[i] \in Value, Extends(E, F, n, C), Column(s, E, i)
  PROVE  Column(s \o Copies(n, C[i]), F, i)
<1>0. Len(s) = Len(E) /\ \A k \in 1 .. Len(E) : s[k] = E[k].vals[i]
  BY DEF Column
<1> DEFINE x == C[i]
           r == Copies(n, x)
<1>1. r \in [1 .. n -> Value]
  BY DEF Copies
<1>2. r \in Seq(Value) /\ Len(r) = n
  BY <1>1, SeqOfFunction
<1>3. \A j \in 1 .. n : r[j] = x
  BY DEF Copies
<1> HIDE DEF r
<1>4. /\ Len(s \o r) = Len(s) + Len(r)
      /\ \A k \in 1 .. Len(s) : (s \o r)[k] = s[k]
      /\ \A k \in 1 .. Len(s \o r) : k > Len(s) => (s \o r)[k] = r[k - Len(s)]
  <2>1. s \in Seq(Value) /\ r \in Seq(Value)
    BY <1>2
  <2>2. Len(s \o r) = Len(s) + Len(r)
    BY <2>1, SeqConcatLen
  <2>3. \A k \in 1 .. Len(s) : (s \o r)[k] = s[k]
    BY <2>1
  <2>4. \A k \in 1 .. Len(s \o r) : k > Len(s) => (s \o r)[k] = r[k - Len(s)]
    BY <2>1
  <2> QED
    BY <2>2, <2>3, <2>4
<1>5. Len(s \o r) = Len(F) /\ Len(E) \in Nat /\ Len(F) = Len(E) + n
  BY <1>0, <1>2, <1>4 DEF Extends
<1>6. ASSUME NEW k \in 1 .. Len(F)
      PROVE  (s \o r)[k] = F[k].vals[i]
  <2>1. CASE k <= Len(E)
    BY <2>1, <1>0, <1>4, <1>5, <1>6 DEF Extends
  <2>2. CASE k > Len(E)
    <3>1. k - Len(s) \in 1 .. n
      BY <2>2, <1>0, <1>5
    <3>2. (s \o r)[k] = x
      BY <2>2, <3>1, <1>0, <1>3, <1>4, <1>5
    <3>3. F[k].vals = C
      BY <2>2, <1>5 DEF Extends
    <3> QED
      BY <3>2, <3>3
  <2> QED
    BY <2>1, <2>2, <1>5
<1> QED
  BY <1>5, <1>6 DEF r, Column

(* A label that no branch of the step reaches. *)
LEMMA LabelNotHit ==
  ASSUME Shape, Chain, LabelsInv, PhisInv, NEW hits, NEW res, Hits(hits, res), NEW m, Branches(m, hits, res),
         NEW t \in DOMAIN labels, t > 1, hits[t] = 0
  PROVE  /\ LabelOK(labels[t], m.into[labels[t].block], m.phis)
         /\ \A p \in DOMAIN m.phis : p[1] = labels[t].block =>
              p[2] > 0 /\ Len(m.phis[p]) = Len(m.into[labels[t].block])
<1> DEFINE l == labels[t]
           b == labels[t].block
           E == ir.into[b]
           F == m.into[b]
<1>1. LabelOK(l, E, ir.phis)
  BY DEF LabelsInv
<1>2. b \in Blocks /\ b \in Nat
  BY BlockFacts
<1>3. Extends(E, F, 0, Carried(t, res))
  BY DEF Branches
<1>4. E \in Seq(BranchType) /\ F \in Seq(BranchType)
  <2>1. ir.into \in Seq(Seq(BranchType)) /\ m.into \in Seq(Seq(BranchType))
    BY DEF Shape, Branches, IsIr
  <2>2. b \in DOMAIN ir.into /\ b \in DOMAIN m.into
    BY <1>2, <2>1 DEF Branches, Blocks
  <2> QED
    BY <2>1, <2>2
<1>5. Len(F) = Len(E) /\ DOMAIN F = DOMAIN E /\ \A k \in DOMAIN E : F[k] = E[k]
  BY <1>3, <1>4 DEF Extends
<1>6. \A p \in DOMAIN m.phis : p[1] = b => p \in DOMAIN ir.phis
  BY PhisOfBlock
<1>7. \A p \in DOMAIN ir.phis : p[1] = b => p \in DOMAIN m.phis /\ m.phis[p] = ir.phis[p]
  BY PhisOfBlock
<1>8. ASSUME NEW i \in DOMAIN l.merge
      PROVE  SlotOK(l, F, m.phis, i)
  <2>1. SlotOK(l, E, ir.phis, i)
    BY <1>1 DEF LabelOK
  <2>2. Phi(b, i)[1] = b
    BY DEF Phi
  <2> HIDE DEF l, E, F, b
  <2>3. l.block = b
    BY DEF l, b
  <2> QED
    BY <1>5, <1>7, <2>1, <2>2, <2>3 DEF SlotOK
<1>9. \A p \in DOMAIN m.phis : p[1] = b => p[2] > 0 /\ Len(m.phis[p]) = Len(F)
  BY <1>2, <1>5, <1>6, <1>7 DEF PhisInv
<1> HIDE DEF E, F, l
<1>10. LabelOK(l, F, m.phis)
  <2>1. l.block = b
    BY DEF l
  <2>2. \A p \in DOMAIN m.phis : p[1] = b =>
          p[2] \in DOMAIN l.merge /\ p = Phi(b, p[2]) /\ l.merge[p[2]].phi = p
    BY <1>1, <1>6, <2>1 DEF LabelOK
  <2> QED
    BY <1>1, <1>5, <1>8, <2>1, <2>2 DEF LabelOK
<1> QED
  BY <1>9, <1>10 DEF E, F, l

(* A label that n branches of the step reach. *)
LEMMA LabelHit ==
  ASSUME Shape, status = "running", Chain, LabelsInv, PhisInv, ValuesInv,
         NEW hits, NEW res, Hits(hits, res), NEW m, Branches(m, hits, res),
         NEW t \in DOMAIN labels, t > 1, hits[t] > 0
  PROVE  /\ LabelOK(HitLabel(labels[t], Merged(t, res), hits[t]), m.into[labels[t].block], m.phis)
         /\ \A p \in DOMAIN m.phis : p[1] = labels[t].block =>
              p[2] > 0 /\ Len(m.phis[p]) = Len(m.into[labels[t].block])
<1> DEFINE l == labels[t]
           b == labels[t].block
           E == ir.into[b]
           F == m.into[b]
           n == hits[t]
           C == Carried(t, res)
           h == HitLabel(l, Merged(t, res), n)
<1>1. LabelOK(l, E, ir.phis)
  BY DEF LabelsInv
<1>2. b \in Blocks /\ b \in Nat /\ b > 0
  BY BlockFacts
<1>3. Extends(E, F, n, C) /\ n \in Nat
  BY DEF Branches, Hits
<1>4. E \in Seq(BranchType) /\ F \in Seq(BranchType)
  <2>1. ir.into \in Seq(Seq(BranchType)) /\ m.into \in Seq(Seq(BranchType))
    BY DEF Shape, Branches, IsIr
  <2>2. b \in DOMAIN ir.into /\ b \in DOMAIN m.into
    BY <1>2, <2>1 DEF Branches, Blocks
  <2> QED
    BY <2>1, <2>2
<1>5. /\ C \in Seq(Value)
      /\ Len(C) = Len(LocalType) + (IF MergesResult(l) THEN 1 ELSE 0)
      /\ \A i \in DOMAIN C : Usable(C[i])
  BY CarriedUsable
<1>6. /\ Merged(t, res) \in Seq(Slot) /\ Len(Merged(t, res)) = Len(C)
  BY MergedType
<1>7. /\ h.block = b /\ h.merge = Merged(t, res) /\ h.reached /\ h.inputs = l.inputs + n
      /\ h.loop = l.loop /\ h.rtype = l.rtype
  BY <1>3, <1>6, LabelsTyped, HitLabelFacts
<1>8. l \in LabelType /\ l.merge \in Seq(Slot) /\ l.inputs \in Nat /\ l.block = b
      /\ l.loop \in BOOLEAN /\ l.reached \in BOOLEAN
  BY LabelsTyped, LabelTyped
<1>9. /\ DOMAIN h.merge = DOMAIN C
      /\ \A i \in DOMAIN C : h.merge[i] = MergeSlot(l, i, C[i])
  <2>1. \A i \in DOMAIN C : Merged(t, res)[i] = MergeSlot(l, i, C[i])
    BY DEF Merged
  <2>2. DOMAIN Merged(t, res) = DOMAIN C
    BY DEF Merged
  <2> HIDE DEF h
  <2> QED
    BY <1>7, <2>1, <2>2
<1>10. Touched(t, res) = {i \in DOMAIN C : Disagrees(l, i, C[i])}
  BY DEF Touched
<1>11. l.reached => DOMAIN l.merge = DOMAIN C
  BY <1>1, <1>5, <1>8 DEF LabelOK
<1>12. \A i \in Touched(t, res) :
         Phi(b, i) \in DOMAIN m.phis /\ m.phis[Phi(b, i)] = PhiInputs(l, i) \o Copies(n, C[i])
  BY PhisOfBlock
<1>13. /\ \A p \in DOMAIN m.phis : p[1] = b =>
            p \in DOMAIN ir.phis \/ \E i \in Touched(t, res) : p = Phi(b, i)
       /\ \A p \in DOMAIN ir.phis : p[1] = b /\ p[2] \notin Touched(t, res) =>
            p \in DOMAIN m.phis /\ m.phis[p] = ir.phis[p]
  BY PhisOfBlock
<1>14. ~l.loop => b \in Pending
  BY <1>8 DEF Pending
<1>15. \A i \in DOMAIN C : C[i] \in Value /\ C[i][1] # 0 /\ (~l.loop => C[i][1] # b)
  <2>1. \A x \in Blocks : x # 0
    BY DEF Blocks, Shape, IsIr
  <2> QED
    BY <1>5, <1>14, <2>1 DEF Usable, IsValue, DefinedIn
<1>16. /\ Len(E) = l.inputs + (IF l.loop THEN 1 ELSE 0)
       /\ l.loop => l.reached
       /\ ~l.reached => l.inputs = 0
       /\ \A p \in DOMAIN ir.phis : p[1] = b =>
            p[2] \in DOMAIN l.merge /\ p = Phi(b, p[2]) /\ l.merge[p[2]].phi = p
       /\ \A i \in DOMAIN l.merge : SlotOK(l, E, ir.phis, i)
  BY <1>1, <1>8 DEF LabelOK
<1>17. \A p \in DOMAIN ir.phis : p[1] = b => p[2] > 0 /\ Len(ir.phis[p]) = Len(E) /\ ir.phis[p] \in Seq(Value)
  BY <1>2 DEF PhisInv, Shape, IsIr, IsPhis
<1>18. \A i \in DOMAIN C : i \in Nat /\ i > 0
  BY <1>5
<1>19. \A i : Phi(b, i)[1] = b /\ Phi(b, i)[2] = i
  BY DEF Phi
<1>20. Phi(b, 0) # NoPhi /\ \A i : Phi(b, i) # NoPhi
  <2>1. \A i : Phi(b, i)[1] # NoPhi[1]
    BY <1>2 DEF Phi, NoPhi, Invalid
  <2> QED
    BY <2>1
<1> HIDE DEF h, l, b, E, F, n, C
(* A slot that has a phi is touched. *)
<1>21. ASSUME NEW i \in DOMAIN C, l.reached, l.merge[i].phi # NoPhi
       PROVE  i \in Touched(t, res)
  <2>1. SlotOK(l, E, ir.phis, i)
    BY <1>11, <1>16, <1>21
  <2>2. l.merge[i].val = IF l.loop THEN Invalid ELSE Phi(b, i)
    BY <1>8, <1>21, <2>1 DEF SlotOK
  <2>3. l.merge[i].val # C[i]
    <3>1. CASE l.loop
      <4>1. l.merge[i].val[1] = 0
        BY <2>2, <3>1 DEF Invalid
      <4> QED
        BY <4>1, <1>15
    <3>2. CASE ~l.loop
      <4>1. l.merge[i].val[1] = b
        BY <2>2, <3>2, <1>19
      <4> QED
        BY <4>1, <3>2, <1>15
    <3> QED
      BY <3>1, <3>2
  <2> QED
    BY <1>10, <1>21, <2>3 DEF Disagrees
(* What a touched slot has collected so far. *)
<1>22. ASSUME NEW i \in Touched(t, res)
       PROVE  /\ i \in DOMAIN C
              /\ PhiInputs(l, i) \in Seq(Value) /\ Len(PhiInputs(l, i)) = Len(E)
              /\ \A k \in 1 .. Len(E) : PhiInputs(l, i)[k] = E[k].vals[i]
  <2>1. i \in DOMAIN C /\ l.reached /\ i \in DOMAIN l.merge
    BY <1>10, <1>11 DEF Disagrees
  <2>2. SlotOK(l, E, ir.phis, i)
    BY <1>16, <2>1
  <2>3. DOMAIN E = 1 .. Len(E)
    BY <1>4
  <2>4. CASE l.merge[i].phi = NoPhi
    <3>1. PhiInputs(l, i) = Copies(l.inputs, l.merge[i].val)
      BY <2>4 DEF PhiInputs, Backfill, Copies
    <3>2. ~l.loop /\ \A k \in DOMAIN E : E[k].vals[i] = l.merge[i].val
      BY <2>2, <2>4 DEF SlotOK
    <3>3. Len(E) = l.inputs
      BY <1>8, <1>16, <3>2
    <3>4. l.merge[i].val \in Value
      <4>1. l.merge[i] \in Slot
        BY <1>8, <2>1
      <4> QED
        BY <4>1 DEF Slot
    <3>5. Copies(l.inputs, l.merge[i].val) \in [1 .. l.inputs -> Value]
      BY <3>4 DEF Copies
    <3>6. PhiInputs(l, i) \in Seq(Value) /\ Len(PhiInputs(l, i)) = l.inputs
      <4>1. l.inputs \in Nat
        BY <1>8
      <4> QED
        BY ONLY <4>1, <3>1, <3>5, SeqOfFunction
    <3>7. \A k \in 1 .. l.inputs : Copies(l.inputs, l.merge[i].val)[k] = l.merge[i].val
      BY DEF Copies
    <3> QED
      BY <2>1, <2>3, <3>1, <3>2, <3>3, <3>6, <3>7
  <2>5. CASE l.merge[i].phi # NoPhi
    <3>1. PhiInputs(l, i) = ir.phis[Phi(b, i)]
      BY <1>8, <2>5 DEF PhiInputs
    <3>2. Phi(b, i) \in DOMAIN ir.phis /\ \A k \in DOMAIN E : ir.phis[Phi(b, i)][k] = E[k].vals[i]
      BY <1>8, <2>2, <2>5 DEF SlotOK
    <3> QED
      BY <1>17, <1>19, <2>1, <2>3, <3>1, <3>2
  <2> QED
    BY <2>4, <2>5
<1>23. ASSUME NEW i \in Touched(t, res)
       PROVE  /\ Len(m.phis[Phi(b, i)]) = Len(F)
              /\ \A k \in 1 .. Len(F) : m.phis[Phi(b, i)][k] = F[k].vals[i]
  <2>1. C[i] \in Value
    BY <1>15, <1>22
  <2> DEFINE s == PhiInputs(l, i)
  <2>2. s \in Seq(Value) /\ Len(s) = Len(E) /\ \A k \in 1 .. Len(E) : s[k] = E[k].vals[i]
    BY <1>22
  <2>3. m.phis[Phi(b, i)] = s \o Copies(n, C[i])
    BY <1>12
  <2> HIDE DEF s
  <2>4. Column(s, E, i)
    BY <2>2 DEF Column
  <2>5. Column(s \o Copies(n, C[i]), F, i)
    BY <1>3, <1>4, <2>1, <2>2, <2>4, ColumnExtended
  <2> QED
    BY <2>3, <2>5 DEF Column
<1>24. \A p \in DOMAIN m.phis : p[1] = b =>
         /\ p[2] > 0 /\ Len(m.phis[p]) = Len(F)
         /\ p[2] \in DOMAIN h.merge /\ p = Phi(b, p[2]) /\ h.merge[p[2]].phi = p
  <2> SUFFICES ASSUME NEW p \in DOMAIN m.phis, p[1] = b
               PROVE  /\ p[2] > 0 /\ Len(m.phis[p]) = Len(F)
                      /\ p[2] \in DOMAIN h.merge /\ p = Phi(b, p[2]) /\ h.merge[p[2]].phi = p
    OBVIOUS
  <2>1. \E i \in Touched(t, res) : p = Phi(b, i)
    <3>1. CASE p \in DOMAIN ir.phis
      <4>1. p[2] \in DOMAIN l.merge /\ p = Phi(b, p[2]) /\ l.merge[p[2]].phi = p
        BY <1>16, <3>1
      <4>2. l.reached
        BY <1>1, <4>1 DEF LabelOK
      <4>3. p[2] \in DOMAIN C /\ l.merge[p[2]].phi # NoPhi
        BY <1>11, <1>20, <4>1, <4>2
      <4> QED
        BY <1>21, <4>1, <4>2, <4>3
    <3> QED
      BY <1>13, <3>1
  <2>2. PICK i \in Touched(t, res) : p = Phi(b, i)
    BY <2>1
  <2>3. i \in DOMAIN C /\ p[2] = i /\ i > 0
    BY <1>18, <1>19, <1>22, <2>2
  <2>4. h.merge[i] = MergeSlot(l, i, C[i])
    BY <1>9, <2>3
  <2>5. l.reached /\ C[i] # l.merge[i].val
    BY <1>10 DEF Disagrees
  <2>6. h.merge[i].phi = p
    <3>1. CASE l.merge[i].phi = NoPhi
      BY <1>8, <2>2, <2>4, <2>5, <3>1 DEF MergeSlot, Disagrees
    <3>2. CASE l.merge[i].phi # NoPhi
      <4>1. h.merge[i] = l.merge[i]
        BY <2>4, <2>5, <3>2 DEF MergeSlot, Disagrees
      <4>2. l.merge[i].phi = Phi(b, i)
        BY <1>8, <1>11, <1>16, <2>3, <2>5, <3>2 DEF SlotOK
      <4> QED
        BY <2>2, <4>1, <4>2
    <3> QED
      BY <3>1, <3>2
  <2> QED
    BY <1>9, <1>23, <2>2, <2>3, <2>6
<1>25. ASSUME NEW i \in DOMAIN C
       PROVE  SlotOK(h, F, m.phis, i)
  <2>1. h.merge[i] = MergeSlot(l, i, C[i])
    BY <1>9
  <2>2. DOMAIN F = 1 .. Len(F) /\ DOMAIN E = 1 .. Len(E) /\ Len(E) \in Nat /\ Len(F) = Len(E) + n
    BY <1>3, <1>4 DEF Extends
  <2>3. \A k \in DOMAIN F : IF k \in DOMAIN E THEN F[k] = E[k] ELSE F[k].vals = C
    BY <1>3, <2>2 DEF Extends
  <2>4. CASE ~l.reached
    <3>1. h.merge[i].phi = NoPhi /\ h.merge[i].val = C[i]
      BY <2>1, <2>4 DEF MergeSlot, Disagrees
    <3>2. ~l.loop /\ DOMAIN E = {}
      BY <1>16, <2>2, <2>4
    <3> QED
      BY <1>7, <2>3, <3>1, <3>2 DEF SlotOK
  <2>5. CASE l.reached /\ i \notin Touched(t, res)
    <3>1. C[i] = l.merge[i].val /\ l.merge[i].phi = NoPhi
      BY <1>10, <1>21, <2>5 DEF Disagrees
    <3>2. h.merge[i] = l.merge[i]
      BY <2>1, <2>5, <3>1 DEF MergeSlot, Disagrees
    <3>3. ~l.loop /\ \A k \in DOMAIN E : E[k].vals[i] = l.merge[i].val
      BY <1>11, <1>16, <2>5, <3>1 DEF SlotOK
    <3>4. \A k \in DOMAIN F : F[k].vals[i] = h.merge[i].val
      BY <2>3, <3>1, <3>2, <3>3
    <3> QED
      BY <1>7, <3>1, <3>2, <3>3, <3>4 DEF SlotOK
  <2>6. CASE i \in Touched(t, res)
    <3>1. Phi(b, i) \in DOMAIN m.phis /\ \A k \in DOMAIN F : m.phis[Phi(b, i)][k] = F[k].vals[i]
      BY <1>12, <1>23, <2>2, <2>6
    <3>2. l.reached /\ C[i] # l.merge[i].val
      BY <1>10, <2>6 DEF Disagrees
    <3>3. h.merge[i].phi = Phi(b, i) /\ h.merge[i].val = IF l.loop THEN Invalid ELSE Phi(b, i)
      <4>1. SlotOK(l, E, ir.phis, i)
        BY <1>11, <1>16, <3>2
      <4>2. CASE l.merge[i].phi = NoPhi
        <5>1. h.merge[i] = [val |-> Phi(b, i), phi |-> Phi(b, i)]
          BY <1>8, <2>1, <3>2, <4>2 DEF MergeSlot, Disagrees
        <5>2. ~l.loop
          BY <4>1, <4>2 DEF SlotOK
        <5> QED
          BY <5>1, <5>2
      <4>3. CASE l.merge[i].phi # NoPhi
        <5>1. h.merge[i] = l.merge[i]
          BY <2>1, <3>2, <4>3 DEF MergeSlot, Disagrees
        <5> QED
          BY <1>8, <4>1, <4>3, <5>1 DEF SlotOK
      <4> QED
        BY <4>2, <4>3
    <3>4. h.merge[i].phi # NoPhi
      BY <1>20, <3>3
    <3> QED
      BY <1>7, <3>1, <3>3, <3>4 DEF SlotOK
  <2> QED
    BY <2>4, <2>5, <2>6
<1>26. Len(F) = h.inputs + (IF h.loop THEN 1 ELSE 0)
  <2>1. Len(F) = Len(E) + n
    BY <1>3 DEF Extends
  <2> QED
    BY <1>3, <1>7, <1>8, <1>16, <2>1
<1>27. Len(h.merge) = Len(LocalType) + (IF MergesResult(h) THEN 1 ELSE 0)
  BY <1>5, <1>6, <1>7 DEF MergesResult
<1>28. LabelOK(h, F, m.phis)
  BY <1>7, <1>9, <1>24, <1>25, <1>26, <1>27 DEF LabelOK
<1> QED
  BY <1>24, <1>28 DEF h, l, b, E, F, n, C

-----------------------------------------------------------------------------
(* What a step keeps, by the branches it builds.                           *)

After(hits, res, t) == IF hits[t] = 0 THEN labels[t] ELSE HitLabel(labels[t], Merged(t, res), hits[t])

LEMMA AfterFacts ==
  ASSUME Shape, status = "running", LabelsInv, ValuesInv, NEW hits, NEW res, Hits(hits, res),
         NEW t \in DOMAIN labels
  PROVE  /\ After(hits, res, t) \in LabelType
         /\ After(hits, res, t).block = labels[t].block
         /\ After(hits, res, t).loop = labels[t].loop
         /\ After(hits, res, t).rtype = labels[t].rtype
         /\ After(hits, res, t).stack = labels[t].stack
         /\ After(hits, res, t).terminated = labels[t].terminated
         /\ After(hits, res, t).depth = labels[t].depth
<1>1. labels[t] \in LabelType
  BY LabelsTyped
<1>2. hits[t] \in Nat
  BY DEF Hits
<1>3. CASE hits[t] = 0
  BY <1>1, <1>3 DEF After
<1>4. CASE hits[t] > 0
  <2>1. Merged(t, res) \in Seq(Slot)
    BY <1>4, MergedType
  <2>2. After(hits, res, t) = HitLabel(labels[t], Merged(t, res), hits[t])
    BY <1>4 DEF After
  <2> QED
    BY <1>1, <1>2, <2>1, <2>2, HitLabelFacts
<1> QED
  BY <1>2, <1>3, <1>4

LEMMA StepLabel ==
  ASSUME Shape, status = "running", Chain, LabelsInv, PhisInv, ValuesInv,
         NEW hits, NEW res, Hits(hits, res), NEW m, Branches(m, hits, res),
         NEW t \in DOMAIN labels, t > 1
  PROVE  /\ LabelOK(After(hits, res, t), m.into[labels[t].block], m.phis)
         /\ \A p \in DOMAIN m.phis : p[1] = labels[t].block =>
              p[2] > 0 /\ Len(m.phis[p]) = Len(m.into[labels[t].block])
<1>1. hits[t] \in Nat
  BY DEF Hits
<1>2. CASE hits[t] = 0
  BY <1>2, LabelNotHit DEF After
<1>3. CASE hits[t] > 0
  BY <1>3, LabelHit DEF After
<1> QED
  BY <1>1, <1>2, <1>3

(* Nothing happens to the blocks of no label. *)
LEMMA StepOther ==
  ASSUME Shape, Chain, NEW hits, NEW res, Hits(hits, res), NEW m, Branches(m, hits, res),
         NEW b \in Blocks, \A t \in DOMAIN labels : t > 1 => labels[t].block # b
  PROVE  /\ m.into[b] = ir.into[b]
         /\ \A p : p[1] = b => (p \in DOMAIN m.phis <=> p \in DOMAIN ir.phis)
         /\ \A p \in DOMAIN ir.phis : p[1] = b => m.phis[p] = ir.phis[p]
<1>0. b # 0
  BY DEF Blocks, Shape, IsIr
<1>1. \A t \in DOMAIN labels : labels[t].block # b
  <2> SUFFICES ASSUME NEW t \in DOMAIN labels PROVE labels[t].block # b
    OBVIOUS
  <2>1. t \in Nat /\ t >= 1 /\ labels # <<>>
    BY LabelsTyped
  <2>2. labels[1].block = 0
    BY <2>1 DEF Chain, ChainOK
  <2> QED
    BY <1>0, <2>1, <2>2
<1>2. hits \in [DOMAIN labels -> Nat]
  BY DEF Hits
<1>3. ASSUME NEW p \in DOMAIN PreparedPhis(hits, res)
      PROVE  p[1] # b
  <2>1. PICK s \in DOMAIN labels : hits[s] > 0 /\ \E i \in Touched(s, res) : p = Phi(labels[s].block, i)
    BY <1>2, PreparedPhisFacts
  <2>2. p[1] = labels[s].block
    BY <2>1 DEF Phi
  <2> QED
    BY <1>1, <2>2
<1> QED
  BY <1>1, <1>3 DEF Branches

LEMMA StepPhis ==
  ASSUME Shape, status = "running", Chain, LabelsInv, PhisInv, ValuesInv,
         NEW hits, NEW res, Hits(hits, res), NEW m, Branches(m, hits, res)
  PROVE  \A p \in DOMAIN m.phis : p[1] \in Blocks => p[2] > 0 /\ Len(m.phis[p]) = Len(m.into[p[1]])
<1> SUFFICES ASSUME NEW p \in DOMAIN m.phis, p[1] \in Blocks
             PROVE  p[2] > 0 /\ Len(m.phis[p]) = Len(m.into[p[1]])
  OBVIOUS
<1>1. CASE \E t \in DOMAIN labels : t > 1 /\ labels[t].block = p[1]
  BY <1>1, StepLabel
<1>2. CASE \A t \in DOMAIN labels : t > 1 => labels[t].block # p[1]
  <2>1. m.into[p[1]] = ir.into[p[1]] /\ p \in DOMAIN ir.phis /\ m.phis[p] = ir.phis[p]
    BY <1>2, StepOther
  <2> QED
    BY <2>1 DEF PhisInv
<1> QED
  BY <1>1, <1>2

(* A value stays usable. *)
LEMMA StepUsable ==
  ASSUME Shape, NEW hits, NEW res, Branches(ir', hits, res),
         \A b \in Pending' : b \in Blocks => b \in Pending,
         NEW v, Usable(v)
  PROVE  Usable(v)'
<1>1. Blocks \subseteq Blocks'
  BY DEF Blocks, Branches, Shape, IsIr
<1>2. DOMAIN ir.phis \subseteq DOMAIN ir'.phis
  BY DEF Branches
<1>3. 1 .. ir.values \subseteq 1 .. ir'.values
  BY DEF Branches, Shape, IsIr
<1> QED
  BY <1>1, <1>2, <1>3 DEF Usable, IsValue, DefinedIn

(* What the slots without a phi hold. *)
LEMMA StepSlots ==
  ASSUME Shape, status = "running", Chain, LabelsInv, ValuesInv, NEW hits, NEW res, Hits(hits, res),
         NEW t \in DOMAIN labels, NEW i \in DOMAIN After(hits, res, t).merge,
         After(hits, res, t).merge[i].phi = NoPhi
  PROVE  Usable(After(hits, res, t).merge[i].val)
<1>1. hits[t] \in Nat
  BY DEF Hits
<1>2. CASE hits[t] = 0
  BY <1>2 DEF After, ValuesInv
<1>3. CASE hits[t] > 0
  <2>0. t > 1 /\ t \in Nat /\ labels[t] \in LabelType /\ Merged(t, res) \in Seq(Slot)
    BY <1>3, MergedType, LabelsTyped
  <2>1. After(hits, res, t).merge = Merged(t, res)
    BY <1>1, <1>3, <2>0, HitLabelFacts DEF After
  <2>2. /\ \A j \in DOMAIN Carried(t, res) : Usable(Carried(t, res)[j])
        /\ Carried(t, res) \in Seq(Value)
        /\ Len(Carried(t, res)) = Len(LocalType) + (IF MergesResult(labels[t]) THEN 1 ELSE 0)
    BY <1>3, CarriedUsable
  <2>3. i \in DOMAIN Carried(t, res) /\ Merged(t, res)[i] = MergeSlot(labels[t], i, Carried(t, res)[i])
    BY <2>1 DEF Merged
  <2>4. labels[t].block > 0 /\ labels[t].block \in Nat
    BY <2>0, BlockFacts
  <2> DEFINE v == Carried(t, res)[i]
             l == labels[t]
  <2>5. Usable(v)
    BY <2>2, <2>3
  <2>6. CASE ~l.reached
    BY <2>1, <2>3, <2>5, <2>6 DEF MergeSlot, Disagrees
  <2>7. CASE l.reached /\ v # l.merge[i].val /\ l.merge[i].phi = NoPhi
    <3>1. MergeSlot(l, i, v).phi = Phi(l.block, i)
      BY <2>7 DEF MergeSlot, Disagrees
    <3>2. Phi(l.block, i)[1] # NoPhi[1]
      BY <2>4 DEF Phi, NoPhi, Invalid
    <3> QED
      BY <2>1, <2>3, <3>1, <3>2
  <2>8. CASE l.reached /\ ~(v # l.merge[i].val /\ l.merge[i].phi = NoPhi)
    <3>1. MergeSlot(l, i, v) = l.merge[i]
      BY <2>8 DEF MergeSlot, Disagrees
    <3>2. l.merge[i].phi = NoPhi /\ MergeSlot(l, i, v).val = v
      BY <2>1, <2>3, <2>8, <3>1
    <3> QED
      BY <2>1, <2>3, <2>5, <3>2
  <2> QED
    BY <2>6, <2>7, <2>8
<1> QED
  BY <1>1, <1>2, <1>3

(* The blocks translation goes on in stay right. *)
LEMMA StepEntry ==
  ASSUME Shape, status = "running", Chain, LabelsInv, PhisInv, ValuesInv, EntryInv,
         NEW hits, NEW res, Hits(hits, res), Branches(ir', hits, res), NEW b \in DOMAIN entry,
         NEW k \in DOMAIN ir'.into[b], NEW i \in DOMAIN entry[b]
  PROVE  (IF entry[b][i] \in DOMAIN ir'.phis /\ DefinedIn(entry[b][i]) = b
          THEN ir'.phis[entry[b][i]][k] ELSE entry[b][i]) = ir'.into[b][k].vals[i]
<1>0. b \in Blocks /\ b \notin Pending
  BY DEF EntryInv
<1>1. CASE \E t \in DOMAIN labels : t > 1 /\ labels[t].block = b
  <2>1. PICK t \in DOMAIN labels : t > 1 /\ labels[t].block = b
    BY <1>1
  <2>2. labels[t].loop /\ labels[t].rtype \in Types
    BY <1>0, <2>1, LabelsTyped, LabelTyped DEF Pending
  <2>3. entry[b] = [j \in LocalIdx |-> Phi(b, j)]
    <3>1. t \in DOMAIN labels /\ labels[t].block = b /\ t > 1 /\ labels[t].loop
      BY <2>1, <2>2
    <3>2. \A u \in DOMAIN labels : u > 1 /\ labels[u].loop =>
            entry[labels[u].block] = [j \in LocalIdx |-> Phi(labels[u].block, j)]
      BY Zenon DEF EntryInv
    <3> QED
      BY ONLY <3>1, <3>2, Zenon
  <2>4. entry[b][i] = Phi(b, i) /\ i \in 1 .. Len(LocalType)
    BY <2>3, TranslateAssumption DEF LocalIdx
  <2> DEFINE l == After(hits, res, t)
             F == ir'.into[b]
             P == ir'.phis
  <2>5. LabelOK(l, F, P)
    BY <2>1, StepLabel
  <2>6. l.loop /\ l.block = b /\ l.merge \in Seq(Slot)
    BY <2>1, <2>2, AfterFacts, LabelTyped
  <2> HIDE DEF l, F, P
  <2>7. i \in DOMAIN l.merge
    BY <2>4, <2>5, <2>6 DEF LabelOK, MergesResult
  <2>8. SlotOK(l, F, P, i)
    BY <2>5, <2>7 DEF LabelOK
  <2>9. Phi(b, i) \in DOMAIN P /\ \A j \in DOMAIN F : P[Phi(b, i)][j] = F[j].vals[i]
    BY <2>6, <2>8 DEF SlotOK
  <2>10. DefinedIn(Phi(b, i)) = b
    BY DEF DefinedIn, Phi
  <2> QED
    BY <2>4, <2>9, <2>10 DEF F, P
<1>2. CASE \A t \in DOMAIN labels : t > 1 => labels[t].block # b
  <2>1. /\ ir'.into[b] = ir.into[b]
        /\ \A p : p[1] = b => (p \in DOMAIN ir'.phis <=> p \in DOMAIN ir.phis)
        /\ \A p \in DOMAIN ir.phis : p[1] = b => ir'.phis[p] = ir.phis[p]
    BY <1>0, <1>2, StepOther
  <2>2. OnEdge(b, entry[b][i], k) = ir.into[b][k].vals[i]
    BY <2>1 DEF EntryInv, EdgesInto
  <2> QED
    BY <2>1, <2>2 DEF OnEdge, DefinedIn
<1> QED
  BY <1>1, <1>2

(* The parts of the invariant that hold of the labels that stay, whatever  *)
(* else the step does.                                                     *)
Stays(hits, res) ==
  /\ labels' \in Seq(LabelType)
  /\ \A t \in DOMAIN labels' : t \in DOMAIN labels => SameMerge(labels'[t], After(hits, res, t))

LEMMA StepKeepsLabels ==
  ASSUME Shape, status = "running", Chain, LabelsInv, PhisInv, ValuesInv,
         NEW hits, NEW res, Hits(hits, res), Branches(ir', hits, res), Stays(hits, res),
         NEW t \in DOMAIN labels', t > 1, t \in DOMAIN labels
  PROVE  LabelOK(labels'[t], ir'.into[labels'[t].block], ir'.phis)
<1>1. LabelOK(After(hits, res, t), ir'.into[labels[t].block], ir'.phis)
  BY StepLabel
<1>2. SameMerge(labels'[t], After(hits, res, t)) /\ labels'[t].block = labels[t].block
  BY AfterFacts DEF Stays, SameMerge
<1> QED
  BY <1>1, <1>2, LabelOKSame

LEMMA StepKeepsSlots ==
  ASSUME Shape, status = "running", Chain, LabelsInv, ValuesInv,
         NEW hits, NEW res, Hits(hits, res), Branches(ir', hits, res), Stays(hits, res),
         \A b \in Pending' : b \in Blocks => b \in Pending,
         NEW t \in DOMAIN labels', t \in DOMAIN labels, NEW i \in DOMAIN labels'[t].merge,
         labels'[t].merge[i].phi = NoPhi
  PROVE  \A v : v = labels'[t].merge[i].val => Usable(v)'
<1>1. labels'[t].merge = After(hits, res, t).merge
  BY DEF Stays, SameMerge
<1>2. Usable(labels'[t].merge[i].val)
  BY <1>1, StepSlots
<1>3. ASSUME NEW v, v = labels'[t].merge[i].val
      PROVE  Usable(v)'
  <2>1. Usable(v)
    BY <1>2, <1>3
  <2> QED
    BY <2>1, StepUsable
<1> QED
  BY <1>3

(* A step that changes the innermost label only, but for the branches it   *)
(* builds.                                                                 *)
TopChanges(hits, res) ==
  /\ Stays(hits, res)
  /\ Len(labels') = Len(labels)
  /\ \A t \in DOMAIN labels : t < Len(labels) =>
       /\ labels'[t].stack = labels[t].stack
       /\ labels'[t].terminated = labels[t].terminated
       /\ labels'[t].depth = labels[t].depth
  /\ ~labels'[Len(labels)].terminated => labels'[Len(labels)].depth = 0

(* Everything held by locals and the innermost stack is usable afterwards. *)
HeldUsable ==
  /\ locals' \in Seq(Value)
  /\ Len(locals') = Len(LocalType)
  /\ \A i \in DOMAIN locals' : \A v : v = locals'[i] => Usable(v)'
  /\ \A j \in DOMAIN labels'[Len(labels)].stack : \A v : v = labels'[Len(labels)].stack[j].val => Usable(v)'

Counted ==
  /\ status' = "running"
  /\ ops < MaxOps /\ ops' = ops + 1
  /\ nest' \in Nat /\ nest' <= nest + 1

(* The cursor's block is closed, and another one is open unless the code   *)
(* is dead, or it stays open.                                              *)
CursorMoves(dead) ==
  /\ ir'.term \subseteq Blocks'
  /\ ir.term \subseteq ir'.term
  /\ \A b \in ir'.term : b \in ir.term \/ b = ir.cur \/ b \notin Blocks
  /\ ir'.hollow \subseteq Blocks' \ ir'.term
  /\ ir.hollow \subseteq ir'.hollow
  /\ \A b \in ir'.hollow : b \in ir.hollow \/ b \notin Blocks
  /\ \A b \in Blocks' \ Blocks : b \in ir'.term \cup ir'.hollow \/ (~dead /\ b = ir'.cur)
  /\ IF dead THEN ir.cur \in ir'.term /\ ir'.cur \in ir'.term
     ELSE /\ ir'.cur \in Blocks' \ (ir'.term \cup ir'.hollow)
          /\ ir'.cur = ir.cur \/ (ir'.cur \notin Blocks /\ ir.cur \in ir'.term)

(* The pending blocks are the same if the labels are. *)
LEMMA PendingStays ==
  ASSUME Shape, status = "running", LabelsInv, ValuesInv, NEW hits, NEW res, Hits(hits, res),
         Stays(hits, res), Len(labels') = Len(labels)
  PROVE  Pending' = Pending
<1>1. DOMAIN labels' = DOMAIN labels
  BY DEF Stays, Shape
<1>2. \A t \in DOMAIN labels : labels'[t].block = labels[t].block /\ labels'[t].loop = labels[t].loop
  BY <1>1, AfterFacts DEF Stays, SameMerge
<1>3. \A b : b \in Pending' <=> b \in Pending
  BY <1>1, <1>2 DEF Pending
<1> QED
  BY <1>3

LEMMA PendingBlocks ==
  ASSUME Shape, Chain
  PROVE  Pending \subseteq Blocks
  BY BlockFacts DEF Pending

LEMMA OpenStep ==
  ASSUME Shape, Chain, OpenInv, labels # <<>>, ~Top.terminated, Pending' = Pending,
         labels' # <<>>, CursorMoves(labels'[Len(labels')].terminated), NEW hits, NEW res, Branches(ir', hits, res)
  PROVE  OpenInv'
<1>1. Blocks \subseteq Blocks' /\ Blocks' = 1 .. Len(ir'.into) /\ Len(ir'.into) \in Nat
  BY DEF Blocks, Branches, Shape, IsIr
<1>2. ir.cur \in Blocks \ (ir.term \cup ir.hollow \cup Pending)
  BY DEF OpenInv
<1>3. Pending \subseteq Blocks
  BY PendingBlocks
<1> DEFINE dead == labels'[Len(labels')].terminated
<1>4. Top'.terminated = dead
  BY DEF Top, TopIdx
<1>5. CursorMoves(dead)
  OBVIOUS
<1> HIDE DEF dead
<1>6. ir'.cur \in 0 .. Len(ir'.into)
  BY <1>1, <1>5 DEF CursorMoves
<1>7. Pending' \cap (ir'.term \cup ir'.hollow) = {}
  BY <1>2, <1>3, <1>5 DEF CursorMoves, OpenInv
<1>8. ASSUME NEW b \in Blocks', b \notin ir'.term, b \notin ir'.hollow, b \notin Pending
      PROVE  ~dead /\ b = ir'.cur
  <2>1. CASE b \in Blocks
    <3>1. b = ir.cur
      BY <1>5, <1>8, <2>1 DEF CursorMoves, OpenInv
    <3> QED
      BY <3>1, <1>5, <1>8 DEF CursorMoves
  <2>2. CASE b \notin Blocks
    BY <1>5, <1>8, <2>2 DEF CursorMoves
  <2> QED
    BY <2>1, <2>2
<1>9. IF dead THEN ir'.cur \in ir'.term ELSE ir'.cur \in Blocks' \ (ir'.term \cup ir'.hollow \cup Pending)
  BY <1>2, <1>3, <1>5 DEF CursorMoves
<1>10. ir'.term \subseteq Blocks' /\ ir'.hollow \subseteq Blocks' \ ir'.term
  BY <1>5 DEF CursorMoves
<1> QED
  BY <1>4, <1>6, <1>7, <1>8, <1>9, <1>10 DEF OpenInv

(* Leaving a frame moves the nesting by as much as the depth of its label. *)
LEMMA SameDepth ==
  ASSUME NEW a \in Nat, NEW b, NEW d \in Nat, NEW e \in Nat, NEW n \in Nat, a - d = b - e, b = n + e
  PROVE  a = n + d
  OBVIOUS

LEMMA InPlace ==
  ASSUME TrInv, status = "running", labels # <<>>, NEW hits, NEW res, Hits(hits, res),
         Branches(ir', hits, res), TopChanges(hits, res), HeldUsable, Counted, OpenInv',
         \A p \in DOMAIN ir'.phis : p[1] \in Blocks,
         nest' - labels'[Len(labels)].depth = nest - Top.depth, entry' = entry
  PROVE  TrInv'
<1>1. /\ Shape /\ Chain /\ Frames /\ OpsInv /\ LabelsInv /\ PhisInv /\ ValuesInv /\ EntryInv /\ OpenInv
      /\ Stays(hits, res)
  BY DEF TrInv, TopChanges
<1>2. Len(labels) \in Nat /\ Len(labels) > 0 /\ DOMAIN labels = 1 .. Len(labels) /\ ops \in Nat /\ nest \in Nat
  BY <1>1 DEF Shape
<1>3. DOMAIN labels' = DOMAIN labels /\ Len(labels') = Len(labels) /\ labels' \in Seq(LabelType) /\ labels' # <<>>
  BY <1>1, <1>2 DEF TopChanges, Stays
<1>4. Pending' = Pending
  BY <1>1, <1>3, PendingStays
<1>5. \A t \in DOMAIN labels : /\ labels'[t].block = labels[t].block /\ labels'[t].loop = labels[t].loop
                               /\ labels'[t].rtype = labels[t].rtype
  BY <1>1, <1>3, AfterFacts DEF Stays, SameMerge
<1>6. Len(ir.into) <= Len(ir'.into) /\ Blocks \subseteq Blocks' /\ IsIr(ir')
  BY <1>1 DEF Blocks, Branches, Shape, IsIr
<1>7. Shape'
  BY <1>1, <1>2, <1>3, <1>6, TranslateAssumption DEF Shape, HeldUsable, Counted
<1>8. Chain'
  <2>1. \A s, t \in DOMAIN labels' : s < t => labels'[s].block < labels'[t].block
    BY <1>1, <1>3, <1>5 DEF Chain, ChainOK
  <2>2. labels'[1].block = 0 /\ ~labels'[1].loop /\ labels'[1].rtype = NoType /\ labels'[1].merge = <<>>
    <3>1. labels[1].block = 0 /\ ~labels[1].loop /\ labels[1].rtype = NoType /\ labels[1].merge = <<>>
      BY <1>1 DEF Chain, ChainOK
    <3>2. After(hits, res, 1) = labels[1] /\ 1 \in DOMAIN labels
      BY <1>2 DEF After, Hits
    <3> QED
      BY <1>1, <1>3, <3>1, <3>2 DEF Stays, SameMerge
  <2>3. ASSUME NEW t \in DOMAIN labels'
        PROVE  /\ labels'[t].block <= Len(ir'.into)
               /\ t < Len(labels') => ~labels'[t].terminated
               /\ ~labels'[t].terminated => labels'[t].depth = 0
    <3>1. labels[t].block <= Len(ir.into) /\ labels[t].block \in Nat
      BY <1>1, <1>3, LabelsTyped, LabelTyped DEF Chain, ChainOK
    <3>2. labels'[t].block <= Len(ir'.into)
      BY <1>3, <1>5, <1>6, <1>1, <3>1 DEF Shape, IsIr
    <3>3. CASE t < Len(labels)
      BY <1>1, <1>3, <3>2, <3>3 DEF Chain, ChainOK, TopChanges
    <3>4. CASE t = Len(labels)
      BY <1>3, <3>2, <3>4 DEF TopChanges
    <3> QED
      BY <1>2, <1>3, <3>3, <3>4
  <2> QED
    BY <2>1, <2>2, <2>3 DEF Chain, ChainOK
<1>9. Frames' /\ OpsInv'
  <2>1. Top' = labels'[Len(labels)] /\ Top = labels[Len(labels)] /\ status # "failed"
    BY <1>3 DEF Top, TopIdx
  <2>2. nest = Len(labels) + Top.depth
    BY <1>1, <2>1 DEF Frames
  <2>3. Top'.depth \in Nat /\ Top.depth \in Nat
    <3>1. labels'[Len(labels)] \in LabelType /\ labels[Len(labels)] \in LabelType
      BY <1>1, <1>2, <1>3 DEF Shape
    <3> QED
      BY <2>1, <3>1, LabelTyped
  <2>4. nest' = Len(labels) + Top'.depth
    <3> DEFINE d == Top'.depth
    <3>1. nest' - d = nest - Top.depth
      BY <2>1
    <3>2. d \in Nat /\ nest' \in Nat
      BY <2>3 DEF Counted
    <3> HIDE DEF d
    <3>3. nest' = Len(labels) + d
      <4> DEFINE e == Top.depth
      <4>1. /\ nest' - d = nest - e /\ nest = Len(labels) + e
            /\ e \in Nat /\ d \in Nat /\ nest' \in Nat /\ Len(labels) \in Nat
        BY <1>2, <2>2, <2>3, <3>1, <3>2
      <4> DEFINE a == nest'
                 b == nest
                 n == Len(labels)
      <4>2. a \in Nat /\ d \in Nat /\ e \in Nat /\ n \in Nat /\ a - d = b - e /\ b = n + e
        BY <4>1
      <4> HIDE DEF a, b, n, e
      <4>3. a = n + d
        BY ONLY <4>2, SameDepth
      <4> QED
        BY ONLY <4>3 DEF a, n
    <3> QED
      BY <3>3 DEF d
  <2> QED
    BY <1>1, <1>2, <1>3, <2>4 DEF Frames, OpsInv, Counted
<1>10. SourcesInv'
  BY DEF Branches, SourcesInv, Blocks
<1>11. LabelsInv'
  BY <1>1, <1>3, StepKeepsLabels DEF LabelsInv
<1>12. PhisInv'
  <2>1. \A p \in DOMAIN ir'.phis : p[2] > 0 /\ Len(ir'.phis[p]) = Len(ir'.into[p[1]])
    BY <1>1, StepPhis
  <2> QED
    BY <1>6, <2>1 DEF PhisInv
<1>13. ValuesInv'
  <2>1. \A i \in DOMAIN locals' : Usable(locals[i])'
    BY DEF HeldUsable
  <2>2. ASSUME NEW t \in DOMAIN labels', NEW j \in DOMAIN labels'[t].stack
        PROVE  \A v : v = labels'[t].stack[j].val => Usable(v)'
    <3>1. CASE t < Len(labels)
      <4>1. labels'[t].stack = labels[t].stack
        BY <1>3, <3>1 DEF TopChanges
      <4>2. Usable(labels[t].stack[j].val)
        BY <1>1, <1>3, <4>1 DEF ValuesInv
      <4>3. ASSUME NEW v, v = labels'[t].stack[j].val
            PROVE  Usable(v)'
        <5>1. Usable(v)
          BY <4>1, <4>2, <4>3
        <5> QED
          BY <1>1, <1>4, <5>1, StepUsable
      <4> QED
        BY <4>3
    <3>2. CASE t = Len(labels)
      BY <3>2 DEF HeldUsable
    <3> QED
      BY <1>2, <1>3, <3>1, <3>2
  <2>3. ASSUME NEW t \in DOMAIN labels', NEW i \in DOMAIN labels'[t].merge, labels'[t].merge[i].phi = NoPhi
        PROVE  \A v : v = labels'[t].merge[i].val => Usable(v)'
    BY <1>1, <1>3, <1>4, <2>3, StepKeepsSlots
  <2> QED
    BY <2>1, <2>2, <2>3 DEF ValuesInv
<1>14. EntryInv'
  <2>1. entry' = [b \in DOMAIN entry' |-> entry'[b]] /\ DOMAIN entry' \subseteq Blocks' \ Pending'
    BY <1>1, <1>4, <1>6 DEF EntryInv
  <2>2. \A t \in DOMAIN labels' : t > 1 /\ labels'[t].loop =>
          /\ labels'[t].block \in DOMAIN entry'
          /\ entry'[labels'[t].block] = [i \in LocalIdx |-> Phi(labels'[t].block, i)]
    BY <1>1, <1>3, <1>5 DEF EntryInv
  <2>3. ASSUME NEW b \in DOMAIN entry', NEW k \in DOMAIN ir'.into[b], NEW i \in DOMAIN entry'[b]
        PROVE  (IF entry'[b][i] \in DOMAIN ir'.phis /\ DefinedIn(entry'[b][i]) = b
                THEN ir'.phis[entry'[b][i]][k] ELSE entry'[b][i]) = ir'.into[b][k].vals[i]
    BY <1>1, StepEntry
  <2> QED
    BY <2>1, <2>2, <2>3 DEF EntryInv, OnEdge, EdgesInto, DefinedIn
<1> QED
  BY <1>7, <1>8, <1>9, <1>10, <1>11, <1>12, <1>13, <1>14 DEF TrInv

-----------------------------------------------------------------------------
(* Changes of the innermost label.                                         *)

Operands == [val : Value, type : Types]

WithStack(l, s) == [l EXCEPT !.stack = s]

WithDead(l) == [l EXCEPT !.terminated = TRUE]

WithDepth(l, d) == [l EXCEPT !.depth = d]

LEMMA EmptyStack == <<>> \in Seq(Operands)
  OBVIOUS

LEMMA WithFacts ==
  ASSUME NEW l \in LabelType, NEW s \in Seq(Operands), NEW d \in Nat
  PROVE  /\ WithStack(l, s) \in LabelType
         /\ SameMerge(WithStack(l, s), l)
         /\ WithStack(l, s).stack = s
         /\ WithStack(l, s).terminated = l.terminated
         /\ WithStack(l, s).depth = l.depth
         /\ WithDead(l) \in LabelType
         /\ SameMerge(WithDead(l), l)
         /\ WithDead(l).stack = l.stack
         /\ WithDead(l).terminated
         /\ WithDead(l).depth = l.depth
         /\ WithDepth(l, d) \in LabelType
         /\ SameMerge(WithDepth(l, d), l)
         /\ WithDepth(l, d).stack = l.stack
         /\ WithDepth(l, d).terminated = l.terminated
         /\ WithDepth(l, d).depth = d
<1> DEFINE lab(st, te, de) ==
             [block |-> l.block, stack |-> st, merge |-> l.merge, reached |-> l.reached, inputs |-> l.inputs,
              loop |-> l.loop, terminated |-> te, depth |-> de, rtype |-> l.rtype]
           yes == TRUE
<1>1. l = lab(l.stack, l.terminated, l.depth)
  BY LabelTyped
<1>2. WithStack(l, s) = lab(s, l.terminated, l.depth)
  BY <1>1 DEF WithStack
<1>3. WithDead(l) = [l EXCEPT !.terminated = yes]
  BY DEF WithDead
<1> HIDE DEF yes
<1>4. WithDead(l) = lab(l.stack, yes, l.depth)
  BY <1>1, <1>3
<1>5. WithDepth(l, d) = lab(l.stack, l.terminated, d)
  BY <1>1 DEF WithDepth
<1>6. /\ l.block \in Nat /\ l.stack \in Seq(Operands) /\ l.merge \in Seq(Slot) /\ l.reached \in BOOLEAN
      /\ l.inputs \in Nat /\ l.loop \in BOOLEAN /\ l.terminated \in BOOLEAN /\ l.depth \in Nat /\ l.rtype \in Types
  BY LabelTyped DEF Operands
<1>7. /\ lab(s, l.terminated, l.depth) \in LabelType
      /\ lab(l.stack, yes, l.depth) \in LabelType
      /\ lab(l.stack, l.terminated, d) \in LabelType
  BY <1>6 DEF LabelType, Operands, yes
<1>8. WithStack(l, s) \in LabelType /\ WithDead(l) \in LabelType /\ WithDepth(l, d) \in LabelType
  BY <1>2, <1>4, <1>5, <1>7
<1>9. /\ SameMerge(WithStack(l, s), l) /\ WithStack(l, s).stack = s
      /\ WithStack(l, s).terminated = l.terminated /\ WithStack(l, s).depth = l.depth
  BY <1>2 DEF SameMerge
<1>10. /\ SameMerge(WithDead(l), l) /\ WithDead(l).stack = l.stack
       /\ WithDead(l).terminated /\ WithDead(l).depth = l.depth
  BY <1>4 DEF SameMerge, yes
<1>11. /\ SameMerge(WithDepth(l, d), l) /\ WithDepth(l, d).stack = l.stack
       /\ WithDepth(l, d).terminated = l.terminated /\ WithDepth(l, d).depth = d
  BY <1>5 DEF SameMerge
<1> QED
  BY <1>8, <1>9, <1>10, <1>11

(* ls is labels with this innermost label, after the branches of the step. *)
TopOf(hits, res, ls, s, dead, d) ==
  /\ ls \in Seq(LabelType)
  /\ Len(ls) = Len(labels)
  /\ \A t \in DOMAIN labels :
       /\ SameMerge(ls[t], After(hits, res, t))
       /\ t < Len(labels) => /\ ls[t].stack = labels[t].stack
                             /\ ls[t].terminated = labels[t].terminated
                             /\ ls[t].depth = labels[t].depth
  /\ ls[Len(labels)].stack = s
  /\ ls[Len(labels)].terminated = dead
  /\ ls[Len(labels)].depth = d

Replace(ls, i, l) == [ls EXCEPT ![i] = l]

LEMMA TopOfReplace ==
  ASSUME Shape, labels # <<>>, NEW hits, NEW res, NEW ls, NEW s, NEW dead, NEW d,
         TopOf(hits, res, ls, s, dead, d),
         NEW l \in LabelType, SameMerge(l, ls[Len(labels)])
  PROVE  TopOf(hits, res, Replace(ls, Len(labels), l), l.stack, l.terminated, l.depth)
<1>1. /\ ls \in Seq(LabelType) /\ Len(ls) = Len(labels) /\ Len(labels) \in Nat
      /\ DOMAIN ls = 1 .. Len(labels) /\ DOMAIN labels = 1 .. Len(labels) /\ Len(labels) \in DOMAIN ls
  BY DEF TopOf, Shape
<1> DEFINE new == Replace(ls, Len(labels), l)
<1>2. /\ new \in Seq(LabelType) /\ Len(new) = Len(labels) /\ new[Len(labels)] = l
      /\ \A t \in DOMAIN ls : t # Len(labels) => new[t] = ls[t]
  BY <1>1, SeqExcept DEF Replace
<1> HIDE DEF new
<1>3. ASSUME NEW t \in DOMAIN labels
      PROVE  /\ SameMerge(new[t], After(hits, res, t))
             /\ t < Len(labels) => /\ new[t].stack = labels[t].stack
                                   /\ new[t].terminated = labels[t].terminated
                                   /\ new[t].depth = labels[t].depth
  <2>1. SameMerge(ls[t], After(hits, res, t))
    BY DEF TopOf
  <2>2. CASE t = Len(labels)
    BY <1>2, <2>1, <2>2 DEF SameMerge
  <2>3. CASE t # Len(labels)
    BY <1>1, <1>2, <2>1, <2>3 DEF TopOf
  <2> QED
    BY <2>2, <2>3
<1> QED
  BY <1>2, <1>3 DEF TopOf, new

None == [t \in DOMAIN labels |-> 0]

LEMMA NoneHits ==
  ASSUME Shape, labels # <<>>
  PROVE  /\ Hits(None, Invalid)
         /\ \A res : \A t \in DOMAIN labels : After(None, res, t) = labels[t]
         /\ \A res : DOMAIN PreparedPhis(None, res) = {}
<1>1. 1 \in DOMAIN labels
  BY DEF Shape
<1>2. Hits(None, Invalid)
  BY <1>1 DEF Hits, None
<1>3. \A res : \A t \in DOMAIN labels : After(None, res, t) = labels[t]
  BY DEF After, None
<1>4. \A res : DOMAIN PreparedPhis(None, res) = {}
  <2>1. {t \in DOMAIN labels : None[t] > 0} = {}
    BY DEF None
  <2> QED
    BY <2>1 DEF PreparedPhis
<1> QED
  BY <1>2, <1>3, <1>4

LEMMA TopOfNow ==
  ASSUME Shape, labels # <<>>
  PROVE  TopOf(None, Invalid, labels, Top.stack, Top.terminated, Top.depth)
  BY NoneHits DEF TopOf, Shape, Top, TopIdx, SameMerge

(* The stack, the deadness and the depth of the innermost label.           *)
LEMMA TopOfStack ==
  ASSUME Shape, labels # <<>>, NEW hits, NEW res, NEW ls, NEW s, NEW dead, NEW d,
         TopOf(hits, res, ls, s, dead, d), NEW s2 \in Seq(Operands)
  PROVE  TopOf(hits, res, [ls EXCEPT ![TopIdx].stack = s2], s2, dead, d)
<1>1. ls[Len(labels)] \in LabelType /\ Len(labels) \in DOMAIN ls
  BY DEF TopOf, Shape
<1> DEFINE l == WithStack(ls[Len(labels)], s2)
<1>2. /\ l \in LabelType /\ SameMerge(l, ls[Len(labels)]) /\ l.stack = s2
      /\ l.terminated = dead /\ l.depth = d
  BY <1>1, WithFacts DEF TopOf
<1>3. [ls EXCEPT ![TopIdx].stack = s2] = Replace(ls, Len(labels), l)
  BY DEF Replace, WithStack, TopIdx
<1> HIDE DEF l
<1>4. TopOf(hits, res, Replace(ls, Len(labels), l), l.stack, l.terminated, l.depth)
  BY <1>2, TopOfReplace
<1> QED
  BY <1>2, <1>3, <1>4

LEMMA TopOfClose ==
  ASSUME Shape, labels # <<>>, NEW hits, NEW res, NEW ls, NEW s, NEW dead, NEW d,
         TopOf(hits, res, ls, s, dead, d)
  PROVE  TopOf(hits, res, Close(ls), s, TRUE, d)
<1>1. ls[Len(labels)] \in LabelType /\ Len(labels) \in DOMAIN ls
  BY DEF TopOf, Shape
<1> DEFINE l == WithDead(ls[Len(labels)])
<1>2. /\ l \in LabelType /\ SameMerge(l, ls[Len(labels)]) /\ l.stack = s
      /\ l.terminated = TRUE /\ l.depth = d
  <2>1. /\ l \in LabelType /\ SameMerge(l, ls[Len(labels)]) /\ l.stack = ls[Len(labels)].stack
        /\ l.terminated /\ l.depth = ls[Len(labels)].depth
    <3>1. <<>> \in Seq(Operands) /\ 0 \in Nat
      BY EmptyStack
    <3> QED
      BY <1>1, <3>1, WithFacts
  <2>2. l.terminated \in BOOLEAN
    BY <2>1, LabelTyped
  <2> QED
    BY <2>1, <2>2 DEF TopOf
<1>3. Close(ls) = Replace(ls, Len(labels), l)
  BY DEF Replace, WithDead, TopIdx, Close
<1> HIDE DEF l
<1>4. TopOf(hits, res, Replace(ls, Len(labels), l), l.stack, l.terminated, l.depth)
  BY <1>2, TopOfReplace
<1> QED
  BY <1>2, <1>3, <1>4

LEMMA TopOfDepth ==
  ASSUME Shape, labels # <<>>, NEW d \in Nat
  PROVE  TopOf(None, Invalid, [labels EXCEPT ![TopIdx].depth = d], Top.stack, Top.terminated, d)
<1>0. TopOf(None, Invalid, labels, Top.stack, Top.terminated, Top.depth)
  BY TopOfNow
<1>1. labels[Len(labels)] \in LabelType /\ Len(labels) \in DOMAIN labels
  BY DEF Shape
<1> DEFINE l == WithDepth(labels[Len(labels)], d)
<1>2. /\ l \in LabelType /\ SameMerge(l, labels[Len(labels)]) /\ l.stack = Top.stack
      /\ l.terminated = Top.terminated /\ l.depth = d
  <2> DEFINE k == labels[Len(labels)]
  <2>1. k \in LabelType /\ <<>> \in Seq(Operands) /\ d \in Nat /\ Top = k
    BY <1>1, EmptyStack DEF Top, TopIdx
  <2> HIDE DEF k
  <2>2. /\ WithDepth(k, d) \in LabelType /\ SameMerge(WithDepth(k, d), k) /\ WithDepth(k, d).stack = k.stack
        /\ WithDepth(k, d).terminated = k.terminated /\ WithDepth(k, d).depth = d
    BY ONLY <2>1, WithFacts
  <2> QED
    BY ONLY <2>1, <2>2 DEF k
<1>3. [labels EXCEPT ![TopIdx].depth = d] = Replace(labels, Len(labels), l)
  BY DEF Replace, WithDepth, TopIdx
<1> HIDE DEF l
<1>4. TopOf(None, Invalid, Replace(labels, Len(labels), l), l.stack, l.terminated, l.depth)
  BY <1>0, <1>2, TopOfReplace
<1> QED
  BY <1>2, <1>3, <1>4

LEMMA TopOfPrepared ==
  ASSUME Shape, status = "running", Chain, ValuesInv, LabelsInv, NEW hits, NEW res, Hits(hits, res),
         labels # <<>>, NEW ls, NEW s, NEW dead, NEW d, TopOf(None, Invalid, ls, s, dead, d)
  PROVE  TopOf(hits, res, PreparedLabels(ls, hits, res), s, dead, d)
<1>1. ls \in Seq(LabelType) /\ Len(ls) = Len(labels) /\ Len(labels) \in DOMAIN labels
  BY DEF TopOf, Shape
<1> DEFINE new == PreparedLabels(ls, hits, res)
<1>2. /\ new \in Seq(LabelType) /\ Len(new) = Len(labels)
      /\ \A t \in DOMAIN labels :
           /\ hits[t] = 0 => new[t] = ls[t]
           /\ new[t].block = ls[t].block
           /\ new[t].stack = ls[t].stack
           /\ new[t].loop = ls[t].loop
           /\ new[t].terminated = ls[t].terminated
           /\ new[t].depth = ls[t].depth
           /\ new[t].rtype = ls[t].rtype
           /\ hits[t] > 0 => new[t].merge = Merged(t, res) /\ new[t].reached /\ new[t].inputs = ls[t].inputs + hits[t]
  BY <1>1, PreparedLabelsFacts
<1> HIDE DEF new
<1>3. ASSUME NEW t \in DOMAIN labels
      PROVE  SameMerge(new[t], After(hits, res, t))
  <2>1. SameMerge(ls[t], labels[t])
    BY NoneHits DEF TopOf
  <2>2. hits[t] \in Nat /\ labels[t] \in LabelType
    BY LabelsTyped DEF Hits
  <2>3. CASE hits[t] = 0
    BY <1>2, <2>1, <2>3 DEF After
  <2>4. CASE hits[t] > 0
    <3>1. Merged(t, res) \in Seq(Slot)
      BY <2>4, MergedType
    <3> DEFINE h == HitLabel(labels[t], Merged(t, res), hits[t])
    <3>2. /\ h \in LabelType /\ h.block = labels[t].block /\ h.merge = Merged(t, res) /\ h.reached
          /\ h.inputs = labels[t].inputs + hits[t] /\ h.loop = labels[t].loop /\ h.rtype = labels[t].rtype
      BY <2>2, <3>1, HitLabelFacts
    <3>3. h.reached \in BOOLEAN /\ new[t].reached \in BOOLEAN
      <4>1. new[t] \in LabelType
        BY <1>1, <1>2 DEF Shape
      <4> QED
        BY <3>2, <4>1, LabelTyped
    <3>4. After(hits, res, t) = h
      BY <2>4 DEF After
    <3> HIDE DEF h
    <3> QED
      <4>1. /\ new[t].block = labels[t].block /\ new[t].loop = labels[t].loop /\ new[t].rtype = labels[t].rtype
            /\ new[t].merge = Merged(t, res) /\ new[t].reached /\ new[t].inputs = labels[t].inputs + hits[t]
        BY <1>2, <2>1, <2>4 DEF SameMerge
      <4> QED
        BY ONLY <3>2, <3>3, <3>4, <4>1 DEF SameMerge
  <2> QED
    BY <2>2, <2>3, <2>4
<1>4. /\ new[Len(labels)].stack = s /\ new[Len(labels)].terminated = dead /\ new[Len(labels)].depth = d
  BY <1>1, <1>2 DEF TopOf
<1>5. \A t \in DOMAIN labels : t < Len(labels) => /\ new[t].stack = labels[t].stack
                                                  /\ new[t].terminated = labels[t].terminated
                                                  /\ new[t].depth = labels[t].depth
  BY <1>2 DEF TopOf
<1> QED
  BY <1>2, <1>3, <1>4, <1>5 DEF TopOf, new

LEMMA TopOfChanges ==
  ASSUME Shape, labels # <<>>, NEW hits, NEW res, NEW s, NEW dead, NEW d,
         TopOf(hits, res, labels', s, dead, d), ~dead => d = 0
  PROVE  TopChanges(hits, res) /\ labels' # <<>> /\ labels'[Len(labels)].stack = s
           /\ labels'[Len(labels')].terminated = dead /\ labels'[Len(labels)].depth = d
  BY DEF TopOf, TopChanges, Stays, Shape

-----------------------------------------------------------------------------
(* Steps that build no branch to a label.                                  *)

Quiet(m) ==
  /\ IsIr(m)
  /\ Len(ir.into) <= Len(m.into)
  /\ ir.values <= m.values
  /\ m.phis = ir.phis
  /\ \A b \in Blocks : m.into[b] = ir.into[b]
  /\ \A b \in DOMAIN m.into : \A k \in DOMAIN m.into[b] : m.into[b][k].src \in DOMAIN m.into

LEMMA QuietBranches ==
  ASSUME Shape, Chain, labels # <<>>, NEW m, Quiet(m)
  PROVE  Branches(m, None, Invalid)
<1>1. DOMAIN PreparedPhis(None, Invalid) = {} /\ \A t \in DOMAIN labels : None[t] = 0
  BY NoneHits DEF None
<1>2. ASSUME NEW t \in DOMAIN labels, t > 1
      PROVE  Extends(ir.into[labels[t].block], m.into[labels[t].block], None[t], Carried(t, Invalid))
  <2>1. m.into[labels[t].block] = ir.into[labels[t].block] /\ labels[t].block \in Blocks
    BY <1>2, BlockFacts DEF Quiet
  <2>2. ir.into[labels[t].block] \in Seq(BranchType)
    BY <2>1 DEF Blocks, Shape, IsIr
  <2> QED
    BY <1>1, <2>1, <2>2 DEF Extends
<1> QED
  BY <1>1, <1>2 DEF Quiet, Branches

(* The parts of the invariant that a lemma about one step asks for. *)
LEMMA Parts ==
  ASSUME TrInv
  PROVE  /\ Shape /\ Chain /\ Frames /\ OpsInv /\ OpenInv /\ SourcesInv /\ LabelsInv /\ PhisInv
         /\ ValuesInv /\ EntryInv
  BY DEF TrInv

StackUsable(s) == \A j \in DOMAIN s : \A v : v = s[j].val => Usable(v)'

LocalsUsable ==
  /\ locals' \in Seq(Value)
  /\ Len(locals') = Len(LocalType)
  /\ \A i \in DOMAIN locals' : \A v : v = locals'[i] => Usable(v)'

LEMMA QuietUsable ==
  ASSUME TrInv, status = "running", labels # <<>>, Quiet(ir'), NEW s, NEW dead, NEW d,
         TopOf(None, Invalid, labels', s, dead, d)
  PROVE  /\ Pending' = Pending
         /\ \A v : Usable(v) => Usable(v)'
<1>0. Shape /\ Chain /\ LabelsInv /\ ValuesInv
  BY Parts
<1>1. Hits(None, Invalid) /\ Branches(ir', None, Invalid)
  BY <1>0, NoneHits, QuietBranches
<1>2. Stays(None, Invalid) /\ Len(labels') = Len(labels)
  BY <1>0 DEF TopOf, Stays, Shape
<1>3. Pending' = Pending
  BY <1>0, <1>1, <1>2, PendingStays
<1>4. ASSUME NEW v, Usable(v) PROVE Usable(v)'
  BY <1>0, <1>1, <1>3, <1>4, StepUsable
<1> QED
  BY <1>3, <1>4

LEMMA QuietStep ==
  ASSUME TrInv, status = "running", labels # <<>>, Quiet(ir'), NEW s, NEW dead, NEW d,
         TopOf(None, Invalid, labels', s, dead, d), ~dead => d = 0, StackUsable(s), LocalsUsable,
         Counted, OpenInv', nest' - d = nest - Top.depth, entry' = entry
  PROVE  TrInv'
<1>0. Shape /\ Chain /\ PhisInv
  BY Parts
<1>1. Hits(None, Invalid) /\ Branches(ir', None, Invalid)
  BY <1>0, NoneHits, QuietBranches
<1>2. TopChanges(None, Invalid) /\ labels'[Len(labels)].stack = s /\ labels'[Len(labels)].depth = d
  BY <1>0, TopOfChanges
<1>3. HeldUsable
  BY <1>2 DEF HeldUsable, StackUsable, LocalsUsable
<1>4. \A p \in DOMAIN ir'.phis : p[1] \in Blocks
  BY <1>0 DEF Quiet, PhisInv
<1> QED
  BY <1>1, <1>2, <1>3, <1>4, InPlace

(* Operand stacks. *)
LEMMA DropFacts ==
  ASSUME NEW s \in Seq(Operands), NEW n \in 0 .. Len(s)
  PROVE  /\ Drop(s, n) \in Seq(Operands)
         /\ Len(Drop(s, n)) = Len(s) - n
         /\ \A j \in 1 .. Len(s) - n : Drop(s, n)[j] = s[j]
<1>1. Len(s) - n \in 0 .. Len(s)
  OBVIOUS
<1> QED
  BY <1>1, SeqPrefix DEF Drop

LEMMA TopFacts ==
  ASSUME TrInv, status = "running", labels # <<>>
  PROVE  /\ Top \in LabelType
         /\ Top = labels[Len(labels)] /\ Len(labels) \in DOMAIN labels
         /\ Top.stack \in Seq(Operands)
         /\ \A j \in 1 .. Len(Top.stack) : Usable(Top.stack[j].val) /\ Top.stack[j].val \in Value
         /\ Top.depth \in Nat
         /\ ~Top.terminated => Top.depth = 0
<1>1. Top = labels[Len(labels)] /\ Len(labels) \in DOMAIN labels /\ Top \in LabelType
  BY Parts DEF Shape, Top, TopIdx
<1>2. Top.stack \in Seq(Operands) /\ Top.depth \in Nat
  BY <1>1, LabelTyped DEF Operands
<1>3. \A j \in 1 .. Len(Top.stack) : Usable(Top.stack[j].val)
  BY <1>1, <1>2, Parts DEF ValuesInv
<1>4. ~Top.terminated => Top.depth = 0
  BY <1>1, Parts DEF Chain, ChainOK
<1> QED
  BY <1>1, <1>2, <1>3, <1>4 DEF Usable

LEMMA PopFacts ==
  ASSUME TrInv, status = "running", labels # <<>>, NEW n \in 0 .. Len(Top.stack)
  PROVE  /\ TopOf(None, Invalid, Popped(n), Drop(Top.stack, n), Top.terminated, Top.depth)
         /\ Drop(Top.stack, n) \in Seq(Operands)
         /\ \A j \in DOMAIN Drop(Top.stack, n) : Usable(Drop(Top.stack, n)[j].val)
<1>0. Shape
  BY Parts
<1>1. /\ Drop(Top.stack, n) \in Seq(Operands)
      /\ Len(Drop(Top.stack, n)) = Len(Top.stack) - n
      /\ \A j \in 1 .. Len(Top.stack) - n : Drop(Top.stack, n)[j] = Top.stack[j]
  BY TopFacts, DropFacts
<1>2. TopOf(None, Invalid, [labels EXCEPT ![TopIdx].stack = Drop(Top.stack, n)], Drop(Top.stack, n),
            Top.terminated, Top.depth)
  BY <1>0, <1>1, TopOfNow, TopOfStack
<1>3. Popped(n) = [labels EXCEPT ![TopIdx].stack = Drop(Top.stack, n)]
  BY DEF Popped, Top
<1>4. \A j \in DOMAIN Drop(Top.stack, n) : Usable(Drop(Top.stack, n)[j].val)
  <2>1. DOMAIN Drop(Top.stack, n) = 1 .. Len(Top.stack) - n /\ 1 .. Len(Top.stack) - n \subseteq 1 .. Len(Top.stack)
    BY <1>1, TopFacts
  <2> QED
    BY <1>1, <2>1, TopFacts
<1> QED
  BY <1>1, <1>2, <1>3, <1>4

LEMMA PushFacts ==
  ASSUME TrInv, status = "running", labels # <<>>, NEW ls, NEW s \in Seq(Operands), NEW dead, NEW d,
         TopOf(None, Invalid, ls, s, dead, d), NEW x \in Operands
  PROVE  /\ TopOf(None, Invalid, [ls EXCEPT ![TopIdx].stack = Append(@, x)], Append(s, x), dead, d)
         /\ Append(s, x) \in Seq(Operands)
<1>0. Shape
  BY Parts
<1>1. ls[TopIdx].stack = s /\ TopIdx \in DOMAIN ls
  BY <1>0 DEF TopOf, TopIdx, Shape
<1>2. Append(s, x) \in Seq(Operands)
  BY SeqAppend
<1>3. [ls EXCEPT ![TopIdx].stack = Append(@, x)] = [ls EXCEPT ![TopIdx].stack = Append(s, x)]
  BY <1>1
<1> QED
  <2>1. /\ Shape /\ labels # <<>> /\ TopOf(None, Invalid, ls, s, dead, d)
        /\ Append(s, x) \in Seq(Operands)
    BY <1>0, <1>2
  <2>2. TopOf(None, Invalid, [ls EXCEPT ![TopIdx].stack = Append(s, x)], Append(s, x), dead, d)
    BY ONLY <2>1, TopOfStack
  <2> QED
    BY ONLY <1>2, <1>3, <2>2

-----------------------------------------------------------------------------
(* The actions that keep the frame they run in open.                       *)

IsSig(sig) == sig.pops \in Seq(ValueTypes) /\ sig.push \in Types

LEMMA SigFacts ==
  ASSUME NEW pops \in Seq(ValueTypes), NEW push \in Types
  PROVE  IsSig(Sig(pops, push))
  BY DEF IsSig, Sig

(* The opcodes that convert a value of one type to a value of another. *)
LEMMA Conversions ==
  \A S, T : \A sig \in {Sig(<<s>>, t) : s \in S, t \in T} : \E s \in S, t \in T : sig = Sig(<<s>>, t)
  BY SMTT(20)

LEMMA PlainSigs == \A sig \in PlainOpcodes : IsSig(sig)
<1>1. /\ ValueTypes \subseteq Types /\ NoType \in Types
      /\ Ints \subseteq ValueTypes /\ Floats \subseteq ValueTypes
      /\ I32 \in ValueTypes /\ I64 \in ValueTypes /\ F32 \in ValueTypes /\ F64 \in ValueTypes
  BY DEF ValueTypes, Types, Ints, Floats
<1>2. /\ \A t \in Ints : t \in ValueTypes /\ t \in Types
      /\ \A t \in Floats : t \in ValueTypes /\ t \in Types
      /\ \A t \in ValueTypes : t \in Types
      /\ I32 \in Types /\ I64 \in Types /\ F32 \in Types /\ F64 \in Types
  BY <1>1
<1>3. \A p \in Types : IsSig(Sig(<<>>, p))
  <2>1. <<>> \in Seq(ValueTypes)
    OBVIOUS
  <2> QED
    BY <2>1, SigFacts
<1>4. \A a \in ValueTypes, p \in Types : IsSig(Sig(<<a>>, p))
  <2>1. \A a \in ValueTypes : <<a>> \in Seq(ValueTypes)
    OBVIOUS
  <2> QED
    BY <2>1, SigFacts
<1>5. \A a, b \in ValueTypes, p \in Types : IsSig(Sig(<<a, b>>, p))
  <2>1. \A a, b \in ValueTypes : <<a, b>> \in Seq(ValueTypes)
    OBVIOUS
  <2> QED
    BY <2>1, SigFacts
<1>6. \A a, b, c \in ValueTypes, p \in Types : IsSig(Sig(<<a, b, c>>, p))
  <2>1. \A a, b, c \in ValueTypes : <<a, b, c>> \in Seq(ValueTypes)
    OBVIOUS
  <2> QED
    BY <2>1, SigFacts
<1>10. \A sig \in Nops : IsSig(sig)
  BY <1>1, <1>2, <1>3 DEF Nops
<1>11. \A sig \in Selects : IsSig(sig)
  BY <1>1, <1>2, <1>6 DEF Selects
<1>12. \A sig \in GlobalGets : IsSig(sig)
  BY <1>1, <1>2, <1>3 DEF GlobalGets
<1>13. \A sig \in GlobalSets : IsSig(sig)
  BY <1>1, <1>2, <1>4 DEF GlobalSets
<1>14. \A sig \in Loads : IsSig(sig)
  BY <1>1, <1>2, <1>4 DEF Loads
<1>15. \A sig \in Stores : IsSig(sig)
  BY <1>1, <1>2, <1>5 DEF Stores
<1>16. \A sig \in SizeAndGrow : IsSig(sig)
  BY <1>1, <1>2, <1>3, <1>4 DEF SizeAndGrow
<1>17. \A sig \in Inits : IsSig(sig)
  BY <1>1, <1>2, <1>3, <1>6 DEF Inits
<1>18. \A sig \in CopyAndFill : IsSig(sig)
  BY <1>1, <1>2, <1>6 DEF CopyAndFill
<1>19. \A sig \in Consts : IsSig(sig)
  BY <1>1, <1>2, <1>3 DEF Consts
<1>20. \A sig \in IntCompares : IsSig(sig)
  BY <1>1, <1>2, <1>4, <1>5 DEF IntCompares
<1>21. \A sig \in FloatCompares : IsSig(sig)
  BY <1>1, <1>2, <1>5 DEF FloatCompares
<1>22. \A sig \in IntConversions : IsSig(sig)
  <2>1. \A sig \in IntConversions : \E s \in Ints, t \in Ints : sig = Sig(<<s>>, t)
    BY ONLY Conversions DEF IntConversions
  <2>2. \A s \in Ints, t \in Ints : IsSig(Sig(<<s>>, t))
    BY <1>2, <1>4
  <2> QED
    BY <2>1, <2>2, Zenon
<1>23. \A sig \in Truncations : IsSig(sig)
  <2>1. \A sig \in Truncations : \E s \in Floats, t \in Ints : sig = Sig(<<s>>, t)
    BY ONLY Conversions DEF Truncations
  <2>2. \A s \in Floats, t \in Ints : IsSig(Sig(<<s>>, t))
    BY <1>2, <1>4
  <2> QED
    BY <2>1, <2>2, Zenon
<1>24. \A sig \in ToFloats : IsSig(sig)
  <2>1. \A sig \in ToFloats : \E s \in Ints, t \in Floats : sig = Sig(<<s>>, t)
    BY ONLY Conversions DEF ToFloats
  <2>2. \A s \in Ints, t \in Floats : IsSig(Sig(<<s>>, t))
    BY <1>2, <1>4
  <2> QED
    BY <2>1, <2>2, Zenon
<1>25. \A sig \in FloatConversions : IsSig(sig)
  BY <1>1, <1>2, <1>4 DEF FloatConversions
<1>26. \A sig \in Bitcasts : IsSig(sig)
  BY <1>1, <1>2, <1>4 DEF Bitcasts
<1>27. \A sig \in Shifts : IsSig(sig)
  BY <1>1, <1>2, <1>5 DEF Shifts
<1>28. \A sig \in FloatArithmetic : IsSig(sig)
  BY <1>1, <1>2, <1>4, <1>5 DEF FloatArithmetic
<1>29. \A sig \in IntArithmetic : IsSig(sig)
  BY <1>1, <1>2, <1>4, <1>5 DEF IntArithmetic
<1>30. \A sig \in NotifyAndWait : IsSig(sig)
  BY <1>1, <1>2, <1>5, <1>6 DEF NotifyAndWait
<1>31. \A sig \in AtomicAccesses : IsSig(sig)
  BY <1>1, <1>2, <1>4, <1>5 DEF AtomicAccesses
<1>32. \A sig \in AtomicUpdates : IsSig(sig)
  BY <1>1, <1>2, <1>5, <1>6 DEF AtomicUpdates
<1> QED
  BY <1>10, <1>11, <1>12, <1>13, <1>14, <1>15, <1>16, <1>17, <1>18, <1>19, <1>20, <1>21,
     <1>22, <1>23, <1>24, <1>25, <1>26, <1>27, <1>28, <1>29, <1>30, <1>31, <1>32
  DEF PlainOpcodes

LEMMA AllSigs == \A sig \in Signatures \cup CallTypes : IsSig(sig)
<1>1. \A sig \in Signatures : IsSig(sig)
  BY PlainSigs, TranslateAssumption
<1>2. \A sig \in CallTypes : IsSig(sig)
  BY TranslateAssumption DEF IsSig, Types
<1> QED
  BY <1>1, <1>2

LEMMA LiveFacts ==
  ASSUME TrInv, Live, Consume, nest' = nest
  PROVE  /\ status = "running" /\ labels # <<>> /\ ~Top.terminated /\ Top.terminated = FALSE
         /\ Counted /\ nest' - Top.depth = nest - Top.depth /\ Top.depth = 0
         /\ ir.cur \in Blocks \ (ir.term \cup ir.hollow \cup Pending)
<1>1. status = "running" /\ labels # <<>> /\ ~Top.terminated
  BY DEF Live
<1>2. Top.terminated \in BOOLEAN /\ Top.depth \in Nat
  BY <1>1, TopFacts, LabelTyped
<1>3. nest \in Nat
  BY Parts DEF Shape
<1> QED
  BY <1>1, <1>2, <1>3, TopFacts, Parts DEF Live, Consume, Counted, OpenInv

LEMMA CanPopFacts ==
  ASSUME TrInv, status = "running", labels # <<>>, NEW T, NEW tys \in Seq(T), CanPop(tys)
  PROVE  Len(tys) \in 0 .. Len(Top.stack) /\ Len(Top.stack) \in Nat
  BY TopFacts DEF CanPop

(* The locals, when they stay. *)
LEMMA LocalsStay ==
  ASSUME TrInv, status = "running", locals' = locals, \A v : Usable(v) => Usable(v)'
  PROVE  LocalsUsable
  BY Parts DEF Shape, ValuesInv, LocalsUsable

LEMMA SameIr ==
  ASSUME TrInv, status = "running"
  PROVE  /\ Quiet(ir) /\ IsIr(ir)
         /\ Quiet(Define(ir)) /\ Define(ir).term = ir.term /\ Define(ir).hollow = ir.hollow
         /\ Define(ir).cur = ir.cur /\ Define(ir).into = ir.into
         /\ Define(ir).values = ir.values + 1
         /\ Quiet(Terminate(ir)) /\ Terminate(ir).term = ir.term \cup {ir.cur}
         /\ Terminate(ir).hollow = ir.hollow /\ Terminate(ir).cur = ir.cur /\ Terminate(ir).into = ir.into
<1>1. IsIr(ir) /\ Len(ir.into) \in Nat /\ ir.values \in Nat
  BY Parts DEF Shape, IsIr
<1>2. \A b \in DOMAIN ir.into : \A k \in DOMAIN ir.into[b] : ir.into[b][k].src \in DOMAIN ir.into
  BY Parts DEF SourcesInv, Blocks
<1>3. /\ IsIr(Define(ir)) /\ Define(ir).into = ir.into /\ Define(ir).cur = ir.cur
      /\ Define(ir).term = ir.term /\ Define(ir).values = ir.values + 1
      /\ Define(ir).phis = ir.phis /\ Define(ir).hollow = ir.hollow
  BY <1>1, DefineFacts
<1>4. /\ IsIr(Terminate(ir)) /\ Terminate(ir).into = ir.into /\ Terminate(ir).cur = ir.cur
      /\ Terminate(ir).term = ir.term \cup {ir.cur} /\ Terminate(ir).values = ir.values
      /\ Terminate(ir).phis = ir.phis /\ Terminate(ir).hollow = ir.hollow
  BY <1>1, TerminateFacts
<1>5. Quiet(ir)
  BY <1>1, <1>2 DEF Quiet
<1>6. Quiet(Define(ir))
  BY <1>1, <1>2, <1>3 DEF Quiet
<1>7. Quiet(Terminate(ir))
  BY <1>1, <1>2, <1>4 DEF Quiet
<1> QED
  BY <1>1, <1>3, <1>4, <1>5, <1>6, <1>7

(* The cursor stays where it is, or its block is closed for good. *)
LEMMA CursorStays ==
  ASSUME TrInv, status = "running", labels # <<>>, ~Top.terminated,
         ir'.into = ir.into, ir'.term = ir.term, ir'.hollow = ir.hollow, ir'.cur = ir.cur
  PROVE  CursorMoves(FALSE)
  BY Parts DEF OpenInv, CursorMoves, Blocks

LEMMA CursorCloses ==
  ASSUME TrInv, status = "running", labels # <<>>, ~Top.terminated,
         ir'.into = ir.into, ir'.term = ir.term \cup {ir.cur}, ir'.hollow = ir.hollow, ir'.cur = ir.cur
  PROVE  CursorMoves(TRUE)
  BY Parts DEF OpenInv, CursorMoves, Blocks

LEMMA QuietOpen ==
  ASSUME TrInv, status = "running", labels # <<>>, ~Top.terminated, Quiet(ir'),
         NEW s, NEW dead, NEW d, TopOf(None, Invalid, labels', s, dead, d), CursorMoves(dead)
  PROVE  OpenInv'
<1>1. Shape /\ Chain /\ OpenInv
  BY Parts
<1>2. Pending' = Pending
  BY QuietUsable
<1>3. Branches(ir', None, Invalid)
  BY <1>1, QuietBranches
<1>4. labels' # <<>> /\ labels'[Len(labels')].terminated = dead
  BY <1>1 DEF TopOf, Shape
<1> QED
  BY <1>1, <1>2, <1>3, <1>4, OpenStep

(* What a handler pushes. *)
LEMMA PushUsable ==
  ASSUME NEW s \in Seq(Operands), NEW x \in Operands, StackUsable(s), \A v : v = x.val => Usable(v)'
  PROVE  StackUsable(Append(s, x))
  BY SeqAppend DEF StackUsable

LEMMA OperationStep ==
  ASSUME TrInv, NEW sig, IsSig(sig), Operation(sig)
  PROVE  TrInv'
<1>0. /\ Live /\ Consume /\ nest' = nest /\ locals' = locals /\ entry' = entry /\ CanPop(sig.pops)
  BY DEF Operation
<1>1. /\ status = "running" /\ labels # <<>> /\ ~Top.terminated /\ Top.terminated = FALSE
      /\ Counted /\ nest' - Top.depth = nest - Top.depth /\ Top.depth = 0
      /\ ir.cur \in Blocks \ (ir.term \cup ir.hollow \cup Pending)
  BY <1>0, LiveFacts
<1> DEFINE n == Len(sig.pops)
           rest == Popped(n)
           s == Drop(Top.stack, n)
           out == [val |-> NewValue(ir), type |-> sig.push]
<1>2. n \in 0 .. Len(Top.stack)
  BY <1>0, <1>1, CanPopFacts DEF IsSig
<1>3. /\ TopOf(None, Invalid, rest, s, FALSE, 0)
      /\ s \in Seq(Operands)
      /\ \A j \in DOMAIN s : Usable(s[j].val)
  BY <1>1, <1>2, PopFacts
<1>4. CASE sig.push = NoType
  <2>1. ir' = ir /\ labels' = rest
    BY <1>4 DEF Operation
  <2>2. Quiet(ir') /\ CursorMoves(FALSE)
    BY <1>1, <2>1, SameIr, CursorStays
  <2>3. \A v : Usable(v) => Usable(v)'
    BY <1>1, <1>3, <2>1, <2>2, QuietUsable
  <2>4. StackUsable(s)
    BY <1>3, <2>3 DEF StackUsable
  <2>5. LocalsUsable
    BY <1>0, <1>1, <2>3, LocalsStay
  <2>6. OpenInv'
    BY <1>1, <1>3, <2>1, <2>2, QuietOpen
  <2> QED
    BY <1>0, <1>1, <1>3, <2>1, <2>2, <2>4, <2>5, <2>6, QuietStep
<1>5. CASE sig.push # NoType
  <2>1. ir' = Define(ir) /\ labels' = [rest EXCEPT ![TopIdx].stack = Append(@, out)]
    BY <1>5 DEF Operation
  <2>2. Quiet(ir') /\ CursorMoves(FALSE) /\ ir'.values = ir.values + 1 /\ ir'.into = ir.into
    BY <1>1, <2>1, SameIr, CursorStays
  <2>3. NewValue(ir) \in Value /\ out \in Operands
    <3>1. ir.cur \in Nat /\ ir.values \in Nat
      BY Parts DEF Shape, IsIr
    <3>2. NewValue(ir) = <<ir.cur, 0, ir.values + 1>>
      BY DEF NewValue
    <3>3. NewValue(ir) \in Value
      BY ONLY <3>1, <3>2 DEF Value
    <3>4. sig.push \in Types
      BY <1>1 DEF IsSig
    <3> QED
      BY <3>2, <3>3, <3>4 DEF Operands
  <2> HIDE DEF rest, s, out
  <2>4. TopOf(None, Invalid, labels', Append(s, out), FALSE, 0) /\ Append(s, out) \in Seq(Operands)
    BY <1>1, <1>3, <2>1, <2>3, PushFacts
  <2>5. Pending' = Pending /\ \A v : Usable(v) => Usable(v)'
    BY <1>1, <2>2, <2>4, QuietUsable
  <2>6. StackUsable(s)
    BY <1>3, <2>5 DEF StackUsable
  <2>7. ASSUME NEW v, v = out.val PROVE Usable(v)'
    <3>1. v = <<ir.cur, 0, ir.values + 1>> /\ v \in Value
      BY <2>3, <2>7 DEF out, NewValue
    <3>2. ir.values \in Nat /\ ir'.values \in Nat
      BY Parts, <2>2 DEF Shape, IsIr, Quiet
    <3>3. ir.values + 1 \in 1 .. ir'.values
      BY <2>2, <3>2
    <3> QED
      BY <1>1, <2>2, <2>5, <3>1, <3>3 DEF Usable, IsValue, DefinedIn, Blocks
  <2>8. StackUsable(Append(s, out))
    BY <1>3, <2>3, <2>6, <2>7, PushUsable
  <2>9. LocalsUsable
    BY <1>0, <1>1, <2>5, LocalsStay
  <2>10. OpenInv'
    BY <1>1, <2>2, <2>4, QuietOpen
  <2> QED
    BY <1>0, <1>1, <2>2, <2>4, <2>8, <2>9, <2>10, QuietStep
<1> QED
  BY <1>4, <1>5

(* A handler that builds no branch to a label and keeps the locals. *)
LEMMA LiveStep ==
  ASSUME TrInv, Live, Consume, nest' = nest, locals' = locals, entry' = entry, Quiet(ir'),
         NEW dead \in BOOLEAN, CursorMoves(dead), NEW s \in Seq(Operands),
         TopOf(None, Invalid, labels', s, dead, 0),
         \A j \in DOMAIN s : Usable(s[j].val) \/ \A v : v = s[j].val => Usable(v)'
  PROVE  TrInv'
<1>1. /\ status = "running" /\ labels # <<>> /\ ~Top.terminated
      /\ Counted /\ nest' - Top.depth = nest - Top.depth /\ Top.depth = 0
  BY LiveFacts
<1>2. \A v : Usable(v) => Usable(v)'
  BY <1>1, QuietUsable
<1>3. StackUsable(s)
  BY <1>2 DEF StackUsable
<1>4. LocalsUsable
  BY <1>1, <1>2, LocalsStay
<1>5. OpenInv'
  BY <1>1, QuietOpen
<1>6. nest' - 0 = nest - Top.depth
  BY <1>1, Parts DEF Shape
<1> QED
  BY <1>1, <1>3, <1>4, <1>5, <1>6, QuietStep

LEMMA DropOperandStep ==
  ASSUME TrInv, DropOperand
  PROVE  TrInv'
<1>1. /\ Live /\ Consume /\ nest' = nest /\ locals' = locals /\ entry' = entry /\ ir' = ir
      /\ Top.stack # <<>> /\ labels' = Popped(1)
  BY DEF DropOperand
<1>2. /\ status = "running" /\ labels # <<>> /\ ~Top.terminated /\ Top.terminated = FALSE /\ Top.depth = 0
  BY <1>1, LiveFacts
<1>3. 1 \in 0 .. Len(Top.stack)
  BY <1>1, <1>2, TopFacts
<1> DEFINE s == Drop(Top.stack, 1)
<1>4. /\ TopOf(None, Invalid, labels', s, FALSE, 0) /\ s \in Seq(Operands)
      /\ \A j \in DOMAIN s : Usable(s[j].val)
  BY <1>1, <1>2, <1>3, PopFacts
<1> HIDE DEF s
<1>5. Quiet(ir') /\ CursorMoves(FALSE)
  BY <1>1, <1>2, SameIr, CursorStays
<1> QED
  BY <1>1, <1>4, <1>5, LiveStep

LEMMA LocalGetStep ==
  ASSUME TrInv, NEW i \in LocalIdx, LocalGet(i)
  PROVE  TrInv'
<1> DEFINE x == [val |-> locals[i], type |-> LocalType[i]]
           s == Append(Top.stack, x)
<1>1. /\ Live /\ Consume /\ nest' = nest /\ locals' = locals /\ entry' = entry /\ ir' = ir
      /\ labels' = [labels EXCEPT ![TopIdx].stack = Append(@, x)]
  BY DEF LocalGet
<1>2. /\ status = "running" /\ labels # <<>> /\ ~Top.terminated /\ Top.terminated = FALSE /\ Top.depth = 0
  BY <1>1, LiveFacts
<1>3. i \in DOMAIN locals /\ LocalType[i] \in Types /\ Usable(locals[i]) /\ locals[i] \in Value
  BY <1>2, Parts, TranslateAssumption DEF Shape, LocalIdx, Types, ValuesInv
<1>4. x \in Operands
  BY <1>3 DEF Operands
<1>5. x.val = locals[i]
  OBVIOUS
<1> HIDE DEF x
<1>6. TopOf(None, Invalid, labels, Top.stack, FALSE, 0)
  BY <1>2, TopOfNow, Parts
<1>7. Top.stack \in Seq(Operands) /\ \A j \in 1 .. Len(Top.stack) : Usable(Top.stack[j].val)
  BY <1>2, TopFacts
<1>8. TopOf(None, Invalid, labels', s, FALSE, 0) /\ s \in Seq(Operands)
  BY <1>1, <1>2, <1>4, <1>6, <1>7, PushFacts
<1>9. \A j \in DOMAIN s : Usable(s[j].val)
  BY <1>3, <1>4, <1>5, <1>7, SeqAppend
<1> HIDE DEF s
<1>10. Quiet(ir') /\ CursorMoves(FALSE)
  BY <1>1, <1>2, SameIr, CursorStays
<1> QED
  BY <1>1, <1>8, <1>9, <1>10, LiveStep

LEMMA LocalSetStep ==
  ASSUME TrInv, NEW i \in LocalIdx, LocalSet(i)
  PROVE  TrInv'
<1>1. /\ Live /\ Consume /\ nest' = nest /\ entry' = entry /\ ir' = ir
      /\ CanPop(<<LocalType[i]>>) /\ locals' = [locals EXCEPT ![i] = Peek(0)]
      /\ labels' = Popped(1) \/ labels' = labels
  BY DEF LocalSet
<1>2. /\ status = "running" /\ labels # <<>> /\ ~Top.terminated /\ Top.terminated = FALSE /\ Top.depth = 0
      /\ Counted
  BY <1>1, LiveFacts
<1>3. /\ Top.stack \in Seq(Operands) /\ Len(Top.stack) \in Nat
      /\ \A j \in 1 .. Len(Top.stack) : Usable(Top.stack[j].val) /\ Top.stack[j].val \in Value
  BY <1>2, TopFacts
<1>4. Len(Top.stack) >= 1
  BY <1>1, <1>3 DEF CanPop
<1>5. Usable(Peek(0)) /\ Peek(0) \in Value
  BY <1>3, <1>4 DEF Peek
<1>6. PICK s \in Seq(Operands) : /\ TopOf(None, Invalid, labels', s, FALSE, 0)
                                 /\ \A j \in DOMAIN s : Usable(s[j].val)
  <2>1. CASE labels' = Popped(1)
    <3> DEFINE d == Drop(Top.stack, 1)
    <3>1. 1 \in 0 .. Len(Top.stack)
      BY <1>3, <1>4
    <3>2. TopOf(None, Invalid, labels', d, FALSE, 0) /\ d \in Seq(Operands) /\ \A j \in DOMAIN d : Usable(d[j].val)
      BY <1>2, <2>1, <3>1, PopFacts
    <3> HIDE DEF d
    <3> QED
      BY <3>2
  <2>2. CASE labels' = labels
    <3> DEFINE d == Top.stack
    <3>1. TopOf(None, Invalid, labels', d, FALSE, 0)
      BY <1>2, <2>2, TopOfNow, Parts
    <3>2. d \in Seq(Operands) /\ \A j \in DOMAIN d : Usable(d[j].val)
      BY <1>3
    <3> HIDE DEF d
    <3> QED
      BY <3>1, <3>2
  <2> QED
    BY <1>1, <2>1, <2>2
<1>7. Quiet(ir') /\ CursorMoves(FALSE)
  BY <1>1, <1>2, SameIr, CursorStays
<1>8. \A v : Usable(v) => Usable(v)'
  BY <1>2, <1>6, <1>7, QuietUsable
<1>9. StackUsable(s)
  BY <1>6, <1>8 DEF StackUsable
<1>10. LocalsUsable
  <2> DEFINE w == Peek(0)
  <2> HIDE DEF w
  <2>1. locals \in Seq(Value) /\ Len(locals) = Len(LocalType) /\ i \in DOMAIN locals
    BY <1>2, Parts, TranslateAssumption DEF Shape, LocalIdx
  <2>2. w \in Value /\ Usable(w)
    BY <1>5 DEF w
  <2>3. locals' = [locals EXCEPT ![i] = w]
    BY <1>1 DEF w
  <2>4. /\ locals' \in Seq(Value) /\ Len(locals') = Len(locals) /\ locals'[i] = w
        /\ \A j \in DOMAIN locals : j # i => locals'[j] = locals[j]
    BY <2>1, <2>2, <2>3, SeqExcept
  <2>5. \A j \in DOMAIN locals : Usable(locals[j])
    BY Parts DEF ValuesInv
  <2>6. DOMAIN locals' = DOMAIN locals
    BY <2>1, <2>4
  <2>7. \A j \in DOMAIN locals' : Usable(locals'[j])
    BY <2>2, <2>4, <2>5, <2>6
  <2> QED
    BY <1>8, <2>1, <2>4, <2>7 DEF LocalsUsable
<1>11. OpenInv'
  BY <1>2, <1>6, <1>7, QuietOpen
<1>12. nest' - 0 = nest - Top.depth
  BY <1>1, <1>2, Parts DEF Shape
<1> QED
  BY <1>1, <1>2, <1>6, <1>7, <1>9, <1>10, <1>11, <1>12, QuietStep

LEMMA UnreachableStep ==
  ASSUME TrInv, Unreachable
  PROVE  TrInv'
<1>1. /\ Live /\ Consume /\ nest' = nest /\ locals' = locals /\ entry' = entry
      /\ ir' = Terminate(ir) /\ labels' = Close(labels)
  BY DEF Unreachable
<1>2. /\ status = "running" /\ labels # <<>> /\ ~Top.terminated /\ Top.depth = 0
  BY <1>1, LiveFacts
<1>3. TopOf(None, Invalid, labels, Top.stack, Top.terminated, 0)
  BY <1>2, TopOfNow, Parts
<1>4. TopOf(None, Invalid, labels', Top.stack, TRUE, 0)
  BY <1>1, <1>2, <1>3, TopOfClose, Parts
<1>5. Top.stack \in Seq(Operands) /\ \A j \in DOMAIN Top.stack : Usable(Top.stack[j].val)
  BY <1>2, TopFacts
<1>6. Quiet(ir') /\ CursorMoves(TRUE)
  BY <1>1, <1>2, SameIr, CursorCloses
<1> DEFINE yes == TRUE
<1>7. yes \in BOOLEAN /\ CursorMoves(yes) /\ TopOf(None, Invalid, labels', Top.stack, yes, 0)
  BY <1>4, <1>6
<1> HIDE DEF yes
<1> QED
  BY <1>1, <1>5, <1>6, <1>7, LiveStep

LEMMA ReturnStep ==
  ASSUME TrInv, Return
  PROVE  TrInv'
<1>1. /\ Live /\ Consume /\ nest' = nest /\ locals' = locals /\ entry' = entry
      /\ ir' = Terminate(ir) /\ labels' = [Close(labels) EXCEPT ![TopIdx].stack = <<>>]
  BY DEF Return
<1>2. /\ status = "running" /\ labels # <<>> /\ ~Top.terminated /\ Top.depth = 0
  BY <1>1, LiveFacts
<1>3. TopOf(None, Invalid, labels, Top.stack, Top.terminated, 0)
  BY <1>2, TopOfNow, Parts
<1>4. TopOf(None, Invalid, Close(labels), Top.stack, TRUE, 0)
  BY <1>1, <1>2, <1>3, TopOfClose, Parts
<1>5. TopOf(None, Invalid, labels', <<>>, TRUE, 0)
  BY <1>1, <1>2, <1>4, TopOfStack, EmptyStack, Parts
<1>6. Quiet(ir') /\ CursorMoves(TRUE)
  BY <1>1, <1>2, SameIr, CursorCloses
<1> DEFINE yes == TRUE
           empty == <<>>
<1>7. yes \in BOOLEAN /\ CursorMoves(yes) /\ TopOf(None, Invalid, labels', empty, yes, 0)
  BY <1>5, <1>6
<1>8. empty \in Seq(Operands) /\ \A j \in DOMAIN empty : Usable(empty[j].val)
  BY EmptyStack
<1> HIDE DEF yes, empty
<1> QED
  BY <1>1, <1>6, <1>7, <1>8, LiveStep

(* The new branches of m come from the cursor's block; to new blocks they  *)
(* carry the locals.                                                       *)
FromCursor(m) ==
  \A b \in DOMAIN m.into : \A k \in DOMAIN m.into[b] :
    \/ b \in Blocks /\ k \in DOMAIN ir.into[b]
    \/ m.into[b][k].src = ir.cur /\ (b \notin Blocks => m.into[b][k].vals = locals)

(* A check splits the cursor's block: one of two new blocks goes on, the   *)
(* other one ends the function.                                            *)
Split(x, y) ==
  At(Terminate(At(Fork(CreateBlocks(ir, 2), x, locals, y, locals), NewBlock(ir) + 1)), NewBlock(ir))

NewTwo(x, y) ==
  \/ x = NewBlock(ir) /\ y = NewBlock(ir) + 1
  \/ y = NewBlock(ir) /\ x = NewBlock(ir) + 1

LEMMA SplitFacts ==
  ASSUME TrInv, status = "running", labels # <<>>, ~Top.terminated, NEW x, NEW y, NewTwo(x, y),
         NEW m, m = Split(x, y)
  PROVE  /\ Quiet(m) /\ Len(m.into) = Len(ir.into) + 2 /\ m.cur = NewBlock(ir) /\ m.values = ir.values
         /\ m.term = ir.term \cup {ir.cur, NewBlock(ir) + 1} /\ m.hollow = ir.hollow
         /\ NewBlock(ir) \in Nat /\ Len(ir.into) \in Nat /\ NewBlock(ir) = Len(ir.into) + 1
         /\ FromCursor(m) /\ m.into[NewBlock(ir)] # <<>>
<1> DEFINE N == NewBlock(ir)
           two == CreateBlocks(ir, 2)
           f == Fork(two, x, locals, y, locals)
           g == At(f, N + 1)
           h == Terminate(g)
<1>1. IsIr(ir) /\ Len(ir.into) \in Nat /\ N = Len(ir.into) + 1 /\ N \in Nat /\ locals \in Seq(Value)
      /\ DOMAIN ir.into = 1 .. Len(ir.into)
  BY Parts DEF Shape, IsIr, NewBlock
<1>2. /\ IsIr(two) /\ Len(two.into) = Len(ir.into) + 2
      /\ \A b \in 1 .. Len(ir.into) : two.into[b] = ir.into[b]
      /\ \A b \in Len(ir.into) + 1 .. Len(ir.into) + 2 : two.into[b] = <<>>
      /\ two.cur = ir.cur /\ two.term = ir.term /\ two.values = ir.values /\ two.phis = ir.phis
      /\ two.hollow = ir.hollow
  BY <1>1, CreateBlocksFacts
<1> HIDE DEF two, N
<1>3. x \in 1 .. Len(two.into) /\ y \in 1 .. Len(two.into) /\ x # y /\ {x, y} = {N, N + 1}
      /\ x > Len(ir.into) /\ y > Len(ir.into) /\ two.into[x] = <<>> /\ two.into[y] = <<>>
  BY <1>1, <1>2 DEF N, NewTwo
<1>4. /\ IsIr(f) /\ Len(f.into) = Len(two.into)
      /\ f.into[x] = Append(two.into[x], Edge(two.cur, locals))
      /\ f.into[y] = Append(two.into[y], Edge(two.cur, locals))
      /\ \A b \in 1 .. Len(two.into) : b # x /\ b # y => f.into[b] = two.into[b]
      /\ f.cur = two.cur /\ f.term = two.term \cup {two.cur} /\ f.values = two.values
      /\ f.phis = two.phis /\ f.hollow = two.hollow
  <2>1. IsIr(two) /\ x \in 1 .. Len(two.into) /\ y \in 1 .. Len(two.into) /\ y # x /\ locals \in Seq(Value)
    BY <1>1, <1>2, <1>3
  <2>2. Forked(f, two, x, locals, y, locals)
    BY <2>1, ForkFacts
  <2> HIDE DEF f
  <2> QED
    BY <2>2 DEF Forked
<1> HIDE DEF f
<1>5. /\ IsIr(g) /\ g.into = f.into /\ g.cur = N + 1 /\ g.term = f.term /\ g.values = f.values
      /\ g.phis = f.phis /\ g.hollow = f.hollow
  <2>1. IsIr(f) /\ N + 1 \in Nat
    BY <1>1, <1>4
  <2> QED
    BY <2>1, AtFacts
<1> HIDE DEF g
<1>6. /\ IsIr(h) /\ h.into = g.into /\ h.term = g.term \cup {g.cur} /\ h.values = g.values
      /\ h.phis = g.phis /\ h.hollow = g.hollow
  BY <1>5, TerminateFacts
<1> HIDE DEF h
<1>7. /\ IsIr(m) /\ m.into = h.into /\ m.cur = N /\ m.term = h.term /\ m.values = h.values
      /\ m.phis = h.phis /\ m.hollow = h.hollow
  <2>1. m = At(h, N)
    BY DEF h, g, f, two, N, Split
  <2>2. /\ IsIr(At(h, N)) /\ At(h, N).into = h.into /\ At(h, N).cur = N /\ At(h, N).term = h.term
        /\ At(h, N).values = h.values /\ At(h, N).phis = h.phis /\ At(h, N).hollow = h.hollow
    <3>1. IsIr(h) /\ N \in Nat
      BY <1>1, <1>6
    <3> QED
      BY <3>1, AtFacts
  <2> QED
    BY <2>1, <2>2
<1>8. /\ Len(m.into) = Len(ir.into) + 2 /\ m.into = f.into
      /\ m.term = ir.term \cup {ir.cur, N + 1} /\ m.values = ir.values /\ m.phis = ir.phis /\ m.hollow = ir.hollow
  BY <1>2, <1>4, <1>5, <1>6, <1>7
<1>9. ASSUME NEW b \in Blocks PROVE m.into[b] = ir.into[b]
  <2>1. b \in 1 .. Len(ir.into)
    BY <1>1 DEF Blocks
  <2>2. b \in 1 .. Len(two.into) /\ b # x /\ b # y
    BY <1>1, <1>2, <1>3, <2>1
  <2> QED
    BY <1>2, <1>4, <1>8, <2>1, <2>2
<1>10. DOMAIN m.into = 1 .. Len(ir.into) + 2 /\ ir.cur \in 1 .. Len(ir.into)
  BY <1>1, <1>7, <1>8, Parts DEF IsIr, OpenInv, Blocks
<1>11. ASSUME NEW b \in DOMAIN m.into, b \notin Blocks
       PROVE  m.into[b] = <<Edge(ir.cur, locals)>>
  <2>1. b = x \/ b = y
    <3>1. b = N \/ b = N + 1
      BY <1>1, <1>10, <1>11 DEF Blocks
    <3>2. {x, y} = {N, N + 1}
      BY <1>3
    <3> HIDE DEF N
    <3> QED
      BY <3>1, <3>2
  <2>2. m.into[b] = Append(<<>>, Edge(ir.cur, locals))
    BY <1>2, <1>3, <1>4, <1>8, <2>1
  <2> QED
    BY <2>2
<1>12. ASSUME NEW b \in DOMAIN m.into, NEW k \in DOMAIN m.into[b]
       PROVE  m.into[b][k].src \in DOMAIN m.into
  <2>1. CASE b \in Blocks
    <3>1. m.into[b][k].src \in Blocks
      BY <1>9, <1>12, <2>1, Parts DEF SourcesInv
    <3> QED
      BY <1>1, <1>10, <3>1 DEF Blocks
  <2>2. CASE b \notin Blocks
    <3>1. k = 1 /\ m.into[b][k] = Edge(ir.cur, locals)
      BY <1>11, <1>12, <2>2
    <3> QED
      BY <1>1, <1>10, <3>1 DEF Edge
  <2> QED
    BY <2>1, <2>2
<1>13. Quiet(m)
  BY <1>1, <1>7, <1>8, <1>9, <1>12 DEF Quiet, IsIr
<1>14. FromCursor(m)
  <2>1. ASSUME NEW b \in DOMAIN m.into, NEW k \in DOMAIN m.into[b], b \notin Blocks
        PROVE  m.into[b][k].src = ir.cur /\ m.into[b][k].vals = locals
    <3>1. m.into[b][k] = Edge(ir.cur, locals)
      BY <1>11, <2>1
    <3> QED
      BY <3>1 DEF Edge
  <2> QED
    BY <1>9, <2>1 DEF FromCursor
<1>15. m.into[N] # <<>>
  <2>1. N \in DOMAIN m.into /\ N \notin Blocks
    BY <1>1, <1>10 DEF Blocks
  <2>2. m.into[N] = <<Edge(ir.cur, locals)>>
    BY <1>11, <2>1
  <2> QED
    BY <2>2
<1> QED
  BY <1>1, <1>7, <1>8, <1>13, <1>14, <1>15 DEF N

LEMMA SplitMoves ==
  ASSUME TrInv, status = "running", labels # <<>>, ~Top.terminated, Len(ir.into) \in Nat,
         Len(ir'.into) = Len(ir.into) + 2, Quiet(ir'),
         ir'.cur = Len(ir.into) + 1, ir'.term = ir.term \cup {ir.cur, Len(ir.into) + 2}, ir'.hollow = ir.hollow
  PROVE  CursorMoves(FALSE)
<1>1. Blocks = 1 .. Len(ir.into) /\ Blocks' = 1 .. Len(ir.into) + 2
  BY Parts DEF Blocks, Quiet, IsIr, Shape
<1>2. /\ ir.term \subseteq Blocks /\ ir.hollow \subseteq Blocks \ ir.term
      /\ ir.cur \in Blocks \ (ir.term \cup ir.hollow \cup Pending)
  BY Parts DEF OpenInv
<1> QED
  BY <1>1, <1>2 DEF CursorMoves

LEMMA CallIndirectStep ==
  ASSUME TrInv, NEW sig, IsSig(sig), CallIndirect(sig)
  PROVE  TrInv'
<1> DEFINE N == NewBlock(ir)
           called == At(Terminate(At(Fork(CreateBlocks(ir, 2), N, locals, N + 1, locals), N + 1)), N)
           out == [val |-> NewValue(called), type |-> sig.push]
           rest == Popped(Len(sig.pops) + 1)
           s == Drop(Top.stack, Len(sig.pops) + 1)
<1>1. /\ Live /\ Consume /\ nest' = nest /\ locals' = locals /\ entry' = entry
      /\ CanPop(Append(sig.pops, I32))
      /\ \/ sig.push = NoType /\ labels' = rest /\ ir' = called
         \/ /\ sig.push # NoType
            /\ labels' = [rest EXCEPT ![TopIdx].stack = Append(@, out)]
            /\ ir' = Define(called)
  BY DEF CallIndirect
<1>2. /\ status = "running" /\ labels # <<>> /\ ~Top.terminated /\ Top.terminated = FALSE /\ Top.depth = 0
  BY <1>1, LiveFacts
<1>3. /\ Quiet(called) /\ Len(called.into) = Len(ir.into) + 2 /\ called.cur = N /\ called.values = ir.values
      /\ called.term = ir.term \cup {ir.cur, N + 1} /\ called.hollow = ir.hollow
      /\ N \in Nat /\ Len(ir.into) \in Nat /\ N = Len(ir.into) + 1
  BY <1>2, SplitFacts DEF Split, NewTwo
<1> HIDE DEF called
<1>4. Len(sig.pops) + 1 \in 0 .. Len(Top.stack)
  <2>1. Append(sig.pops, I32) \in Seq(ValueTypes) /\ Len(Append(sig.pops, I32)) = Len(sig.pops) + 1
    BY DEF IsSig, ValueTypes
  <2> DEFINE tys == Append(sig.pops, I32)
  <2>2. TrInv /\ status = "running" /\ labels # <<>> /\ tys \in Seq(ValueTypes) /\ CanPop(tys)
    BY <1>1, <1>2, <2>1
  <2> HIDE DEF tys
  <2>3. Len(tys) \in 0 .. Len(Top.stack)
    BY ONLY <2>2, CanPopFacts
  <2> QED
    BY <2>1, <2>3 DEF tys
<1>5. /\ TopOf(None, Invalid, rest, s, FALSE, 0) /\ s \in Seq(Operands)
      /\ \A j \in DOMAIN s : Usable(s[j].val)
  BY <1>2, <1>4, PopFacts
<1> HIDE DEF N, s, rest
<1>6. CASE sig.push = NoType
  <2>1. labels' = rest /\ ir' = called
    BY <1>1, <1>6
  <2>2. CursorMoves(FALSE)
    <3>1. N + 1 = Len(ir.into) + 2
      BY <1>3
    <3> QED
      BY <1>2, <1>3, <2>1, <3>1, SplitMoves
  <2> QED
    BY <1>1, <1>3, <1>5, <2>1, <2>2, LiveStep
<1>7. CASE sig.push # NoType
  <2>1. labels' = [rest EXCEPT ![TopIdx].stack = Append(@, out)] /\ ir' = Define(called)
    BY <1>1, <1>7
  <2>2. /\ IsIr(ir') /\ ir'.into = called.into /\ ir'.cur = called.cur /\ ir'.term = called.term
        /\ ir'.values = called.values + 1 /\ ir'.phis = called.phis /\ ir'.hollow = called.hollow
    BY <1>3, <2>1, DefineFacts DEF Quiet
  <2>3. ir.values \in Nat
    BY Parts DEF Shape, IsIr
  <2>4. Quiet(ir')
    BY <1>3, <2>2, <2>3 DEF Quiet
  <2>5. CursorMoves(FALSE)
    <3>1. N + 1 = Len(ir.into) + 2
      BY <1>3
    <3> QED
      BY <1>2, <1>3, <2>2, <2>4, <3>1, SplitMoves
  <2>6. out.val = <<N, 0, ir.values + 1>> /\ out.val \in Value /\ out \in Operands
    BY <1>3, <2>3 DEF NewValue, Value, Operands, IsSig
  <2> HIDE DEF out
  <2>7. TopOf(None, Invalid, labels', Append(s, out), FALSE, 0) /\ Append(s, out) \in Seq(Operands)
    BY <1>2, <1>5, <2>1, <2>6, PushFacts
  <2>8. Pending' = Pending
    BY <1>2, <2>4, <2>7, QuietUsable
  <2>9. ASSUME NEW v, v = out.val PROVE Usable(v)'
    <3>1. N \in Blocks' /\ N \notin Pending
      <4>1. Blocks' = 1 .. Len(ir.into) + 2 /\ Blocks = 1 .. Len(ir.into)
        BY <1>3, <2>2, Parts DEF Blocks, IsIr, Shape
      <4>2. Pending \subseteq Blocks
        BY PendingBlocks, Parts
      <4> QED
        BY <1>3, <4>1, <4>2
    <3>2. ir.values + 1 \in 1 .. ir'.values
      BY <1>3, <2>2, <2>3
    <3> QED
      BY <2>6, <2>8, <2>9, <3>1, <3>2 DEF Usable, IsValue, DefinedIn
  <2>10. \A j \in DOMAIN Append(s, out) : \/ Usable(Append(s, out)[j].val)
                                          \/ \A v : v = Append(s, out)[j].val => Usable(v)'
    BY <1>5, <2>6, <2>9, SeqAppend
  <2> QED
    BY <1>1, <2>4, <2>5, <2>7, <2>10, LiveStep
<1> QED
  BY <1>1, <1>6, <1>7

-----------------------------------------------------------------------------
(* Dead code, and the ends of a run.                                       *)

LEMMA SkipStep ==
  ASSUME TrInv, Dead, Consume, ir' = ir, locals' = locals, entry' = entry, NEW d \in Nat,
         TopOf(None, Invalid, labels', Top.stack, Top.terminated, d),
         d <= Top.depth + 1, nest' = nest + d - Top.depth
  PROVE  TrInv'
<1>1. status = "running" /\ labels # <<>> /\ Top.terminated /\ ops < MaxOps
  BY DEF Dead
<1>2. Quiet(ir')
  BY <1>1, SameIr
<1>3. Pending' = Pending /\ \A v : Usable(v) => Usable(v)'
  BY <1>1, <1>2, QuietUsable
<1>4. /\ Top.stack \in Seq(Operands) /\ Top.depth \in Nat
      /\ \A j \in 1 .. Len(Top.stack) : Usable(Top.stack[j].val)
  BY <1>1, TopFacts
<1>5. StackUsable(Top.stack)
  <2>1. DOMAIN Top.stack = 1 .. Len(Top.stack)
    BY <1>4
  <2>2. \A j \in DOMAIN Top.stack : Usable(Top.stack[j].val)
    BY <1>4, <2>1
  <2> QED
    BY <1>3, <2>2 DEF StackUsable
<1>6. LocalsUsable
  BY <1>1, <1>3, LocalsStay
<1>7. labels' # <<>> /\ labels'[Len(labels')].terminated = Top.terminated
  BY <1>1, Parts DEF TopOf, Shape
<1>8. OpenInv'
  BY <1>1, <1>3, <1>7, Parts DEF OpenInv, Blocks, Top, TopIdx
<1>9. Counted /\ nest' - d = nest - Top.depth
  <2>1. nest \in Nat /\ nest = Len(labels) + Top.depth /\ Len(labels) \in Nat
    BY <1>1, Parts DEF Shape, Frames
  <2> QED
    <3> DEFINE e == Top.depth
    <3>1. e \in Nat /\ nest = Len(labels) + e /\ d <= e + 1 /\ nest' = nest + d - e
      BY <1>4, <2>1
    <3> HIDE DEF e
    <3>2. nest' = Len(labels) + d /\ nest' \in Nat /\ nest' <= nest + 1 /\ nest' - d = nest - e
      <4> DEFINE a == nest'
                 b == nest
                 n == Len(labels)
      <4>1. d \in Nat /\ e \in Nat /\ n \in Nat /\ b = n + e /\ d <= e + 1 /\ a = b + d - e
        BY <2>1, <3>1
      <4> HIDE DEF a, b, n
      <4>2. a = n + d /\ a \in Nat /\ a <= b + 1 /\ a - d = b - e
        BY ONLY <4>1
      <4> QED
        BY ONLY <4>2 DEF a, b, n
    <3>3. nest' - d = nest - Top.depth
      BY ONLY <3>2 DEF e
    <3>4. Counted
      BY <1>1, <3>2 DEF Counted, Consume
    <3> QED
      BY ONLY <3>3, <3>4
<1> QED
  BY <1>1, <1>2, <1>5, <1>6, <1>8, <1>9, QuietStep

LEMMA SkipFrameStep ==
  ASSUME TrInv, SkipFrame
  PROVE  TrInv'
<1>1. /\ Dead /\ Consume /\ ir' = ir /\ locals' = locals /\ entry' = entry /\ nest' = nest + 1
      /\ labels' = [labels EXCEPT ![TopIdx].depth = @ + 1]
  BY DEF SkipFrame, SkipOpen
<1>2. status = "running" /\ labels # <<>>
  BY <1>1 DEF Dead
<1>3. Top.depth \in Nat /\ Top = labels[TopIdx] /\ nest \in Nat
  BY <1>2, TopFacts, Parts DEF TopIdx, Shape
<1> DEFINE d == Top.depth + 1
<1>4. labels' = [labels EXCEPT ![TopIdx].depth = d]
  BY <1>1, <1>3
<1>5. d \in Nat /\ d <= Top.depth + 1 /\ nest' = nest + d - Top.depth
  BY <1>1, <1>3
<1> HIDE DEF d
<1>6. TopOf(None, Invalid, labels', Top.stack, Top.terminated, d)
  BY <1>2, <1>4, <1>5, TopOfDepth, Parts
<1> QED
  BY <1>1, <1>5, <1>6, SkipStep

LEMMA SkipEndStep ==
  ASSUME TrInv, SkipEnd
  PROVE  TrInv'
<1>1. /\ Dead /\ Consume /\ ir' = ir /\ locals' = locals /\ entry' = entry /\ nest' = nest - 1
      /\ Top.depth > 0 /\ labels' = [labels EXCEPT ![TopIdx].depth = @ - 1]
  BY DEF SkipEnd
<1>2. status = "running" /\ labels # <<>>
  BY <1>1 DEF Dead
<1>3. Top.depth \in Nat /\ Top = labels[TopIdx] /\ nest \in Nat
  BY <1>2, TopFacts, Parts DEF TopIdx, Shape
<1> DEFINE d == Top.depth - 1
<1>4. labels' = [labels EXCEPT ![TopIdx].depth = d]
  BY <1>1, <1>3
<1>5. d \in Nat /\ d <= Top.depth + 1 /\ nest' = nest + d - Top.depth
  BY <1>1, <1>3
<1> HIDE DEF d
<1>6. TopOf(None, Invalid, labels', Top.stack, Top.terminated, d)
  BY <1>2, <1>4, <1>5, TopOfDepth, Parts
<1> QED
  BY <1>1, <1>5, <1>6, SkipStep

LEMMA SkipPlainStep ==
  ASSUME TrInv, SkipPlain
  PROVE  TrInv'
<1>1. /\ Dead /\ Consume /\ ir' = ir /\ locals' = locals /\ entry' = entry /\ nest' = nest
      /\ labels' = labels
  BY DEF SkipPlain
<1>2. status = "running" /\ labels # <<>>
  BY <1>1 DEF Dead
<1>3. Top.depth \in Nat /\ nest \in Nat
  BY <1>2, TopFacts, Parts DEF Shape
<1> DEFINE d == Top.depth
<1>5. d \in Nat /\ d <= Top.depth + 1 /\ nest' = nest + d - Top.depth
  BY <1>1, <1>3
<1>6. TopOf(None, Invalid, labels', Top.stack, Top.terminated, d)
  BY <1>1, <1>2, TopOfNow, Parts
<1> HIDE DEF d
<1> QED
  BY <1>1, <1>5, <1>6, SkipStep

LEMMA FinishStep ==
  ASSUME TrInv, Finish
  PROVE  TrInv'
<1>1. /\ status = "running" /\ labels = <<>> /\ status' = "done" /\ ir' = ir /\ labels' = labels
      /\ locals' = locals /\ ops' = ops /\ nest' = nest /\ entry' = entry
  BY DEF Finish
<1>2. Shape' /\ Frames' /\ OpsInv' /\ OpenInv'
  BY <1>1, Parts DEF Shape, Frames, OpsInv, OpenInv, Blocks, Top, TopIdx, Pending
<1>3. Chain' /\ SourcesInv' /\ LabelsInv' /\ PhisInv'
  BY <1>1, Parts DEF Chain, ChainOK, SourcesInv, Blocks, LabelsInv, PhisInv
<1>4. Pending' = Pending /\ Blocks' = Blocks
  BY <1>1 DEF Pending, Blocks
<1>5. ASSUME NEW v, Usable(v) PROVE Usable(v)'
  BY <1>1, <1>4, <1>5 DEF Usable, IsValue
<1>6. ValuesInv'
  <2>1. ASSUME NEW i \in DOMAIN locals' PROVE Usable(locals[i])'
    BY <1>1, <1>4, Parts DEF ValuesInv, Usable, IsValue
  <2> QED
    BY <1>1, <2>1 DEF ValuesInv
<1>7. EntryInv'
  BY <1>1, <1>4, Parts DEF EntryInv, EdgesInto, OnEdge
<1> QED
  BY <1>2, <1>3, <1>6, <1>7 DEF TrInv

LEMMA EmptyIr ==
  ASSUME NEW m, m = [into |-> <<>>, cur |-> 0, term |-> {}, values |-> 0,
                     phis |-> [v \in {} |-> <<>>], hollow |-> {}]
  PROVE  IsIr(m) /\ m.into = <<>> /\ m.cur = 0 /\ m.term = {} /\ m.hollow = {} /\ DOMAIN m.phis = {}
<1> DEFINE P == [v \in {} |-> <<>>]
<1>1. DOMAIN P = {} /\ P = [p \in DOMAIN P |-> P[p]]
  OBVIOUS
<1>2. m.phis = P /\ m.into = <<>> /\ m.cur = 0 /\ m.term = {} /\ m.hollow = {} /\ m.values = 0
  OBVIOUS
<1> HIDE DEF P
<1>3. IsPhis(P)
  BY <1>1 DEF IsPhis
<1>4. m.into \in Seq(Seq(BranchType))
  BY <1>2
<1> QED
  BY <1>1, <1>2, <1>3, <1>4 DEF IsIr

LEMMA RejectStep ==
  ASSUME TrInv, Reject
  PROVE  TrInv'
<1>1. /\ status' = "failed" /\ labels' = <<>> /\ locals' = <<>> /\ nest' = 0 /\ ops' = 0
      /\ ir' = [into |-> <<>>, cur |-> 0, term |-> {}, values |-> 0,
                phis |-> [v \in {} |-> <<>>], hollow |-> {}]
      /\ entry' = [b \in {} |-> <<>>]
  BY DEF Reject
<1>2. /\ IsIr(ir') /\ ir'.into = <<>> /\ ir'.cur = 0 /\ ir'.term = {} /\ ir'.hollow = {}
      /\ DOMAIN ir'.phis = {}
  BY <1>1, EmptyIr
<1>3. Shape'
  BY <1>1, <1>2, TranslateAssumption DEF Shape
<1>4. Frames' /\ OpsInv' /\ Chain' /\ LabelsInv'
  BY <1>1 DEF Frames, OpsInv, Chain, ChainOK, LabelsInv
<1>5. Blocks' = {} /\ Pending' = {} /\ DOMAIN labels' = {}
  BY <1>1, <1>2 DEF Blocks, Pending
<1>6. OpenInv'
  BY <1>1, <1>2, <1>5 DEF OpenInv
<1>7. SourcesInv' /\ PhisInv'
  BY <1>2, <1>5 DEF SourcesInv, PhisInv
<1>8. ValuesInv'
  BY <1>1, <1>5 DEF ValuesInv
<1>9. EntryInv'
  <2>1. DOMAIN entry' = {} /\ entry' = [b \in DOMAIN entry' |-> entry'[b]]
    BY <1>1
  <2> QED
    BY <1>5, <2>1 DEF EntryInv
<1> QED
  BY <1>3, <1>4, <1>6, <1>7, <1>8, <1>9 DEF TrInv

LEMMA InitInv ==
  ASSUME Init
  PROVE  TrInv
<1>0. Len(LocalType) \in Nat /\ LocalIdx = 1 .. Len(LocalType) /\ MaxOps \in Nat
  BY TranslateAssumption DEF LocalIdx
<1>1. /\ ir = [into |-> << <<>> >>, cur |-> 1, term |-> {}, values |-> Len(LocalType),
               phis |-> [v \in {} |-> <<>>], hollow |-> {}]
      /\ labels = <<Label(0, NoType, FALSE, <<>>)>>
      /\ locals = [i \in LocalIdx |-> <<1, 0, i>>]
      /\ status = "running" /\ ops = 0 /\ nest = 1 /\ entry = [b \in {} |-> <<>>]
  BY DEF Init
<1>2. /\ IsIr(ir) /\ ir.into = << <<>> >> /\ ir.cur = 1 /\ ir.term = {} /\ ir.hollow = {}
      /\ DOMAIN ir.phis = {} /\ ir.values = Len(LocalType)
  <2> DEFINE P == [v \in {} |-> <<>>]
  <2>1. DOMAIN P = {} /\ P = [p \in DOMAIN P |-> P[p]]
    OBVIOUS
  <2>2. /\ ir.phis = P /\ ir.into = << <<>> >> /\ ir.cur = 1 /\ ir.term = {} /\ ir.hollow = {}
        /\ ir.values = Len(LocalType)
        /\ ir = [into |-> ir.into, cur |-> ir.cur, term |-> ir.term, values |-> ir.values,
                 phis |-> ir.phis, hollow |-> ir.hollow]
    BY <1>1
  <2> HIDE DEF P
  <2>3. IsPhis(P)
    BY <2>1 DEF IsPhis
  <2>4. << <<>> >> \in Seq(Seq(BranchType))
    OBVIOUS
  <2> QED
    BY <1>0, <2>1, <2>2, <2>3, <2>4 DEF IsIr
<1> DEFINE l == Label(0, NoType, FALSE, <<>>)
<1>3. /\ l \in LabelType /\ l.block = 0 /\ l.stack = <<>> /\ l.merge = <<>> /\ ~l.loop /\ l.depth = 0
      /\ l.rtype = NoType /\ ~l.terminated /\ l.inputs = 0
  BY DEF Label, LabelType, Types
<1>4. labels = <<l>>
  BY <1>1
<1> HIDE DEF l
<1>5. labels \in Seq(LabelType) /\ Len(labels) = 1 /\ DOMAIN labels = {1} /\ labels[1] = l /\ labels # <<>>
  BY <1>3, <1>4
<1>6. locals \in Seq(Value) /\ Len(locals) = Len(LocalType) /\ DOMAIN locals = 1 .. Len(LocalType)
  <2>1. locals \in [1 .. Len(LocalType) -> Value]
    BY <1>0, <1>1 DEF Value
  <2> QED
    BY <1>0, <2>1, SeqOfFunction
<1>14. status = "running" /\ ops = 0 /\ nest = 1
  BY <1>1
<1>7. Shape
  BY <1>0, <1>2, <1>5, <1>6, <1>14 DEF Shape
<1>8. Top = l /\ Blocks = {1} /\ Pending = {} /\ Len(ir.into) = 1 /\ ir.into[1] = <<>>
  BY <1>2, <1>5 DEF Top, TopIdx, Blocks, Pending
<1>9. Chain /\ Frames /\ OpsInv
  <2>1. ChainOK(labels)
    BY <1>3, <1>5, <1>8 DEF ChainOK
  <2>2. Frames /\ OpsInv
    BY <1>3, <1>5, <1>8, <1>14 DEF Frames, OpsInv
  <2> QED
    BY <2>1, <2>2 DEF Chain
<1>10. OpenInv
  BY <1>2, <1>3, <1>5, <1>8 DEF OpenInv
<1>11. SourcesInv /\ LabelsInv /\ PhisInv
  BY <1>2, <1>5, <1>8 DEF SourcesInv, LabelsInv, PhisInv
<1>12. ValuesInv
  <2>1. ASSUME NEW i \in DOMAIN locals PROVE Usable(locals[i])
    <3>1. locals[i] = <<1, 0, i>> /\ i \in 1 .. Len(LocalType) /\ locals[i] \in Value
      BY <1>0, <1>1, <1>6
    <3> QED
      BY <1>2, <1>8, <3>1 DEF Usable, IsValue, DefinedIn
  <2> QED
    BY <1>3, <1>5, <2>1 DEF ValuesInv
<1>13. EntryInv
  <2>1. DOMAIN entry = {} /\ entry = [b \in DOMAIN entry |-> entry[b]]
    BY <1>1
  <2> QED
    BY <1>3, <1>5, <2>1 DEF EntryInv
<1> QED
  BY <1>7, <1>9, <1>10, <1>11, <1>12, <1>13 DEF TrInv

-----------------------------------------------------------------------------
(* Frames opened and closed.                                               *)

(* Blocks that no label waits for yet may be waited for; no other.         *)
PendingNew == \A b \in Pending' : b \in Blocks => b \in Pending

(* A block enters the history with values that fit its branches.           *)
EntryFits(b) ==
  /\ b \in Blocks' \ Pending'
  /\ \A k \in DOMAIN ir'.into[b] : \A i \in DOMAIN entry'[b] :
       (IF entry'[b][i] \in DOMAIN ir'.phis /\ DefinedIn(entry'[b][i]) = b
        THEN ir'.phis[entry'[b][i]][k] ELSE entry'[b][i]) = ir'.into[b][k].vals[i]

LEMMA EntryStep ==
  ASSUME TrInv, status = "running", NEW hits, NEW res, Hits(hits, res), Branches(ir', hits, res),
         Stays(hits, res), PendingNew,
         entry' = [b \in DOMAIN entry' |-> entry'[b]], DOMAIN entry \subseteq DOMAIN entry',
         \A b \in DOMAIN entry : entry'[b] = entry[b],
         \A b \in DOMAIN entry' : b \notin DOMAIN entry => EntryFits(b),
         \A t \in DOMAIN labels' : t \notin DOMAIN labels /\ labels'[t].loop =>
           /\ labels'[t].block \in DOMAIN entry'
           /\ entry'[labels'[t].block] = [i \in LocalIdx |-> Phi(labels'[t].block, i)]
  PROVE  EntryInv'
<1>1. /\ Shape /\ Chain /\ LabelsInv /\ PhisInv /\ ValuesInv /\ EntryInv
  BY Parts
<1>2. Blocks \subseteq Blocks'
  BY <1>1 DEF Blocks, Branches, Shape, IsIr
<1>3. DOMAIN entry' \subseteq Blocks' \ Pending'
  <2>1. ASSUME NEW b \in DOMAIN entry' PROVE b \in Blocks' \ Pending'
    <3>1. CASE b \in DOMAIN entry
      BY <1>1, <1>2, <3>1 DEF EntryInv, PendingNew
    <3>2. CASE b \notin DOMAIN entry
      BY <3>2 DEF EntryFits
    <3> QED
      BY <3>1, <3>2
  <2> QED
    BY <2>1
<1>4. ASSUME NEW t \in DOMAIN labels', t > 1, labels'[t].loop
      PROVE  /\ labels'[t].block \in DOMAIN entry'
             /\ entry'[labels'[t].block] = [i \in LocalIdx |-> Phi(labels'[t].block, i)]
  <2>1. CASE t \in DOMAIN labels
    <3>1. labels'[t].block = labels[t].block /\ labels'[t].loop = labels[t].loop
      BY <1>1, <2>1, AfterFacts DEF Stays, SameMerge
    <3> QED
      BY <1>1, <1>4, <2>1, <3>1 DEF EntryInv
  <2>2. CASE t \notin DOMAIN labels
    BY <1>4, <2>2
  <2> QED
    BY <2>1, <2>2
<1>5. ASSUME NEW b \in DOMAIN entry', NEW k \in DOMAIN ir'.into[b], NEW i \in DOMAIN entry'[b]
      PROVE  (IF entry'[b][i] \in DOMAIN ir'.phis /\ DefinedIn(entry'[b][i]) = b
              THEN ir'.phis[entry'[b][i]][k] ELSE entry'[b][i]) = ir'.into[b][k].vals[i]
  <2>1. CASE b \in DOMAIN entry
    <3>1. entry'[b] = entry[b] /\ i \in DOMAIN entry[b]
      BY <2>1
    <3>2. (IF entry[b][i] \in DOMAIN ir'.phis /\ DefinedIn(entry[b][i]) = b
           THEN ir'.phis[entry[b][i]][k] ELSE entry[b][i]) = ir'.into[b][k].vals[i]
      BY <1>1, <2>1, <3>1, StepEntry
    <3> QED
      BY <3>1, <3>2
  <2>2. CASE b \notin DOMAIN entry
    BY <2>2 DEF EntryFits
  <2> QED
    BY <2>1, <2>2
<1> QED
  BY <1>3, <1>4, <1>5 DEF EntryInv, OnEdge, EdgesInto, DefinedIn

(* A label with a block of its own, right from the start. *)
NewLabel(t) ==
  /\ LabelOK(labels'[t], ir'.into[labels'[t].block], ir'.phis)
  /\ \A i \in DOMAIN labels'[t].merge : labels'[t].merge[i].phi # NoPhi

LEMMA FrameStep ==
  ASSUME TrInv, status = "running", labels # <<>>, NEW hits, NEW res, Hits(hits, res),
         Branches(ir', hits, res), Stays(hits, res), PendingNew,
         \A t \in DOMAIN labels' : t \notin DOMAIN labels => NewLabel(t),
         \A t \in DOMAIN labels' : StackUsable(labels'[t].stack),
         \A p \in DOMAIN ir'.phis : p[1] \notin Blocks =>
           p[1] \in Blocks' /\ p[2] > 0 /\ Len(ir'.phis[p]) = Len(ir'.into[p[1]]),
         LocalsUsable, Counted, Frames', Chain', OpenInv', EntryInv'
  PROVE  TrInv'
<1>1. /\ Shape /\ Chain /\ OpsInv /\ LabelsInv /\ PhisInv /\ ValuesInv
  BY Parts
<1>2. Blocks \subseteq Blocks' /\ IsIr(ir')
  BY <1>1 DEF Blocks, Branches, Shape, IsIr
<1>3. ops \in Nat /\ nest \in Nat /\ ops' \in 0 .. MaxOps
  BY <1>1, TranslateAssumption DEF Shape, Counted
<1>4. Shape'
  BY <1>1, <1>2, <1>3 DEF Shape, LocalsUsable, Counted, Stays
<1>5. OpsInv'
  BY <1>1, <1>3 DEF OpsInv, Counted
<1>6. SourcesInv'
  BY DEF Branches, SourcesInv, Blocks
<1>7. LabelsInv'
  <2>1. ASSUME NEW t \in DOMAIN labels', t > 1
        PROVE  LabelOK(labels'[t], ir'.into[labels'[t].block], ir'.phis)
    <3>1. CASE t \in DOMAIN labels
      BY <1>1, <2>1, <3>1, StepKeepsLabels
    <3>2. CASE t \notin DOMAIN labels
      BY <3>2 DEF NewLabel
    <3> QED
      BY <3>1, <3>2
  <2> QED
    BY <2>1 DEF LabelsInv
<1>8. PhisInv'
  <2>1. \A p \in DOMAIN ir'.phis : p[1] \in Blocks => p[2] > 0 /\ Len(ir'.phis[p]) = Len(ir'.into[p[1]])
    BY <1>1, StepPhis
  <2> QED
    BY <1>2, <2>1 DEF PhisInv
<1>9. ValuesInv'
  <2>1. \A i \in DOMAIN locals' : \A v : v = locals'[i] => Usable(v)'
    BY DEF LocalsUsable
  <2>2. \A t \in DOMAIN labels' : \A j \in DOMAIN labels'[t].stack : \A v : v = labels'[t].stack[j].val => Usable(v)'
    BY DEF StackUsable
  <2>3. ASSUME NEW t \in DOMAIN labels', NEW i \in DOMAIN labels'[t].merge, labels'[t].merge[i].phi = NoPhi
        PROVE  \A v : v = labels'[t].merge[i].val => Usable(v)'
    <3>1. t \in DOMAIN labels
      BY <2>3 DEF NewLabel
    <3> QED
      BY <1>1, <2>3, <3>1, StepKeepsSlots DEF PendingNew
  <2> QED
    BY <2>1, <2>2, <2>3 DEF ValuesInv
<1> QED
  BY <1>4, <1>5, <1>6, <1>7, <1>8, <1>9 DEF TrInv

(* A frame opens on a block of its own. *)
LEMMA PushLabel ==
  ASSUME TrInv, Live, Consume, NEW l \in LabelType, l.block = NewBlock(ir), l.stack = <<>>, ~l.terminated,
         l.depth = 0, labels' = Append(labels, l), Len(ir'.into) = Len(ir.into) + 1, IsIr(ir'), nest' = nest + 1
  PROVE  /\ labels' \in Seq(LabelType) /\ Len(labels') = Len(labels) + 1 /\ labels' # <<>>
         /\ DOMAIN labels' = DOMAIN labels \cup {Len(labels) + 1} /\ Len(labels) + 1 \notin DOMAIN labels
         /\ \A t \in DOMAIN labels : labels'[t] = labels[t]
         /\ labels'[Len(labels) + 1] = l /\ labels'[Len(labels')] = l
         /\ Stays(None, Invalid) /\ Chain' /\ Frames' /\ Counted
         /\ NewBlock(ir) \in Blocks' \ Blocks /\ Blocks' = Blocks \cup {NewBlock(ir)}
         /\ Pending' = IF l.loop THEN Pending ELSE Pending \cup {NewBlock(ir)}
         /\ PendingNew
<1>0. Shape /\ Chain /\ Frames /\ OpsInv /\ status = "running" /\ labels # <<>> /\ ~Top.terminated
  BY Parts DEF Live
<1>1. labels \in Seq(LabelType) /\ Len(labels) \in Nat /\ DOMAIN labels = 1 .. Len(labels) /\ Len(labels) >= 1
      /\ Len(ir.into) \in Nat /\ DOMAIN ir.into = 1 .. Len(ir.into) /\ NewBlock(ir) = Len(ir.into) + 1
      /\ DOMAIN ir'.into = 1 .. Len(ir.into) + 1
  BY <1>0 DEF Shape, IsIr, NewBlock
<1>2. /\ labels' \in Seq(LabelType) /\ Len(labels') = Len(labels) + 1
      /\ \A t \in 1 .. Len(labels) : labels'[t] = labels[t]
      /\ labels'[Len(labels) + 1] = l
  BY <1>1, SeqAppend
<1>3. /\ labels' # <<>> /\ DOMAIN labels' = DOMAIN labels \cup {Len(labels) + 1}
      /\ Len(labels) + 1 \notin DOMAIN labels /\ \A t \in DOMAIN labels : labels'[t] = labels[t]
  BY <1>1, <1>2
<1>4. Stays(None, Invalid)
  BY <1>0, <1>2, <1>3, NoneHits DEF Stays, SameMerge
<1>5. Blocks = 1 .. Len(ir.into) /\ Blocks' = 1 .. Len(ir.into) + 1
  BY <1>1 DEF Blocks
<1>6. NewBlock(ir) \in Blocks' \ Blocks /\ Blocks' = Blocks \cup {NewBlock(ir)}
  BY <1>1, <1>5
<1>7. \A t \in DOMAIN labels : labels[t].block \in Nat /\ labels[t].block <= Len(ir.into)
  BY <1>0, LabelsTyped, LabelTyped DEF Chain, ChainOK
<1>8. Chain'
  <2>1. ASSUME NEW s \in DOMAIN labels', NEW t \in DOMAIN labels', s < t
        PROVE  labels'[s].block < labels'[t].block
    <3>1. s \in DOMAIN labels
      BY <1>1, <1>3, <2>1
    <3>2. CASE t \in DOMAIN labels
      BY <1>0, <1>3, <2>1, <3>1, <3>2 DEF Chain, ChainOK
    <3>3. CASE t = Len(labels) + 1
      BY <1>1, <1>2, <1>3, <1>7, <3>1, <3>3
    <3> QED
      BY <1>3, <3>2, <3>3
  <2>2. labels'[1] = labels[1]
    BY <1>1, <1>3
  <2>3. \A t \in DOMAIN labels' : labels'[t].block <= Len(ir'.into)
    BY <1>1, <1>2, <1>3, <1>7
  <2>4. ASSUME NEW t \in DOMAIN labels' PROVE t < Len(labels') => ~labels'[t].terminated
    <3>1. CASE t < Len(labels)
      BY <1>0, <1>1, <1>3, <2>4, <3>1 DEF Chain, ChainOK
    <3>2. CASE t = Len(labels)
      <4>1. Len(labels) \in DOMAIN labels
        BY <1>1
      <4>2. labels'[t] = Top
        BY <1>3, <3>2, <4>1 DEF Top, TopIdx
      <4> QED
        BY <1>0, <4>2
    <3> QED
      BY <1>1, <1>2, <1>3, <2>4, <3>1, <3>2
  <2>5. \A t \in DOMAIN labels' : ~labels'[t].terminated => labels'[t].depth = 0
    BY <1>0, <1>2, <1>3 DEF Chain, ChainOK
  <2> QED
    BY <1>0, <2>1, <2>2, <2>3, <2>4, <2>5 DEF Chain, ChainOK
<1>9. nest = Len(labels) /\ nest \in Nat
  <2>1. Top.depth = 0
    BY <1>0, TopFacts
  <2> QED
    BY <1>0, <1>1, <2>1 DEF Frames
<1>10. Frames'
  <2>1. Top' = l
    BY <1>2 DEF Top, TopIdx
  <2> QED
    BY <1>1, <1>2, <1>9, <2>1 DEF Frames
<1>11. Counted
  BY <1>0, <1>9 DEF Counted, Consume, Live
<1>12. \A b : b \in Pending' <=> b \in Pending \/ (~l.loop /\ b = NewBlock(ir))
  <2>1. \A t \in DOMAIN labels' : t > 1 <=> t = Len(labels) + 1 \/ (t \in DOMAIN labels /\ t > 1)
    BY <1>1, <1>3
  <2> QED
    BY <1>2, <1>3, <2>1 DEF Pending
<1>13. Pending' = IF l.loop THEN Pending ELSE Pending \cup {NewBlock(ir)}
  BY <1>12
<1>14. PendingNew
  BY <1>6, <1>12 DEF PendingNew
<1> QED
  BY <1>2, <1>3, <1>4, <1>6, <1>8, <1>10, <1>11, <1>13, <1>14

LEMMA PushStacks ==
  ASSUME TrInv, status = "running", labels # <<>>, Branches(ir', None, Invalid), PendingNew,
         NEW n, DOMAIN labels' = DOMAIN labels \cup {n}, \A t \in DOMAIN labels : labels'[t] = labels[t],
         labels'[n].stack = <<>>
  PROVE  /\ \A t \in DOMAIN labels' : StackUsable(labels'[t].stack)
         /\ \A v : Usable(v) => Usable(v)'
<1>0. Shape /\ ValuesInv
  BY Parts
<1>1. ASSUME NEW v, Usable(v) PROVE Usable(v)'
  BY <1>0, <1>1, StepUsable DEF PendingNew
<1>2. ASSUME NEW t \in DOMAIN labels' PROVE StackUsable(labels'[t].stack)
  <2>1. CASE t \in DOMAIN labels
    BY <1>0, <1>1, <2>1 DEF StackUsable, ValuesInv
  <2>2. CASE t = n
    BY <2>2 DEF StackUsable
  <2> QED
    BY <2>1, <2>2
<1> QED
  BY <1>1, <1>2

LEMMA LabelFacts ==
  ASSUME NEW block \in Nat, NEW rtype \in Types, NEW loop \in BOOLEAN, NEW merge \in Seq(Slot)
  PROVE  /\ Label(block, rtype, loop, merge) \in LabelType
         /\ Label(block, rtype, loop, merge).block = block
         /\ Label(block, rtype, loop, merge).stack = <<>>
         /\ Label(block, rtype, loop, merge).merge = merge
         /\ Label(block, rtype, loop, merge).reached = loop
         /\ Label(block, rtype, loop, merge).inputs = 0
         /\ Label(block, rtype, loop, merge).loop = loop
         /\ ~Label(block, rtype, loop, merge).terminated
         /\ Label(block, rtype, loop, merge).depth = 0
         /\ Label(block, rtype, loop, merge).rtype = rtype
  BY DEF Label, LabelType

(* What `block` does: the new label l, its block, and the IR.              *)
BlockOpened(l) ==
  /\ status = "running" /\ labels # <<>> /\ ~Top.terminated /\ locals' = locals /\ entry' = entry
  /\ l \in LabelType /\ l.block = NewBlock(ir) /\ l.stack = <<>> /\ l.merge = <<>> /\ l.reached = FALSE
  /\ l.inputs = 0 /\ l.loop = FALSE /\ ~l.terminated /\ l.depth = 0
  /\ ir'.into[NewBlock(ir)] = <<>> /\ Len(ir'.into) = Len(ir.into) + 1
  /\ ir'.cur = ir.cur /\ ir'.term = ir.term /\ ir'.values = ir.values /\ ir'.phis = ir.phis
  /\ ir'.hollow = ir.hollow
  /\ labels' \in Seq(LabelType) /\ Len(labels') = Len(labels) + 1 /\ labels' # <<>>
  /\ DOMAIN labels' = DOMAIN labels \cup {Len(labels) + 1} /\ Len(labels) + 1 \notin DOMAIN labels
  /\ \A t \in DOMAIN labels : labels'[t] = labels[t]
  /\ labels'[Len(labels) + 1] = l /\ labels'[Len(labels')] = l
  /\ Stays(None, Invalid) /\ Chain' /\ Frames' /\ Counted
  /\ NewBlock(ir) \in Blocks' \ Blocks /\ Blocks' = Blocks \cup {NewBlock(ir)}
  /\ Pending' = (IF l.loop THEN Pending ELSE Pending \cup {NewBlock(ir)})
  /\ PendingNew
  /\ Quiet(ir')

LEMMA BlockOpens ==
  ASSUME TrInv, NEW rtype \in BlockTypes, Block(rtype)
  PROVE  BlockOpened(Label(NewBlock(ir), rtype, FALSE, <<>>))
<1> DEFINE N == NewBlock(ir)
           l == Label(N, rtype, FALSE, <<>>)
<1>1. /\ Live /\ Consume /\ labels' = Append(labels, l) /\ ir' = CreateBlocks(ir, 1) /\ nest' = nest + 1
      /\ locals' = locals /\ entry' = entry
  BY DEF Block
<1>2. status = "running" /\ labels # <<>> /\ ~Top.terminated
  BY <1>1 DEF Live
<1>3. IsIr(ir) /\ Len(ir.into) \in Nat /\ DOMAIN ir.into = 1 .. Len(ir.into) /\ N \in Nat /\ N = Len(ir.into) + 1
      /\ ir.values \in Nat /\ rtype \in Types
  BY Parts, TranslateAssumption DEF Shape, IsIr, NewBlock, Types
<1>4. /\ l \in LabelType /\ l.block = N /\ l.stack = <<>> /\ l.merge = <<>> /\ l.reached = FALSE
      /\ l.inputs = 0 /\ l.loop = FALSE /\ ~l.terminated /\ l.depth = 0
  <2>1. <<>> \in Seq(Slot)
    OBVIOUS
  <2> DEFINE no == FALSE
             empty == <<>>
  <2>2. no \in BOOLEAN /\ empty \in Seq(Slot)
    BY <2>1
  <2> HIDE DEF no, empty
  <2> DEFINE k == Label(N, rtype, no, empty)
  <2>3. /\ k \in LabelType /\ k.block = N /\ k.stack = <<>> /\ k.merge = empty /\ k.reached = no
        /\ k.inputs = 0 /\ k.loop = no /\ ~k.terminated /\ k.depth = 0
    BY <1>3, <2>2, LabelFacts
  <2> QED
    BY <2>3 DEF no, empty
<1> HIDE DEF l
<1>5. /\ IsIr(ir') /\ Len(ir'.into) = Len(ir.into) + 1
      /\ \A b \in 1 .. Len(ir.into) : ir'.into[b] = ir.into[b]
      /\ \A b \in Len(ir.into) + 1 .. Len(ir.into) + 1 : ir'.into[b] = <<>>
      /\ ir'.cur = ir.cur /\ ir'.term = ir.term /\ ir'.values = ir.values /\ ir'.phis = ir.phis
      /\ ir'.hollow = ir.hollow
  <2> DEFINE m == CreateBlocks(ir, 1)
  <2>0. IsIr(ir) /\ 1 \in Nat
    BY <1>3
  <2>1. /\ IsIr(m) /\ Len(m.into) = Len(ir.into) + 1
        /\ \A b \in 1 .. Len(ir.into) : m.into[b] = ir.into[b]
        /\ \A b \in Len(ir.into) + 1 .. Len(ir.into) + 1 : m.into[b] = <<>>
        /\ m.cur = ir.cur /\ m.term = ir.term /\ m.values = ir.values /\ m.phis = ir.phis
        /\ m.hollow = ir.hollow
    BY <2>0, CreateBlocksFacts
  <2>2. ir' = m
    BY <1>1
  <2> HIDE DEF m
  <2> QED
    BY <2>1, <2>2
<1>6. ir'.into[N] = <<>>
  BY <1>3, <1>5
<1>7. /\ labels' \in Seq(LabelType) /\ Len(labels') = Len(labels) + 1 /\ labels' # <<>>
      /\ DOMAIN labels' = DOMAIN labels \cup {Len(labels) + 1} /\ Len(labels) + 1 \notin DOMAIN labels
      /\ \A t \in DOMAIN labels : labels'[t] = labels[t]
      /\ labels'[Len(labels) + 1] = l /\ labels'[Len(labels')] = l
      /\ Stays(None, Invalid) /\ Chain' /\ Frames' /\ Counted
      /\ N \in Blocks' \ Blocks /\ Blocks' = Blocks \cup {N}
      /\ Pending' = IF l.loop THEN Pending ELSE Pending \cup {N}
      /\ PendingNew
  BY <1>1, <1>4, <1>5, PushLabel
<1> HIDE DEF N
<1>8. Quiet(ir')
  <2>1. \A b \in Blocks : ir'.into[b] = ir.into[b]
    BY <1>3, <1>5 DEF Blocks
  <2>2. ASSUME NEW b \in DOMAIN ir'.into, NEW k \in DOMAIN ir'.into[b]
        PROVE  ir'.into[b][k].src \in DOMAIN ir'.into
    <3>1. b \in Blocks \/ b = N
      BY <1>7 DEF Blocks
    <3>2. b \in Blocks
      BY <1>6, <2>2, <3>1
    <3>3. ir.into[b][k].src \in Blocks
      BY <2>1, <2>2, <3>2, Parts DEF SourcesInv
    <3> QED
      BY <1>7, <2>1, <3>2, <3>3 DEF Blocks
  <2> QED
    BY <1>3, <1>5, <2>1, <2>2 DEF Quiet
<1>9. BlockOpened(l)
  BY <1>1, <1>2, <1>4, <1>5, <1>6, <1>7, <1>8 DEF BlockOpened, N
<1> QED
  BY <1>9 DEF l, N

LEMMA BlockStep ==
  ASSUME TrInv, NEW rtype \in BlockTypes, Block(rtype)
  PROVE  TrInv'
<1> DEFINE N == NewBlock(ir)
           l == Label(N, rtype, FALSE, <<>>)
<1>0. BlockOpened(l)
  BY BlockOpens
<1> HIDE DEF l
<1>1. locals' = locals /\ entry' = entry
  BY <1>0 DEF BlockOpened
<1>2. status = "running" /\ labels # <<>> /\ ~Top.terminated
  BY <1>0 DEF BlockOpened
<1>3. Len(ir.into) \in Nat /\ DOMAIN ir.into = 1 .. Len(ir.into) /\ N = Len(ir.into) + 1
  BY Parts DEF Shape, IsIr, NewBlock
<1>4. /\ l \in LabelType /\ l.block = N /\ l.stack = <<>> /\ l.merge = <<>> /\ l.reached = FALSE
      /\ l.inputs = 0 /\ l.loop = FALSE /\ ~l.terminated /\ l.depth = 0
  BY <1>0 DEF BlockOpened
<1>5. /\ ir'.cur = ir.cur /\ ir'.term = ir.term /\ ir'.phis = ir.phis /\ ir'.hollow = ir.hollow
      /\ Len(ir'.into) = Len(ir.into) + 1
  BY <1>0 DEF BlockOpened
<1>6. ir'.into[N] = <<>>
  BY <1>0 DEF BlockOpened
<1>7. /\ labels' \in Seq(LabelType) /\ Len(labels') = Len(labels) + 1 /\ labels' # <<>>
      /\ DOMAIN labels' = DOMAIN labels \cup {Len(labels) + 1} /\ Len(labels) + 1 \notin DOMAIN labels
      /\ \A t \in DOMAIN labels : labels'[t] = labels[t]
      /\ labels'[Len(labels) + 1] = l /\ labels'[Len(labels')] = l
      /\ Stays(None, Invalid) /\ Chain' /\ Frames' /\ Counted
      /\ N \in Blocks' \ Blocks /\ Blocks' = Blocks \cup {N}
      /\ Pending' = IF l.loop THEN Pending ELSE Pending \cup {N}
      /\ PendingNew
  BY <1>0 DEF BlockOpened
<1>8. Quiet(ir')
  BY <1>0 DEF BlockOpened
<1> HIDE DEF N
<1>9. Branches(ir', None, Invalid) /\ Hits(None, Invalid)
  BY <1>2, <1>8, QuietBranches, NoneHits, Parts
<1>10. /\ \A t \in DOMAIN labels' : StackUsable(labels'[t].stack)
       /\ \A v : Usable(v) => Usable(v)'
  BY <1>2, <1>4, <1>7, <1>9, PushStacks
<1>11. LocalsUsable
  BY <1>1, <1>2, <1>10, LocalsStay
<1>12. \A p \in DOMAIN ir'.phis : p[1] \in Blocks
  BY <1>5, Parts DEF PhisInv
<1>13. \A t \in DOMAIN labels' : t \notin DOMAIN labels => NewLabel(t)
  <2>1. ASSUME NEW t \in DOMAIN labels', t \notin DOMAIN labels PROVE NewLabel(t)
    <3>1. labels'[t] = l
      BY <1>7, <2>1
    <3>2. LabelOK(l, <<>>, ir'.phis)
      BY <1>4, <1>7, <1>12 DEF LabelOK
    <3>3. LabelOK(labels'[t], ir'.into[labels'[t].block], ir'.phis)
      BY <1>4, <1>6, <3>1, <3>2
    <3>4. labels'[t].merge = <<>>
      BY <1>4, <3>1
    <3> QED
      BY <3>3, <3>4 DEF NewLabel
  <2> QED
    BY <2>1
<1>14. OpenInv'
  <2>1. /\ ir.term \subseteq Blocks /\ ir.hollow \subseteq Blocks \ ir.term
        /\ Pending \cap (ir.term \cup ir.hollow) = {}
        /\ \A b \in Blocks \ (ir.term \cup ir.hollow \cup Pending) : b = ir.cur
        /\ ir.cur \in Blocks \ (ir.term \cup ir.hollow \cup Pending)
    BY <1>2, Parts DEF OpenInv
  <2>2. Pending' = Pending \cup {N} /\ Top' = l
    BY <1>4, <1>7 DEF Top, TopIdx
  <2>3. ir'.cur \in 0 .. Len(ir'.into)
    BY <1>3, <1>5, <2>1 DEF Blocks
  <2> QED
    BY <1>4, <1>5, <1>7, <2>1, <2>2, <2>3 DEF OpenInv
<1>15. EntryInv'
  <2>1. entry' = [b \in DOMAIN entry' |-> entry'[b]] /\ DOMAIN entry \subseteq DOMAIN entry'
        /\ (\A b \in DOMAIN entry : entry'[b] = entry[b])
        /\ (\A b \in DOMAIN entry' : b \notin DOMAIN entry => EntryFits(b))
    BY <1>1, Parts DEF EntryInv
  <2>2. \A t \in DOMAIN labels' : t \notin DOMAIN labels => ~labels'[t].loop
    BY <1>4, <1>7
  <2> QED
    BY <1>2, <1>7, <1>9, <2>1, <2>2, EntryStep
<1> QED
  BY <1>2, <1>7, <1>9, <1>10, <1>11, <1>12, <1>13, <1>14, <1>15, FrameStep

(* The phis of a loop head, from the branch that enters the loop. *)
HeadPhis(head) == [p \in {Phi(head, i) : i \in LocalIdx} |-> <<locals[p[2]]>>]

HeadSlots(head) == [i \in LocalIdx |-> LoopSlot(Phi(head, i))]

LEMMA PhiFacts ==
  ASSUME NEW b, NEW i
  PROVE  /\ Phi(b, i)[1] = b /\ Phi(b, i)[2] = i /\ Phi(b, i)[3] = 0
         /\ Phi(b, i) = NoPhi => b = 0
         /\ b \in Nat /\ i \in Nat => Phi(b, i) \in Value
  BY DEF Phi, NoPhi, Invalid, Value

LEMMA HeadFacts ==
  ASSUME Shape, status = "running", NEW head \in Nat \ {0}
  PROVE  /\ IsPhis(HeadPhis(head))
         /\ DOMAIN HeadPhis(head) = {Phi(head, i) : i \in LocalIdx}
         /\ \A i \in LocalIdx : HeadPhis(head)[Phi(head, i)] = <<locals[i]>>
         /\ HeadSlots(head) \in Seq(Slot) /\ Len(HeadSlots(head)) = Len(LocalType)
         /\ \A i \in LocalIdx : HeadSlots(head)[i].val = Invalid /\ HeadSlots(head)[i].phi = Phi(head, i)
<1>1. LocalIdx = 1 .. Len(LocalType) /\ Len(LocalType) \in Nat /\ locals \in Seq(Value) /\ DOMAIN locals = LocalIdx
  BY TranslateAssumption DEF LocalIdx, Shape
<1>2. \A i \in LocalIdx : Phi(head, i) \in Value /\ Phi(head, i)[2] = i
  BY <1>1, PhiFacts
<1> DEFINE dom == {Phi(head, i) : i \in LocalIdx}
           P == HeadPhis(head)
<1>3. DOMAIN P = dom /\ P = [p \in DOMAIN P |-> P[p]] /\ \A p \in dom : P[p] = <<locals[p[2]]>>
  BY DEF HeadPhis
<1>4. \A p \in dom : \E i \in LocalIdx : p = Phi(head, i)
  OBVIOUS
<1>5. \A i \in LocalIdx : Phi(head, i) \in dom
  OBVIOUS
<1> HIDE DEF P
<1>6. \A i \in LocalIdx : P[Phi(head, i)] = <<locals[i]>>
  BY <1>2, <1>3, <1>5
<1>7. IsPhis(P)
  <2>1. dom \subseteq Value
    BY <1>2, <1>4
  <2>2. ASSUME NEW p \in dom PROVE P[p] \in Seq(Value)
    <3>1. PICK i \in LocalIdx : p = Phi(head, i)
      BY <1>4
    <3>2. P[p] = <<locals[i]>> /\ locals[i] \in Value
      BY <1>1, <1>6, <3>1
    <3> QED
      BY <3>2
  <2> QED
    BY <1>3, <2>1, <2>2 DEF IsPhis
<1>8. /\ HeadSlots(head) \in Seq(Slot) /\ Len(HeadSlots(head)) = Len(LocalType)
      /\ \A i \in LocalIdx : HeadSlots(head)[i].val = Invalid /\ HeadSlots(head)[i].phi = Phi(head, i)
  <2>1. \A i \in LocalIdx : HeadSlots(head)[i] = [val |-> Invalid, phi |-> Phi(head, i)]
    BY DEF HeadSlots, LoopSlot
  <2>2. Invalid \in Value
    BY DEF Invalid, Value
  <2>3. HeadSlots(head) \in [1 .. Len(LocalType) -> Slot]
    BY <1>1, <1>2, <2>1, <2>2 DEF HeadSlots, LoopSlot, Slot
  <2> QED
    BY <1>1, <2>1, <2>3, SeqOfFunction
<1> QED
  BY <1>3, <1>6, <1>7, <1>8 DEF P

(* The IR when a loop opens at a new block. *)
LoopIr == WithPhis(At(Jump(CreateBlocks(ir, 1), NewBlock(ir), locals), NewBlock(ir)), HeadPhis(NewBlock(ir)))

LEMMA LoopIrFacts ==
  ASSUME TrInv, status = "running", labels # <<>>
  PROVE  /\ IsIr(LoopIr) /\ Len(LoopIr.into) = Len(ir.into) + 1
         /\ \A b \in 1 .. Len(ir.into) : LoopIr.into[b] = ir.into[b]
         /\ LoopIr.into[NewBlock(ir)] = <<Edge(ir.cur, locals)>>
         /\ LoopIr.cur = NewBlock(ir) /\ LoopIr.term = ir.term \cup {ir.cur} /\ LoopIr.values = ir.values
         /\ LoopIr.hollow = ir.hollow
         /\ DOMAIN LoopIr.phis = DOMAIN ir.phis \cup {Phi(NewBlock(ir), i) : i \in LocalIdx}
         /\ \A i \in LocalIdx : LoopIr.phis[Phi(NewBlock(ir), i)] = <<locals[i]>>
         /\ \A p \in DOMAIN ir.phis : p[1] # NewBlock(ir) => LoopIr.phis[p] = ir.phis[p]
<1> DEFINE N == NewBlock(ir)
           c == CreateBlocks(ir, 1)
           j == Jump(c, N, locals)
           a == At(j, N)
           P == HeadPhis(N)
           m == WithPhis(a, P)
<1>0. /\ Shape /\ IsIr(ir) /\ Len(ir.into) \in Nat /\ N \in Nat \ {0} /\ N = Len(ir.into) + 1
      /\ locals \in Seq(Value)
  BY Parts DEF Shape, IsIr, NewBlock
<1>1. /\ IsIr(c) /\ Len(c.into) = Len(ir.into) + 1
      /\ \A b \in 1 .. Len(ir.into) : c.into[b] = ir.into[b]
      /\ \A b \in Len(ir.into) + 1 .. Len(ir.into) + 1 : c.into[b] = <<>>
      /\ c.cur = ir.cur /\ c.term = ir.term /\ c.values = ir.values /\ c.phis = ir.phis
      /\ c.hollow = ir.hollow
  BY <1>0, CreateBlocksFacts
<1> HIDE DEF c, N
<1>2. c.into[N] = <<>> /\ N \in 1 .. Len(c.into)
  BY <1>0, <1>1
<1>3. /\ IsIr(j) /\ Len(j.into) = Len(c.into)
      /\ j.into[N] = Append(c.into[N], Edge(c.cur, locals))
      /\ \A b \in 1 .. Len(c.into) : b # N => j.into[b] = c.into[b]
      /\ j.cur = c.cur /\ j.term = c.term \cup {c.cur} /\ j.values = c.values /\ j.phis = c.phis
      /\ j.hollow = c.hollow
  <2>1. IsIr(c) /\ N \in 1 .. Len(c.into) /\ locals \in Seq(Value)
    BY <1>0, <1>1, <1>2
  <2>2. Jumped(j, c, N, locals)
    BY <2>1, JumpFacts
  <2> HIDE DEF j
  <2> QED
    BY <2>2 DEF Jumped
<1> HIDE DEF j
<1>4. /\ IsIr(a) /\ a.into = j.into /\ a.cur = N /\ a.term = j.term /\ a.values = j.values /\ a.phis = j.phis
      /\ a.hollow = j.hollow
  <2>1. IsIr(j) /\ N \in Nat
    BY <1>0, <1>3
  <2> QED
    BY <2>1, AtFacts
<1> HIDE DEF a
<1>5. /\ IsPhis(P) /\ DOMAIN P = {Phi(N, i) : i \in LocalIdx}
      /\ \A i \in LocalIdx : P[Phi(N, i)] = <<locals[i]>>
  BY <1>0, HeadFacts
<1> HIDE DEF P
<1>6. /\ IsIr(m) /\ m.into = a.into /\ m.cur = a.cur /\ m.term = a.term /\ m.values = a.values
      /\ m.hollow = a.hollow /\ DOMAIN m.phis = DOMAIN a.phis \cup DOMAIN P
      /\ \A p \in DOMAIN P : m.phis[p] = P[p]
      /\ \A p \in DOMAIN a.phis \ DOMAIN P : m.phis[p] = a.phis[p]
  BY <1>4, <1>5, WithPhisFacts
<1> HIDE DEF m
<1>7. LoopIr = m
  BY DEF LoopIr, m, P, a, j, c, N
<1>8. m.into[N] = <<Edge(ir.cur, locals)>> /\ Len(m.into) = Len(ir.into) + 1
  BY <1>1, <1>2, <1>3, <1>4, <1>6
<1>9. ASSUME NEW b \in 1 .. Len(ir.into) PROVE m.into[b] = ir.into[b]
  <2>1. b \in 1 .. Len(c.into) /\ b # N
    BY <1>0, <1>1, <1>9
  <2> QED
    BY <1>1, <1>3, <1>4, <1>6, <1>9, <2>1
<1>10. m.cur = N /\ m.term = ir.term \cup {ir.cur} /\ m.values = ir.values /\ m.hollow = ir.hollow
  BY <1>1, <1>3, <1>4, <1>6
<1>11. a.phis = ir.phis
  BY <1>1, <1>3, <1>4
<1>12. DOMAIN m.phis = DOMAIN ir.phis \cup {Phi(N, i) : i \in LocalIdx}
  BY <1>5, <1>6, <1>11
<1>13. \A i \in LocalIdx : m.phis[Phi(N, i)] = <<locals[i]>>
  BY <1>5, <1>6
<1>14. ASSUME NEW p \in DOMAIN ir.phis, p[1] # N PROVE m.phis[p] = ir.phis[p]
  <2>1. p \notin DOMAIN P
    BY <1>5, <1>14, PhiFacts
  <2> QED
    BY <1>6, <1>11, <1>14, <2>1
<1>15. IsIr(m)
  BY <1>6
<1> HIDE DEF N
<1> QED
  BY <1>7, <1>8, <1>9, <1>10, <1>12, <1>13, <1>14, <1>15 DEF N

(* What `loop` does: the new label l, its block, and the IR.               *)
LoopOpened(l) ==
  /\ status = "running" /\ labels # <<>> /\ ~Top.terminated
  /\ entry' = [b \in DOMAIN entry \cup {NewBlock(ir)} |-> IF b = NewBlock(ir) THEN locals' ELSE entry[b]]
  /\ locals' = [i \in LocalIdx |-> Phi(NewBlock(ir), i)]
  /\ l.merge \in Seq(Slot) /\ Len(l.merge) = Len(LocalType)
  /\ \A i \in LocalIdx : l.merge[i].val = Invalid /\ l.merge[i].phi = Phi(NewBlock(ir), i)
  /\ l \in LabelType /\ l.block = NewBlock(ir) /\ l.stack = <<>> /\ l.reached = TRUE
  /\ l.inputs = 0 /\ l.loop = TRUE /\ ~l.terminated /\ l.depth = 0
  /\ IsIr(ir') /\ Len(ir'.into) = Len(ir.into) + 1
  /\ \A b \in 1 .. Len(ir.into) : ir'.into[b] = ir.into[b]
  /\ ir'.into[NewBlock(ir)] = <<Edge(ir.cur, locals)>>
  /\ ir'.cur = NewBlock(ir) /\ ir'.term = ir.term \cup {ir.cur} /\ ir'.hollow = ir.hollow
  /\ DOMAIN ir'.phis = DOMAIN ir.phis \cup {Phi(NewBlock(ir), i) : i \in LocalIdx}
  /\ \A i \in LocalIdx : ir'.phis[Phi(NewBlock(ir), i)] = <<locals[i]>>
  /\ labels' \in Seq(LabelType) /\ Len(labels') = Len(labels) + 1 /\ labels' # <<>>
  /\ DOMAIN labels' = DOMAIN labels \cup {Len(labels) + 1} /\ Len(labels) + 1 \notin DOMAIN labels
  /\ \A t \in DOMAIN labels : labels'[t] = labels[t]
  /\ labels'[Len(labels) + 1] = l /\ labels'[Len(labels')] = l
  /\ Stays(None, Invalid) /\ Chain' /\ Frames' /\ Counted
  /\ NewBlock(ir) \in Blocks' \ Blocks /\ Blocks' = Blocks \cup {NewBlock(ir)}
  /\ PendingNew
  /\ Pending' = Pending /\ Pending \subseteq Blocks /\ NewBlock(ir) \notin Pending'
  /\ \A i \in LocalIdx : /\ Phi(NewBlock(ir), i) \in Value
                           /\ Phi(NewBlock(ir), i)[1] = NewBlock(ir) /\ Phi(NewBlock(ir), i)[2] = i
                           /\ Phi(NewBlock(ir), i) # NoPhi /\ Phi(NewBlock(ir), i) \in DOMAIN ir'.phis
  /\ \A p \in DOMAIN ir.phis : p[1] \in Blocks /\ p[1] # NewBlock(ir)
  /\ \A p \in DOMAIN ir'.phis : p \notin DOMAIN ir.phis => \E i \in LocalIdx : p = Phi(NewBlock(ir), i)
  /\ Branches(ir', None, Invalid) /\ Hits(None, Invalid)
  /\ locals' \in Seq(Value) /\ Len(locals') = Len(LocalType) /\ DOMAIN locals' = LocalIdx
  /\ \A i \in LocalIdx : locals'[i] = Phi(NewBlock(ir), i)

LEMMA LoopOpens ==
  ASSUME TrInv, NEW rtype \in BlockTypes, Loop(rtype)
  PROVE  LoopOpened(Label(NewBlock(ir), rtype, TRUE, HeadSlots(NewBlock(ir))))
<1> DEFINE N == NewBlock(ir)
           slots == HeadSlots(N)
           l == Label(N, rtype, TRUE, slots)
<1>1. /\ Live /\ Consume /\ labels' = Append(labels, l) /\ ir' = LoopIr /\ nest' = nest + 1
      /\ locals' = [i \in LocalIdx |-> Phi(N, i)]
      /\ entry' = [b \in DOMAIN entry \cup {N} |-> IF b = N THEN locals' ELSE entry[b]]
  BY DEF Loop, LoopIr, HeadPhis, HeadSlots
<1>2. status = "running" /\ labels # <<>> /\ ~Top.terminated
  BY <1>1 DEF Live
<1>3. /\ IsIr(ir) /\ Len(ir.into) \in Nat /\ DOMAIN ir.into = 1 .. Len(ir.into)
      /\ N \in Nat \ {0} /\ N = Len(ir.into) + 1 /\ ir.values \in Nat /\ rtype \in Types
  BY Parts, TranslateAssumption DEF Shape, IsIr, NewBlock, Types
<1>4. /\ slots \in Seq(Slot) /\ Len(slots) = Len(LocalType)
      /\ \A i \in LocalIdx : slots[i].val = Invalid /\ slots[i].phi = Phi(N, i)
  BY <1>2, <1>3, HeadFacts, Parts
<1>5. LocalIdx = 1 .. Len(LocalType) /\ Len(LocalType) \in Nat
      /\ locals \in Seq(Value) /\ DOMAIN locals = LocalIdx
  BY <1>2, TranslateAssumption, Parts DEF LocalIdx, Shape
<1> HIDE DEF slots
<1>6. /\ l \in LabelType /\ l.block = N /\ l.stack = <<>> /\ l.merge = slots /\ l.reached = TRUE
      /\ l.inputs = 0 /\ l.loop = TRUE /\ ~l.terminated /\ l.depth = 0
  <2> DEFINE yes == TRUE
  <2>1. yes \in BOOLEAN
    OBVIOUS
  <2> HIDE DEF yes
  <2> DEFINE k == Label(N, rtype, yes, slots)
  <2>2. /\ k \in LabelType /\ k.block = N /\ k.stack = <<>> /\ k.merge = slots /\ k.reached = yes
        /\ k.inputs = 0 /\ k.loop = yes /\ ~k.terminated /\ k.depth = 0
    BY <1>3, <1>4, <2>1, LabelFacts
  <2> QED
    BY <2>2 DEF yes
<1> HIDE DEF l
<1>7. /\ IsIr(ir') /\ Len(ir'.into) = Len(ir.into) + 1
      /\ \A b \in 1 .. Len(ir.into) : ir'.into[b] = ir.into[b]
      /\ ir'.into[N] = <<Edge(ir.cur, locals)>>
      /\ ir'.cur = N /\ ir'.term = ir.term \cup {ir.cur} /\ ir'.values = ir.values /\ ir'.hollow = ir.hollow
      /\ DOMAIN ir'.phis = DOMAIN ir.phis \cup {Phi(N, i) : i \in LocalIdx}
      /\ \A i \in LocalIdx : ir'.phis[Phi(N, i)] = <<locals[i]>>
      /\ \A p \in DOMAIN ir.phis : p[1] # N => ir'.phis[p] = ir.phis[p]
  BY <1>1, <1>2, LoopIrFacts
<1>8. /\ labels' \in Seq(LabelType) /\ Len(labels') = Len(labels) + 1 /\ labels' # <<>>
      /\ DOMAIN labels' = DOMAIN labels \cup {Len(labels) + 1} /\ Len(labels) + 1 \notin DOMAIN labels
      /\ \A t \in DOMAIN labels : labels'[t] = labels[t]
      /\ labels'[Len(labels) + 1] = l /\ labels'[Len(labels')] = l
      /\ Stays(None, Invalid) /\ Chain' /\ Frames' /\ Counted
      /\ N \in Blocks' \ Blocks /\ Blocks' = Blocks \cup {N}
      /\ Pending' = IF l.loop THEN Pending ELSE Pending \cup {N}
      /\ PendingNew
  BY <1>1, <1>6, <1>7, PushLabel
<1>9. Pending' = Pending /\ Pending \subseteq Blocks /\ N \notin Pending'
  BY <1>6, <1>8, PendingBlocks, Parts
<1>10. \A i \in LocalIdx : /\ Phi(N, i) \in Value /\ Phi(N, i)[1] = N /\ Phi(N, i)[2] = i
                           /\ Phi(N, i) # NoPhi /\ Phi(N, i) \in DOMAIN ir'.phis
  BY <1>3, <1>5, <1>7, PhiFacts
<1>11. \A p \in DOMAIN ir.phis : p[1] \in Blocks /\ p[1] # N
  BY <1>8, Parts DEF PhisInv
<1>12. \A p \in DOMAIN ir'.phis : p \notin DOMAIN ir.phis => \E i \in LocalIdx : p = Phi(N, i)
  BY <1>7
<1> HIDE DEF N
<1>13. Branches(ir', None, Invalid) /\ Hits(None, Invalid)
  <2>1. Hits(None, Invalid) /\ DOMAIN PreparedPhis(None, Invalid) = {} /\ \A t \in DOMAIN labels : None[t] = 0
    BY <1>2, NoneHits, Parts DEF None
  <2>2. \A b \in Blocks : ir'.into[b] = ir.into[b]
    BY <1>3, <1>7 DEF Blocks
  <2>3. ASSUME NEW b \in DOMAIN ir'.into, NEW k \in DOMAIN ir'.into[b]
        PROVE  ir'.into[b][k].src \in DOMAIN ir'.into
    <3>1. CASE b \in Blocks
      <4>1. ir.into[b][k].src \in Blocks
        BY <2>2, <2>3, <3>1, Parts DEF SourcesInv
      <4> QED
        BY <1>8, <2>2, <3>1, <4>1 DEF Blocks
    <3>2. CASE b = N
      <4>1. ir.cur \in Blocks
        BY <1>2, Parts DEF OpenInv
      <4>2. k = 1 /\ ir'.into[b][k] = Edge(ir.cur, locals)
        BY <1>7, <2>3, <3>2
      <4> QED
        BY <1>8, <4>1, <4>2 DEF Edge, Blocks
    <3> QED
      BY <1>8, <3>1, <3>2 DEF Blocks
  <2>4. ASSUME NEW t \in DOMAIN labels, t > 1
        PROVE  Extends(ir.into[labels[t].block], ir'.into[labels[t].block], None[t], Carried(t, Invalid))
    <3>1. labels[t].block \in Blocks
      BY <2>4, BlockFacts, Parts
    <3>2. ir'.into[labels[t].block] = ir.into[labels[t].block]
      BY <2>2, <3>1
    <3>3. ir.into[labels[t].block] \in Seq(BranchType)
      BY <1>3, <3>1 DEF Blocks, IsIr
    <3> QED
      BY <2>1, <3>2, <3>3 DEF Extends
  <2>5. \A p \in DOMAIN ir'.phis : p[1] \in Blocks => p \in DOMAIN ir.phis
    BY <1>8, <1>10, <1>12
  <2>6. \A p \in DOMAIN ir.phis : ir'.phis[p] = ir.phis[p]
    BY <1>7, <1>11
  <2> QED
    BY <1>3, <1>7, <2>1, <2>2, <2>3, <2>4, <2>5, <2>6 DEF Branches
<1>14. locals' \in Seq(Value) /\ Len(locals') = Len(LocalType) /\ DOMAIN locals' = LocalIdx
       /\ \A i \in LocalIdx : locals'[i] = Phi(N, i)
  <2>1. locals' \in [1 .. Len(LocalType) -> Value]
    BY <1>1, <1>5, <1>10
  <2>2. \A i \in LocalIdx : locals'[i] = Phi(N, i)
    BY <1>1
  <2> QED
    BY <1>5, <2>1, <2>2, SeqOfFunction
<1>15. LoopOpened(l)
  BY <1>1, <1>2, <1>4, <1>6, <1>7, <1>8, <1>9, <1>10, <1>11, <1>12, <1>13, <1>14 DEF LoopOpened, N
<1> QED
  BY <1>15 DEF l, slots, N

LEMMA LoopStep ==
  ASSUME TrInv, NEW rtype \in BlockTypes, Loop(rtype)
  PROVE  TrInv'
<1> DEFINE N == NewBlock(ir)
           l == Label(N, rtype, TRUE, HeadSlots(N))
           slots == l.merge
<1>0. LoopOpened(l)
  BY LoopOpens
<1> HIDE DEF l
<1>1. /\ entry' = [b \in DOMAIN entry \cup {N} |-> IF b = N THEN locals' ELSE entry[b]]
      /\ locals' = [i \in LocalIdx |-> Phi(N, i)]
  BY <1>0 DEF LoopOpened
<1>2. status = "running" /\ labels # <<>> /\ ~Top.terminated
  BY <1>0 DEF LoopOpened
<1>4. /\ slots \in Seq(Slot) /\ Len(slots) = Len(LocalType)
      /\ \A i \in LocalIdx : slots[i].val = Invalid /\ slots[i].phi = Phi(N, i)
  BY <1>0 DEF LoopOpened
<1>5. LocalIdx = 1 .. Len(LocalType) /\ Len(LocalType) \in Nat
      /\ locals \in Seq(Value) /\ DOMAIN locals = LocalIdx
  BY <1>2, TranslateAssumption, Parts DEF LocalIdx, Shape
<1>6. /\ l \in LabelType /\ l.block = N /\ l.stack = <<>> /\ l.merge = slots /\ l.reached = TRUE
      /\ l.inputs = 0 /\ l.loop = TRUE /\ ~l.terminated /\ l.depth = 0
  BY <1>0 DEF LoopOpened
<1>7. /\ IsIr(ir') /\ Len(ir'.into) = Len(ir.into) + 1
      /\ ir'.into[N] = <<Edge(ir.cur, locals)>>
      /\ ir'.cur = N /\ ir'.term = ir.term \cup {ir.cur} /\ ir'.hollow = ir.hollow
      /\ DOMAIN ir'.phis = DOMAIN ir.phis \cup {Phi(N, i) : i \in LocalIdx}
      /\ \A i \in LocalIdx : ir'.phis[Phi(N, i)] = <<locals[i]>>
  BY <1>0 DEF LoopOpened
<1>8. /\ labels' \in Seq(LabelType) /\ Len(labels') = Len(labels) + 1 /\ labels' # <<>>
      /\ DOMAIN labels' = DOMAIN labels \cup {Len(labels) + 1} /\ Len(labels) + 1 \notin DOMAIN labels
      /\ \A t \in DOMAIN labels : labels'[t] = labels[t]
      /\ labels'[Len(labels) + 1] = l /\ labels'[Len(labels')] = l
      /\ Stays(None, Invalid) /\ Chain' /\ Frames' /\ Counted
      /\ N \in Blocks' \ Blocks /\ Blocks' = Blocks \cup {N}
      /\ PendingNew
  BY <1>0 DEF LoopOpened
<1>9. Pending' = Pending /\ Pending \subseteq Blocks /\ N \notin Pending'
  BY <1>0 DEF LoopOpened
<1>10. \A i \in LocalIdx : /\ Phi(N, i) \in Value /\ Phi(N, i)[1] = N /\ Phi(N, i)[2] = i
                           /\ Phi(N, i) # NoPhi /\ Phi(N, i) \in DOMAIN ir'.phis
  BY <1>0 DEF LoopOpened
<1>11. \A p \in DOMAIN ir.phis : p[1] \in Blocks /\ p[1] # N
  BY <1>0 DEF LoopOpened
<1>12. \A p \in DOMAIN ir'.phis : p \notin DOMAIN ir.phis => \E i \in LocalIdx : p = Phi(N, i)
  BY <1>0 DEF LoopOpened
<1>13. Branches(ir', None, Invalid) /\ Hits(None, Invalid)
  BY <1>0 DEF LoopOpened
<1>14. /\ \A t \in DOMAIN labels' : StackUsable(labels'[t].stack)
       /\ \A v : Usable(v) => Usable(v)'
  BY <1>2, <1>6, <1>8, <1>13, PushStacks
<1>15. locals' \in Seq(Value) /\ Len(locals') = Len(LocalType) /\ DOMAIN locals' = LocalIdx
       /\ \A i \in LocalIdx : locals'[i] = Phi(N, i)
  BY <1>0 DEF LoopOpened
<1> HIDE DEF N, slots
<1>16. LocalsUsable
  <2>1. ASSUME NEW i \in LocalIdx, NEW v, v = Phi(N, i) PROVE Usable(v)'
    BY <1>5, <1>8, <1>9, <1>10, <2>1 DEF Usable, IsValue, DefinedIn
  <2> QED
    BY <1>15, <2>1 DEF LocalsUsable
<1>17. \A p \in DOMAIN ir'.phis : p[1] \notin Blocks =>
         p[1] \in Blocks' /\ p[2] > 0 /\ Len(ir'.phis[p]) = Len(ir'.into[p[1]])
  <2>1. ASSUME NEW p \in DOMAIN ir'.phis, p[1] \notin Blocks
        PROVE  p[1] \in Blocks' /\ p[2] > 0 /\ Len(ir'.phis[p]) = Len(ir'.into[p[1]])
    <3>1. PICK i \in LocalIdx : p = Phi(N, i)
      BY <1>11, <1>12, <2>1
    <3>2. ir'.phis[p] = <<locals[i]>> /\ p[1] = N /\ p[2] = i
      BY <1>7, <1>10, <3>1
    <3>3. p[1] \in Blocks' /\ p[2] > 0
      BY <1>5, <1>8, <3>2
    <3>4. Len(ir'.phis[p]) = 1 /\ Len(ir'.into[p[1]]) = 1
      <4>1. ir'.into[p[1]] = <<Edge(ir.cur, locals)>>
        <5>1. ir'.into[N] = <<Edge(ir.cur, locals)>>
          BY <1>7
        <5> QED
          BY <3>2, <5>1
      <4>2. ir'.phis[p] = <<locals[i]>>
        BY <3>2
      <4> QED
        BY <4>1, <4>2
    <3> QED
      BY <3>3, <3>4
  <2> QED
    BY <2>1
<1>18. LabelOK(l, <<Edge(ir.cur, locals)>>, ir'.phis)
  <2> DEFINE E == <<Edge(ir.cur, locals)>>
  <2>1. Len(E) = 1 /\ DOMAIN E = {1} /\ E[1].vals = locals
    BY DEF Edge
  <2> HIDE DEF E
  <2>2. DOMAIN l.merge = LocalIdx /\ Len(l.merge) = Len(LocalType)
    BY <1>4, <1>5, <1>6
  <2>3. ~MergesResult(l)
    BY <1>6 DEF MergesResult
  <2>4. ASSUME NEW p \in DOMAIN ir'.phis, p[1] = l.block
        PROVE  p[2] \in DOMAIN l.merge /\ p = Phi(l.block, p[2]) /\ l.merge[p[2]].phi = p
    <3>1. PICK i \in LocalIdx : p = Phi(N, i)
      BY <1>6, <1>11, <1>12, <2>4
    <3> QED
      BY <1>4, <1>6, <1>10, <2>2, <3>1
  <2>5. ASSUME NEW i \in DOMAIN l.merge PROVE SlotOK(l, E, ir'.phis, i)
    <3>1. i \in LocalIdx /\ l.merge[i].val = Invalid /\ l.merge[i].phi = Phi(N, i) /\ l.block = N
      BY <1>4, <1>6, <2>2, <2>5
    <3>2. Phi(N, i) # NoPhi /\ Phi(N, i) \in DOMAIN ir'.phis /\ ir'.phis[Phi(N, i)] = <<locals[i]>>
      BY <1>7, <1>10, <3>1
    <3>3. \A k \in DOMAIN E : ir'.phis[Phi(N, i)][k] = E[k].vals[i]
      BY <2>1, <3>2
    <3> QED
      BY <1>6, <3>1, <3>2, <3>3 DEF SlotOK
  <2>6. LabelOK(l, E, ir'.phis)
    BY <1>5, <1>6, <2>1, <2>2, <2>3, <2>4, <2>5 DEF LabelOK
  <2> QED
    BY <2>6 DEF E
<1>19. \A t \in DOMAIN labels' : t \notin DOMAIN labels => NewLabel(t)
  <2>1. ASSUME NEW t \in DOMAIN labels', t \notin DOMAIN labels PROVE NewLabel(t)
    <3>1. labels'[t] = l
      BY <1>8, <2>1
    <3>2. LabelOK(labels'[t], ir'.into[labels'[t].block], ir'.phis)
      BY <1>6, <1>7, <1>18, <3>1
    <3>3. \A i \in DOMAIN l.merge : l.merge[i].phi # NoPhi
      BY <1>4, <1>5, <1>6, <1>10
    <3> QED
      BY <3>1, <3>2, <3>3 DEF NewLabel
  <2> QED
    BY <2>1
<1>20. OpenInv'
  <2>1. CursorMoves(FALSE)
    <3>1. /\ ir.term \subseteq Blocks /\ ir.hollow \subseteq Blocks \ ir.term
          /\ ir.cur \in Blocks \ (ir.term \cup ir.hollow \cup Pending)
      BY <1>2, Parts DEF OpenInv
    <3> QED
      BY <1>7, <1>8, <3>1 DEF CursorMoves
  <2>2. labels'[Len(labels')].terminated = FALSE
    <3>1. l.terminated \in BOOLEAN
      BY <1>6, LabelTyped
    <3> QED
      BY <1>6, <1>8, <3>1
  <2> QED
    BY <1>2, <1>8, <1>9, <1>13, <2>1, <2>2, OpenStep, Parts
<1>21. EntryInv'
  <2>1. DOMAIN entry' = DOMAIN entry \cup {N} /\ entry' = [b \in DOMAIN entry' |-> entry'[b]]
    BY <1>1
  <2>2. N \notin DOMAIN entry
    BY <1>8, Parts DEF EntryInv
  <2>3. entry'[N] = locals' /\ \A b \in DOMAIN entry : entry'[b] = entry[b]
    BY <1>1, <2>2
  <2>4. EntryFits(N)
    <3>1. N \in Blocks' \ Pending'
      BY <1>8, <1>9
    <3>2. ASSUME NEW k \in DOMAIN ir'.into[N], NEW i \in DOMAIN entry'[N]
          PROVE  (IF entry'[N][i] \in DOMAIN ir'.phis /\ DefinedIn(entry'[N][i]) = N
                  THEN ir'.phis[entry'[N][i]][k] ELSE entry'[N][i]) = ir'.into[N][k].vals[i]
      <4>1. k = 1 /\ ir'.into[N][k].vals = locals
        BY <1>7, <3>2 DEF Edge
      <4>2. i \in LocalIdx /\ entry'[N][i] = Phi(N, i)
        BY <1>15, <2>3, <3>2
      <4>3. ir'.phis[Phi(N, i)] = <<locals[i]>> /\ Phi(N, i) \in DOMAIN ir'.phis /\ DefinedIn(Phi(N, i)) = N
        BY <1>7, <1>10, <4>2 DEF DefinedIn
      <4> QED
        BY <4>1, <4>2, <4>3
    <3> QED
      BY <3>1, <3>2 DEF EntryFits
  <2>5. \A b \in DOMAIN entry' : b \notin DOMAIN entry => EntryFits(b)
    BY <2>1, <2>4
  <2>6. entry'[N] = [i \in LocalIdx |-> Phi(N, i)]
    BY <1>1, <2>3
  <2>7. \A t \in DOMAIN labels' : t \notin DOMAIN labels /\ labels'[t].loop =>
          /\ labels'[t].block \in DOMAIN entry'
          /\ entry'[labels'[t].block] = [i \in LocalIdx |-> Phi(labels'[t].block, i)]
    BY <1>6, <1>8, <2>1, <2>6
  <2>8. DOMAIN entry \subseteq DOMAIN entry'
    BY <2>1
  <2> QED
    BY <1>2, <1>8, <1>13, <2>1, <2>3, <2>5, <2>7, <2>8, EntryStep
<1> QED
  BY <1>2, <1>8, <1>13, <1>14, <1>16, <1>17, <1>19, <1>20, <1>21, FrameStep

-----------------------------------------------------------------------------
(* The end of a frame.                                                     *)

(* The labels without the innermost, the next one with this stack. *)
OuterLike(ls, s, dead) ==
  /\ ls \in Seq(LabelType)
  /\ Len(ls) = Len(labels) - 1
  /\ \A t \in 1 .. Len(labels) - 1 : SameMerge(ls[t], labels[t]) /\ ls[t].depth = 0
  /\ \A t \in 1 .. Len(labels) - 2 : ls[t] = labels[t]
  /\ ls[Len(labels) - 1].stack = s
  /\ ls[Len(labels) - 1].terminated = dead

LEMMA OuterFacts ==
  ASSUME TrInv, status = "running", TopIdx > 1
  PROVE  /\ OuterLike(Outer, labels[TopIdx - 1].stack, FALSE)
         /\ labels # <<>> /\ Len(labels) - 1 \in 1 .. Len(labels) /\ Len(labels) \in Nat
         /\ labels[TopIdx - 1].stack \in Seq(Operands)
         /\ \A j \in DOMAIN labels[TopIdx - 1].stack : Usable(labels[TopIdx - 1].stack[j].val)
<1>1. labels \in Seq(LabelType) /\ Len(labels) \in Nat /\ Len(labels) > 1 /\ DOMAIN labels = 1 .. Len(labels)
      /\ TopIdx = Len(labels)
  BY Parts DEF Shape, TopIdx
<1>2. Outer = SubSeq(labels, 1, Len(labels) - 1) /\ Len(labels) - 1 \in 0 .. Len(labels)
  BY <1>1 DEF Outer, Front
<1>3. /\ Outer \in Seq(LabelType) /\ Len(Outer) = Len(labels) - 1
      /\ \A t \in 1 .. Len(labels) - 1 : Outer[t] = labels[t]
  <2> DEFINE n == Len(labels) - 1
  <2>1. n \in 0 .. Len(labels) /\ Outer = SubSeq(labels, 1, n)
    BY <1>2
  <2> HIDE DEF n
  <2>2. Outer \in Seq(LabelType) /\ Len(Outer) = n /\ \A t \in 1 .. n : Outer[t] = labels[t]
    BY <1>1, <2>1, SeqPrefix
  <2> QED
    BY <2>2 DEF n
<1>4. ASSUME NEW t \in 1 .. Len(labels) - 1
      PROVE  t \in DOMAIN labels /\ labels[t].terminated = FALSE /\ labels[t].depth = 0
  <2>1. t \in DOMAIN labels /\ t < Len(labels)
    BY <1>1
  <2>2. labels[t].terminated \in BOOLEAN
    BY <2>1, LabelsTyped, LabelTyped, Parts
  <2> QED
    BY <2>1, <2>2, Parts DEF Chain, ChainOK
<1>5. \A t \in 1 .. Len(labels) - 1 : SameMerge(Outer[t], labels[t]) /\ Outer[t].depth = 0
  BY <1>3, <1>4 DEF SameMerge
<1>6. Len(labels) - 1 \in 1 .. Len(labels) - 1 /\ \A t \in 1 .. Len(labels) - 2 : t \in 1 .. Len(labels) - 1
  BY <1>1
<1>7. OuterLike(Outer, labels[TopIdx - 1].stack, FALSE)
  BY <1>1, <1>3, <1>4, <1>5, <1>6 DEF OuterLike
<1>8. TopIdx - 1 \in DOMAIN labels
  BY <1>1
<1>9. labels[TopIdx - 1].stack \in Seq(Operands)
  BY <1>8, LabelsTyped, LabelTyped, Parts DEF Operands
<1>10. \A j \in DOMAIN labels[TopIdx - 1].stack : Usable(labels[TopIdx - 1].stack[j].val)
  BY <1>8, Parts DEF ValuesInv
<1>11. labels # <<>> /\ Len(labels) - 1 \in 1 .. Len(labels) /\ Len(labels) \in Nat
  BY <1>1
<1> QED
  BY <1>7, <1>9, <1>10, <1>11

LEMMA OuterReplace ==
  ASSUME TrInv, status = "running", TopIdx > 1, NEW ls, NEW s, NEW dead, OuterLike(ls, s, dead),
         NEW l \in LabelType, SameMerge(l, ls[Len(labels) - 1]), l.depth = 0
  PROVE  OuterLike(Replace(ls, Len(labels) - 1, l), l.stack, l.terminated)
<1> DEFINE n == Len(labels) - 1
           r == Replace(ls, n, l)
<1>1. /\ ls \in Seq(LabelType) /\ Len(ls) = n /\ Len(labels) \in Nat /\ n \in Nat /\ n > 0
      /\ \A t \in 1 .. n : SameMerge(ls[t], labels[t]) /\ ls[t].depth = 0
      /\ \A t \in 1 .. Len(labels) - 2 : ls[t] = labels[t]
  <2>1. Len(labels) \in Nat /\ Len(labels) > 1
    BY Parts DEF Shape, TopIdx
  <2>2. n \in Nat /\ n > 0
    BY ONLY <2>1
  <2> QED
    BY ONLY OuterLike(ls, s, dead), <2>1, <2>2 DEF OuterLike
<1>2. Len(labels) - 2 = n - 1
  BY <1>1
<1> HIDE DEF n
<1>3. n \in DOMAIN ls
  BY <1>1
<1>4. /\ r \in Seq(LabelType) /\ Len(r) = Len(ls) /\ r[n] = l
      /\ \A t \in DOMAIN ls : t # n => r[t] = ls[t]
  BY <1>1, <1>3, SeqExcept DEF Replace
<1> HIDE DEF r
<1>5. SameMerge(l, ls[n])
  BY DEF n
<1>6. ASSUME NEW t \in 1 .. n PROVE SameMerge(r[t], labels[t]) /\ r[t].depth = 0
  <2>1. t \in DOMAIN ls
    BY <1>1
  <2>2. CASE t = n
    BY <1>1, <1>4, <1>5, <2>2 DEF SameMerge
  <2>3. CASE t # n
    BY <1>1, <1>4, <2>1, <2>3
  <2> QED
    BY <2>2, <2>3
<1>7. ASSUME NEW t \in 1 .. Len(labels) - 2 PROVE r[t] = labels[t]
  <2>1. t \in DOMAIN ls /\ t # n
    BY <1>1, <1>2
  <2> QED
    BY <1>1, <1>4, <2>1
<1>8. OuterLike(r, l.stack, l.terminated)
  BY <1>1, <1>4, <1>6, <1>7 DEF OuterLike, n
<1> QED
  BY <1>8 DEF r, n

LEMMA OuterClosedFacts ==
  ASSUME TrInv, status = "running", TopIdx > 1
  PROVE  OuterLike(OuterClosed, labels[TopIdx - 1].stack, TRUE)
<1> DEFINE o == Outer[Len(labels) - 1]
<1>1. /\ OuterLike(Outer, labels[TopIdx - 1].stack, FALSE) /\ Len(labels) - 1 \in 1 .. Len(labels)
      /\ Len(labels) \in Nat /\ TopIdx = Len(labels)
  BY OuterFacts DEF TopIdx
<1>2. Len(Outer) = Len(labels) - 1 /\ Outer \in Seq(LabelType) /\ Len(labels) - 1 \in DOMAIN Outer
  BY <1>1 DEF OuterLike
<1>3. o \in LabelType /\ o.stack = labels[TopIdx - 1].stack /\ o.depth = 0
  BY <1>1, <1>2 DEF OuterLike
<1>4. OuterClosed = Replace(Outer, Len(labels) - 1, WithDead(o))
  BY <1>1, <1>2 DEF OuterClosed, Replace, WithDead
<1>5. /\ WithDead(o) \in LabelType /\ SameMerge(WithDead(o), o) /\ WithDead(o).stack = o.stack
      /\ WithDead(o).terminated = TRUE /\ WithDead(o).depth = o.depth
  <2>1. /\ WithDead(o) \in LabelType /\ SameMerge(WithDead(o), o) /\ WithDead(o).stack = o.stack
        /\ WithDead(o).terminated /\ WithDead(o).depth = o.depth
    <3>1. 0 \in Nat
      OBVIOUS
    <3> QED
      BY <1>3, <3>1, EmptyStack, WithFacts
  <2>2. WithDead(o).terminated \in BOOLEAN
    BY <2>1, LabelTyped
  <2> QED
    BY <2>1, <2>2
<1>6. OuterLike(Replace(Outer, Len(labels) - 1, WithDead(o)), WithDead(o).stack, WithDead(o).terminated)
  BY <1>1, <1>3, <1>5, OuterReplace
<1> QED
  BY <1>3, <1>4, <1>5, <1>6

(* The stack after a frame with this result type and value. *)
WithResult(s, rtype, v) == IF rtype = NoType THEN s ELSE Append(s, [val |-> v, type |-> rtype])

(* The frame around goes on with the result of the one that ended. *)
GoesOn(rtype, v) ==
  LET s == WithResult(labels[TopIdx - 1].stack, rtype, v) IN
  /\ OuterLike(OuterWith(rtype, v), s, FALSE)
  /\ \A j \in DOMAIN s : Usable(s[j].val) \/ (rtype # NoType /\ s[j].val = v)

LEMMA OuterWithGoesOn ==
  ASSUME TrInv, status = "running", TopIdx > 1, NEW rtype \in Types, NEW v, rtype # NoType => v \in Value
  PROVE  GoesOn(rtype, v)
<1> DEFINE o == Outer[Len(labels) - 1]
           s == labels[TopIdx - 1].stack
           x == [val |-> v, type |-> rtype]
<1>1. /\ OuterLike(Outer, s, FALSE) /\ Len(labels) - 1 \in 1 .. Len(labels)
      /\ Len(labels) \in Nat /\ TopIdx = Len(labels) /\ s \in Seq(Operands)
      /\ \A j \in DOMAIN s : Usable(s[j].val)
  BY OuterFacts DEF TopIdx
<1>2. Len(Outer) = Len(labels) - 1 /\ Outer \in Seq(LabelType) /\ Len(labels) - 1 \in DOMAIN Outer
  BY <1>1 DEF OuterLike
<1>3. o \in LabelType /\ o.stack = s /\ o.depth = 0 /\ o.terminated = FALSE
  BY <1>1, <1>2 DEF OuterLike
<1>4. CASE rtype = NoType
  BY <1>1, <1>4 DEF OuterWith, WithResult, GoesOn
<1>5. CASE rtype # NoType
  <2>1. x \in Operands /\ x.val = v
    BY <1>5 DEF Operands
  <2>2. OuterWith(rtype, v) = [Outer EXCEPT ![Len(labels) - 1].stack = Append(@, x)]
    BY <1>1, <1>5 DEF OuterWith
  <2>3. WithResult(s, rtype, v) = Append(s, x)
    BY <1>5 DEF WithResult
  <2> HIDE DEF x, s
  <2> DEFINE a == Append(s, x)
  <2>4. a \in Seq(Operands) /\ Len(a) = Len(s) + 1 /\ a[Len(s) + 1] = x /\ \A k \in 1 .. Len(s) : a[k] = s[k]
    BY <1>1, <2>1, SeqAppend
  <2>5. OuterWith(rtype, v) = Replace(Outer, Len(labels) - 1, WithStack(o, a))
    BY <1>2, <1>3, <2>2 DEF Replace, WithStack
  <2> HIDE DEF a, o
  <2>6. /\ WithStack(o, a) \in LabelType /\ SameMerge(WithStack(o, a), o) /\ WithStack(o, a).stack = a
        /\ WithStack(o, a).terminated = o.terminated /\ WithStack(o, a).depth = o.depth
    <3>1. o \in LabelType /\ a \in Seq(Operands) /\ 0 \in Nat
      BY <1>3, <2>4
    <3> QED
      BY <3>1, WithFacts
  <2>7. OuterLike(Replace(Outer, Len(labels) - 1, WithStack(o, a)), WithStack(o, a).stack, WithStack(o, a).terminated)
    <3> DEFINE l == WithStack(o, a)
    <3>1. l \in LabelType /\ SameMerge(l, Outer[Len(labels) - 1]) /\ l.depth = 0
      BY <1>3, <2>6 DEF o
    <3> HIDE DEF l
    <3>2. OuterLike(Replace(Outer, Len(labels) - 1, l), l.stack, l.terminated)
      BY <1>1, <3>1, OuterReplace
    <3> QED
      BY <3>2 DEF l
  <2>8. \A j \in DOMAIN a : Usable(a[j].val) \/ a[j].val = v
    BY <1>1, <2>1, <2>4
  <2> QED
  <3>1. OuterLike(OuterWith(rtype, v), WithResult(s, rtype, v), FALSE)
    BY <1>3, <2>3, <2>5, <2>6, <2>7 DEF a
  <3>2. \A j \in DOMAIN WithResult(s, rtype, v) :
           Usable(WithResult(s, rtype, v)[j].val) \/ (rtype # NoType /\ WithResult(s, rtype, v)[j].val = v)
    BY <1>5, <2>3, <2>8 DEF a
  <3> QED
    BY <3>1, <3>2 DEF s, GoesOn
<1> QED
  BY <1>4, <1>5

(* A frame closes after these branches, none of them to the others. *)
LEMMA PopLabel ==
  ASSUME TrInv, status = "running", TopIdx > 1, NEW hits, NEW res, Hits(hits, res),
         \A t \in DOMAIN labels : t < Len(labels) => hits[t] = 0, Branches(ir', hits, res),
         NEW s, NEW dead, OuterLike(labels', s, dead)
  PROVE  /\ Stays(hits, res) /\ PendingNew /\ Pending' = Pending \ {Top.block}
         /\ labels' # <<>> /\ Len(labels') = Len(labels) - 1 /\ labels'[Len(labels')] = Top'
         /\ DOMAIN labels' \subseteq DOMAIN labels /\ Top'.terminated = dead /\ Top'.stack = s
         /\ \A v : Usable(v) => Usable(v)'
<1>0. Shape /\ Chain
  BY Parts
<1>1. labels \in Seq(LabelType) /\ Len(labels) \in Nat /\ Len(labels) > 1 /\ DOMAIN labels = 1 .. Len(labels)
      /\ TopIdx = Len(labels) /\ Top = labels[Len(labels)]
  BY <1>0 DEF Shape, TopIdx, Top
<1>2. /\ labels' \in Seq(LabelType) /\ Len(labels') = Len(labels) - 1
      /\ \A t \in 1 .. Len(labels) - 1 : SameMerge(labels'[t], labels[t])
      /\ labels'[Len(labels) - 1].stack = s /\ labels'[Len(labels) - 1].terminated = dead
  BY DEF OuterLike
<1>3. DOMAIN labels' = 1 .. Len(labels) - 1 /\ labels' # <<>> /\ DOMAIN labels' \subseteq DOMAIN labels
  BY <1>1, <1>2
<1>4. Top' = labels'[Len(labels')] /\ Top'.terminated = dead /\ Top'.stack = s
  BY <1>2 DEF Top, TopIdx
<1>5. Stays(hits, res)
  <2>1. ASSUME NEW t \in DOMAIN labels' PROVE SameMerge(labels'[t], After(hits, res, t))
    <3>1. t \in DOMAIN labels /\ t < Len(labels) /\ t \in 1 .. Len(labels) - 1
      BY <1>1, <1>3
    <3>2. After(hits, res, t) = labels[t]
      BY <3>1 DEF After
    <3> QED
      BY <1>2, <3>1, <3>2
  <2> QED
    BY <1>2, <2>1 DEF Stays
<1>6. \A b : b \in Pending' <=> b \in Pending /\ b # Top.block
  <2>1. \A t \in DOMAIN labels' : labels'[t].block = labels[t].block /\ labels'[t].loop = labels[t].loop
    BY <1>2, <1>3 DEF SameMerge
  <2>2. \A t \in DOMAIN labels : t \in DOMAIN labels' <=> labels[t].block # Top.block
    <3>1. Len(labels) \in DOMAIN labels
      BY <1>1
    <3>2. ASSUME NEW t \in DOMAIN labels PROVE t \in DOMAIN labels' <=> labels[t].block # Top.block
      <4>1. labels[t].block = Top.block <=> t = Len(labels)
        BY <1>0, <1>1, <3>1, BlocksDiffer
      <4> QED
        BY <1>1, <1>3, <4>1
    <3> QED
      BY <3>2
  <2>3. ASSUME NEW b, b \in Pending' PROVE b \in Pending /\ b # Top.block
    BY <1>3, <2>1, <2>2, <2>3 DEF Pending
  <2>4. ASSUME NEW b, b \in Pending, b # Top.block PROVE b \in Pending'
    BY <1>3, <2>1, <2>2, <2>4 DEF Pending
  <2> QED
    BY <2>3, <2>4
<1>7. Pending' = Pending \ {Top.block} /\ PendingNew
  BY <1>6 DEF PendingNew
<1>8. ASSUME NEW v, Usable(v) PROVE Usable(v)'
  BY <1>0, <1>6, <1>8, StepUsable
<1> QED
  BY <1>2, <1>3, <1>4, <1>5, <1>7, <1>8

LEMMA PopStep ==
  ASSUME TrInv, status = "running", ops < MaxOps, Consume, nest' = nest - 1, Top.depth = 0, TopIdx > 1,
         NEW hits, NEW res, Hits(hits, res),
         \A t \in DOMAIN labels : t < Len(labels) => hits[t] = 0, Branches(ir', hits, res),
         NEW s, NEW dead, OuterLike(labels', s, dead), StackUsable(s),
         \A p \in DOMAIN ir'.phis : p[1] \in Blocks, LocalsUsable, OpenInv', EntryInv'
  PROVE  TrInv'
<1>0. Shape /\ Chain /\ Frames /\ ValuesInv
  BY Parts
<1>1. labels \in Seq(LabelType) /\ Len(labels) \in Nat /\ Len(labels) > 1 /\ DOMAIN labels = 1 .. Len(labels)
      /\ labels # <<>>
  BY <1>0 DEF Shape, TopIdx
<1>2. /\ Stays(hits, res) /\ PendingNew
      /\ labels' # <<>> /\ Len(labels') = Len(labels) - 1 /\ labels'[Len(labels')] = Top'
      /\ DOMAIN labels' \subseteq DOMAIN labels
      /\ \A v : Usable(v) => Usable(v)'
  BY PopLabel
<1>3. /\ labels' \in Seq(LabelType)
      /\ \A t \in 1 .. Len(labels) - 1 : SameMerge(labels'[t], labels[t]) /\ labels'[t].depth = 0
      /\ \A t \in 1 .. Len(labels) - 2 : labels'[t] = labels[t]
      /\ labels'[Len(labels) - 1].stack = s
  BY DEF OuterLike
<1>4. DOMAIN labels' = 1 .. Len(labels) - 1
  BY <1>1, <1>2, <1>3
<1>5. Chain'
  <2>1. ASSUME NEW a \in DOMAIN labels', NEW b \in DOMAIN labels', a < b
        PROVE  labels'[a].block < labels'[b].block
    BY <1>0, <1>2, <1>3, <1>4, <2>1 DEF Chain, ChainOK, SameMerge
  <2>2. labels'[1].block = 0 /\ ~labels'[1].loop /\ labels'[1].rtype = NoType /\ labels'[1].merge = <<>>
    <3>1. 1 \in 1 .. Len(labels) - 1
      BY <1>1
    <3> QED
      BY <1>0, <1>1, <1>3, <3>1 DEF Chain, ChainOK, SameMerge
  <2>3. ASSUME NEW t \in DOMAIN labels' PROVE labels'[t].block <= Len(ir'.into)
    <3>1. t \in DOMAIN labels /\ labels'[t].block = labels[t].block
      BY <1>2, <1>3, <1>4 DEF SameMerge
    <3>2. labels[t].block <= Len(ir.into) /\ labels[t].block \in Nat
      BY <1>0, <3>1, LabelsTyped, LabelTyped DEF Chain, ChainOK
    <3>3. Len(ir.into) <= Len(ir'.into) /\ Len(ir.into) \in Nat /\ Len(ir'.into) \in Nat
      BY <1>0 DEF Branches, Shape, IsIr
    <3> QED
      BY <3>1, <3>2, <3>3
  <2>4. ASSUME NEW t \in DOMAIN labels', t < Len(labels') PROVE ~labels'[t].terminated
    <3>1. t \in 1 .. Len(labels) - 2 /\ t \in DOMAIN labels /\ t < Len(labels)
      BY <1>1, <1>2, <1>4, <2>4
    <3> QED
      BY <1>0, <1>3, <3>1 DEF Chain, ChainOK
  <2>5. \A t \in DOMAIN labels' : labels'[t].depth = 0
    BY <1>3, <1>4
  <2> QED
    BY <2>1, <2>2, <2>3, <2>4, <2>5 DEF Chain, ChainOK
<1>6. nest = Len(labels) /\ nest \in Nat
  BY <1>0, <1>1 DEF Frames, Shape
<1>7. Frames'
  <2>1. Top'.depth = 0
    <3>1. Len(labels') \in 1 .. Len(labels) - 1
      BY <1>1, <1>2
    <3> QED
      BY <1>2, <1>3, <3>1
  <2> QED
    BY <1>1, <1>2, <1>6, <2>1 DEF Frames
<1>8. Counted
  BY <1>1, <1>6 DEF Counted, Consume
<1>9. ASSUME NEW t \in DOMAIN labels' PROVE StackUsable(labels'[t].stack)
  <2>1. CASE t = Len(labels) - 1
    BY <1>3, <2>1
  <2>2. CASE t # Len(labels) - 1
    <3>1. labels'[t] = labels[t] /\ t \in DOMAIN labels
      BY <1>1, <1>2, <1>3, <1>4, <2>2
    <3>2. \A j \in DOMAIN labels[t].stack : Usable(labels[t].stack[j].val)
      BY <1>0, <3>1 DEF ValuesInv
    <3> QED
      BY <1>2, <3>1, <3>2 DEF StackUsable
  <2> QED
    BY <2>1, <2>2
<1>10. \A t \in DOMAIN labels' : t \notin DOMAIN labels => NewLabel(t)
  BY <1>2
<1> QED
  BY <1>1, <1>2, <1>5, <1>7, <1>8, <1>9, <1>10, FrameStep

LEMMA EndBodyStep ==
  ASSUME TrInv, status = "running", labels # <<>>, ops < MaxOps, Consume, nest' = nest - 1, Top.depth = 0, EndBody
  PROVE  TrInv'
<1>0. Shape /\ Frames /\ OpenInv
  BY Parts
<1>1. /\ TopIdx = 1 /\ labels' = <<>> /\ locals' = locals /\ entry' = entry
      /\ ir' = IF ~Top.terminated THEN Terminate(ir) ELSE ir
  BY DEF EndBody, Falls
<1>2. Len(labels) = 1 /\ DOMAIN labels = {1} /\ nest = 1 /\ labels' \in Seq(LabelType) /\ DOMAIN labels' = {}
  BY <1>0, <1>1 DEF TopIdx, Shape, Frames
<1>3. Pending = {} /\ Pending' = {} /\ PendingNew
  BY <1>2 DEF Pending, PendingNew
<1>4. Stays(None, Invalid)
  BY <1>2 DEF Stays
<1>5. Quiet(ir')
  BY <1>1, SameIr
<1>6. Branches(ir', None, Invalid) /\ Hits(None, Invalid)
  BY <1>0, <1>5, QuietBranches, NoneHits, Parts
<1>7. \A v : Usable(v) => Usable(v)'
  BY <1>0, <1>3, <1>6, StepUsable
<1>8. LocalsUsable
  BY <1>1, <1>7, LocalsStay
<1>9. OpenInv'
  <2>1. /\ ir.term \subseteq Blocks /\ ir.hollow \subseteq Blocks \ ir.term
        /\ ir.cur \in 0 .. Len(ir.into)
        /\ \A b \in Blocks \ (ir.term \cup ir.hollow) : ~Top.terminated /\ b = ir.cur
        /\ ~Top.terminated => ir.cur \in Blocks \ (ir.term \cup ir.hollow)
    BY <1>0, <1>3 DEF OpenInv
  <2>2. CASE Top.terminated
    BY <1>1, <1>3, <2>1, <2>2 DEF OpenInv, Blocks
  <2>3. CASE ~Top.terminated
    <3>1. ir'.into = ir.into /\ ir'.term = ir.term \cup {ir.cur} /\ ir'.hollow = ir.hollow /\ ir'.cur = ir.cur
      BY <1>1, <2>3, SameIr
    <3>2. Blocks' = Blocks
      BY <3>1 DEF Blocks
    <3> QED
      BY <1>1, <1>3, <2>1, <2>3, <3>1, <3>2 DEF OpenInv
  <2> QED
    BY <2>2, <2>3
<1>10. EntryInv'
  <2>1. entry' = [b \in DOMAIN entry' |-> entry'[b]] /\ DOMAIN entry \subseteq DOMAIN entry'
        /\ (\A b \in DOMAIN entry : entry'[b] = entry[b])
        /\ (\A b \in DOMAIN entry' : b \notin DOMAIN entry => EntryFits(b))
    BY <1>1, Parts DEF EntryInv
  <2> QED
    BY <1>2, <1>3, <1>4, <1>6, <2>1, EntryStep
<1>11. Chain' /\ Frames' /\ Counted
  <2>1. Chain'
    BY <1>1, <1>2 DEF Chain, ChainOK
  <2>2. Frames'
    BY <1>1, <1>2 DEF Frames
  <2>3. Counted
    BY <1>2 DEF Counted, Consume
  <2> QED
    BY <2>1, <2>2, <2>3
<1>12. \A p \in DOMAIN ir'.phis : p[1] \in Blocks
  BY <1>5, Parts DEF Quiet, PhisInv
<1> QED
  BY <1>2, <1>3, <1>4, <1>6, <1>8, <1>9, <1>10, <1>11, <1>12, FrameStep

(* Translation goes on in a new block when a loop is left: the block falling *)
(* out of the loop, or one that nothing reaches.                             *)
LoopLeft == At(Jump(CreateBlocks(ir, 1), NewBlock(ir), locals), NewBlock(ir))

LoopSealed == Terminate(At(CreateBlocks(ir, 1), NewBlock(ir)))

LEMMA LoopLeftFacts ==
  ASSUME TrInv, status = "running", labels # <<>>, ~Top.terminated
  PROVE  /\ Quiet(LoopLeft) /\ Len(LoopLeft.into) = Len(ir.into) + 1
         /\ LoopLeft.cur = NewBlock(ir) /\ LoopLeft.term = ir.term \cup {ir.cur}
         /\ LoopLeft.hollow = ir.hollow
         /\ FromCursor(LoopLeft) /\ LoopLeft.into[NewBlock(ir)] # <<>>
<1> DEFINE N == NewBlock(ir)
           c == CreateBlocks(ir, 1)
           j == Jump(c, N, locals)
           a == At(j, N)
<1>0. /\ IsIr(ir) /\ Len(ir.into) \in Nat /\ N \in Nat \ {0} /\ N = Len(ir.into) + 1
      /\ locals \in Seq(Value) /\ DOMAIN ir.into = 1 .. Len(ir.into)
  BY Parts DEF Shape, IsIr, NewBlock
<1>1. /\ IsIr(c) /\ Len(c.into) = Len(ir.into) + 1
      /\ \A b \in 1 .. Len(ir.into) : c.into[b] = ir.into[b]
      /\ \A b \in Len(ir.into) + 1 .. Len(ir.into) + 1 : c.into[b] = <<>>
      /\ c.cur = ir.cur /\ c.term = ir.term /\ c.values = ir.values /\ c.phis = ir.phis
      /\ c.hollow = ir.hollow
  BY <1>0, CreateBlocksFacts
<1> HIDE DEF c, N
<1>2. c.into[N] = <<>> /\ N \in 1 .. Len(c.into)
  BY <1>0, <1>1
<1>3. /\ IsIr(j) /\ Len(j.into) = Len(c.into)
      /\ j.into[N] = Append(c.into[N], Edge(c.cur, locals))
      /\ \A b \in 1 .. Len(c.into) : b # N => j.into[b] = c.into[b]
      /\ j.cur = c.cur /\ j.term = c.term \cup {c.cur} /\ j.values = c.values /\ j.phis = c.phis
      /\ j.hollow = c.hollow
  <2>1. IsIr(c) /\ N \in 1 .. Len(c.into) /\ locals \in Seq(Value)
    BY <1>0, <1>1, <1>2
  <2>2. Jumped(j, c, N, locals)
    BY <2>1, JumpFacts
  <2> HIDE DEF j
  <2> QED
    BY <2>2 DEF Jumped
<1> HIDE DEF j
<1>4. /\ IsIr(a) /\ a.into = j.into /\ a.cur = N /\ a.term = j.term /\ a.values = j.values /\ a.phis = j.phis
      /\ a.hollow = j.hollow
  <2>1. IsIr(j) /\ N \in Nat
    BY <1>0, <1>3
  <2> QED
    BY <2>1, AtFacts
<1> HIDE DEF a
<1>5. LoopLeft = a
  BY DEF LoopLeft, a, j, c, N
<1>6. /\ a.into[N] = Append(<<>>, Edge(ir.cur, locals)) /\ Len(a.into) = Len(ir.into) + 1
      /\ a.term = ir.term \cup {ir.cur} /\ a.hollow = ir.hollow /\ a.phis = ir.phis /\ a.values = ir.values
  BY <1>1, <1>2, <1>3, <1>4
<1>7. ASSUME NEW b \in 1 .. Len(ir.into) PROVE a.into[b] = ir.into[b]
  <2>1. b \in 1 .. Len(c.into) /\ b # N
    BY <1>0, <1>1, <1>7
  <2> QED
    BY <1>1, <1>3, <1>4, <1>7, <2>1
<1>8. DOMAIN a.into = 1 .. Len(ir.into) + 1 /\ ir.cur \in 1 .. Len(ir.into)
  BY <1>0, <1>4, <1>6, Parts DEF IsIr, OpenInv, Blocks
<1>9. ASSUME NEW b \in DOMAIN a.into, NEW k \in DOMAIN a.into[b] PROVE a.into[b][k].src \in DOMAIN a.into
  <2>1. CASE b \in Blocks
    <3>1. a.into[b][k].src \in Blocks
      BY <1>0, <1>7, <1>9, <2>1, Parts DEF SourcesInv, Blocks
    <3> QED
      BY <1>0, <1>8, <3>1 DEF Blocks
  <2>2. CASE b \notin Blocks
    <3>1. b = N
      BY <1>0, <1>8, <2>2 DEF Blocks
    <3>2. a.into[b] = <<Edge(ir.cur, locals)>>
      BY <1>6, <3>1
    <3>3. k = 1 /\ a.into[b][k] = Edge(ir.cur, locals)
      BY <1>9, <3>2
    <3> QED
      BY <1>0, <1>8, <3>3 DEF Edge
  <2> QED
    BY <2>1, <2>2
<1>10. Quiet(a)
  BY <1>0, <1>4, <1>6, <1>7, <1>9 DEF Quiet, IsIr, Blocks
<1>11. a.into[N] = <<Edge(ir.cur, locals)>>
  BY <1>6
<1>12. FromCursor(a)
  <2>1. ASSUME NEW b \in DOMAIN a.into, NEW k \in DOMAIN a.into[b], b \notin Blocks
        PROVE  a.into[b][k].src = ir.cur /\ a.into[b][k].vals = locals
    <3>1. b = N
      BY <1>0, <1>8, <2>1 DEF Blocks
    <3>2. a.into[b][k] = Edge(ir.cur, locals)
      BY <1>11, <2>1, <3>1
    <3> QED
      BY <3>2 DEF Edge
  <2> QED
    BY <1>0, <1>7, <2>1 DEF FromCursor, Blocks
<1>13. a.into[N] # <<>>
  BY <1>11
<1> QED
  BY ONLY <1>4, <1>5, <1>6, <1>10, <1>12, <1>13 DEF N

LEMMA LoopSealedFacts ==
  ASSUME TrInv, status = "running", labels # <<>>
  PROVE  /\ Quiet(LoopSealed) /\ Len(LoopSealed.into) = Len(ir.into) + 1
         /\ LoopSealed.cur = NewBlock(ir) /\ LoopSealed.term = ir.term \cup {NewBlock(ir)}
         /\ LoopSealed.hollow = ir.hollow
         /\ LoopSealed.into[NewBlock(ir)] = <<>>
<1> DEFINE N == NewBlock(ir)
           c == CreateBlocks(ir, 1)
           a == At(c, N)
           m == Terminate(a)
<1>0. /\ IsIr(ir) /\ Len(ir.into) \in Nat /\ N \in Nat \ {0} /\ N = Len(ir.into) + 1
      /\ DOMAIN ir.into = 1 .. Len(ir.into)
  BY Parts DEF Shape, IsIr, NewBlock
<1>1. /\ IsIr(c) /\ Len(c.into) = Len(ir.into) + 1
      /\ \A b \in 1 .. Len(ir.into) : c.into[b] = ir.into[b]
      /\ \A b \in Len(ir.into) + 1 .. Len(ir.into) + 1 : c.into[b] = <<>>
      /\ c.cur = ir.cur /\ c.term = ir.term /\ c.values = ir.values /\ c.phis = ir.phis
      /\ c.hollow = ir.hollow
  <2>1. IsIr(ir) /\ 1 \in Nat
    BY <1>0
  <2> QED
    BY ONLY <2>1, CreateBlocksFacts
<1> HIDE DEF c, N
<1>2. c.into[N] = <<>>
  BY <1>0, <1>1
<1>3. /\ IsIr(a) /\ a.into = c.into /\ a.cur = N /\ a.term = c.term /\ a.values = c.values /\ a.phis = c.phis
      /\ a.hollow = c.hollow
  <2>1. IsIr(c) /\ N \in Nat
    BY <1>0, <1>1
  <2> QED
    BY <2>1, AtFacts
<1> HIDE DEF a
<1>4. /\ IsIr(m) /\ m.into = a.into /\ m.cur = a.cur /\ m.term = a.term \cup {a.cur} /\ m.values = a.values
      /\ m.phis = a.phis /\ m.hollow = a.hollow
  BY <1>3, TerminateFacts
<1> HIDE DEF m
<1>5. LoopSealed = m
  BY DEF LoopSealed, m, a, c, N
<1>6. /\ m.into = c.into /\ m.cur = N /\ m.term = ir.term \cup {N} /\ m.hollow = ir.hollow
      /\ m.phis = ir.phis /\ m.values = ir.values
  BY <1>1, <1>3, <1>4
<1>7. DOMAIN m.into = 1 .. Len(ir.into) + 1
  BY <1>0, <1>1, <1>6 DEF IsIr
<1>8. ASSUME NEW b \in DOMAIN m.into, NEW k \in DOMAIN m.into[b] PROVE m.into[b][k].src \in DOMAIN m.into
  <2>1. b \in Blocks
    <3>1. b # N
      BY <1>2, <1>6, <1>8
    <3> QED
      BY <1>0, <1>7, <3>1 DEF Blocks
  <2>2. m.into[b][k].src \in Blocks
    BY <1>0, <1>1, <1>6, <1>8, <2>1, Parts DEF SourcesInv, Blocks
  <2> QED
    BY <1>0, <1>7, <2>2 DEF Blocks
<1>9. Quiet(m)
  BY <1>0, <1>1, <1>4, <1>6, <1>8 DEF Quiet, IsIr, Blocks
<1> QED
  BY <1>1, <1>2, <1>5, <1>6, <1>9 DEF N

(* A loop's block is none that a label waits for. *)
LEMMA LoopPending ==
  ASSUME TrInv, status = "running", labels # <<>>, Top.loop
  PROVE  Top.block \notin Pending
<1>1. Shape /\ Chain /\ Len(labels) \in DOMAIN labels /\ Top = labels[Len(labels)]
  BY TopFacts, Parts
<1>2. ASSUME NEW u \in DOMAIN labels, labels[u].block = Top.block PROVE labels[u].loop
  <2>1. u = Len(labels)
    BY <1>1, <1>2, BlocksDiffer
  <2> QED
    BY <1>1, <2>1
<1> QED
  BY <1>2 DEF Pending

(* What falling out of a loop leaves on the stack. *)
LoopResult == IF Top.rtype = NoType THEN Invalid ELSE Peek(0)

LoopRest ==
  IF Falls THEN WithResult(labels[TopIdx - 1].stack, Top.rtype, LoopResult) ELSE labels[TopIdx - 1].stack

LEMMA EndLoopFacts ==
  ASSUME TrInv, status = "running", labels # <<>>, EndLoop
  PROVE  /\ TopIdx > 1 /\ Top.loop /\ locals' = locals /\ entry' = entry
         /\ Hits(None, Invalid) /\ Branches(ir', None, Invalid)
         /\ Falls \in BOOLEAN /\ Falls = ~Top.terminated
         /\ Falls => ir' = LoopLeft /\ (Top.rtype # NoType => Len(Top.stack) = 1)
         /\ ~Falls => ir' = LoopSealed
         /\ Quiet(ir') /\ Len(ir'.into) = Len(ir.into) + 1 /\ ir'.cur = Len(ir.into) + 1
         /\ ir'.term = ir.term \cup {IF Falls THEN ir.cur ELSE Len(ir.into) + 1} /\ ir'.hollow = ir.hollow
         /\ OuterLike(labels', LoopRest, ~Falls) /\ \A j \in DOMAIN LoopRest : Usable(LoopRest[j].val)
<1>0. /\ Shape /\ Chain /\ OpenInv /\ PhisInv /\ TopIdx > 1 /\ Top.loop /\ locals' = locals /\ entry' = entry
      /\ Hits(None, Invalid) /\ Top.rtype \in Types
  BY Parts, NoneHits, TopFacts, LabelTyped DEF EndLoop, AfterLoop
<1>1. /\ Falls \in BOOLEAN
      /\ Falls => /\ ir' = LoopLeft
                  /\ Len(Top.stack) = IF Top.rtype = NoType THEN 0 ELSE 1
                  /\ labels' = OuterWith(Top.rtype, IF Top.rtype = NoType THEN Invalid ELSE Peek(0))
      /\ ~Falls => ir' = LoopSealed /\ labels' = OuterClosed
      /\ Falls = ~Top.terminated
  BY DEF EndLoop, LoopLeft, LoopSealed, Seal, Falls
<1>2. /\ Quiet(ir') /\ Len(ir'.into) = Len(ir.into) + 1 /\ ir'.cur = Len(ir.into) + 1
      /\ ir'.term = ir.term \cup {IF Falls THEN ir.cur ELSE Len(ir.into) + 1} /\ ir'.hollow = ir.hollow
  BY <1>1, LoopLeftFacts, LoopSealedFacts DEF NewBlock
<1>3. Branches(ir', None, Invalid)
  BY <1>0, <1>2, QuietBranches
<1>4. \A t \in DOMAIN labels : t < Len(labels) => None[t] = 0
  BY DEF None
<1> DEFINE under == labels[TopIdx - 1].stack
           v == LoopResult
           s == LoopRest
<1>5. Top.rtype # NoType /\ Falls => v \in Value /\ Usable(v)
  <2>1. ASSUME Top.rtype # NoType, Falls PROVE v \in Value /\ Usable(v)
    <3>1. Len(Top.stack) = 1
      BY <1>1, <2>1
    <3>2. v = Top.stack[Len(Top.stack) - 0].val
      BY <2>1 DEF Peek, LoopResult
    <3> HIDE DEF v
    <3>3. v = Top.stack[1].val
      BY <3>1, <3>2
    <3>4. 1 \in 1 .. Len(Top.stack)
      BY <3>1
    <3> QED
      BY <3>3, <3>4, TopFacts
  <2> QED
    BY <2>1
<1>6. OuterLike(labels', s, ~Falls) /\ \A j \in DOMAIN s : Usable(s[j].val)
  <2>1. CASE Falls
    <3>1. Top.rtype # NoType => v \in Value
      BY <1>5, <2>1
    <3> HIDE DEF v
    <3>2. /\ OuterLike(OuterWith(Top.rtype, v), WithResult(labels[TopIdx - 1].stack, Top.rtype, v), FALSE)
          /\ \A j \in DOMAIN WithResult(labels[TopIdx - 1].stack, Top.rtype, v) :
               \/ Usable(WithResult(labels[TopIdx - 1].stack, Top.rtype, v)[j].val)
               \/ Top.rtype # NoType /\ WithResult(labels[TopIdx - 1].stack, Top.rtype, v)[j].val = v
      <4> DEFINE rtype == Top.rtype
      <4>1. rtype \in Types /\ TopIdx > 1 /\ (rtype # NoType => v \in Value)
        BY <1>0, <3>1
      <4> HIDE DEF rtype
      <4>2. GoesOn(rtype, v)
        BY <4>1, OuterWithGoesOn
      <4> QED
        BY <4>2 DEF rtype, GoesOn
    <3>3. labels' = OuterWith(Top.rtype, v)
      BY <1>1, <2>1 DEF v, LoopResult
    <3>4. OuterLike(labels', s, ~Falls)
      BY <2>1, <3>2, <3>3 DEF v, LoopRest
    <3>5. \A j \in DOMAIN s : Usable(s[j].val)
      BY <1>5, <2>1, <3>2 DEF v, LoopRest
    <3> QED
      BY <3>4, <3>5
  <2>2. CASE ~Falls
    BY <1>0, <1>1, <2>2, OuterClosedFacts, OuterFacts DEF LoopRest
  <2> QED
    BY <1>1, <2>1, <2>2
<1> QED
  BY <1>0, <1>1, <1>2, <1>3, <1>6 DEF s

LEMMA EndLoopStep ==
  ASSUME TrInv, status = "running", labels # <<>>, ops < MaxOps, Consume, nest' = nest - 1, Top.depth = 0, EndLoop
  PROVE  TrInv'
<1>0. /\ Shape /\ Chain /\ OpenInv /\ PhisInv /\ TopIdx > 1 /\ Top.loop /\ locals' = locals /\ entry' = entry
      /\ Hits(None, Invalid)
  BY Parts, EndLoopFacts
<1>1. Falls \in BOOLEAN /\ Falls = ~Top.terminated
  BY EndLoopFacts
<1>2. /\ Quiet(ir') /\ Len(ir'.into) = Len(ir.into) + 1 /\ ir'.cur = Len(ir.into) + 1
      /\ ir'.term = ir.term \cup {IF Falls THEN ir.cur ELSE Len(ir.into) + 1} /\ ir'.hollow = ir.hollow
  BY EndLoopFacts
<1>3. Branches(ir', None, Invalid)
  BY EndLoopFacts
<1>4. \A t \in DOMAIN labels : t < Len(labels) => None[t] = 0
  BY DEF None
<1> DEFINE s == LoopRest
<1>6. OuterLike(labels', s, ~Falls) /\ \A j \in DOMAIN s : Usable(s[j].val)
  BY EndLoopFacts
<1> HIDE DEF s
<1>7. /\ Pending' = Pending \ {Top.block} /\ labels' # <<>> /\ labels'[Len(labels')] = Top'
      /\ Top'.terminated = ~Falls
      /\ \A w : Usable(w) => Usable(w)'
  <2> DEFINE dead == ~Falls
  <2>1. OuterLike(labels', s, dead)
    BY <1>6
  <2> HIDE DEF dead
  <2>2. /\ Pending' = Pending \ {Top.block} /\ labels' # <<>> /\ labels'[Len(labels')] = Top'
        /\ Top'.terminated = dead
        /\ \A w : Usable(w) => Usable(w)'
    BY <1>0, <1>3, <1>4, <2>1, PopLabel
  <2> QED
    BY <2>2 DEF dead
<1>8. Pending' = Pending
  BY <1>0, <1>7, LoopPending
<1>9. StackUsable(s)
  BY <1>6, <1>7 DEF StackUsable
<1>10. LocalsUsable
  BY <1>0, <1>7, LocalsStay
<1>11. OpenInv'
  <2>0. Blocks = 1 .. Len(ir.into) /\ Blocks' = Blocks \cup {Len(ir.into) + 1} /\ Len(ir.into) \in Nat
        /\ Blocks' = 1 .. Len(ir'.into)
        /\ Len(ir.into) + 1 \notin Blocks /\ ir'.cur \in Blocks' /\ ir'.cur \notin Blocks
    <3>1. Blocks = 1 .. Len(ir.into) /\ Blocks' = 1 .. Len(ir'.into) /\ Len(ir.into) \in Nat
      BY <1>0, <1>2 DEF Blocks, Quiet, IsIr, Shape
    <3>2. Len(ir'.into) = Len(ir.into) + 1 /\ ir'.cur = Len(ir.into) + 1
      BY <1>0, <1>2
    <3> QED
      BY ONLY <3>1, <3>2
  <2>1. /\ ir.term \subseteq Blocks /\ ir.hollow \subseteq Blocks \ ir.term
        /\ Pending \cap (ir.term \cup ir.hollow) = {}
        /\ \A b \in Blocks \ (ir.term \cup ir.hollow \cup Pending) : ~Top.terminated /\ b = ir.cur
        /\ Pending \subseteq Blocks
        /\ IF Top.terminated THEN ir.cur \in ir.term ELSE ir.cur \in Blocks \ (ir.term \cup ir.hollow \cup Pending)
    BY <1>0, PendingBlocks DEF OpenInv
  <2>2. ir'.cur = Len(ir.into) + 1
    BY <1>2
  <2>3. CASE Falls
    <3>1. ir'.term = ir.term \cup {ir.cur} /\ ~Top.terminated /\ ~Top'.terminated
      BY <1>1, <1>2, <1>7, <2>3
    <3>2. ir'.cur \in 0 .. Len(ir'.into)
      BY <2>0
    <3> QED
      BY <1>2, <1>7, <1>8, <2>0, <2>1, <2>2, <3>1, <3>2 DEF OpenInv
  <2>4. CASE ~Falls
    <3>1. ir'.term = ir.term \cup {ir'.cur} /\ Top.terminated /\ Top'.terminated
      BY <1>1, <1>2, <1>7, <2>4
    <3>2. ir'.cur \in 0 .. Len(ir'.into)
      BY <2>0
    <3> QED
      BY <1>2, <1>7, <1>8, <2>0, <2>1, <2>2, <3>1, <3>2 DEF OpenInv
  <2> QED
    BY <1>1, <2>3, <2>4
<1>12. \A p \in DOMAIN ir'.phis : p[1] \in Blocks
  BY <1>0, <1>2 DEF Quiet, PhisInv
<1>13. EntryInv'
  <2>0. /\ Stays(None, Invalid) /\ PendingNew /\ DOMAIN labels' \subseteq DOMAIN labels
    <3> DEFINE dead == ~Falls
    <3>1. OuterLike(labels', s, dead)
      BY <1>6
    <3> HIDE DEF dead
    <3> QED
      BY <1>0, <1>3, <1>4, <3>1, PopLabel
  <2>1. entry' = [b \in DOMAIN entry' |-> entry'[b]] /\ DOMAIN entry \subseteq DOMAIN entry'
        /\ (\A b \in DOMAIN entry : entry'[b] = entry[b])
        /\ (\A b \in DOMAIN entry' : b \notin DOMAIN entry => EntryFits(b))
    BY <1>0, Parts DEF EntryInv
  <2>2. \A t \in DOMAIN labels' : t \notin DOMAIN labels /\ labels'[t].loop =>
           /\ labels'[t].block \in DOMAIN entry'
           /\ entry'[labels'[t].block] = [i \in LocalIdx |-> Phi(labels'[t].block, i)]
    BY <2>0
  <2> QED
    BY <1>0, <1>3, <2>0, <2>1, <2>2, EntryStep
<1> QED
  <2> DEFINE dead == ~Falls
  <2>1. OuterLike(labels', s, dead)
    BY <1>6
  <2> HIDE DEF dead
  <2> QED
    BY <1>0, <1>3, <1>4, <1>9, <1>10, <1>11, <1>12, <1>13, <2>1, PopStep

-----------------------------------------------------------------------------
(* Branches to labels.                                                     *)

(* What a phi that a branch extends or makes has so far. *)
LEMMA CollectedType ==
  ASSUME TrInv, status = "running", NEW hits, NEW res, Hits(hits, res), NEW t \in DOMAIN labels, hits[t] > 0,
         NEW i \in Touched(t, res)
  PROVE  /\ PhiInputs(labels[t], i) \in Seq(Value)
         /\ i \in Nat /\ i > 0 /\ Carried(t, res)[i] \in Value /\ t > 1
         /\ hits[t] \in Nat
<1> DEFINE l == labels[t]
           C == Carried(t, res)
<1>0. Shape /\ Chain /\ LabelsInv /\ PhisInv /\ ValuesInv
  BY Parts
<1>1. t \in Nat /\ t > 1 /\ hits[t] \in Nat
  <2>1. t \in Nat /\ t >= 1 /\ hits[1] = 0 /\ hits[t] \in Nat
    BY <1>0, LabelsTyped DEF Hits
  <2> QED
    BY <2>1
<1>2. LabelOK(l, ir.into[l.block], ir.phis)
  BY <1>0, <1>1 DEF LabelsInv
<1>3. /\ C \in Seq(Value)
      /\ Len(C) = Len(LocalType) + (IF MergesResult(l) THEN 1 ELSE 0)
  BY <1>0, CarriedUsable
<1>4. /\ l \in LabelType /\ l.merge \in Seq(Slot) /\ l.inputs \in Nat
  BY <1>0, LabelsTyped, LabelTyped
<1>5. i \in DOMAIN C /\ l.reached
  BY DEF Touched, Disagrees
<1>6. i \in DOMAIN l.merge
  BY <1>2, <1>3, <1>4, <1>5 DEF LabelOK
<1> HIDE DEF C, l
<1>7. C[i] \in Value /\ i \in Nat /\ i > 0
  BY <1>3, <1>5
<1>8. l.merge[i] \in Slot /\ SlotOK(l, ir.into[l.block], ir.phis, i)
  BY <1>2, <1>4, <1>6 DEF LabelOK
<1>9. PhiInputs(l, i) \in Seq(Value)
  <2>1. CASE l.merge[i].phi = NoPhi
    <3>1. PhiInputs(l, i) = Copies(l.inputs, l.merge[i].val)
      BY <2>1 DEF PhiInputs, Backfill, Copies
    <3>2. Copies(l.inputs, l.merge[i].val) \in [1 .. l.inputs -> Value]
      BY <1>8 DEF Copies, Slot
    <3> QED
      BY <1>4, <3>1, <3>2, SeqOfFunction
  <2>2. CASE l.merge[i].phi # NoPhi
    <3>1. PhiInputs(l, i) = ir.phis[Phi(l.block, i)]
      BY <2>2 DEF PhiInputs
    <3>2. Phi(l.block, i) \in DOMAIN ir.phis
      BY <1>8, <2>2 DEF SlotOK
    <3> QED
      BY <1>0, <3>1, <3>2 DEF Shape, IsIr, IsPhis
  <2> QED
    BY <2>1, <2>2
<1> QED
  BY <1>1, <1>7, <1>9 DEF C, l

LEMMA PreparedTyped ==
  ASSUME TrInv, status = "running", NEW hits, NEW res, Hits(hits, res)
  PROVE  /\ IsPhis(PreparedPhis(hits, res))
         /\ \A p \in DOMAIN PreparedPhis(hits, res) : p[1] \in Blocks
<1> DEFINE P == PreparedPhis(hits, res)
<1>0. Shape /\ Chain
  BY Parts
<1>1. /\ P = [p \in DOMAIN P |-> P[p]]
      /\ \A p \in DOMAIN P :
           \E t \in DOMAIN labels : hits[t] > 0 /\ \E i \in Touched(t, res) : p = Phi(labels[t].block, i)
      /\ \A t \in DOMAIN labels : \A i \in Touched(t, res) : hits[t] > 0 =>
           /\ Phi(labels[t].block, i) \in DOMAIN P
           /\ P[Phi(labels[t].block, i)] = PhiInputs(labels[t], i) \o Copies(hits[t], Carried(t, res)[i])
  <2>1. hits \in [DOMAIN labels -> Nat]
    BY DEF Hits
  <2> QED
    BY <1>0, <2>1, PreparedPhisFacts
<1> HIDE DEF P
<1>2. ASSUME NEW p \in DOMAIN P PROVE p \in Value /\ P[p] \in Seq(Value) /\ p[1] \in Blocks
  <2>1. PICK t \in DOMAIN labels : hits[t] > 0 /\ \E i \in Touched(t, res) : p = Phi(labels[t].block, i)
    BY <1>1
  <2>2. PICK i \in Touched(t, res) : p = Phi(labels[t].block, i)
    BY <2>1
  <2>3. /\ PhiInputs(labels[t], i) \in Seq(Value)
        /\ i \in Nat /\ Carried(t, res)[i] \in Value /\ t > 1
        /\ hits[t] \in Nat
    BY <2>1, <2>2, CollectedType
  <2>4. labels[t].block \in Blocks /\ labels[t].block \in Nat
    BY <1>0, <2>3, BlockFacts
  <2>5. p \in Value /\ p[1] = labels[t].block
    BY <2>2, <2>3, <2>4, PhiFacts
  <2>6. Copies(hits[t], Carried(t, res)[i]) \in Seq(Value)
    <3>1. Copies(hits[t], Carried(t, res)[i]) \in [1 .. hits[t] -> Value]
      BY <2>3 DEF Copies
    <3> QED
      BY <2>3, <3>1, SeqOfFunction
  <2>7. P[p] = PhiInputs(labels[t], i) \o Copies(hits[t], Carried(t, res)[i])
    BY <1>1, <2>1, <2>2
  <2>8. P[p] \in Seq(Value)
    <3> DEFINE a == PhiInputs(labels[t], i)
               c == Copies(hits[t], Carried(t, res)[i])
    <3>1. a \in Seq(Value) /\ c \in Seq(Value)
      BY <2>3, <2>6
    <3> HIDE DEF a, c
    <3>2. a \o c \in Seq(Value)
      BY <3>1, SeqConcat
    <3> QED
      BY <2>7, <3>2 DEF a, c
  <2> QED
    BY <2>4, <2>5, <2>8
<1>3. DOMAIN P \subseteq Value /\ \A p \in DOMAIN P : P[p] \in Seq(Value)
  BY <1>2
<1>4. IsPhis(P)
  BY <1>1, <1>3 DEF IsPhis
<1> QED
  BY <1>2, <1>4 DEF P

(* One branch to label t. *)
LEMMA OnceHits ==
  ASSUME TrInv, status = "running", NEW t \in DOMAIN labels, t > 1, NEW res, MergesResult(labels[t]) => Usable(res)
  PROVE  /\ Hits(Once(t), res) /\ Once(t)[t] = 1 /\ \A u \in DOMAIN labels : u # t => Once(t)[u] = 0
<1>1. Shape /\ 1 \in DOMAIN labels /\ t # 1
  BY Parts, LabelsTyped
<1>2. Once(t) \in [DOMAIN labels -> Nat] /\ Once(t)[t] = 1 /\ \A u \in DOMAIN labels : u # t => Once(t)[u] = 0
  BY DEF Once
<1>3. Once(t)[1] = 0
  BY <1>1, <1>2
<1>4. \A u \in DOMAIN labels : Once(t)[u] > 0 => u = t
  BY <1>2
<1> QED
  BY <1>2, <1>3, <1>4 DEF Hits

(* The branch that carries the locals and res to label t, from the cursor. *)
JumpTo(t, res) == Jump(WithPhis(ir, PreparedPhis(Once(t), res)), labels[t].block, Carried(t, res))

LEMMA JumpToFacts ==
  ASSUME TrInv, status = "running", NEW t \in DOMAIN labels, t > 1, NEW res, MergesResult(labels[t]) => Usable(res)
  PROVE  /\ Branches(JumpTo(t, res), Once(t), res)
         /\ JumpTo(t, res).cur = ir.cur /\ JumpTo(t, res).term = ir.term \cup {ir.cur}
         /\ JumpTo(t, res).hollow = ir.hollow /\ Len(JumpTo(t, res).into) = Len(ir.into)
         /\ \A p \in DOMAIN JumpTo(t, res).phis : p[1] \in Blocks
         /\ FromCursor(JumpTo(t, res))
<1> DEFINE hits == Once(t)
           P == PreparedPhis(hits, res)
           w == WithPhis(ir, P)
           b == labels[t].block
           C == Carried(t, res)
           m == Jump(w, b, C)
<1>0. /\ Shape /\ Chain /\ OpenInv /\ PhisInv /\ SourcesInv /\ ValuesInv /\ IsIr(ir) /\ Blocks = 1 .. Len(ir.into)
      /\ Len(ir.into) \in Nat /\ labels # <<>>
  <2>1. Shape /\ Chain /\ OpenInv /\ PhisInv /\ SourcesInv /\ ValuesInv
    BY Parts
  <2> QED
    BY <2>1, LabelsTyped DEF Shape, IsIr, Blocks
<1>1. Hits(hits, res) /\ hits[t] = 1 /\ \A u \in DOMAIN labels : u # t => hits[u] = 0
  BY OnceHits
<1> HIDE DEF hits
<1>2. IsPhis(P) /\ \A p \in DOMAIN P : p[1] \in Blocks
  BY <1>1, PreparedTyped
<1> HIDE DEF P
<1>3. /\ IsIr(w) /\ w.into = ir.into /\ w.cur = ir.cur /\ w.term = ir.term /\ w.values = ir.values
      /\ w.hollow = ir.hollow /\ DOMAIN w.phis = DOMAIN ir.phis \cup DOMAIN P
      /\ \A p \in DOMAIN P : w.phis[p] = P[p]
      /\ \A p \in DOMAIN ir.phis \ DOMAIN P : w.phis[p] = ir.phis[p]
  BY <1>0, <1>2, WithPhisFacts
<1> HIDE DEF w
<1>4. b \in Blocks /\ b \in 1 .. Len(w.into)
  BY <1>0, <1>3, BlockFacts
<1>5. C \in Seq(Value)
  <2>1. hits[t] > 0
    BY <1>1
  <2> QED
    BY <1>0, <1>1, <2>1, CarriedUsable
<1> HIDE DEF b, C
<1>6. /\ IsIr(m) /\ Len(m.into) = Len(w.into)
      /\ m.into[b] = Append(w.into[b], Edge(w.cur, C))
      /\ \A x \in 1 .. Len(w.into) : x # b => m.into[x] = w.into[x]
      /\ m.cur = w.cur /\ m.term = w.term \cup {w.cur} /\ m.values = w.values /\ m.phis = w.phis
      /\ m.hollow = w.hollow
  <2>1. Jumped(m, w, b, C)
    BY <1>3, <1>4, <1>5, JumpFacts
  <2> HIDE DEF m
  <2> QED
    BY <2>1 DEF Jumped
<1> HIDE DEF m
<1>7. JumpTo(t, res) = m
  BY DEF JumpTo, m, C, b, w, P, hits
<1>8. ir.into[b] \in Seq(BranchType) /\ Edge(ir.cur, C) \in BranchType /\ ir.cur \in Blocks
  BY <1>0, <1>4, <1>5 DEF IsIr, Edge, BranchType, OpenInv
<1>9. /\ Len(m.into[b]) = Len(ir.into[b]) + 1
      /\ \A k \in 1 .. Len(ir.into[b]) : m.into[b][k] = ir.into[b][k]
      /\ m.into[b][Len(ir.into[b]) + 1] = Edge(ir.cur, C)
      /\ m.into[b] \in Seq(BranchType)
  <2> DEFINE E == ir.into[b]
             x == Edge(ir.cur, C)
  <2>1. m.into[b] = Append(E, x) /\ E \in Seq(BranchType) /\ x \in BranchType
    BY <1>3, <1>6, <1>8
  <2> HIDE DEF E, x
  <2>2. /\ Append(E, x) \in Seq(BranchType) /\ Len(Append(E, x)) = Len(E) + 1
        /\ \A k \in 1 .. Len(E) : Append(E, x)[k] = E[k]
        /\ Append(E, x)[Len(E) + 1] = x
    BY <2>1, SeqAppend
  <2> QED
    BY <2>1, <2>2 DEF E, x
<1>10. ASSUME NEW u \in DOMAIN labels, u > 1
       PROVE  Extends(ir.into[labels[u].block], m.into[labels[u].block], hits[u], Carried(u, res))
  <2>1. CASE u = t
    <3>1. \A k \in Len(ir.into[b]) + 1 .. Len(m.into[b]) : m.into[b][k].vals = C
      <4>1. ASSUME NEW k \in Len(ir.into[b]) + 1 .. Len(m.into[b]) PROVE m.into[b][k] = Edge(ir.cur, C)
        <5>1. k = Len(ir.into[b]) + 1
          BY <1>8, <1>9, <4>1
        <5> QED
          BY <1>9, <5>1
      <4> QED
        BY <4>1 DEF Edge
    <3>2. Extends(ir.into[b], m.into[b], 1, C)
      BY <1>9, <3>1 DEF Extends
    <3> QED
      BY <1>1, <2>1, <3>2 DEF b, C
  <2>2. CASE u # t
    <3>1. labels[u].block # b /\ labels[u].block \in Blocks
      BY <1>0, <1>10, <2>2, BlocksDiffer, BlockFacts DEF b
    <3>2. m.into[labels[u].block] = ir.into[labels[u].block] /\ hits[u] = 0
      BY <1>0, <1>1, <1>3, <1>6, <2>2, <3>1
    <3>3. ir.into[labels[u].block] \in Seq(BranchType)
      BY <1>0, <3>1 DEF IsIr
    <3> QED
      BY <3>2, <3>3 DEF Extends
  <2> QED
    BY <2>1, <2>2
<1>11. ASSUME NEW x \in Blocks, \A u \in DOMAIN labels : labels[u].block # x
       PROVE  m.into[x] = ir.into[x]
  BY <1>0, <1>3, <1>6, <1>11 DEF b
<1>12. ASSUME NEW x \in DOMAIN m.into, NEW k \in DOMAIN m.into[x]
       PROVE  m.into[x][k].src \in DOMAIN m.into
  <2>1. DOMAIN m.into = Blocks /\ x \in Blocks
    <3>1. m.into \in Seq(Seq(BranchType)) /\ Len(m.into) = Len(ir.into)
      BY <1>3, <1>6 DEF IsIr
    <3>2. Blocks = 1 .. Len(ir.into)
      BY <1>0 DEF IsIr, Blocks
    <3>3. DOMAIN m.into = Blocks
      BY ONLY <3>1, <3>2
    <3> QED
      BY <1>12, <3>3
  <2>2. CASE x # b
    BY <1>0, <1>3, <1>6, <1>12, <2>1, <2>2 DEF SourcesInv
  <2>3. CASE x = b
    <3>1. k \in 1 .. Len(ir.into[b]) + 1
      BY <1>9, <1>12, <2>3
    <3>2. CASE k = Len(ir.into[b]) + 1
      BY <1>8, <1>9, <2>1, <2>3, <3>2 DEF Edge
    <3>3. CASE k \in 1 .. Len(ir.into[b])
      BY <1>0, <1>4, <1>8, <1>9, <2>1, <2>3, <3>3 DEF SourcesInv
    <3> QED
      BY <1>8, <3>1, <3>2, <3>3
  <2> QED
    BY <2>2, <2>3
<1>13. \A p \in DOMAIN m.phis : p[1] \in Blocks
  BY <1>0, <1>2, <1>3, <1>6 DEF PhisInv
<1>14. Branches(m, hits, res)
  <2>1. Len(ir.into) <= Len(m.into) /\ ir.values <= m.values
    BY <1>0, <1>3, <1>6 DEF IsIr
  <2>2. /\ DOMAIN m.phis = DOMAIN ir.phis \cup DOMAIN P
        /\ \A p \in DOMAIN P : m.phis[p] = P[p]
        /\ \A p \in DOMAIN ir.phis \ DOMAIN P : m.phis[p] = ir.phis[p]
    BY <1>3, <1>6
  <2> QED
    BY <1>6, <1>10, <1>11, <1>12, <2>1, <2>2 DEF Branches, P
<1>15. FromCursor(m)
  <2>1. DOMAIN m.into = Blocks
    <3>1. m.into \in Seq(Seq(BranchType)) /\ Len(m.into) = Len(ir.into)
      BY <1>3, <1>6 DEF IsIr
    <3> QED
      BY <1>0, <3>1
  <2>2. ASSUME NEW x \in Blocks, x # b
        PROVE  m.into[x] = ir.into[x]
    BY <1>0, <1>3, <1>6, <2>2
  <2>3. ASSUME NEW k \in DOMAIN m.into[b]
        PROVE  k \in DOMAIN ir.into[b] \/ m.into[b][k].src = ir.cur
    <3>1. CASE k = Len(ir.into[b]) + 1
      BY <1>9, <3>1 DEF Edge
    <3>2. CASE k # Len(ir.into[b]) + 1
      BY <1>8, <1>9, <2>3, <3>2
    <3> QED
      BY <3>1, <3>2
  <2>4. ASSUME NEW x \in Blocks, NEW k \in DOMAIN m.into[x]
        PROVE  k \in DOMAIN ir.into[x] \/ m.into[x][k].src = ir.cur
    BY <2>2, <2>3, <2>4
  <2> QED
    BY ONLY <2>1, <2>4 DEF FromCursor
<1> QED
  BY <1>3, <1>6, <1>7, <1>13, <1>14, <1>15 DEF hits

(* Moving the cursor or closing its block builds no branch. *)
LEMMA BranchesMove ==
  ASSUME NEW hits, NEW res, NEW m, Branches(m, hits, res), NEW x \in Nat
  PROVE  /\ Branches(At(m, x), hits, res) /\ At(m, x).cur = x /\ At(m, x).into = m.into
         /\ At(m, x).term = m.term /\ At(m, x).hollow = m.hollow /\ At(m, x).phis = m.phis
<1>1. IsIr(m)
  BY DEF Branches
<1> DEFINE a == At(m, x)
<1>2. /\ IsIr(a) /\ a.into = m.into /\ a.cur = x /\ a.term = m.term /\ a.values = m.values /\ a.phis = m.phis
      /\ a.hollow = m.hollow
  BY <1>1, AtFacts
<1> HIDE DEF a
<1>3. Branches(a, hits, res)
  BY <1>2 DEF Branches
<1> QED
  BY <1>2, <1>3 DEF a

(* A handler that builds branches and keeps the locals. *)
LEMMA HitStep ==
  ASSUME TrInv, Live, Consume, nest' = nest, locals' = locals, entry' = entry,
         NEW hits, NEW res, Hits(hits, res), Branches(ir', hits, res), \A p \in DOMAIN ir'.phis : p[1] \in Blocks,
         NEW dead \in BOOLEAN, CursorMoves(dead), NEW s \in Seq(Operands),
         TopOf(hits, res, labels', s, dead, 0), \A j \in DOMAIN s : Usable(s[j].val)
  PROVE  TrInv'
<1>0. Shape /\ Chain /\ LabelsInv /\ ValuesInv /\ OpenInv
  BY Parts
<1>1. /\ status = "running" /\ labels # <<>> /\ ~Top.terminated
      /\ Counted /\ nest' - Top.depth = nest - Top.depth /\ Top.depth = 0
  BY LiveFacts
<1>2. TopChanges(hits, res) /\ labels' # <<>> /\ labels'[Len(labels)].stack = s
      /\ labels'[Len(labels')].terminated = dead /\ labels'[Len(labels)].depth = 0
  <2> DEFINE d == 0
  <2>1. TopOf(hits, res, labels', s, dead, d) /\ (~dead => d = 0)
    OBVIOUS
  <2> HIDE DEF d
  <2>2. TopChanges(hits, res) /\ labels' # <<>> /\ labels'[Len(labels)].stack = s
        /\ labels'[Len(labels')].terminated = dead /\ labels'[Len(labels)].depth = d
    BY <1>0, <1>1, <2>1, TopOfChanges
  <2> QED
    BY <2>2 DEF d
<1>3. Pending' = Pending
  BY <1>0, <1>1, <1>2, PendingStays DEF TopChanges
<1>4. ASSUME NEW v, Usable(v) PROVE Usable(v)'
  BY <1>0, <1>3, <1>4, StepUsable
<1>5. LocalsUsable
  BY <1>1, <1>4, LocalsStay
<1>6. HeldUsable
  BY <1>2, <1>4, <1>5 DEF HeldUsable, LocalsUsable
<1>7. OpenInv'
  <2>1. CursorMoves(labels'[Len(labels')].terminated)
    BY <1>2
  <2> QED
    BY <1>0, <1>1, <1>2, <1>3, <2>1, OpenStep
<1>8. nest' - labels'[Len(labels)].depth = nest - Top.depth
  BY <1>0, <1>1, <1>2 DEF Shape
<1> QED
  BY <1>1, <1>2, <1>6, <1>7, <1>8, InPlace

(* What a branch takes from the stack. *)
LEMMA OperandFacts ==
  ASSUME Shape, NEW t \in DOMAIN labels
  PROVE  /\ Operand(t) \in Seq(Types) /\ Len(Operand(t)) \in {0, 1}
         /\ Operand(t) = <<>> <=> Len(Operand(t)) = 0
         /\ ~IsBody(t) => (Len(Operand(t)) = 1 <=> MergesResult(labels[t]))
<1>1. labels[t].rtype \in Types /\ RetType \in Types
  BY LabelsTyped, LabelTyped, TranslateAssumption DEF Types
<1>2. CASE IsBody(t) /\ RetType # NoType
  <2>1. Operand(t) = <<RetType>>
    BY <1>2 DEF Operand
  <2> QED
    BY <1>1, <1>2, <2>1
<1>3. CASE ~IsBody(t) /\ MergesResult(labels[t])
  <2>1. Operand(t) = <<labels[t].rtype>>
    BY <1>3 DEF Operand
  <2> QED
    BY <1>1, <1>3, <2>1
<1>4. CASE ~(IsBody(t) /\ RetType # NoType) /\ ~(~IsBody(t) /\ MergesResult(labels[t]))
  <2>1. Operand(t) = <<>>
    BY <1>4 DEF Operand
  <2> QED
    BY <1>4, <2>1
<1> QED
  BY <1>2, <1>3, <1>4

(* The label a branch names. *)
LEMMA TargetFacts ==
  ASSUME TrInv, status = "running", labels # <<>>, NEW d \in Nat, d < TopIdx
  PROVE  /\ Target(d) \in DOMAIN labels /\ (~IsBody(Target(d)) => Target(d) > 1)
         /\ Operand(Target(d)) \in Seq(Types) /\ Len(Operand(Target(d))) \in {0, 1}
         /\ Operand(Target(d)) = <<>> <=> Len(Operand(Target(d))) = 0
         /\ ~IsBody(Target(d)) => (Len(Operand(Target(d))) = 1 <=> MergesResult(labels[Target(d)]))
<1>1. labels \in Seq(LabelType) /\ Shape /\ Len(labels) \in Nat
  BY Parts DEF Shape
<1> DEFINE t == Target(d)
<1>2. t \in DOMAIN labels /\ (~IsBody(t) => t > 1)
  BY <1>1 DEF Target, TopIdx, IsBody
<1> HIDE DEF t
<1>3. /\ Operand(t) \in Seq(Types) /\ Len(Operand(t)) \in {0, 1}
      /\ Operand(t) = <<>> <=> Len(Operand(t)) = 0
      /\ ~IsBody(t) => (Len(Operand(t)) = 1 <=> MergesResult(labels[t]))
  BY <1>1, <1>2, OperandFacts
<1> QED
  BY <1>2, <1>3 DEF t

LEMMA BrStep ==
  ASSUME TrInv, NEW d \in Depths, Br(d)
  PROVE  TrInv'
<1> DEFINE t == Target(d)
           n == Len(Operand(t))
           res == IF n = 0 THEN Invalid ELSE Peek(0)
           s == Drop(Top.stack, n)
<1>1. /\ Live /\ Consume /\ nest' = nest /\ locals' = locals /\ entry' = entry
      /\ d < TopIdx /\ d \in Nat /\ CanPop(Operand(t))
      /\ \/ IsBody(t) /\ ir' = Terminate(ir) /\ labels' = Close(Popped(n))
         \/ ~IsBody(t) /\ ir' = JumpTo(t, res) /\ labels' = Close(PreparedLabels(Popped(n), Once(t), res))
  BY TranslateAssumption DEF Br, JumpTo
<1>2. /\ status = "running" /\ labels # <<>> /\ ~Top.terminated /\ Top.terminated = FALSE /\ Top.depth = 0
      /\ ir.cur \in Blocks \ (ir.term \cup ir.hollow \cup Pending)
  BY <1>1, LiveFacts
<1>3. /\ t \in DOMAIN labels /\ (~IsBody(t) => t > 1) /\ Operand(t) \in Seq(Types) /\ n \in {0, 1}
      /\ ~IsBody(t) => (n = 1 <=> MergesResult(labels[t]))
  <2>1. TrInv /\ status = "running" /\ labels # <<>> /\ d \in Nat /\ d < TopIdx
    BY <1>1, <1>2
  <2> QED
    BY <2>1, TargetFacts
<1>4. n \in 0 .. Len(Top.stack) /\ Len(Top.stack) \in Nat
  <2> DEFINE tys == Operand(t)
  <2>1. tys \in Seq(Types) /\ CanPop(tys)
    BY <1>1, <1>3
  <2> HIDE DEF tys
  <2>2. Len(tys) \in 0 .. Len(Top.stack) /\ Len(Top.stack) \in Nat
    BY <1>2, <2>1, CanPopFacts
  <2> QED
    BY <2>2 DEF tys
<1> HIDE DEF t, n
<1>5. /\ TopOf(None, Invalid, Popped(n), s, FALSE, 0) /\ s \in Seq(Operands)
      /\ \A j \in DOMAIN s : Usable(s[j].val)
  BY <1>2, <1>4, PopFacts
<1>6. n = 1 => Usable(res)
  <2>1. ASSUME n = 1 PROVE Usable(Peek(0))
    <3>1. Len(Top.stack) - 0 \in 1 .. Len(Top.stack)
      BY <1>4, <2>1
    <3> QED
      BY <1>2, <3>1, TopFacts DEF Peek
  <2> QED
    BY <2>1
<1> HIDE DEF s, res
<1> DEFINE yes == TRUE
<1>7. CASE IsBody(t)
  <2>1. ir' = Terminate(ir) /\ labels' = Close(Popped(n))
    BY <1>1, <1>7
  <2>2. TopOf(None, Invalid, labels', s, yes, 0)
    BY <1>2, <1>5, <2>1, TopOfClose, Parts
  <2>3. Quiet(ir') /\ CursorMoves(yes) /\ yes \in BOOLEAN
    BY <1>2, <2>1, SameIr, CursorCloses
  <2> HIDE DEF yes
  <2> QED
    BY <1>1, <1>5, <2>2, <2>3, LiveStep
<1>8. CASE ~IsBody(t)
  <2>1. /\ ir' = JumpTo(t, res) /\ labels' = Close(PreparedLabels(Popped(n), Once(t), res))
        /\ t > 1 /\ (MergesResult(labels[t]) => Usable(res))
    BY <1>1, <1>3, <1>6, <1>8
  <2>2. /\ Branches(ir', Once(t), res) /\ ir'.cur = ir.cur /\ ir'.term = ir.term \cup {ir.cur}
        /\ ir'.hollow = ir.hollow /\ Len(ir'.into) = Len(ir.into) /\ \A p \in DOMAIN ir'.phis : p[1] \in Blocks
    BY <1>2, <1>3, <2>1, JumpToFacts
  <2> DEFINE hits == Once(t)
  <2>3. Hits(hits, res)
    BY <1>2, <1>3, <2>1, OnceHits
  <2>4. Branches(ir', hits, res)
    BY <2>2
  <2> HIDE DEF hits
  <2>5. TopOf(hits, res, PreparedLabels(Popped(n), hits, res), s, FALSE, 0)
    <3> DEFINE no == FALSE
               ls == Popped(n)
               k == 0
    <3>1. TopOf(None, Invalid, ls, s, no, k)
      BY <1>5
    <3> HIDE DEF no, ls, k
    <3>2. TopOf(hits, res, PreparedLabels(ls, hits, res), s, no, k)
      BY <1>2, <2>3, <3>1, TopOfPrepared, Parts
    <3> QED
      BY <3>2 DEF no, ls, k
  <2>6. TopOf(hits, res, labels', s, yes, 0)
    <3> DEFINE ls == PreparedLabels(Popped(n), hits, res)
    <3>1. labels' = Close(ls)
      BY <2>1 DEF hits
    <3> HIDE DEF ls
    <3> QED
      BY <1>2, <2>5, <3>1, TopOfClose, Parts DEF ls
  <2>7. CursorMoves(yes) /\ yes \in BOOLEAN
    <3>1. Blocks' = Blocks
      BY <2>2, Parts DEF Blocks, Branches, Shape, IsIr
    <3> QED
      BY <1>2, <2>2, <3>1, Parts DEF CursorMoves, OpenInv
  <2> HIDE DEF yes
  <2> QED
    BY <1>1, <1>5, <2>2, <2>3, <2>4, <2>6, <2>7, HitStep
<1> QED
  BY <1>7, <1>8

-----------------------------------------------------------------------------
(* The end of a block: its merge slots become the locals and the result.   *)

(* What a merge slot holds fits the branches into the block, and may be    *)
(* used from the block on.                                                 *)
LEMMA MergedFits ==
  ASSUME TrInv, status = "running", TopIdx > 1, ~Top.loop, NEW hits, NEW res, Hits(hits, res),
         Branches(ir', hits, res), Pending' = Pending \ {Top.block}, \A w : Usable(w) => Usable(w)',
         NEW l, l = After(hits, res, Len(labels)), NEW i \in DOMAIN l.merge
  PROVE  /\ \A v : v = l.merge[i].val => Usable(v)'
         /\ \A k \in DOMAIN ir'.into[Top.block] :
              (IF l.merge[i].val \in DOMAIN ir'.phis /\ DefinedIn(l.merge[i].val) = Top.block
               THEN ir'.phis[l.merge[i].val][k] ELSE l.merge[i].val) = ir'.into[Top.block][k].vals[i]
<1> DEFINE b == Top.block
           E == ir'.into[b]
           v == l.merge[i].val
<1>0. Shape /\ Chain /\ LabelsInv /\ PhisInv /\ ValuesInv
  BY Parts
<1>1. Len(labels) \in DOMAIN labels /\ Len(labels) > 1 /\ Top = labels[Len(labels)]
  BY <1>0 DEF Shape, TopIdx, Top
<1>2. /\ l \in LabelType /\ l.block = b /\ ~l.loop /\ l.merge \in Seq(Slot)
  BY <1>0, <1>1, AfterFacts, LabelTyped
<1>3. LabelOK(l, E, ir'.phis)
  BY <1>0, <1>1, StepLabel
<1>4. SlotOK(l, E, ir'.phis, i)
  BY <1>3 DEF LabelOK
<1>5. b \in Blocks /\ b \in Pending /\ b \in Nat /\ b > 0
  BY <1>0, <1>1, BlockFacts DEF Pending
<1>6. b \in Blocks' /\ b \notin Pending'
  BY <1>0, <1>5 DEF Blocks, Branches, Shape, IsIr
<1> HIDE DEF b, E
<1>7. CASE l.merge[i].phi = NoPhi
  <2>1. Usable(v)
    BY <1>0, <1>1, <1>7, StepSlots
  <2>2. DefinedIn(v) # b
    BY <1>5, <2>1 DEF Usable
  <2>3. \A k \in DOMAIN E : E[k].vals[i] = v
    BY <1>4, <1>7 DEF SlotOK
  <2>4. Usable(v)'
    BY <2>1
  <2> QED
    BY <2>2, <2>3, <2>4 DEF b, E
<1>8. CASE l.merge[i].phi # NoPhi
  <2>1. v = Phi(b, i) /\ v \in DOMAIN ir'.phis /\ \A k \in DOMAIN E : ir'.phis[v][k] = E[k].vals[i]
    BY <1>2, <1>4, <1>8 DEF SlotOK
  <2>2. i \in Nat /\ i > 0
    BY <1>2
  <2>3. v \in Value /\ DefinedIn(v) = b /\ v[2] # 0
    BY <1>5, <2>1, <2>2, PhiFacts DEF DefinedIn
  <2> HIDE DEF v
  <2>4. \A w : w = v => Usable(w)'
    BY <1>6, <2>1, <2>3 DEF Usable, IsValue, DefinedIn
  <2> QED
    BY <2>1, <2>3, <2>4 DEF b, E, v
<1> QED
  BY <1>7, <1>8

(* Translation goes on in the block of label l, with what l has merged. *)
GoesOnIn(l) ==
  /\ locals' = AfterBlock(l)
  /\ labels' = OuterWith(l.rtype, IF MergesResult(l) THEN l.merge[Len(l.merge)].val ELSE Invalid)
  /\ entry' = [b \in DOMAIN entry \cup {l.block} |->
                 IF b # l.block THEN entry[b]
                 ELSE locals' \o (IF MergesResult(l) THEN <<l.merge[Len(l.merge)].val>> ELSE <<>>)]

(* The cursor comes to the block of the innermost label. *)
ComesToBlock ==
  /\ \A p \in DOMAIN ir'.phis : p[1] \in Blocks
  /\ Len(ir'.into) = Len(ir.into) /\ ir'.cur = Top.block /\ ir'.hollow = ir.hollow
  /\ ir'.term = ir.term \cup (IF Falls THEN {ir.cur} ELSE {})

(* A sequence of values with or without one more. *)
LEMMA WithOneMore ==
  ASSUME NEW L \in Seq(Value), NEW x, NEW more \in BOOLEAN, more => x \in Value,
         NEW m, m = L \o (IF more THEN <<x>> ELSE <<>>)
  PROVE  /\ m \in Seq(Value) /\ Len(m) = Len(L) + (IF more THEN 1 ELSE 0)
         /\ \A k \in 1 .. Len(L) : m[k] = L[k]
         /\ more => m[Len(L) + 1] = x
<1> DEFINE tail == IF more THEN <<x>> ELSE <<>>
<1>1. tail \in Seq(Value) /\ Len(tail) = (IF more THEN 1 ELSE 0) /\ (more => tail[1] = x)
  OBVIOUS
<1>2. m = L \o tail
  OBVIOUS
<1> HIDE DEF tail
<1>3. /\ L \o tail \in Seq(Value) /\ Len(L \o tail) = Len(L) + Len(tail)
      /\ \A k \in 1 .. Len(L) : (L \o tail)[k] = L[k]
      /\ \A k \in 1 .. Len(tail) : (L \o tail)[Len(L) + k] = tail[k]
  <2>1. L \in Seq(Value) /\ tail \in Seq(Value)
    BY <1>1
  <2> QED
    BY ONLY <2>1, SeqConcat
<1> QED
  BY <1>1, <1>2, <1>3

(* What code after the block finds on the stack. *)
EndResult(l) == IF MergesResult(l) THEN l.merge[Len(l.merge)].val ELSE Invalid

EndStack(l) == WithResult(labels[TopIdx - 1].stack, l.rtype, EndResult(l))

EndLocals(l) ==
  /\ locals' \in Seq(Value) /\ Len(locals') = Len(LocalType)
  /\ \A i \in 1 .. Len(LocalType) : i \in DOMAIN l.merge /\ locals'[i] = l.merge[i].val

LEMMA GoesOnFacts ==
  ASSUME TrInv, status = "running", TopIdx > 1, ~Top.loop, NEW hits, NEW res, Hits(hits, res),
         Branches(ir', hits, res), NEW l, l = After(hits, res, Len(labels)), l.reached, GoesOnIn(l)
  PROVE  /\ l \in LabelType /\ l.block = Top.block /\ ~l.loop /\ l.merge \in Seq(Slot) /\ l.rtype \in Types
         /\ Top.block \in Blocks /\ Top.block \in Pending /\ Top.block \in Nat /\ Top.block > 0
         /\ Len(l.merge) = Len(LocalType) + (IF MergesResult(l) THEN 1 ELSE 0)
         /\ \A i \in DOMAIN l.merge : l.merge[i].val \in Value
         /\ l.rtype # NoType => /\ MergesResult(l) /\ EndResult(l) = l.merge[Len(l.merge)].val
                                /\ EndResult(l) \in Value /\ Len(l.merge) \in DOMAIN l.merge
         /\ OuterLike(labels', EndStack(l), FALSE)
         /\ \A j \in DOMAIN EndStack(l) :
              Usable(EndStack(l)[j].val) \/ (l.rtype # NoType /\ EndStack(l)[j].val = EndResult(l))
         /\ EndLocals(l)
<1> DEFINE b == Top.block
           N == Len(LocalType)
           result == l.merge[Len(l.merge)].val
           v == EndResult(l)
           s == EndStack(l)
           no == FALSE
<1>0. Shape /\ Chain /\ OpenInv /\ LabelsInv /\ PhisInv /\ ValuesInv /\ EntryInv /\ labels # <<>>
  BY Parts, OuterFacts
<1>1. Len(labels) \in DOMAIN labels /\ Len(labels) > 1 /\ Top = labels[Len(labels)] /\ N \in Nat
      /\ LocalIdx = 1 .. N
  BY <1>0, TranslateAssumption DEF Shape, TopIdx, Top, LocalIdx
<1>2. /\ l \in LabelType /\ l.block = b /\ ~l.loop /\ l.merge \in Seq(Slot) /\ l.rtype \in Types
  BY <1>0, <1>1, AfterFacts, LabelTyped
<1>3. b \in Blocks /\ b \in Pending /\ b \in Nat /\ b > 0
  BY <1>0, <1>1, BlockFacts DEF Pending
<1>4. Len(l.merge) = N + (IF MergesResult(l) THEN 1 ELSE 0)
  <2>1. LabelOK(l, ir'.into[b], ir'.phis)
    BY <1>0, <1>1, StepLabel
  <2> QED
    BY <1>2, <2>1 DEF LabelOK
<1> HIDE DEF b, N
<1>5. \A i \in DOMAIN l.merge : l.merge[i].val \in Value
  <2>1. \A i \in DOMAIN l.merge : l.merge[i] \in Slot
    BY <1>2
  <2> QED
    BY <2>1 DEF Slot
<1>6. l.rtype # NoType => MergesResult(l) /\ v = result /\ v \in Value /\ Len(l.merge) \in DOMAIN l.merge
  BY <1>1, <1>2, <1>4, <1>5 DEF MergesResult, EndResult
<1>7. OuterLike(labels', s, no) /\ \A j \in DOMAIN s : Usable(s[j].val) \/ (l.rtype # NoType /\ s[j].val = v)
  <2> DEFINE rtype == l.rtype
  <2>1. rtype \in Types /\ (rtype # NoType => v \in Value) /\ labels' = OuterWith(rtype, v)
    BY <1>2, <1>6 DEF GoesOnIn, EndResult
  <2> HIDE DEF rtype, v
  <2>2. GoesOn(rtype, v)
    BY <2>1, OuterWithGoesOn
  <2> QED
    BY <2>1, <2>2 DEF GoesOn, rtype, EndStack, v
<1>8. locals' \in Seq(Value) /\ Len(locals') = N /\ \A i \in 1 .. N : i \in DOMAIN l.merge /\ locals'[i] = l.merge[i].val
  <2>1. locals' = [i \in 1 .. N |-> l.merge[i].val]
    BY <1>1 DEF AfterBlock, GoesOnIn
  <2>2. \A i \in 1 .. N : i \in DOMAIN l.merge
    BY <1>1, <1>2, <1>4
  <2>3. locals' \in [1 .. N -> Value]
    BY <1>5, <2>1, <2>2
  <2> QED
    BY <1>1, <2>1, <2>2, <2>3, SeqOfFunction
<1> QED
  BY <1>2, <1>3, <1>4, <1>5, <1>6, <1>7, <1>8 DEF b, N, EndLocals

(* Where translation goes on after the block: the block itself. *)
LEMMA EndReached ==
  ASSUME TrInv, status = "running", ops < MaxOps, Consume, nest' = nest - 1, Top.depth = 0, TopIdx > 1, ~Top.loop,
         NEW hits, NEW res, Hits(hits, res), \A t \in DOMAIN labels : t < Len(labels) => hits[t] = 0,
         Branches(ir', hits, res), ComesToBlock,
         NEW l, l = After(hits, res, Len(labels)), l.reached, GoesOnIn(l)
  PROVE  TrInv'
<1>23. /\ TrInv /\ status = "running" /\ TopIdx > 1 /\ ~Top.loop /\ Hits(hits, res) /\ Branches(ir', hits, res)
       /\ l = After(hits, res, Len(labels)) /\ l.reached /\ GoesOnIn(l)
  OBVIOUS
<1>20. OuterLike(labels', EndStack(l), FALSE)
  BY ONLY <1>23, GoesOnFacts
<1>21. \A j \in DOMAIN EndStack(l) :
         Usable(EndStack(l)[j].val) \/ (l.rtype # NoType /\ EndStack(l)[j].val = EndResult(l))
  BY ONLY <1>23, GoesOnFacts
<1>22. EndLocals(l)
  BY ONLY <1>23, GoesOnFacts
<1> DEFINE b == Top.block
           N == Len(LocalType)
           result == l.merge[Len(l.merge)].val
           v == EndResult(l)
           s == EndStack(l)
           no == FALSE
<1>0. Shape /\ Chain /\ OpenInv /\ LabelsInv /\ PhisInv /\ ValuesInv /\ EntryInv /\ labels # <<>>
  BY Parts, OuterFacts
<1>1. N \in Nat /\ LocalIdx = 1 .. N
  BY TranslateAssumption DEF LocalIdx
<1>2. /\ l \in LabelType /\ l.block = b /\ ~l.loop /\ l.merge \in Seq(Slot) /\ l.rtype \in Types
  BY GoesOnFacts
<1>3. b \in Blocks /\ b \in Pending /\ b \in Nat /\ b > 0
  BY GoesOnFacts
<1>4. Len(l.merge) = N + (IF MergesResult(l) THEN 1 ELSE 0)
  BY GoesOnFacts
<1>5. \A i \in DOMAIN l.merge : l.merge[i].val \in Value
  BY GoesOnFacts
<1>6. l.rtype # NoType => MergesResult(l) /\ v = result /\ v \in Value /\ Len(l.merge) \in DOMAIN l.merge
  BY GoesOnFacts
<1>7. OuterLike(labels', s, no) /\ \A j \in DOMAIN s : Usable(s[j].val) \/ (l.rtype # NoType /\ s[j].val = v)
  BY <1>20, <1>21
<1>10. locals' \in Seq(Value) /\ Len(locals') = N /\ \A i \in 1 .. N : i \in DOMAIN l.merge /\ locals'[i] = l.merge[i].val
  BY <1>22 DEF EndLocals
<1> HIDE DEF s, no, v, b, N
<1>8. /\ Stays(hits, res) /\ PendingNew /\ Pending' = Pending \ {b} /\ labels' # <<>> /\ labels'[Len(labels')] = Top'
      /\ DOMAIN labels' \subseteq DOMAIN labels /\ Top'.terminated = no
      /\ \A w : Usable(w) => Usable(w)'
  BY <1>7, PopLabel DEF b
<1>9. ASSUME NEW i \in DOMAIN l.merge
      PROVE  /\ \A w : w = l.merge[i].val => Usable(w)'
             /\ \A k \in DOMAIN ir'.into[b] :
                  (IF l.merge[i].val \in DOMAIN ir'.phis /\ DefinedIn(l.merge[i].val) = b
                   THEN ir'.phis[l.merge[i].val][k] ELSE l.merge[i].val) = ir'.into[b][k].vals[i]
  <2>1. TopIdx > 1 /\ Pending' = Pending \ {Top.block} /\ \A w : Usable(w) => Usable(w)'
    BY <1>8 DEF b
  <2> QED
    BY <1>9, <2>1, MergedFits DEF b
<1>11. LocalsUsable
  <2>1. DOMAIN locals' = 1 .. N
    BY <1>10
  <2> QED
    BY <1>9, <1>10, <2>1 DEF LocalsUsable, N
<1>12. StackUsable(s)
  <2>1. l.rtype # NoType => \A w : w = v => Usable(w)'
    BY <1>6, <1>9
  <2> QED
    BY <1>7, <1>8, <2>1 DEF StackUsable
<1>13. Blocks' = Blocks /\ Blocks = 1 .. Len(ir.into)
  BY <1>0 DEF Blocks, Branches, Shape, IsIr, ComesToBlock
<1>14. OpenInv'
  <2>1. /\ ir.term \subseteq Blocks /\ ir.hollow \subseteq Blocks \ ir.term
        /\ Pending \cap (ir.term \cup ir.hollow) = {}
        /\ \A x \in Blocks \ (ir.term \cup ir.hollow \cup Pending) : ~Top.terminated /\ x = ir.cur
        /\ IF Top.terminated THEN ir.cur \in ir.term ELSE ir.cur \in Blocks \ (ir.term \cup ir.hollow \cup Pending)
    BY <1>0 DEF OpenInv
  <2>2. ir'.cur = b /\ ir'.hollow = ir.hollow /\ ~Top'.terminated /\ b \in 0 .. Len(ir'.into)
    BY <1>3, <1>8, <1>13 DEF b, no, ComesToBlock
  <2>3. CASE Falls
    <3>1. ir'.term = ir.term \cup {ir.cur} /\ ~Top.terminated
      BY <2>3 DEF Falls, ComesToBlock
    <3> QED
      BY <1>3, <1>8, <1>13, <2>1, <2>2, <3>1 DEF OpenInv
  <2>4. CASE ~Falls
    <3>1. ir'.term = ir.term /\ Top.terminated
      BY <2>4 DEF Falls, ComesToBlock
    <3> QED
      BY <1>3, <1>8, <1>13, <2>1, <2>2, <3>1 DEF OpenInv
  <2> QED
    BY <2>3, <2>4
<1>15. DOMAIN entry' = DOMAIN entry \cup {b} /\ b \notin DOMAIN entry
       /\ entry' = [x \in DOMAIN entry' |-> entry'[x]]
       /\ (\A x \in DOMAIN entry : entry'[x] = entry[x])
       /\ entry'[b] = locals' \o (IF MergesResult(l) THEN <<result>> ELSE <<>>)
  <2>1. b \notin DOMAIN entry
    BY <1>0, <1>3 DEF EntryInv
  <2> HIDE DEF result
  <2>2. entry' = [x \in DOMAIN entry \cup {b} |->
                    IF x # b THEN entry[x] ELSE locals' \o (IF MergesResult(l) THEN <<result>> ELSE <<>>)]
    BY <1>2 DEF result, GoesOnIn
  <2> QED
    BY <2>1, <2>2
<1>16. ASSUME NEW i \in DOMAIN entry'[b] PROVE i \in DOMAIN l.merge /\ entry'[b][i] = l.merge[i].val
  <2> DEFINE more == MergesResult(l)
             L == locals'
             m == entry'[b]
  <2>1. more \in BOOLEAN
    BY <1>2 DEF MergesResult
  <2>2. more => result \in Value /\ Len(l.merge) = N + 1 /\ N + 1 \in DOMAIN l.merge
    BY <1>1, <1>2, <1>4, <1>5 DEF N
  <2>3. L \in Seq(Value) /\ Len(L) = N /\ N \in Nat
    BY <1>1, <1>10 DEF N
  <2> HIDE DEF result
  <2>4. m = L \o (IF more THEN <<result>> ELSE <<>>)
    BY <1>15
  <2> HIDE DEF more, L, m
  <2>5. /\ m \in Seq(Value) /\ Len(m) = Len(L) + (IF more THEN 1 ELSE 0)
        /\ \A k \in 1 .. Len(L) : m[k] = L[k]
        /\ more => m[Len(L) + 1] = result
    BY <2>1, <2>2, <2>3, <2>4, WithOneMore
  <2>6. i \in 1 .. Len(m)
    BY <1>16, <2>5 DEF m
  <2>7. CASE i \in 1 .. N
    BY <1>10, <2>3, <2>5, <2>7 DEF L, m
  <2>8. CASE i \notin 1 .. N
    <3>1. more /\ i = N + 1
      BY <2>3, <2>5, <2>6, <2>8
    <3>2. m[i] = result /\ i = Len(l.merge) /\ i \in DOMAIN l.merge
      BY <2>2, <2>3, <2>5, <3>1
    <3> QED
      BY <3>2 DEF m, result
  <2> QED
    BY <2>7, <2>8
<1>17. EntryFits(b)
  BY <1>3, <1>8, <1>9, <1>13, <1>16 DEF EntryFits
<1>18. EntryInv'
  <2>1. /\ DOMAIN entry \subseteq DOMAIN entry'
        /\ \A x \in DOMAIN entry' : x \notin DOMAIN entry => EntryFits(x)
    BY <1>15, <1>17
  <2>2. \A t \in DOMAIN labels' : t \notin DOMAIN labels /\ labels'[t].loop =>
           /\ labels'[t].block \in DOMAIN entry'
           /\ entry'[labels'[t].block] = [i \in LocalIdx |-> Phi(labels'[t].block, i)]
    BY <1>8
  <2> QED
    BY <1>8, <1>15, <2>1, <2>2, EntryStep
<1>19. \A p \in DOMAIN ir'.phis : p[1] \in Blocks
  BY DEF ComesToBlock
<1> QED
  BY <1>7, <1>11, <1>12, <1>14, <1>18, <1>19, PopStep

(* Where nothing comes to the block and nothing falls out of it, it is      *)
(* closed and the code after it is dead.                                    *)
LEMMA EndSealed ==
  ASSUME TrInv, status = "running", ops < MaxOps, Consume, nest' = nest - 1, Top.depth = 0, TopIdx > 1, ~Top.loop,
         Top.terminated, ir' = Seal(At(ir, Top.block)), labels' = OuterClosed, locals' = locals, entry' = entry
  PROVE  TrInv'
<1> DEFINE b == Top.block
           a == At(ir, b)
           s == labels[TopIdx - 1].stack
           yes == TRUE
<1>0. Shape /\ Chain /\ OpenInv /\ PhisInv /\ EntryInv /\ labels # <<>> /\ IsIr(ir)
  BY Parts, OuterFacts DEF Shape
<1>1. Len(labels) \in DOMAIN labels /\ Len(labels) > 1 /\ Top = labels[Len(labels)]
  BY <1>0 DEF Shape, TopIdx, Top
<1>2. b \in Blocks /\ b \in Pending /\ b \in Nat /\ b > 0
  BY <1>0, <1>1, BlockFacts DEF Pending
<1> HIDE DEF b
<1>3. /\ IsIr(a) /\ a.into = ir.into /\ a.cur = b /\ a.term = ir.term /\ a.values = ir.values
      /\ a.phis = ir.phis /\ a.hollow = ir.hollow
  BY <1>0, <1>2, AtFacts
<1>4. ir' = Terminate(a)
  BY DEF Seal, a, b
<1> HIDE DEF a
<1>5. /\ IsIr(ir') /\ ir'.into = ir.into /\ ir'.cur = b /\ ir'.term = ir.term \cup {b} /\ ir'.values = ir.values
      /\ ir'.phis = ir.phis /\ ir'.hollow = ir.hollow
  BY <1>3, <1>4, TerminateFacts
<1>6. Quiet(ir')
  <2>1. Quiet(ir)
    BY SameIr
  <2> QED
    BY <1>5, <2>1 DEF Quiet
<1>7. Branches(ir', None, Invalid) /\ Hits(None, Invalid) /\ \A t \in DOMAIN labels : t < Len(labels) => None[t] = 0
  BY <1>0, <1>6, QuietBranches, NoneHits DEF None
<1>8. OuterLike(labels', s, yes) /\ \A j \in DOMAIN s : Usable(s[j].val)
  BY OuterClosedFacts, OuterFacts
<1> HIDE DEF s, yes
<1>9. /\ Stays(None, Invalid) /\ PendingNew /\ Pending' = Pending \ {b} /\ labels' # <<>> /\ labels'[Len(labels')] = Top'
      /\ DOMAIN labels' \subseteq DOMAIN labels /\ Top'.terminated = yes
      /\ \A w : Usable(w) => Usable(w)'
  BY <1>7, <1>8, PopLabel DEF b
<1>10. StackUsable(s)
  BY <1>8, <1>9 DEF StackUsable
<1>11. LocalsUsable
  BY <1>9, LocalsStay
<1>12. Blocks' = Blocks /\ Blocks = 1 .. Len(ir.into)
  BY <1>0, <1>5 DEF Blocks, IsIr
<1>13. OpenInv'
  <2>1. /\ ir.term \subseteq Blocks /\ ir.hollow \subseteq Blocks \ ir.term
        /\ Pending \cap (ir.term \cup ir.hollow) = {}
        /\ \A x \in Blocks \ (ir.term \cup ir.hollow \cup Pending) : ~Top.terminated /\ x = ir.cur
        /\ ir.cur \in ir.term
    BY <1>0 DEF OpenInv
  <2>2. b \in 0 .. Len(ir'.into) /\ Top'.terminated
    BY <1>2, <1>5, <1>9, <1>12 DEF yes
  <2> QED
    BY <1>2, <1>5, <1>9, <1>12, <2>1, <2>2 DEF OpenInv
<1>14. \A p \in DOMAIN ir'.phis : p[1] \in Blocks
  BY <1>0, <1>5 DEF PhisInv
<1>15. EntryInv'
  <2>1. entry' = [x \in DOMAIN entry' |-> entry'[x]] /\ DOMAIN entry \subseteq DOMAIN entry'
        /\ (\A x \in DOMAIN entry : entry'[x] = entry[x])
        /\ (\A x \in DOMAIN entry' : x \notin DOMAIN entry => EntryFits(x))
    BY <1>0 DEF EntryInv
  <2>2. \A t \in DOMAIN labels' : t \notin DOMAIN labels /\ labels'[t].loop =>
           /\ labels'[t].block \in DOMAIN entry'
           /\ entry'[labels'[t].block] = [i \in LocalIdx |-> Phi(labels'[t].block, i)]
    BY <1>9
  <2> QED
    BY <1>7, <1>9, <2>1, <2>2, EntryStep
<1> QED
  BY <1>7, <1>8, <1>10, <1>11, <1>13, <1>14, <1>15, PopStep

(* Translation goes on in the block, after these branches: the one falling *)
(* in, if code falls in.                                                   *)
Comes(hits, res) ==
  /\ Hits(hits, res) /\ (\A t \in DOMAIN labels : t < Len(labels) => hits[t] = 0)
  /\ Branches(ir', hits, res) /\ ComesToBlock
  /\ After(hits, res, Len(labels)).reached /\ GoesOnIn(After(hits, res, Len(labels)))
  /\ FromCursor(ir') /\ (~Falls => ir'.into = ir.into)
  /\ \A t \in DOMAIN labels : hits[t] > 0 /\ MergesResult(labels[t]) => Len(Top.stack) > 0 /\ res = Peek(0)

LEMMA EndBlockFacts ==
  ASSUME TrInv, status = "running", labels # <<>>, EndBlock
  PROVE  /\ TopIdx > 1 /\ ~Top.loop
         /\ \/ /\ Top.terminated /\ ir' = Seal(At(ir, Top.block)) /\ labels' = OuterClosed
               /\ locals' = locals /\ entry' = entry
            \/ \E hits, res : Comes(hits, res)
<1> DEFINE T == TopIdx
           n == Len(Operand(T))
           res == IF n = 0 THEN Invalid ELSE Peek(0)
           hits == Once(T)
           prepared == PreparedLabels(labels, hits, res)[T]
<1>0. /\ Shape /\ Chain /\ LabelsInv /\ ValuesInv /\ PhisInv /\ IsIr(ir) /\ TopIdx > 1 /\ ~Top.loop
      /\ T = Len(labels) /\ T \in DOMAIN labels /\ Top = labels[T] /\ ~IsBody(T) /\ Top \in LabelType
  <2>1. TopIdx > 1 /\ ~Top.loop
    BY DEF EndBlock
  <2>2. Top \in LabelType /\ Top = labels[Len(labels)] /\ Len(labels) \in DOMAIN labels
    BY TopFacts
  <2>3. /\ Shape /\ Chain /\ LabelsInv /\ ValuesInv /\ PhisInv
    BY Parts
  <2>4. IsIr(ir)
    BY <2>3 DEF Shape
  <2>5. T = Len(labels) /\ ~IsBody(T)
    BY ONLY <2>1, <2>2 DEF IsBody, TopIdx
  <2> QED
    BY ONLY <2>1, <2>2, <2>3, <2>4, <2>5
<1>1. n \in {0, 1} /\ (n = 1 <=> MergesResult(Top))
  <2>1. Shape /\ T \in DOMAIN labels
    BY <1>0
  <2> HIDE DEF T
  <2>2. /\ Len(Operand(T)) \in {0, 1}
        /\ ~IsBody(T) => (Len(Operand(T)) = 1 <=> MergesResult(labels[T]))
    BY <2>1, OperandFacts
  <2> QED
    BY <1>0, <2>2
<1>2. CASE Falls
  <2>1. /\ Len(Top.stack) = n
        /\ \/ ~prepared.reached
           \/ prepared.reached /\ ir' = At(JumpTo(T, res), prepared.block) /\ GoesOnIn(prepared)
    <3> DEFINE out == IF Falls THEN [ir |-> JumpTo(T, res), label |-> prepared] ELSE [ir |-> ir, label |-> Top]
    <3>1. /\ Falls => CanPop(Operand(TopIdx)) /\ Len(Top.stack) = n
          /\ \/ ~out.label.reached
             \/ out.label.reached /\ ir' = At(out.ir, out.label.block) /\ GoesOnIn(out.label)
      BY DEF EndBlock, JumpTo, GoesOnIn, AfterResult, Top
    <3> HIDE DEF prepared
    <3>2. out.ir = JumpTo(T, res) /\ out.label = prepared
      BY <1>2
    <3> HIDE DEF out
    <3> QED
      BY <1>2, <3>1, <3>2
  <2>2. MergesResult(labels[T]) => Usable(res)
    <3>1. ASSUME n = 1 PROVE Usable(Peek(0))
      <4>1. Len(Top.stack) - 0 \in 1 .. Len(Top.stack)
        BY <2>1, <3>1
      <4> QED
        BY <4>1, TopFacts DEF Peek
    <3> QED
      BY <1>0, <1>1, <3>1
  <2> HIDE DEF T, n, res
  <2>3. T > 1
    BY <1>0 DEF T
  <2>4. Hits(hits, res) /\ hits[T] = 1 /\ \A u \in DOMAIN labels : u # T => hits[u] = 0
    BY <1>0, <2>2, <2>3, OnceHits
  <2>5. /\ Branches(JumpTo(T, res), Once(T), res)
        /\ JumpTo(T, res).cur = ir.cur /\ JumpTo(T, res).term = ir.term \cup {ir.cur}
        /\ JumpTo(T, res).hollow = ir.hollow /\ Len(JumpTo(T, res).into) = Len(ir.into)
        /\ \A p \in DOMAIN JumpTo(T, res).phis : p[1] \in Blocks
        /\ FromCursor(JumpTo(T, res))
    BY <1>0, <2>2, <2>3, JumpToFacts
  <2> DEFINE j == JumpTo(T, res)
  <2>6. Branches(j, hits, res)
    BY <2>5
  <2> HIDE DEF hits
  <2>7. prepared = After(hits, res, Len(labels))
    <3>1. prepared = HitLabel(labels[T], Merged(T, res), hits[T])
      <4> DEFINE new(t) == IF hits[t] = 0 THEN labels[t] ELSE HitLabel(labels[t], Merged(t, res), hits[t])
      <4>1. PreparedLabels(labels, hits, res) = [t \in DOMAIN labels |-> new(t)]
        BY DEF PreparedLabels, Merged, HitLabel
      <4>2. prepared = new(T)
        BY <1>0, <4>1
      <4> QED
        BY <2>4, <4>2
    <3> QED
      BY <1>0, <2>4, <3>1 DEF After
  <2> DEFINE l == prepared
  <2> HIDE DEF prepared
  <2>8. l \in LabelType /\ l.block = Top.block /\ l.reached
    <3>1. l = HitLabel(labels[T], Merged(T, res), hits[T]) /\ hits[T] > 0
      BY <1>0, <2>4, <2>7 DEF After
    <3>2. Merged(T, res) \in Seq(Slot)
      BY <1>0, <2>4, <3>1, MergedType
    <3>3. labels[T] \in LabelType /\ hits[T] \in Nat
      BY <1>0, <2>4
    <3> DEFINE k == labels[T]
               g == Merged(T, res)
               h == hits[T]
    <3>4. k \in LabelType /\ g \in Seq(Slot) /\ h \in Nat
      BY <3>2, <3>3
    <3>5. l = HitLabel(k, g, h) /\ Top = k
      BY <1>0, <3>1
    <3> HIDE DEF k, g, h
    <3>6. HitLabel(k, g, h) \in LabelType /\ HitLabel(k, g, h).block = k.block /\ HitLabel(k, g, h).reached
      BY ONLY <3>4, HitLabelFacts
    <3> QED
      BY ONLY <3>5, <3>6
  <2>9. ir' = At(j, Top.block) /\ GoesOnIn(l)
    BY <2>1, <2>8
  <2> DEFINE x == Top.block
  <2>10. x \in Nat
    BY <1>0, LabelTyped
  <2> HIDE DEF j, l, x
  <2>11. /\ Branches(At(j, x), hits, res) /\ At(j, x).cur = x /\ At(j, x).into = j.into
         /\ At(j, x).term = j.term /\ At(j, x).hollow = j.hollow /\ At(j, x).phis = j.phis
    BY <2>6, <2>10, BranchesMove
  <2>12. Branches(ir', hits, res) /\ ComesToBlock
    BY <1>2, <2>5, <2>9, <2>11 DEF ComesToBlock, x, j
  <2>13. \A t \in DOMAIN labels : t < Len(labels) => hits[t] = 0
    BY <1>0, <2>4
  <2>14. FromCursor(ir')
    <3>1. ir'.into = j.into /\ FromCursor(j)
      BY <2>5, <2>9, <2>11 DEF x, j
    <3> QED
      BY <3>1 DEF FromCursor
  <2>15. \A t \in DOMAIN labels : hits[t] > 0 /\ MergesResult(labels[t]) => Len(Top.stack) > 0 /\ res = Peek(0)
    <3>1. \A t \in DOMAIN labels : hits[t] > 0 => t = T
      BY <2>4
    <3>2. MergesResult(Top) => n = 1 /\ res = Peek(0)
      BY <1>1 DEF res
    <3>3. MergesResult(labels[T]) => Len(Top.stack) > 0 /\ res = Peek(0)
      BY <1>0, <2>1, <3>2
    <3> QED
      BY <3>1, <3>3
  <2> QED
    BY <1>0, <1>2, <2>4, <2>7, <2>8, <2>9, <2>12, <2>13, <2>14, <2>15 DEF l, Comes
<1>3. CASE ~Falls
  <2>1. \/ ~Top.reached /\ ir' = Seal(At(ir, Top.block)) /\ labels' = OuterClosed /\ locals' = locals /\ entry' = entry
        \/ Top.reached /\ ir' = At(ir, Top.block) /\ GoesOnIn(Top)
    BY <1>3 DEF EndBlock, GoesOnIn, AfterResult
  <2>2. Top.terminated
    BY <1>3 DEF Falls
  <2>3. CASE ~Top.reached
    BY <1>0, <2>1, <2>2, <2>3
  <2>4. CASE Top.reached
    <3>1. Quiet(ir)
      BY SameIr
    <3>2. Branches(ir, None, Invalid) /\ Hits(None, Invalid) /\ \A t \in DOMAIN labels : t < Len(labels) => None[t] = 0
      BY <1>0, <3>1, QuietBranches, NoneHits DEF None
    <3> DEFINE x == Top.block
               l == Top
    <3>3. x \in Nat
      BY <1>0, LabelTyped
    <3>4. ir' = At(ir, x)
      BY <2>1, <2>4
    <3> HIDE DEF x
    <3>5. /\ Branches(At(ir, x), None, Invalid) /\ At(ir, x).cur = x /\ At(ir, x).into = ir.into
          /\ At(ir, x).term = ir.term /\ At(ir, x).hollow = ir.hollow /\ At(ir, x).phis = ir.phis
      BY <3>2, <3>3, BranchesMove
    <3>6. Branches(ir', None, Invalid) /\ ComesToBlock
      BY <1>0, <1>3, <3>4, <3>5 DEF ComesToBlock, x, PhisInv
    <3>7. l = After(None, Invalid, Len(labels)) /\ l.reached /\ GoesOnIn(l)
      <4>1. After(None, Invalid, T) = labels[T]
        BY <1>0, NoneHits
      <4> QED
        BY <1>0, <2>1, <2>4, <4>1
    <3>8. ir'.into = ir.into
      BY <3>4, <3>5
    <3>9. FromCursor(ir')
      BY <3>8 DEF FromCursor, Blocks
    <3>10. \A t \in DOMAIN labels : None[t] = 0
      BY DEF None
    <3>11. Comes(None, Invalid)
      BY <1>3, <3>2, <3>6, <3>7, <3>8, <3>9, <3>10 DEF Comes
    <3> QED
      BY <1>0, <3>11
  <2> QED
    BY <2>3, <2>4
<1> QED
  BY <1>2, <1>3

LEMMA EndBlockStep ==
  ASSUME TrInv, status = "running", labels # <<>>, ops < MaxOps, Consume, nest' = nest - 1, Top.depth = 0, EndBlock
  PROVE  TrInv'
<1>1. TopIdx > 1 /\ ~Top.loop
  BY EndBlockFacts
<1>2. CASE \E hits, res : Comes(hits, res)
  <2>1. PICK hits, res : Comes(hits, res)
    BY <1>2
  <2> DEFINE l == After(hits, res, Len(labels))
  <2>2. /\ Hits(hits, res) /\ (\A t \in DOMAIN labels : t < Len(labels) => hits[t] = 0)
        /\ Branches(ir', hits, res) /\ ComesToBlock /\ l.reached /\ GoesOnIn(l)
    BY <2>1 DEF Comes
  <2> HIDE DEF l
  <2>3. l = After(hits, res, Len(labels))
    BY DEF l
  <2> QED
    BY <1>1, <2>2, <2>3, EndReached
<1>3. CASE /\ Top.terminated /\ ir' = Seal(At(ir, Top.block)) /\ labels' = OuterClosed
           /\ locals' = locals /\ entry' = entry
  BY <1>1, <1>3, EndSealed
<1> QED
  BY <1>2, <1>3, EndBlockFacts

LEMMA EndStep ==
  ASSUME TrInv, End
  PROVE  TrInv'
<1>1. /\ status = "running" /\ labels # <<>> /\ ops < MaxOps /\ nest' = nest - 1 /\ Consume
      /\ Top.terminated => Top.depth = 0
      /\ EndBody \/ EndBlock \/ EndLoop
  BY DEF End
<1>2. Top.depth = 0
  BY <1>1, TopFacts
<1> QED
  BY <1>1, <1>2, EndBodyStep, EndBlockStep, EndLoopStep

(* A branch to label t or on to a new block. *)
ForkTo(t, res) ==
  At(Fork(WithPhis(CreateBlocks(ir, 1), PreparedPhis(Once(t), res)), labels[t].block, Carried(t, res),
          NewBlock(ir), locals), NewBlock(ir))

LEMMA ForkToFacts ==
  ASSUME TrInv, status = "running", NEW t \in DOMAIN labels, t > 1, NEW res, MergesResult(labels[t]) => Usable(res)
  PROVE  /\ Branches(ForkTo(t, res), Once(t), res)
         /\ ForkTo(t, res).cur = NewBlock(ir) /\ ForkTo(t, res).term = ir.term \cup {ir.cur}
         /\ ForkTo(t, res).hollow = ir.hollow /\ Len(ForkTo(t, res).into) = Len(ir.into) + 1
         /\ \A p \in DOMAIN ForkTo(t, res).phis : p[1] \in Blocks
         /\ FromCursor(ForkTo(t, res)) /\ ForkTo(t, res).into[NewBlock(ir)] # <<>>
<1> DEFINE hits == Once(t)
           P == PreparedPhis(hits, res)
           N == NewBlock(ir)
           c == CreateBlocks(ir, 1)
           w == WithPhis(c, P)
           b == labels[t].block
           C == Carried(t, res)
           f == Fork(w, b, C, N, locals)
           m == At(f, N)
<1>0. /\ Shape /\ Chain /\ OpenInv /\ PhisInv /\ SourcesInv /\ ValuesInv /\ IsIr(ir) /\ Blocks = 1 .. Len(ir.into)
      /\ Len(ir.into) \in Nat /\ labels # <<>> /\ N = Len(ir.into) + 1 /\ N \in Nat /\ locals \in Seq(Value)
  <2>1. Shape /\ Chain /\ OpenInv /\ PhisInv /\ SourcesInv /\ ValuesInv
    BY Parts
  <2> QED
    BY <2>1, LabelsTyped DEF Shape, IsIr, Blocks, NewBlock
<1>1. Hits(hits, res) /\ hits[t] = 1 /\ \A u \in DOMAIN labels : u # t => hits[u] = 0
  BY OnceHits
<1> HIDE DEF hits
<1>2. IsPhis(P) /\ \A p \in DOMAIN P : p[1] \in Blocks
  BY <1>1, PreparedTyped
<1> HIDE DEF P, N
<1>3. /\ IsIr(c) /\ Len(c.into) = Len(ir.into) + 1
      /\ \A x \in 1 .. Len(ir.into) : c.into[x] = ir.into[x]
      /\ \A x \in Len(ir.into) + 1 .. Len(ir.into) + 1 : c.into[x] = <<>>
      /\ c.cur = ir.cur /\ c.term = ir.term /\ c.values = ir.values /\ c.phis = ir.phis
      /\ c.hollow = ir.hollow
  <2>1. IsIr(ir) /\ 1 \in Nat
    BY <1>0
  <2> QED
    BY <2>1, CreateBlocksFacts
<1> HIDE DEF c
<1>4. /\ IsIr(w) /\ w.into = c.into /\ w.cur = c.cur /\ w.term = c.term /\ w.values = c.values
      /\ w.hollow = c.hollow /\ DOMAIN w.phis = DOMAIN c.phis \cup DOMAIN P
      /\ \A p \in DOMAIN P : w.phis[p] = P[p]
      /\ \A p \in DOMAIN c.phis \ DOMAIN P : w.phis[p] = c.phis[p]
  BY <1>2, <1>3, WithPhisFacts
<1> HIDE DEF w
<1>5. b \in Blocks /\ b \in 1 .. Len(w.into) /\ N \in 1 .. Len(w.into) /\ N # b /\ N \notin Blocks
  <2>1. b \in Blocks
    BY <1>0, BlockFacts
  <2> QED
    BY <1>0, <1>3, <1>4, <2>1
<1>6. C \in Seq(Value)
  <2>1. hits[t] > 0
    BY <1>1
  <2> QED
    BY <1>0, <1>1, <2>1, CarriedUsable
<1> HIDE DEF b, C
<1>7. /\ IsIr(f) /\ Len(f.into) = Len(w.into)
      /\ f.into[b] = Append(w.into[b], Edge(w.cur, C))
      /\ f.into[N] = Append(w.into[N], Edge(w.cur, locals))
      /\ \A x \in 1 .. Len(w.into) : x # b /\ x # N => f.into[x] = w.into[x]
      /\ f.cur = w.cur /\ f.term = w.term \cup {w.cur} /\ f.values = w.values /\ f.phis = w.phis
      /\ f.hollow = w.hollow
  <2>1. IsIr(w) /\ b \in 1 .. Len(w.into) /\ N \in 1 .. Len(w.into) /\ N # b /\ C \in Seq(Value) /\ locals \in Seq(Value)
    BY <1>0, <1>4, <1>5, <1>6
  <2>2. Forked(f, w, b, C, N, locals)
    BY <2>1, ForkFacts
  <2> HIDE DEF f
  <2> QED
    BY <2>2 DEF Forked
<1> HIDE DEF f
<1>8. /\ IsIr(m) /\ m.into = f.into /\ m.cur = N /\ m.term = f.term /\ m.values = f.values /\ m.phis = f.phis
      /\ m.hollow = f.hollow
  <2>1. IsIr(f) /\ N \in Nat
    BY <1>0, <1>7
  <2> QED
    BY <2>1, AtFacts
<1> HIDE DEF m
<1>9. ForkTo(t, res) = m
  BY DEF ForkTo, m, f, C, b, w, c, N, P, hits
<1>10. ir.into[b] \in Seq(BranchType) /\ Edge(ir.cur, C) \in BranchType /\ ir.cur \in Blocks
  BY <1>0, <1>5, <1>6 DEF IsIr, Edge, BranchType, OpenInv
<1>11. /\ Len(m.into) = Len(ir.into) + 1 /\ DOMAIN m.into = Blocks \cup {N}
       /\ m.into[b] = Append(ir.into[b], Edge(ir.cur, C))
       /\ \A x \in Blocks : x # b => m.into[x] = ir.into[x]
       /\ m.into[N] = <<Edge(ir.cur, locals)>>
  <2>1. Len(m.into) = Len(ir.into) + 1 /\ DOMAIN m.into = Blocks \cup {N}
    <3>1. Len(m.into) = Len(ir.into) + 1
      BY <1>3, <1>4, <1>7, <1>8
    <3>2. m.into \in Seq(Seq(BranchType))
      BY <1>8 DEF IsIr
    <3>3. DOMAIN m.into = 1 .. Len(ir.into) + 1
      BY <3>1, <3>2
    <3> QED
      BY <1>0, <3>1, <3>3
  <2>2. m.into[b] = Append(ir.into[b], Edge(ir.cur, C))
    <3>1. w.into[b] = ir.into[b] /\ w.cur = ir.cur
      BY <1>0, <1>3, <1>4, <1>5
    <3>2. m.into[b] = Append(w.into[b], Edge(w.cur, C))
      BY <1>7, <1>8
    <3> QED
      BY ONLY <3>1, <3>2
  <2>3. ASSUME NEW x \in Blocks, x # b PROVE m.into[x] = ir.into[x]
    <3>1. x \in 1 .. Len(w.into) /\ x # N /\ x \in 1 .. Len(ir.into)
      BY <1>0, <1>3, <1>4, <1>5, <2>3
    <3> QED
      BY <1>3, <1>4, <1>7, <1>8, <2>3, <3>1
  <2>4. m.into[N] = <<Edge(ir.cur, locals)>>
    <3>1. w.into[N] = <<>>
      BY <1>0, <1>3, <1>4
    <3> QED
      BY <1>3, <1>4, <1>7, <1>8, <3>1
  <2> QED
    BY <2>1, <2>2, <2>3, <2>4
<1>12. /\ Len(m.into[b]) = Len(ir.into[b]) + 1
       /\ \A k \in 1 .. Len(ir.into[b]) : m.into[b][k] = ir.into[b][k]
       /\ m.into[b][Len(ir.into[b]) + 1] = Edge(ir.cur, C)
       /\ m.into[b] \in Seq(BranchType)
  <2> DEFINE E == ir.into[b]
             x == Edge(ir.cur, C)
  <2>1. m.into[b] = Append(E, x) /\ E \in Seq(BranchType) /\ x \in BranchType
    BY <1>10, <1>11
  <2> HIDE DEF E, x
  <2>2. /\ Append(E, x) \in Seq(BranchType) /\ Len(Append(E, x)) = Len(E) + 1
        /\ \A k \in 1 .. Len(E) : Append(E, x)[k] = E[k]
        /\ Append(E, x)[Len(E) + 1] = x
    BY <2>1, SeqAppend
  <2> QED
    BY <2>1, <2>2 DEF E, x
<1>13. ASSUME NEW u \in DOMAIN labels, u > 1
       PROVE  Extends(ir.into[labels[u].block], m.into[labels[u].block], hits[u], Carried(u, res))
  <2>1. CASE u = t
    <3>1. \A k \in Len(ir.into[b]) + 1 .. Len(m.into[b]) : m.into[b][k].vals = C
      <4>1. ASSUME NEW k \in Len(ir.into[b]) + 1 .. Len(m.into[b]) PROVE m.into[b][k] = Edge(ir.cur, C)
        <5>1. k = Len(ir.into[b]) + 1
          BY <1>10, <1>12, <4>1
        <5> QED
          BY <1>12, <5>1
      <4> QED
        BY <4>1 DEF Edge
    <3>2. Extends(ir.into[b], m.into[b], 1, C)
      BY <1>12, <3>1 DEF Extends
    <3> QED
      BY <1>1, <2>1, <3>2 DEF b, C
  <2>2. CASE u # t
    <3>1. labels[u].block # b /\ labels[u].block \in Blocks
      BY <1>0, <1>13, <2>2, BlocksDiffer, BlockFacts DEF b
    <3>2. m.into[labels[u].block] = ir.into[labels[u].block] /\ hits[u] = 0
      BY <1>1, <1>11, <2>2, <3>1
    <3>3. ir.into[labels[u].block] \in Seq(BranchType)
      BY <1>0, <3>1 DEF IsIr
    <3> QED
      BY <3>2, <3>3 DEF Extends
  <2> QED
    BY <2>1, <2>2
<1>14. ASSUME NEW x \in Blocks, \A u \in DOMAIN labels : labels[u].block # x
       PROVE  m.into[x] = ir.into[x]
  BY <1>11, <1>14 DEF b
<1>15. ASSUME NEW x \in DOMAIN m.into, NEW k \in DOMAIN m.into[x]
       PROVE  m.into[x][k].src \in DOMAIN m.into
  <2>1. CASE x \in Blocks /\ x # b
    BY <1>0, <1>11, <1>15, <2>1 DEF SourcesInv
  <2>2. CASE x = b
    <3>1. k \in 1 .. Len(ir.into[b]) + 1
      BY <1>12, <1>15, <2>2
    <3>2. CASE k = Len(ir.into[b]) + 1
      BY <1>10, <1>11, <1>12, <2>2, <3>2 DEF Edge
    <3>3. CASE k \in 1 .. Len(ir.into[b])
      <4>1. k \in DOMAIN ir.into[b] /\ m.into[b][k] = ir.into[b][k]
        BY <1>10, <1>12, <3>3
      <4>2. ir.into[b][k].src \in Blocks
        BY <1>0, <1>5, <4>1 DEF SourcesInv
      <4> QED
        BY <1>11, <2>2, <4>1, <4>2
    <3> QED
      BY <1>10, <3>1, <3>2, <3>3
  <2>3. CASE x = N
    <3>1. m.into[x][k] = Edge(ir.cur, locals)
      BY <1>11, <1>15, <2>3
    <3> QED
      BY <1>10, <1>11, <3>1 DEF Edge
  <2> QED
    BY <1>11, <2>1, <2>2, <2>3
<1>16. \A p \in DOMAIN m.phis : p[1] \in Blocks
  BY <1>0, <1>2, <1>3, <1>4, <1>7, <1>8 DEF PhisInv
<1>17. Branches(m, hits, res)
  <2>1. Len(ir.into) <= Len(m.into) /\ ir.values <= m.values
    <3>1. ir.values \in Nat
      BY <1>0 DEF IsIr
    <3>2. m.values = ir.values
      BY <1>3, <1>4, <1>7, <1>8
    <3> QED
      BY <1>0, <1>11, <3>1, <3>2
  <2>2. /\ DOMAIN m.phis = DOMAIN ir.phis \cup DOMAIN P
        /\ \A p \in DOMAIN P : m.phis[p] = P[p]
        /\ \A p \in DOMAIN ir.phis \ DOMAIN P : m.phis[p] = ir.phis[p]
    BY <1>3, <1>4, <1>7, <1>8
  <2>3. IsIr(m)
    BY <1>8
  <2> QED
    BY <1>13, <1>14, <1>15, <2>1, <2>2, <2>3 DEF Branches, P
<1>18. m.term = ir.term \cup {ir.cur} /\ m.hollow = ir.hollow /\ m.cur = N
  BY <1>3, <1>4, <1>7, <1>8
<1>19. FromCursor(m)
  <2>1. ASSUME NEW k \in DOMAIN m.into[b]
        PROVE  k \in DOMAIN ir.into[b] \/ m.into[b][k].src = ir.cur
    <3>1. CASE k = Len(ir.into[b]) + 1
      BY <1>12, <3>1 DEF Edge
    <3>2. CASE k # Len(ir.into[b]) + 1
      BY <1>10, <1>12, <2>1, <3>2
    <3> QED
      BY <3>1, <3>2
  <2>2. ASSUME NEW x \in Blocks, NEW k \in DOMAIN m.into[x]
        PROVE  k \in DOMAIN ir.into[x] \/ m.into[x][k].src = ir.cur
    BY <1>11, <2>1, <2>2
  <2>3. ASSUME NEW k \in DOMAIN m.into[N]
        PROVE  m.into[N][k].src = ir.cur /\ m.into[N][k].vals = locals
    <3>1. m.into[N][k] = Edge(ir.cur, locals)
      BY <1>11, <2>3
    <3> QED
      BY <3>1 DEF Edge
  <2>4. DOMAIN m.into = Blocks \cup {N}
    BY <1>11
  <2> QED
    BY ONLY <2>2, <2>3, <2>4 DEF FromCursor
<1>20. m.into[N] # <<>>
  BY <1>11
<1> QED
  BY <1>9, <1>11, <1>16, <1>17, <1>18, <1>19, <1>20 DEF hits, N

LEMMA BrIfStep ==
  ASSUME TrInv, NEW d \in Depths, BrIf(d)
  PROVE  TrInv'
<1> DEFINE t == Target(d)
           n == Len(Operand(t))
           res == IF Operand(t) = <<>> THEN Invalid ELSE Peek(1)
           s == Drop(Top.stack, 1)
           no == FALSE
           k == 0
<1>1. /\ Live /\ Consume /\ nest' = nest /\ locals' = locals /\ entry' = entry
      /\ d < TopIdx /\ d \in Nat /\ Len(Top.stack) > n
      /\ \/ IsBody(t) /\ ir' = Split(NewBlock(ir) + 1, NewBlock(ir)) /\ labels' = Popped(1)
         \/ ~IsBody(t) /\ ir' = ForkTo(t, res) /\ labels' = PreparedLabels(Popped(1), Once(t), res)
  BY TranslateAssumption DEF BrIf, ForkTo, Split
<1>2. /\ status = "running" /\ labels # <<>> /\ ~Top.terminated /\ Top.terminated = FALSE /\ Top.depth = 0
      /\ ir.cur \in Blocks \ (ir.term \cup ir.hollow \cup Pending)
  BY <1>1, LiveFacts
<1>3. /\ t \in DOMAIN labels /\ (~IsBody(t) => t > 1) /\ n \in {0, 1} /\ (Operand(t) = <<>> <=> n = 0)
      /\ ~IsBody(t) => (n = 1 <=> MergesResult(labels[t]))
  <2>1. TrInv /\ status = "running" /\ labels # <<>> /\ d \in Nat /\ d < TopIdx
    BY <1>1, <1>2
  <2> QED
    BY <2>1, TargetFacts
<1>4. 1 \in 0 .. Len(Top.stack) /\ Len(Top.stack) \in Nat
  <2>1. Top.stack \in Seq(Operands)
    BY <1>2, TopFacts
  <2> QED
    BY <1>1, <1>3, <2>1
<1>5. /\ TopOf(None, Invalid, Popped(1), s, no, k) /\ s \in Seq(Operands)
      /\ \A j \in DOMAIN s : Usable(s[j].val)
  BY <1>2, <1>4, PopFacts
<1>6. n = 1 => Usable(res)
  <2>1. ASSUME n = 1 PROVE Usable(Peek(1))
    <3>1. Len(Top.stack) - 1 \in 1 .. Len(Top.stack)
      BY <1>1, <1>4, <2>1
    <3> QED
      BY <1>2, <3>1, TopFacts DEF Peek
  <2> QED
    BY <1>3, <2>1
<1> HIDE DEF s, res, t, n
<1>7. CASE IsBody(t)
  <2>1. ir' = Split(NewBlock(ir) + 1, NewBlock(ir)) /\ labels' = Popped(1)
    BY <1>1, <1>7
  <2>2. TopOf(None, Invalid, labels', s, no, 0)
    BY <1>5, <2>1
  <2> DEFINE x == NewBlock(ir) + 1
             y == NewBlock(ir)
  <2>3. NewTwo(x, y) /\ ir' = Split(x, y)
    BY <2>1 DEF NewTwo
  <2> HIDE DEF x, y
  <2>4. /\ Quiet(ir') /\ Len(ir'.into) = Len(ir.into) + 2 /\ ir'.cur = NewBlock(ir) /\ ir'.values = ir.values
        /\ ir'.term = ir.term \cup {ir.cur, NewBlock(ir) + 1} /\ ir'.hollow = ir.hollow
        /\ NewBlock(ir) \in Nat /\ Len(ir.into) \in Nat /\ NewBlock(ir) = Len(ir.into) + 1
    BY <1>2, <2>3, SplitFacts
  <2>5. CursorMoves(FALSE)
    <3>1. ir'.cur = Len(ir.into) + 1 /\ ir'.term = ir.term \cup {ir.cur, Len(ir.into) + 2}
      BY <2>4
    <3> QED
      BY <1>2, <2>4, <3>1, SplitMoves
  <2>6. CursorMoves(no) /\ no \in BOOLEAN
    BY <2>5
  <2> HIDE DEF no
  <2> QED
    BY <1>1, <1>5, <2>2, <2>4, <2>6, LiveStep
<1>8. CASE ~IsBody(t)
  <2>1. /\ ir' = ForkTo(t, res) /\ labels' = PreparedLabels(Popped(1), Once(t), res)
        /\ t > 1 /\ (MergesResult(labels[t]) => Usable(res))
    BY <1>1, <1>3, <1>6, <1>8
  <2>2. /\ Branches(ir', Once(t), res) /\ ir'.cur = NewBlock(ir) /\ ir'.term = ir.term \cup {ir.cur}
        /\ ir'.hollow = ir.hollow /\ Len(ir'.into) = Len(ir.into) + 1 /\ \A p \in DOMAIN ir'.phis : p[1] \in Blocks
    BY <1>2, <1>3, <2>1, ForkToFacts
  <2> DEFINE hits == Once(t)
             ls == Popped(1)
  <2>3. Hits(hits, res)
    BY <1>2, <1>3, <2>1, OnceHits
  <2>4. Branches(ir', hits, res) /\ labels' = PreparedLabels(ls, hits, res)
    BY <2>1, <2>2
  <2>5. TopOf(None, Invalid, ls, s, no, k)
    BY <1>5
  <2>6. CursorMoves(no) /\ no \in BOOLEAN
    <3>1. Blocks' = Blocks \cup {NewBlock(ir)} /\ NewBlock(ir) \notin Blocks
      <4>1. Len(ir.into) \in Nat /\ Blocks = 1 .. Len(ir.into)
        BY Parts DEF Blocks, Shape, IsIr
      <4>2. Blocks' = 1 .. Len(ir.into) + 1
        BY <2>2 DEF Blocks, Branches, IsIr
      <4> QED
        BY <4>1, <4>2 DEF NewBlock
    <3>2. NewBlock(ir) \notin ir.term \cup ir.hollow /\ NewBlock(ir) # ir.cur
      BY <1>2, <3>1, Parts DEF OpenInv
    <3> QED
      BY <1>2, <2>2, <3>1, <3>2, Parts DEF CursorMoves, OpenInv
  <2> HIDE DEF hits, ls, no, k
  <2>7. TopOf(hits, res, labels', s, no, k)
    BY <1>2, <2>3, <2>4, <2>5, TopOfPrepared, Parts
  <2>8. TopOf(hits, res, labels', s, no, 0)
    BY <2>7 DEF k
  <2> QED
    BY <1>1, <1>5, <2>2, <2>3, <2>4, <2>6, <2>8, HitStep
<1> QED
  BY <1>7, <1>8

-----------------------------------------------------------------------------
(* br_table: the parts of the handler, by name.                            *)

TableJs(tbl) == 0 .. Len(tbl.targets)

TableTo(tbl, j) == Target(IF j = 0 THEN tbl.default ELSE tbl.targets[j])

TableRes(tbl) == IF Len(Operand(TableTo(tbl, 0))) = 0 THEN Invalid ELSE Peek(1)

TableHits(tbl) ==
  [t \in DOMAIN labels |-> IF IsBody(t) THEN 0 ELSE Cardinality({j \in TableJs(tbl) : TableTo(tbl, j) = t})]

TableCases(tbl) == IF tbl.targets = <<>> THEN 1 ELSE Len(tbl.targets)

NewCase(j) == Len(ir.into) + j

RetCase(tbl) == NewCase(TableCases(tbl) + 1)

TableReturns(tbl) == \E j \in TableJs(tbl) : IsBody(TableTo(tbl, j))

TableLen(tbl) == NewCase(TableCases(tbl)) + (IF TableReturns(tbl) THEN 1 ELSE 0)

TableDest(tbl, j) == IF IsBody(TableTo(tbl, j)) THEN RetCase(tbl) ELSE labels[TableTo(tbl, j)].block

TableBranch(tbl, res, j) ==
  Edge(IF j = 0 THEN ir.cur ELSE NewCase(j),
       IF IsBody(TableTo(tbl, j)) THEN locals ELSE Carried(TableTo(tbl, j), res))

TableJsTo(tbl, b) == {j \in TableJs(tbl) : TableDest(tbl, j) = b}

Arriving(tbl, res, b) ==
  LET js == SetToSeq(TableJsTo(tbl, b)) IN [k \in DOMAIN js |-> TableBranch(tbl, res, js[k])]

Before(tbl, b) ==
  CASE b \in DOMAIN ir.into -> ir.into[b]
    [] b = NewCase(1) -> <<Edge(ir.cur, locals)>>
    [] b \in NewCase(2) .. NewCase(TableCases(tbl)) -> <<Edge(b - 1, locals)>>
    [] OTHER -> <<>>

TableInto(tbl, res) == [b \in 1 .. TableLen(tbl) |-> Before(tbl, b) \o Arriving(tbl, res, b)]

TableTerm(tbl) ==
  ir.term \cup {ir.cur} \cup {NewCase(i) : i \in DOMAIN tbl.targets}
    \cup (IF TableReturns(tbl) THEN {RetCase(tbl)} ELSE {})

TableHollow(tbl) == IF tbl.targets = <<>> THEN ir.hollow \cup {NewCase(1)} ELSE ir.hollow

TableCur(tbl) ==
  CASE TableReturns(tbl) -> RetCase(tbl)
    [] ~TableReturns(tbl) /\ tbl.targets # <<>> -> NewCase(TableCases(tbl))
    [] OTHER -> ir.cur

TableIr(tbl) ==
  LET w == WithPhis(ir, PreparedPhis(TableHits(tbl), TableRes(tbl))) IN
  [into |-> TableInto(tbl, TableRes(tbl)), cur |-> TableCur(tbl), term |-> TableTerm(tbl), values |-> ir.values,
   phis |-> w.phis, hollow |-> TableHollow(tbl)]

(* A finite set, in some order. *)
LEMMA EnumFacts ==
  ASSUME NEW S, IsFiniteSet(S)
  PROVE  /\ Cardinality(S) \in Nat
         /\ SetToSeq(S) \in [1 .. Cardinality(S) -> S]
         /\ DOMAIN SetToSeq(S) = 1 .. Cardinality(S)
<1>1. Cardinality(S) \in Nat /\ ExistsBijection(1 .. Cardinality(S), S)
  BY FS_CardinalityType
<1>2. \E f \in [1 .. Cardinality(S) -> S] : IsInjective(f)
  BY <1>1 DEF ExistsBijection, Bijection, Injection, IsInjective
<1>3. SetToSeq(S) \in [1 .. Cardinality(S) -> S]
  BY <1>2 DEF SetToSeq
<1> QED
  BY <1>1, <1>3

(* Where the entries of a table go. *)
LEMMA TableTargets ==
  ASSUME TrInv, status = "running", labels # <<>>, NEW tbl \in Tables,
         \A d \in {tbl.targets[i] : i \in DOMAIN tbl.targets} \cup {tbl.default} : d < TopIdx,
         NEW j \in TableJs(tbl)
  PROVE  /\ TableTo(tbl, j) \in DOMAIN labels /\ (~IsBody(TableTo(tbl, j)) => TableTo(tbl, j) > 1)
         /\ Operand(TableTo(tbl, j)) \in Seq(Types) /\ Len(Operand(TableTo(tbl, j))) \in {0, 1}
         /\ ~IsBody(TableTo(tbl, j)) => (Len(Operand(TableTo(tbl, j))) = 1 <=> MergesResult(labels[TableTo(tbl, j)]))
         /\ j = 0 \/ j \in DOMAIN tbl.targets
<1>1. tbl.targets \in Seq(Nat) /\ tbl.default \in Nat
  BY TranslateAssumption
<1>2. j = 0 \/ j \in DOMAIN tbl.targets
  BY <1>1 DEF TableJs
<1> DEFINE d == IF j = 0 THEN tbl.default ELSE tbl.targets[j]
<1>3. d \in Nat /\ d < TopIdx
  BY <1>1, <1>2
<1>4. TableTo(tbl, j) = Target(d)
  BY DEF TableTo
<1> HIDE DEF d
<1>5. /\ Target(d) \in DOMAIN labels /\ (~IsBody(Target(d)) => Target(d) > 1)
      /\ Operand(Target(d)) \in Seq(Types) /\ Len(Operand(Target(d))) \in {0, 1}
      /\ Operand(Target(d)) = <<>> <=> Len(Operand(Target(d))) = 0
      /\ ~IsBody(Target(d)) => (Len(Operand(Target(d))) = 1 <=> MergesResult(labels[Target(d)]))
  BY <1>3, TargetFacts
<1> QED
  BY <1>2, <1>4, <1>5

(* The conditions br_table checks, and what validation adds. *)
TableOK(tbl) ==
  /\ \A d \in {tbl.targets[i] : i \in DOMAIN tbl.targets} \cup {tbl.default} : d < TopIdx
  /\ \A i \in DOMAIN tbl.targets : Operand(Target(tbl.targets[i])) = Operand(Target(tbl.default))
  /\ CanPop(Append(Operand(Target(tbl.default)), I32))

(* The targets to one block are as many as it is hit. *)
LEMMA TableSubset ==
  ASSUME NEW tbl \in Tables, NEW S \in SUBSET TableJs(tbl)
  PROVE  IsFiniteSet(S) /\ Cardinality(S) \in Nat /\ (Cardinality(S) = 0 <=> S = {})
<1>1. IsFiniteSet(TableJs(tbl))
  <2>1. 0 \in Int /\ Len(tbl.targets) \in Int
    BY TranslateAssumption
  <2> QED
    BY <2>1, FS_Interval DEF TableJs
<1>2. IsFiniteSet(S)
  BY <1>1, FS_Subset
<1> QED
  BY <1>2, FS_CardinalityType, FS_EmptySet

(* The blocks br_table makes, by number. *)
LEMMA TableBlocks ==
  ASSUME Shape, NEW tbl \in Tables
  PROVE  /\ Len(ir.into) \in Nat /\ Blocks = 1 .. Len(ir.into)
         /\ tbl.targets \in Seq(Nat) /\ Len(tbl.targets) \in Nat /\ DOMAIN tbl.targets = 1 .. Len(tbl.targets)
         /\ TableCases(tbl) \in Nat /\ TableCases(tbl) >= 1 /\ Len(tbl.targets) <= TableCases(tbl)
         /\ (tbl.targets = <<>> => TableCases(tbl) = 1 /\ Len(tbl.targets) = 0)
         /\ (tbl.targets # <<>> => TableCases(tbl) = Len(tbl.targets))
         /\ RetCase(tbl) = Len(ir.into) + TableCases(tbl) + 1
         /\ TableLen(tbl) \in Nat
         /\ (TableReturns(tbl) => TableLen(tbl) = Len(ir.into) + TableCases(tbl) + 1)
         /\ (~TableReturns(tbl) => TableLen(tbl) = Len(ir.into) + TableCases(tbl))
<1>1. Len(ir.into) \in Nat /\ Blocks = 1 .. Len(ir.into)
  BY DEF Shape, IsIr, Blocks
<1>2. tbl.targets \in Seq(Nat)
  BY TranslateAssumption
<1>3. Len(tbl.targets) \in Nat /\ DOMAIN tbl.targets = 1 .. Len(tbl.targets) /\ (tbl.targets = <<>> <=> Len(tbl.targets) = 0)
  BY <1>2
<1>4. /\ TableCases(tbl) \in Nat /\ TableCases(tbl) >= 1 /\ Len(tbl.targets) <= TableCases(tbl)
      /\ (tbl.targets = <<>> => TableCases(tbl) = 1 /\ Len(tbl.targets) = 0)
      /\ (tbl.targets # <<>> => TableCases(tbl) = Len(tbl.targets))
  BY <1>3 DEF TableCases
<1>5. /\ RetCase(tbl) = Len(ir.into) + TableCases(tbl) + 1
      /\ TableLen(tbl) \in Nat
      /\ (TableReturns(tbl) => TableLen(tbl) = Len(ir.into) + TableCases(tbl) + 1)
      /\ (~TableReturns(tbl) => TableLen(tbl) = Len(ir.into) + TableCases(tbl))
  BY <1>1, <1>4 DEF RetCase, TableLen, NewCase
<1> QED
  BY <1>1, <1>2, <1>3, <1>4, <1>5

(* What all branches of the table carry. *)
LEMMA TableResUsable ==
  ASSUME TrInv, status = "running", labels # <<>>, NEW tbl \in Tables, TableOK(tbl), NEW j \in TableJs(tbl),
         ~IsBody(TableTo(tbl, j)), MergesResult(labels[TableTo(tbl, j)])
  PROVE  Usable(TableRes(tbl)) /\ TableRes(tbl) = Peek(1) /\ Len(Top.stack) > 1
<1>1. /\ Len(Operand(TableTo(tbl, j))) = 1
      /\ j = 0 \/ j \in DOMAIN tbl.targets
  BY TableTargets DEF TableOK
<1>2. Operand(TableTo(tbl, j)) = Operand(TableTo(tbl, 0))
  <2>1. 0 = 0
    OBVIOUS
  <2>2. TableTo(tbl, 0) = Target(tbl.default)
    BY DEF TableTo
  <2>3. CASE j = 0
    BY <2>3
  <2>4. CASE j \in DOMAIN tbl.targets /\ j # 0
    BY <2>2, <2>4 DEF TableOK, TableTo
  <2> QED
    BY <1>1, <2>3, <2>4
<1>3. TableRes(tbl) = Peek(1)
  <2>1. Len(Operand(TableTo(tbl, 0))) = 1
    BY ONLY <1>1, <1>2
  <2>2. Len(Operand(TableTo(tbl, 0))) # 0
    BY ONLY <2>1
  <2> QED
    BY ONLY <2>2, Zenon DEF TableRes
<1> DEFINE o == Operand(TableTo(tbl, 0))
<1>4. o \in Seq(Types) /\ Len(o) = 1
  <2>1. 0 \in TableJs(tbl)
    BY TranslateAssumption DEF TableJs
  <2>2. o \in Seq(Types)
    BY <2>1, TableTargets DEF TableOK
  <2> QED
    BY <1>1, <1>2, <2>2
<1>5. CanPop(Append(o, I32))
  BY DEF TableOK, TableTo
<1> HIDE DEF o
<1> DEFINE tys == Append(o, I32)
<1>6. tys \in Seq(Types) /\ Len(tys) = 2
  <2>1. I32 \in Types
    BY DEF Types, ValueTypes
  <2>2. \A S : \A q \in Seq(S) : \A x \in S : Append(q, x) \in Seq(S) /\ Len(Append(q, x)) = Len(q) + 1
    BY SeqAppend
  <2>3. Append(o, I32) \in Seq(Types) /\ Len(Append(o, I32)) = Len(o) + 1
    BY <1>4, <2>1, <2>2
  <2> QED
    BY <1>4, <2>3
<1>7. CanPop(tys)
  BY <1>5
<1> HIDE DEF tys
<1>8. Len(tys) \in 0 .. Len(Top.stack) /\ Len(Top.stack) \in Nat
  BY <1>6, <1>7, CanPopFacts
<1>9. Len(Top.stack) - 1 \in 1 .. Len(Top.stack) /\ Len(Top.stack) > 1
  BY <1>6, <1>8
<1>10. Usable(Peek(1))
  BY <1>9, TopFacts DEF Peek
<1> QED
  BY ONLY <1>3, <1>9, <1>10

LEMMA TableHitsFacts ==
  ASSUME TrInv, status = "running", labels # <<>>, NEW tbl \in Tables, TableOK(tbl)
  PROVE  /\ Hits(TableHits(tbl), TableRes(tbl))
         /\ \A t \in DOMAIN labels : TableHits(tbl)[t] > 0 /\ MergesResult(labels[t]) =>
              TableRes(tbl) = Peek(1) /\ Len(Top.stack) > 1
<1> DEFINE S(t) == {j \in TableJs(tbl) : TableTo(tbl, j) = t}
<1>1. \A t \in DOMAIN labels : Cardinality(S(t)) \in Nat /\ (Cardinality(S(t)) = 0 <=> S(t) = {})
  <2> TAKE t \in DOMAIN labels
  <2> DEFINE X == S(t)
  <2>1. X \in SUBSET TableJs(tbl)
    OBVIOUS
  <2> HIDE DEF X
  <2>2. Cardinality(X) \in Nat /\ (Cardinality(X) = 0 <=> X = {})
    BY <2>1, TableSubset
  <2> QED
    BY <2>2 DEF X
<1>2. TableHits(tbl) = [t \in DOMAIN labels |-> IF IsBody(t) THEN 0 ELSE Cardinality(S(t))]
  BY DEF TableHits
<1>3. TableHits(tbl) \in [DOMAIN labels -> Nat] /\ TableHits(tbl)[1] = 0
  <2>1. 1 \in DOMAIN labels
    BY Parts DEF Shape
  <2>2. IsBody(1)
    BY DEF IsBody
  <2> HIDE DEF S
  <2> QED
    BY <1>1, <1>2, <2>1, <2>2
<1>4. ASSUME NEW t \in DOMAIN labels, TableHits(tbl)[t] > 0, MergesResult(labels[t])
      PROVE  Usable(TableRes(tbl)) /\ TableRes(tbl) = Peek(1) /\ Len(Top.stack) > 1
  <2>1. ~IsBody(t) /\ Cardinality(S(t)) > 0
    <3> HIDE DEF S
    <3> QED
      BY <1>1, <1>2, <1>4
  <2>2. S(t) # {}
    <3>1. Cardinality(S(t)) # 0
      <4> HIDE DEF S
      <4> QED
        BY <2>1, <1>1
    <3> HIDE DEF S
    <3> QED
      BY <1>1, <3>1
  <2>3. PICK j \in TableJs(tbl) : TableTo(tbl, j) = t
    BY <2>2
  <2> QED
    BY <1>4, <2>1, <2>3, TableResUsable
<1> QED
  BY <1>3, <1>4 DEF Hits

(* A branch of the table. *)
LEMMA TableBranchFacts ==
  ASSUME TrInv, status = "running", labels # <<>>, NEW tbl \in Tables, TableOK(tbl), NEW j \in TableJs(tbl)
  PROVE  /\ TableBranch(tbl, TableRes(tbl), j) \in BranchType
         /\ TableBranch(tbl, TableRes(tbl), j).src \in 1 .. TableLen(tbl)
         /\ ~IsBody(TableTo(tbl, j)) =>
              TableBranch(tbl, TableRes(tbl), j).vals = Carried(TableTo(tbl, j), TableRes(tbl))
<1> DEFINE t == TableTo(tbl, j)
           res == TableRes(tbl)
           src == IF j = 0 THEN ir.cur ELSE NewCase(j)
           vals == IF IsBody(t) THEN locals ELSE Carried(t, res)
<1>0. Shape /\ OpenInv
  BY Parts
<1>1. t \in DOMAIN labels /\ (j = 0 \/ j \in DOMAIN tbl.targets)
  BY TableTargets DEF TableOK
<1>2. vals \in Seq(Value)
  <2>1. CASE IsBody(t)
    BY <1>0, <2>1 DEF Shape
  <2>2. CASE ~IsBody(t)
    <3>1. MergesResult(labels[t]) => res \in Value
      BY <2>2, TableResUsable DEF Usable
    <3> HIDE DEF t, res
    <3>2. Carried(t, res) \in Seq(Value)
      BY <1>0, <1>1, <3>1, CarriedFacts
    <3> QED
      BY <2>2, <3>2
  <2> QED
    BY <2>1, <2>2
<1>3. src \in 1 .. TableLen(tbl) /\ src \in Nat
  <2>1. CASE j = 0
    <3>1. ir.cur \in Blocks
      BY <1>0 DEF OpenInv
    <3> QED
      BY <1>0, <2>1, <3>1, TableBlocks
  <2>2. CASE j # 0 /\ j \in DOMAIN tbl.targets
    <3>1. /\ Len(ir.into) \in Nat /\ Len(tbl.targets) \in Nat /\ DOMAIN tbl.targets = 1 .. Len(tbl.targets)
          /\ TableCases(tbl) \in Nat /\ Len(tbl.targets) <= TableCases(tbl) /\ TableLen(tbl) \in Nat
          /\ Len(ir.into) + TableCases(tbl) <= TableLen(tbl)
      BY <1>0, TableBlocks
    <3>2. src = Len(ir.into) + j /\ j \in 1 .. Len(tbl.targets)
      BY <2>2, <3>1 DEF NewCase
    <3> HIDE DEF src
    <3> QED
      BY <3>1, <3>2
  <2> QED
    BY <1>1, <2>1, <2>2
<1>4. TableBranch(tbl, res, j) = Edge(src, vals) /\ (~IsBody(t) => vals = Carried(t, res))
  BY DEF TableBranch
<1> HIDE DEF src, vals
<1>5. TableBranch(tbl, res, j) \in BranchType /\ TableBranch(tbl, res, j).src = src /\ TableBranch(tbl, res, j).vals = vals
  BY <1>2, <1>3, <1>4 DEF Edge, BranchType
<1> QED
  BY <1>3, <1>4, <1>5

(* The branches of the table into one block. *)
LEMMA ArrivingFacts ==
  ASSUME TrInv, status = "running", labels # <<>>, NEW tbl \in Tables, TableOK(tbl), NEW b
  PROVE  /\ Cardinality(TableJsTo(tbl, b)) \in Nat
         /\ Arriving(tbl, TableRes(tbl), b) \in Seq(BranchType)
         /\ Len(Arriving(tbl, TableRes(tbl), b)) = Cardinality(TableJsTo(tbl, b))
         /\ \A k \in DOMAIN Arriving(tbl, TableRes(tbl), b) :
              \E j \in TableJsTo(tbl, b) : Arriving(tbl, TableRes(tbl), b)[k] = TableBranch(tbl, TableRes(tbl), j)
<1> DEFINE S == TableJsTo(tbl, b)
           js == SetToSeq(S)
           n == Cardinality(S)
           a == Arriving(tbl, TableRes(tbl), b)
<1>1. S \in SUBSET TableJs(tbl)
  BY DEF TableJsTo
<1> HIDE DEF S
<1>2. IsFiniteSet(S) /\ n \in Nat
  BY <1>1, TableSubset
<1>3. js \in [1 .. n -> S] /\ DOMAIN js = 1 .. n
  BY <1>2, EnumFacts
<1>4. a = [k \in DOMAIN js |-> TableBranch(tbl, TableRes(tbl), js[k])]
  BY DEF Arriving, S
<1> HIDE DEF js, n, a
<1>5. \A k \in 1 .. n : js[k] \in S /\ js[k] \in TableJs(tbl)
  BY <1>1, <1>3
<1>6. \A k \in 1 .. n : TableBranch(tbl, TableRes(tbl), js[k]) \in BranchType
  BY <1>5, TableBranchFacts
<1>7. a \in [1 .. n -> BranchType] /\ \A k \in 1 .. n : a[k] = TableBranch(tbl, TableRes(tbl), js[k])
  BY <1>3, <1>4, <1>6
<1>8. a \in Seq(BranchType) /\ Len(a) = n /\ DOMAIN a = 1 .. n
  BY <1>2, <1>7, SeqOfFunction
<1> QED
  BY <1>2, <1>5, <1>7, <1>8 DEF a, n, S

(* The branches into a block before those of the table. *)
LEMMA BeforeFacts ==
  ASSUME TrInv, status = "running", labels # <<>>, NEW tbl \in Tables, NEW b \in 1 .. TableLen(tbl)
  PROVE  /\ Before(tbl, b) \in Seq(BranchType)
         /\ b \in Blocks => Before(tbl, b) = ir.into[b]
         /\ \A k \in DOMAIN Before(tbl, b) : Before(tbl, b)[k].src \in 1 .. TableLen(tbl)
<1>0. Shape /\ OpenInv /\ SourcesInv /\ IsIr(ir) /\ locals \in Seq(Value)
  BY Parts DEF Shape
<1>1. /\ Len(ir.into) \in Nat /\ Blocks = 1 .. Len(ir.into) /\ TableLen(tbl) \in Nat
      /\ Len(ir.into) <= TableLen(tbl) /\ TableCases(tbl) \in Nat
  BY <1>0, TableBlocks
<1>2. DOMAIN ir.into = Blocks
  BY <1>0 DEF IsIr, Blocks
<1> DEFINE later == NewCase(2) .. NewCase(TableCases(tbl))
<1>9. /\ b \in Nat /\ NewCase(1) \notin later
      /\ b \in DOMAIN ir.into => b # NewCase(1) /\ b \notin later
  BY <1>1, <1>2 DEF NewCase
<1> HIDE DEF later
<1>10. Before(tbl, b) = CASE b \in DOMAIN ir.into -> ir.into[b]
                          [] b = NewCase(1) -> <<Edge(ir.cur, locals)>>
                          [] b \in later -> <<Edge(b - 1, locals)>>
                          [] OTHER -> <<>>
  BY DEF Before, later
<1>3. CASE b \in DOMAIN ir.into
  <2>1. Before(tbl, b) = ir.into[b]
    BY <1>3, <1>9, <1>10
  <2>2. ir.into[b] \in Seq(BranchType)
    BY <1>0, <1>3 DEF IsIr
  <2>3. \A k \in DOMAIN ir.into[b] : ir.into[b][k].src \in Blocks
    BY <1>0, <1>2, <1>3 DEF SourcesInv
  <2>4. \A x \in Blocks : x \in 1 .. TableLen(tbl)
    BY <1>1
  <2> QED
    BY <2>1, <2>2, <2>3, <2>4
<1>4. CASE b \notin DOMAIN ir.into /\ b = NewCase(1)
  <2>1. Before(tbl, b) = <<Edge(ir.cur, locals)>>
    BY <1>4, <1>9, <1>10
  <2>2. ir.cur \in Blocks
    BY <1>0 DEF OpenInv
  <2>3. ir.cur \in Nat /\ ir.cur \in 1 .. TableLen(tbl)
    BY <1>1, <2>2
  <2> DEFINE e == Edge(ir.cur, locals)
  <2>4. e \in BranchType /\ e.src \in 1 .. TableLen(tbl)
    BY <1>0, <2>3 DEF Edge, BranchType
  <2> HIDE DEF e
  <2>5. <<e>> \in Seq(BranchType) /\ \A k \in DOMAIN <<e>> : <<e>>[k] = e
    BY <2>4
  <2> QED
    BY <1>2, <1>4, <2>1, <2>4, <2>5 DEF e
<1>5. CASE b \notin DOMAIN ir.into /\ b # NewCase(1) /\ b \in later
  <2>1. Before(tbl, b) = <<Edge(b - 1, locals)>>
    BY <1>5, <1>10
  <2>2. b - 1 \in Nat /\ b - 1 \in 1 .. TableLen(tbl)
    BY <1>1, <1>5 DEF NewCase, later
  <2> DEFINE e == Edge(b - 1, locals)
  <2>3. e \in BranchType /\ e.src \in 1 .. TableLen(tbl)
    BY <1>0, <2>2 DEF Edge, BranchType
  <2> HIDE DEF e
  <2>4. <<e>> \in Seq(BranchType) /\ \A k \in DOMAIN <<e>> : <<e>>[k] = e
    BY <2>3
  <2> QED
    BY <1>2, <1>5, <2>1, <2>3, <2>4 DEF e
<1>6. CASE b \notin DOMAIN ir.into /\ b # NewCase(1) /\ b \notin later
  <2>1. Before(tbl, b) = <<>>
    BY <1>6, <1>10
  <2> QED
    BY <1>2, <1>6, <2>1
<1> QED
  BY <1>3, <1>4, <1>5, <1>6

(* Which entries lead to the block of a label. *)
LEMMA TableInLabel ==
  ASSUME TrInv, status = "running", labels # <<>>, NEW tbl \in Tables, TableOK(tbl), NEW t \in DOMAIN labels, t > 1
  PROVE  /\ TableJsTo(tbl, labels[t].block) = {j \in TableJs(tbl) : TableTo(tbl, j) = t}
         /\ Cardinality(TableJsTo(tbl, labels[t].block)) = TableHits(tbl)[t]
<1> DEFINE b == labels[t].block
<1>0. Shape /\ Chain /\ ~IsBody(t)
  BY Parts DEF IsBody
<1>1. b \in Blocks
  BY <1>0, BlockFacts
<1>2. b # RetCase(tbl)
  BY <1>0, <1>1, TableBlocks
<1>3. ASSUME NEW j \in TableJs(tbl) PROVE TableDest(tbl, j) = b <=> TableTo(tbl, j) = t
  <2> DEFINE u == TableTo(tbl, j)
  <2>1. u \in DOMAIN labels
    BY TableTargets DEF TableOK
  <2>2. CASE IsBody(u)
    BY <1>0, <1>2, <2>2 DEF TableDest
  <2>3. CASE ~IsBody(u)
    <3>1. TableDest(tbl, j) = labels[u].block
      BY <2>3 DEF TableDest
    <3> HIDE DEF u
    <3>2. labels[u].block = labels[t].block => u = t
      BY <1>0, <2>1, BlocksDiffer
    <3> QED
      BY <3>1, <3>2 DEF u
  <2> QED
    BY <2>2, <2>3
<1>4. TableJsTo(tbl, b) = {j \in TableJs(tbl) : TableTo(tbl, j) = t}
  BY <1>3 DEF TableJsTo
<1>5. TableHits(tbl)[t] = Cardinality({j \in TableJs(tbl) : TableTo(tbl, j) = t})
  BY <1>0 DEF TableHits
<1> QED
  BY <1>4, <1>5

(* The branches into a block after the table. *)
LEMMA TableIntoAt ==
  ASSUME TrInv, status = "running", labels # <<>>, NEW tbl \in Tables, TableOK(tbl), NEW b \in 1 .. TableLen(tbl),
         NEW F, F = Before(tbl, b) \o Arriving(tbl, TableRes(tbl), b)
  PROVE  /\ F \in Seq(BranchType)
         /\ Len(F) = Len(Before(tbl, b)) + Cardinality(TableJsTo(tbl, b))
         /\ \A k \in 1 .. Len(Before(tbl, b)) : F[k] = Before(tbl, b)[k]
         /\ \A k \in Len(Before(tbl, b)) + 1 .. Len(F) :
              \E j \in TableJsTo(tbl, b) : F[k] = TableBranch(tbl, TableRes(tbl), j)
         /\ \A k \in DOMAIN F : F[k].src \in 1 .. TableLen(tbl)
<1> DEFINE E == Before(tbl, b)
           A == Arriving(tbl, TableRes(tbl), b)
<1>1. E \in Seq(BranchType) /\ \A k \in DOMAIN E : E[k].src \in 1 .. TableLen(tbl)
  BY BeforeFacts
<1>2. /\ A \in Seq(BranchType) /\ Len(A) = Cardinality(TableJsTo(tbl, b))
      /\ \A k \in DOMAIN A : \E j \in TableJsTo(tbl, b) : A[k] = TableBranch(tbl, TableRes(tbl), j)
  BY ArrivingFacts
<1>3. F = E \o A
  OBVIOUS
<1> HIDE DEF E, A
<1>4. /\ E \o A \in Seq(BranchType) /\ Len(E \o A) = Len(E) + Len(A)
      /\ \A k \in 1 .. Len(E) : (E \o A)[k] = E[k]
      /\ \A k \in 1 .. Len(E \o A) : k > Len(E) => (E \o A)[k] = A[k - Len(E)]
  <2>1. E \in Seq(BranchType) /\ A \in Seq(BranchType)
    BY <1>1, <1>2
  <2> QED
    BY ONLY <2>1, SeqConcat
<1>5. ASSUME NEW k \in Len(E) + 1 .. Len(F)
      PROVE  \E j \in TableJsTo(tbl, b) : F[k] = TableBranch(tbl, TableRes(tbl), j)
  <2>1. k - Len(E) \in DOMAIN A /\ k \in 1 .. Len(F) /\ k > Len(E)
    BY <1>1, <1>2, <1>3, <1>4
  <2>2. F[k] = A[k - Len(E)]
    BY <1>3, <1>4, <2>1
  <2> QED
    BY <1>2, <2>1, <2>2
<1>6. ASSUME NEW k \in DOMAIN F PROVE F[k].src \in 1 .. TableLen(tbl)
  <2>1. k \in 1 .. Len(E) \/ k \in Len(E) + 1 .. Len(F)
    BY <1>1, <1>2, <1>3, <1>4
  <2>2. CASE k \in 1 .. Len(E)
    <3>1. k \in DOMAIN E /\ F[k] = E[k]
      BY <1>1, <1>3, <1>4, <2>2
    <3> QED
      BY <1>1, <3>1
  <2>3. CASE k \in Len(E) + 1 .. Len(F)
    <3>1. PICK j \in TableJsTo(tbl, b) : F[k] = TableBranch(tbl, TableRes(tbl), j)
      BY <1>5, <2>3
    <3>2. j \in TableJs(tbl)
      BY DEF TableJsTo
    <3> QED
      BY <3>1, <3>2, TableBranchFacts
  <2> QED
    BY <2>1, <2>2, <2>3
<1>7. /\ F \in Seq(BranchType)
      /\ Len(F) = Len(E) + Cardinality(TableJsTo(tbl, b))
      /\ \A k \in 1 .. Len(E) : F[k] = E[k]
  BY <1>2, <1>3, <1>4
<1> QED
  BY <1>5, <1>6, <1>7 DEF E

LEMMA TableIntoFacts ==
  ASSUME TrInv, status = "running", labels # <<>>, NEW tbl \in Tables, TableOK(tbl),
         NEW into, into = TableInto(tbl, TableRes(tbl))
  PROVE  /\ into \in Seq(Seq(BranchType)) /\ Len(into) = TableLen(tbl) /\ DOMAIN into = 1 .. TableLen(tbl)
         /\ \A b \in DOMAIN into : \A k \in DOMAIN into[b] : into[b][k].src \in DOMAIN into
         /\ \A t \in DOMAIN labels : t > 1 =>
              Extends(ir.into[labels[t].block], into[labels[t].block], TableHits(tbl)[t], Carried(t, TableRes(tbl)))
         /\ \A b \in Blocks : (\A t \in DOMAIN labels : labels[t].block # b) => into[b] = ir.into[b]
<1> DEFINE n == TableLen(tbl)
           res == TableRes(tbl)
           F(b) == Before(tbl, b) \o Arriving(tbl, res, b)
<1>0. Shape /\ Chain
  BY Parts
<1>1. n \in Nat /\ Blocks \subseteq 1 .. n
  BY <1>0, TableBlocks
<1>2. into = [b \in 1 .. n |-> F(b)]
  BY DEF TableInto
<1>3. ASSUME NEW b \in 1 .. n
      PROVE  /\ F(b) \in Seq(BranchType)
             /\ Len(F(b)) = Len(Before(tbl, b)) + Cardinality(TableJsTo(tbl, b))
             /\ \A k \in 1 .. Len(Before(tbl, b)) : F(b)[k] = Before(tbl, b)[k]
             /\ \A k \in Len(Before(tbl, b)) + 1 .. Len(F(b)) :
                  \E j \in TableJsTo(tbl, b) : F(b)[k] = TableBranch(tbl, TableRes(tbl), j)
             /\ \A k \in DOMAIN F(b) : F(b)[k].src \in 1 .. n
  BY TableIntoAt
<1> HIDE DEF F, n
<1>4. into \in [1 .. n -> Seq(BranchType)] /\ \A b \in 1 .. n : into[b] = F(b)
  BY <1>2, <1>3
<1>5. into \in Seq(Seq(BranchType)) /\ Len(into) = n /\ DOMAIN into = 1 .. n
  BY <1>1, <1>4, SeqOfFunction
<1>6. \A b \in DOMAIN into : \A k \in DOMAIN into[b] : into[b][k].src \in DOMAIN into
  BY <1>3, <1>4, <1>5
<1>7. ASSUME NEW t \in DOMAIN labels, t > 1
      PROVE  Extends(ir.into[labels[t].block], into[labels[t].block], TableHits(tbl)[t], Carried(t, res))
  <2> DEFINE b == labels[t].block
  <2>1. b \in Blocks /\ b \in 1 .. n
    BY <1>0, <1>1, <1>7, BlockFacts
  <2>2. TableJsTo(tbl, b) = {j \in TableJs(tbl) : TableTo(tbl, j) = t} /\ Cardinality(TableJsTo(tbl, b)) = TableHits(tbl)[t]
    BY <1>7, TableInLabel
  <2> HIDE DEF b
  <2>3. Before(tbl, b) = ir.into[b]
    BY <2>1, BeforeFacts DEF n
  <2>4. \A j \in TableJsTo(tbl, b) : TableBranch(tbl, res, j).vals = Carried(t, res)
    <3> TAKE j \in TableJsTo(tbl, b)
    <3>1. j \in TableJs(tbl) /\ TableTo(tbl, j) = t /\ ~IsBody(t)
      BY <1>7, <2>2 DEF IsBody
    <3> QED
      BY <3>1, TableBranchFacts
  <2>5. /\ Len(F(b)) = Len(ir.into[b]) + TableHits(tbl)[t]
        /\ \A k \in 1 .. Len(ir.into[b]) : F(b)[k] = ir.into[b][k]
        /\ \A k \in Len(ir.into[b]) + 1 .. Len(F(b)) : \E j \in TableJsTo(tbl, b) : F(b)[k] = TableBranch(tbl, res, j)
    BY <1>3, <2>1, <2>2, <2>3
  <2>6. Extends(ir.into[b], F(b), TableHits(tbl)[t], Carried(t, res))
    <3>1. \A k \in Len(ir.into[b]) + 1 .. Len(F(b)) : F(b)[k].vals = Carried(t, res)
      BY <2>4, <2>5
    <3> QED
      BY <2>5, <3>1 DEF Extends
  <2> QED
    BY <1>4, <2>1, <2>6 DEF b
<1>8. ASSUME NEW b \in Blocks, \A t \in DOMAIN labels : labels[t].block # b
      PROVE  into[b] = ir.into[b]
  <2>1. \A j \in TableJs(tbl) : TableDest(tbl, j) # b
    <3> TAKE j \in TableJs(tbl)
    <3>1. TableTo(tbl, j) \in DOMAIN labels
      BY TableTargets DEF TableOK
    <3>2. b # RetCase(tbl)
      BY <1>0, TableBlocks
    <3> QED
      BY <1>8, <3>1, <3>2 DEF TableDest
  <2>2. TableJsTo(tbl, b) = {}
    BY <2>1 DEF TableJsTo
  <2>3. Cardinality(TableJsTo(tbl, b)) = 0
    BY <2>2, FS_EmptySet
  <2>4. b \in 1 .. n /\ Before(tbl, b) = ir.into[b] /\ ir.into[b] \in Seq(BranchType)
    <3>1. b \in 1 .. n
      BY <1>1
    <3>2. ir.into[b] \in Seq(BranchType)
      BY <1>0 DEF Shape, IsIr, Blocks
    <3> QED
      BY <3>1, <3>2, BeforeFacts DEF n
  <2>5. /\ F(b) \in Seq(BranchType) /\ Len(F(b)) = Len(ir.into[b]) + 0
        /\ \A k \in 1 .. Len(ir.into[b]) : F(b)[k] = ir.into[b][k]
    BY <1>3, <2>3, <2>4
  <2>6. F(b) = ir.into[b]
    BY <2>4, <2>5
  <2> QED
    BY <1>4, <2>4, <2>6
<1> QED
  BY <1>5, <1>6, <1>7, <1>8 DEF n

LEMMA TableIrFacts ==
  ASSUME TrInv, status = "running", labels # <<>>, NEW tbl \in Tables, TableOK(tbl), NEW m, m = TableIr(tbl)
  PROVE  /\ Branches(m, TableHits(tbl), TableRes(tbl))
         /\ Len(m.into) = TableLen(tbl) /\ m.cur = TableCur(tbl) /\ m.term = TableTerm(tbl)
         /\ m.hollow = TableHollow(tbl)
         /\ \A p \in DOMAIN m.phis : p[1] \in Blocks
<1> DEFINE hits == TableHits(tbl)
           res == TableRes(tbl)
           P == PreparedPhis(hits, res)
           w == WithPhis(ir, P)
           into == TableInto(tbl, res)
<1>0. Shape /\ OpenInv /\ PhisInv /\ IsIr(ir) /\ Len(ir.into) \in Nat /\ Blocks = 1 .. Len(ir.into) /\ ir.values \in Nat
  BY Parts DEF Shape, IsIr, Blocks
<1>1. m = [into |-> into, cur |-> TableCur(tbl), term |-> TableTerm(tbl), values |-> ir.values,
           phis |-> w.phis, hollow |-> TableHollow(tbl)]
  BY DEF TableIr
<1>2. /\ into \in Seq(Seq(BranchType)) /\ Len(into) = TableLen(tbl) /\ DOMAIN into = 1 .. TableLen(tbl)
      /\ \A b \in DOMAIN into : \A k \in DOMAIN into[b] : into[b][k].src \in DOMAIN into
      /\ \A t \in DOMAIN labels : t > 1 =>
           Extends(ir.into[labels[t].block], into[labels[t].block], hits[t], Carried(t, res))
      /\ \A b \in Blocks : (\A t \in DOMAIN labels : labels[t].block # b) => into[b] = ir.into[b]
  BY TableIntoFacts
<1>3. Hits(hits, res)
  BY TableHitsFacts
<1> HIDE DEF hits, res, into
<1>4. IsPhis(P) /\ \A p \in DOMAIN P : p[1] \in Blocks
  BY <1>3, PreparedTyped
<1> HIDE DEF P
<1>5. /\ IsIr(w) /\ DOMAIN w.phis = DOMAIN ir.phis \cup DOMAIN P
      /\ \A p \in DOMAIN P : w.phis[p] = P[p]
      /\ \A p \in DOMAIN ir.phis \ DOMAIN P : w.phis[p] = ir.phis[p]
  BY <1>0, <1>4, WithPhisFacts
<1> HIDE DEF w
<1>6. /\ TableCur(tbl) \in Nat /\ TableTerm(tbl) \subseteq Nat /\ TableHollow(tbl) \subseteq Nat
      /\ Len(ir.into) <= TableLen(tbl)
  <2>1. /\ Len(ir.into) \in Nat /\ TableCases(tbl) \in Nat /\ RetCase(tbl) = Len(ir.into) + TableCases(tbl) + 1
        /\ TableLen(tbl) \in Nat /\ Len(ir.into) <= TableLen(tbl) /\ Len(tbl.targets) \in Nat
        /\ DOMAIN tbl.targets = 1 .. Len(tbl.targets)
    BY <1>0, TableBlocks
  <2>2. ir.cur \in Nat /\ ir.term \subseteq Nat /\ ir.hollow \subseteq Nat
    BY <1>0 DEF IsIr
  <2>3. TableCur(tbl) \in Nat
    BY <2>1, <2>2 DEF TableCur, NewCase
  <2>4. \A i \in DOMAIN tbl.targets : NewCase(i) \in Nat
    BY <2>1 DEF NewCase
  <2>5. TableTerm(tbl) \subseteq Nat
    BY <2>1, <2>2, <2>4 DEF TableTerm
  <2>6. TableHollow(tbl) \subseteq Nat
    BY <2>1, <2>2 DEF TableHollow, NewCase
  <2> QED
    BY <2>1, <2>3, <2>5, <2>6
<1>7. IsIr(m)
  <2>1. IsPhis(w.phis)
    BY <1>5 DEF IsIr
  <2>2. into \in Seq(Seq(BranchType))
    BY <1>2
  <2> QED
    BY <1>0, <1>1, <1>6, <2>1, <2>2 DEF IsIr
<1>8. /\ m.into = into /\ m.cur = TableCur(tbl) /\ m.term = TableTerm(tbl) /\ m.values = ir.values
      /\ m.phis = w.phis /\ m.hollow = TableHollow(tbl)
  BY <1>1
<1>9. Branches(m, hits, res)
  <2>1. Len(ir.into) <= Len(m.into) /\ ir.values <= m.values
    BY <1>0, <1>2, <1>6, <1>8
  <2>2. /\ DOMAIN m.phis = DOMAIN ir.phis \cup DOMAIN P
        /\ \A p \in DOMAIN P : m.phis[p] = P[p]
        /\ \A p \in DOMAIN ir.phis \ DOMAIN P : m.phis[p] = ir.phis[p]
    BY <1>5, <1>8
  <2>3. /\ \A b \in DOMAIN m.into : \A k \in DOMAIN m.into[b] : m.into[b][k].src \in DOMAIN m.into
        /\ \A t \in DOMAIN labels : t > 1 =>
             Extends(ir.into[labels[t].block], m.into[labels[t].block], hits[t], Carried(t, res))
        /\ \A b \in Blocks : (\A t \in DOMAIN labels : labels[t].block # b) => m.into[b] = ir.into[b]
    BY <1>2, <1>8
  <2> QED
    BY <1>7, <2>1, <2>2, <2>3 DEF Branches, P
<1>10. \A p \in DOMAIN m.phis : p[1] \in Blocks
  BY <1>0, <1>4, <1>5, <1>8 DEF PhisInv
<1>11. Len(m.into) = TableLen(tbl)
  BY <1>2, <1>8
<1> QED
  BY <1>8, <1>9, <1>10, <1>11 DEF hits, res

LEMMA Shifted ==
  ASSUME NEW L \in Nat, NEW T \in Nat
  PROVE  {L + i : i \in 1 .. T} = L + 1 .. L + T
<1>1. \A x \in {L + i : i \in 1 .. T} : x \in L + 1 .. L + T
  OBVIOUS
<1>2. ASSUME NEW x \in L + 1 .. L + T PROVE x \in {L + i : i \in 1 .. T}
  <2>1. x - L \in 1 .. T /\ x = L + (x - L)
    OBVIOUS
  <2> QED
    BY <2>1
<1> QED
  BY <1>1, <1>2

(* Of the new blocks only the hollow one is left without a terminator. *)
LEMMA TableMoves ==
  ASSUME TrInv, status = "running", labels # <<>>, ~Top.terminated, NEW tbl \in Tables, IsIr(ir'),
         Len(ir'.into) = TableLen(tbl), ir'.cur = TableCur(tbl), ir'.term = TableTerm(tbl), ir'.hollow = TableHollow(tbl)
  PROVE  CursorMoves(TRUE)
<1>0. Shape /\ OpenInv
  BY Parts
<1> DEFINE L == Len(ir.into)
           c == TableCases(tbl)
           T == Len(tbl.targets)
<1>1. /\ L \in Nat /\ Blocks = 1 .. L /\ T \in Nat /\ DOMAIN tbl.targets = 1 .. T /\ c \in Nat /\ c >= 1 /\ T <= c
      /\ (tbl.targets = <<>> => c = 1 /\ T = 0) /\ (tbl.targets # <<>> => c = T)
      /\ RetCase(tbl) = L + c + 1 /\ TableLen(tbl) \in Nat
      /\ (TableReturns(tbl) => TableLen(tbl) = L + c + 1)
      /\ (~TableReturns(tbl) => TableLen(tbl) = L + c)
  BY <1>0, TableBlocks
<1>2. Blocks' = 1 .. TableLen(tbl) /\ ir.term \subseteq Blocks /\ ir.hollow \subseteq Blocks /\ ir.hollow \cap ir.term = {}
      /\ ir.cur \in Blocks \ (ir.term \cup ir.hollow \cup Pending)
  BY <1>0 DEF Blocks, OpenInv
<1> DEFINE cases == {NewCase(i) : i \in DOMAIN tbl.targets}
           rets == IF TableReturns(tbl) THEN {L + c + 1} ELSE {}
           hollows == IF tbl.targets = <<>> THEN {L + 1} ELSE {}
<1>3. cases = L + 1 .. L + T
  <2>1. cases = {L + i : i \in 1 .. T}
    BY <1>1 DEF NewCase
  <2>2. L \in Nat /\ T \in Nat
    BY <1>1
  <2> HIDE DEF cases, L, T
  <2> QED
    BY <2>1, <2>2, Shifted
<1>4. ir'.term = ir.term \cup {ir.cur} \cup cases \cup rets
  BY <1>1 DEF TableTerm
<1>5. ir'.hollow = ir.hollow \cup hollows
  BY DEF TableHollow, NewCase
<1>6. ir'.cur = IF TableReturns(tbl) THEN L + c + 1 ELSE IF tbl.targets # <<>> THEN L + c ELSE ir.cur
  BY <1>1 DEF TableCur, NewCase
<1> HIDE DEF cases, L, c, T
<1>7. \A b \in cases \cup rets : b \in Blocks' /\ b \notin Blocks
  BY <1>1, <1>2, <1>3
<1>8. \A b \in hollows : b \in Blocks' /\ b \notin Blocks /\ b \notin cases /\ b \notin rets
  BY <1>1, <1>2, <1>3
<1>9. \A b \in Blocks : b \in Blocks'
  BY <1>1, <1>2
<1>10. \A b \in Blocks' \ Blocks : b \in cases \cup rets \cup hollows
  BY <1>1, <1>2, <1>3
<1>11. ir'.cur \in cases \cup rets \cup {ir.cur}
  BY <1>1, <1>3, <1>6
<1> HIDE DEF rets, hollows
<1> QED
  BY <1>2, <1>4, <1>5, <1>7, <1>8, <1>9, <1>10, <1>11 DEF CursorMoves

(* What the handler does, by these names.                                  *)
LEMMA BrTableFacts ==
  ASSUME Validated, TrInv, NEW tbl \in Tables, BrTable(tbl)
  PROVE  /\ Live /\ Consume /\ nest' = nest /\ locals' = locals /\ entry' = entry /\ TableOK(tbl)
         /\ Hits(TableHits(tbl), TableRes(tbl)) /\ Branches(ir', TableHits(tbl), TableRes(tbl))
         /\ ir'.into = TableInto(tbl, TableRes(tbl)) /\ Len(ir'.into) = TableLen(tbl) /\ ir'.cur = TableCur(tbl)
         /\ ir'.term = TableTerm(tbl) /\ ir'.hollow = TableHollow(tbl)
         /\ \A p \in DOMAIN ir'.phis : p[1] \in Blocks
         /\ \E c \in 0 .. Len(Top.stack) :
              TopOf(TableHits(tbl), TableRes(tbl), labels', Drop(Top.stack, c), TRUE, 0)
<1> DEFINE n == Len(Operand(TableTo(tbl, 0)))
           hits == TableHits(tbl)
           res == TableRes(tbl)
           ls == Popped(n + 1)
           s == Drop(Top.stack, n + 1)
           no == FALSE
           yes == TRUE
           k == 0
<1>1. Live /\ Consume /\ nest' = nest /\ locals' = locals /\ entry' = entry /\ TableOK(tbl)
  BY DEF BrTable, TableOK
<1>2. labels' = Close(PreparedLabels(ls, hits, res))
  BY DEF BrTable, TableTo, TableHits, TableRes, TableJs
<1>3. ir' = [WithPhis(ir, PreparedPhis(hits, res)) EXCEPT
               !.into = TableInto(tbl, res),
               !.term = @ \cup {ir.cur} \cup {NewCase(i) : i \in DOMAIN tbl.targets}
                          \cup (IF TableReturns(tbl) THEN {RetCase(tbl)} ELSE {}),
               !.hollow = IF tbl.targets = <<>> THEN @ \cup {NewCase(1)} ELSE @,
               !.cur = CASE TableReturns(tbl) -> RetCase(tbl)
                         [] ~TableReturns(tbl) /\ tbl.targets # <<>> -> NewCase(TableCases(tbl))
                         [] OTHER -> @]
  BY DEF BrTable, TableTo, TableHits, TableRes, TableJs, TableInto, TableReturns, RetCase, NewCase, TableCases,
         TableLen, Before, Arriving, TableJsTo, TableDest, TableBranch
<1>4. /\ status = "running" /\ labels # <<>> /\ ~Top.terminated /\ Top.terminated = FALSE /\ Top.depth = 0
      /\ Shape /\ Chain /\ ValuesInv /\ LabelsInv
  BY <1>1, LiveFacts, Parts
<1>5. Hits(hits, res)
  BY <1>1, <1>4, TableHitsFacts
<1>6. ir' = TableIr(tbl)
  <2> DEFINE P == PreparedPhis(hits, res)
             w == WithPhis(ir, P)
  <2>1. IsPhis(P)
    <3> HIDE DEF hits, res
    <3> QED
      BY <1>4, <1>5, PreparedTyped
  <2>2. IsIr(ir)
    BY <1>4 DEF Shape
  <2> HIDE DEF P, hits, res
  <2>3. /\ IsIr(w) /\ w.cur = ir.cur /\ w.term = ir.term /\ w.values = ir.values /\ w.hollow = ir.hollow
    BY <2>1, <2>2, WithPhisFacts
  <2> HIDE DEF w
  <2>4. w = [into |-> w.into, cur |-> ir.cur, term |-> ir.term, values |-> ir.values, phis |-> w.phis,
             hollow |-> ir.hollow]
    BY <2>3 DEF IsIr
  <2>5. ir' = [w EXCEPT !.into = TableInto(tbl, res), !.term = TableTerm(tbl), !.hollow = TableHollow(tbl),
                        !.cur = TableCur(tbl)]
    BY <1>3, <2>3 DEF TableTerm, TableHollow, TableCur, w, P
  <2>6. ir' = [into |-> TableInto(tbl, res), cur |-> TableCur(tbl), term |-> TableTerm(tbl), values |-> ir.values,
               phis |-> w.phis, hollow |-> TableHollow(tbl)]
    <3> DEFINE into == TableInto(tbl, res)
               term == TableTerm(tbl)
               hollow == TableHollow(tbl)
               cur == TableCur(tbl)
               v == ir.values
               p == w.phis
               w1 == [w EXCEPT !.into = into]
               w2 == [w1 EXCEPT !.term = term]
               w3 == [w2 EXCEPT !.hollow = hollow]
               w4 == [w3 EXCEPT !.cur = cur]
    <3>1. ir' = w4
      BY <2>5
    <3> HIDE DEF into, term, hollow, cur, v, p
    <3>2. w1 = [into |-> into, cur |-> ir.cur, term |-> ir.term, values |-> v, phis |-> p, hollow |-> ir.hollow]
      BY <2>4 DEF v, p
    <3> HIDE DEF w1
    <3>3. w2 = [into |-> into, cur |-> ir.cur, term |-> term, values |-> v, phis |-> p, hollow |-> ir.hollow]
      BY <3>2
    <3> HIDE DEF w2
    <3>4. w3 = [into |-> into, cur |-> ir.cur, term |-> term, values |-> v, phis |-> p, hollow |-> hollow]
      BY <3>3
    <3> HIDE DEF w3
    <3>5. w4 = [into |-> into, cur |-> cur, term |-> term, values |-> v, phis |-> p, hollow |-> hollow]
      BY <3>4
    <3> HIDE DEF w4
    <3> QED
      BY <3>1, <3>5 DEF into, term, hollow, cur, v, p
  <2> QED
    BY <2>6 DEF TableIr, w, P, hits, res
<1>7. /\ Branches(ir', hits, res) /\ Len(ir'.into) = TableLen(tbl) /\ ir'.cur = TableCur(tbl)
      /\ ir'.term = TableTerm(tbl) /\ ir'.hollow = TableHollow(tbl)
      /\ \A p \in DOMAIN ir'.phis : p[1] \in Blocks
  <2> DEFINE m == ir'
  <2>1. m = TableIr(tbl)
    BY <1>6
  <2> HIDE DEF m
  <2>2. /\ Branches(m, hits, res) /\ Len(m.into) = TableLen(tbl) /\ m.cur = TableCur(tbl) /\ m.term = TableTerm(tbl)
        /\ m.hollow = TableHollow(tbl) /\ \A p \in DOMAIN m.phis : p[1] \in Blocks
    BY <1>1, <1>4, <2>1, TableIrFacts
  <2> QED
    BY <2>2 DEF m
<1>8. ir'.into = TableInto(tbl, res)
  BY <1>6 DEF TableIr
<1>9. n + 1 \in 0 .. Len(Top.stack)
  <2> DEFINE o == Operand(TableTo(tbl, 0))
             tys == Append(o, I32)
  <2>1. o \in Seq(Types)
    <3>1. 0 \in TableJs(tbl)
      BY TranslateAssumption DEF TableJs
    <3> QED
      BY <1>1, <1>4, <3>1, TableTargets DEF TableOK
  <2>2. CanPop(tys)
    BY <1>1 DEF TableOK, TableTo
  <2>3. I32 \in Types
    BY DEF Types, ValueTypes
  <2>4. \A S : \A q \in Seq(S) : \A x \in S : Append(q, x) \in Seq(S) /\ Len(Append(q, x)) = Len(q) + 1
    BY SeqAppend
  <2> HIDE DEF o
  <2>5. tys \in Seq(Types) /\ Len(tys) = n + 1
    BY <2>1, <2>3, <2>4 DEF o
  <2> HIDE DEF tys
  <2>6. Len(tys) \in 0 .. Len(Top.stack)
    BY <1>4, <2>2, <2>5, CanPopFacts
  <2> QED
    BY <2>5, <2>6
<1> DEFINE c == n + 1
<1>10. /\ TopOf(None, Invalid, ls, s, no, k) /\ s \in Seq(Operands)
       /\ \A j \in DOMAIN s : Usable(s[j].val)
  <2>1. c \in 0 .. Len(Top.stack) /\ ls = Popped(c) /\ s = Drop(Top.stack, c)
    BY <1>9
  <2> HIDE DEF c, n, ls, s
  <2> QED
    BY <1>4, <2>1, PopFacts
<1> HIDE DEF hits, res, ls, s, no, k, n
<1> DEFINE prepared == PreparedLabels(ls, hits, res)
<1>11. TopOf(hits, res, prepared, s, no, k)
  BY <1>4, <1>5, <1>10, TopOfPrepared
<1>12. TopOf(hits, res, labels', s, yes, 0)
  <2>1. labels' = Close(prepared)
    BY <1>2
  <2> HIDE DEF prepared
  <2>2. TopOf(hits, res, labels', s, yes, k)
    BY <1>4, <1>11, <2>1, TopOfClose
  <2> QED
    BY <2>2 DEF k
<1>13. \E x \in 0 .. Len(Top.stack) : TopOf(hits, res, labels', Drop(Top.stack, x), yes, 0)
  <2>1. c \in 0 .. Len(Top.stack) /\ s = Drop(Top.stack, c)
    BY <1>9 DEF s
  <2> HIDE DEF c
  <2> QED
    BY <1>12, <2>1
<1> QED
  BY <1>1, <1>5, <1>7, <1>8, <1>13 DEF hits, res, yes

LEMMA BrTableStep ==
  ASSUME Validated, TrInv, NEW tbl \in Tables, BrTable(tbl)
  PROVE  TrInv'
<1> DEFINE hits == TableHits(tbl)
           res == TableRes(tbl)
           yes == TRUE
<1>1. /\ Live /\ Consume /\ nest' = nest /\ locals' = locals /\ entry' = entry
      /\ Hits(hits, res) /\ Branches(ir', hits, res) /\ Len(ir'.into) = TableLen(tbl) /\ ir'.cur = TableCur(tbl)
      /\ ir'.term = TableTerm(tbl) /\ ir'.hollow = TableHollow(tbl)
      /\ \A p \in DOMAIN ir'.phis : p[1] \in Blocks
      /\ \E c \in 0 .. Len(Top.stack) : TopOf(hits, res, labels', Drop(Top.stack, c), yes, 0)
  BY BrTableFacts
<1>2. status = "running" /\ labels # <<>> /\ ~Top.terminated
  BY <1>1, LiveFacts
<1>3. CursorMoves(yes) /\ yes \in BOOLEAN
  <2>1. IsIr(ir')
    BY <1>1 DEF Branches
  <2> QED
    BY <1>1, <1>2, <2>1, TableMoves
<1> HIDE DEF hits, res, yes
<1>4. PICK c \in 0 .. Len(Top.stack) : TopOf(hits, res, labels', Drop(Top.stack, c), yes, 0)
  BY <1>1
<1> DEFINE s == Drop(Top.stack, c)
<1>5. s \in Seq(Operands) /\ \A j \in DOMAIN s : Usable(s[j].val)
  BY <1>2, <1>4, PopFacts
<1>6. TopOf(hits, res, labels', s, yes, 0)
  BY <1>4
<1> HIDE DEF s
<1> QED
  BY <1>1, <1>3, <1>5, <1>6, HitStep

-----------------------------------------------------------------------------
(* The invariant is inductive.                                             *)

LEMMA StutterStep ==
  ASSUME TrInv, UNCHANGED vars
  PROVE  TrInv'
<1>1. Shape'
  BY DEF TrInv, vars, Shape
<1>2. Chain' /\ Frames' /\ OpsInv'
  BY DEF TrInv, vars, Chain, ChainOK, Frames, OpsInv, Top, TopIdx
<1>3. OpenInv' /\ SourcesInv'
  BY DEF TrInv, vars, OpenInv, SourcesInv, Blocks, Pending, Top, TopIdx
<1>4. LabelsInv' /\ PhisInv'
  BY DEF TrInv, vars, LabelsInv, PhisInv, Blocks
<1>5. ValuesInv'
  <2>1. \A v : Usable(v)' <=> Usable(v)
    <3>1. ir' = ir /\ labels' = labels
      BY DEF vars
    <3>2. Blocks' = Blocks /\ Pending' = Pending
      BY ONLY <3>1 DEF Blocks, Pending
    <3> QED
      BY ONLY <3>1, <3>2 DEF Usable, IsValue
  <2>2. locals' = locals /\ labels' = labels
    BY DEF vars
  <2>3. ValuesInv
    BY DEF TrInv
  <2> HIDE DEF Usable
  <2> QED
    BY ONLY <2>1, <2>2, <2>3 DEF ValuesInv
<1>6. EntryInv'
  BY DEF TrInv, vars, EntryInv, Blocks, Pending, EdgesInto, OnEdge, DefinedIn
<1> QED
  BY <1>1, <1>2, <1>3, <1>4, <1>5, <1>6 DEF TrInv

LEMMA NextStep ==
  ASSUME Validated, TrInv, [Next]_vars
  PROVE  TrInv'
<1>1. ASSUME NEW sig \in CallTypes, Call(sig) PROVE TrInv'
  <2>1. IsSig(sig) /\ Operation(sig)
    BY <1>1, AllSigs DEF Call
  <2> QED
    BY <2>1, OperationStep
<1>2. ASSUME NEW sig \in Signatures, Operation(sig) PROVE TrInv'
  BY <1>2, AllSigs, OperationStep
<1>3. ASSUME NEW sig \in CallTypes, CallIndirect(sig) PROVE TrInv'
  BY <1>3, AllSigs, CallIndirectStep
<1>4. CASE DropOperand
  BY <1>4, DropOperandStep
<1>5. ASSUME NEW i \in LocalIdx, LocalGet(i) \/ LocalSet(i) PROVE TrInv'
  BY <1>5, LocalGetStep, LocalSetStep
<1>6. ASSUME NEW rtype \in BlockTypes, Block(rtype) \/ Loop(rtype) PROVE TrInv'
  BY <1>6, BlockStep, LoopStep
<1>7. ASSUME NEW d \in Depths, Br(d) \/ BrIf(d) PROVE TrInv'
  BY <1>7, BrStep, BrIfStep
<1>8. ASSUME NEW tbl \in Tables, BrTable(tbl) PROVE TrInv'
  BY <1>8, BrTableStep
<1>9. CASE Return \/ Unreachable \/ End
  BY <1>9, ReturnStep, UnreachableStep, EndStep
<1>10. CASE SkipFrame \/ SkipEnd \/ SkipPlain
  BY <1>10, SkipFrameStep, SkipEndStep, SkipPlainStep
<1>11. CASE Finish \/ Reject
  BY <1>11, FinishStep, RejectStep
<1>12. CASE UNCHANGED vars
  BY <1>12, StutterStep
<1> QED
  BY <1>1, <1>2, <1>3, <1>4, <1>5, <1>6, <1>7, <1>8, <1>9, <1>10, <1>11, <1>12 DEF Next

(* For every function body that passed validation, of any length and       *)
(* nesting, translation stays inside the invariant.                        *)
THEOREM TranslationSound == ASSUME Validated PROVE Spec => []TrInv
<1>1. Init => TrInv
  BY InitInv
<1>2. TrInv /\ [Next]_vars => TrInv'
  BY NextStep
<1> QED
  BY <1>1, <1>2, PTL DEF Spec

(* The translator's state and IR stay well formed: every branch comes from *)
(* a block that exists, and every local holds a value that is defined.     *)
THEOREM TypesKept == ASSUME Validated PROVE Spec => []TypeOK
<1>1. TrInv => TypeOK
  <2> SUFFICES ASSUME TrInv PROVE TypeOK
    OBVIOUS
  <2>0. Shape /\ Chain /\ OpsInv /\ OpenInv /\ SourcesInv /\ ValuesInv
    BY Parts
  <2>1. nest \in 0 .. MaxOps + 1
    BY <2>0, TranslateAssumption DEF Shape, OpsInv
  <2>2. \A b \in Blocks : \A e \in ToSet(EdgesInto(b)) : e.src \in Blocks
    BY <2>0 DEF SourcesInv, ToSet, EdgesInto
  <2>3. \A i \in DOMAIN labels : labels[i].block \in 0 .. Len(ir.into) /\ labels[i].inputs \in Nat
    <3> TAKE i \in DOMAIN labels
    <3>1. labels[i] \in LabelType
      BY <2>0, LabelsTyped
    <3>2. labels[i].block \in Nat /\ labels[i].inputs \in Nat
      BY <3>1, LabelTyped
    <3>3. labels[i].block <= Len(ir.into) /\ Len(ir.into) \in Nat
      BY <2>0 DEF Chain, ChainOK, Shape, IsIr
    <3> QED
      BY <3>2, <3>3
  <2>4. \A i \in DOMAIN locals : IsValue(locals[i])
    BY <2>0 DEF ValuesInv, Usable
  <2>5. status \in {"running", "done", "failed"} /\ ops \in 0 .. MaxOps
    BY <2>0 DEF Shape
  <2>6. ir.term \subseteq Blocks /\ ir.cur \in 0 .. Len(ir.into)
    BY <2>0 DEF OpenInv
  <2> QED
    BY <2>1, <2>2, <2>3, <2>4, <2>5, <2>6 DEF TypeOK
<1> QED
  BY <1>1, TranslationSound, PTL

(* The phis that jit_wasm_prepare_branch creates lazily, back-fills and    *)
(* extends give each local, and the block's result, the value it had at    *)
(* the branch taken: for every edge into every block translation goes on   *)
(* in, also edges built long before the phi, or long after it.             *)
THEOREM MergesCorrect == ASSUME Validated PROVE Spec => []MergeCorrect
<1>1. TrInv => MergeCorrect
  BY DEF TrInv, EntryInv, MergeCorrect
<1> QED
  BY <1>1, TranslationSound, PTL

(* A phi has one input per branch into its block at all times, however     *)
(* often a br_table names the block.                                       *)
THEOREM PhisComplete == ASSUME Validated PROVE Spec => []PhiPerEdge
<1>1. TrInv => PhiPerEdge
  BY DEF TrInv, PhisInv, PhiPerEdge, EdgesInto, DefinedIn
<1> QED
  BY <1>1, TranslationSound, PTL

(* Opcodes are skipped exactly when the builder's block is closed, and     *)
(* only the innermost label is ever dead.                                  *)
THEOREM CursorStaysOpen == ASSUME Validated PROVE Spec => []CursorOpen
<1>1. TrInv => CursorOpen
  <2> SUFFICES ASSUME TrInv, status = "running", labels # <<>>
               PROVE  /\ Top.terminated <=> ir.cur \in ir.term
                      /\ \A i \in DOMAIN labels : i < TopIdx => ~labels[i].terminated
    BY DEF CursorOpen
  <2>1. Top.terminated <=> ir.cur \in ir.term
    BY Parts DEF OpenInv
  <2>2. \A i \in DOMAIN labels : i < TopIdx => ~labels[i].terminated
    BY Parts DEF Chain, ChainOK, TopIdx
  <2> QED
    BY <2>1, <2>2
<1> QED
  BY <1>1, TranslationSound, PTL

(* Each `end` closes the frame it closes in the wasm text, however deep    *)
(* the dead code it ends is nested.                                        *)
THEOREM FramesAgree == ASSUME Validated PROVE Spec => []FramesMatch
<1>1. TrInv => FramesMatch
  BY DEF TrInv, Frames, FramesMatch
<1> QED
  BY <1>1, TranslationSound, PTL

(* A function handed to the code generator has no open block but the       *)
(* comparison blocks that empty br_tables leave behind.                    *)
THEOREM AllBlocksClosed == ASSUME Validated PROVE Spec => []BlocksClosed
<1>1. TrInv => BlocksClosed
  <2> SUFFICES ASSUME TrInv, status = "done" PROVE Blocks \ ir.term = ir.hollow
    BY DEF BlocksClosed
  <2>1. labels = <<>> /\ OpenInv
    BY Parts DEF Shape
  <2>2. Pending = {}
    BY <2>1 DEF Pending
  <2> QED
    BY <2>1, <2>2 DEF OpenInv
<1> QED
  BY <1>1, TranslationSound, PTL

=============================================================================
