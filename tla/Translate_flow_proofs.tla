----------------------- MODULE Translate_flow_proofs -----------------------
(***************************************************************************)
(* Paths through the IR that the function translator builds: code that is  *)
(* not skipped can be reached from the function's entry, and every value   *)
(* is defined on every path to its use, for every function body.           *)
(*                                                                         *)
(* A set of blocks closed under the branches contains all that is          *)
(* reachable, so one closed set without b shows that b is not reachable,   *)
(* and what every closed set contains is.  Block d dominates b when a set  *)
(* closed but for d leaves b out.                                          *)
(***************************************************************************)
EXTENDS Translate_proofs, FiniteSetTheorems

(* S contains the entry and what the branches lead to from S, short of     *)
(* the avoided blocks.  E is a list of the branches into each block.       *)
Closed(E, S, avoid) ==
  /\ {1} \ avoid \subseteq S
  /\ \A b \in DOMAIN E \ avoid : \A k \in DOMAIN E[b] : E[b][k].src \in S => b \in S

Reach(E, avoid) == {x \in DOMAIN E : \A S \in SUBSET DOMAIN E : Closed(E, S, avoid) => x \in S}

Dom(E, d, b) == b \notin Reach(E, {d})

-----------------------------------------------------------------------------
(* Graphs.                                                                 *)

LEMMA ReachClosed ==
  ASSUME NEW E, NEW avoid, 1 \in DOMAIN E
  PROVE  Closed(E, Reach(E, avoid), avoid) /\ Reach(E, avoid) \subseteq DOMAIN E
  BY DEF Closed, Reach

LEMMA ReachLeast ==
  ASSUME NEW E, NEW avoid, NEW S \in SUBSET DOMAIN E, Closed(E, S, avoid)
  PROVE  Reach(E, avoid) \subseteq S
  BY DEF Reach

(* A closed set that leaves b out. *)
LEMMA DomBySet ==
  ASSUME NEW E, NEW d, NEW b, NEW S \in SUBSET DOMAIN E, Closed(E, S, {d}), b \notin S
  PROVE  Dom(E, d, b)
  BY ReachLeast DEF Dom

LEMMA DomSelf ==
  ASSUME NEW E, NEW d, 1 \in DOMAIN E
  PROVE  Dom(E, d, d)
<1> DEFINE S == DOMAIN E \ {d}
<1>1. Closed(E, S, {d})
  BY DEF Closed
<1> QED
  BY <1>1, DomBySet

LEMMA DomTransitive ==
  ASSUME NEW E, NEW d, NEW h, NEW b, 1 \in DOMAIN E, h \in DOMAIN E, Dom(E, d, h), Dom(E, h, b)
  PROVE  Dom(E, d, b)
<1> DEFINE A == Reach(E, {d})
           B == Reach(E, {h})
           S == A \cap B
<1>1. Closed(E, A, {d}) /\ Closed(E, B, {h}) /\ A \subseteq DOMAIN E
  BY ReachClosed
<1>2. h \notin A /\ b \notin B
  BY DEF Dom
<1> HIDE DEF A, B
<1>3. Closed(E, S, {d})
  <2>1. {1} \ {d} \subseteq S
    BY <1>1, <1>2 DEF Closed
  <2>2. ASSUME NEW c \in DOMAIN E \ {d}, NEW k \in DOMAIN E[c], E[c][k].src \in S
        PROVE  c \in S
    <3>1. c \in A
      BY <1>1, <2>2 DEF Closed
    <3>2. c # h
      BY <1>2, <3>1
    <3>3. c \in B
      BY <1>1, <2>2, <3>2 DEF Closed
    <3> QED
      BY <3>1, <3>3
  <2> QED
    BY <2>1, <2>2 DEF Closed
<1> QED
  BY <1>1, <1>2, <1>3, DomBySet

(* What dominates every block that branches to b dominates b. *)
LEMMA DomOfSources ==
  ASSUME NEW E, NEW d, NEW b, 1 \in DOMAIN E, b # 1, \A k \in DOMAIN E[b] : Dom(E, d, E[b][k].src)
  PROVE  Dom(E, d, b)
<1> DEFINE A == Reach(E, {d})
           S == A \ {b}
<1>1. Closed(E, A, {d}) /\ A \subseteq DOMAIN E
  BY ReachClosed
<1>2. \A k \in DOMAIN E[b] : E[b][k].src \notin A
  BY DEF Dom
<1> HIDE DEF A
<1>3. Closed(E, S, {d})
  BY <1>1, <1>2 DEF Closed
<1> QED
  BY <1>1, <1>3, DomBySet

(* F has the branches of E, and new ones: from the cursor's block or a new *)
(* block, to a new block, to one that nothing has left yet, or to a block  *)
(* that dominates the cursor's.                                            *)
Grows(E, F, cur, waiting, heads) ==
  /\ 1 \in DOMAIN E
  /\ DOMAIN E \subseteq DOMAIN F
  /\ \A b \in DOMAIN E : \A k \in DOMAIN E[b] : E[b][k].src \in DOMAIN E \ waiting
  /\ \A h \in heads : h \in DOMAIN E /\ Dom(E, h, cur)
  /\ \A b \in DOMAIN F : \A k \in DOMAIN F[b] :
       \/ b \in DOMAIN E /\ k \in DOMAIN E[b] /\ F[b][k].src = E[b][k].src
       \/ /\ F[b][k].src = cur \/ F[b][k].src \in DOMAIN F \ DOMAIN E
          /\ b \in (DOMAIN F \ DOMAIN E) \cup waiting \cup heads

(* New branches take no dominator from a block that was there, unless it   *)
(* was waiting; and new blocks get the dominators of the cursor's.         *)
LEMMA GrowthBeyond ==
  ASSUME NEW E, NEW F, NEW cur, NEW waiting, NEW heads, Grows(E, F, cur, waiting, heads), NEW d \in DOMAIN E,
         Dom(E, d, cur)
  PROVE  /\ \A b \in DOMAIN E : Dom(E, d, b) => Dom(F, d, b)
         /\ \A b \in DOMAIN F \ DOMAIN E : Dom(F, d, b)
<1> DEFINE A == Reach(E, {d})
<1>1. Closed(E, A, {d}) /\ A \subseteq DOMAIN E
  BY ReachClosed DEF Grows
<1>2. cur \notin A
  BY DEF Dom
<1>3. \A b \in DOMAIN E : Dom(E, d, b) <=> b \notin A
  BY DEF Dom
<1> HIDE DEF A
<1>4. Closed(F, A, {d})
  BY <1>1, <1>2 DEF Closed, Grows
<1>5. A \in SUBSET DOMAIN F
  BY <1>1 DEF Grows
<1>6. \A b : b \notin A => Dom(F, d, b)
  BY <1>4, <1>5, DomBySet
<1> QED
  BY <1>1, <1>3, <1>6

LEMMA GrowthAside ==
  ASSUME NEW E, NEW F, NEW cur, NEW waiting, NEW heads, Grows(E, F, cur, waiting, heads), NEW d \in DOMAIN E,
         ~ Dom(E, d, cur), NEW b \in DOMAIN E \ waiting, Dom(E, d, b)
  PROVE  Dom(F, d, b)
<1> DEFINE A == Reach(E, {d})
           S == (A \cup (DOMAIN F \ DOMAIN E) \cup waiting) \cap DOMAIN F
<1>1. Closed(E, A, {d}) /\ A \subseteq DOMAIN E
  BY ReachClosed DEF Grows
<1>2. \A h \in heads : h \in A
  <2> TAKE h \in heads
  <2>1. 1 \in DOMAIN E /\ h \in DOMAIN E /\ Dom(E, h, cur)
    BY DEF Grows
  <2>2. ~ Dom(E, d, h)
    BY <2>1, DomTransitive
  <2> QED
    BY <2>2 DEF Dom
<1>3. b \notin A
  BY DEF Dom
<1> HIDE DEF A
<1>4. Closed(F, S, {d})
  <2>1. {1} \ {d} \subseteq S
    BY <1>1 DEF Closed, Grows
  <2>2. ASSUME NEW c \in DOMAIN F \ {d}, NEW k \in DOMAIN F[c], F[c][k].src \in S
        PROVE  c \in S
    <3>1. CASE c \in DOMAIN E /\ k \in DOMAIN E[c] /\ F[c][k].src = E[c][k].src
      <4>1. E[c][k].src \in DOMAIN E \ waiting
        BY <3>1 DEF Grows
      <4>2. E[c][k].src \in A
        BY <2>2, <3>1, <4>1
      <4> QED
        BY <1>1, <2>2, <3>1, <4>2 DEF Closed
    <3>2. CASE c \in (DOMAIN F \ DOMAIN E) \cup waiting \cup heads
      BY <1>2, <2>2, <3>2
    <3> QED
      BY <3>1, <3>2 DEF Grows
  <2> QED
    BY <2>1, <2>2 DEF Closed
<1>5. b \notin S
  BY <1>3
<1> QED
  BY <1>4, <1>5, DomBySet

(* What follows branches from blocks that can be reached can be reached.   *)
LEMMA ReachFollows ==
  ASSUME NEW E, 1 \in DOMAIN E, NEW b \in DOMAIN E, NEW k \in DOMAIN E[b], E[b][k].src \in Reach(E, {})
  PROVE  b \in Reach(E, {})
<1>1. Closed(E, Reach(E, {}), {})
  BY ReachClosed
<1> DEFINE A == Reach(E, {})
<1>2. Closed(E, A, {}) /\ E[b][k].src \in A
  BY <1>1
<1> HIDE DEF A
<1>3. b \in A
  BY <1>2 DEF Closed
<1> QED
  BY <1>3 DEF A

LEMMA ReachGrows ==
  ASSUME NEW E, NEW F, 1 \in DOMAIN E, DOMAIN E \subseteq DOMAIN F,
         \A b \in DOMAIN E : \A k \in DOMAIN E[b] : k \in DOMAIN F[b] /\ F[b][k].src = E[b][k].src
  PROVE  Reach(E, {}) \subseteq Reach(F, {})
<1> DEFINE A == Reach(F, {})
           S == A \cap DOMAIN E
<1>1. Closed(F, A, {}) /\ A \subseteq DOMAIN F
  BY ReachClosed
<1> HIDE DEF A
<1>2. Closed(E, S, {})
  BY <1>1 DEF Closed
<1>3. Reach(E, {}) \subseteq S
  BY <1>2, ReachLeast
<1> QED
  BY <1>3 DEF A

(* Every set of numbers has a least element. *)
LEMMA LeastOf ==
  ASSUME NEW T, T \subseteq Nat, T # {}
  PROVE  \E x \in T : \A y \in T : x <= y
<1>1. IsWellFoundedOn(OpToRel(<, Nat), Nat)
  BY NatLessThanWellFounded
<1>2. PICK x \in T : \A y \in T : ~ (<<y, x>> \in OpToRel(<, Nat))
  BY <1>1, WFMin
<1>3. ASSUME NEW y \in T
      PROVE  x <= y
  <2>1. y \in Nat /\ x \in Nat
    OBVIOUS
  <2>2. y < x => <<y, x>> \in OpToRel(<, Nat)
    BY <2>1, SMT DEF OpToRel
  <2>3. ~ (y < x)
    BY <1>2, <2>2, Zenon
  <2> QED
    BY <2>1, <2>3
<1> QED
  BY <1>2, <1>3

(* The blocks one opcode makes can be reached, one after the other, when   *)
(* the cursor's block can.                                                 *)
LEMMA NewReached ==
  ASSUME NEW E \in Seq(Seq(BranchType)), NEW F \in Seq(Seq(BranchType)), 1 \in DOMAIN E, NEW cur \in Reach(F, {}),
         \A b \in DOMAIN F \ DOMAIN E : \A k \in DOMAIN F[b] :
           \/ F[b][k].src = cur
           \/ F[b][k].src \in DOMAIN F \ DOMAIN E /\ F[F[b][k].src] # <<>> /\ F[b][k].src < b,
         1 \in DOMAIN F, NEW n \in DOMAIN F \ DOMAIN E, F[n] # <<>>
  PROVE  n \in Reach(F, {})
<1> DEFINE A == Reach(F, {})
           T == {b \in DOMAIN F \ DOMAIN E : F[b] # <<>> /\ b \notin A}
<1>1. \A b \in DOMAIN F : \A k \in DOMAIN F[b] : F[b][k].src \in A => b \in A
  BY ReachFollows
<1>2. T \subseteq Nat
  OBVIOUS
<1>3. CASE T = {}
  BY <1>3
<1>4. CASE T # {}
  <2>1. PICK b \in T : \A y \in T : b <= y
    BY <1>2, <1>4, LeastOf
  <2>2. b \in DOMAIN F \ DOMAIN E /\ F[b] # <<>> /\ b \notin A /\ b \in Nat
    BY <1>2, <2>1
  <2>3. 1 \in DOMAIN F[b]
    <3>1. F[b] \in Seq(BranchType)
      BY <2>2
    <3> QED
      BY <2>2, <3>1
  <2> DEFINE s == F[b][1].src
  <2>4. s \notin A
    BY <1>1, <2>2, <2>3
  <2>5. s \in DOMAIN F \ DOMAIN E /\ F[s] # <<>> /\ s < b
    BY <2>2, <2>3, <2>4
  <2> HIDE DEF s
  <2>6. s \in T /\ s \in Nat
    BY <1>2, <2>4, <2>5
  <2>7. b <= s
    BY <2>1, <2>6
  <2> QED
    BY <2>2, <2>5, <2>6, <2>7
<1> QED
  BY <1>3, <1>4

-----------------------------------------------------------------------------
(* The invariant.                                                          *)

Running == status = "running" /\ labels # <<>> /\ ~Top.terminated

(* The loops that are open. *)
Heads == {labels[t].block : t \in {u \in DOMAIN labels : u > 1 /\ labels[u].loop}}

Stacked(t) == {DefinedIn(labels[t].stack[j].val) : j \in DOMAIN labels[t].stack}

(* Where what live code can still use or branch back to is defined. *)
Held == {DefinedIn(locals[i]) : i \in DOMAIN locals} \cup Heads \cup UNION {Stacked(t) : t \in DOMAIN labels}

(* Where what code after the end of label t can still use is. *)
Below(t) ==
  {labels[u].block : u \in {v \in DOMAIN labels : 1 < v /\ v < t /\ labels[v].loop}}
  \cup UNION {Stacked(u) : u \in {v \in DOMAIN labels : v < t}}

Width(l) == Len(LocalType) + (IF MergesResult(l) THEN 1 ELSE 0)

EntryFirst ==
  /\ status # "failed" => 1 \in Blocks
  /\ \A t \in DOMAIN labels : t > 1 => labels[t].block > 1

(* A branch leaves a block that is closed, *)
SourcesClosed == \A b \in Blocks : \A k \in DOMAIN ir.into[b] : ir.into[b][k].src \in ir.term

(* and that can be reached. *)
SourcesReached == \A b \in Blocks : \A k \in DOMAIN ir.into[b] : ir.into[b][k].src \in Reach(ir.into, {})

CursorReached == Running => ir.cur \in Reach(ir.into, {})

ReachedEntered ==
  \A t \in DOMAIN labels : t > 1 /\ ~labels[t].loop /\ labels[t].reached => ir.into[labels[t].block] # <<>>

BranchesWide ==
  \A t \in DOMAIN labels : t > 1 => \A k \in DOMAIN ir.into[labels[t].block] :
    DOMAIN ir.into[labels[t].block][k].vals = 1 .. Width(labels[t])

(* What the cursor, the code after a label, and a branch can use is        *)
(* defined on every path there.                                            *)
HeldDominates == Running => \A d \in Held : Dom(ir.into, d, ir.cur)

BelowDominates ==
  \A t \in DOMAIN labels : t > 1 /\ ~labels[t].loop =>
    \A k \in DOMAIN ir.into[labels[t].block] : \A d \in Below(t) :
      Dom(ir.into, d, ir.into[labels[t].block][k].src)

CarriedDominates ==
  \A b \in Blocks : \A k \in DOMAIN ir.into[b] : \A i \in DOMAIN ir.into[b][k].vals :
    /\ DefinedIn(ir.into[b][k].vals[i]) \in Blocks
    /\ Dom(ir.into, DefinedIn(ir.into[b][k].vals[i]), ir.into[b][k].src)

(* An input of a phi is what its branch carries there. *)
PhiCarried(p) ==
  \A k \in DOMAIN ir.phis[p] :
    p[2] \in DOMAIN ir.into[p[1]][k].vals /\ ir.phis[p][k] = ir.into[p[1]][k].vals[p[2]]

PhisCarried == \A p \in DOMAIN ir.phis : PhiCarried(p)

FlowInv ==
  /\ EntryFirst
  /\ SourcesClosed
  /\ SourcesReached
  /\ CursorReached
  /\ ReachedEntered
  /\ BranchesWide
  /\ HeldDominates
  /\ BelowDominates
  /\ CarriedDominates
  /\ PhisCarried

-----------------------------------------------------------------------------
(* What all steps have in common.                                          *)

(* The branches a step builds come from the cursor's block, which is live, *)
(* or from a block made on the way there; those to new blocks carry the    *)
(* locals.                                                                 *)
NewBranch(b, e) ==
  /\ ~Top.terminated
  /\ e.src \in ir'.term
  /\ \/ e.src = ir.cur
     \/ e.src \in Blocks' \ Blocks /\ ir'.into[e.src] # <<>> /\ (b \notin Blocks => e.src < b)
  /\ b \notin Blocks => e.vals = locals

Wired ==
  /\ ir.term \subseteq ir'.term
  /\ \A b \in Blocks' : \A k \in DOMAIN ir'.into[b] :
       \/ b \in Blocks /\ k \in DOMAIN ir.into[b]
       \/ NewBranch(b, ir'.into[b][k])

CarriedHeld(hits, res) ==
  \A t \in DOMAIN labels : hits[t] > 0 => \A i \in DOMAIN Carried(t, res) : DefinedIn(Carried(t, res)[i]) \in Held

(* A label that stays keeps what is below it. *)
LabelsKept(hits) ==
  \A t \in DOMAIN labels' : t > 1 =>
    \/ /\ labels'[t].block \notin Blocks
       /\ labels'[t].loop \/ (~labels'[t].reached /\ ir'.into[labels'[t].block] = <<>>)
    \/ /\ t \in DOMAIN labels /\ labels'[t].block = labels[t].block
       /\ labels'[t].loop = labels[t].loop /\ labels'[t].rtype = labels[t].rtype
       /\ Below(t)' \subseteq Below(t)
       /\ labels'[t].reached => labels[t].reached \/ hits[t] > 0

LEMMA FlowParts ==
  ASSUME TrInv
  PROVE  /\ Blocks = 1 .. Len(ir.into) /\ Len(ir.into) \in Nat /\ ir.into \in Seq(Seq(BranchType))
         /\ \A b \in Blocks : DOMAIN ir.into[b] = 1 .. Len(ir.into[b]) /\ Len(ir.into[b]) \in Nat
         /\ labels \in Seq(LabelType) /\ locals \in Seq(Value)
<1>1. IsIr(ir) /\ labels \in Seq(LabelType) /\ locals \in Seq(Value)
  BY Parts DEF Shape
<1>2. ir.into \in Seq(Seq(BranchType))
  BY <1>1 DEF IsIr
<1> QED
  BY <1>1, <1>2 DEF Blocks

LEMMA FlowPartsNext ==
  ASSUME TrInv'
  PROVE  /\ Blocks' = 1 .. Len(ir'.into) /\ Len(ir'.into) \in Nat /\ ir'.into \in Seq(Seq(BranchType))
         /\ \A b \in Blocks' : DOMAIN ir'.into[b] = 1 .. Len(ir'.into[b]) /\ Len(ir'.into[b]) \in Nat
         /\ labels' \in Seq(LabelType) /\ locals' \in Seq(Value)
<1>1. Shape'
  BY DEF TrInv
<1>2. IsIr(ir') /\ labels' \in Seq(LabelType) /\ locals' \in Seq(Value)
  BY <1>1 DEF Shape, IsIr
<1>3. ir'.into \in Seq(Seq(BranchType))
  BY <1>2 DEF IsIr
<1>4. DOMAIN ir'.into = 1 .. Len(ir'.into) /\ Len(ir'.into) \in Nat
  BY <1>3
<1> QED
  BY <1>2, <1>3, <1>4 DEF Blocks

(* Branches stay; the new ones to an old block go to an open label.        *)
LEMMA EdgesKept ==
  ASSUME TrInv, TrInv', status = "running", labels # <<>>, NEW hits, NEW res, Hits(hits, res),
         Branches(ir', hits, res), NEW b \in Blocks
  PROVE  /\ b \in Blocks'
         /\ \A k \in DOMAIN ir.into[b] : k \in DOMAIN ir'.into[b] /\ ir'.into[b][k] = ir.into[b][k]
         /\ \A k \in DOMAIN ir'.into[b] : k \notin DOMAIN ir.into[b] =>
              \E t \in DOMAIN labels : /\ t > 1 /\ labels[t].block = b /\ hits[t] > 0
                                       /\ ir'.into[b][k].vals = Carried(t, res)
<1>1. b \in Blocks'
  <2>1. Len(ir.into) <= Len(ir'.into)
    BY DEF Branches
  <2>2. Blocks = 1 .. Len(ir.into) /\ Len(ir.into) \in Nat
    BY FlowParts
  <2>3. Blocks' = 1 .. Len(ir'.into) /\ Len(ir'.into) \in Nat
    BY FlowPartsNext
  <2> QED
    BY ONLY b \in Blocks, <2>1, <2>2, <2>3
<1>2. DOMAIN ir.into[b] = 1 .. Len(ir.into[b]) /\ Len(ir.into[b]) \in Nat
  BY FlowParts
<1>3. DOMAIN ir'.into[b] = 1 .. Len(ir'.into[b]) /\ Len(ir'.into[b]) \in Nat
  <2>1. ir'.into \in Seq(Seq(BranchType))
    BY DEF Branches, IsIr
  <2>2. ir'.into[b] \in Seq(BranchType)
    BY <1>1, <2>1 DEF Blocks
  <2> QED
    BY ONLY <2>2
<1>4. CASE \E t \in DOMAIN labels : t > 1 /\ labels[t].block = b
  <2>1. PICK t \in DOMAIN labels : t > 1 /\ labels[t].block = b
    BY <1>4
  <2>2. Extends(ir.into[b], ir'.into[b], hits[t], Carried(t, res)) /\ hits[t] \in Nat
    BY <2>1 DEF Branches, Hits
  <2>3. \A k \in DOMAIN ir.into[b] : k \in DOMAIN ir'.into[b] /\ ir'.into[b][k] = ir.into[b][k]
    <3>1. /\ Len(ir'.into[b]) = Len(ir.into[b]) + hits[t]
          /\ \A k \in 1 .. Len(ir.into[b]) : ir'.into[b][k] = ir.into[b][k]
      BY <2>2 DEF Extends
    <3>2. 1 .. Len(ir.into[b]) \subseteq 1 .. Len(ir'.into[b])
      BY ONLY <1>2, <1>3, <2>2, <3>1
    <3> QED
      BY <1>2, <1>3, <3>1, <3>2
  <2>4. \A k \in DOMAIN ir'.into[b] : k \notin DOMAIN ir.into[b] =>
          hits[t] > 0 /\ ir'.into[b][k].vals = Carried(t, res)
    BY ONLY <1>2, <1>3, <2>2 DEF Extends
  <2> QED
    BY <1>1, <2>1, <2>3, <2>4
<1>5. CASE \A t \in DOMAIN labels : t > 1 => labels[t].block # b
  <2>1. Shape /\ Chain /\ Hits(hits, res) /\ Branches(ir', hits, res) /\ b \in Blocks
    BY Parts
  <2>2. ir'.into[b] = ir.into[b]
    BY ONLY <1>5, <2>1, StepOther
  <2> QED
    BY <1>1, <2>2
<1> QED
  BY <1>4, <1>5

LEMMA HeadsHeld ==
  ASSUME TrInv, status = "running"
  PROVE  Heads \subseteq Blocks /\ Pending \subseteq Blocks /\ Heads \subseteq Held
<1>1. Shape /\ Chain
  BY Parts
<1>2. \A t \in DOMAIN labels : t > 1 => labels[t].block \in Blocks
  BY <1>1, BlockFacts
<1>3. Heads \subseteq Blocks /\ Pending \subseteq Blocks
  BY <1>2 DEF Heads, Pending
<1>4. Heads \subseteq Held
  BY DEF Held
<1> QED
  BY <1>3, <1>4

LEMMA StepGrows ==
  ASSUME TrInv, TrInv', FlowInv, status = "running", labels # <<>>, NEW hits, NEW res, Hits(hits, res),
         Branches(ir', hits, res), Wired
  PROVE  Grows(ir.into, ir'.into, ir.cur, Pending, IF Top.terminated THEN {} ELSE Heads)
<1> DEFINE E == ir.into
           F == ir'.into
           heads == IF Top.terminated THEN {} ELSE Heads
<1>1. 1 \in DOMAIN E
  BY DEF FlowInv, EntryFirst, Blocks
<1>2. \A b \in DOMAIN E : b \in DOMAIN F /\ \A k \in DOMAIN E[b] : F[b][k] = E[b][k]
  BY EdgesKept DEF Blocks
<1>3. \A b \in DOMAIN E : \A k \in DOMAIN E[b] : E[b][k].src \in DOMAIN E \ Pending
  <2>1. SourcesInv /\ OpenInv /\ SourcesClosed
    BY Parts DEF FlowInv
  <2> QED
    BY <2>1 DEF SourcesInv, OpenInv, SourcesClosed, Blocks
<1>4. \A h \in heads : h \in DOMAIN E /\ Dom(E, h, ir.cur)
  <2> SUFFICES ASSUME ~Top.terminated, NEW h \in Heads PROVE h \in DOMAIN E /\ Dom(E, h, ir.cur)
    OBVIOUS
  <2>1. h \in Blocks /\ h \in Held
    BY HeadsHeld
  <2>2. HeldDominates /\ Running
    BY DEF FlowInv, Running
  <2> QED
    BY <2>1, <2>2 DEF HeldDominates, Blocks
<1>5. ASSUME NEW b \in DOMAIN F, NEW k \in DOMAIN F[b]
      PROVE  \/ b \in DOMAIN E /\ k \in DOMAIN E[b] /\ F[b][k].src = E[b][k].src
             \/ /\ F[b][k].src = ir.cur \/ F[b][k].src \in DOMAIN F \ DOMAIN E
                /\ b \in (DOMAIN F \ DOMAIN E) \cup Pending \cup heads
  <2>1. CASE b \in DOMAIN E /\ k \in DOMAIN E[b]
    BY <1>2, <2>1
  <2>2. CASE ~ (b \in DOMAIN E /\ k \in DOMAIN E[b])
    <3>1. NewBranch(b, F[b][k])
      BY <1>5, <2>2 DEF Wired, Blocks
    <3>2. ~Top.terminated /\ (F[b][k].src = ir.cur \/ F[b][k].src \in DOMAIN F \ DOMAIN E)
      BY <3>1 DEF NewBranch, Blocks
    <3>3. CASE b \notin DOMAIN E
      BY <1>5, <3>2, <3>3
    <3>4. CASE b \in DOMAIN E
      <4>1. b \in Blocks /\ k \in DOMAIN ir'.into[b] /\ k \notin DOMAIN ir.into[b]
        BY <1>5, <2>2, <3>4 DEF Blocks
      <4>2. PICK t \in DOMAIN labels : t > 1 /\ labels[t].block = b
        BY <4>1, EdgesKept
      <4>3. b \in Pending \cup Heads
        BY <4>2 DEF Pending, Heads
      <4> QED
        BY <3>2, <4>3
    <3> QED
      BY <3>3, <3>4
  <2> QED
    BY <2>1, <2>2
<1> HIDE DEF E, F, heads
<1>6. DOMAIN E \subseteq DOMAIN F
  BY <1>2
<1>7. Grows(E, F, ir.cur, Pending, heads)
  BY <1>1, <1>3, <1>4, <1>5, <1>6 DEF Grows
<1> QED
  BY <1>7 DEF E, F, heads

LEMMA HeldInBlocks ==
  ASSUME TrInv, status = "running"
  PROVE  Held \subseteq Blocks
<1>1. ValuesInv
  BY Parts
<1>2. \A v : Usable(v) => DefinedIn(v) \in Blocks
  BY DEF Usable, IsValue
<1>3. \A i \in DOMAIN locals : DefinedIn(locals[i]) \in Blocks
  BY <1>1, <1>2 DEF ValuesInv
<1>4. \A t \in DOMAIN labels : Stacked(t) \subseteq Blocks
  BY <1>1, <1>2 DEF ValuesInv, Stacked
<1>5. Heads \subseteq Blocks
  BY HeadsHeld
<1> QED
  BY <1>3, <1>4, <1>5 DEF Held

(* Dominators stay, and new blocks get those of the cursor's.              *)
LEMMA DominatorsKept ==
  ASSUME TrInv, TrInv', FlowInv, status = "running", labels # <<>>, NEW hits, NEW res, Hits(hits, res),
         Branches(ir', hits, res), Wired
  PROVE  /\ \A d \in Blocks : \A b \in Blocks \ Pending : Dom(ir.into, d, b) => Dom(ir'.into, d, b)
         /\ \A d \in Held : ~Top.terminated => \A b \in {ir.cur} \cup (Blocks' \ Blocks) : Dom(ir'.into, d, b)
<1> DEFINE heads == IF Top.terminated THEN {} ELSE Heads
<1>1. Grows(ir.into, ir'.into, ir.cur, Pending, heads)
  BY StepGrows
<1> HIDE DEF heads
<1>2. ASSUME NEW d \in Blocks, NEW b \in Blocks \ Pending, Dom(ir.into, d, b)
      PROVE  Dom(ir'.into, d, b)
  <2>0. d \in DOMAIN ir.into /\ b \in DOMAIN ir.into \ Pending /\ b \in DOMAIN ir.into
    BY DEF Blocks
  <2>1. CASE Dom(ir.into, d, ir.cur)
    BY ONLY <1>1, <1>2, <2>0, <2>1, GrowthBeyond
  <2>2. CASE ~Dom(ir.into, d, ir.cur)
    BY ONLY <1>1, <1>2, <2>0, <2>2, GrowthAside
  <2> QED
    BY <2>1, <2>2
<1>3. ASSUME NEW d \in Held, ~Top.terminated, NEW b \in {ir.cur} \cup (Blocks' \ Blocks)
      PROVE  Dom(ir'.into, d, b)
  <2>1. d \in DOMAIN ir.into
    BY HeldInBlocks DEF Blocks
  <2>2. Dom(ir.into, d, ir.cur)
    BY <1>3 DEF FlowInv, HeldDominates, Running
  <2>3. ir.cur \in DOMAIN ir.into
    BY <1>3, Parts DEF OpenInv, Blocks
  <2>4. b \in DOMAIN ir'.into \ DOMAIN ir.into \/ b = ir.cur
    BY DEF Blocks
  <2> QED
    BY ONLY <1>1, <2>1, <2>2, <2>3, <2>4, GrowthBeyond
<1> QED
  BY <1>2, <1>3

(* What a branch to label t carries comes from the locals and res.         *)
LEMMA CarriedFrom ==
  ASSUME TrInv, status = "running", NEW hits, NEW res, Hits(hits, res),
         \A t \in DOMAIN labels : hits[t] > 0 /\ MergesResult(labels[t]) => DefinedIn(res) \in Held
  PROVE  CarriedHeld(hits, res)
<1> SUFFICES ASSUME NEW t \in DOMAIN labels, hits[t] > 0, NEW i \in DOMAIN Carried(t, res)
             PROVE  DefinedIn(Carried(t, res)[i]) \in Held
  BY DEF CarriedHeld
<1>1. Shape /\ (MergesResult(labels[t]) => res \in Value)
  BY Parts DEF Hits, Usable
<1>2. /\ Carried(t, res) \in Seq(Value)
      /\ Len(Carried(t, res)) = Len(LocalType) + (IF MergesResult(labels[t]) THEN 1 ELSE 0)
      /\ \A j \in 1 .. Len(LocalType) : Carried(t, res)[j] = locals[j]
      /\ MergesResult(labels[t]) => Carried(t, res)[Len(LocalType) + 1] = res
  BY <1>1, CarriedFacts
<1>3. Len(LocalType) \in Nat /\ DOMAIN locals = 1 .. Len(LocalType)
  BY <1>1, TranslateAssumption DEF Shape
<1>4. DOMAIN Carried(t, res) = 1 .. Len(LocalType) + (IF MergesResult(labels[t]) THEN 1 ELSE 0)
  BY <1>2
<1>5. CASE i \in 1 .. Len(LocalType)
  BY <1>2, <1>3, <1>5 DEF Held
<1>6. CASE i \notin 1 .. Len(LocalType)
  <2>1. MergesResult(labels[t]) /\ i = Len(LocalType) + 1
    BY <1>3, <1>4, <1>6
  <2> QED
    BY <1>2, <2>1
<1> QED
  BY <1>5, <1>6

LEMMA EveryBranch ==
  ASSUME TrInv, TrInv', FlowInv, status = "running", labels # <<>>, NEW hits, NEW res, Hits(hits, res),
         Branches(ir', hits, res), Wired, CarriedHeld(hits, res), NEW b \in Blocks', NEW k \in DOMAIN ir'.into[b]
  PROVE  \/ b \in Blocks /\ k \in DOMAIN ir.into[b] /\ ir'.into[b][k] = ir.into[b][k]
         \/ /\ NewBranch(b, ir'.into[b][k]) /\ ir'.into[b][k].src \in {ir.cur} \cup (Blocks' \ Blocks)
            /\ \A i \in DOMAIN ir'.into[b][k].vals : DefinedIn(ir'.into[b][k].vals[i]) \in Held
<1>1. CASE b \in Blocks /\ k \in DOMAIN ir.into[b]
  BY <1>1, EdgesKept
<1>2. CASE ~ (b \in Blocks /\ k \in DOMAIN ir.into[b])
  <2> DEFINE e == ir'.into[b][k]
  <2>1. NewBranch(b, e)
    BY <1>2 DEF Wired
  <2>2. e.src \in {ir.cur} \cup (Blocks' \ Blocks)
    BY <2>1 DEF NewBranch
  <2>3. CASE b \notin Blocks
    <3>1. e.vals = locals
      BY <2>1, <2>3 DEF NewBranch
    <3>2. \A i \in DOMAIN locals : DefinedIn(locals[i]) \in Held
      BY DEF Held
    <3> QED
      BY <2>1, <2>2, <3>1, <3>2
  <2>4. CASE b \in Blocks
    <3>1. PICK t \in DOMAIN labels : hits[t] > 0 /\ e.vals = Carried(t, res)
      BY <1>2, <2>4, EdgesKept
    <3>2. \A i \in DOMAIN Carried(t, res) : DefinedIn(Carried(t, res)[i]) \in Held
      BY <3>1 DEF CarriedHeld
    <3> QED
      BY <2>1, <2>2, <3>1, <3>2
  <2> QED
    BY <2>3, <2>4
<1> QED
  BY <1>1, <1>2

(* The sources of the branches that were there can no longer be branched   *)
(* to, so their dominators stay.                                           *)
LEMMA SourcesStay ==
  ASSUME TrInv, FlowInv, NEW b \in Blocks, NEW k \in DOMAIN ir.into[b]
  PROVE  ir.into[b][k].src \in Blocks \ Pending
<1>1. SourcesInv /\ OpenInv /\ SourcesClosed
  BY Parts DEF FlowInv
<1> QED
  BY <1>1 DEF SourcesInv, OpenInv, SourcesClosed

LEMMA StepBranches ==
  ASSUME TrInv, TrInv', FlowInv, status = "running", labels # <<>>, NEW hits, NEW res, Hits(hits, res),
         Branches(ir', hits, res), Wired, CarriedHeld(hits, res)
  PROVE  SourcesClosed' /\ CarriedDominates'
<1>1. ASSUME NEW b \in Blocks', NEW k \in DOMAIN ir'.into[b]
      PROVE  /\ ir'.into[b][k].src \in ir'.term
             /\ \A i \in DOMAIN ir'.into[b][k].vals :
                  /\ DefinedIn(ir'.into[b][k].vals[i]) \in Blocks'
                  /\ Dom(ir'.into, DefinedIn(ir'.into[b][k].vals[i]), ir'.into[b][k].src)
  <2> DEFINE e == ir'.into[b][k]
  <2>0. Blocks \subseteq Blocks'
    BY EdgesKept
  <2>1. CASE b \in Blocks /\ k \in DOMAIN ir.into[b] /\ e = ir.into[b][k]
    <3>1. e.src \in ir.term
      BY <2>1 DEF FlowInv, SourcesClosed
    <3>2. ir.term \subseteq ir'.term
      BY DEF Wired
    <3>3. e.src \in Blocks \ Pending
      BY <2>1, SourcesStay
    <3>4. \A i \in DOMAIN e.vals : DefinedIn(e.vals[i]) \in Blocks /\ Dom(ir.into, DefinedIn(e.vals[i]), e.src)
      BY <2>1 DEF FlowInv, CarriedDominates
    <3> HIDE DEF e
    <3>5. \A d \in Blocks : \A c \in Blocks \ Pending : Dom(ir.into, d, c) => Dom(ir'.into, d, c)
      BY DominatorsKept
    <3>6. \A i \in DOMAIN e.vals : Dom(ir'.into, DefinedIn(e.vals[i]), e.src)
      BY ONLY <3>3, <3>4, <3>5
    <3> QED
      BY <2>0, <3>1, <3>2, <3>4, <3>6 DEF e
  <2>2. CASE /\ NewBranch(b, e) /\ e.src \in {ir.cur} \cup (Blocks' \ Blocks)
             /\ \A i \in DOMAIN e.vals : DefinedIn(e.vals[i]) \in Held
    <3>1. e.src \in ir'.term /\ ~Top.terminated
      BY <2>2 DEF NewBranch
    <3> HIDE DEF e
    <3>2. \A d \in Held : \A c \in {ir.cur} \cup (Blocks' \ Blocks) : Dom(ir'.into, d, c)
      BY <3>1, DominatorsKept
    <3>3. Held \subseteq Blocks
      BY HeldInBlocks
    <3>4. \A i \in DOMAIN e.vals : DefinedIn(e.vals[i]) \in Blocks' /\ Dom(ir'.into, DefinedIn(e.vals[i]), e.src)
      BY ONLY <2>0, <2>2, <3>2, <3>3
    <3> QED
      BY <3>1, <3>4 DEF e
  <2> HIDE DEF e
  <2>3. \/ b \in Blocks /\ k \in DOMAIN ir.into[b] /\ e = ir.into[b][k]
        \/ /\ NewBranch(b, e) /\ e.src \in {ir.cur} \cup (Blocks' \ Blocks)
           /\ \A i \in DOMAIN e.vals : DefinedIn(e.vals[i]) \in Held
    BY EveryBranch DEF e
  <2> QED
    BY <2>1, <2>2, <2>3 DEF e
<1> QED
  BY <1>1 DEF SourcesClosed, CarriedDominates

(* Whatever has a branch into it can be reached.                           *)
LEMMA StepReached ==
  ASSUME TrInv, TrInv', FlowInv, status = "running", labels # <<>>, NEW hits, NEW res, Hits(hits, res),
         Branches(ir', hits, res), Wired, CarriedHeld(hits, res)
  PROVE  /\ SourcesReached'
         /\ \A b \in Blocks' : ir'.into[b] # <<>> => b \in Reach(ir'.into, {})
         /\ ~Top.terminated => ir.cur \in Reach(ir'.into, {})
<1> DEFINE E == ir.into
           F == ir'.into
           R == Reach(F, {})
<1>0. /\ E \in Seq(Seq(BranchType)) /\ F \in Seq(Seq(BranchType)) /\ 1 \in DOMAIN E
      /\ \A b \in DOMAIN E : b \in DOMAIN F /\ \A k \in DOMAIN E[b] : k \in DOMAIN F[b] /\ F[b][k] = E[b][k]
      /\ 1 \in DOMAIN F
  <2>1. E \in Seq(Seq(BranchType)) /\ F \in Seq(Seq(BranchType))
    BY FlowParts, FlowPartsNext
  <2>2. \A b \in DOMAIN E : b \in DOMAIN F /\ \A k \in DOMAIN E[b] : k \in DOMAIN F[b] /\ F[b][k] = E[b][k]
    BY EdgesKept DEF Blocks
  <2>3. 1 \in DOMAIN E
    BY DEF FlowInv, EntryFirst, Blocks
  <2> QED
    BY <2>1, <2>2, <2>3
<1> HIDE DEF E, F
<1>1. Reach(E, {}) \subseteq R
  BY <1>0, ReachGrows
<1>2. ~Top.terminated => ir.cur \in R
  BY <1>1 DEF FlowInv, CursorReached, Running, E
<1>3. ASSUME ~Top.terminated, NEW n \in DOMAIN F \ DOMAIN E, F[n] # <<>>
      PROVE  n \in R
  <2>1. \A b \in DOMAIN F \ DOMAIN E : \A k \in DOMAIN F[b] :
          \/ F[b][k].src = ir.cur
          \/ F[b][k].src \in DOMAIN F \ DOMAIN E /\ F[F[b][k].src] # <<>> /\ F[b][k].src < b
    BY DEF Wired, NewBranch, Blocks, E, F
  <2>2. ir.cur \in Reach(F, {})
    BY <1>2, <1>3
  <2> QED
    BY ONLY <1>0, <1>3, <2>1, <2>2, NewReached DEF R
<1>4. ASSUME NEW b \in DOMAIN F, NEW k \in DOMAIN F[b]
      PROVE  F[b][k].src \in R
  <2>1. CASE b \in DOMAIN E /\ k \in DOMAIN E[b]
    <3>1. E[b][k].src \in Reach(E, {})
      BY <2>1 DEF FlowInv, SourcesReached, Blocks, E
    <3> QED
      BY <1>0, <1>1, <2>1, <3>1
  <2>2. CASE ~ (b \in DOMAIN E /\ k \in DOMAIN E[b])
    <3>1. NewBranch(b, F[b][k])
      BY <1>4, <2>2 DEF Wired, Blocks, E, F
    <3>2. /\ ~Top.terminated
          /\ \/ F[b][k].src = ir.cur
             \/ F[b][k].src \in DOMAIN F \ DOMAIN E /\ F[F[b][k].src] # <<>>
      BY <3>1 DEF NewBranch, Blocks, E, F
    <3> QED
      BY <1>2, <1>3, <3>2
  <2> QED
    BY <2>1, <2>2
<1>5. ASSUME NEW b \in DOMAIN F, F[b] # <<>>
      PROVE  b \in R
  <2>1. 1 \in DOMAIN F[b]
    <3>1. F[b] \in Seq(BranchType)
      BY <1>0, <1>5
    <3> QED
      BY <1>5, <3>1
  <2>2. F[b][1].src \in Reach(F, {})
    BY <1>4, <1>5, <2>1
  <2> QED
    BY ONLY <1>0, <1>5, <2>1, <2>2, ReachFollows DEF R
<1>6. SourcesReached'
  BY <1>4 DEF SourcesReached, Blocks, F
<1> QED
  BY <1>2, <1>5, <1>6 DEF Blocks, F

LEMMA WidthSame ==
  ASSUME NEW k, NEW l, k.loop = l.loop, k.rtype = l.rtype
  PROVE  Width(k) = Width(l)
  BY DEF Width, MergesResult

LEMMA StepEntryFirst ==
  ASSUME TrInv, TrInv', FlowInv, status = "running", labels # <<>>, NEW hits, NEW res, Hits(hits, res),
         Branches(ir', hits, res), LabelsKept(hits)
  PROVE  EntryFirst'
<1>1. 1 \in Blocks /\ \A t \in DOMAIN labels : t > 1 => labels[t].block > 1
  BY DEF FlowInv, EntryFirst
<1>2. 1 \in Blocks'
  BY <1>1, EdgesKept
<1>3. ASSUME NEW t \in DOMAIN labels', t > 1
      PROVE  labels'[t].block > 1
  <2>1. Shape' /\ Chain'
    BY DEF TrInv
  <2>2. labels'[t].block \in Nat /\ labels'[t].block > 0
    <3>1. /\ labels' \in Seq(LabelType) /\ labels' # <<>> /\ labels'[1].block = 0 /\ 1 \in DOMAIN labels'
          /\ \A s, u \in DOMAIN labels' : s < u => labels'[s].block < labels'[u].block
      BY <2>1 DEF Shape, Chain, ChainOK
    <3>2. labels'[t] \in LabelType
      BY <3>1
    <3>3. labels'[t].block \in Nat
      BY <3>2, LabelTyped
    <3> QED
      BY <1>3, <3>1, <3>3
  <2>3. CASE labels'[t].block \notin Blocks
    BY <1>1, <2>2, <2>3
  <2>4. CASE t \in DOMAIN labels /\ labels'[t].block = labels[t].block
    BY <1>1, <1>3, <2>4
  <2> QED
    BY <1>3, <2>3, <2>4 DEF LabelsKept
<1> QED
  BY <1>2, <1>3 DEF EntryFirst

(* What the labels that stay know of their branches stays true.            *)
LEMMA StepLabels ==
  ASSUME TrInv, TrInv', FlowInv, status = "running", labels # <<>>, NEW hits, NEW res, Hits(hits, res),
         Branches(ir', hits, res), Wired, CarriedHeld(hits, res), LabelsKept(hits)
  PROVE  ReachedEntered' /\ BranchesWide' /\ BelowDominates'
<1>1. ASSUME NEW t \in DOMAIN labels', t > 1, labels'[t].block \notin Blocks,
             labels'[t].loop \/ (~labels'[t].reached /\ ir'.into[labels'[t].block] = <<>>)
      PROVE  /\ ~labels'[t].loop => ~labels'[t].reached /\ DOMAIN ir'.into[labels'[t].block] = {}
             /\ \A k \in DOMAIN ir'.into[labels'[t].block] :
                  DOMAIN ir'.into[labels'[t].block][k].vals = 1 .. Width(labels'[t])
  <2> DEFINE b == labels'[t].block
  <2>1. ~labels'[t].loop => ~labels'[t].reached /\ DOMAIN ir'.into[b] = {}
    BY <1>1
  <2>2. ASSUME labels'[t].loop, NEW k \in DOMAIN ir'.into[b]
        PROVE  DOMAIN ir'.into[b][k].vals = 1 .. Width(labels'[t])
    <3>1. b \in Blocks'
      <4>1. Shape' /\ Chain'
        BY DEF TrInv
      <4>2. labels' # <<>> /\ b <= Len(ir'.into) /\ b \in Nat /\ b > 0
        <5>1. labels'[t] \in LabelType /\ labels' # <<>> /\ 1 \in DOMAIN labels'
          BY <4>1 DEF Shape
        <5>2. b \in Nat
          BY <5>1, LabelTyped
        <5>3. labels'[1].block = 0 /\ labels'[1].block < b /\ b <= Len(ir'.into)
          BY <1>1, <4>1, <5>1 DEF Chain, ChainOK
        <5> QED
          BY <5>1, <5>2, <5>3
      <4>3. Blocks' = 1 .. Len(ir'.into) /\ Len(ir'.into) \in Nat
        BY FlowPartsNext
      <4> HIDE DEF b
      <4> QED
        BY ONLY <4>2, <4>3
    <3>2. NewBranch(b, ir'.into[b][k])
      BY <1>1, <2>2, <3>1 DEF Wired
    <3>3. ir'.into[b][k].vals = locals
      BY <1>1, <3>2 DEF NewBranch
    <3>4. DOMAIN locals = 1 .. Len(LocalType) /\ Len(LocalType) \in Nat
      BY Parts, TranslateAssumption DEF Shape
    <3>5. Width(labels'[t]) = Len(LocalType)
      BY <2>2, <3>4 DEF Width, MergesResult
    <3> QED
      BY <3>3, <3>4, <3>5
  <2> QED
    BY <2>1, <2>2
<1>2. ASSUME NEW t \in DOMAIN labels', t > 1, t \in DOMAIN labels, labels'[t].block = labels[t].block,
             labels'[t].loop = labels[t].loop, labels'[t].rtype = labels[t].rtype, Below(t)' \subseteq Below(t),
             labels'[t].reached => labels[t].reached \/ hits[t] > 0
      PROVE  LET b == labels'[t].block IN
             /\ ~labels'[t].loop /\ labels'[t].reached => ir'.into[b] # <<>>
             /\ \A k \in DOMAIN ir'.into[b] :
                  /\ DOMAIN ir'.into[b][k].vals = 1 .. Width(labels'[t])
                  /\ ~labels'[t].loop => \A d \in Below(t)' : Dom(ir'.into, d, ir'.into[b][k].src)
  <2> DEFINE b == labels[t].block
  <2>0. b \in Blocks /\ Shape /\ Chain /\ b \in Blocks'
    <3>1. Shape /\ Chain
      BY Parts
    <3>2. b \in Blocks
      BY <1>2, <3>1, BlockFacts
    <3> QED
      BY <3>1, <3>2, EdgesKept
  <2>1. Width(labels'[t]) = Width(labels[t])
    BY <1>2, WidthSame
  <2>2. Below(t) \subseteq Held /\ Below(t) \subseteq Blocks
    <3>1. Below(t) \subseteq Held
      BY DEF Below, Held, Heads
    <3> QED
      BY <3>1, HeldInBlocks
  <2>3. ASSUME ~labels[t].loop, labels'[t].reached
        PROVE  ir'.into[b] # <<>>
    <3>1. CASE labels[t].reached
      <4>1. ir.into[b] # <<>>
        BY <1>2, <2>3, <3>1 DEF FlowInv, ReachedEntered
      <4>2. ir.into[b] \in Seq(BranchType)
        BY <2>0, FlowParts DEF Blocks
      <4>3. 1 \in DOMAIN ir.into[b]
        BY ONLY <4>1, <4>2
      <4>4. 1 \in DOMAIN ir'.into[b]
        BY <2>0, <4>3, EdgesKept
      <4> QED
        BY <4>4
    <3>2. CASE hits[t] > 0
      <4>1. Extends(ir.into[b], ir'.into[b], hits[t], Carried(t, res)) /\ hits[t] \in Nat
        BY <1>2 DEF Branches, Hits
      <4>2. Len(ir.into[b]) \in Nat
        BY <2>0, FlowParts
      <4>3. Len(ir'.into[b]) > 0
        BY ONLY <3>2, <4>1, <4>2 DEF Extends
      <4> QED
        BY <4>3
    <3> QED
      BY <1>2, <2>3, <3>1, <3>2
  <2>4. ASSUME NEW k \in DOMAIN ir'.into[b]
        PROVE  /\ DOMAIN ir'.into[b][k].vals = 1 .. Width(labels[t])
               /\ ~labels[t].loop => \A d \in Below(t) : Dom(ir'.into, d, ir'.into[b][k].src)
    <3> DEFINE e == ir'.into[b][k]
    <3>1. CASE k \in DOMAIN ir.into[b]
      <4>1. e = ir.into[b][k]
        BY <2>0, <3>1, EdgesKept
      <4>2. DOMAIN e.vals = 1 .. Width(labels[t])
        BY <1>2, <3>1, <4>1 DEF FlowInv, BranchesWide
      <4>3. ~labels[t].loop => \A d \in Below(t) : Dom(ir.into, d, e.src)
        BY <1>2, <3>1, <4>1 DEF FlowInv, BelowDominates
      <4>4. e.src \in Blocks \ Pending
        BY <2>0, <3>1, <4>1, SourcesStay
      <4> HIDE DEF e
      <4>5. \A d \in Blocks : \A c \in Blocks \ Pending : Dom(ir.into, d, c) => Dom(ir'.into, d, c)
        BY DominatorsKept
      <4>6. ~labels[t].loop => \A d \in Below(t) : Dom(ir'.into, d, e.src)
        BY ONLY <2>2, <4>3, <4>4, <4>5
      <4> QED
        BY <4>2, <4>6 DEF e
    <3>2. CASE k \notin DOMAIN ir.into[b]
      <4>1. PICK u \in DOMAIN labels : u > 1 /\ labels[u].block = b /\ hits[u] > 0 /\ e.vals = Carried(u, res)
        BY <2>0, <2>4, <3>2, EdgesKept
      <4>2. u = t
        BY <1>2, <2>0, <4>1, BlocksDiffer
      <4>3. hits[t] > 0 /\ e.vals = Carried(t, res)
        BY <4>1, <4>2
      <4>4. /\ Carried(t, res) \in Seq(Value)
            /\ Len(Carried(t, res)) = Len(LocalType) + (IF MergesResult(labels[t]) THEN 1 ELSE 0)
        <5>1. MergesResult(labels[t]) => res \in Value
          BY <1>2, <4>3 DEF Hits, Usable
        <5> QED
          BY <1>2, <2>0, <5>1, CarriedFacts
      <4>5. DOMAIN e.vals = 1 .. Width(labels[t])
        <5>1. Len(Carried(t, res)) = Width(labels[t])
          BY <4>4 DEF Width
        <5> QED
          BY <4>3, <4>4, <5>1
      <4>6. NewBranch(b, e)
        BY <2>0, <2>4, <3>2 DEF Wired
      <4>7. ~Top.terminated /\ e.src \in {ir.cur} \cup (Blocks' \ Blocks)
        BY <4>6 DEF NewBranch
      <4> HIDE DEF e
      <4>8. \A d \in Held : \A c \in {ir.cur} \cup (Blocks' \ Blocks) : Dom(ir'.into, d, c)
        BY <4>7, DominatorsKept
      <4>9. \A d \in Below(t) : Dom(ir'.into, d, e.src)
        BY ONLY <2>2, <4>7, <4>8
      <4> QED
        BY <4>5, <4>9 DEF e
    <3> QED
      BY <3>1, <3>2
  <2>5. \A d \in Below(t)' : d \in Below(t)
    BY <1>2
  <2> HIDE DEF b
  <2>6. labels'[t].block = b /\ labels'[t].loop = labels[t].loop
    BY <1>2 DEF b
  <2> QED
    BY ONLY <2>1, <2>3, <2>4, <2>5, <2>6
<1>3. ReachedEntered'
  BY <1>1, <1>2, LabelsKept(hits) DEF LabelsKept, ReachedEntered
<1>4. BranchesWide'
  BY <1>1, <1>2, LabelsKept(hits) DEF LabelsKept, BranchesWide
<1>5. BelowDominates'
  BY <1>1, <1>2, LabelsKept(hits) DEF LabelsKept, BelowDominates
<1> QED
  BY <1>3, <1>4, <1>5

LEMMA WideAfter ==
  ASSUME TrInv, TrInv', FlowInv, status = "running", labels # <<>>, NEW hits, NEW res, Hits(hits, res),
         Branches(ir', hits, res), NEW t \in DOMAIN labels, t > 1, NEW k \in DOMAIN ir'.into[labels[t].block]
  PROVE  DOMAIN ir'.into[labels[t].block][k].vals = 1 .. Width(labels[t])
<1> DEFINE b == labels[t].block
           e == ir'.into[b][k]
<1>0. b \in Blocks /\ Shape /\ Chain
  BY Parts, BlockFacts
<1>1. CASE k \in DOMAIN ir.into[b]
  <2>1. e = ir.into[b][k]
    BY <1>0, <1>1, EdgesKept
  <2> QED
    BY <1>1, <2>1 DEF FlowInv, BranchesWide
<1>2. CASE k \notin DOMAIN ir.into[b]
  <2>1. PICK u \in DOMAIN labels : u > 1 /\ labels[u].block = b /\ hits[u] > 0 /\ e.vals = Carried(u, res)
    BY <1>0, <1>2, EdgesKept
  <2>2. u = t
    BY <1>0, <2>1, BlocksDiffer
  <2>3. hits[t] > 0 /\ e.vals = Carried(t, res)
    BY <2>1, <2>2
  <2>4. MergesResult(labels[t]) => res \in Value
    BY <2>3 DEF Hits, Usable
  <2>5. /\ Carried(t, res) \in Seq(Value)
        /\ Len(Carried(t, res)) = Len(LocalType) + (IF MergesResult(labels[t]) THEN 1 ELSE 0)
    BY <1>0, <2>4, CarriedFacts
  <2>6. Len(Carried(t, res)) = Width(labels[t])
    BY <2>5 DEF Width
  <2> QED
    BY <2>3, <2>5, <2>6
<1> QED
  BY <1>1, <1>2

LEMMA StepPhisCarried ==
  ASSUME TrInv, TrInv', FlowInv, status = "running", labels # <<>>, NEW hits, NEW res, Hits(hits, res),
         Branches(ir', hits, res), \A p \in DOMAIN ir'.phis : p[1] \notin Blocks => PhiCarried(p)'
  PROVE  PhisCarried'
<1>0. Shape /\ Chain /\ LabelsInv /\ PhisInv /\ ValuesInv
  BY Parts
<1>1. ASSUME NEW p \in DOMAIN ir'.phis, NEW t \in DOMAIN labels, t > 1, labels[t].block = p[1]
      PROVE  PhiCarried(p)'
  <2> DEFINE b == labels[t].block
             l == After(hits, res, t)
             F == ir'.into[b]
             P == ir'.phis
  <2>1. LabelOK(l, F, P) /\ (p[2] > 0 /\ Len(P[p]) = Len(F))
    BY <1>0, <1>1, StepLabel
  <2>2. l \in LabelType /\ l.block = b /\ l.loop = labels[t].loop /\ l.rtype = labels[t].rtype
    BY <1>0, <1>1, AfterFacts
  <2>3. F \in Seq(BranchType) /\ P[p] \in Seq(Value) /\ b > 0
    <3>1. b \in Blocks /\ b > 0
      BY <1>0, <1>1, BlockFacts
    <3>2. b \in Blocks'
      BY <3>1, EdgesKept
    <3>3. ir'.into \in Seq(Seq(BranchType)) /\ IsPhis(P)
      BY DEF Branches, IsIr
    <3> QED
      BY <1>1, <3>1, <3>2, <3>3 DEF Blocks, IsPhis
  <2>4. Width(l) = Width(labels[t])
    BY <2>2, WidthSame
  <2>5. \A k \in DOMAIN F : DOMAIN F[k].vals = 1 .. Width(labels[t])
    BY <1>1, WideAfter
  <2>6. p[1] = b
    BY <1>1
  <2> HIDE DEF l, F, P, b
  <2>7. p \in DOMAIN P
    BY <1>1 DEF P
  <2>8. p[2] \in DOMAIN l.merge /\ p = Phi(b, p[2]) /\ l.merge[p[2]].phi = p
    BY <2>1, <2>2, <2>6, <2>7 DEF LabelOK
  <2>9. \A k \in DOMAIN F : P[p][k] = F[k].vals[p[2]]
    <3>1. SlotOK(l, F, P, p[2])
      BY <2>1, <2>8 DEF LabelOK
    <3>2. p # NoPhi
      BY <2>3, <2>6 DEF NoPhi, Invalid
    <3> QED
      BY <2>2, <2>8, <3>1, <3>2 DEF SlotOK
  <2>10. p[2] \in 1 .. Width(l)
    <3>1. l.merge \in Seq(Slot) /\ l.reached \in BOOLEAN
      BY <2>2, LabelTyped
    <3>2. l.merge # <<>>
      BY <2>8, <3>1
    <3>3. l.reached
      BY <2>1, <3>1, <3>2 DEF LabelOK
    <3>4. Len(l.merge) = Width(l)
      BY <2>1, <3>3 DEF LabelOK, Width
    <3> QED
      BY <2>8, <3>1, <3>4
  <2>11. DOMAIN P[p] = DOMAIN F
    BY <2>1, <2>3
  <2>12. \A k \in DOMAIN P[p] : p[2] \in DOMAIN F[k].vals /\ P[p][k] = F[k].vals[p[2]]
    BY <2>4, <2>5, <2>9, <2>10, <2>11
  <2> QED
    BY <2>6, <2>12 DEF PhiCarried, P, F
<1>2. ASSUME NEW p \in DOMAIN ir'.phis, p[1] \in Blocks, \A t \in DOMAIN labels : t > 1 => labels[t].block # p[1]
      PROVE  PhiCarried(p)'
  <2> DEFINE b == p[1]
  <2>1. /\ ir'.into[b] = ir.into[b]
        /\ \A q : q[1] = b => (q \in DOMAIN ir'.phis <=> q \in DOMAIN ir.phis)
        /\ \A q \in DOMAIN ir.phis : q[1] = b => ir'.phis[q] = ir.phis[q]
    <3>1. Shape /\ Chain /\ Hits(hits, res) /\ Branches(ir', hits, res) /\ b \in Blocks
      BY <1>0, <1>2
    <3> QED
      BY ONLY <1>2, <3>1, StepOther
  <2>2. p \in DOMAIN ir.phis
    BY <1>2, <2>1
  <2>3. ir'.phis[p] = ir.phis[p] /\ ir'.into[p[1]] = ir.into[p[1]]
    BY <2>1, <2>2
  <2>4. PhiCarried(p)
    BY <2>2 DEF FlowInv, PhisCarried
  <2> QED
    BY ONLY <2>3, <2>4 DEF PhiCarried
<1> QED
  BY <1>1, <1>2 DEF PhisCarried

(* The cursor stays, or goes to a block made on the way, and what code     *)
(* there can use was at hand before.                                       *)
Onward ==
  Running' => /\ ~Top.terminated
              /\ Held' \subseteq Held \cup {ir'.cur}
              /\ \/ ir'.cur = ir.cur
                 \/ ir'.cur \in Blocks' \ Blocks /\ ir'.into[ir'.cur] # <<>>

LEMMA StepOnward ==
  ASSUME TrInv, TrInv', FlowInv, status = "running", labels # <<>>, NEW hits, NEW res, Hits(hits, res),
         Branches(ir', hits, res), Wired, CarriedHeld(hits, res), Onward
  PROVE  HeldDominates' /\ CursorReached'
<1>1. ASSUME Running', NEW d \in Held'
      PROVE  Dom(ir'.into, d, ir'.cur)
  <2>1. /\ ~Top.terminated /\ d \in Held \cup {ir'.cur}
        /\ ir'.cur \in {ir.cur} \cup (Blocks' \ Blocks)
    BY <1>1 DEF Onward
  <2>2. CASE d = ir'.cur
    <3>1. 1 \in DOMAIN ir'.into
      <4>1. 1 \in Blocks
        BY DEF FlowInv, EntryFirst
      <4> QED
        BY <4>1, EdgesKept DEF Blocks
    <3> QED
      BY <2>2, <3>1, DomSelf
  <2>3. CASE d \in Held
    BY <2>1, <2>3, DominatorsKept
  <2> QED
    BY <2>1, <2>2, <2>3
<1>2. ASSUME Running'
      PROVE  ir'.cur \in Reach(ir'.into, {})
  <2>1. /\ \A b \in Blocks' : ir'.into[b] # <<>> => b \in Reach(ir'.into, {})
        /\ ~Top.terminated => ir.cur \in Reach(ir'.into, {})
    BY StepReached
  <2> QED
    BY <1>2, <2>1 DEF Onward
<1> QED
  BY <1>1, <1>2 DEF HeldDominates, CursorReached

LEMMA FlowStep ==
  ASSUME TrInv, TrInv', FlowInv, status = "running", labels # <<>>, NEW hits, NEW res, Hits(hits, res),
         Branches(ir', hits, res), Wired, CarriedHeld(hits, res), LabelsKept(hits),
         \A p \in DOMAIN ir'.phis : p[1] \notin Blocks => PhiCarried(p)',
         HeldDominates', CursorReached'
  PROVE  FlowInv'
<1>1. EntryFirst'
  BY StepEntryFirst
<1>2. SourcesClosed' /\ CarriedDominates'
  BY StepBranches
<1>3. SourcesReached'
  BY StepReached
<1>4. ReachedEntered' /\ BranchesWide' /\ BelowDominates'
  BY StepLabels
<1>5. PhisCarried'
  BY StepPhisCarried
<1> QED
  BY <1>1, <1>2, <1>3, <1>4, <1>5 DEF FlowInv

(* Whether a label is reached after a step.                                *)
LEMMA AfterReached ==
  ASSUME Shape, status = "running", NEW hits, NEW res, Hits(hits, res), NEW t \in DOMAIN labels,
         After(hits, res, t).reached
  PROVE  labels[t].reached \/ hits[t] > 0
<1>1. hits[t] \in Nat
  BY DEF Hits
<1>2. hits[t] = 0 => After(hits, res, t) = labels[t]
  BY DEF After
<1> QED
  BY <1>1, <1>2

(* What a label that is not on top still holds, by its number.             *)
LEMMA SameBelow ==
  ASSUME NEW t, DOMAIN labels \subseteq Nat, t \in Nat,
         \A u \in DOMAIN labels' : u < t =>
           /\ u \in DOMAIN labels /\ labels'[u].stack = labels[u].stack
           /\ labels'[u].block = labels[u].block /\ labels'[u].loop = labels[u].loop
  PROVE  Below(t)' \subseteq Below(t)
<1>1. ASSUME NEW u \in DOMAIN labels', u < t
      PROVE  Stacked(u)' = Stacked(u)
  BY <1>1 DEF Stacked
<1> DEFINE new == {labels'[u].block : u \in {v \in DOMAIN labels' : 1 < v /\ v < t /\ labels'[v].loop}}
           old == {labels[u].block : u \in {v \in DOMAIN labels : 1 < v /\ v < t /\ labels[v].loop}}
<1>2. new \subseteq old
  OBVIOUS
<1>3. ASSUME NEW u \in DOMAIN labels', u < t
      PROVE  u \in {v \in DOMAIN labels : v < t}
  BY <1>3
<1>4. Below(t)' = new \cup UNION {Stacked(u)' : u \in {v \in DOMAIN labels' : v < t}}
  BY DEF Below
<1>5. Below(t) = old \cup UNION {Stacked(u) : u \in {v \in DOMAIN labels : v < t}}
  BY DEF Below
<1> HIDE DEF new, old, Below, Stacked
<1> QED
  BY <1>1, <1>2, <1>3, <1>4, <1>5

-----------------------------------------------------------------------------
(* The actions that open and close no frame.                               *)

AtHand(v) == DefinedIn(v) \in Held \/ DefinedIn(v) = ir'.cur

(* The cursor of a step that does not end in dead code.                    *)
GoesTo(dead) ==
  ~dead => /\ ~Top.terminated
           /\ \/ ir'.cur = ir.cur
              \/ ir'.cur \in Blocks' \ Blocks /\ ir'.into[ir'.cur] # <<>>

LEMMA TopOfKept ==
  ASSUME TrInv, status = "running", labels # <<>>, NEW hits, NEW res, Hits(hits, res), NEW s, NEW dead, NEW d,
         TopOf(hits, res, labels', s, dead, d)
  PROVE  /\ LabelsKept(hits)
         /\ Heads' = Heads
         /\ \A t \in DOMAIN labels : t < Len(labels) => Stacked(t)' = Stacked(t)
<1>0. /\ Shape /\ LabelsInv /\ ValuesInv /\ labels \in Seq(LabelType) /\ labels' \in Seq(LabelType)
      /\ Len(labels') = Len(labels)
  BY Parts DEF Shape, TopOf
<1>1. /\ DOMAIN labels = 1 .. Len(labels) /\ DOMAIN labels' = DOMAIN labels /\ Len(labels) \in Nat
      /\ DOMAIN labels \subseteq Nat
  BY ONLY <1>0
<1>2. ASSUME NEW t \in DOMAIN labels
      PROVE  /\ labels'[t].block = labels[t].block
             /\ labels'[t].loop = labels[t].loop
             /\ labels'[t].rtype = labels[t].rtype
             /\ labels'[t].reached => labels[t].reached \/ hits[t] > 0
             /\ t < Len(labels) => labels'[t].stack = labels[t].stack
  <2>1. SameMerge(labels'[t], After(hits, res, t))
    BY DEF TopOf
  <2>2. /\ After(hits, res, t).block = labels[t].block
        /\ After(hits, res, t).loop = labels[t].loop
        /\ After(hits, res, t).rtype = labels[t].rtype
    BY <1>0, AfterFacts
  <2>3. t < Len(labels) => labels'[t].stack = labels[t].stack
    BY DEF TopOf
  <2>4. After(hits, res, t).reached => labels[t].reached \/ hits[t] > 0
    BY <1>0, AfterReached
  <2> QED
    BY ONLY <2>1, <2>2, <2>3, <2>4 DEF SameMerge
<1>3. ASSUME NEW t \in DOMAIN labels
      PROVE  Below(t)' \subseteq Below(t)
  <2>1. /\ DOMAIN labels \subseteq Nat /\ t \in Nat
        /\ \A u \in DOMAIN labels' : u < t =>
             /\ u \in DOMAIN labels /\ labels'[u].stack = labels[u].stack
             /\ labels'[u].block = labels[u].block /\ labels'[u].loop = labels[u].loop
    <3>1. \A u \in DOMAIN labels' : u < t => u \in DOMAIN labels /\ u < Len(labels)
      BY ONLY <1>1, t \in DOMAIN labels
    <3> QED
      BY <1>1, <1>2, <3>1
  <2> QED
    BY ONLY <2>1, SameBelow
<1>4. LabelsKept(hits)
  BY <1>1, <1>2, <1>3 DEF LabelsKept
<1>5. Heads' = Heads
  BY <1>1, <1>2 DEF Heads
<1>6. ASSUME NEW t \in DOMAIN labels, t < Len(labels)
      PROVE  Stacked(t)' = Stacked(t)
  BY <1>2, <1>6 DEF Stacked
<1> QED
  BY <1>4, <1>5, <1>6

LEMMA FlowInPlace ==
  ASSUME TrInv, TrInv', FlowInv, status = "running", labels # <<>>, NEW hits, NEW res, Hits(hits, res),
         Branches(ir', hits, res), Wired, CarriedHeld(hits, res),
         NEW s, NEW dead, NEW d, TopOf(hits, res, labels', s, dead, d),
         \A p \in DOMAIN ir'.phis : p[1] \in Blocks,
         \A i \in DOMAIN locals' : AtHand(locals'[i]), \A j \in DOMAIN s : AtHand(s[j].val), GoesTo(dead)
  PROVE  FlowInv'
<1>1. /\ LabelsKept(hits) /\ Heads' = Heads
      /\ \A t \in DOMAIN labels : t < Len(labels) => Stacked(t)' = Stacked(t)
  BY TopOfKept
<1>2. /\ Len(labels') = Len(labels) /\ DOMAIN labels = 1 .. Len(labels) /\ DOMAIN labels' = DOMAIN labels
      /\ Len(labels) \in Nat /\ labels'[Len(labels)].stack = s /\ labels'[Len(labels)].terminated = dead
  <2>1. labels \in Seq(LabelType)
    BY FlowParts
  <2>2. /\ labels' \in Seq(LabelType) /\ Len(labels') = Len(labels)
        /\ labels'[Len(labels)].stack = s /\ labels'[Len(labels)].terminated = dead
    BY DEF TopOf
  <2> QED
    BY ONLY <2>1, <2>2
<1>3. Top'.terminated = dead
  BY ONLY <1>2 DEF Top, TopIdx
<1>4. Held' \subseteq Held \cup {ir'.cur}
  <2>1. {DefinedIn(locals'[i]) : i \in DOMAIN locals'} \subseteq Held \cup {ir'.cur}
    BY DEF AtHand
  <2>2. ASSUME NEW t \in DOMAIN labels'
        PROVE  Stacked(t)' \subseteq Held \cup {ir'.cur}
    <3>1. CASE t < Len(labels)
      <4>1. Stacked(t) \subseteq Held
        BY <1>2 DEF Held
      <4> QED
        BY <1>1, <1>2, <3>1, <4>1
    <3>2. CASE t = Len(labels)
      BY <1>2, <3>2 DEF Stacked, AtHand
    <3> QED
      BY <1>2, <3>1, <3>2
  <2>3. Heads \subseteq Held
    BY HeadsHeld
  <2>4. Held' = {DefinedIn(locals'[i]) : i \in DOMAIN locals'} \cup Heads' \cup UNION {Stacked(t)' : t \in DOMAIN labels'}
    BY DEF Held
  <2> HIDE DEF Held
  <2> QED
    BY ONLY <1>1, <2>1, <2>2, <2>3, <2>4
<1>5. Onward
  BY <1>3, <1>4 DEF Onward, GoesTo, Running
<1>6. HeldDominates' /\ CursorReached'
  BY <1>5, StepOnward
<1>7. \A p \in DOMAIN ir'.phis : p[1] \notin Blocks => PhiCarried(p)'
  OBVIOUS
<1> QED
  BY <1>1, <1>6, <1>7, FlowStep

(* What is on the stack and in the locals is held. *)
LEMMA HeldFacts ==
  ASSUME TrInv, status = "running", labels # <<>>
  PROVE  /\ \A i \in DOMAIN locals : DefinedIn(locals[i]) \in Held
         /\ \A j \in DOMAIN Top.stack : DefinedIn(Top.stack[j].val) \in Held
         /\ \A n \in 0 .. Len(Top.stack) : \A j \in DOMAIN Drop(Top.stack, n) :
              DefinedIn(Drop(Top.stack, n)[j].val) \in Held
<1>1. Top = labels[Len(labels)] /\ Len(labels) \in DOMAIN labels /\ Top.stack \in Seq(Operands)
  BY TopFacts
<1>2. \A j \in DOMAIN Top.stack : DefinedIn(Top.stack[j].val) \in Stacked(Len(labels))
  BY <1>1 DEF Stacked
<1>3. \A j \in DOMAIN Top.stack : DefinedIn(Top.stack[j].val) \in Held
  BY <1>1, <1>2 DEF Held
<1>4. ASSUME NEW n \in 0 .. Len(Top.stack), NEW j \in DOMAIN Drop(Top.stack, n)
      PROVE  DefinedIn(Drop(Top.stack, n)[j].val) \in Held
  <2> DEFINE s == Top.stack
             r == Drop(s, n)
  <2>1. s \in Seq(Operands) /\ n \in 0 .. Len(s)
    BY <1>1
  <2>2. r \in Seq(Operands) /\ Len(r) = Len(s) - n /\ \A i \in 1 .. Len(s) - n : r[i] = s[i]
    BY <2>1, DropFacts
  <2>3. j \in DOMAIN r /\ \A i \in DOMAIN s : DefinedIn(s[i].val) \in Held
    BY <1>3
  <2> HIDE DEF r, s
  <2>4. j \in 1 .. Len(s) - n /\ j \in DOMAIN s
    BY <2>1, <2>2, <2>3
  <2>5. r[j] = s[j] /\ DefinedIn(s[j].val) \in Held
    BY <2>2, <2>3, <2>4
  <2> QED
    BY <2>5 DEF r, s
<1> QED
  BY <1>3, <1>4 DEF Held

LEMMA AppendHeld ==
  ASSUME NEW s \in Seq(Operands), NEW x \in Operands, \A j \in DOMAIN s : AtHand(s[j].val), AtHand(x.val)
  PROVE  \A j \in DOMAIN Append(s, x) : AtHand(Append(s, x)[j].val)
  BY SeqAppend

LEMMA SameWired ==
  ASSUME TrInv, ir'.into = ir.into, ir.term \subseteq ir'.term
  PROVE  Wired
  BY DEF Wired, Blocks

(* A step that builds no branch to a label. *)
LEMMA FlowQuiet ==
  ASSUME TrInv, TrInv', FlowInv, status = "running", labels # <<>>, Quiet(ir'), Wired,
         NEW s, NEW dead, NEW d, TopOf(None, Invalid, labels', s, dead, d),
         \A i \in DOMAIN locals' : AtHand(locals'[i]), \A j \in DOMAIN s : AtHand(s[j].val), GoesTo(dead)
  PROVE  FlowInv'
<1>1. Shape /\ Chain
  BY Parts
<1>2. Hits(None, Invalid)
  BY <1>1, NoneHits
<1>3. Branches(ir', None, Invalid)
  BY <1>1, QuietBranches
<1>4. CarriedHeld(None, Invalid)
  BY DEF CarriedHeld, None
<1>5. \A p \in DOMAIN ir'.phis : p[1] \in Blocks
  BY Parts DEF Quiet, PhisInv
<1> QED
  BY <1>2, <1>3, <1>4, <1>5, FlowInPlace

LEMMA OperationFlow ==
  ASSUME TrInv, TrInv', FlowInv, NEW sig, IsSig(sig), Operation(sig)
  PROVE  FlowInv'
<1>0. /\ Live /\ Consume /\ nest' = nest /\ locals' = locals /\ entry' = entry /\ CanPop(sig.pops)
  BY DEF Operation
<1>1. /\ status = "running" /\ labels # <<>> /\ ~Top.terminated /\ Top.terminated = FALSE /\ Top.depth = 0
      /\ ir.cur \in Blocks
  BY <1>0, LiveFacts
<1> DEFINE n == Len(sig.pops)
           rest == Popped(n)
           s == Drop(Top.stack, n)
           out == [val |-> NewValue(ir), type |-> sig.push]
<1>2. n \in 0 .. Len(Top.stack)
  BY <1>0, <1>1, CanPopFacts DEF IsSig
<1>3. TopOf(None, Invalid, rest, s, FALSE, 0) /\ s \in Seq(Operands)
  BY <1>1, <1>2, PopFacts
<1>4. /\ \A i \in DOMAIN locals' : AtHand(locals'[i])
      /\ \A j \in DOMAIN s : AtHand(s[j].val)
  BY <1>0, <1>1, <1>2, HeldFacts DEF AtHand
<1>5. CASE sig.push = NoType
  <2>1. ir' = ir /\ labels' = rest
    BY <1>5 DEF Operation
  <2>2. Quiet(ir') /\ Wired /\ GoesTo(FALSE)
    BY <1>1, <2>1, SameIr, SameWired DEF GoesTo
  <2>3. TopOf(None, Invalid, labels', s, FALSE, 0)
    BY <1>3, <2>1
  <2> HIDE DEF rest, s
  <2> QED
    BY <1>1, <1>4, <2>2, <2>3, FlowQuiet
<1>6. CASE sig.push # NoType
  <2>1. ir' = Define(ir) /\ labels' = [rest EXCEPT ![TopIdx].stack = Append(@, out)]
    BY <1>6 DEF Operation
  <2>2. Quiet(ir') /\ Wired /\ GoesTo(FALSE) /\ ir'.cur = ir.cur
    BY <1>1, <2>1, SameIr, SameWired DEF GoesTo
  <2>3. out \in Operands /\ out.val = <<ir.cur, 0, ir.values + 1>>
    <3>1. ir.cur \in Nat /\ ir.values \in Nat
      BY Parts DEF Shape, IsIr
    <3>2. NewValue(ir) = <<ir.cur, 0, ir.values + 1>>
      BY DEF NewValue
    <3>3. NewValue(ir) \in Value
      BY ONLY <3>1, <3>2 DEF Value
    <3>4. sig.push \in Types
      BY <1>1 DEF IsSig
    <3> QED
      BY <3>2, <3>3, <3>4 DEF Operands
  <2> HIDE DEF rest, s, out
  <2>4. TopOf(None, Invalid, labels', Append(s, out), FALSE, 0) /\ Append(s, out) \in Seq(Operands)
    BY <1>1, <1>3, <2>1, <2>3, PushFacts
  <2>5. AtHand(out.val)
    BY <2>2, <2>3 DEF AtHand, DefinedIn
  <2>6. \A j \in DOMAIN Append(s, out) : AtHand(Append(s, out)[j].val)
    BY <1>3, <1>4, <2>3, <2>5, AppendHeld
  <2> DEFINE w == Append(s, out)
  <2>7. TopOf(None, Invalid, labels', w, FALSE, 0) /\ \A j \in DOMAIN w : AtHand(w[j].val)
    BY <2>4, <2>6
  <2> HIDE DEF w
  <2> QED
    BY <1>1, <1>4, <2>2, <2>7, FlowQuiet
<1> QED
  BY <1>5, <1>6

LEMMA DropOperandFlow ==
  ASSUME TrInv, TrInv', FlowInv, DropOperand
  PROVE  FlowInv'
<1>1. /\ Live /\ Consume /\ nest' = nest /\ locals' = locals /\ ir' = ir /\ Top.stack # <<>> /\ labels' = Popped(1)
  BY DEF DropOperand
<1>2. /\ status = "running" /\ labels # <<>> /\ ~Top.terminated /\ Top.terminated = FALSE /\ Top.depth = 0
  BY <1>1, LiveFacts
<1>3. 1 \in 0 .. Len(Top.stack)
  BY <1>1, <1>2, TopFacts
<1> DEFINE s == Drop(Top.stack, 1)
<1>4. TopOf(None, Invalid, labels', s, FALSE, 0)
  BY <1>1, <1>2, <1>3, PopFacts
<1>5. (\A i \in DOMAIN locals' : AtHand(locals'[i])) /\ (\A j \in DOMAIN s : AtHand(s[j].val))
  BY <1>1, <1>2, <1>3, HeldFacts DEF AtHand
<1> HIDE DEF s
<1>6. Quiet(ir') /\ Wired /\ GoesTo(FALSE)
  BY <1>1, <1>2, SameIr, SameWired DEF GoesTo
<1> QED
  BY <1>2, <1>4, <1>5, <1>6, FlowQuiet

LEMMA LocalGetFlow ==
  ASSUME TrInv, TrInv', FlowInv, NEW i \in LocalIdx, LocalGet(i)
  PROVE  FlowInv'
<1> DEFINE x == [val |-> locals[i], type |-> LocalType[i]]
           s == Append(Top.stack, x)
<1>1. /\ Live /\ Consume /\ nest' = nest /\ locals' = locals /\ ir' = ir
      /\ labels' = [labels EXCEPT ![TopIdx].stack = Append(@, x)]
  BY DEF LocalGet
<1>2. /\ status = "running" /\ labels # <<>> /\ ~Top.terminated /\ Top.terminated = FALSE /\ Top.depth = 0
  BY <1>1, LiveFacts
<1>3. i \in DOMAIN locals /\ LocalType[i] \in Types /\ locals[i] \in Value
  BY <1>2, Parts, TranslateAssumption DEF Shape, LocalIdx, Types
<1>4. x \in Operands /\ x.val = locals[i]
  BY <1>3 DEF Operands
<1>5. (\A j \in DOMAIN locals' : AtHand(locals'[j])) /\ (\A j \in DOMAIN Top.stack : AtHand(Top.stack[j].val))
  BY <1>1, <1>2, HeldFacts DEF AtHand
<1>6. AtHand(x.val)
  BY <1>1, <1>3, <1>4, <1>5
<1> HIDE DEF x
<1>7. TopOf(None, Invalid, labels, Top.stack, FALSE, 0)
  BY <1>2, TopOfNow, Parts
<1>8. Top.stack \in Seq(Operands)
  BY <1>2, TopFacts
<1>9. TopOf(None, Invalid, labels', s, FALSE, 0)
  BY <1>1, <1>2, <1>4, <1>7, <1>8, PushFacts
<1>10. \A j \in DOMAIN s : AtHand(s[j].val)
  BY <1>4, <1>5, <1>6, <1>8, AppendHeld
<1> HIDE DEF s
<1>11. Quiet(ir') /\ Wired /\ GoesTo(FALSE)
  BY <1>1, <1>2, SameIr, SameWired DEF GoesTo
<1> QED
  BY <1>2, <1>5, <1>9, <1>10, <1>11, FlowQuiet

LEMMA LocalSetFlow ==
  ASSUME TrInv, TrInv', FlowInv, NEW i \in LocalIdx, LocalSet(i)
  PROVE  FlowInv'
<1>1. /\ Live /\ Consume /\ nest' = nest /\ ir' = ir
      /\ CanPop(<<LocalType[i]>>) /\ locals' = [locals EXCEPT ![i] = Peek(0)]
      /\ labels' = Popped(1) \/ labels' = labels
  BY DEF LocalSet
<1>2. /\ status = "running" /\ labels # <<>> /\ ~Top.terminated /\ Top.terminated = FALSE /\ Top.depth = 0
  BY <1>1, LiveFacts
<1>3. Top.stack \in Seq(Operands) /\ Len(Top.stack) \in Nat
  BY <1>2, TopFacts
<1>4. Len(Top.stack) >= 1
  BY <1>1, <1>3 DEF CanPop
<1>5. 1 \in 0 .. Len(Top.stack) /\ Len(Top.stack) \in DOMAIN Top.stack
  BY <1>3, <1>4
<1>6. /\ \A j \in DOMAIN locals : DefinedIn(locals[j]) \in Held
      /\ \A j \in DOMAIN Top.stack : AtHand(Top.stack[j].val)
      /\ \A j \in DOMAIN Drop(Top.stack, 1) : AtHand(Drop(Top.stack, 1)[j].val)
      /\ DefinedIn(Peek(0)) \in Held
  BY <1>2, <1>3, <1>5, HeldFacts DEF AtHand, Peek
<1>7. \A j \in DOMAIN locals' : AtHand(locals'[j])
  BY <1>1, <1>6 DEF AtHand
<1>8. Quiet(ir') /\ Wired /\ GoesTo(FALSE)
  BY <1>1, <1>2, SameIr, SameWired DEF GoesTo
<1>9. CASE labels' = Popped(1)
  <2> DEFINE s == Drop(Top.stack, 1)
  <2>1. TopOf(None, Invalid, labels', s, FALSE, 0) /\ \A j \in DOMAIN s : AtHand(s[j].val)
    BY <1>2, <1>5, <1>6, <1>9, PopFacts
  <2> HIDE DEF s
  <2> QED
    BY <1>2, <1>7, <1>8, <2>1, FlowQuiet
<1>10. CASE labels' = labels
  <2> DEFINE s == Top.stack
  <2>1. TopOf(None, Invalid, labels', s, FALSE, 0) /\ \A j \in DOMAIN s : AtHand(s[j].val)
    BY <1>2, <1>6, <1>10, TopOfNow, Parts
  <2> HIDE DEF s
  <2> QED
    BY <1>2, <1>7, <1>8, <2>1, FlowQuiet
<1> QED
  BY <1>1, <1>9, <1>10

(* The handlers that leave dead code behind them and branch nowhere.       *)
LEMMA FlowEnds ==
  ASSUME TrInv, TrInv', FlowInv, status = "running", labels # <<>>, ir' = Terminate(ir), locals' = locals,
         NEW s, NEW d, TopOf(None, Invalid, labels', s, TRUE, d), \A j \in DOMAIN s : AtHand(s[j].val)
  PROVE  FlowInv'
<1>1. Quiet(ir') /\ Wired
  BY SameIr, SameWired
<1>2. \A j \in DOMAIN locals' : AtHand(locals'[j])
  BY HeldFacts DEF AtHand
<1> DEFINE yes == TRUE
<1>3. TopOf(None, Invalid, labels', s, yes, d) /\ GoesTo(yes)
  BY DEF GoesTo
<1> HIDE DEF yes
<1> QED
  BY <1>1, <1>2, <1>3, FlowQuiet

LEMMA UnreachableFlow ==
  ASSUME TrInv, TrInv', FlowInv, Unreachable
  PROVE  FlowInv'
<1>1. Live /\ Consume /\ nest' = nest /\ locals' = locals /\ ir' = Terminate(ir) /\ labels' = Close(labels)
  BY DEF Unreachable
<1>2. status = "running" /\ labels # <<>> /\ ~Top.terminated /\ Top.depth = 0
  BY <1>1, LiveFacts
<1> DEFINE s == Top.stack
<1>3. TopOf(None, Invalid, labels, s, Top.terminated, 0)
  BY <1>2, TopOfNow, Parts
<1>4. TopOf(None, Invalid, labels', s, TRUE, 0)
  BY <1>1, <1>2, <1>3, TopOfClose, Parts
<1>5. \A j \in DOMAIN s : AtHand(s[j].val)
  BY <1>2, HeldFacts DEF AtHand
<1> HIDE DEF s
<1> QED
  BY <1>1, <1>2, <1>4, <1>5, FlowEnds

LEMMA ReturnFlow ==
  ASSUME TrInv, TrInv', FlowInv, Return
  PROVE  FlowInv'
<1>1. /\ Live /\ Consume /\ nest' = nest /\ locals' = locals
      /\ ir' = Terminate(ir) /\ labels' = [Close(labels) EXCEPT ![TopIdx].stack = <<>>]
  BY DEF Return
<1>2. status = "running" /\ labels # <<>> /\ ~Top.terminated /\ Top.depth = 0
  BY <1>1, LiveFacts
<1>3. TopOf(None, Invalid, labels, Top.stack, Top.terminated, 0)
  BY <1>2, TopOfNow, Parts
<1>4. TopOf(None, Invalid, Close(labels), Top.stack, TRUE, 0)
  BY <1>1, <1>2, <1>3, TopOfClose, Parts
<1>5. TopOf(None, Invalid, labels', <<>>, TRUE, 0)
  BY <1>1, <1>2, <1>4, TopOfStack, EmptyStack, Parts
<1> DEFINE s == <<>>
<1>6. TopOf(None, Invalid, labels', s, TRUE, 0)
  BY <1>5
<1>7. DOMAIN s = {}
  OBVIOUS
<1> HIDE DEF s
<1>8. \A j \in DOMAIN s : AtHand(s[j].val)
  BY <1>7
<1> QED
  BY <1>1, <1>2, <1>6, <1>8, FlowEnds

(* Dead code changes depths only. *)
LEMMA SkipFlow ==
  ASSUME TrInv, TrInv', FlowInv, Dead, ir' = ir, locals' = locals, NEW d,
         TopOf(None, Invalid, labels', Top.stack, Top.terminated, d)
  PROVE  FlowInv'
<1>1. status = "running" /\ labels # <<>> /\ Top.terminated
  BY DEF Dead
<1> DEFINE s == Top.stack
           yes == Top.terminated
<1>2. \A j \in DOMAIN s : AtHand(s[j].val)
  BY <1>1, HeldFacts DEF AtHand
<1>3. \A j \in DOMAIN locals' : AtHand(locals'[j])
  BY <1>1, HeldFacts DEF AtHand
<1>4. Quiet(ir') /\ Wired /\ GoesTo(yes)
  BY <1>1, SameIr, SameWired DEF GoesTo
<1>5. TopOf(None, Invalid, labels', s, yes, d)
  OBVIOUS
<1> HIDE DEF s, yes
<1> QED
  BY <1>1, <1>2, <1>3, <1>4, <1>5, FlowQuiet

LEMMA SkipsFlow ==
  ASSUME TrInv, TrInv', FlowInv, SkipFrame \/ SkipEnd \/ SkipPlain
  PROVE  FlowInv'
<1>1. /\ Dead /\ ir' = ir /\ locals' = locals
      /\ \/ labels' = [labels EXCEPT ![TopIdx].depth = SkipOpen(@)]
         \/ Top.depth > 0 /\ labels' = [labels EXCEPT ![TopIdx].depth = @ - 1]
         \/ labels' = labels
  BY DEF SkipFrame, SkipEnd, SkipPlain
<1>2. status = "running" /\ labels # <<>> /\ Shape
  BY <1>1, Parts DEF Dead
<1>3. Top.depth \in Nat /\ TopIdx \in DOMAIN labels /\ Top = labels[TopIdx]
  BY <1>2, TopFacts DEF TopIdx
<1>4. CASE labels' = [labels EXCEPT ![TopIdx].depth = SkipOpen(@)]
  <2> DEFINE d == Top.depth + 1
  <2>1. labels' = [labels EXCEPT ![TopIdx].depth = d] /\ d \in Nat
    BY <1>3, <1>4 DEF SkipOpen
  <2> HIDE DEF d
  <2>2. TopOf(None, Invalid, labels', Top.stack, Top.terminated, d)
    BY <1>2, <2>1, TopOfDepth
  <2> QED
    BY <1>1, <2>2, SkipFlow
<1>5. CASE Top.depth > 0 /\ labels' = [labels EXCEPT ![TopIdx].depth = @ - 1]
  <2> DEFINE d == Top.depth - 1
  <2>1. labels' = [labels EXCEPT ![TopIdx].depth = d] /\ d \in Nat
    BY <1>3, <1>5
  <2> HIDE DEF d
  <2>2. TopOf(None, Invalid, labels', Top.stack, Top.terminated, d)
    BY <1>2, <2>1, TopOfDepth
  <2> QED
    BY <1>1, <2>2, SkipFlow
<1>6. CASE labels' = labels
  <2>1. TopOf(None, Invalid, labels', Top.stack, Top.terminated, Top.depth)
    BY <1>2, <1>6, TopOfNow
  <2> QED
    BY <1>1, <2>1, SkipFlow
<1> QED
  BY <1>1, <1>4, <1>5, <1>6

(* New branches from the cursor's block, which is closed with them. *)
LEMMA CursorWired ==
  ASSUME ~Top.terminated, FromCursor(ir'), ir.term \subseteq ir'.term, ir.cur \in ir'.term
  PROVE  Wired
  BY DEF Wired, FromCursor, NewBranch, Blocks

LEMMA NewBlockMade ==
  ASSUME TrInv, TrInv', Len(ir'.into) \in {Len(ir.into) + 1, Len(ir.into) + 2}
  PROVE  NewBlock(ir) \in Blocks' \ Blocks
  BY FlowParts, FlowPartsNext DEF NewBlock

LEMMA CallIndirectFlow ==
  ASSUME TrInv, TrInv', FlowInv, NEW sig, IsSig(sig), CallIndirect(sig)
  PROVE  FlowInv'
<1> DEFINE N == NewBlock(ir)
           called == At(Terminate(At(Fork(CreateBlocks(ir, 2), N, locals, N + 1, locals), N + 1)), N)
           out == [val |-> NewValue(called), type |-> sig.push]
           rest == Popped(Len(sig.pops) + 1)
           s == Drop(Top.stack, Len(sig.pops) + 1)
<1>1. /\ Live /\ Consume /\ nest' = nest /\ locals' = locals /\ CanPop(Append(sig.pops, I32))
      /\ \/ sig.push = NoType /\ labels' = rest /\ ir' = called
         \/ /\ sig.push # NoType
            /\ labels' = [rest EXCEPT ![TopIdx].stack = Append(@, out)]
            /\ ir' = Define(called)
  BY DEF CallIndirect
<1>2. /\ status = "running" /\ labels # <<>> /\ ~Top.terminated /\ Top.terminated = FALSE /\ Top.depth = 0
  BY <1>1, LiveFacts
<1>3. /\ Quiet(called) /\ Len(called.into) = Len(ir.into) + 2 /\ called.cur = N /\ called.values = ir.values
      /\ called.term = ir.term \cup {ir.cur, N + 1} /\ N \in Nat
      /\ FromCursor(called) /\ called.into[N] # <<>>
  BY <1>2, SplitFacts DEF Split, NewTwo
<1> HIDE DEF called
<1>4. Len(sig.pops) + 1 \in 0 .. Len(Top.stack)
  <2> DEFINE tys == Append(sig.pops, I32)
  <2>1. tys \in Seq(ValueTypes) /\ Len(tys) = Len(sig.pops) + 1
    BY DEF IsSig, ValueTypes
  <2>2. TrInv /\ status = "running" /\ labels # <<>> /\ tys \in Seq(ValueTypes) /\ CanPop(tys)
    BY <1>1, <1>2, <2>1
  <2> HIDE DEF tys
  <2>3. Len(tys) \in 0 .. Len(Top.stack)
    BY ONLY <2>2, CanPopFacts
  <2> QED
    BY <2>1, <2>3
<1>5. TopOf(None, Invalid, rest, s, FALSE, 0) /\ s \in Seq(Operands)
  BY <1>2, <1>4, PopFacts
<1>6. (\A i \in DOMAIN locals' : AtHand(locals'[i])) /\ (\A j \in DOMAIN s : AtHand(s[j].val))
  BY <1>1, <1>2, <1>4, HeldFacts DEF AtHand
<1>7. /\ Quiet(ir') /\ ir'.into = called.into /\ ir'.term = called.term /\ ir'.cur = N
      /\ sig.push = NoType => ir' = called
  <2>1. CASE sig.push = NoType
    BY <1>1, <1>3, <2>1
  <2>2. CASE sig.push # NoType
    <3>1. ir' = Define(called)
      BY <1>1, <2>2
    <3>2. /\ IsIr(ir') /\ ir'.into = called.into /\ ir'.cur = called.cur /\ ir'.term = called.term
          /\ ir'.values = called.values + 1 /\ ir'.phis = called.phis
      BY <1>3, <3>1, DefineFacts DEF Quiet
    <3>3. ir.values \in Nat
      BY Parts DEF Shape, IsIr
    <3> QED
      BY <1>3, <2>2, <3>2, <3>3 DEF Quiet
  <2> QED
    BY <2>1, <2>2
<1>8. N \in Blocks' \ Blocks
  BY <1>3, <1>7, NewBlockMade
<1>9. Wired /\ GoesTo(FALSE)
  <2>1. FromCursor(ir')
    BY <1>3, <1>7 DEF FromCursor
  <2>2. Wired
    BY <1>2, <1>3, <1>7, <2>1, CursorWired
  <2> QED
    BY <1>2, <1>3, <1>7, <1>8, <2>2 DEF GoesTo
<1> DEFINE no == FALSE
<1>10. CASE sig.push = NoType
  <2>1. TopOf(None, Invalid, labels', s, no, 0) /\ GoesTo(no)
    BY <1>1, <1>5, <1>9, <1>10
  <2> HIDE DEF s, no
  <2> QED
    BY <1>2, <1>6, <1>7, <1>9, <2>1, FlowQuiet
<1>11. CASE sig.push # NoType
  <2>1. labels' = [rest EXCEPT ![TopIdx].stack = Append(@, out)]
    BY <1>1, <1>11
  <2>2. ir.values \in Nat
    BY Parts DEF Shape, IsIr
  <2>3. out.val = <<N, 0, ir.values + 1>> /\ out \in Operands
    BY <1>3, <2>2 DEF NewValue, Value, Operands, IsSig
  <2> HIDE DEF rest, s, out, N
  <2>4. TopOf(None, Invalid, labels', Append(s, out), FALSE, 0)
    BY <1>2, <1>5, <2>1, <2>3, PushFacts
  <2>5. AtHand(out.val)
    BY <1>7, <2>3 DEF AtHand, DefinedIn
  <2>6. \A j \in DOMAIN Append(s, out) : AtHand(Append(s, out)[j].val)
    BY <1>5, <1>6, <2>3, <2>5, AppendHeld
  <2> DEFINE w == Append(s, out)
  <2>7. TopOf(None, Invalid, labels', w, no, 0) /\ (\A j \in DOMAIN w : AtHand(w[j].val)) /\ GoesTo(no)
    BY <1>9, <2>4, <2>6
  <2> HIDE DEF w, no
  <2> QED
    BY <1>2, <1>6, <1>7, <1>9, <2>7, FlowQuiet
<1> QED
  BY <1>10, <1>11

(* The values on top of the stack are held. *)
LEMMA PeekHeld ==
  ASSUME TrInv, status = "running", labels # <<>>, NEW n \in Nat, Len(Top.stack) > n
  PROVE  DefinedIn(Peek(n)) \in Held
<1>1. Top.stack \in Seq(Operands)
  BY TopFacts
<1>2. Len(Top.stack) - n \in DOMAIN Top.stack
  BY <1>1
<1> QED
  BY <1>2, HeldFacts DEF Peek

(* A branch to a label from code that is live. *)
LEMMA FlowHit ==
  ASSUME TrInv, TrInv', FlowInv, status = "running", labels # <<>>, ~Top.terminated, locals' = locals,
         NEW t \in DOMAIN labels, t > 1, NEW res, MergesResult(labels[t]) => Usable(res) /\ DefinedIn(res) \in Held,
         Branches(ir', Once(t), res), FromCursor(ir'), ir'.term = ir.term \cup {ir.cur},
         \A p \in DOMAIN ir'.phis : p[1] \in Blocks,
         NEW s, NEW dead, NEW d, TopOf(Once(t), res, labels', s, dead, d),
         \A j \in DOMAIN s : AtHand(s[j].val), GoesTo(dead)
  PROVE  FlowInv'
<1> DEFINE hits == Once(t)
<1>1. Hits(hits, res) /\ hits[t] = 1 /\ \A u \in DOMAIN labels : u # t => hits[u] = 0
  BY OnceHits
<1>2. Branches(ir', hits, res) /\ TopOf(hits, res, labels', s, dead, d)
  OBVIOUS
<1> HIDE DEF hits
<1>3. \A u \in DOMAIN labels : hits[u] > 0 /\ MergesResult(labels[u]) => DefinedIn(res) \in Held
  BY <1>1
<1>4. CarriedHeld(hits, res)
  BY <1>1, <1>3, CarriedFrom
<1>5. Wired
  BY CursorWired
<1>6. \A i \in DOMAIN locals' : AtHand(locals'[i])
  BY HeldFacts DEF AtHand
<1> QED
  BY <1>1, <1>2, <1>4, <1>5, <1>6, FlowInPlace

LEMMA BrFlow ==
  ASSUME TrInv, TrInv', FlowInv, NEW d \in Depths, Br(d)
  PROVE  FlowInv'
<1> DEFINE t == Target(d)
           n == Len(Operand(t))
           res == IF n = 0 THEN Invalid ELSE Peek(0)
           s == Drop(Top.stack, n)
<1>1. /\ Live /\ Consume /\ nest' = nest /\ locals' = locals
      /\ d < TopIdx /\ d \in Nat /\ CanPop(Operand(t))
      /\ \/ IsBody(t) /\ ir' = Terminate(ir) /\ labels' = Close(Popped(n))
         \/ ~IsBody(t) /\ ir' = JumpTo(t, res) /\ labels' = Close(PreparedLabels(Popped(n), Once(t), res))
  BY TranslateAssumption DEF Br, JumpTo
<1>2. /\ status = "running" /\ labels # <<>> /\ ~Top.terminated /\ Top.terminated = FALSE /\ Top.depth = 0
  BY <1>1, LiveFacts
<1>3. /\ t \in DOMAIN labels /\ (~IsBody(t) => t > 1) /\ Operand(t) \in Seq(Types) /\ n \in {0, 1}
      /\ ~IsBody(t) => (n = 1 <=> MergesResult(labels[t]))
  <2>1. TrInv /\ status = "running" /\ labels # <<>> /\ d \in Nat /\ d < TopIdx
    BY <1>1, <1>2
  <2> QED
    BY <2>1, TargetFacts
<1>4. n \in 0 .. Len(Top.stack) /\ Len(Top.stack) \in Nat
  <2> DEFINE tys == Operand(t)
  <2>1. tys \in Seq(Types) /\ CanPop(tys)
    BY <1>1, <1>3
  <2> HIDE DEF tys
  <2>2. Len(tys) \in 0 .. Len(Top.stack) /\ Len(Top.stack) \in Nat
    BY <1>2, <2>1, CanPopFacts
  <2> QED
    BY <2>2 DEF tys
<1> HIDE DEF t, n
<1>5. TopOf(None, Invalid, Popped(n), s, FALSE, 0) /\ \A j \in DOMAIN s : AtHand(s[j].val)
  BY <1>2, <1>4, PopFacts, HeldFacts DEF AtHand
<1>6. n = 1 => Usable(res) /\ DefinedIn(res) \in Held
  <2>1. ASSUME n = 1 PROVE Usable(Peek(0)) /\ DefinedIn(Peek(0)) \in Held
    <3>1. Len(Top.stack) - 0 \in 1 .. Len(Top.stack) /\ Len(Top.stack) > 0
      BY <1>4, <2>1
    <3>2. Usable(Peek(0))
      BY <1>2, <3>1, TopFacts DEF Peek
    <3> QED
      BY <1>2, <3>1, <3>2, PeekHeld
  <2> QED
    BY <2>1
<1> HIDE DEF s, res
<1> DEFINE yes == TRUE
<1>7. CASE IsBody(t)
  <2>1. ir' = Terminate(ir) /\ labels' = Close(Popped(n))
    BY <1>1, <1>7
  <2>2. TopOf(None, Invalid, labels', s, TRUE, 0)
    BY <1>2, <1>5, <2>1, TopOfClose, Parts
  <2> QED
    BY <1>1, <1>2, <1>5, <2>1, <2>2, FlowEnds
<1>8. CASE ~IsBody(t)
  <2>1. /\ ir' = JumpTo(t, res) /\ labels' = Close(PreparedLabels(Popped(n), Once(t), res))
        /\ t > 1 /\ (MergesResult(labels[t]) => Usable(res) /\ DefinedIn(res) \in Held)
    BY <1>1, <1>3, <1>6, <1>8
  <2>2. /\ Branches(ir', Once(t), res) /\ ir'.cur = ir.cur /\ ir'.term = ir.term \cup {ir.cur}
        /\ FromCursor(ir') /\ \A p \in DOMAIN ir'.phis : p[1] \in Blocks
    <3>1. /\ Branches(JumpTo(t, res), Once(t), res) /\ JumpTo(t, res).cur = ir.cur
          /\ JumpTo(t, res).term = ir.term \cup {ir.cur} /\ FromCursor(JumpTo(t, res))
          /\ \A p \in DOMAIN JumpTo(t, res).phis : p[1] \in Blocks
      BY <1>2, <1>3, <2>1, JumpToFacts
    <3> QED
      BY <2>1, <3>1 DEF FromCursor
  <2> DEFINE hits == Once(t)
  <2>3. Hits(hits, res)
    BY <1>2, <1>3, <2>1, OnceHits
  <2> HIDE DEF hits
  <2>4. TopOf(hits, res, PreparedLabels(Popped(n), hits, res), s, FALSE, 0)
    <3> DEFINE no == FALSE
               ls == Popped(n)
               k == 0
    <3>1. TopOf(None, Invalid, ls, s, no, k)
      BY <1>5
    <3> HIDE DEF no, ls, k
    <3>2. TopOf(hits, res, PreparedLabels(ls, hits, res), s, no, k)
      BY <1>2, <2>3, <3>1, TopOfPrepared, Parts
    <3> QED
      BY <3>2 DEF no, ls, k
  <2>5. TopOf(hits, res, labels', s, yes, 0)
    <3> DEFINE ls == PreparedLabels(Popped(n), hits, res)
    <3>1. labels' = Close(ls)
      BY <2>1 DEF hits
    <3> HIDE DEF ls
    <3> QED
      BY <1>2, <2>4, <3>1, TopOfClose, Parts DEF ls
  <2>6. TopOf(Once(t), res, labels', s, yes, 0) /\ GoesTo(yes)
    BY <2>5 DEF hits, GoesTo
  <2> HIDE DEF yes
  <2> QED
    BY <1>1, <1>2, <1>3, <1>5, <2>1, <2>2, <2>6, FlowHit
<1> QED
  BY <1>7, <1>8

LEMMA BrIfFlow ==
  ASSUME TrInv, TrInv', FlowInv, NEW d \in Depths, BrIf(d)
  PROVE  FlowInv'
<1> DEFINE t == Target(d)
           n == Len(Operand(t))
           res == IF Operand(t) = <<>> THEN Invalid ELSE Peek(1)
           s == Drop(Top.stack, 1)
           no == FALSE
           k == 0
<1>1. /\ Live /\ Consume /\ nest' = nest /\ locals' = locals
      /\ d < TopIdx /\ d \in Nat /\ Len(Top.stack) > n
      /\ \/ IsBody(t) /\ ir' = Split(NewBlock(ir) + 1, NewBlock(ir)) /\ labels' = Popped(1)
         \/ ~IsBody(t) /\ ir' = ForkTo(t, res) /\ labels' = PreparedLabels(Popped(1), Once(t), res)
  BY TranslateAssumption DEF BrIf, ForkTo, Split
<1>2. /\ status = "running" /\ labels # <<>> /\ ~Top.terminated /\ Top.terminated = FALSE /\ Top.depth = 0
  BY <1>1, LiveFacts
<1>3. /\ t \in DOMAIN labels /\ (~IsBody(t) => t > 1) /\ n \in {0, 1} /\ (Operand(t) = <<>> <=> n = 0)
      /\ ~IsBody(t) => (n = 1 <=> MergesResult(labels[t]))
  <2>1. TrInv /\ status = "running" /\ labels # <<>> /\ d \in Nat /\ d < TopIdx
    BY <1>1, <1>2
  <2> QED
    BY <2>1, TargetFacts
<1>4. 1 \in 0 .. Len(Top.stack) /\ Len(Top.stack) \in Nat
  <2>1. Top.stack \in Seq(Operands)
    BY <1>2, TopFacts
  <2> QED
    BY <1>1, <1>3, <2>1
<1>5. TopOf(None, Invalid, Popped(1), s, no, k) /\ \A j \in DOMAIN s : AtHand(s[j].val)
  BY <1>2, <1>4, PopFacts, HeldFacts DEF AtHand
<1>6. n = 1 => Usable(res) /\ DefinedIn(res) \in Held
  <2>1. ASSUME n = 1 PROVE Usable(Peek(1)) /\ DefinedIn(Peek(1)) \in Held
    <3>1. Len(Top.stack) - 1 \in 1 .. Len(Top.stack) /\ Len(Top.stack) > 1
      BY <1>1, <1>4, <2>1
    <3>2. Usable(Peek(1))
      BY <1>2, <3>1, TopFacts DEF Peek
    <3> QED
      BY <1>2, <3>1, <3>2, PeekHeld
  <2> QED
    BY <1>3, <2>1
<1>7. \A i \in DOMAIN locals' : AtHand(locals'[i])
  BY <1>1, <1>2, HeldFacts DEF AtHand
<1> HIDE DEF s, res, t, n
<1>8. CASE IsBody(t)
  <2>1. ir' = Split(NewBlock(ir) + 1, NewBlock(ir)) /\ labels' = Popped(1)
    BY <1>1, <1>8
  <2> DEFINE x == NewBlock(ir) + 1
             y == NewBlock(ir)
  <2>2. NewTwo(x, y) /\ ir' = Split(x, y)
    BY <2>1 DEF NewTwo
  <2> HIDE DEF x, y
  <2>3. /\ Quiet(ir') /\ Len(ir'.into) = Len(ir.into) + 2 /\ ir'.cur = NewBlock(ir)
        /\ ir'.term = ir.term \cup {ir.cur, NewBlock(ir) + 1}
        /\ FromCursor(ir') /\ ir'.into[NewBlock(ir)] # <<>>
    BY <1>2, <2>2, SplitFacts DEF FromCursor
  <2>4. Wired /\ GoesTo(no)
    BY <1>2, <2>3, CursorWired, NewBlockMade DEF GoesTo
  <2>5. TopOf(None, Invalid, labels', s, no, k)
    BY <1>5, <2>1
  <2> HIDE DEF no, k
  <2> QED
    BY <1>2, <1>5, <1>7, <2>3, <2>4, <2>5, FlowQuiet
<1>9. CASE ~IsBody(t)
  <2>1. /\ ir' = ForkTo(t, res) /\ labels' = PreparedLabels(Popped(1), Once(t), res)
        /\ t > 1 /\ (MergesResult(labels[t]) => Usable(res) /\ DefinedIn(res) \in Held)
    BY <1>1, <1>3, <1>6, <1>9
  <2>2. /\ Branches(ir', Once(t), res) /\ ir'.cur = NewBlock(ir) /\ ir'.term = ir.term \cup {ir.cur}
        /\ Len(ir'.into) = Len(ir.into) + 1 /\ \A p \in DOMAIN ir'.phis : p[1] \in Blocks
        /\ FromCursor(ir') /\ ir'.into[NewBlock(ir)] # <<>>
    <3> DEFINE f == ForkTo(t, res)
    <3>1. /\ Branches(f, Once(t), res) /\ f.cur = NewBlock(ir) /\ f.term = ir.term \cup {ir.cur}
          /\ Len(f.into) = Len(ir.into) + 1 /\ \A p \in DOMAIN f.phis : p[1] \in Blocks
          /\ FromCursor(f) /\ f.into[NewBlock(ir)] # <<>>
      BY <1>2, <1>3, <2>1, ForkToFacts
    <3> HIDE DEF f
    <3>2. ir' = f
      BY <2>1 DEF f
    <3> QED
      BY <3>1, <3>2 DEF FromCursor
  <2> DEFINE hits == Once(t)
             ls == Popped(1)
  <2>3. Hits(hits, res)
    BY <1>2, <1>3, <2>1, OnceHits
  <2>4. labels' = PreparedLabels(ls, hits, res) /\ TopOf(None, Invalid, ls, s, no, k)
    BY <1>5, <2>1
  <2>5. GoesTo(no)
    BY <1>2, <2>2, NewBlockMade DEF GoesTo
  <2> HIDE DEF hits, ls, no, k
  <2>6. TopOf(hits, res, labels', s, no, k)
    BY <1>2, <2>3, <2>4, TopOfPrepared, Parts
  <2>7. TopOf(Once(t), res, labels', s, no, k)
    BY <2>6 DEF hits
  <2> QED
    BY <1>1, <1>2, <1>3, <1>5, <2>1, <2>2, <2>5, <2>7, FlowHit
<1> QED
  BY <1>8, <1>9

(* The comparison blocks of a br_table are closed, and each is entered.    *)
LEMMA TableSources ==
  ASSUME TrInv, status = "running", labels # <<>>, NEW tbl \in Tables, TableOK(tbl), NEW j \in DOMAIN tbl.targets
  PROVE  /\ NewCase(j) \in 1 .. TableLen(tbl) /\ NewCase(j) \notin Blocks /\ NewCase(j) \in TableTerm(tbl)
         /\ NewCase(j) < RetCase(tbl)
         /\ TableInto(tbl, TableRes(tbl))[NewCase(j)] # <<>>
<1> DEFINE b == NewCase(j)
           E == Before(tbl, b)
           F == E \o Arriving(tbl, TableRes(tbl), b)
<1>1. /\ Len(ir.into) \in Nat /\ Blocks = 1 .. Len(ir.into)
      /\ tbl.targets \in Seq(Nat) /\ DOMAIN tbl.targets = 1 .. Len(tbl.targets)
      /\ TableCases(tbl) \in Nat /\ Len(tbl.targets) <= TableCases(tbl) /\ Len(tbl.targets) \in Nat
      /\ RetCase(tbl) = Len(ir.into) + TableCases(tbl) + 1
      /\ TableLen(tbl) \in {Len(ir.into) + TableCases(tbl), Len(ir.into) + TableCases(tbl) + 1}
  BY Parts, TableBlocks
<1>2. j \in 1 .. Len(tbl.targets)
  BY <1>1
<1>3. /\ b \in 1 .. TableLen(tbl) /\ b \notin Blocks /\ b < RetCase(tbl)
      /\ b = NewCase(1) \/ b \in NewCase(2) .. NewCase(TableCases(tbl))
  <2> DEFINE L == Len(ir.into)
             n == Len(tbl.targets)
             c == TableCases(tbl)
             r == RetCase(tbl)
             l == TableLen(tbl)
             B == Blocks
  <2>1. L \in Nat /\ B = 1 .. L /\ c \in Nat /\ n <= c /\ n \in Nat /\ r = L + c + 1 /\ l \in {L + c, L + c + 1} /\ j \in 1 .. n
    BY <1>1, <1>2
  <2>2. b = L + j /\ NewCase(1) = L + 1 /\ NewCase(2) = L + 2 /\ NewCase(TableCases(tbl)) = L + c
    BY DEF NewCase
  <2> HIDE DEF L, n, c, r, l, B
  <2>3. L + j \in 1 .. l /\ L + j \notin B /\ L + j < r /\ (L + j = L + 1 \/ L + j \in L + 2 .. L + c)
    BY ONLY <2>1
  <2> QED
    BY <2>2, <2>3 DEF l, B, r
<1>4. NewCase(j) \in TableTerm(tbl)
  BY DEF TableTerm
<1>5. E = <<Edge(ir.cur, locals)>> \/ E = <<Edge(b - 1, locals)>>
  <2> HIDE DEF b
  <2> QED
    BY <1>3 DEF Before, Blocks
<1>6. Len(E) = 1
  <2> HIDE DEF E
  <2> QED
    BY <1>5
<1>7. F \in Seq(BranchType) /\ Len(F) = Len(E) + Cardinality(TableJsTo(tbl, b)) /\ Cardinality(TableJsTo(tbl, b)) \in Nat
  <2> HIDE DEF b
  <2> QED
    BY <1>3, TableIntoAt, ArrivingFacts
<1>8. Len(F) > 0 /\ F # <<>>
  <2> HIDE DEF F, E
  <2>1. Len(F) > 0
    BY <1>6, <1>7
  <2> QED
    BY <2>1
<1>9. TableInto(tbl, TableRes(tbl))[b] = F
  <2> HIDE DEF b
  <2> QED
    BY <1>3 DEF TableInto
<1> QED
  BY <1>3, <1>4, <1>8, <1>9

LEMMA TableBranchSource ==
  ASSUME TrInv, status = "running", labels # <<>>, NEW tbl \in Tables, TableOK(tbl), NEW j \in TableJs(tbl)
  PROVE  /\ \/ TableBranch(tbl, TableRes(tbl), j).src = ir.cur
            \/ \E i \in DOMAIN tbl.targets : TableBranch(tbl, TableRes(tbl), j).src = NewCase(i)
         /\ TableDest(tbl, j) \notin Blocks =>
              TableDest(tbl, j) = RetCase(tbl) /\ TableBranch(tbl, TableRes(tbl), j).vals = locals
<1>1. /\ TableTo(tbl, j) \in DOMAIN labels /\ (~IsBody(TableTo(tbl, j)) => TableTo(tbl, j) > 1)
      /\ j = 0 \/ j \in DOMAIN tbl.targets
  BY TableTargets DEF TableOK
<1>2. TableBranch(tbl, TableRes(tbl), j).src = (IF j = 0 THEN ir.cur ELSE NewCase(j))
  BY DEF TableBranch, Edge
<1>3. TableDest(tbl, j) \notin Blocks => IsBody(TableTo(tbl, j))
  <2>1. ~IsBody(TableTo(tbl, j)) => TableDest(tbl, j) = labels[TableTo(tbl, j)].block
    BY DEF TableDest
  <2> QED
    BY <1>1, <2>1, BlockFacts, Parts
<1>4. IsBody(TableTo(tbl, j)) =>
        TableDest(tbl, j) = RetCase(tbl) /\ TableBranch(tbl, TableRes(tbl), j).vals = locals
  BY DEF TableDest, TableBranch, Edge
<1> QED
  BY <1>1, <1>2, <1>3, <1>4

(* Into a new block, from the block of the br_table or the comparison      *)
(* before.                                                                 *)
LEMMA TableBefore ==
  ASSUME TrInv, status = "running", labels # <<>>, NEW tbl \in Tables, TableOK(tbl), NEW b \in 1 .. TableLen(tbl),
         b \notin Blocks, NEW k \in DOMAIN Before(tbl, b)
  PROVE  /\ Before(tbl, b)[k].vals = locals
         /\ \/ Before(tbl, b)[k].src = ir.cur
            \/ \E i \in DOMAIN tbl.targets : Before(tbl, b)[k].src = NewCase(i) /\ NewCase(i) < b
<1>1. /\ Len(ir.into) \in Nat /\ TableLen(tbl) \in Nat /\ DOMAIN tbl.targets = 1 .. Len(tbl.targets) /\ Len(tbl.targets) \in Nat
      /\ TableCases(tbl) \in Nat /\ (TableCases(tbl) = 1 \/ TableCases(tbl) = Len(tbl.targets))
  BY Parts, TableBlocks
<1> DEFINE E == Before(tbl, b)
           later == NewCase(2) .. NewCase(TableCases(tbl))
<1>2. /\ E = <<Edge(ir.cur, locals)>> \/ (E = <<Edge(b - 1, locals)>> /\ b \in later) \/ E = <<>>
  BY DEF Before, Blocks
<1>3. b \in later => (b - 1) - Len(ir.into) \in DOMAIN tbl.targets /\ NewCase((b - 1) - Len(ir.into)) = b - 1 /\ b - 1 < b
  <2> DEFINE L == Len(ir.into)
             n == Len(tbl.targets)
             c == TableCases(tbl)
  <2>1. L \in Nat /\ n \in Nat /\ c \in Nat /\ (c = 1 \/ c = n)
    BY <1>1
  <2>2. /\ later = L + 2 .. L + c /\ (b - 1) - Len(ir.into) = (b - 1) - L /\ NewCase((b - 1) - Len(ir.into)) = L + ((b - 1) - L)
        /\ DOMAIN tbl.targets = 1 .. n
    BY <1>1 DEF NewCase
  <2> HIDE DEF L, n, c, later
  <2>3. b \in L + 2 .. L + c => (b - 1) - L \in 1 .. n /\ L + ((b - 1) - L) = b - 1 /\ b - 1 < b
    BY ONLY <2>1
  <2> QED
    BY ONLY <2>2, <2>3
<1>4. k \in DOMAIN E
  OBVIOUS
<1>5. \A e : DOMAIN <<e>> = {1} /\ <<e>>[1] = e
  OBVIOUS
<1>6. DOMAIN <<>> = {}
  OBVIOUS
<1> HIDE DEF E, later
<1>7. CASE E = <<Edge(ir.cur, locals)>>
  <2>1. E[k] = Edge(ir.cur, locals)
    BY <1>4, <1>5, <1>7
  <2> QED
    BY <2>1 DEF E, Edge
<1>8. CASE E = <<Edge(b - 1, locals)>> /\ b \in later
  <2>1. E[k] = Edge(b - 1, locals)
    BY <1>4, <1>5, <1>8
  <2>2. E[k].src = b - 1 /\ E[k].vals = locals
    BY <2>1 DEF Edge
  <2> QED
    BY <1>3, <1>8, <2>2 DEF E
<1>9. CASE E = <<>>
  BY <1>4, <1>6, <1>9
<1> QED
  BY <1>2, <1>7, <1>8, <1>9

LEMMA TableWired ==
  ASSUME TrInv, status = "running", labels # <<>>, ~Top.terminated, NEW tbl \in Tables, TableOK(tbl),
         ir'.into = TableInto(tbl, TableRes(tbl)), ir'.term = TableTerm(tbl)
  PROVE  Wired
<1>1. ir.term \subseteq ir'.term /\ ir.cur \in ir'.term
  BY DEF TableTerm
<1>2. /\ DOMAIN ir'.into = 1 .. TableLen(tbl) /\ Blocks' = 1 .. TableLen(tbl)
      /\ \A b \in 1 .. TableLen(tbl) : ir'.into[b] = Before(tbl, b) \o Arriving(tbl, TableRes(tbl), b)
  BY DEF TableInto, Blocks
<1>3. ASSUME NEW i \in DOMAIN tbl.targets
      PROVE  /\ NewCase(i) \in ir'.term /\ NewCase(i) \in Blocks' \ Blocks /\ ir'.into[NewCase(i)] # <<>>
             /\ NewCase(i) < RetCase(tbl)
  BY <1>2, TableSources
<1>4. ASSUME NEW b \in Blocks', NEW k \in DOMAIN ir'.into[b], ~ (b \in Blocks /\ k \in DOMAIN ir.into[b])
      PROVE  NewBranch(b, ir'.into[b][k])
  <2> DEFINE F == ir'.into[b]
             E == Before(tbl, b)
             n == Len(Before(tbl, b))
             e == ir'.into[b][k]
  <2>1. b \in 1 .. TableLen(tbl) /\ F = Before(tbl, b) \o Arriving(tbl, TableRes(tbl), b)
    BY <1>2
  <2>2. E \in Seq(BranchType) /\ (b \in Blocks => E = ir.into[b])
    BY <2>1, BeforeFacts
  <2> HIDE DEF F
  <2>3. /\ F \in Seq(BranchType)
        /\ \A i \in 1 .. n : F[i] = E[i]
        /\ \A i \in n + 1 .. Len(F) : \E j \in TableJsTo(tbl, b) : F[i] = TableBranch(tbl, TableRes(tbl), j)
    BY <2>1, TableIntoAt
  <2>4. n \in Nat /\ DOMAIN E = 1 .. n /\ k \in DOMAIN F
    BY <2>2 DEF F
  <2>5. k \in 1 .. n \/ k \in n + 1 .. Len(F)
    BY <2>3, <2>4
  <2>6. CASE k \in 1 .. n
    <3>1. k \in DOMAIN E /\ F[k] = E[k]
      BY <2>3, <2>4, <2>6
    <3>2. b \notin Blocks
      BY <1>4, <2>2, <3>1
    <3>3. /\ E[k].vals = locals
          /\ E[k].src = ir.cur \/ \E i \in DOMAIN tbl.targets : E[k].src = NewCase(i) /\ NewCase(i) < b
      BY <2>1, <3>1, <3>2, TableBefore
    <3>4. e = E[k]
      BY <3>1 DEF F
    <3>5. CASE E[k].src = ir.cur
      BY <1>1, <3>3, <3>4, <3>5 DEF NewBranch
    <3>6. CASE \E i \in DOMAIN tbl.targets : E[k].src = NewCase(i) /\ NewCase(i) < b
      <4>1. PICK i \in DOMAIN tbl.targets : E[k].src = NewCase(i) /\ NewCase(i) < b
        BY <3>6
      <4>2. NewCase(i) \in ir'.term /\ NewCase(i) \in Blocks' \ Blocks /\ ir'.into[NewCase(i)] # <<>>
        BY <1>3
      <4>3. e.src = NewCase(i) /\ e.vals = locals /\ NewCase(i) < b
        BY <3>3, <3>4, <4>1
      <4> QED
        BY <4>2, <4>3 DEF NewBranch
    <3> QED
      BY <3>3, <3>5, <3>6
  <2>7. CASE k \in n + 1 .. Len(F)
    <3>1. PICK j \in TableJsTo(tbl, b) : F[k] = TableBranch(tbl, TableRes(tbl), j)
      BY <2>3, <2>7
    <3>2. j \in TableJs(tbl) /\ TableDest(tbl, j) = b
      BY DEF TableJsTo
    <3>3. /\ e.src = ir.cur \/ \E i \in DOMAIN tbl.targets : e.src = NewCase(i)
          /\ b \notin Blocks => b = RetCase(tbl) /\ e.vals = locals
      <4>1. /\ \/ TableBranch(tbl, TableRes(tbl), j).src = ir.cur
               \/ \E i \in DOMAIN tbl.targets : TableBranch(tbl, TableRes(tbl), j).src = NewCase(i)
            /\ TableDest(tbl, j) \notin Blocks =>
                 TableDest(tbl, j) = RetCase(tbl) /\ TableBranch(tbl, TableRes(tbl), j).vals = locals
        BY <3>2, TableBranchSource
      <4>2. e = TableBranch(tbl, TableRes(tbl), j)
        BY <3>1 DEF F
      <4> QED
        BY ONLY <3>2, <4>1, <4>2
    <3> HIDE DEF e
    <3>4. CASE e.src = ir.cur
      BY <1>1, <3>3, <3>4 DEF NewBranch, e
    <3>5. CASE \E i \in DOMAIN tbl.targets : e.src = NewCase(i)
      <4>1. PICK i \in DOMAIN tbl.targets : e.src = NewCase(i)
        BY <3>5
      <4>2. /\ NewCase(i) \in ir'.term /\ NewCase(i) \in Blocks' \ Blocks /\ ir'.into[NewCase(i)] # <<>>
            /\ NewCase(i) < RetCase(tbl)
        BY <1>3
      <4> QED
        BY <3>3, <4>1, <4>2 DEF NewBranch, e
    <3> QED
      BY <3>3, <3>4, <3>5
  <2> QED
    BY <2>5, <2>6, <2>7
<1> QED
  BY <1>1, <1>4 DEF Wired

LEMMA BrTableFlow ==
  ASSUME Validated, TrInv, TrInv', FlowInv, NEW tbl \in Tables, BrTable(tbl)
  PROVE  FlowInv'
<1> DEFINE hits == TableHits(tbl)
           res == TableRes(tbl)
           yes == TRUE
           k == 0
<1>1. /\ Live /\ Consume /\ nest' = nest /\ locals' = locals /\ TableOK(tbl)
      /\ Hits(hits, res) /\ Branches(ir', hits, res)
      /\ ir'.into = TableInto(tbl, TableRes(tbl)) /\ ir'.term = TableTerm(tbl)
      /\ \A p \in DOMAIN ir'.phis : p[1] \in Blocks
      /\ \E c \in 0 .. Len(Top.stack) : TopOf(hits, res, labels', Drop(Top.stack, c), yes, k)
  BY BrTableFacts
<1>2. status = "running" /\ labels # <<>> /\ ~Top.terminated
  BY <1>1, LiveFacts
<1>3. PICK c \in 0 .. Len(Top.stack) : TopOf(hits, res, labels', Drop(Top.stack, c), yes, k)
  BY <1>1
<1>4. Wired
  BY <1>1, <1>2, TableWired
<1>5. CarriedHeld(hits, res)
  <2>1. ASSUME NEW t \in DOMAIN labels, hits[t] > 0, MergesResult(labels[t])
        PROVE  DefinedIn(res) \in Held
    <3>1. res = Peek(1) /\ Len(Top.stack) > 1
      BY <1>1, <1>2, <2>1, TableHitsFacts
    <3>2. 1 \in Nat /\ Len(Top.stack) > 1
      BY <3>1
    <3>3. DefinedIn(Peek(1)) \in Held
      BY <1>2, <3>2, PeekHeld
    <3> QED
      BY <3>1, <3>3
  <2> HIDE DEF hits, res
  <2> QED
    BY <1>1, <1>2, <2>1, CarriedFrom
<1>6. \A i \in DOMAIN locals' : AtHand(locals'[i])
  BY <1>1, <1>2, HeldFacts DEF AtHand
<1> DEFINE s == Drop(Top.stack, c)
<1>7. \A j \in DOMAIN s : AtHand(s[j].val)
  BY <1>2, HeldFacts DEF AtHand
<1>8. GoesTo(yes)
  BY DEF GoesTo
<1>9. TopOf(hits, res, labels', s, yes, k)
  BY <1>3
<1> HIDE DEF hits, res, s, yes, k
<1> QED
  BY <1>1, <1>2, <1>4, <1>5, <1>6, <1>7, <1>8, <1>9, FlowInPlace

-----------------------------------------------------------------------------
(* The opcodes that open a frame.                                          *)

LEMMA FlowPush ==
  ASSUME TrInv, TrInv', FlowInv, status = "running", labels # <<>>, ~Top.terminated, NEW l,
         DOMAIN labels' = DOMAIN labels \cup {Len(labels) + 1}, Len(labels) + 1 \notin DOMAIN labels,
         \A t \in DOMAIN labels : labels'[t] = labels[t], labels'[Len(labels) + 1] = l,
         l.block \notin Blocks, l.stack = <<>>,
         (l.loop /\ l.block = ir'.cur) \/ (~l.loop /\ ~l.reached /\ ir'.into[l.block] = <<>>),
         Hits(None, Invalid), Branches(ir', None, Invalid), Wired,
         \A p \in DOMAIN ir'.phis : p[1] \notin Blocks => PhiCarried(p)',
         \A i \in DOMAIN locals' : AtHand(locals'[i]),
         ir'.cur = ir.cur \/ (ir'.cur \in Blocks' \ Blocks /\ ir'.into[ir'.cur] # <<>>)
  PROVE  FlowInv'
<1> DEFINE n == Len(labels) + 1
<1>1. DOMAIN labels = 1 .. Len(labels) /\ Len(labels) \in Nat
  <2>1. labels \in Seq(LabelType)
    BY FlowParts
  <2> QED
    BY <2>1
<1>2. CarriedHeld(None, Invalid)
  BY DEF CarriedHeld, None
<1>3. LabelsKept(None)
  <2>1. ASSUME NEW t \in DOMAIN labels
        PROVE  Below(t)' \subseteq Below(t)
    <3>1. DOMAIN labels \subseteq Nat /\ t \in Nat
      BY <1>1
    <3>2. \A u \in DOMAIN labels' : u < t => u \in DOMAIN labels
      BY <1>1
    <3>3. \A u \in DOMAIN labels' : u < t =>
            /\ u \in DOMAIN labels /\ labels'[u].stack = labels[u].stack
            /\ labels'[u].block = labels[u].block /\ labels'[u].loop = labels[u].loop
      BY <3>2
    <3> QED
      BY ONLY <3>1, <3>3, SameBelow
  <2> QED
    BY <2>1 DEF LabelsKept
<1>4. Held' \subseteq Held \cup {ir'.cur}
  <2>1. {DefinedIn(locals'[i]) : i \in DOMAIN locals'} \subseteq Held \cup {ir'.cur}
    BY DEF AtHand
  <2>2. ASSUME NEW t \in DOMAIN labels'
        PROVE  Stacked(t)' \subseteq Held
    <3>1. CASE t \in DOMAIN labels
      <4>1. Stacked(t)' = Stacked(t)
        BY <3>1 DEF Stacked
      <4> QED
        BY <3>1, <4>1 DEF Held
    <3>2. CASE t = n
      <4>1. DOMAIN <<>> = {}
        OBVIOUS
      <4> QED
        BY <3>2, <4>1 DEF Stacked
    <3> QED
      BY <3>1, <3>2
  <2>3. Heads' \subseteq Heads \cup {ir'.cur}
    BY DEF Heads
  <2>4. Heads \subseteq Held
    BY HeadsHeld
  <2>5. Held' = {DefinedIn(locals'[i]) : i \in DOMAIN locals'} \cup Heads' \cup UNION {Stacked(t)' : t \in DOMAIN labels'}
    BY DEF Held
  <2> HIDE DEF Held
  <2> QED
    BY ONLY <2>1, <2>2, <2>3, <2>4, <2>5
<1>5. Onward
  BY <1>4 DEF Onward
<1>6. HeldDominates' /\ CursorReached'
  BY <1>2, <1>5, StepOnward
<1> QED
  BY <1>2, <1>3, <1>6, FlowStep

LEMMA BlockFlow ==
  ASSUME TrInv, TrInv', FlowInv, NEW rtype \in BlockTypes, Block(rtype)
  PROVE  FlowInv'
<1> DEFINE N == NewBlock(ir)
           l == Label(N, rtype, FALSE, <<>>)
<1>0. BlockOpened(l)
  BY BlockOpens
<1> HIDE DEF l
<1>1. /\ status = "running" /\ labels # <<>> /\ ~Top.terminated /\ locals' = locals
      /\ l.block = N /\ l.stack = <<>> /\ ~l.reached /\ ~l.loop
      /\ ir'.into[N] = <<>> /\ ir'.cur = ir.cur /\ ir'.term = ir.term
      /\ DOMAIN labels' = DOMAIN labels \cup {Len(labels) + 1} /\ Len(labels) + 1 \notin DOMAIN labels
      /\ \A t \in DOMAIN labels : labels'[t] = labels[t]
      /\ labels'[Len(labels) + 1] = l
      /\ N \in Blocks' \ Blocks /\ Blocks' = Blocks \cup {N}
      /\ Quiet(ir')
  BY <1>0 DEF BlockOpened
<1> HIDE DEF N
<1>2. Hits(None, Invalid) /\ Branches(ir', None, Invalid)
  BY <1>1, NoneHits, QuietBranches, Parts
<1>3. Wired
  <2>1. DOMAIN <<>> = {}
    OBVIOUS
  <2>2. \A b \in Blocks : ir'.into[b] = ir.into[b]
    BY <1>1 DEF Quiet
  <2> QED
    BY <1>1, <2>1, <2>2 DEF Wired
<1>4. \A p \in DOMAIN ir'.phis : p[1] \in Blocks
  BY <1>1, Parts DEF Quiet, PhisInv
<1>5. \A i \in DOMAIN locals' : AtHand(locals'[i])
  BY <1>1, HeldFacts DEF AtHand
<1>6. /\ l.block \notin Blocks
      /\ (l.loop /\ l.block = ir'.cur) \/ (~l.loop /\ ~l.reached /\ ir'.into[l.block] = <<>>)
      /\ \A p \in DOMAIN ir'.phis : p[1] \notin Blocks => PhiCarried(p)'
      /\ ir'.cur = ir.cur \/ (ir'.cur \in Blocks' \ Blocks /\ ir'.into[ir'.cur] # <<>>)
  BY <1>1, <1>4
<1> QED
  BY <1>1, <1>2, <1>3, <1>5, <1>6, FlowPush

LEMMA LoopFlow ==
  ASSUME TrInv, TrInv', FlowInv, NEW rtype \in BlockTypes, Loop(rtype)
  PROVE  FlowInv'
<1> DEFINE N == NewBlock(ir)
           l == Label(N, rtype, TRUE, HeadSlots(N))
           E == <<Edge(ir.cur, locals)>>
<1>0. LoopOpened(l)
  BY LoopOpens
<1> HIDE DEF l
<1>1. /\ status = "running" /\ labels # <<>> /\ ~Top.terminated
      /\ l.block = N /\ l.stack = <<>> /\ l.loop
      /\ ir'.into[N] = E /\ ir'.cur = N /\ ir'.term = ir.term \cup {ir.cur}
      /\ Len(ir'.into) = Len(ir.into) + 1 /\ \A b \in 1 .. Len(ir.into) : ir'.into[b] = ir.into[b]
      /\ DOMAIN labels' = DOMAIN labels \cup {Len(labels) + 1} /\ Len(labels) + 1 \notin DOMAIN labels
      /\ \A t \in DOMAIN labels : labels'[t] = labels[t]
      /\ labels'[Len(labels) + 1] = l
      /\ N \in Blocks' \ Blocks /\ Blocks' = Blocks \cup {N}
      /\ Hits(None, Invalid) /\ Branches(ir', None, Invalid)
      /\ DOMAIN locals' = LocalIdx /\ \A i \in LocalIdx : locals'[i] = Phi(N, i)
      /\ \A i \in LocalIdx : ir'.phis[Phi(N, i)] = <<locals[i]>>
      /\ \A i \in LocalIdx : Phi(N, i)[1] = N /\ Phi(N, i)[2] = i
      /\ \A p \in DOMAIN ir.phis : p[1] \in Blocks
      /\ \A p \in DOMAIN ir'.phis : p \notin DOMAIN ir.phis => \E i \in LocalIdx : p = Phi(N, i)
  BY <1>0 DEF LoopOpened
<1> HIDE DEF N
<1>2. Len(E) = 1 /\ DOMAIN E = {1} /\ E[1].src = ir.cur /\ E[1].vals = locals /\ E # <<>>
  BY DEF Edge
<1> HIDE DEF E
<1>3. Wired
  <2>1. \A b \in Blocks : ir'.into[b] = ir.into[b]
    BY <1>1, FlowParts
  <2>2. ASSUME NEW k \in DOMAIN ir'.into[N] PROVE NewBranch(N, ir'.into[N][k])
    <3>1. k = 1 /\ ir'.into[N][k].src = ir.cur /\ ir'.into[N][k].vals = locals
      BY <1>1, <1>2, <2>2
    <3> QED
      BY <1>1, <3>1 DEF NewBranch
  <2> QED
    BY <1>1, <2>1, <2>2 DEF Wired
<1>4. ASSUME NEW p \in DOMAIN ir'.phis, p[1] \notin Blocks
      PROVE  PhiCarried(p)'
  <2>1. PICK i \in LocalIdx : p = Phi(N, i)
    BY <1>1, <1>4
  <2>2. p[1] = N /\ p[2] = i /\ ir'.phis[p] = <<locals[i]>>
    BY <1>1, <2>1
  <2>3. DOMAIN locals = LocalIdx
    BY <1>1, TranslateAssumption, Parts DEF Shape, LocalIdx
  <2>4. ASSUME NEW k \in DOMAIN ir'.phis[p]
        PROVE  p[2] \in DOMAIN ir'.into[p[1]][k].vals /\ ir'.phis[p][k] = ir'.into[p[1]][k].vals[p[2]]
    <3>1. \A x : DOMAIN <<x>> = {1} /\ <<x>>[1] = x
      OBVIOUS
    <3>2. k = 1 /\ ir'.phis[p][k] = locals[i]
      BY <2>2, <2>4, <3>1
    <3>3. ir'.into[p[1]][k].vals = locals
      BY <1>1, <1>2, <2>2, <3>2
    <3> QED
      BY <2>2, <2>3, <3>2, <3>3
  <2> QED
    BY <2>4 DEF PhiCarried
<1>5. \A i \in DOMAIN locals' : AtHand(locals'[i])
  BY <1>1 DEF AtHand, DefinedIn
<1>6. /\ l.block \notin Blocks
      /\ (l.loop /\ l.block = ir'.cur) \/ (~l.loop /\ ~l.reached /\ ir'.into[l.block] = <<>>)
      /\ ir'.cur = ir.cur \/ (ir'.cur \in Blocks' \ Blocks /\ ir'.into[ir'.cur] # <<>>)
  BY <1>1, <1>2
<1> QED
  BY <1>1, <1>3, <1>4, <1>5, <1>6, FlowPush

-----------------------------------------------------------------------------
(* The end of a frame.                                                     *)

(* What is at hand after the end of the innermost frame.                   *)
LEMMA PopKept ==
  ASSUME TrInv, status = "running", TopIdx > 1, NEW hits, NEW s, NEW dead, OuterLike(labels', s, dead)
  PROVE  /\ LabelsKept(hits)
         /\ labels' # <<>> /\ Top'.terminated = dead
         /\ Held' \subseteq {DefinedIn(locals'[i]) : i \in DOMAIN locals'} \cup Below(TopIdx)
                            \cup {DefinedIn(s[j].val) : j \in DOMAIN s}
         /\ Below(TopIdx) \subseteq Held
<1>1. /\ DOMAIN labels = 1 .. Len(labels) /\ Len(labels) \in Nat /\ Len(labels) > 1
      /\ DOMAIN labels' = 1 .. Len(labels) - 1 /\ Len(labels') = Len(labels) - 1
  <2>1. labels \in Seq(LabelType) /\ Len(labels) > 1
    BY FlowParts DEF TopIdx
  <2>2. labels' \in Seq(LabelType) /\ Len(labels') = Len(labels) - 1
    BY DEF OuterLike
  <2> QED
    BY ONLY <2>1, <2>2
<1>2. ASSUME NEW t \in DOMAIN labels'
      PROVE  /\ t \in DOMAIN labels /\ t < TopIdx
             /\ labels'[t].block = labels[t].block /\ labels'[t].loop = labels[t].loop
             /\ labels'[t].rtype = labels[t].rtype /\ labels'[t].reached = labels[t].reached
             /\ t < Len(labels) - 1 => labels'[t].stack = labels[t].stack
  <2>1. t \in 1 .. Len(labels) - 1 /\ t \in DOMAIN labels /\ t < TopIdx /\ (t < Len(labels) - 1 => t \in 1 .. Len(labels) - 2)
    BY ONLY <1>1, <1>2 DEF TopIdx
  <2>2. SameMerge(labels'[t], labels[t]) /\ (t < Len(labels) - 1 => labels'[t] = labels[t])
    BY <2>1 DEF OuterLike
  <2> QED
    BY ONLY <2>1, <2>2 DEF SameMerge
<1>3. ASSUME NEW t \in DOMAIN labels'
      PROVE  Below(t)' \subseteq Below(t)
  <2>1. DOMAIN labels \subseteq Nat /\ t \in Nat
    BY <1>1
  <2>2. \A u \in DOMAIN labels' : u < t => u < Len(labels) - 1
    BY <1>1
  <2>3. \A u \in DOMAIN labels' : u < t =>
          /\ u \in DOMAIN labels /\ labels'[u].stack = labels[u].stack
          /\ labels'[u].block = labels[u].block /\ labels'[u].loop = labels[u].loop
    BY <1>2, <2>2
  <2> QED
    BY ONLY <2>1, <2>3, SameBelow
<1>4. LabelsKept(hits)
  BY <1>2, <1>3 DEF LabelsKept
<1>5. labels' # <<>> /\ Top'.terminated = dead /\ labels'[Len(labels) - 1].stack = s
  <2>1. labels' # <<>>
    BY <1>1
  <2>2. labels'[Len(labels) - 1].terminated = dead /\ labels'[Len(labels) - 1].stack = s
    BY DEF OuterLike
  <2> QED
    BY <1>1, <2>1, <2>2 DEF Top, TopIdx
<1>6. Heads' \subseteq Below(TopIdx)
  <2>1. Heads' \subseteq {labels[u].block : u \in {v \in DOMAIN labels : 1 < v /\ v < TopIdx /\ labels[v].loop}}
    BY <1>2 DEF Heads
  <2> QED
    BY <2>1 DEF Below
<1>7. ASSUME NEW t \in DOMAIN labels'
      PROVE  Stacked(t)' \subseteq Below(TopIdx) \cup {DefinedIn(s[j].val) : j \in DOMAIN s}
  <2>1. CASE t < Len(labels) - 1
    <3>1. Stacked(t)' = Stacked(t)
      BY <1>2, <2>1 DEF Stacked
    <3>2. t \in {v \in DOMAIN labels : v < TopIdx}
      BY <1>2
    <3> QED
      BY <3>1, <3>2 DEF Below
  <2>2. CASE t = Len(labels) - 1
    BY <1>5, <2>2 DEF Stacked
  <2> QED
    BY <1>1, <2>1, <2>2
<1>8. Held' = {DefinedIn(locals'[i]) : i \in DOMAIN locals'} \cup Heads' \cup UNION {Stacked(t)' : t \in DOMAIN labels'}
  BY DEF Held
<1>9. Below(TopIdx) \subseteq Held
  BY DEF Below, Held, Heads
<1> HIDE DEF Held, Below, Heads
<1>10. Held' \subseteq {DefinedIn(locals'[i]) : i \in DOMAIN locals'} \cup Below(TopIdx)
                       \cup {DefinedIn(s[j].val) : j \in DOMAIN s}
  BY ONLY <1>6, <1>7, <1>8
<1> QED
  BY <1>4, <1>5, <1>9, <1>10

(* The stack of the frame around, with the result of the one that ended.   *)
LEMMA ResultBelow ==
  ASSUME TrInv, status = "running", TopIdx > 1, NEW rtype, NEW v,
         NEW s, s = labels[TopIdx - 1].stack \/ s = WithResult(labels[TopIdx - 1].stack, rtype, v), NEW j \in DOMAIN s
  PROVE  DefinedIn(s[j].val) \in Below(TopIdx) \/ (rtype # NoType /\ s[j].val = v)
<1> DEFINE under == labels[TopIdx - 1].stack
           x == [val |-> v, type |-> rtype]
<1>1. under \in Seq(Operands)
  BY OuterFacts
<1>2. TopIdx - 1 \in {u \in DOMAIN labels : u < TopIdx}
  <2>1. DOMAIN labels = 1 .. TopIdx /\ TopIdx \in Nat
    BY FlowParts DEF TopIdx
  <2> QED
    BY <2>1
<1>3. \A i \in DOMAIN under : DefinedIn(under[i].val) \in Below(TopIdx)
  <2>1. Stacked(TopIdx - 1) \subseteq Below(TopIdx)
    BY <1>2 DEF Below
  <2>2. \A i \in DOMAIN under : DefinedIn(under[i].val) \in Stacked(TopIdx - 1)
    BY DEF Stacked
  <2> QED
    BY <2>1, <2>2
<1>4. s = under \/ (rtype # NoType /\ s = Append(under, x))
  BY DEF WithResult
<1> HIDE DEF under
<1>5. CASE s = under
  BY <1>3, <1>5
<1>6. CASE rtype # NoType /\ s = Append(under, x)
  <2>1. (j \in DOMAIN under /\ s[j] = under[j]) \/ s[j] = x
    <3> HIDE DEF x
    <3> QED
      BY <1>1, <1>6
  <2> QED
    BY <1>3, <1>6, <2>1
<1> QED
  BY <1>4, <1>5, <1>6

LEMMA EndLoopFlow ==
  ASSUME TrInv, TrInv', FlowInv, status = "running", labels # <<>>, EndLoop
  PROVE  FlowInv'
<1> DEFINE s == LoopRest
           dead == ~Falls
<1>1. /\ TopIdx > 1 /\ locals' = locals
      /\ Hits(None, Invalid) /\ Branches(ir', None, Invalid)
      /\ Falls \in BOOLEAN /\ Falls = ~Top.terminated
      /\ Falls => ir' = LoopLeft /\ (Top.rtype # NoType => Len(Top.stack) = 1)
      /\ ~Falls => ir' = LoopSealed
      /\ Quiet(ir') /\ Len(ir'.into) = Len(ir.into) + 1 /\ ir'.cur = NewBlock(ir)
      /\ ir'.term = ir.term \cup {IF Falls THEN ir.cur ELSE NewBlock(ir)}
      /\ OuterLike(labels', s, dead)
  BY EndLoopFacts DEF NewBlock
<1>2. NewBlock(ir) \in Blocks' \ Blocks
  BY <1>1, NewBlockMade
<1>3. Wired
  <2>1. CASE Falls
    <3>1. ~Top.terminated /\ ir' = LoopLeft
      BY <1>1, <2>1
    <3>2. FromCursor(ir')
      <4>1. FromCursor(LoopLeft)
        BY <3>1, LoopLeftFacts
      <4> QED
        BY <3>1, <4>1 DEF FromCursor
    <3> QED
      BY <1>1, <2>1, <3>1, <3>2, CursorWired
  <2>2. CASE ~Falls
    <3>1. ir'.into[NewBlock(ir)] = <<>>
      BY <1>1, <2>2, LoopSealedFacts
    <3>2. DOMAIN <<>> = {}
      OBVIOUS
    <3>3. \A b \in Blocks : ir'.into[b] = ir.into[b]
      BY <1>1 DEF Quiet
    <3>4. \A b \in Blocks' : b \in Blocks \/ b = NewBlock(ir)
      BY <1>1, FlowParts, FlowPartsNext DEF NewBlock
    <3> QED
      BY <1>1, <2>2, <3>1, <3>2, <3>3, <3>4 DEF Wired
  <2> QED
    BY <1>1, <2>1, <2>2
<1>4. CarriedHeld(None, Invalid)
  BY DEF CarriedHeld, None
<1> HIDE DEF s, dead
<1>5. /\ LabelsKept(None) /\ labels' # <<>> /\ Top'.terminated = dead
      /\ Held' \subseteq {DefinedIn(locals'[i]) : i \in DOMAIN locals'} \cup Below(TopIdx)
                         \cup {DefinedIn(s[j].val) : j \in DOMAIN s}
      /\ Below(TopIdx) \subseteq Held
  BY <1>1, PopKept
<1>6. Falls => \A j \in DOMAIN s : DefinedIn(s[j].val) \in Held
  <2> SUFFICES ASSUME Falls, NEW j \in DOMAIN s PROVE DefinedIn(s[j].val) \in Held
    OBVIOUS
  <2> DEFINE rtype == Top.rtype
             v == LoopResult
  <2>1. s = WithResult(labels[TopIdx - 1].stack, rtype, v)
    BY DEF s, LoopRest
  <2> HIDE DEF v, rtype
  <2>2. DefinedIn(s[j].val) \in Below(TopIdx) \/ (rtype # NoType /\ s[j].val = v)
    BY <1>1, <2>1, ResultBelow
  <2>3. rtype # NoType => DefinedIn(v) \in Held
    <3> SUFFICES ASSUME rtype # NoType PROVE DefinedIn(v) \in Held
      OBVIOUS
    <3>1. v = Peek(0) /\ Len(Top.stack) = 1
      BY <1>1 DEF v, rtype, LoopResult
    <3>2. 0 \in Nat /\ Len(Top.stack) > 0
      BY <3>1
    <3> QED
      BY <3>1, <3>2, PeekHeld
  <2> QED
    BY <1>5, <2>2, <2>3
<1>7. Onward
  <2>1. ASSUME Running'
        PROVE  /\ ~Top.terminated
               /\ Held' \subseteq Held \cup {ir'.cur}
               /\ ir'.cur \in Blocks' \ Blocks /\ ir'.into[ir'.cur] # <<>>
    <3>1. Falls
      BY <1>5, <2>1 DEF Running, dead
    <3>2. ~Top.terminated /\ ir' = LoopLeft
      BY <1>1, <3>1
    <3>3. ir'.into[NewBlock(ir)] # <<>>
      BY <3>2, LoopLeftFacts
    <3>4. {DefinedIn(locals'[i]) : i \in DOMAIN locals'} \subseteq Held
      BY <1>1, HeldFacts
    <3>5. {DefinedIn(s[j].val) : j \in DOMAIN s} \subseteq Held
      BY <1>6, <3>1
    <3> QED
      BY <1>1, <1>2, <1>5, <3>2, <3>3, <3>4, <3>5
  <2> QED
    BY <2>1 DEF Onward
<1>8. HeldDominates' /\ CursorReached'
  BY <1>1, <1>3, <1>4, <1>7, StepOnward
<1>9. \A p \in DOMAIN ir'.phis : p[1] \notin Blocks => PhiCarried(p)'
  BY <1>1, Parts DEF Quiet, PhisInv
<1> QED
  BY <1>1, <1>3, <1>4, <1>5, <1>8, <1>9, FlowStep

(* The block of the innermost label, where its branches come together.     *)
LEMMA TopBlock ==
  ASSUME TrInv, TrInv', FlowInv, status = "running", TopIdx > 1, NEW hits, NEW res, Hits(hits, res),
         Branches(ir', hits, res)
  PROVE  /\ Len(labels) \in DOMAIN labels /\ Len(labels) > 1 /\ Top = labels[Len(labels)] /\ labels # <<>>
         /\ Top.block \in Blocks /\ Top.block \in Blocks' /\ Top.block # 1
         /\ 1 \in DOMAIN ir'.into
<1>1. Len(labels) \in DOMAIN labels /\ Len(labels) > 1 /\ Top = labels[Len(labels)] /\ labels # <<>>
  <2>1. labels \in Seq(LabelType) /\ Len(labels) > 1
    BY FlowParts DEF TopIdx
  <2> QED
    BY <2>1 DEF Top, TopIdx
<1>2. Top.block \in Blocks /\ Top.block # 1 /\ 1 \in Blocks
  <2>1. Shape /\ Chain
    BY Parts
  <2>2. labels[Len(labels)].block \in Blocks
    BY <1>1, <2>1, BlockFacts
  <2>3. labels[Len(labels)].block > 1 /\ 1 \in Blocks
    BY <1>1 DEF FlowInv, EntryFirst
  <2> QED
    BY <1>1, <2>2, <2>3
<1>3. Top.block \in Blocks' /\ 1 \in Blocks'
  BY <1>1, <1>2, EdgesKept
<1> QED
  BY <1>1, <1>2, <1>3 DEF Blocks

(* What the frames around hold is defined on every path to the block.      *)
LEMMA BelowComes ==
  ASSUME TrInv, TrInv', FlowInv, status = "running", TopIdx > 1, ~Top.loop, NEW hits, NEW res, Hits(hits, res),
         Branches(ir', hits, res), Wired, CarriedHeld(hits, res), NEW d \in Below(TopIdx)
  PROVE  Dom(ir'.into, d, Top.block)
<1> DEFINE b == Top.block
           F == ir'.into
<1>1. /\ Len(labels) \in DOMAIN labels /\ Len(labels) > 1 /\ Top = labels[Len(labels)] /\ labels # <<>>
      /\ b \in Blocks /\ b \in Blocks' /\ b # 1 /\ 1 \in DOMAIN F
  BY TopBlock
<1>2. d \in Held /\ d \in Blocks
  <2>1. d \in Held
    BY DEF Below, Held, Heads
  <2> QED
    BY <2>1, HeldInBlocks
<1>3. /\ \A c \in Blocks \ Pending : Dom(ir.into, d, c) => Dom(F, d, c)
      /\ ~Top.terminated => \A c \in {ir.cur} \cup (Blocks' \ Blocks) : Dom(F, d, c)
  BY <1>1, <1>2, DominatorsKept
<1>4. ASSUME NEW k \in DOMAIN F[b]
      PROVE  Dom(F, d, F[b][k].src)
  <2>1. CASE k \in DOMAIN ir.into[b] /\ F[b][k] = ir.into[b][k]
    <3>1. Dom(ir.into, d, ir.into[b][k].src)
      BY <1>1, <2>1 DEF FlowInv, BelowDominates, TopIdx
    <3>2. ir.into[b][k].src \in Blocks \ Pending
      BY <1>1, <2>1, SourcesStay
    <3> QED
      BY <1>3, <2>1, <3>1, <3>2
  <2>2. CASE NewBranch(b, F[b][k]) /\ F[b][k].src \in {ir.cur} \cup (Blocks' \ Blocks)
    <3>1. ~Top.terminated
      BY <2>2 DEF NewBranch
    <3> QED
      BY <1>3, <2>2, <3>1
  <2> QED
    BY <1>1, <2>1, <2>2, EveryBranch
<1> HIDE DEF F, b
<1>5. Dom(F, d, b)
  BY ONLY <1>1, <1>4, DomOfSources
<1> QED
  BY <1>5 DEF F, b

(* So is what the branches merge into.                                     *)
LEMMA MergedComes ==
  ASSUME TrInv, TrInv', FlowInv, status = "running", TopIdx > 1, ~Top.loop, NEW hits, NEW res, Hits(hits, res),
         Branches(ir', hits, res), Wired, CarriedHeld(hits, res),
         NEW l, l = After(hits, res, Len(labels)), l.reached, NEW i \in DOMAIN l.merge
  PROVE  Dom(ir'.into, DefinedIn(l.merge[i].val), Top.block)
<1> DEFINE b == Top.block
           F == ir'.into
           P == ir'.phis
           w == l.merge[i].val
<1>0. Shape /\ Chain /\ LabelsInv /\ PhisInv /\ ValuesInv
  BY Parts
<1>1. /\ Len(labels) \in DOMAIN labels /\ Len(labels) > 1 /\ Top = labels[Len(labels)] /\ labels # <<>>
      /\ b \in Blocks /\ b \in Blocks' /\ b # 1 /\ 1 \in DOMAIN F
  BY TopBlock
<1>2. /\ l \in LabelType /\ l.block = b /\ ~l.loop /\ l.loop = Top.loop /\ l.rtype = Top.rtype
  BY <1>0, <1>1, AfterFacts
<1>3. LabelOK(l, F[b], P)
  BY <1>0, <1>1, StepLabel
<1>4. \A k \in DOMAIN F[b] : i \in DOMAIN F[b][k].vals
  <2>1. Width(l) = Width(Top)
    BY <1>2, WidthSame
  <2>2. \A k \in DOMAIN F[b] : DOMAIN F[b][k].vals = 1 .. Width(Top)
    BY <1>1, WideAfter
  <2>3. Len(l.merge) = Width(l)
    BY <1>3 DEF LabelOK, Width
  <2>4. l.merge \in Seq(Slot)
    BY <1>2, LabelTyped
  <2> HIDE DEF F, b
  <2>5. i \in 1 .. Len(l.merge)
    BY <2>4
  <2> QED
    BY <2>1, <2>2, <2>3, <2>5
<1>5. CarriedDominates'
  BY <1>1, StepBranches
<1>6. \A k \in DOMAIN F[b] : Dom(F, DefinedIn(F[b][k].vals[i]), F[b][k].src)
  BY <1>1, <1>4, <1>5 DEF CarriedDominates
<1>7. SlotOK(l, F[b], P, i)
  BY <1>3 DEF LabelOK
<1>8. CASE l.merge[i].phi = NoPhi
  <2>1. \A k \in DOMAIN F[b] : F[b][k].vals[i] = w
    BY <1>7, <1>8 DEF SlotOK
  <2> HIDE DEF F, b, w
  <2>2. \A k \in DOMAIN F[b] : Dom(F, DefinedIn(w), F[b][k].src)
    BY <1>6, <2>1
  <2>3. Dom(F, DefinedIn(w), b)
    BY ONLY <1>1, <2>2, DomOfSources
  <2> QED
    BY <2>3 DEF F, b, w
<1>9. CASE l.merge[i].phi # NoPhi
  <2>1. w = Phi(b, i)
    BY <1>2, <1>7, <1>9 DEF SlotOK
  <2>2. DefinedIn(w) = b
    BY <2>1 DEF DefinedIn, Phi
  <2> HIDE DEF F, b, w
  <2>3. Dom(F, b, b)
    BY <1>1, DomSelf
  <2> QED
    BY <2>2, <2>3 DEF F, b, w
<1> QED
  BY <1>8, <1>9

(* A block that its label counts as reached has a branch into it.          *)
LEMMA ComesEntered ==
  ASSUME TrInv, TrInv', FlowInv, status = "running", TopIdx > 1, ~Top.loop, NEW hits, NEW res, Hits(hits, res),
         Branches(ir', hits, res), After(hits, res, Len(labels)).reached
  PROVE  ir'.into[Top.block] # <<>>
<1> DEFINE b == Top.block
           t == Len(labels)
<1>1. /\ t \in DOMAIN labels /\ t > 1 /\ Top = labels[t] /\ labels # <<>> /\ b \in Blocks /\ b \in Blocks'
  BY TopBlock
<1>2. labels[t].reached \/ hits[t] > 0
  BY <1>1, Parts, AfterReached
<1>3. /\ ir.into[b] \in Seq(BranchType) /\ ir'.into[b] \in Seq(BranchType)
      /\ Blocks = DOMAIN ir.into
  <2>1. ir.into \in Seq(Seq(BranchType)) /\ ir'.into \in Seq(Seq(BranchType))
    BY FlowParts, FlowPartsNext
  <2> QED
    BY <1>1, <2>1 DEF Blocks
<1>4. CASE labels[t].reached
  <2>1. ir.into[b] # <<>>
    BY <1>1, <1>4 DEF FlowInv, ReachedEntered
  <2>2. 1 \in DOMAIN ir.into[b]
    BY <1>3, <2>1
  <2>3. 1 \in DOMAIN ir'.into[b]
    BY <1>1, <2>2, EdgesKept
  <2>4. DOMAIN <<>> = {}
    OBVIOUS
  <2> QED
    BY <2>3, <2>4
<1>5. CASE hits[t] > 0
  <2>1. Extends(ir.into[b], ir'.into[b], hits[t], Carried(t, res))
    BY <1>1 DEF Branches
  <2>2. Len(ir'.into[b]) = Len(ir.into[b]) + hits[t] /\ hits[t] \in Nat
    BY <1>1, <2>1 DEF Extends, Hits
  <2> HIDE DEF b, t
  <2> QED
    BY <1>3, <1>5, <2>2 DEF b
<1> QED
  BY <1>2, <1>4, <1>5

LEMMA EndSealedFlow ==
  ASSUME TrInv, TrInv', FlowInv, status = "running", TopIdx > 1, ~Top.loop,
         Top.terminated, ir' = Seal(At(ir, Top.block)), labels' = OuterClosed, locals' = locals
  PROVE  FlowInv'
<1> DEFINE a == At(ir, Top.block)
           s == labels[TopIdx - 1].stack
           yes == TRUE
<1>1. labels # <<>> /\ Top.block \in Nat /\ IsIr(ir)
  <2>1. labels # <<>> /\ Len(labels) \in DOMAIN labels /\ Top = labels[Len(labels)]
    BY OuterFacts DEF Top, TopIdx
  <2>2. Shape /\ Chain
    BY Parts
  <2> QED
    BY <2>1, <2>2, LabelTyped, LabelsTyped DEF Shape
<1>2. IsIr(a) /\ a.into = ir.into /\ a.term = ir.term /\ a.values = ir.values /\ a.phis = ir.phis
  BY <1>1, AtFacts
<1> HIDE DEF a
<1>3. ir' = Terminate(a)
  BY DEF Seal, a
<1>4. /\ IsIr(ir') /\ ir'.into = ir.into /\ ir.term \subseteq ir'.term /\ ir'.values = ir.values /\ ir'.phis = ir.phis
  BY <1>2, <1>3, TerminateFacts
<1>5. Quiet(ir')
  <2>1. Quiet(ir)
    BY SameIr
  <2> QED
    BY <1>4, <2>1 DEF Quiet
<1>6. Hits(None, Invalid) /\ Branches(ir', None, Invalid)
  BY <1>1, <1>5, NoneHits, QuietBranches, Parts
<1>7. Wired
  BY <1>4, SameWired
<1>8. CarriedHeld(None, Invalid)
  BY DEF CarriedHeld, None
<1>9. OuterLike(labels', s, yes)
  BY OuterClosedFacts
<1> HIDE DEF s, yes
<1>10. LabelsKept(None) /\ Top'.terminated = yes
  BY <1>9, PopKept
<1>11. Onward
  BY <1>10 DEF Onward, Running, yes
<1>12. HeldDominates' /\ CursorReached'
  BY <1>1, <1>6, <1>7, <1>8, <1>11, StepOnward
<1>13. \A p \in DOMAIN ir'.phis : p[1] \notin Blocks => PhiCarried(p)'
  BY <1>4, Parts DEF PhisInv
<1> QED
  BY <1>1, <1>6, <1>7, <1>8, <1>10, <1>12, <1>13, FlowStep

(* What code in the block after its end can use.                           *)
LEMMA ComesHeld ==
  ASSUME TrInv, TrInv', FlowInv, status = "running", TopIdx > 1, ~Top.loop, NEW hits, NEW res, Hits(hits, res),
         Branches(ir', hits, res), Wired, CarriedHeld(hits, res),
         NEW l, l = After(hits, res, Len(labels)), l.reached, GoesOnIn(l), NEW d \in Held'
  PROVE  Dom(ir'.into, d, Top.block)
<1> DEFINE s == EndStack(l)
           v == EndResult(l)
           rtype == l.rtype
           no == FALSE
<1>0. /\ TrInv /\ status = "running" /\ TopIdx > 1 /\ ~Top.loop /\ Hits(hits, res) /\ Branches(ir', hits, res)
      /\ l = After(hits, res, Len(labels)) /\ l.reached /\ GoesOnIn(l)
  OBVIOUS
<1>1. OuterLike(labels', EndStack(l), FALSE)
  BY ONLY <1>0, GoesOnFacts
<1>2. EndLocals(l)
  BY ONLY <1>0, GoesOnFacts
<1>3. l.rtype # NoType => EndResult(l) = l.merge[Len(l.merge)].val /\ Len(l.merge) \in DOMAIN l.merge
  BY ONLY <1>0, GoesOnFacts
<1>4. \A i \in DOMAIN l.merge : Dom(ir'.into, DefinedIn(l.merge[i].val), Top.block)
  BY MergedComes
<1>5. s = WithResult(labels[TopIdx - 1].stack, rtype, v) /\ OuterLike(labels', s, no)
  BY <1>1 DEF EndStack
<1>6. rtype # NoType => v = l.merge[Len(l.merge)].val /\ Len(l.merge) \in DOMAIN l.merge
  BY <1>3
<1> HIDE DEF s, v, rtype, no
<1>7. Held' \subseteq {DefinedIn(locals'[i]) : i \in DOMAIN locals'} \cup Below(TopIdx)
                      \cup {DefinedIn(s[j].val) : j \in DOMAIN s}
  <2>1. TrInv /\ status = "running" /\ TopIdx > 1 /\ OuterLike(labels', s, no)
    BY <1>5
  <2> QED
    BY ONLY <2>1, PopKept
<1>8. \A e \in Below(TopIdx) : Dom(ir'.into, e, Top.block)
  BY BelowComes
<1>9. CASE d \in {DefinedIn(locals'[i]) : i \in DOMAIN locals'}
  <2>1. PICK i \in DOMAIN locals' : d = DefinedIn(locals'[i])
    BY <1>9
  <2>2. i \in DOMAIN l.merge /\ locals'[i] = l.merge[i].val
    BY <1>2 DEF EndLocals
  <2> QED
    BY <1>4, <2>1, <2>2
<1>10. CASE d \in Below(TopIdx)
  BY <1>8, <1>10
<1>11. CASE d \in {DefinedIn(s[j].val) : j \in DOMAIN s}
  <2>1. PICK j \in DOMAIN s : d = DefinedIn(s[j].val)
    BY <1>11
  <2>2. DefinedIn(s[j].val) \in Below(TopIdx) \/ (rtype # NoType /\ s[j].val = v)
    BY <1>5, ResultBelow
  <2>3. CASE rtype # NoType /\ s[j].val = v
    BY <1>4, <1>6, <2>1, <2>3
  <2> QED
    BY <1>8, <2>1, <2>2, <2>3
<1> QED
  BY <1>7, <1>9, <1>10, <1>11

LEMMA EndComesFlow ==
  ASSUME TrInv, TrInv', FlowInv, status = "running", TopIdx > 1, ~Top.loop, NEW hits, NEW res, Comes(hits, res)
  PROVE  FlowInv'
<1> DEFINE l == After(hits, res, Len(labels))
           no == FALSE
<1>1. /\ Hits(hits, res) /\ Branches(ir', hits, res) /\ ComesToBlock /\ l.reached /\ GoesOnIn(l)
      /\ FromCursor(ir') /\ (~Falls => ir'.into = ir.into)
      /\ \A t \in DOMAIN labels : hits[t] > 0 /\ MergesResult(labels[t]) => Len(Top.stack) > 0 /\ res = Peek(0)
  BY DEF Comes
<1>2. /\ Len(labels) \in DOMAIN labels /\ Top = labels[Len(labels)] /\ labels # <<>>
      /\ Top.block \in Blocks /\ Top.block \in Blocks'
  BY <1>1, TopBlock
<1>3. Falls => ~Top.terminated
  BY DEF Falls
<1>4. Wired
  <2>1. CASE Falls
    <3>1. ir.term \subseteq ir'.term /\ ir.cur \in ir'.term
      BY <1>1, <2>1 DEF ComesToBlock
    <3> QED
      BY <1>1, <1>3, <2>1, <3>1, CursorWired
  <2>2. CASE ~Falls
    <3>1. ir.term \subseteq ir'.term
      BY <1>1 DEF ComesToBlock
    <3> QED
      BY <1>1, <2>2, <3>1, SameWired
  <2> QED
    BY <2>1, <2>2
<1>5. CarriedHeld(hits, res)
  <2>1. ASSUME NEW t \in DOMAIN labels, hits[t] > 0 /\ MergesResult(labels[t])
        PROVE  DefinedIn(res) \in Held
    <3>1. 0 \in Nat /\ Len(Top.stack) > 0 /\ res = Peek(0)
      BY <1>1, <2>1
    <3>2. DefinedIn(Peek(0)) \in Held
      BY <1>2, <3>1, PeekHeld
    <3> QED
      BY <3>1, <3>2
  <2> QED
    BY <1>1, <2>1, CarriedFrom
<1> HIDE DEF l
<1>6. l = After(hits, res, Len(labels))
  BY DEF l
<1>7. OuterLike(labels', EndStack(l), FALSE)
  BY <1>1, <1>6, GoesOnFacts
<1>8. LabelsKept(hits)
  <2> HIDE DEF no
  <2>1. OuterLike(labels', EndStack(l), no)
    BY <1>7 DEF no
  <2> QED
    BY <2>1, PopKept
<1>9. ir'.cur = Top.block /\ \A p \in DOMAIN ir'.phis : p[1] \in Blocks
  BY <1>1 DEF ComesToBlock
<1>10. HeldDominates'
  <2>1. \A d \in Held' : Dom(ir'.into, d, Top.block)
    BY <1>1, <1>4, <1>5, <1>6, ComesHeld
  <2> QED
    BY <1>9, <2>1 DEF HeldDominates
<1>11. CursorReached'
  <2>1. ir'.into[Top.block] # <<>>
    BY <1>1, <1>6, ComesEntered
  <2>2. Top.block \in Reach(ir'.into, {})
    BY <1>1, <1>2, <1>4, <1>5, <2>1, StepReached
  <2> QED
    BY <1>9, <2>2 DEF CursorReached
<1> QED
  BY <1>1, <1>2, <1>4, <1>5, <1>8, <1>9, <1>10, <1>11, FlowStep

LEMMA EndBlockFlow ==
  ASSUME TrInv, TrInv', FlowInv, status = "running", labels # <<>>, EndBlock
  PROVE  FlowInv'
<1>1. /\ TopIdx > 1 /\ ~Top.loop
      /\ \/ /\ Top.terminated /\ ir' = Seal(At(ir, Top.block)) /\ labels' = OuterClosed
            /\ locals' = locals
         \/ \E hits, res : Comes(hits, res)
  BY EndBlockFacts
<1>2. CASE /\ Top.terminated /\ ir' = Seal(At(ir, Top.block)) /\ labels' = OuterClosed
           /\ locals' = locals
  BY <1>1, <1>2, EndSealedFlow
<1>3. CASE \E hits, res : Comes(hits, res)
  <2>1. PICK hits, res : Comes(hits, res)
    BY <1>3
  <2> QED
    BY <1>1, <2>1, EndComesFlow
<1> QED
  BY <1>1, <1>2, <1>3

(* After the last `end` only the IR is left.                               *)
LEMMA FlowRest ==
  ASSUME FlowInv, status = "running", labels' = <<>>,
         ir'.into = ir.into, ir'.phis = ir.phis, ir.term \subseteq ir'.term
  PROVE  FlowInv'
<1>1. DOMAIN <<>> = {}
  OBVIOUS
<1>2. DOMAIN labels' = {} /\ Blocks' = Blocks /\ ~Running'
  BY <1>1 DEF Blocks, Running
<1>3. EntryFirst' /\ ReachedEntered' /\ BranchesWide' /\ BelowDominates'
  BY <1>2 DEF FlowInv, EntryFirst, ReachedEntered, BranchesWide, BelowDominates
<1>4. CursorReached' /\ HeldDominates'
  BY <1>2 DEF CursorReached, HeldDominates
<1>5. SourcesClosed' /\ SourcesReached' /\ CarriedDominates'
  BY <1>2 DEF FlowInv, SourcesClosed, SourcesReached, CarriedDominates
<1>6. PhisCarried'
  BY DEF FlowInv, PhisCarried, PhiCarried
<1> QED
  BY <1>3, <1>4, <1>5, <1>6 DEF FlowInv

LEMMA RejectFlow ==
  ASSUME Reject
  PROVE  FlowInv'
<1>1. DOMAIN <<>> = {}
  OBVIOUS
<1>2. labels' = <<>> /\ status' = "failed" /\ ir'.into = <<>> /\ DOMAIN ir'.phis = {}
  BY DEF Reject
<1>3. DOMAIN labels' = {} /\ Blocks' = {} /\ ~Running'
  BY <1>1, <1>2 DEF Blocks, Running
<1>4. EntryFirst' /\ ReachedEntered' /\ BranchesWide' /\ BelowDominates'
  BY <1>2, <1>3 DEF EntryFirst, ReachedEntered, BranchesWide, BelowDominates
<1>5. CursorReached' /\ HeldDominates'
  BY <1>3 DEF CursorReached, HeldDominates
<1>6. SourcesClosed' /\ SourcesReached' /\ CarriedDominates' /\ PhisCarried'
  BY <1>2, <1>3 DEF SourcesClosed, SourcesReached, CarriedDominates, PhisCarried
<1> QED
  BY <1>4, <1>5, <1>6 DEF FlowInv

LEMMA EndFlow ==
  ASSUME TrInv, TrInv', FlowInv, End
  PROVE  FlowInv'
<1>1. status = "running" /\ labels # <<>> /\ (EndBody \/ EndBlock \/ EndLoop) /\ status' = status
  BY DEF End, Consume
<1>2. CASE EndBody
  <2>1. Shape
    BY Parts
  <2>2. IsIr(ir)
    BY <2>1 DEF Shape
  <2>3. ir'.into = ir.into /\ ir'.phis = ir.phis /\ ir.term \subseteq ir'.term
    <3>1. CASE Falls
      <4>1. ir' = Terminate(ir)
        BY <1>2, <3>1 DEF EndBody
      <4> QED
        BY <2>2, <4>1, TerminateFacts
    <3>2. CASE ~Falls
      BY <1>2, <3>2 DEF EndBody
    <3> QED
      BY <3>1, <3>2
  <2>4. labels' = <<>>
    BY <1>2 DEF EndBody
  <2> QED
    BY <1>1, <2>3, <2>4, FlowRest
<1>3. CASE EndBlock
  BY <1>1, <1>3, EndBlockFlow
<1>4. CASE EndLoop
  BY <1>1, <1>4, EndLoopFlow
<1> QED
  BY <1>1, <1>2, <1>3, <1>4

-----------------------------------------------------------------------------
(* The invariant is inductive.                                             *)

LEMMA InitFlow == Init => FlowInv
<1> SUFFICES ASSUME Init PROVE FlowInv
  OBVIOUS
<1>1. /\ ir.into = << <<>> >> /\ ir.cur = 1 /\ DOMAIN ir.phis = {}
      /\ labels = <<Label(0, NoType, FALSE, <<>>)>> /\ status = "running"
      /\ \A i \in DOMAIN locals : DefinedIn(locals[i]) = 1
  BY DEF Init, DefinedIn
<1>2. /\ DOMAIN <<>> = {}
      /\ \A x : DOMAIN <<x>> = {1} /\ <<x>>[1] = x
  OBVIOUS
<1>3. Blocks = {1} /\ ir.into[1] = <<>> /\ \A b \in Blocks : DOMAIN ir.into[b] = {}
  BY <1>1, <1>2 DEF Blocks
<1>4. DOMAIN labels = {1} /\ labels[1].stack = <<>>
  BY <1>1, <1>2 DEF Label
<1>5. \A t \in DOMAIN labels : ~(t > 1)
  BY <1>4
<1>6. ir.cur \in Reach(ir.into, {})
  <2>1. 1 \in DOMAIN ir.into
    BY <1>3 DEF Blocks
  <2>2. Closed(ir.into, Reach(ir.into, {}), {})
    BY <2>1, ReachClosed
  <2> QED
    BY <1>1, <2>2 DEF Closed
<1>7. Held \subseteq {1}
  <2>1. Heads = {}
    BY <1>5 DEF Heads
  <2>2. \A t \in DOMAIN labels : Stacked(t) = {}
    BY <1>2, <1>4 DEF Stacked
  <2>3. {DefinedIn(locals[i]) : i \in DOMAIN locals} \subseteq {1}
    BY <1>1
  <2> QED
    BY <2>1, <2>2, <2>3 DEF Held
<1>8. Dom(ir.into, 1, 1)
  BY <1>3, DomSelf DEF Blocks
<1>9. EntryFirst /\ SourcesClosed /\ SourcesReached
  BY <1>3, <1>5 DEF EntryFirst, SourcesClosed, SourcesReached
<1>10. CursorReached /\ ReachedEntered /\ BranchesWide /\ BelowDominates
  BY <1>5, <1>6 DEF CursorReached, ReachedEntered, BranchesWide, BelowDominates
<1>11. HeldDominates /\ CarriedDominates /\ PhisCarried
  BY <1>1, <1>3, <1>7, <1>8 DEF HeldDominates, CarriedDominates, PhisCarried
<1> QED
  BY <1>9, <1>10, <1>11 DEF FlowInv

LEMMA StutterFlow ==
  ASSUME FlowInv, UNCHANGED vars
  PROVE  FlowInv'
<1>1. ir' = ir /\ labels' = labels /\ locals' = locals /\ status' = status
  BY DEF vars
<1>2. Blocks' = Blocks /\ Running' = Running /\ Heads' = Heads
  BY <1>1 DEF Blocks, Running, Top, TopIdx, Heads
<1>3. \A t : Stacked(t)' = Stacked(t)
  BY <1>1 DEF Stacked
<1>4. Held' = Held
  BY <1>1, <1>2, <1>3 DEF Held
<1>5. \A t : Below(t)' = Below(t)
  BY <1>1, <1>3 DEF Below
<1>6. EntryFirst' /\ SourcesClosed' /\ SourcesReached' /\ CursorReached'
  BY <1>1, <1>2 DEF FlowInv, EntryFirst, SourcesClosed, SourcesReached, CursorReached
<1>7. ReachedEntered' /\ BranchesWide' /\ HeldDominates'
  BY <1>1, <1>2, <1>4 DEF FlowInv, ReachedEntered, BranchesWide, HeldDominates
<1>8. BelowDominates' /\ CarriedDominates'
  BY <1>1, <1>2, <1>5 DEF FlowInv, BelowDominates, CarriedDominates
<1>9. PhisCarried'
  BY <1>1 DEF FlowInv, PhisCarried, PhiCarried
<1> QED
  BY <1>6, <1>7, <1>8, <1>9 DEF FlowInv

LEMMA NextFlow ==
  ASSUME Validated, TrInv, FlowInv, [Next]_vars
  PROVE  FlowInv'
<1>0. TrInv'
  BY NextStep
<1>1. ASSUME NEW sig \in CallTypes, Call(sig) PROVE FlowInv'
  <2>1. IsSig(sig) /\ Operation(sig)
    BY <1>1, AllSigs DEF Call
  <2> QED
    BY <1>0, <2>1, OperationFlow
<1>2. ASSUME NEW sig \in Signatures, Operation(sig) PROVE FlowInv'
  BY <1>0, <1>2, AllSigs, OperationFlow
<1>3. ASSUME NEW sig \in CallTypes, CallIndirect(sig) PROVE FlowInv'
  BY <1>0, <1>3, AllSigs, CallIndirectFlow
<1>4. CASE DropOperand
  BY <1>0, <1>4, DropOperandFlow
<1>5. ASSUME NEW i \in LocalIdx, LocalGet(i) \/ LocalSet(i) PROVE FlowInv'
  BY <1>0, <1>5, LocalGetFlow, LocalSetFlow
<1>6. ASSUME NEW rtype \in BlockTypes, Block(rtype) \/ Loop(rtype) PROVE FlowInv'
  BY <1>0, <1>6, BlockFlow, LoopFlow
<1>7. ASSUME NEW d \in Depths, Br(d) \/ BrIf(d) PROVE FlowInv'
  BY <1>0, <1>7, BrFlow, BrIfFlow
<1>8. ASSUME NEW tbl \in Tables, BrTable(tbl) PROVE FlowInv'
  BY <1>0, <1>8, BrTableFlow
<1>9. CASE Return \/ Unreachable \/ End
  BY <1>0, <1>9, ReturnFlow, UnreachableFlow, EndFlow
<1>10. CASE SkipFrame \/ SkipEnd \/ SkipPlain
  BY <1>0, <1>10, SkipsFlow
<1>11. CASE Finish
  <2>1. status = "running" /\ ir' = ir /\ labels' = <<>>
    BY <1>11 DEF Finish
  <2> QED
    BY <2>1, FlowRest
<1>12. CASE Reject
  BY <1>12, RejectFlow
<1>13. CASE UNCHANGED vars
  BY <1>13, StutterFlow
<1> QED
  BY <1>1, <1>2, <1>3, <1>4, <1>5, <1>6, <1>7, <1>8, <1>9, <1>10, <1>11, <1>12, <1>13 DEF Next

(* The translation never leaves the invariant.                             *)
LEMMA FlowKept == ASSUME Validated PROVE Spec => []FlowInv
<1>1. Init => TrInv /\ FlowInv
  BY InitInv, InitFlow
<1>2. (TrInv /\ FlowInv) /\ [Next]_vars => (TrInv /\ FlowInv)'
  BY NextStep, NextFlow
<1> QED
  BY <1>1, <1>2, PTL DEF Spec

-----------------------------------------------------------------------------
(* ReachableAvoiding, which adds the successors of a set step by step,     *)
(* computes Reach.                                                         *)

Onto(set, avoid) == set \cup ({b \in Blocks : \E e \in ToSet(EdgesInto(b)) : e.src \in set} \ avoid)

Steps(f, avoid, m) == f = [n \in 0 .. m |-> IF n = 0 THEN {1} \ avoid ELSE Onto(f[n - 1], avoid)]

LEMMA StepsChosen ==
  ASSUME NEW avoid
  PROVE  ReachableAvoiding(avoid) = (CHOOSE f : Steps(f, avoid, Len(ir.into)))[Len(ir.into)]
BY DEF ReachableAvoiding, Steps, Onto

LEMMA StepsExist ==
  ASSUME NEW avoid, NEW N \in Nat
  PROVE  \E f : Steps(f, avoid, N)
<1> DEFINE T == {m \in Nat : ~ \E f : Steps(f, avoid, m)}
<1> SUFFICES T = {}
  OBVIOUS
<1> SUFFICES ASSUME T # {} PROVE FALSE
  OBVIOUS
<1>1. T \subseteq Nat
  OBVIOUS
<1> HIDE DEF T
<1>2. PICK m \in T : \A y \in T : m <= y
  BY <1>1, LeastOf
<1>3. m \in Nat /\ ~ \E f : Steps(f, avoid, m)
  BY DEF T
<1>4. CASE m = 0
  <2> DEFINE f == [n \in 0 .. 0 |-> {1} \ avoid]
  <2>1. f = [n \in 0 .. 0 |-> IF n = 0 THEN {1} \ avoid ELSE Onto(f[n - 1], avoid)]
    OBVIOUS
  <2> HIDE DEF f
  <2>2. Steps(f, avoid, 0)
    BY <2>1 DEF Steps
  <2> QED
    BY <1>3, <1>4, <2>2
<1>5. CASE m # 0
  <2>1. m - 1 \in Nat /\ m - 1 \notin T
    BY <1>2, <1>3, <1>5
  <2>2. PICK f : Steps(f, avoid, m - 1)
    BY <2>1 DEF T
  <2> DEFINE g == [n \in 0 .. m |-> IF n = m THEN Onto(f[m - 1], avoid) ELSE f[n]]
  <2>3. /\ DOMAIN f = 0 .. m - 1
        /\ \A n \in 0 .. m - 1 : f[n] = IF n = 0 THEN {1} \ avoid ELSE Onto(f[n - 1], avoid)
    BY <2>2 DEF Steps
  <2>4. ASSUME NEW n \in 0 .. m
        PROVE  g[n] = IF n = 0 THEN {1} \ avoid ELSE Onto(g[n - 1], avoid)
    <3>1. CASE n = m
      <4>1. g[n] = Onto(f[m - 1], avoid) /\ g[n - 1] = f[m - 1]
        BY <1>3, <2>1, <3>1
      <4> QED
        BY <1>5, <3>1, <4>1
    <3>2. CASE n # m
      <4>1. n \in 0 .. m - 1 /\ g[n] = f[n] /\ (n # 0 => g[n - 1] = f[n - 1])
        BY <1>3, <3>2
      <4> QED
        BY <2>3, <4>1
    <3> QED
      BY <3>1, <3>2
  <2>5. g = [n \in 0 .. m |-> g[n]]
    OBVIOUS
  <2> HIDE DEF g
  <2>6. g = [n \in 0 .. m |-> IF n = 0 THEN {1} \ avoid ELSE Onto(g[n - 1], avoid)]
    BY <2>4, <2>5
  <2>7. Steps(g, avoid, m)
    BY <2>6 DEF Steps
  <2> QED
    BY <1>3, <2>7
<1> QED
  BY <1>4, <1>5

LEMMA StepsTaken ==
  ASSUME NEW avoid, Len(ir.into) \in Nat
  PROVE  \E f : /\ ReachableAvoiding(avoid) = f[Len(ir.into)]
                /\ f[0] = {1} \ avoid
                /\ \A n \in 0 .. Len(ir.into) : n > 0 => f[n] = Onto(f[n - 1], avoid)
<1> DEFINE N == Len(ir.into)
           f == CHOOSE f : Steps(f, avoid, N)
<1>1. ReachableAvoiding(avoid) = f[N]
  BY StepsChosen
<1>2. Steps(f, avoid, N)
  BY StepsExist
<1> HIDE DEF f
<1>3. f[0] = {1} \ avoid
  BY <1>2 DEF Steps
<1>4. ASSUME NEW n \in 0 .. N, n > 0
      PROVE  f[n] = Onto(f[n - 1], avoid)
  <2>1. f[n] = IF n = 0 THEN {1} \ avoid ELSE Onto(f[n - 1], avoid)
    BY <1>2 DEF Steps
  <2>2. n # 0
    BY <1>4
  <2> QED
    BY <2>1, <2>2, Zenon
<1> QED
  BY <1>1, <1>3, <1>4

(* A closed set takes the next step in.                                    *)
LEMMA OntoInside ==
  ASSUME NEW avoid, NEW S, Closed(ir.into, S, avoid), NEW set, set \subseteq S
  PROVE  Onto(set, avoid) \subseteq S
<1>1. ASSUME NEW b \in Blocks \ avoid, NEW e \in ToSet(EdgesInto(b)), e.src \in set
      PROVE  b \in S
  <2>1. PICK k \in DOMAIN ir.into[b] : e = ir.into[b][k]
    BY DEF ToSet, EdgesInto
  <2>2. b \in DOMAIN ir.into \ avoid /\ ir.into[b][k].src \in S
    BY <1>1, <2>1 DEF Blocks
  <2> QED
    BY <2>2 DEF Closed
<1> QED
  BY <1>1 DEF Onto

LEMMA ReachableInside ==
  ASSUME NEW avoid, Len(ir.into) \in Nat, NEW S, Closed(ir.into, S, avoid)
  PROVE  ReachableAvoiding(avoid) \subseteq S
<1> DEFINE N == Len(ir.into)
<1>1. PICK f : /\ ReachableAvoiding(avoid) = f[N]
               /\ f[0] = {1} \ avoid
               /\ \A n \in 0 .. N : n > 0 => f[n] = Onto(f[n - 1], avoid)
  BY StepsTaken
<1> HIDE DEF N
<1> DEFINE T == {n \in 0 .. N : ~ (f[n] \subseteq S)}
<1> SUFFICES ASSUME T # {} PROVE FALSE
  BY <1>1 DEF N
<1>2. T \subseteq Nat
  OBVIOUS
<1> HIDE DEF T
<1>3. PICK n \in T : \A y \in T : n <= y
  BY <1>2, LeastOf
<1>4. n \in 0 .. N /\ ~ (f[n] \subseteq S)
  BY DEF T
<1>5. n # 0
  BY <1>1, <1>4 DEF Closed
<1>6. n - 1 \in 0 .. N /\ n - 1 \notin T /\ n > 0
  BY <1>3, <1>4, <1>5 DEF N
<1>7. f[n - 1] \subseteq S
  BY <1>6 DEF T
<1>8. f[n] = Onto(f[n - 1], avoid)
  BY <1>1, <1>4, <1>6
<1> QED
  BY <1>4, <1>7, <1>8, OntoInside

(* Dominance in the invariant is dominance as the property has it.         *)
LEMMA DomDominates ==
  ASSUME 1 \in DOMAIN ir.into, Len(ir.into) \in Nat, NEW d, NEW b, Dom(ir.into, d, b)
  PROVE  Dominates(d, b)
<1>1. Closed(ir.into, Reach(ir.into, {d}), {d})
  BY ReachClosed
<1>2. ReachableAvoiding({d}) \subseteq Reach(ir.into, {d})
  BY <1>1, ReachableInside
<1> QED
  BY <1>2 DEF Dom, Dominates

(* Every step that is not the last adds a block, so there are enough.      *)
LEMMA ReachableAll ==
  ASSUME 1 \in DOMAIN ir.into, Len(ir.into) \in Nat, DOMAIN ir.into = 1 .. Len(ir.into)
  PROVE  Reach(ir.into, {}) \subseteq ReachableAvoiding({})
<1> DEFINE N == Len(ir.into)
           D == DOMAIN ir.into
           none == {}
           C(S) == Closed(ir.into, S, none)
<1>1. PICK f : /\ ReachableAvoiding(none) = f[N]
               /\ f[0] = {1} \ none
               /\ \A n \in 0 .. N : n > 0 => f[n] = Onto(f[n - 1], none)
  BY StepsTaken
<1>2. N \in Nat /\ D = 1 .. N /\ IsFiniteSet(D) /\ Cardinality(D) = N
  <2>1. N \in Nat /\ D = 1 .. N /\ 1 \in Int /\ N \in Int
    OBVIOUS
  <2>2. IsFiniteSet(1 .. N) /\ Cardinality(1 .. N) = IF 1 > N THEN 0 ELSE N - 1 + 1
    BY <2>1, FS_Interval
  <2> HIDE DEF N, D
  <2>3. Cardinality(1 .. N) = N
    BY <2>1, <2>2
  <2> QED
    BY <2>1, <2>2, <2>3
<1>3. Onto({}, none) \subseteq D /\ \A S : S \subseteq D => S \subseteq Onto(S, none) /\ Onto(S, none) \subseteq D
  BY DEF Onto, Blocks
<1>4. \A S : S \subseteq D /\ 1 \in S => (C(S) <=> Onto(S, none) = S)
  <2> SUFFICES ASSUME NEW S, S \subseteq D, 1 \in S PROVE C(S) <=> Onto(S, none) = S
    OBVIOUS
  <2>1. ASSUME C(S) PROVE Onto(S, none) = S
    <3>1. Onto(S, none) \subseteq S
      BY <2>1, OntoInside
    <3> QED
      BY <1>3, <3>1
  <2>2. ASSUME Onto(S, none) = S PROVE C(S)
    <3>1. ASSUME NEW b \in D, NEW k \in DOMAIN ir.into[b], ir.into[b][k].src \in S
          PROVE  b \in S
      <4>1. ir.into[b][k] \in ToSet(EdgesInto(b))
        BY DEF ToSet, EdgesInto
      <4>2. b \in Onto(S, none)
        BY <3>1, <4>1 DEF Onto, Blocks
      <4> QED
        BY <2>2, <4>2
    <3> QED
      BY <3>1 DEF Closed
  <2> QED
    BY <2>1, <2>2
<1> HIDE DEF N, D, C, none
<1> DEFINE P(n) == /\ f[n] \subseteq D /\ 1 \in f[n]
                   /\ Onto(f[n], none) = f[n] \/ Cardinality(f[n]) >= n + 1
           T == {n \in 0 .. N : ~P(n)}
<1>5. P(0)
  <2>1. f[0] = {1} /\ 1 \in D
    BY <1>1 DEF none, D
  <2>2. Cardinality({1}) = 1
    BY FS_Singleton
  <2> QED
    BY <2>1, <2>2
<1>6. ASSUME NEW n \in 0 .. N, n > 0, P(n - 1)
      PROVE  P(n)
  <2> DEFINE S == f[n - 1]
             R == f[n]
  <2>1. R = Onto(S, none) /\ S \subseteq D /\ 1 \in S
    BY <1>1, <1>6
  <2>2. S \subseteq R /\ R \subseteq D
    BY <1>3, <2>1
  <2>3. CASE Onto(S, none) = S
    <3>1. R = S
      BY <2>1, <2>3
    <3>2. Onto(R, none) = R
      BY <2>3, <3>1
    <3> HIDE DEF S, R
    <3> QED
      BY <2>1, <2>2, <3>2 DEF R
  <2>4. CASE Onto(S, none) # S
    <3>1. Cardinality(S) >= n /\ n \in Nat
      <4>1. Cardinality(S) >= n - 1 + 1
        BY <1>6, <2>4
      <4>2. n - 1 + 1 = n /\ n \in Nat
        BY <1>2
      <4> QED
        BY <4>1, <4>2
    <3>2. R # S
      BY <2>1, <2>4
    <3> HIDE DEF S, R
    <3>3. IsFiniteSet(R)
      BY <1>2, <2>2, FS_Subset
    <3>4. IsFiniteSet(S) /\ Cardinality(S) <= Cardinality(R) /\ (Cardinality(R) = Cardinality(S) => R = S)
      BY <2>2, <3>3, FS_Subset
    <3>5. Cardinality(R) \in Nat /\ Cardinality(S) \in Nat
      BY <3>3, <3>4, FS_CardinalityType
    <3>6. Cardinality(R) >= n + 1
      BY <3>1, <3>2, <3>4, <3>5
    <3> QED
      BY <2>1, <2>2, <3>6 DEF R
  <2> QED
    BY <2>3, <2>4
<1> HIDE DEF P
<1>7. P(N)
  <2> SUFFICES ASSUME T # {} PROVE FALSE
    BY <1>2
  <2>1. T \subseteq Nat
    OBVIOUS
  <2> HIDE DEF T
  <2>2. PICK n \in T : \A y \in T : n <= y
    BY <2>1, LeastOf
  <2>3. n \in 0 .. N /\ ~P(n)
    BY DEF T
  <2>4. n # 0
    BY <1>5, <2>3
  <2>5. n - 1 \in 0 .. N /\ n > 0 /\ n - 1 \notin T
    BY <1>2, <2>2, <2>3, <2>4
  <2>6. P(n - 1)
    BY <2>5 DEF T
  <2> QED
    BY <1>6, <2>3, <2>5, <2>6
<1>8. f[N] \subseteq D /\ 1 \in f[N] /\ (Onto(f[N], none) = f[N] \/ Cardinality(f[N]) >= N + 1)
  BY <1>7 DEF P
<1>9. Cardinality(f[N]) <= N /\ Cardinality(f[N]) \in Nat
  BY <1>2, <1>8, FS_Subset, FS_CardinalityType
<1>10. Onto(f[N], none) = f[N]
  BY <1>2, <1>8, <1>9
<1>11. C(f[N])
  BY <1>4, <1>8, <1>10
<1> QED
  BY <1>1, <1>8, <1>11, ReachLeast DEF C, D, none

-----------------------------------------------------------------------------
(* What follows for every function body that passed validation.            *)

(* jit_wasm_jit_function never builds code into a block that nothing leads *)
(* to: an `end` whose label nothing reaches closes the enclosing label as  *)
(* well, so code that is not skipped can be reached from the entry.        *)
THEOREM CodeReachable == ASSUME Validated PROVE Spec => []CursorReachable
<1>1. TrInv /\ FlowInv => CursorReachable
  <2> SUFFICES ASSUME TrInv, FlowInv, status = "running", labels # <<>>, ~Top.terminated
               PROVE  ir.cur \in ReachableAvoiding({})
    BY DEF CursorReachable
  <2>1. 1 \in DOMAIN ir.into /\ Len(ir.into) \in Nat /\ DOMAIN ir.into = 1 .. Len(ir.into)
    BY FlowParts DEF FlowInv, EntryFirst, Blocks
  <2>2. ir.cur \in Reach(ir.into, {})
    BY DEF FlowInv, CursorReached, Running
  <2> QED
    BY <2>1, <2>2, ReachableAll
<1> QED
  BY <1>1, TranslationSound, FlowKept, PTL

(* Locals and operands that jit_wasm_jit_function keeps across blocks, and *)
(* what its branches feed into phis, are defined on every path to where    *)
(* they are used, also behind loops, dead code and the merges that         *)
(* jit_wasm_prepare_branch left without a phi.                             *)
THEOREM UsesDominated == ASSUME Validated PROVE Spec => []ValuesDominate
<1>1. TrInv /\ FlowInv => ValuesDominate
  <2> SUFFICES ASSUME TrInv, FlowInv PROVE ValuesDominate
    OBVIOUS
  <2>0. Len(ir.into) \in Nat
    BY FlowParts
  <2>1. ASSUME status = "running", labels # <<>>, ~Top.terminated,
               NEW v \in ToSet(locals) \cup UNION {{labels[i].stack[j].val : j \in DOMAIN labels[i].stack} :
                                                   i \in DOMAIN labels}
        PROVE  Dominates(DefinedIn(v), ir.cur)
    <3>1. DefinedIn(v) \in Held
      <4>1. CASE v \in ToSet(locals)
        <5>1. PICK i \in DOMAIN locals : v = locals[i]
          BY <4>1 DEF ToSet
        <5> QED
          BY <5>1 DEF Held
      <4>2. CASE v \in UNION {{labels[i].stack[j].val : j \in DOMAIN labels[i].stack} : i \in DOMAIN labels}
        <5>1. PICK i \in DOMAIN labels : v \in {labels[i].stack[j].val : j \in DOMAIN labels[i].stack}
          BY <4>2
        <5>2. PICK j \in DOMAIN labels[i].stack : v = labels[i].stack[j].val
          BY <5>1
        <5>3. DefinedIn(v) \in Stacked(i)
          BY <5>2 DEF Stacked
        <5> QED
          BY <5>3 DEF Held
      <4> QED
        BY <2>1, <4>1, <4>2
    <3>2. Dom(ir.into, DefinedIn(v), ir.cur)
      BY <2>1, <3>1 DEF FlowInv, HeldDominates, Running
    <3>3. 1 \in DOMAIN ir.into
      BY <2>1 DEF FlowInv, EntryFirst, Blocks
    <3> QED
      BY <2>0, <3>2, <3>3, DomDominates
  <2>2. ASSUME NEW v \in DOMAIN ir.phis, NEW k \in DOMAIN ir.phis[v]
        PROVE  Dominates(DefinedIn(ir.phis[v][k]), EdgesInto(DefinedIn(v))[k].src)
    <3> DEFINE b == DefinedIn(v)
    <3>1. PhisInv /\ Shape
      BY Parts
    <3>2. b \in Blocks /\ Len(ir.phis[v]) = Len(ir.into[b])
      BY <3>1 DEF PhisInv, DefinedIn
    <3>3. k \in DOMAIN ir.into[b]
      <4>1. ir.phis[v] \in Seq(Value)
        BY <3>1 DEF Shape, IsIr, IsPhis
      <4>2. DOMAIN ir.into[b] = 1 .. Len(ir.into[b])
        BY <3>2, FlowParts
      <4> HIDE DEF b
      <4> QED
        BY <3>2, <4>1, <4>2
    <3>4. v[2] \in DOMAIN ir.into[b][k].vals /\ ir.phis[v][k] = ir.into[b][k].vals[v[2]]
      BY DEF FlowInv, PhisCarried, PhiCarried, DefinedIn
    <3>5. Dom(ir.into, DefinedIn(ir.phis[v][k]), ir.into[b][k].src)
      BY <3>2, <3>3, <3>4 DEF FlowInv, CarriedDominates
    <3>6. 1 \in DOMAIN ir.into
      <4>1. Blocks = 1 .. Len(ir.into) /\ Len(ir.into) \in Nat /\ b \in Blocks
        BY <3>2, FlowParts
      <4> HIDE DEF b
      <4>2. 1 \in Blocks
        BY <4>1
      <4> QED
        BY <4>2 DEF Blocks
    <3> QED
      BY <2>0, <3>5, <3>6, DomDominates DEF EdgesInto
  <2> QED
    BY <2>1, <2>2 DEF ValuesDominate
<1> QED
  BY <1>1, TranslationSound, FlowKept, PTL

(* Under wasm's rule for br_table, that all targets take the same types,   *)
(* a branch never carries SPIDIR_VALUE_INVALID: the operand that           *)
(* jit_br_table pops for its default label is there for every target.      *)
THEOREM BranchesCarryValues == ASSUME Validated PROVE Spec => []BranchValuesDefined
<1>1. TrInv /\ FlowInv => BranchValuesDefined
  <2> SUFFICES ASSUME TrInv, FlowInv, NEW b \in Blocks, NEW e \in ToSet(EdgesInto(b)), Invalid \in ToSet(e.vals)
               PROVE  FALSE
    BY DEF BranchValuesDefined
  <2>1. PICK k \in DOMAIN ir.into[b] : e = ir.into[b][k]
    BY DEF ToSet, EdgesInto
  <2>2. PICK i \in DOMAIN e.vals : e.vals[i] = Invalid
    BY DEF ToSet
  <2>3. DefinedIn(Invalid) \in Blocks
    BY <2>1, <2>2 DEF FlowInv, CarriedDominates
  <2>4. DefinedIn(Invalid) = 0
    BY DEF DefinedIn, Invalid
  <2> QED
    BY <2>3, <2>4, FlowParts
<1> QED
  BY <1>1, TranslationSound, FlowKept, PTL

=============================================================================
