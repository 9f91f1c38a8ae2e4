----------------------------- MODULE MCCodegen -----------------------------
(* Instances of Codegen for TLC. *)
EXTENDS Codegen

NoCalls(n) == [f \in 0 .. n |-> <<>>]
NoTables(n) == [f \in 0 .. n |-> {}]

(* An imported function called by an exported one, mutual recursion, a     *)
(* function only reached through a table, twice in its segment.            *)
MCRecursive ==
  [imports |-> 1, funcs |-> 3, exports |-> <<1>>, start |-> -1, tables |-> <<3, 2>>,
   elems |-> <<[table |-> 1, offset |-> 1, funcs |-> <<3, 3>>]>>,
   calls |-> [NoCalls(3) EXCEPT ![1] = <<0, 2, 2>>, ![2] = <<1>>],
   indirect |-> [NoTables(3) EXCEPT ![2] = {1, 2}]]

(* Overlapping segments, a thunk for an import, an exported import and a   *)
(* start function.                                                         *)
MCImports ==
  [imports |-> 2, funcs |-> 1, exports |-> <<0, 2>>, start |-> 2, tables |-> <<2>>,
   elems |-> <<[table |-> 1, offset |-> 0, funcs |-> <<2, 2>>], [table |-> 1, offset |-> 1, funcs |-> <<1>>]>>,
   calls |-> [NoCalls(2) EXCEPT ![2] = <<1>>],
   indirect |-> [NoTables(2) EXCEPT ![2] = {1}]]

(* A segment longer than its table. *)
MCTooLong ==
  [imports |-> 0, funcs |-> 1, exports |-> <<0>>, start |-> -1, tables |-> <<1>>,
   elems |-> <<[table |-> 1, offset |-> 1, funcs |-> <<0>>]>>,
   calls |-> NoCalls(0), indirect |-> [NoTables(0) EXCEPT ![0] = {1}]]

(* Segments for a table that nothing uses, and for no table at all. *)
MCIdleTable ==
  [imports |-> 0, funcs |-> 2, exports |-> <<0>>, start |-> -1, tables |-> <<1>>,
   elems |-> <<[table |-> 1, offset |-> 5, funcs |-> <<1>>]>>,
   calls |-> NoCalls(1), indirect |-> NoTables(1)]

MCNoTable == [MCIdleTable EXCEPT !.tables = <<>>]

(* An import that nothing calls. *)
MCUnused ==
  [imports |-> 1, funcs |-> 1, exports |-> <<1>>, start |-> -1, tables |-> <<>>,
   elems |-> <<>>, calls |-> NoCalls(1), indirect |-> NoTables(1)]

MCModules == {MCRecursive, MCImports, MCTooLong, MCIdleTable, MCNoTable, MCUnused}

MCPools == {[size |-> 0, align |-> 1], [size |-> 4, align |-> 4], [size |-> 24, align |-> 16]}

=============================================================================
