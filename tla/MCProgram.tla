----------------------------- MODULE MCProgram -----------------------------
EXTENDS Program, TLC

Input(n, line) == [length |-> n, argv |-> line]

(* All short files for a module that is only compiled.  What the driver    *)
(* and the threads do does not depend on the contents of the module, so    *)
(* the command lines that run it, with and without a debugger, have the    *)
(* shortest files.  Then a dump file and a path given twice, none, and a   *)
(* request for help.                                                       *)
MCInputs ==
  {Input(6, <<"module_path", "jit_only">>),
   Input(2, <<"module_path">>),
   Input(1, <<"dump_file", "debug_elf_path", "gdb_jit", "module_path">>),
   Input(0, <<"module_path", "gdb_jit">>),
   Input(0, <<"dump_file", "dump_file", "module_path">>),
   Input(0, <<"debug_elf_path", "debug_elf_path">>),
   Input(0, <<"gdb_jit">>),
   Input(0, <<"module_path", "help">>)}

(* Files for a module that is only compiled. *)
MCCompiled == {Input(6, <<"module_path", "jit_only">>)}

Symmetry == Permutations(Threads)

=============================================================================
