--------------------------- MODULE Program_proofs ---------------------------
(***************************************************************************)
(* Who owns which resource of the program, for any command lines, any      *)
(* number of threads and files of any length.  A run that reaches          *)
(* undefined behaviour is followed up to there.                            *)
(*                                                                         *)
(* `held` is determined by `live` and the calls of thread-spawn: the       *)
(* blocks of a call belong to its caller until the thread exists, and to   *)
(* the thread from then on.  What main owns, it has released up to the     *)
(* line of the cleanup path that it is at.  A dump file whose handle was   *)
(* overwritten belongs to nobody.                                          *)
(***************************************************************************)
EXTENDS Program, Loader_proofs

Phases == {"args", "read", "load", "jit", "elf", "register", "runtime", "state", "run",
           "cleanup", "exited", "killed"}

MainNames == {"module_path", "debug_elf_path", "dump_file", "binary", "jit", "elf", "entry",
              "memory", "state"}

OwnerOf(r) ==
  IF r[2] \in Threads /\ spawn[r[2]].at = "prepared" THEN spawn[r[2]].by ELSE r[2]

Kept == live \ lost

HeldInv == held = {<<OwnerOf(r), r>> : r \in Kept}

LostInv == lost \subseteq live /\ \A r \in lost : r[1] = "overwritten"

LiveInv ==
  /\ LostInv
  /\ Kept \subseteq (MainNames \X {Main}) \cup ({"args", "state"} \X Threads)
  /\ \A u \in Threads :
       /\ ArgsOf(u) \in live => spawn[u].at = "prepared" \/ thread[u] = "started"
       /\ StateOf(u) \in live => spawn[u].at = "prepared" \/ thread[u] \in {"started", "running"}

Active(u) == spawn[u].at \in {"prepared", "created"}

(* A call in progress has a caller that still waits for it; all of it is   *)
(* after the guest was started.                                            *)
Late == {"run", "cleanup", "exited", "killed"}

SpawnInv ==
  /\ spawn \in [Threads -> [by : Threads \cup {Main},
                            at : {"none", "prepared", "created", "returned"}]]
  /\ thread \in [Threads -> {"none", "started", "running", "ended"}]
  /\ \A u \in Threads :
       /\ spawn[u].at \in {"none", "prepared"} => thread[u] = "none"
       /\ spawn[u].at = "created" => thread[u] # "none"
       /\ Active(u) /\ spawn[u].by \in Threads => thread[spawn[u].by] = "running"
       /\ Active(u) /\ spawn[u].by = Main => pc \in {"run", "killed"}
       /\ spawn[u].at # "none" => pc \in Late

(* The ids of the threads, and of those that may still be started. *)
Issued(u) == spawn[u].at = "prepared" \/ thread[u] # "none"

IdsInv ==
  /\ next_id \in Nat \ {0}
  /\ id \in [Threads -> Nat]
  /\ answer \in [Threads -> Int]
  /\ \A u \in Threads : Issued(u) => 0 < id[u] /\ id[u] < next_id
  /\ \A u, w \in Threads : Issued(u) /\ Issued(w) /\ u # w => id[u] # id[w]
  /\ \A u \in Threads : spawn[u].at = "returned" =>
       answer[u] = IF thread[u] = "none" THEN -1 ELSE id[u]

CleanupInv ==
  /\ pc \in Phases
  /\ cleaned \in 0 .. 10
  /\ pc \notin {"cleanup", "exited", "killed"} => cleaned = 0
  /\ pc = "exited" => cleaned >= 5
  /\ \A i \in 1 .. 10 : i <= cleaned \/ pc = "exited" => ~Has(CleanupOrder[i])

(* The ELF image is there before the entry, and the entry goes first. *)
DebuggerInv ==
  /\ listed \subseteq {"entry"}
  /\ DebuggerSound
  /\ pc = "register" => Has("elf")

(* The module is loaded in its phase, before main cleans up. *)
PhaseInv ==
  /\ pc \in {"args", "read"} => load = "idle"
  /\ load = "parsing" => pc = "load"
  /\ load = "crashed" => pc \in {"load", "killed"}

ResourceInv == HeldInv /\ LiveInv /\ SpawnInv /\ IdsInv /\ CleanupInv /\ DebuggerInv /\ PhaseInv

(* The module is freed before the path gets past its line. *)
HeapInv == cleaned >= 5 => heap = {}

-----------------------------------------------------------------------------
(* Getting and releasing.                                                  *)

LEMMA OwnerFacts ==
  ASSUME HeldInv
  PROVE  \A o, r : <<o, r>> \in held <=> r \in Kept /\ o = OwnerOf(r)
BY DEF HeldInv

(* What was lost is none of the resources that are released. *)
LEMMA LostApart ==
  ASSUME LiveInv
  PROVE  /\ \A x : x # "overwritten" => MainsOwn(x) \notin lost
         /\ \A u \in Threads : ArgsOf(u) \notin lost /\ StateOf(u) \notin lost
BY DEF LiveInv, LostInv, MainsOwn, ArgsOf, StateOf

LEMMA AcquireHolds ==
  ASSUME HeldInv, NEW o, NEW rs, Acquire(o, rs), lost' = lost, rs \cap lost = {},
         \A r \in rs : OwnerOf(r)' = o,
         \A r \in Kept : OwnerOf(r)' = OwnerOf(r)
  PROVE  HeldInv'
<1>1. Kept' = Kept \cup rs /\ held' = held \cup {<<o, r>> : r \in rs}
  BY DEF Acquire, Kept
<1>2. held = {<<OwnerOf(r), r>> : r \in Kept}
  BY DEF HeldInv
<1>3. held' = {<<OwnerOf(r)', r>> : r \in Kept'}
  <2>1. ASSUME NEW h \in held'
        PROVE  \E r \in Kept' : h = <<OwnerOf(r)', r>>
    <3>1. CASE h \in held
      BY <1>1, <1>2, <3>1
    <3>2. CASE h \in {<<o, r>> : r \in rs}
      BY <1>1, <3>2
    <3> QED  BY <1>1, <2>1, <3>1, <3>2
  <2>2. ASSUME NEW r \in Kept'
        PROVE  <<OwnerOf(r)', r>> \in held'
    <3>1. CASE r \in Kept
      <4>1. <<OwnerOf(r), r>> \in held
        BY <1>2, <3>1
      <4> QED  BY <1>1, <3>1, <4>1
    <3>2. CASE r \in rs
      BY <1>1, <3>2
    <3> QED  BY <1>1, <2>2, <3>1, <3>2
  <2> QED  BY <2>1, <2>2
<1> QED  BY <1>3 DEF HeldInv

LEMMA ReleaseFrees ==
  ASSUME HeldInv, NEW o, NEW rs, Release(o, rs), lost' = lost, rs \cap lost = {}
  PROVE  /\ \A r : r \in live' <=> r \in live /\ ~(r \in rs /\ OwnerOf(r) = o)
         /\ \A q, r : <<q, r>> \in held' <=> r \in Kept' /\ q = OwnerOf(r)
         /\ held' \subseteq held
<1> DEFINE mine == {r \in rs : <<o, r>> \in held}
<1>1. live' = live \ mine /\ held' = held \ {<<o, r>> : r \in mine}
  BY DEF Release
<1>2. \A r : r \in mine <=> r \in rs /\ r \in live /\ o = OwnerOf(r)
  <2>1. \A r \in rs : r \in Kept <=> r \in live
    BY DEF Kept
  <2> QED  BY <2>1, OwnerFacts
<1>3. \A q, r : <<q, r>> \in {<<o, s>> : s \in mine} <=> q = o /\ r \in mine
  OBVIOUS
<1> HIDE DEF mine
<1>4. \A q, r : <<q, r>> \in held' <=> <<q, r>> \in held /\ ~(q = o /\ r \in mine)
  BY <1>1, <1>3
<1>5. \A r : r \in live' <=> r \in live /\ ~(r \in rs /\ OwnerOf(r) = o)
  BY <1>1, <1>2
<1>6. \A q, r : <<q, r>> \in held' <=> r \in Kept' /\ q = OwnerOf(r)
  <2>1. \A r : r \in Kept' <=> r \in Kept /\ r \notin mine
    BY <1>1 DEF Kept
  <2> QED  BY <1>2, <1>4, <2>1, OwnerFacts
<1> QED  BY <1>1, <1>5, <1>6

LEMMA ReleaseHolds ==
  ASSUME HeldInv, NEW o, NEW rs, Release(o, rs), lost' = lost, rs \cap lost = {},
         \A r \in Kept' : OwnerOf(r)' = OwnerOf(r)
  PROVE  HeldInv'
<1>1. /\ \A q, r : <<q, r>> \in held' <=> r \in Kept' /\ q = OwnerOf(r)
      /\ held' \subseteq held
  BY ReleaseFrees
<1>2. held' = {<<OwnerOf(r)', r>> : r \in Kept'}
  <2>1. ASSUME NEW h \in held'
        PROVE  \E r \in Kept' : h = <<OwnerOf(r)', r>>
    <3>1. PICK r \in Kept : h = <<OwnerOf(r), r>>
      BY <1>1, <2>1 DEF HeldInv
    <3>2. r \in Kept'
      BY <1>1, <2>1, <3>1
    <3> QED  BY <3>1, <3>2
  <2>2. \A r \in Kept' : <<OwnerOf(r)', r>> \in held'
    BY <1>1
  <2> QED  BY <2>1, <2>2
<1> QED  BY <1>2 DEF HeldInv

(* What main has. *)
LEMMA MainOwns ==
  ASSUME HeldInv, LiveInv, NEW x, x # "overwritten"
  PROVE  /\ OwnerOf(MainsOwn(x)) = Main
         /\ <<Main, MainsOwn(x)>> \in held <=> Has(x)
<1>1. OwnerOf(MainsOwn(x)) = Main
  BY ProgramAssumption DEF OwnerOf, MainsOwn
<1>2. MainsOwn(x) \in Kept <=> MainsOwn(x) \in live
  BY LostApart DEF Kept
<1> QED  BY <1>1, <1>2, OwnerFacts DEF Has

LEMMA MainAcquires ==
  ASSUME NEW x, Acquire(Main, {MainsOwn(x)})
  PROVE  \A y : Has(y)' <=> Has(y) \/ y = x
BY DEF Acquire, Has, MainsOwn

LEMMA MainReleases ==
  ASSUME HeldInv, LiveInv, NEW x, x # "overwritten", Release(Main, {MainsOwn(x)}), lost' = lost
  PROVE  \A y : Has(y)' <=> Has(y) /\ y # x
<1>0. {MainsOwn(x)} \cap lost = {}
  BY LostApart
<1>1. \A r : r \in live' <=> r \in live /\ ~(r \in {MainsOwn(x)} /\ OwnerOf(r) = Main)
  BY <1>0, ReleaseFrees
<1>2. OwnerOf(MainsOwn(x)) = Main
  BY MainOwns
<1>3. ASSUME NEW y
      PROVE  Has(y)' <=> Has(y) /\ y # x
  <2>1. MainsOwn(y) = MainsOwn(x) <=> y = x
    BY DEF MainsOwn
  <2>2. MainsOwn(y) \in live' <=> MainsOwn(y) \in live /\ y # x
    BY <1>1, <1>2, <2>1
  <2> QED  BY <2>2 DEF Has, MainsOwn
<1> QED  BY <1>3

(* A step of main's own. *)
MainHost ==
  \/ UNCHANGED hostVars
  \/ Acquire(Main, {})
  \/ \E x \in MainNames : Acquire(Main, {MainsOwn(x)}) \/ Release(Main, {MainsOwn(x)})

LEMMA MainHostKept ==
  ASSUME HeldInv, LiveInv, MainHost, UNCHANGED threadVars, lost' = lost
  PROVE  HeldInv' /\ LiveInv'
<1>1. \A r : OwnerOf(r)' = OwnerOf(r)
  BY DEF OwnerOf, threadVars
<1>2. spawn' = spawn /\ thread' = thread
  BY DEF threadVars
<1>3. CASE UNCHANGED hostVars
  <2>1. live' = live /\ held' = held /\ Kept' = Kept
    BY <1>3 DEF hostVars, Kept
  <2>2. HeldInv'
    BY <1>1, <2>1 DEF HeldInv
  <2> QED  BY <1>2, <2>1, <2>2 DEF LiveInv, LostInv
<1>4. ASSUME NEW rs, \A r \in rs : \E x \in MainNames : r = MainsOwn(x), Acquire(Main, rs)
      PROVE  HeldInv' /\ LiveInv'
  <2>0. \A x \in MainNames : x # "overwritten"
    BY DEF MainNames
  <2>1. \A r \in rs : OwnerOf(r)' = Main
    BY <1>1, <1>4, <2>0, MainOwns
  <2>2. rs \cap lost = {}
    BY <1>4, <2>0, LostApart
  <2>3. HeldInv'
    BY <1>1, <1>4, <2>1, <2>2, AcquireHolds
  <2>4. live' = live \cup rs /\ Kept' = Kept \cup rs
    BY <1>4, <2>2 DEF Acquire, Kept
  <2>5. \A r \in rs : r \in MainNames \X {Main}
    BY <1>4 DEF MainsOwn
  <2>6. \A u \in Threads : ArgsOf(u) \notin rs /\ StateOf(u) \notin rs
    BY <2>5, ProgramAssumption DEF ArgsOf, StateOf
  <2>7. LiveInv'
    BY <1>2, <2>4, <2>5, <2>6 DEF LiveInv, LostInv, ArgsOf, StateOf
  <2> QED  BY <2>3, <2>7
<1>5. ASSUME NEW x \in MainNames, Release(Main, {MainsOwn(x)})
      PROVE  HeldInv' /\ LiveInv'
  <2>0. {MainsOwn(x)} \cap lost = {}
    BY LostApart DEF MainNames
  <2>1. HeldInv'
    BY <1>1, <1>5, <2>0, ReleaseHolds
  <2>2. live' \subseteq live /\ lost \cap live \subseteq live' /\ Kept' \subseteq Kept
    BY <1>5, <2>0 DEF Release, Kept
  <2> QED  BY <1>2, <2>1, <2>2 DEF LiveInv, LostInv, ArgsOf, StateOf
<1>6. CASE Acquire(Main, {})
  BY <1>4, <1>6
<1>7. CASE \E x \in MainNames : Acquire(Main, {MainsOwn(x)})
  BY <1>4, <1>7
<1> QED  BY <1>3, <1>5, <1>6, <1>7 DEF MainHost

-----------------------------------------------------------------------------
(* The steps of main.                                                      *)

LEMMA CleanupFacts ==
  /\ Len(CleanupOrder) = 10
  /\ \A i \in 1 .. 10 : CleanupOrder[i] = "module" <=> i = 5
  /\ \A i \in 1 .. 10 : i # 5 => CleanupOrder[i] \in MainNames
  /\ \A i \in 1 .. 10 : CleanupOrder[i] # "overwritten"
  /\ \A i \in 1 .. 10 : CleanupOrder[i] = "elf" <=> i = 2
  /\ CleanupOrder[1] = "entry" /\ CleanupOrder[2] = "elf" /\ CleanupOrder[5] = "module"
  /\ \A x \in MainNames : \E i \in 1 .. 10 : CleanupOrder[i] = x
<1>1. \A i \in 1 .. 10 : \/ i = 1 \/ i = 2 \/ i = 3 \/ i = 4 \/ i = 5
                         \/ i = 6 \/ i = 7 \/ i = 8 \/ i = 9 \/ i = 10
  OBVIOUS
<1>2. /\ CleanupOrder[1] = "entry" /\ CleanupOrder[2] = "elf" /\ CleanupOrder[3] = "memory"
      /\ CleanupOrder[4] = "jit" /\ CleanupOrder[5] = "module" /\ CleanupOrder[6] = "binary"
      /\ CleanupOrder[7] = "state" /\ CleanupOrder[8] = "module_path"
      /\ CleanupOrder[9] = "debug_elf_path" /\ CleanupOrder[10] = "dump_file"
      /\ Len(CleanupOrder) = 10
  BY DEF CleanupOrder
<1>3. \A x \in MainNames : \E i \in 1 .. 10 : CleanupOrder[i] = x
  <2>1. ASSUME NEW x \in MainNames
        PROVE  \/ x = CleanupOrder[1] \/ x = CleanupOrder[2] \/ x = CleanupOrder[3]
               \/ x = CleanupOrder[4] \/ x = CleanupOrder[6] \/ x = CleanupOrder[7]
               \/ x = CleanupOrder[8] \/ x = CleanupOrder[9] \/ x = CleanupOrder[10]
    BY <1>2 DEF MainNames
  <2>2. \A i \in {1, 2, 3, 4, 6, 7, 8, 9, 10} : i \in 1 .. 10
    OBVIOUS
  <2> QED  BY <2>1, <2>2
<1> QED  BY <1>1, <1>2, <1>3 DEF MainNames

(* The threads do not notice. *)
LEMMA MainStepThreads ==
  ASSUME SpawnInv, IdsInv, UNCHANGED threadVars,
         pc' \in {"run", "killed"} \/ pc \notin {"run", "killed"} \/ ~InSpawn(Main),
         pc \in Late => pc' \in Late
  PROVE  SpawnInv' /\ IdsInv'
<1>1. /\ spawn' = spawn /\ thread' = thread /\ id' = id /\ answer' = answer
      /\ next_id' = next_id
  BY DEF threadVars
<1>2. \A u \in Threads : Active(u) /\ spawn[u].by = Main => pc' \in {"run", "killed"}
  BY DEF SpawnInv, InSpawn, Active
<1>3. SpawnInv'
  BY <1>1, <1>2 DEF SpawnInv, Active
<1>4. IdsInv'
  BY <1>1 DEF IdsInv, Issued
<1> QED  BY <1>3, <1>4

(* A phase before the cleanup path. *)
LEMMA EarlyStep ==
  ASSUME ResourceInv, pc \notin {"cleanup", "exited", "killed"},
         UNCHANGED threadVars, MainHost, cleaned' = cleaned, lost' = lost,
         pc' \in Phases \ {"exited"},
         pc = "run" => pc' = "cleanup" /\ ~InSpawn(Main),
         DebuggerInv', PhaseInv'
  PROVE  ResourceInv'
<1>1. HeldInv' /\ LiveInv'
  BY MainHostKept DEF ResourceInv
<1>2. SpawnInv' /\ IdsInv'
  BY MainStepThreads DEF ResourceInv, Late
<1>3. CleanupInv'
  <2>1. cleaned = 0
    BY DEF ResourceInv, CleanupInv
  <2> QED  BY <2>1 DEF CleanupInv
<1> QED  BY <1>1, <1>2, <1>3 DEF ResourceInv

(* What main gets or releases leaves the debugger's view alone. *)
LEMMA DebuggerKept ==
  ASSUME HeldInv, LiveInv, DebuggerInv, listed' = listed, lost' = lost,
         \/ UNCHANGED hostVars
         \/ Acquire(Main, {})
         \/ \E x \in MainNames : Acquire(Main, {MainsOwn(x)})
         \/ \E x \in MainNames \ {"entry", "elf"} : Release(Main, {MainsOwn(x)}),
         pc' # "register" \/ pc = "register"
  PROVE  DebuggerInv'
<1>1. \A y \in {"entry", "elf"} : Has(y) => Has(y)'
  <2>1. CASE UNCHANGED hostVars
    BY <2>1 DEF hostVars, Has
  <2>2. CASE Acquire(Main, {})
    BY <2>2 DEF Acquire, Has
  <2>3. CASE \E x \in MainNames : Acquire(Main, {MainsOwn(x)})
    BY <2>3, MainAcquires
  <2>4. CASE \E x \in MainNames \ {"entry", "elf"} : Release(Main, {MainsOwn(x)})
    BY <2>4, MainReleases DEF MainNames
  <2> QED  BY <2>1, <2>2, <2>3, <2>4
<1>2. /\ Has("entry") => Has("entry")'
      /\ Has("elf") => Has("elf")'
  BY <1>1
<1> QED  BY <1>2 DEF DebuggerInv, DebuggerSound, Has

(* The handle of a second dump file takes the place of the first; when the *)
(* second cannot be opened, main is left with none.                        *)
LEMMA HandleOverwritten ==
  ASSUME ResourceInv, pc = "args", pc' \in {"args", "cleanup"},
         UNCHANGED loaderVars, UNCHANGED threadVars, listed' = listed, cleaned' = cleaned,
         lost' = lost \cup {Overwritten},
         \/ live' = live \cup {Overwritten} /\ held' = held
         \/ /\ live' = (live \ {MainsOwn("dump_file")}) \cup {Overwritten}
            /\ held' = held \ {<<Main, MainsOwn("dump_file")>>}
  PROVE  ResourceInv'
<1> DEFINE d == MainsOwn("dump_file")
<1>0. HeldInv /\ LiveInv /\ SpawnInv /\ IdsInv /\ CleanupInv /\ DebuggerInv /\ PhaseInv
  BY DEF ResourceInv
<1>1. spawn' = spawn /\ thread' = thread /\ \A r : OwnerOf(r)' = OwnerOf(r)
  BY DEF threadVars, OwnerOf
<1>2. Overwritten[1] = "overwritten" /\ d[1] = "dump_file" /\ d \notin lost
  BY <1>0, LostApart DEF Overwritten, MainsOwn
<1>3. Overwritten \notin Kept /\ Overwritten # d
  BY <1>0, <1>2 DEF LiveInv, MainNames
<1>4. \/ Kept' = Kept /\ held' = held
      \/ Kept' = Kept \ {d} /\ held' = held \ {<<Main, d>>}
  BY <1>2, <1>3 DEF Kept
<1>5. HeldInv'
  <2>1. OwnerOf(d) = Main
    BY <1>0, MainOwns
  <2>2. held = {<<OwnerOf(r), r>> : r \in Kept}
    BY <1>0 DEF HeldInv
  <2> HIDE DEF d
  <2>3. held' = {<<OwnerOf(r), r>> : r \in Kept'}
    BY <1>4, <2>1, <2>2
  <2> QED  BY <1>1, <2>3 DEF HeldInv
<1>6. LiveInv'
  <2>1. LostInv'
    BY <1>0, <1>2 DEF LiveInv, LostInv
  <2>2. Kept' \subseteq Kept
    BY <1>4
  <2>3. \A u \in Threads : /\ ArgsOf(u) \in live' => ArgsOf(u) \in live
                           /\ StateOf(u) \in live' => StateOf(u) \in live
    BY <1>2 DEF ArgsOf, StateOf
  <2> QED  BY <1>0, <1>1, <2>1, <2>2, <2>3 DEF LiveInv, ArgsOf, StateOf
<1>7. SpawnInv' /\ IdsInv'
  BY <1>0, MainStepThreads DEF Late
<1>8. CleanupInv'
  <2>1. cleaned = 0
    BY <1>0 DEF CleanupInv
  <2> QED  BY <2>1 DEF CleanupInv, Phases
<1>9. DebuggerInv'
  <2>1. \A y : y # "dump_file" /\ MainsOwn(y) \in live => MainsOwn(y) \in live'
    BY DEF MainsOwn
  <2>2. /\ Has("entry") => Has("entry")'
        /\ Has("elf") => Has("elf")'
    BY <2>1 DEF Has, MainsOwn
  <2> QED  BY <1>0, <2>2 DEF DebuggerInv, DebuggerSound, Has
<1>10. PhaseInv'
  BY <1>0 DEF PhaseInv, loaderVars
<1> QED  BY <1>5, <1>6, <1>7, <1>8, <1>9, <1>10 DEF ResourceInv

LEMMA DriverResources ==
  ASSUME ResourceInv,
         \/ ParseOption \/ ParseEnds \/ ReadFile \/ Load \/ LoadEnds \/ Jit
         \/ EmitDebugElf \/ Register \/ RuntimeInit \/ AllocState \/ RunReturns
         \/ DumpFails \/ Fails
  PROVE  ResourceInv'
<1>0. HeldInv /\ LiveInv /\ DebuggerInv /\ PhaseInv
  BY DEF ResourceInv
<1>1. CASE ParseOption
  <2>1. /\ pc = "args" /\ pc' = pc /\ UNCHANGED loaderVars /\ UNCHANGED threadVars
        /\ listed' = listed /\ cleaned' = cleaned
    BY <1>1 DEF ParseOption
  <2>2. \/ /\ UNCHANGED hostVars \/ \E x \in MainNames : Acquire(Main, {MainsOwn(x)})
           /\ lost' = lost
        \/ /\ live' = live \cup {Overwritten} /\ lost' = lost \cup {Overwritten}
           /\ held' = held
    BY <1>1 DEF ParseOption, MainNames
  <2>3. CASE lost' = lost /\ (UNCHANGED hostVars \/ \E x \in MainNames : Acquire(Main, {MainsOwn(x)}))
    <3>1. DebuggerInv'
      BY <1>0, <2>1, <2>3, DebuggerKept
    <3>2. PhaseInv'
      BY <1>0, <2>1 DEF PhaseInv, loaderVars
    <3> QED  BY <2>1, <2>3, <3>1, <3>2, EarlyStep DEF MainHost, Phases
  <2>4. CASE /\ live' = live \cup {Overwritten} /\ lost' = lost \cup {Overwritten}
             /\ held' = held
    BY <2>1, <2>4, HandleOverwritten
  <2> QED  BY <2>2, <2>3, <2>4
<1>2. CASE ParseEnds
  <2>1. /\ pc = "args" /\ pc' \in {"cleanup", "read"} /\ UNCHANGED loaderVars
        /\ UNCHANGED threadVars /\ UNCHANGED hostVars
        /\ listed' = listed /\ cleaned' = cleaned /\ lost' = lost
    BY <1>2 DEF ParseEnds, Goto, driverVars
  <2>2. DebuggerInv'
    BY <1>0, <2>1, DebuggerKept
  <2>3. PhaseInv'
    BY <1>0, <2>1 DEF PhaseInv, loaderVars
  <2> QED  BY <2>1, <2>2, <2>3, EarlyStep DEF MainHost, Phases
<1>3. CASE ReadFile
  <2>1. /\ pc = "read" /\ pc' = "load" /\ UNCHANGED loaderVars /\ UNCHANGED threadVars
        /\ listed' = listed /\ cleaned' = cleaned /\ lost' = lost
        /\ \E x \in MainNames : Acquire(Main, {MainsOwn(x)})
    BY <1>3 DEF ReadFile, Goto, driverVars, MainNames
  <2>2. DebuggerInv'
    BY <1>0, <2>1, DebuggerKept
  <2>3. PhaseInv'
    BY <1>0, <2>1 DEF PhaseInv, loaderVars
  <2> QED  BY <2>1, <2>2, <2>3, EarlyStep DEF MainHost, Phases
<1>4. CASE Load
  <2>1. /\ pc = "load" /\ pc' = pc /\ UNCHANGED threadVars /\ UNCHANGED hostVars
        /\ listed' = listed /\ cleaned' = cleaned /\ lost' = lost
    BY <1>4 DEF Load, driverVars
  <2>2. DebuggerInv'
    BY <1>0, <2>1, DebuggerKept
  <2>3. PhaseInv'
    BY <2>1 DEF PhaseInv
  <2> QED  BY <2>1, <2>2, <2>3, EarlyStep DEF MainHost, Phases
<1>5. CASE LoadEnds
  <2>1. /\ pc = "load" /\ UNCHANGED loaderVars
        /\ \/ pc' \in {"cleanup", "jit"} /\ load \in {"failed", "ok"}
           \/ pc' = "killed" /\ load = "crashed"
        /\ UNCHANGED threadVars /\ listed' = listed /\ cleaned' = cleaned /\ lost' = lost
    BY <1>5 DEF LoadEnds, Goto, driverVars
  <2>2. \/ UNCHANGED hostVars
        \/ \E x \in MainNames \ {"entry", "elf"} : Release(Main, {MainsOwn(x)})
    BY <1>5 DEF LoadEnds, BinaryFreed, MainNames
  <2>3. DebuggerInv'
    BY <1>0, <2>1, <2>2, DebuggerKept
  <2>4. PhaseInv'
    BY <2>1 DEF PhaseInv, loaderVars
  <2> QED  BY <2>1, <2>2, <2>3, <2>4, EarlyStep DEF MainHost, Phases
<1>6. CASE Jit
  <2>1. /\ pc = "jit" /\ pc' \in {"elf", "runtime", "cleanup"} /\ UNCHANGED loaderVars
        /\ UNCHANGED threadVars /\ listed' = listed /\ cleaned' = cleaned /\ lost' = lost
    BY <1>6 DEF Jit, Goto
  <2>2. UNCHANGED hostVars \/ \E x \in MainNames : Acquire(Main, {MainsOwn(x)})
    BY <1>6 DEF Jit, MainNames
  <2>3. DebuggerInv'
    BY <1>0, <2>1, <2>2, DebuggerKept
  <2>4. PhaseInv'
    BY <1>0, <2>1 DEF PhaseInv, loaderVars
  <2> QED  BY <2>1, <2>2, <2>3, <2>4, EarlyStep DEF MainHost, Phases
<1>7. CASE EmitDebugElf
  <2>1. /\ pc = "elf" /\ pc' \in {"register", "runtime", "cleanup"} /\ UNCHANGED loaderVars
        /\ UNCHANGED threadVars /\ listed' = listed /\ cleaned' = cleaned /\ lost' = lost
        /\ Acquire(Main, {MainsOwn("elf")})
    BY <1>7 DEF EmitDebugElf, Goto, driverVars
  <2>2. \A y : Has(y)' <=> Has(y) \/ y = "elf"
    BY <2>1, MainAcquires
  <2>3. Has("elf")' /\ (Has("entry") => Has("entry")')
    BY <2>2
  <2>4. DebuggerInv'
    BY <1>0, <2>1, <2>3 DEF DebuggerInv, DebuggerSound, Has
  <2>5. PhaseInv'
    BY <1>0, <2>1 DEF PhaseInv, loaderVars
  <2> QED  BY <2>1, <2>4, <2>5, EarlyStep DEF MainHost, Phases, MainNames
<1>8. CASE Register
  <2>1. /\ pc = "register" /\ pc' = "runtime" /\ UNCHANGED loaderVars
        /\ UNCHANGED threadVars /\ listed' = listed \cup {"entry"} /\ cleaned' = cleaned /\ lost' = lost
        /\ Acquire(Main, {MainsOwn("entry")})
    BY <1>8 DEF Register, Goto
  <2>2. \A y : Has(y)' <=> Has(y) \/ y = "entry"
    BY <2>1, MainAcquires
  <2>3. Has("elf") => Has("elf")'
    BY <2>2
  <2>4. Has("entry")'
    BY <2>2
  <2>5. DebuggerInv'
    BY <1>0, <2>1, <2>3, <2>4 DEF DebuggerInv, DebuggerSound, Has
  <2>6. PhaseInv'
    BY <1>0, <2>1 DEF PhaseInv, loaderVars
  <2> QED  BY <2>1, <2>5, <2>6, EarlyStep DEF MainHost, Phases, MainNames
<1>9. CASE RuntimeInit
  <2>1. /\ pc = "runtime" /\ pc' \in {"state", "cleanup"} /\ UNCHANGED loaderVars
        /\ UNCHANGED threadVars /\ listed' = listed /\ cleaned' = cleaned /\ lost' = lost
        /\ \E x \in MainNames : Acquire(Main, {MainsOwn(x)})
    BY <1>9 DEF RuntimeInit, Goto, driverVars, MainNames
  <2>2. DebuggerInv'
    BY <1>0, <2>1, DebuggerKept
  <2>3. PhaseInv'
    BY <1>0, <2>1 DEF PhaseInv, loaderVars
  <2> QED  BY <2>1, <2>2, <2>3, EarlyStep DEF MainHost, Phases
<1>10. CASE AllocState
  <2>1. /\ pc = "state" /\ pc' \in {"cleanup", "run"} /\ UNCHANGED loaderVars
        /\ UNCHANGED threadVars /\ listed' = listed /\ cleaned' = cleaned /\ lost' = lost
        /\ Acquire(Main, {}) \/ \E x \in MainNames : Acquire(Main, {MainsOwn(x)})
    BY <1>10 DEF AllocState, StateBuffer, Goto, driverVars, MainNames
  <2>2. DebuggerInv'
    BY <1>0, <2>1, DebuggerKept
  <2>3. PhaseInv'
    BY <1>0, <2>1 DEF PhaseInv, loaderVars
  <2> QED  BY <2>1, <2>2, <2>3, EarlyStep DEF MainHost, Phases
<1>11. CASE RunReturns
  <2>1. /\ pc = "run" /\ pc' = "cleanup" /\ UNCHANGED loaderVars /\ ~InSpawn(Main)
        /\ UNCHANGED threadVars /\ UNCHANGED hostVars
        /\ listed' = listed /\ cleaned' = cleaned /\ lost' = lost
    BY <1>11 DEF RunReturns, Goto, driverVars
  <2>2. DebuggerInv'
    BY <1>0, <2>1, DebuggerKept
  <2>3. PhaseInv'
    BY <1>0, <2>1 DEF PhaseInv, loaderVars
  <2> QED  BY <2>1, <2>2, <2>3, EarlyStep DEF MainHost, Phases
<1>12. CASE Fails
  <2>1. /\ pc \in {"args", "read", "elf", "register", "runtime", "state"} /\ pc' = "cleanup"
        /\ UNCHANGED loaderVars /\ UNCHANGED threadVars /\ UNCHANGED hostVars
        /\ listed' = listed /\ cleaned' = cleaned /\ lost' = lost
    BY <1>12 DEF Fails, Goto, driverVars
  <2>2. DebuggerInv'
    BY <1>0, <2>1, DebuggerKept
  <2>3. PhaseInv'
    BY <1>0, <2>1 DEF PhaseInv, loaderVars
  <2> QED  BY <2>1, <2>2, <2>3, EarlyStep DEF MainHost, Phases
<1>13. CASE DumpFails
  <2>1. /\ pc = "args" /\ pc' = "cleanup" /\ UNCHANGED loaderVars /\ UNCHANGED threadVars
        /\ listed' = listed /\ cleaned' = cleaned
        /\ live' = (live \ {MainsOwn("dump_file")}) \cup {Overwritten}
        /\ held' = held \ {<<Main, MainsOwn("dump_file")>>}
        /\ lost' = lost \cup {Overwritten}
    BY <1>13 DEF DumpFails, Goto
  <2> QED  BY <2>1, HandleOverwritten
<1> QED  BY <1>1, <1>2, <1>3, <1>4, <1>5, <1>6, <1>7, <1>8, <1>9, <1>10, <1>11, <1>12, <1>13

(* A line of the cleanup path: the lines before it have nothing left. *)
LEMMA CleanupResources ==
  ASSUME ResourceInv, Cleanup
  PROVE  ResourceInv'
<1>1. /\ pc = "cleanup" /\ pc' = pc /\ UNCHANGED threadVars
      /\ load' = load /\ lost' = lost
  BY DEF Cleanup
<1>2. PICK i \in ToDo :
        /\ \A j \in ToDo : i <= j
        /\ cleaned' = i
        /\ \/ /\ CleanupOrder[i] = "module"
              /\ UNCHANGED <<hostVars, listed>>
           \/ /\ CleanupOrder[i] # "module"
              /\ Release(Main, {MainsOwn(CleanupOrder[i])})
              /\ listed' = listed \ {CleanupOrder[i]}
  BY DEF Cleanup, IsNext
<1>3. HeldInv /\ LiveInv /\ cleaned \in 0 .. 10
  BY DEF ResourceInv, CleanupInv
<1>4. i \in 1 .. 10 /\ i > cleaned
  BY <1>2, <1>3, CleanupFacts DEF ToDo
<1>5. ~Has("module")
  BY <1>3, LostApart, ProgramAssumption DEF LiveInv, Kept, Has, MainsOwn, MainNames
<1>6. MainHost
  BY <1>2, <1>4, CleanupFacts DEF MainHost
<1>7. HeldInv' /\ LiveInv'
  BY <1>1, <1>3, <1>6, MainHostKept
<1>8. SpawnInv' /\ IdsInv'
  BY <1>1, MainStepThreads DEF ResourceInv, Late
<1>9. \A y : Has(y)' <=> Has(y) /\ y # CleanupOrder[i]
  <2>1. CASE CleanupOrder[i] = "module"
    <3>1. \A y : Has(y)' <=> Has(y)
      BY <1>2, <2>1 DEF hostVars, Has
    <3> QED  BY <1>5, <2>1, <3>1
  <2>2. CASE CleanupOrder[i] # "module"
    BY <1>1, <1>2, <1>3, <1>4, <2>2, MainReleases, CleanupFacts
  <2> QED  BY <2>1, <2>2
<1>10. \A j \in 1 .. 10 : j < i => ~Has(CleanupOrder[j])
  <2> SUFFICES ASSUME NEW j \in 1 .. 10, j < i
               PROVE  ~Has(CleanupOrder[j])
    OBVIOUS
  <2>1. CASE j <= cleaned
    BY <2>1 DEF ResourceInv, CleanupInv
  <2>2. CASE j > cleaned
    <3>1. j \notin ToDo
      BY <1>2, <1>4
    <3>2. j \in cleaned + 1 .. Len(CleanupOrder)
      BY <1>3, <2>2, CleanupFacts
    <3>3. ~Due(j)
      BY <3>1, <3>2 DEF ToDo
    <3> QED  BY <1>3, <3>3, MainOwns, CleanupFacts DEF Due
  <2> QED  BY <1>3, <2>1, <2>2
<1>11. CleanupInv'
  <2>1. ASSUME NEW j \in 1 .. 10, j <= i
        PROVE  ~Has(CleanupOrder[j])'
    <3>0. ASSUME NEW y, y = CleanupOrder[j]
          PROVE  ~Has(y)'
      <4>1. CASE j = i
        BY <1>9, <3>0, <4>1
      <4>2. CASE j < i
        BY <1>9, <1>10, <3>0, <4>2
      <4> QED  BY <1>4, <2>1, <4>1, <4>2
    <3> QED  BY <3>0 DEF CleanupOrder
  <2> QED  BY <1>1, <1>2, <1>4, <2>1 DEF CleanupInv, Phases
<1>12. DebuggerInv'
  <2>1. listed' = listed \ {CleanupOrder[i]}
    <3>1. CASE CleanupOrder[i] = "module"
      BY <1>2, <3>1 DEF ResourceInv, DebuggerInv
    <3> QED  BY <1>2, <3>1
  <2>2. ASSUME "entry" \in listed'
        PROVE  Has("entry")' /\ Has("elf")'
    <3>1. Has("entry") /\ Has("elf") /\ CleanupOrder[i] # "entry"
      BY <2>1, <2>2 DEF ResourceInv, DebuggerInv, DebuggerSound
    <3>2. i # 2
      <4>1. i > 1 => ~Has(CleanupOrder[1])
        BY <1>10
      <4> QED  BY <3>1, <4>1, CleanupFacts
    <3>3. CleanupOrder[i] # "elf"
      BY <1>4, <3>2, CleanupFacts
    <3>4. Has("entry")'
      BY <1>9, <3>1
    <3>5. Has("elf")'
      BY <1>9, <3>1, <3>3
    <3> QED  BY <3>4, <3>5
  <2> QED  BY <1>1, <2>1, <2>2 DEF ResourceInv, DebuggerInv, DebuggerSound, Has
<1>13. PhaseInv'
  BY <1>1 DEF ResourceInv, PhaseInv
<1> QED  BY <1>7, <1>8, <1>11, <1>12, <1>13 DEF ResourceInv

LEMMA ReturnResources ==
  ASSUME ResourceInv, Return
  PROVE  ResourceInv'
<1>1. /\ pc = "cleanup" /\ pc' = "exited" /\ ToDo = {}
      /\ UNCHANGED loaderVars /\ UNCHANGED threadVars /\ UNCHANGED hostVars
      /\ listed' = listed /\ cleaned' = cleaned /\ lost' = lost
  BY DEF Return, Goto, driverVars
<1>2. HeldInv /\ LiveInv /\ cleaned \in 0 .. 10
  BY DEF ResourceInv, CleanupInv
<1>3. HeldInv' /\ LiveInv'
  BY <1>1, <1>2, MainHostKept DEF MainHost
<1>4. SpawnInv' /\ IdsInv'
  BY <1>1, MainStepThreads DEF ResourceInv, Late
<1>5. \A i \in 1 .. 10 : i <= cleaned \/ ~Due(i)
  BY <1>1, <1>2, CleanupFacts DEF ToDo
<1>6. cleaned >= 5
  BY <1>2, <1>5, CleanupFacts DEF Due
<1>7. \A i \in 1 .. 10 : ~Has(CleanupOrder[i])
  <2> SUFFICES ASSUME NEW i \in 1 .. 10
               PROVE  ~Has(CleanupOrder[i])
    OBVIOUS
  <2>1. CASE i <= cleaned
    BY <2>1 DEF ResourceInv, CleanupInv
  <2>2. CASE ~Due(i)
    BY <1>2, <2>2, MainOwns, CleanupFacts DEF Due
  <2> QED  BY <1>5, <2>1, <2>2
<1>8. \A y : Has(y)' <=> Has(y)
  BY <1>1 DEF hostVars, Has
<1>9. CleanupInv'
  <2>1. \A i \in 1 .. 10 : ~Has(CleanupOrder[i])'
    BY <1>1, <1>7 DEF Has, hostVars, CleanupOrder
  <2> QED  BY <1>1, <1>2, <1>6, <2>1 DEF CleanupInv, Phases
<1>10. DebuggerInv'
  BY <1>1, <1>2, DebuggerKept DEF ResourceInv
<1>11. PhaseInv'
  BY <1>1 DEF ResourceInv, PhaseInv, loaderVars
<1> QED  BY <1>3, <1>4, <1>9, <1>10, <1>11 DEF ResourceInv

-----------------------------------------------------------------------------
(* The steps of the threads.                                               *)

(* They are not seen in main's variables. *)
LEMMA ThreadsApart ==
  ASSUME ResourceInv, UNCHANGED loaderVars, UNCHANGED driverVars,
         pc' = pc \/ (pc \in {"jit", "elf", "run", "cleanup"} /\ pc' = "killed"),
         \A r \in MainNames \X {Main} : r \in live' <=> r \in live,
         LiveInv'
  PROVE  CleanupInv' /\ DebuggerInv' /\ PhaseInv'
<1>1. /\ listed' = listed /\ cleaned' = cleaned /\ load' = load /\ lost' = lost
  BY DEF driverVars, loaderVars
<1>2. \A x : x # "overwritten" => (Has(x)' <=> Has(x))
  <2> SUFFICES ASSUME NEW x, x # "overwritten"
               PROVE  MainsOwn(x) \in live' <=> MainsOwn(x) \in live
    BY DEF Has, MainsOwn
  <2>1. CASE x \in MainNames
    BY <2>1 DEF MainsOwn
  <2>2. CASE x \notin MainNames
    BY <1>1, <2>2, ProgramAssumption DEF MainsOwn, LiveInv, LostInv, Kept, ResourceInv
  <2> QED  BY <2>1, <2>2
<1>3. DebuggerInv'
  <2>1. /\ Has("entry")' <=> Has("entry")
        /\ Has("elf")' <=> Has("elf")
    BY <1>2
  <2> QED  BY <1>1, <2>1 DEF ResourceInv, DebuggerInv, DebuggerSound, Has
<1>4. PhaseInv'
  BY <1>1 DEF ResourceInv, PhaseInv
<1>5. CleanupInv'
  <2>1. ASSUME NEW i \in 1 .. 10, ~Has(CleanupOrder[i])
        PROVE  ~Has(CleanupOrder[i])'
    <3>1. ASSUME NEW x, x = CleanupOrder[i]
          PROVE  ~Has(x)'
      BY <1>2, <2>1, <3>1, CleanupFacts
    <3> QED  BY <3>1 DEF CleanupOrder
  <2> QED  BY <1>1, <2>1 DEF ResourceInv, CleanupInv, Phases
<1> QED  BY <1>3, <1>4, <1>5

(* The blocks of a call. *)
LEMMA CallBlocks ==
  ASSUME NEW u \in Threads
  PROVE  /\ ArgsOf(u)[2] = u /\ StateOf(u)[2] = u /\ ArgsOf(u) # StateOf(u)
         /\ \A r \in MainNames \X {Main} : r # ArgsOf(u) /\ r # StateOf(u) /\ r[2] # u
         /\ \A w \in Threads : w # u => /\ ArgsOf(w) \notin {ArgsOf(u), StateOf(u)}
                                        /\ StateOf(w) \notin {ArgsOf(u), StateOf(u)}
         /\ {ArgsOf(u), StateOf(u)} \subseteq {"args", "state"} \X Threads
BY ProgramAssumption DEF ArgsOf, StateOf

LEMMA LiveCases ==
  ASSUME LiveInv, NEW r \in Kept, NEW u \in Threads, r[2] = u
  PROVE  r \in {ArgsOf(u), StateOf(u)}
BY ProgramAssumption DEF LiveInv, ArgsOf, StateOf

(* The guest that runs in a thread was started, so main is past loading. *)
LEMMA GuestFacts ==
  ASSUME SpawnInv, CleanupInv, NEW t \in Threads \cup {Main}, InGuest(t)
  PROVE  /\ pc \in {"run", "cleanup"}
         /\ ~InSpawn(t)
         /\ t = Main => pc = "run"
         /\ t \in Threads => thread[t] = "running"
<1>1. CASE t = Main
  BY <1>1, ProgramAssumption DEF InGuest
<1>2. CASE t \in Threads
  <2>1. thread[t] = "running" /\ pc \notin {"exited", "killed"} /\ ~InSpawn(t)
    BY <1>2, ProgramAssumption DEF InGuest, Running
  <2>2. spawn[t].at # "none"
    BY <1>2, <2>1 DEF SpawnInv
  <2> QED  BY <1>2, <2>1, <2>2, ProgramAssumption DEF SpawnInv, Late
<1> QED  BY <1>1, <1>2

(* The process ends as it is. *)
LEMMA KilledResources ==
  ASSUME ResourceInv, pc \in {"jit", "elf", "run", "cleanup"}, pc' = "killed",
         UNCHANGED loaderVars, UNCHANGED hostVars, UNCHANGED threadVars, UNCHANGED driverVars
  PROVE  ResourceInv'
<1>1. lost' = lost
  BY DEF driverVars
<1>2. HeldInv' /\ LiveInv'
  BY <1>1, MainHostKept DEF MainHost, ResourceInv
<1>3. SpawnInv' /\ IdsInv'
  BY MainStepThreads DEF ResourceInv, Late
<1>4. CleanupInv' /\ DebuggerInv' /\ PhaseInv'
  BY <1>2, ThreadsApart DEF hostVars
<1> QED  BY <1>2, <1>3, <1>4 DEF ResourceInv

LEMMA NamesOverrunResources ==
  ASSUME ResourceInv, NamesOverrun
  PROVE  ResourceInv'
BY KilledResources DEF NamesOverrun, Goto

LEMMA ProcExitResources ==
  ASSUME ResourceInv, NEW t \in Threads \cup {Main}, ProcExit(t)
  PROVE  ResourceInv'
<1>1. pc \in {"run", "cleanup"}
  BY GuestFacts DEF ProcExit, ResourceInv
<1> QED  BY <1>1, KilledResources DEF ProcExit, Goto

LEMMA SpawnPreparesResources ==
  ASSUME ResourceInv, NEW t \in Threads \cup {Main}, NEW u \in Threads, SpawnPrepares(t, u)
  PROVE  ResourceInv'
<1> DEFINE rs == StateBuffer(StateOf(u)) \cup {ArgsOf(u)}
<1>1. /\ UNCHANGED loaderVars /\ UNCHANGED driverVars /\ pc' = pc
      /\ spawn[u].at = "none"
      /\ spawn' = [spawn EXCEPT ![u] = [by |-> t, at |-> "prepared"]]
      /\ Acquire(t, rs)
      /\ id' = [id EXCEPT ![u] = next_id] /\ next_id' = next_id + 1
      /\ thread' = thread /\ answer' = answer /\ lost' = lost
  BY DEF SpawnPrepares, NextId, driverVars
<1>2. /\ HeldInv /\ LiveInv /\ SpawnInv /\ IdsInv /\ CleanupInv
  BY DEF ResourceInv
<1>3. /\ t = Main => pc = "run"
      /\ pc \in {"run", "cleanup"}
      /\ t \in Threads => thread[t] = "running"
  BY <1>2, GuestFacts DEF SpawnPrepares
<1>4. /\ spawn'[u] = [by |-> t, at |-> "prepared"]
      /\ \A w \in Threads : w # u => spawn'[w] = spawn[w]
      /\ thread[u] = "none"
  BY <1>1, <1>2 DEF SpawnInv
<1>5. rs \subseteq {ArgsOf(u), StateOf(u)} /\ live' = live \cup rs
  BY <1>1 DEF StateBuffer, Acquire
<1>6. ArgsOf(u) \notin live /\ StateOf(u) \notin live /\ rs \cap lost = {}
  BY <1>1, <1>2, <1>4, <1>5, LostApart DEF LiveInv
<1>7. HeldInv'
  <2>1. \A r \in rs : OwnerOf(r)' = t
    BY <1>4, <1>5, CallBlocks DEF OwnerOf
  <2>2. \A r \in Kept : OwnerOf(r)' = OwnerOf(r)
    <3> SUFFICES ASSUME NEW r \in Kept
                 PROVE  OwnerOf(r)' = OwnerOf(r)
      OBVIOUS
    <3>1. r[2] # u
      BY <1>2, <1>6, LiveCases DEF Kept
    <3> QED  BY <1>4, <3>1 DEF OwnerOf
  <2> HIDE DEF rs
  <2> QED  BY <1>1, <1>2, <1>6, <2>1, <2>2, AcquireHolds
<1>8. LiveInv'
  <2>1. /\ Kept' \subseteq (MainNames \X {Main}) \cup ({"args", "state"} \X Threads)
        /\ LostInv'
    BY <1>1, <1>2, <1>5, CallBlocks DEF LiveInv, LostInv, Kept
  <2>2. ASSUME NEW w \in Threads
        PROVE  /\ ArgsOf(w) \in live' => spawn'[w].at = "prepared" \/ thread'[w] = "started"
               /\ StateOf(w) \in live' =>
                    spawn'[w].at = "prepared" \/ thread'[w] \in {"started", "running"}
    <3>1. CASE w = u
      BY <1>4, <3>1
    <3>2. CASE w # u
      <4>1. ArgsOf(w) \notin rs /\ StateOf(w) \notin rs
        BY <1>5, <3>2, CallBlocks
      <4> QED  BY <1>1, <1>2, <1>4, <1>5, <3>2, <4>1 DEF LiveInv
    <3> QED  BY <3>1, <3>2
  <2> QED  BY <2>1, <2>2 DEF LiveInv, ArgsOf, StateOf
<1>9. SpawnInv'
  <2>1. spawn' \in [Threads -> [by : Threads \cup {Main},
                                at : {"none", "prepared", "created", "returned"}]]
    BY <1>1, <1>2 DEF SpawnInv
  <2>2. ASSUME NEW w \in Threads
        PROVE  /\ spawn'[w].at \in {"none", "prepared"} => thread[w] = "none"
               /\ spawn'[w].at = "created" => thread[w] # "none"
               /\ spawn'[w].at \in {"prepared", "created"} /\ spawn'[w].by \in Threads =>
                    thread[spawn'[w].by] = "running"
               /\ spawn'[w].at \in {"prepared", "created"} /\ spawn'[w].by = Main =>
                    pc \in {"run", "killed"}
               /\ spawn'[w].at # "none" => pc \in Late
    <3>1. CASE w = u
      BY <1>3, <1>4, <3>1 DEF Late
    <3>2. CASE w # u
      BY <1>2, <1>4, <3>2 DEF SpawnInv, Active
    <3> QED  BY <3>1, <3>2
  <2> QED  BY <1>1, <1>2, <2>1, <2>2 DEF SpawnInv, Active
<1>10. IdsInv'
  <2>1. /\ next_id \in Nat \ {0} /\ id \in [Threads -> Nat]
    BY <1>2 DEF IdsInv
  <2>2. next_id' \in Nat \ {0} /\ id' \in [Threads -> Nat]
    BY <1>1, <2>1
  <2>3. id'[u] = next_id /\ \A w \in Threads : w # u => id'[w] = id[w]
    BY <1>1, <2>1
  <2>4. \A w \in Threads : w # u => (Issued(w)' <=> Issued(w))
    BY <1>1, <1>4 DEF Issued
  <2>5. ASSUME NEW w \in Threads, Issued(w)'
        PROVE  0 < id'[w] /\ id'[w] < next_id'
    BY <1>1, <1>2, <2>1, <2>3, <2>4, <2>5 DEF IdsInv
  <2>6. ASSUME NEW v \in Threads, NEW w \in Threads, Issued(v)', Issued(w)', v # w
        PROVE  id'[v] # id'[w]
    <3>1. \A x \in Threads : x # u /\ Issued(x) => id[x] < next_id /\ id[x] \in Nat
      BY <1>2, <2>1 DEF IdsInv
    <3> QED  BY <1>2, <2>1, <2>3, <2>4, <2>6, <3>1 DEF IdsInv
  <2>7. \A w \in Threads : spawn'[w].at = "returned" =>
          answer'[w] = IF thread'[w] = "none" THEN -1 ELSE id'[w]
    BY <1>1, <1>2, <1>4, <2>3 DEF IdsInv
  <2> QED  BY <1>1, <1>2, <2>2, <2>5, <2>6, <2>7 DEF IdsInv, Issued
<1>11. \A r \in MainNames \X {Main} : r \in live' <=> r \in live
  BY <1>5, CallBlocks
<1>12. CleanupInv' /\ DebuggerInv' /\ PhaseInv'
  BY <1>1, <1>8, <1>11, ThreadsApart
<1> QED  BY <1>7, <1>8, <1>9, <1>10, <1>12 DEF ResourceInv

LEMMA SpawnRefusedResources ==
  ASSUME ResourceInv, NEW t \in Threads \cup {Main}, NEW u \in Threads, SpawnRefused(t, u)
  PROVE  ResourceInv'
<1>1. /\ UNCHANGED loaderVars /\ UNCHANGED driverVars /\ pc' = pc
      /\ spawn[u].at = "none"
      /\ spawn' = [spawn EXCEPT ![u] = [by |-> t, at |-> "returned"]]
      /\ UNCHANGED hostVars
      /\ id' = id /\ next_id' = next_id /\ thread' = thread
      /\ answer' = [answer EXCEPT ![u] = -1] /\ lost' = lost
  BY DEF SpawnRefused, driverVars
<1>2. /\ HeldInv /\ LiveInv /\ SpawnInv /\ IdsInv /\ CleanupInv
  BY DEF ResourceInv
<1>3. pc \in {"run", "cleanup"}
  BY <1>2, GuestFacts DEF SpawnRefused
<1>4. /\ spawn'[u] = [by |-> t, at |-> "returned"]
      /\ \A w \in Threads : w # u => spawn'[w] = spawn[w]
      /\ thread[u] = "none"
      /\ live' = live /\ held' = held /\ Kept' = Kept
  BY <1>1, <1>2 DEF SpawnInv, hostVars, Kept
<1>5. ArgsOf(u) \notin live /\ StateOf(u) \notin live
  BY <1>1, <1>2, <1>4 DEF LiveInv
<1>6. HeldInv'
  <2>1. \A r \in Kept : OwnerOf(r)' = OwnerOf(r)
    <3> SUFFICES ASSUME NEW r \in Kept
                 PROVE  OwnerOf(r)' = OwnerOf(r)
      OBVIOUS
    <3>1. r[2] # u
      BY <1>2, <1>5, LiveCases DEF Kept
    <3> QED  BY <1>4, <3>1 DEF OwnerOf
  <2> QED  BY <1>2, <1>4, <2>1 DEF HeldInv
<1>7. LiveInv'
  <2>1. ASSUME NEW w \in Threads
        PROVE  /\ ArgsOf(w) \in live => spawn'[w].at = "prepared" \/ thread[w] = "started"
               /\ StateOf(w) \in live =>
                    spawn'[w].at = "prepared" \/ thread[w] \in {"started", "running"}
    <3>1. CASE w = u
      BY <1>5, <3>1
    <3>2. CASE w # u
      BY <1>2, <1>4, <3>2 DEF LiveInv
    <3> QED  BY <3>1, <3>2
  <2> QED  BY <1>1, <1>2, <1>4, <2>1 DEF LiveInv, LostInv, ArgsOf, StateOf
<1>8. SpawnInv'
  <2>1. spawn' \in [Threads -> [by : Threads \cup {Main},
                                at : {"none", "prepared", "created", "returned"}]]
    BY <1>1, <1>2 DEF SpawnInv
  <2>2. ASSUME NEW w \in Threads
        PROVE  /\ spawn'[w].at \in {"none", "prepared"} => thread[w] = "none"
               /\ spawn'[w].at = "created" => thread[w] # "none"
               /\ spawn'[w].at \in {"prepared", "created"} /\ spawn'[w].by \in Threads =>
                    thread[spawn'[w].by] = "running"
               /\ spawn'[w].at \in {"prepared", "created"} /\ spawn'[w].by = Main =>
                    pc \in {"run", "killed"}
               /\ spawn'[w].at # "none" => pc \in Late
    <3>1. CASE w = u
      BY <1>3, <1>4, <3>1 DEF Late
    <3>2. CASE w # u
      BY <1>2, <1>4, <3>2 DEF SpawnInv, Active
    <3> QED  BY <3>1, <3>2
  <2> QED  BY <1>1, <1>2, <2>1, <2>2 DEF SpawnInv, Active
<1>9. IdsInv'
  <2>1. \A w \in Threads : Issued(w)' <=> Issued(w)
    BY <1>1, <1>4 DEF Issued
  <2>2. answer \in [Threads -> Int]
    BY <1>2 DEF IdsInv
  <2>3. \A w \in Threads : spawn'[w].at = "returned" =>
          answer'[w] = IF thread[w] = "none" THEN -1 ELSE id[w]
    BY <1>1, <1>2, <1>4, <2>2 DEF IdsInv
  <2>4. answer' \in [Threads -> Int]
    BY <1>1, <2>2
  <2> QED  BY <1>1, <1>2, <2>1, <2>3, <2>4 DEF IdsInv, Issued
<1>10. CleanupInv' /\ DebuggerInv' /\ PhaseInv'
  BY <1>1, <1>4, <1>7, ThreadsApart
<1> QED  BY <1>6, <1>7, <1>8, <1>9, <1>10 DEF ResourceInv

(* The spawner frees both blocks; nobody else ever had them. *)
LEMMA CreateFailsResources ==
  ASSUME ResourceInv, NEW u \in Threads, CreateFails(u)
  PROVE  ResourceInv'
<1> DEFINE by == spawn[u].by
           rs == {ArgsOf(u), StateOf(u)}
<1>1. /\ UNCHANGED loaderVars /\ UNCHANGED driverVars /\ pc' = pc
      /\ spawn[u].at = "prepared"
      /\ spawn' = [spawn EXCEPT ![u].at = "returned"]
      /\ Release(by, rs)
      /\ id' = id /\ next_id' = next_id /\ thread' = thread
      /\ answer' = [answer EXCEPT ![u] = -1] /\ lost' = lost
  BY DEF CreateFails, driverVars
<1>2. /\ HeldInv /\ LiveInv /\ SpawnInv /\ IdsInv /\ CleanupInv
  BY DEF ResourceInv
<1>3. /\ spawn'[u].at = "returned" /\ spawn'[u].by = by
      /\ \A w \in Threads : w # u => spawn'[w] = spawn[w]
      /\ thread[u] = "none"
      /\ spawn' \in [Threads -> [by : Threads \cup {Main},
                                 at : {"none", "prepared", "created", "returned"}]]
  BY <1>1, <1>2 DEF SpawnInv
<1>0. rs \cap lost = {}
  BY <1>2, LostApart
<1>4. \A r : r \in live' <=> r \in live /\ ~(r \in rs /\ OwnerOf(r) = by)
  <2> HIDE DEF rs, by
  <2> QED  BY <1>0, <1>1, <1>2, ReleaseFrees
<1>5. \A r \in rs : OwnerOf(r) = by
  BY <1>1, CallBlocks DEF OwnerOf
<1>6. \A r : r \in live' <=> r \in live /\ r \notin rs
  BY <1>4, <1>5
<1>7. HeldInv'
  <2>1. \A r \in Kept' : OwnerOf(r)' = OwnerOf(r)
    <3> SUFFICES ASSUME NEW r \in Kept, r \notin rs
                 PROVE  OwnerOf(r)' = OwnerOf(r)
      BY <1>1, <1>6 DEF Kept
    <3>1. r[2] # u
      BY <1>2, LiveCases
    <3> QED  BY <1>3, <3>1 DEF OwnerOf
  <2> HIDE DEF rs, by
  <2> QED  BY <1>0, <1>1, <1>2, <2>1, ReleaseHolds
<1>8. LiveInv'
  <2>1. ASSUME NEW w \in Threads
        PROVE  /\ ArgsOf(w) \in live' => spawn'[w].at = "prepared" \/ thread[w] = "started"
               /\ StateOf(w) \in live' =>
                    spawn'[w].at = "prepared" \/ thread[w] \in {"started", "running"}
    <3>1. CASE w = u
      BY <1>6, <3>1
    <3>2. CASE w # u
      BY <1>2, <1>3, <1>6, <3>2 DEF LiveInv
    <3> QED  BY <3>1, <3>2
  <2>2. Kept' \subseteq Kept /\ LostInv'
    BY <1>0, <1>1, <1>2, <1>6 DEF LiveInv, LostInv, Kept
  <2> QED  BY <1>1, <1>2, <2>1, <2>2 DEF LiveInv, ArgsOf, StateOf
<1>9. SpawnInv'
  <2>1. ASSUME NEW w \in Threads
        PROVE  /\ spawn'[w].at \in {"none", "prepared"} => thread[w] = "none"
               /\ spawn'[w].at = "created" => thread[w] # "none"
               /\ spawn'[w].at \in {"prepared", "created"} /\ spawn'[w].by \in Threads =>
                    thread[spawn'[w].by] = "running"
               /\ spawn'[w].at \in {"prepared", "created"} /\ spawn'[w].by = Main =>
                    pc \in {"run", "killed"}
               /\ spawn'[w].at # "none" => pc \in Late
    <3>1. CASE w = u
      BY <1>1, <1>2, <1>3, <3>1 DEF SpawnInv
    <3>2. CASE w # u
      BY <1>2, <1>3, <3>2 DEF SpawnInv, Active
    <3> QED  BY <3>1, <3>2
  <2> QED  BY <1>1, <1>2, <1>3, <2>1 DEF SpawnInv, Active
<1>10. IdsInv'
  <2>1. \A w \in Threads : Issued(w)' => Issued(w)
    BY <1>1, <1>3 DEF Issued
  <2>2. answer \in [Threads -> Int]
    BY <1>2 DEF IdsInv
  <2>3. \A w \in Threads : spawn'[w].at = "returned" =>
          answer'[w] = IF thread[w] = "none" THEN -1 ELSE id[w]
    BY <1>1, <1>2, <1>3, <2>2 DEF IdsInv
  <2>4. answer' \in [Threads -> Int]
    BY <1>1, <2>2
  <2> QED  BY <1>1, <1>2, <2>1, <2>3, <2>4 DEF IdsInv, Issued
<1>11. \A r \in MainNames \X {Main} : r \in live' <=> r \in live
  BY <1>6, CallBlocks
<1>12. CleanupInv' /\ DebuggerInv' /\ PhaseInv'
  BY <1>1, <1>8, <1>11, ThreadsApart
<1> QED  BY <1>7, <1>8, <1>9, <1>10, <1>12 DEF ResourceInv

(* The blocks change hands together with the progress of the call. *)
LEMMA CreateResources ==
  ASSUME ResourceInv, NEW u \in Threads, Create(u)
  PROVE  ResourceInv'
<1> DEFINE by == spawn[u].by
           rs == {ArgsOf(u), StateOf(u)} \cap live
<1>1. /\ UNCHANGED loaderVars /\ UNCHANGED driverVars /\ pc' = pc
      /\ spawn[u].at = "prepared"
      /\ spawn' = [spawn EXCEPT ![u].at = "created"]
      /\ thread' = [thread EXCEPT ![u] = "started"]
      /\ live' = live
      /\ held' = (held \ {<<by, r>> : r \in rs}) \cup {<<u, r>> : r \in rs}
      /\ id' = id /\ next_id' = next_id /\ answer' = answer
      /\ lost' = lost /\ Kept' = Kept
  BY DEF Create, HandedOver, driverVars, Kept
<1>2. /\ HeldInv /\ LiveInv /\ SpawnInv /\ IdsInv /\ CleanupInv
  BY DEF ResourceInv
<1>3. /\ spawn'[u].at = "created" /\ spawn'[u].by = by
      /\ \A w \in Threads : w # u => spawn'[w] = spawn[w] /\ thread'[w] = thread[w]
      /\ thread[u] = "none" /\ thread'[u] = "started"
      /\ spawn' \in [Threads -> [by : Threads \cup {Main},
                                 at : {"none", "prepared", "created", "returned"}]]
      /\ thread' \in [Threads -> {"none", "started", "running", "ended"}]
  BY <1>1, <1>2 DEF SpawnInv
<1>4. \A r \in Kept : r \in rs <=> r[2] = u
  BY <1>2, LiveCases, CallBlocks DEF Kept
<1>5. \A r \in Kept : /\ r \in rs => OwnerOf(r) = by /\ OwnerOf(r)' = u
                      /\ r \notin rs => OwnerOf(r)' = OwnerOf(r)
  BY <1>1, <1>3, <1>4 DEF OwnerOf
<1>6. rs \subseteq Kept
  BY <1>2, LostApart DEF Kept
<1>7. HeldInv'
  <2> HIDE DEF rs, by
  <2>1. ASSUME NEW h \in held'
        PROVE  \E r \in Kept : h = <<OwnerOf(r)', r>>
    <3>1. CASE h \in {<<u, r>> : r \in rs}
      BY <1>5, <1>6, <3>1
    <3>2. CASE h \in held /\ h \notin {<<by, r>> : r \in rs}
      <4>1. PICK r \in Kept : h = <<OwnerOf(r), r>>
        BY <1>2, <3>2 DEF HeldInv
      <4>2. r \notin rs
        BY <1>5, <3>2, <4>1
      <4> QED  BY <1>5, <4>1, <4>2
    <3> QED  BY <1>1, <2>1, <3>1, <3>2
  <2>2. ASSUME NEW r \in Kept
        PROVE  <<OwnerOf(r)', r>> \in held'
    <3>1. CASE r \in rs
      BY <1>1, <1>5, <3>1
    <3>2. CASE r \notin rs
      <4>1. <<OwnerOf(r), r>> \in held
        BY <1>2 DEF HeldInv
      <4>2. <<OwnerOf(r), r>> \notin {<<by, s>> : s \in rs}
        BY <3>2
      <4> QED  BY <1>1, <1>5, <3>2, <4>1, <4>2
    <3> QED  BY <3>1, <3>2
  <2>3. held' = {<<OwnerOf(r)', r>> : r \in Kept}
    BY <2>1, <2>2
  <2> QED  BY <1>1, <2>3 DEF HeldInv
<1>8. LiveInv'
  BY <1>1, <1>2, <1>3 DEF LiveInv, LostInv, ArgsOf, StateOf
<1>9. SpawnInv'
  <2>1. ASSUME NEW w \in Threads
        PROVE  /\ spawn'[w].at \in {"none", "prepared"} => thread'[w] = "none"
               /\ spawn'[w].at = "created" => thread'[w] # "none"
               /\ spawn'[w].at \in {"prepared", "created"} /\ spawn'[w].by \in Threads =>
                    thread'[spawn'[w].by] = "running"
               /\ spawn'[w].at \in {"prepared", "created"} /\ spawn'[w].by = Main =>
                    pc \in {"run", "killed"}
               /\ spawn'[w].at # "none" => pc \in Late
    <3>1. Active(w)' => Active(w) /\ spawn'[w].by = spawn[w].by
      BY <1>1, <1>3 DEF Active
    <3>2. Active(w) /\ spawn[w].by \in Threads =>
            spawn[w].by # u /\ thread[spawn[w].by] = "running"
      BY <1>2, <1>3 DEF SpawnInv
    <3>3. CASE w = u
      BY <1>1, <1>2, <1>3, <3>1, <3>2, <3>3 DEF SpawnInv, Active
    <3>4. CASE w # u
      BY <1>2, <1>3, <3>1, <3>2, <3>4 DEF SpawnInv, Active
    <3> QED  BY <3>3, <3>4
  <2> QED  BY <1>1, <1>3, <2>1 DEF SpawnInv, Active
<1>10. IdsInv'
  <2>1. \A w \in Threads : Issued(w)' => Issued(w)
    BY <1>1, <1>3 DEF Issued
  <2>2. \A w \in Threads : spawn'[w].at = "returned" =>
          answer[w] = IF thread'[w] = "none" THEN -1 ELSE id[w]
    BY <1>2, <1>3 DEF IdsInv
  <2> QED  BY <1>1, <1>2, <2>1, <2>2 DEF IdsInv, Issued
<1>11. CleanupInv' /\ DebuggerInv' /\ PhaseInv'
  BY <1>1, <1>8, ThreadsApart
<1> QED  BY <1>7, <1>8, <1>9, <1>10, <1>11 DEF ResourceInv

LEMMA SpawnReturnsResources ==
  ASSUME ResourceInv, NEW u \in Threads, SpawnReturns(u)
  PROVE  ResourceInv'
<1>1. /\ UNCHANGED loaderVars /\ UNCHANGED driverVars /\ pc' = pc
      /\ spawn[u].at = "created"
      /\ spawn' = [spawn EXCEPT ![u].at = "returned"]
      /\ live' = live /\ held' = held /\ lost' = lost /\ Kept' = Kept
      /\ id' = id /\ next_id' = next_id /\ thread' = thread
      /\ answer' = [answer EXCEPT ![u] = id[u]]
  BY DEF SpawnReturns, ReturnedId, hostVars, driverVars, Kept
<1>2. /\ HeldInv /\ LiveInv /\ SpawnInv /\ IdsInv
  BY DEF ResourceInv
<1>3. /\ spawn'[u].at = "returned" /\ spawn'[u].by = spawn[u].by
      /\ \A w \in Threads : w # u => spawn'[w] = spawn[w]
      /\ thread[u] # "none"
      /\ spawn' \in [Threads -> [by : Threads \cup {Main},
                                 at : {"none", "prepared", "created", "returned"}]]
  BY <1>1, <1>2 DEF SpawnInv
<1>4. HeldInv'
  <2>1. \A r : OwnerOf(r)' = OwnerOf(r)
    BY <1>1, <1>3 DEF OwnerOf
  <2> QED  BY <1>1, <1>2, <2>1 DEF HeldInv
<1>5. LiveInv'
  BY <1>1, <1>2, <1>3 DEF LiveInv, LostInv, ArgsOf, StateOf
<1>6. SpawnInv'
  BY <1>1, <1>2, <1>3 DEF SpawnInv, Active
<1>7. IdsInv'
  <2>1. \A w \in Threads : Issued(w)' => Issued(w)
    BY <1>1, <1>3 DEF Issued
  <2>2. answer \in [Threads -> Int] /\ id \in [Threads -> Nat]
    BY <1>2 DEF IdsInv
  <2>3. \A w \in Threads : spawn'[w].at = "returned" =>
          answer'[w] = IF thread[w] = "none" THEN -1 ELSE id[w]
    BY <1>1, <1>2, <1>3, <2>2 DEF IdsInv
  <2>4. answer' \in [Threads -> Int]
    BY <1>1, <2>2
  <2> QED  BY <1>1, <1>2, <2>1, <2>3, <2>4 DEF IdsInv, Issued
<1>8. CleanupInv' /\ DebuggerInv' /\ PhaseInv'
  BY <1>1, <1>5, ThreadsApart
<1> QED  BY <1>4, <1>5, <1>6, <1>7, <1>8 DEF ResourceInv

(* A thread that makes progress and releases one of its blocks. *)
LEMMA ThreadReleases ==
  ASSUME ResourceInv, NEW u \in Threads, NEW r \in {ArgsOf(u), StateOf(u)},
         NEW to \in {"running", "ended"},
         UNCHANGED loaderVars, UNCHANGED driverVars, pc' = pc,
         UNCHANGED <<next_id, spawn, id, answer>>,
         thread' = [thread EXCEPT ![u] = to],
         Release(u, {r}),
         \/ thread[u] = "started" /\ to = "running" /\ r = ArgsOf(u)
         \/ thread[u] = "running" /\ to = "ended" /\ r = StateOf(u) /\ ~InSpawn(u)
  PROVE  ResourceInv'
<1>2. /\ HeldInv /\ LiveInv /\ SpawnInv /\ IdsInv
  BY DEF ResourceInv
<1>3. /\ spawn[u].at \notin {"none", "prepared"}
      /\ thread'[u] = to /\ \A w \in Threads : w # u => thread'[w] = thread[w]
      /\ thread' \in [Threads -> {"none", "started", "running", "ended"}]
  BY <1>2 DEF SpawnInv
<1>4. OwnerOf(r) = u /\ {r} \cap lost = {} /\ lost' = lost
  BY <1>2, <1>3, CallBlocks, LostApart DEF OwnerOf, driverVars
<1>5. \A s : s \in live' <=> s \in live /\ s # r
  BY <1>2, <1>4, ReleaseFrees
<1>6. HeldInv'
  <2>1. \A s : OwnerOf(s)' = OwnerOf(s)
    BY DEF OwnerOf
  <2> QED  BY <1>2, <1>4, <2>1, ReleaseHolds
<1>7. LiveInv'
  <2>1. ASSUME NEW w \in Threads
        PROVE  /\ ArgsOf(w) \in live' => spawn[w].at = "prepared" \/ thread'[w] = "started"
               /\ StateOf(w) \in live' =>
                    spawn[w].at = "prepared" \/ thread'[w] \in {"started", "running"}
    <3>1. CASE w # u
      BY <1>2, <1>3, <1>5, <3>1 DEF LiveInv
    <3>2. CASE w = u
      <4>1. CASE thread[u] = "started" /\ to = "running" /\ r = ArgsOf(u)
        BY <1>2, <1>3, <1>5, <3>2, <4>1 DEF LiveInv
      <4>2. CASE thread[u] = "running" /\ to = "ended" /\ r = StateOf(u)
        BY <1>2, <1>3, <1>5, <3>2, <4>2 DEF LiveInv
      <4> QED  BY <4>1, <4>2
    <3> QED  BY <3>1, <3>2
  <2>2. Kept' \subseteq Kept /\ LostInv'
    BY <1>2, <1>4, <1>5 DEF LiveInv, LostInv, Kept
  <2> QED  BY <1>2, <2>1, <2>2 DEF LiveInv, ArgsOf, StateOf
<1>8. SpawnInv'
  <2>1. thread'[u] # "none" /\ thread[u] # "none"
    BY <1>3
  <2>2. ASSUME NEW w \in Threads, Active(w), spawn[w].by \in Threads
        PROVE  thread'[spawn[w].by] = "running"
    <3>1. thread[spawn[w].by] = "running"
      BY <1>2, <2>2 DEF SpawnInv
    <3>2. CASE spawn[w].by = u
      BY <2>2, <3>1, <3>2 DEF InSpawn, Active
    <3>3. CASE spawn[w].by # u
      BY <1>3, <2>2, <3>1, <3>3
    <3> QED  BY <3>2, <3>3
  <2> QED  BY <1>2, <1>3, <2>1, <2>2 DEF SpawnInv, Active
<1>9. IdsInv'
  <2>1. \A w \in Threads : thread'[w] = "none" <=> thread[w] = "none"
    BY <1>3
  <2>2. \A w \in Threads : Issued(w)' <=> Issued(w)
    BY <2>1 DEF Issued
  <2> QED  BY <1>2, <2>1, <2>2 DEF IdsInv, Issued
<1>10. \A s \in MainNames \X {Main} : s \in live' <=> s \in live
  BY <1>5, CallBlocks
<1>11. CleanupInv' /\ DebuggerInv' /\ PhaseInv'
  BY <1>7, <1>10, ThreadsApart
<1> QED  BY <1>6, <1>7, <1>8, <1>9, <1>11 DEF ResourceInv

LEMMA ThreadResources ==
  ASSUME ResourceInv, NEW u \in Threads, Trampoline(u) \/ ThreadReturns(u)
  PROVE  ResourceInv'
<1>1. CASE Trampoline(u)
  BY <1>1, ThreadReleases DEF Trampoline
<1>2. CASE ThreadReturns(u)
  <2>1. thread[u] = "running" /\ ~InSpawn(u)
    BY <1>2, ProgramAssumption DEF ThreadReturns, InGuest
  <2> QED  BY <1>2, <2>1, ThreadReleases DEF ThreadReturns
<1> QED  BY <1>1, <1>2

-----------------------------------------------------------------------------

LEMMA InitResources ==
  ASSUME ProgramInit
  PROVE  ResourceInv
<1>1. /\ LoaderInit /\ pc = "args" /\ live = {} /\ held = {} /\ listed = {} /\ cleaned = 0
      /\ next_id = 1 /\ lost = {}
      /\ spawn = [t \in Threads |-> [by |-> t, at |-> "none"]]
      /\ thread = [t \in Threads |-> "none"]
      /\ id = [t \in Threads |-> 0] /\ answer = [t \in Threads |-> 0]
  BY DEF ProgramInit
<1>2. HeldInv /\ LiveInv /\ SpawnInv
  BY <1>1 DEF HeldInv, LiveInv, LostInv, Kept, SpawnInv, Active
<1>3. IdsInv
  BY <1>1 DEF IdsInv, Issued
<1>4. CleanupInv /\ DebuggerInv /\ PhaseInv
  BY <1>1 DEF CleanupInv, Phases, Has, DebuggerInv, DebuggerSound, PhaseInv, LoaderInit
<1> QED  BY <1>2, <1>3, <1>4 DEF ResourceInv

LEMMA NextResources ==
  ASSUME ResourceInv, [Next]_vars
  PROVE  ResourceInv'
<1>1. CASE DriverStep
  BY <1>1, DriverResources, CleanupResources, NamesOverrunResources, ReturnResources DEF DriverStep
<1>2. CASE \E u \in Threads : ThreadStep(u)
  BY <1>2, CreateFailsResources, CreateResources, SpawnReturnsResources, ThreadResources
     DEF ThreadStep
<1>3. CASE \E t \in Threads \cup {Main}, u \in Threads : SpawnPrepares(t, u) \/ SpawnRefused(t, u)
  BY <1>3, SpawnPreparesResources, SpawnRefusedResources
<1>4. CASE \E t \in Threads \cup {Main} : ProcExit(t)
  BY <1>4, ProcExitResources
<1>5. CASE UNCHANGED vars
  <2>1. /\ UNCHANGED loaderVars /\ UNCHANGED hostVars /\ UNCHANGED threadVars
        /\ UNCHANGED driverVars /\ pc' = pc
    BY <1>5 DEF vars
  <2>2. HeldInv' /\ LiveInv'
    BY <2>1, MainHostKept DEF MainHost, ResourceInv, driverVars
  <2>3. SpawnInv' /\ IdsInv'
    BY <2>1 DEF ResourceInv, SpawnInv, IdsInv, Active, Issued, threadVars
  <2>4. CleanupInv' /\ DebuggerInv' /\ PhaseInv'
    BY <2>1, <2>2, ThreadsApart DEF hostVars
  <2> QED  BY <2>2, <2>3, <2>4 DEF ResourceInv
<1> QED  BY <1>1, <1>2, <1>3, <1>4, <1>5 DEF Next

-----------------------------------------------------------------------------
(* The module and its heap.                                                *)

(* What the driver does to the loader's state: nothing, a step of the      *)
(* loader, or the line of the cleanup path that frees the module.          *)
LEMMA LoaderCases ==
  ASSUME [Next]_vars
  PROVE  \/ UNCHANGED loaderVars /\ cleaned' = cleaned
         \/ pc = "load" /\ cleaned' = cleaned /\ (LoadModule \/ LoaderStep)
         \/ Cleanup
<1>1. CASE Load
  BY <1>1 DEF Load, driverVars
<1>2. CASE \/ ParseOption \/ ParseEnds \/ ReadFile \/ LoadEnds \/ Jit \/ EmitDebugElf \/ Register
           \/ RuntimeInit \/ AllocState \/ RunReturns \/ DumpFails \/ Fails \/ NamesOverrun \/ Return
  BY <1>2 DEF ParseOption, ParseEnds, ReadFile, LoadEnds, Jit, EmitDebugElf, Register, RuntimeInit,
              AllocState, RunReturns, DumpFails, Fails, NamesOverrun, Return, driverVars
<1>3. CASE \E u \in Threads : ThreadStep(u)
  BY <1>3 DEF ThreadStep, CreateFails, Create, SpawnReturns, Trampoline, ThreadReturns, driverVars
<1>4. CASE \E t \in Threads \cup {Main}, u \in Threads : SpawnPrepares(t, u) \/ SpawnRefused(t, u)
  BY <1>4 DEF SpawnPrepares, SpawnRefused, driverVars
<1>5. CASE \E t \in Threads \cup {Main} : ProcExit(t)
  BY <1>5 DEF ProcExit, driverVars
<1>6. CASE UNCHANGED vars
  BY <1>6 DEF vars, driverVars
<1> QED  BY <1>1, <1>2, <1>3, <1>4, <1>5, <1>6 DEF Next, DriverStep

(* The cleanup path is after the parsing. *)
LEMMA CleanupLoader ==
  ASSUME ResourceInv, OrderedInv, Cleanup
  PROVE  /\ sec' = NoSection /\ temp = {} /\ temp' = {}
         /\ load' # "parsing" /\ load' = load /\ current_index' = current_index
         /\ \/ wasm_module_free({}) /\ cleaned' = 5
            \/ UNCHANGED loaderVars /\ (cleaned' >= 5 => cleaned >= 5)
<1>1. /\ pc = "cleanup" /\ load' = load /\ sec' = sec /\ temp' = temp /\ left' = left
      /\ current_index' = current_index
  BY DEF Cleanup
<1>2. load \notin {"parsing", "crashed"}
  BY <1>1 DEF ResourceInv, PhaseInv
<1>3. sec = NoSection
  BY <1>2 DEF OrderedInv, ShapeInv
<1>4. temp = {}
  BY <1>3 DEF OrderedInv, ShapeInv, NoSection, Vectors, Kinds
<1>5. PICK i \in ToDo :
        /\ \A j \in ToDo : i <= j
        /\ cleaned' = i
        /\ \/ CleanupOrder[i] = "module" /\ wasm_module_free({})
           \/ CleanupOrder[i] # "module" /\ UNCHANGED <<heap, module>>
  BY DEF Cleanup, IsNext
<1>6. cleaned \in 0 .. 10
  BY DEF ResourceInv, CleanupInv
<1>7. i \in 1 .. 10 /\ i > cleaned
  BY <1>5, <1>6, CleanupFacts DEF ToDo
<1>8. CASE CleanupOrder[i] = "module" /\ wasm_module_free({})
  BY <1>1, <1>2, <1>3, <1>4, <1>5, <1>7, <1>8, CleanupFacts
<1>9. CASE CleanupOrder[i] # "module" /\ UNCHANGED <<heap, module>>
  <2>1. ASSUME cleaned' >= 5
        PROVE  cleaned >= 5
    <3> SUFFICES ASSUME cleaned < 5
                 PROVE  FALSE
      BY <1>6
    <3>1. i # 5
      BY <1>7, <1>9, CleanupFacts
    <3>2. i > 5
      BY <1>5, <1>7, <2>1, <3>1
    <3>3. 5 \in cleaned + 1 .. Len(CleanupOrder)
      BY <1>6, CleanupFacts
    <3>4. 5 \in ToDo
      BY <3>3, CleanupFacts DEF ToDo, Due
    <3> QED  BY <1>5, <1>7, <3>2, <3>4
  <2>2. UNCHANGED loaderVars
    BY <1>1, <1>9 DEF loaderVars
  <2> QED  BY <1>1, <1>2, <1>3, <1>4, <2>1, <2>2
<1> QED  BY <1>5, <1>8, <1>9

LEMMA LoaderKept ==
  ASSUME UNCHANGED loaderVars
  PROVE  /\ OrderedInv => OrderedInv'
         /\ NamesInv /\ OwnInv => NamesInv' /\ OwnInv'
<1>1. /\ heap' = heap /\ module' = module /\ current_index' = current_index /\ sec' = sec
      /\ temp' = temp /\ load' = load
  BY DEF loaderVars
<1>2. LTypeOK => LTypeOK'
  BY <1>1 DEF LTypeOK
<1>3. ShapeInv => ShapeInv'
  BY <1>1 DEF ShapeInv
<1>4. OrderInv => OrderInv'
  BY <1>1 DEF OrderInv
<1>5. SoundInv => SoundInv'
  BY <1>1 DEF SoundInv, BodiesInv, StartInv, LoadedInv
<1>6. NamesInv => NamesInv'
  BY <1>1 DEF NamesInv, NamesSized
<1>7. OwnInv => OwnInv'
  BY <1>1 DEF OwnInv
<1> QED  BY <1>2, <1>3, <1>4, <1>5, <1>6, <1>7 DEF OrderedInv

LEMMA NextOrdered ==
  ASSUME ResourceInv, OrderedInv, [Next]_vars
  PROVE  OrderedInv'
<1>1. CASE UNCHANGED loaderVars
  BY <1>1, LoaderKept
<1>2. CASE LoadModule \/ LoaderStep
  BY <1>2, LoadModuleOrdered, LoaderStepOrdered
<1>3. CASE Cleanup
  <2>1. \/ wasm_module_free({}) \/ UNCHANGED loaderVars
    BY <1>3, CleanupLoader
  <2>2. CASE wasm_module_free({})
    BY <1>3, <2>2, CleanupLoader, FreedOrdered
  <2> QED  BY <1>1, <2>1, <2>2
<1> QED  BY <1>1, <1>2, <1>3, LoaderCases

LEMMA NextOwned ==
  ASSUME ResourceInv, OwnedInv, HeapInv, [Next]_vars
  PROVE  OwnedInv' /\ HeapInv'
<1>0. OrderedInv /\ NamesInv /\ OwnInv /\ OrderedInv'
  BY NextOrdered DEF OwnedInv
<1>1. CASE UNCHANGED loaderVars /\ (cleaned' >= 5 => cleaned >= 5)
  <2>1. NamesInv' /\ OwnInv'
    BY <1>0, <1>1, LoaderKept
  <2>2. HeapInv'
    BY <1>1 DEF HeapInv, loaderVars
  <2> QED  BY <1>0, <2>1, <2>2 DEF OwnedInv
<1>2. CASE pc = "load" /\ cleaned' = cleaned /\ (LoadModule \/ LoaderStep)
  <2>1. OwnedInv'
    <3>1. CASE LoadModule
      BY <1>0, <3>1, LoadModuleOwned DEF OwnedInv
    <3>2. CASE LoaderStep
      BY <3>2, LoaderStepOwned
    <3> QED  BY <1>2, <3>1, <3>2
  <2>2. cleaned' = 0
    BY <1>2 DEF ResourceInv, CleanupInv
  <2> QED  BY <2>1, <2>2 DEF HeapInv
<1>3. CASE Cleanup
  <2>1. \/ wasm_module_free({})
        \/ UNCHANGED loaderVars /\ (cleaned' >= 5 => cleaned >= 5)
    BY <1>0, <1>3, CleanupLoader
  <2>2. CASE wasm_module_free({})
    <3>1. NamesInv' /\ OwnInv' /\ heap' = {}
      BY <1>0, <1>3, <2>2, CleanupLoader, FreedOwned
    <3> QED  BY <1>0, <3>1 DEF OwnedInv, HeapInv
  <2> QED  BY <1>1, <2>1, <2>2
<1>4. UNCHANGED loaderVars /\ cleaned' = cleaned => (cleaned' >= 5 => cleaned >= 5)
  OBVIOUS
<1> QED  BY <1>1, <1>2, <1>3, <1>4, LoaderCases

-----------------------------------------------------------------------------

(* Whatever is in the file and wherever the name sections are, a module    *)
(* that the compiler gets has only indices in range, a body for every      *)
(* function, and a start function that takes and returns nothing: nothing  *)
(* of what wasm_load_module checked changes before it is used.             *)
THEOREM ModulesAreSound == Spec => []ModuleSound
<1>1. ResourceInv /\ OrderedInv => ModuleSound
  BY OrderedIsSound
<1>2. ProgramInit => ResourceInv /\ OrderedInv
  BY InitResources, LoaderInitOrdered DEF ProgramInit
<1>3. ResourceInv /\ OrderedInv /\ [Next]_vars => (ResourceInv /\ OrderedInv)'
  BY NextResources, NextOrdered
<1> QED  BY <1>1, <1>2, <1>3, PTL DEF Spec

(* What wasi_spawn_thread returns is -1, or the positive id of the thread  *)
(* it started, which no other thread has, even if that thread has freed    *)
(* its arguments or ended by then.                                         *)
THEOREM SpawnNamesThreads == Spec => []IdsNameThreads
<1>1. ResourceInv => IdsNameThreads
  <2> SUFFICES ASSUME SpawnInv, IdsInv, NEW u \in Threads, spawn[u].at = "returned",
                      thread[u] # "none"
               PROVE  /\ answer[u] = id[u] /\ answer[u] > 0
                      /\ \A w \in Threads \ {u} : thread[w] # "none" => id[w] # id[u]
    BY DEF ResourceInv, IdsNameThreads, IdsInv
  <2>1. Issued(u) /\ \A w \in Threads : thread[w] # "none" => Issued(w)
    BY DEF Issued
  <2> QED  BY <2>1 DEF IdsInv
<1>2. ProgramInit => ResourceInv
  BY InitResources
<1>3. ResourceInv /\ [Next]_vars => ResourceInv'
  BY NextResources
<1> QED  BY <1>1, <1>2, <1>3, PTL DEF Spec

(* An entry that a debugger finds in __jit_debug_descriptor exists and     *)
(* points to an ELF image that exists: main registers the entry after      *)
(* making the image and takes it out before freeing it, on every path.     *)
THEOREM DebuggerFindsImages == Spec => []DebuggerSound
<1>1. ResourceInv => DebuggerSound
  BY DEF ResourceInv, DebuggerInv
<1>2. ProgramInit => ResourceInv
  BY InitResources
<1>3. ResourceInv /\ [Next]_vars => ResourceInv'
  BY NextResources
<1> QED  BY <1>1, <1>2, <1>3, PTL DEF Spec

(* Everything at once. *)
OwnershipInv == ResourceInv /\ OwnedInv /\ HeapInv

LEMMA OwnershipHolds == Spec => []OwnershipInv
<1>1. ProgramInit => OwnershipInv
  <2> SUFFICES ASSUME ProgramInit
               PROVE  OwnershipInv
    OBVIOUS
  <2>1. HeapInv
    BY DEF ProgramInit, HeapInv
  <2> QED  BY <2>1, InitResources, LoaderInitOwned DEF ProgramInit, OwnershipInv
<1>2. OwnershipInv /\ [Next]_vars => OwnershipInv'
  BY NextResources, NextOwned DEF OwnershipInv
<1> QED  BY <1>1, <1>2, PTL DEF Spec

(* Wherever the name section is in the file, the array of function names   *)
(* that wasm_load_module makes for it has an element for every import, and *)
(* for every function unless the function section came later.              *)
THEOREM NamesAreSized == Spec => []NamesSized
<1>1. OwnershipInv => NamesSized
  BY DEF OwnershipInv, OwnedInv, NamesInv
<1> QED  BY <1>1, OwnershipHolds, PTL

(* Every block of the module has one place that points to it, and every    *)
(* resource of the program one owner, except the dump files whose handle   *)
(* parse_args overwrote, which have none: across the early free of the     *)
(* file, a failure of any phase, a pthread_create that fails or succeeds,  *)
(* and threads that outlive the cleanup of main.                           *)
THEOREM EverythingHasOneOwner == Spec => []OwnedOnce
<1>1. OwnershipInv => OwnedOnce
  <2> SUFFICES ASSUME OwnershipInv
               PROVE  OwnedOnce
    OBVIOUS
  <2>1. ModuleOwned
    BY OwnedIsOwnedOnce DEF OwnershipInv
  <2>2. held = {<<OwnerOf(r), r>> : r \in Kept}
    BY DEF OwnershipInv, ResourceInv, HeldInv
  <2>3. ASSUME NEW r \in live
        PROVE  Cardinality({h \in held : h[2] = r}) = IF r \in lost THEN 0 ELSE 1
    <3>1. CASE r \in lost
      <4>1. {h \in held : h[2] = r} = {}
        BY <2>2, <3>1 DEF Kept
      <4> QED  BY <3>1, <4>1, FS_EmptySet
    <3>2. CASE r \notin lost
      <4>1. {h \in held : h[2] = r} = {<<OwnerOf(r), r>>}
        BY <2>2, <3>2 DEF Kept
      <4> QED  BY <3>2, <4>1, FS_Singleton
    <3> QED  BY <3>1, <3>2
  <2>4. \A h \in held : h[2] \in live
    BY <2>2 DEF Kept
  <2> QED  BY <2>1, <2>3, <2>4 DEF OwnedOnce
<1> QED  BY <1>1, OwnershipHolds, PTL

(* On each path by which main returns it has released the module and all   *)
(* it has a handle of; what is left are the dump files whose handle was    *)
(* overwritten, and what belongs to threads that still run.                *)
THEOREM MainReleasesAll == Spec => []ExitClean
<1>1. OwnershipInv => ExitClean
  <2> SUFFICES ASSUME OwnershipInv, pc = "exited"
               PROVE  /\ heap = {}
                      /\ lost \subseteq live
                      /\ \A h \in held : /\ h[1] # Main /\ h[1] \in Threads
                                         /\ thread[h[1]] \in {"started", "running"}
    BY DEF ExitClean
  <2>0. HeldInv /\ LiveInv /\ SpawnInv /\ CleanupInv
    BY DEF OwnershipInv, ResourceInv
  <2>1. heap = {}
    BY <2>0 DEF OwnershipInv, HeapInv, CleanupInv
  <2>2. ASSUME NEW h \in held
        PROVE  h[1] # Main /\ h[1] \in Threads /\ thread[h[1]] \in {"started", "running"}
    <3>1. PICK r \in Kept : h = <<OwnerOf(r), r>>
      BY <2>0 DEF HeldInv
    <3>2. r \notin MainNames \X {Main}
      <4> SUFFICES ASSUME NEW x \in MainNames, r = MainsOwn(x)
                   PROVE  FALSE
        BY DEF MainsOwn
      <4>1. PICK i \in 1 .. 10 : CleanupOrder[i] = x
        BY CleanupFacts
      <4>2. ~Has(x)
        BY <2>0, <4>1 DEF CleanupInv
      <4> QED  BY <4>2 DEF Has, Kept
    <3>3. PICK u \in Threads : r \in {ArgsOf(u), StateOf(u)}
      BY <2>0, <3>2 DEF LiveInv, ArgsOf, StateOf
    <3>4. r[2] = u
      BY <3>3, CallBlocks
    <3>5. CASE spawn[u].at = "prepared"
      <4>1. h[1] = spawn[u].by
        BY <3>1, <3>4, <3>5 DEF OwnerOf
      <4>2. Active(u)
        BY <3>5 DEF Active
      <4>3. spawn[u].by \in Threads /\ thread[spawn[u].by] = "running"
        BY <2>0, <4>2 DEF SpawnInv
      <4> QED  BY <4>1, <4>3, ProgramAssumption
    <3>6. CASE spawn[u].at # "prepared"
      <4>1. h[1] = u
        BY <3>1, <3>4, <3>6 DEF OwnerOf
      <4>2. thread[u] \in {"started", "running"}
        BY <2>0, <3>3, <3>6 DEF LiveInv, Kept
      <4> QED  BY <4>1, <4>2, ProgramAssumption
    <3> QED  BY <3>5, <3>6
  <2>3. lost \subseteq live
    BY <2>0 DEF LiveInv, LostInv
  <2> QED  BY <2>1, <2>2, <2>3
<1> QED  BY <1>1, OwnershipHolds, PTL

=============================================================================
