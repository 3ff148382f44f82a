--------------------------- MODULE FullRunProofs ---------------------------
(***************************************************************************)
(* Proofs about the unfiltered runs of BuildPipeline: they never want for a  *)
(* file, whatever earlier runs left, and what they package is complete and  *)
(* of their own make.  As in BuildPipelineProofs, for every set of command  *)
(* lines, any number of runs and either build host.                         *)
(***************************************************************************)
EXTENDS BuildPipelineProofs

-----------------------------------------------------------------------------
(* What an unfiltered run has made so far. *)

\* main() is past step s.
Past(s) == \E i \in 1 .. pc - 1 : Flow[i] = s

Full == pc # 0 /\ Unfiltered(opt)
Due(b) == Applies(b) /\ ShouldBuild(opt, b)

\* What this run has compiled in a product or a build directory, it has compiled with
\* a compiler of its own.
OwnCompiler(p) == (p.cc \in {"stage1", "stage2"} /\ p.made = run) => p.ccrun = run
MadeNow(b) == disk[b].run = run /\ disk[b].lldb = opt.lldb

\* libcxx is writing into the sysroot of the host.
Touching(b) == b = "host-sysroots" /\ Flow[pc] = "libcxx" /\ phase = 3

\* The compiler in use is one main() has switched to, and main() does switch.
ToolchainInv ==
    /\ pc = 0 => toolchain = "prebuilt"
    /\ toolchain = "stage1" => Past("use-stage1") /\ ~opt.single
    /\ toolchain = "stage2" => Past("use-stage2") /\ NeedHost(opt)
    /\ Past("use-stage1") /\ ~opt.single => toolchain # "prebuilt"
    /\ Past("use-stage2") /\ NeedHost(opt) /\ ~KeepsStage1(opt) => toolchain # "prebuilt"

\* The builders behind are complete; the one at work writes for this run.
BuiltInv ==
    Full => \A b \in Builders :
        /\ Past(b) /\ Due(b) => MadeNow(b) /\ (disk[b].st = "ok" \/ Touching(b))
        /\ Flow[pc] = b /\ phase = 3 => MadeNow(b)

\* So are the build directories of the compilers, whose tools are run from there.
DirsInv ==
    Full => \A b \in {"stage1", "stage2"} :
        (Past(b) /\ Due(b)) \/ (Flow[pc] = b /\ phase = 3) =>
            objs[b].st = "ok" /\ (opt.lldb => objs[b].lldb)

\* Nothing is compiled by a later run, and what this one compiles has an own compiler.
OwnInv ==
    \A b \in Builders :
        /\ disk[b].made <= run /\ objs[b].made <= run
        /\ Full => OwnCompiler(disk[b]) /\ OwnCompiler(objs[b])

\* The sources and their description are there.
SourcesInv ==
    Full => /\ Past("sources") => tree /\ info
            /\ pc = 1 /\ phase = 1 => info

\* clang is only away between the two halves of a BOLT step.
ClangInv ==
    Full /\ NeedHost(opt) /\ Past("stage2") /\ ~(Flow[pc] \in BoltSteps /\ phase = 1) =>
        clang # "absent"

\* The runtimes that the later ones link are beside the compiler.
PlantedInv ==
    Full => \A r \in {"builtins", "libunwind"} :
        Past(r) /\ Due(r) /\ toolchain # "stage2" => << toolchain, r >> \in planted

FullInv ==
    ToolchainInv /\ BuiltInv /\ DirsInv /\ OwnInv /\ SourcesInv /\ ClangInv /\ PlantedInv

\* The headers of libxml2 are away only while it is built.
HeadersInv ==
    pc # 0 =>
        /\ Past("libxml2") /\ NeedHost(opt) =>
               headers = "in place" \/ (Flow[pc] = "win-libxml2" /\ phase # 0)
        /\ Past("win-libxml2") /\ NeedWindows(opt) => headers = "in place"

\* Nothing is built after the instrumentation.
InstrumentInv ==
    pc # 0 /\ "stage2" \in rebuilt /\ ~Past("bolt-instrument") => clang # "instrumented"

-----------------------------------------------------------------------------
(* The program order. *)

LEMMA Places ==
    \A i \in 1 .. 37 :
        /\ Flow[i] = "sources" <=> i = 1
        /\ Flow[i] = "stage1" <=> i = 2
        /\ Flow[i] = "stage1-links" <=> i = 3
        /\ Flow[i] = "stage1-test" <=> i = 4
        /\ Flow[i] = "use-stage1" <=> i = 5
        /\ Flow[i] = "swig" <=> i = 6
        /\ Flow[i] = "profiles" <=> i = 7
        /\ Flow[i] = "libzstd" <=> i = 8
        /\ Flow[i] = "libxml2" <=> i = 9
        /\ Flow[i] = "liblzma" <=> i = 10
        /\ Flow[i] = "libedit" <=> i = 11
        /\ Flow[i] = "stage2" <=> i = 12
        /\ Flow[i] = "bolt" <=> i = 13
        /\ Flow[i] = "use-stage2" <=> i = 14
        /\ Flow[i] = "device-sysroots" <=> i = 15
        /\ Flow[i] = "builtins" <=> i = 16
        /\ Flow[i] = "libunwind" <=> i = 17
        /\ Flow[i] = "platform-libcxxabi" <=> i = 18
        /\ Flow[i] = "compiler-rt" <=> i = 19
        /\ Flow[i] = "tsan" <=> i = 20
        /\ Flow[i] = "stage2-links" <=> i = 21
        /\ Flow[i] = "compiler-rt-linux-musl" <=> i = 22
        /\ Flow[i] = "libomp" <=> i = 23
        /\ Flow[i] = "lldb-server" <=> i = 24
        /\ Flow[i] = "sanitizer-mapfile" <=> i = 25
        /\ Flow[i] = "host-sysroots" <=> i = 26
        /\ Flow[i] = "win-clean" <=> i = 27
        /\ Flow[i] = "libcxx" <=> i = 28
        /\ Flow[i] = "win-libzstd" <=> i = 29
        /\ Flow[i] = "win-libxml2" <=> i = 30
        /\ Flow[i] = "win-liblzma" <=> i = 31
        /\ Flow[i] = "windows-x86-64" <=> i = 32
        /\ Flow[i] = "stage2-test" <=> i = 33
        /\ Flow[i] = "bolt-instrument" <=> i = 34
        /\ Flow[i] = "package-host" <=> i = 35
        /\ Flow[i] = "package-windows" <=> i = 36
        /\ Flow[i] = "return" <=> i = 37
  BY DEF Flow

\* How a step of main() moves on in Flow.
LEMMA PastMoves ==
    ASSUME TypeOK, pc # 0
    PROVE  /\ pc \in 1 .. 37
           /\ pc' = pc => \A s : Past(s)' <=> Past(s)
           /\ pc' = pc + 1 => \A s : Past(s)' <=> Past(s) \/ Flow[pc] = s
           /\ \A i \in 1 .. 37 : Past(Flow[i]) <=> i < pc
  <1>1. pc \in 1 .. 37
    BY FlowFacts DEF TypeOK, ProcTypeOK
  <1>2. pc' = pc => \A s : Past(s)' <=> Past(s)
    BY DEF Past
  <1>3. ASSUME pc' = pc + 1, NEW s PROVE Past(s)' <=> Past(s) \/ Flow[pc] = s
    <2>1. Past(s)' <=> \E i \in 1 .. pc : Flow[i] = s
      BY <1>1, <1>3 DEF Past
    <2>2. 1 .. pc = (1 .. pc - 1) \cup {pc}
      BY <1>1
    <2> QED
      BY <2>1, <2>2 DEF Past
  <1>4. ASSUME NEW i \in 1 .. 37 PROVE Past(Flow[i]) <=> i < pc
    <2>1. \A j \in 1 .. 37 : Flow[j] = Flow[i] => j = i
      BY DEF Flow
    <2> QED
      BY <1>1, <2>1 DEF Past
  <1> QED
    BY <1>1, <1>2, <1>3, <1>4

\* How far main() is behind the steps that others rely on.
LEMMA PastPlaces ==
    ASSUME TypeOK, pc # 0
    PROVE  /\ pc \in 1 .. 37
           /\ Past("sources") <=> 1 < pc
           /\ Past("stage1") <=> 2 < pc
           /\ Past("use-stage1") <=> 5 < pc
           /\ Past("swig") <=> 6 < pc
           /\ Past("libzstd") <=> 8 < pc
           /\ Past("libxml2") <=> 9 < pc
           /\ Past("liblzma") <=> 10 < pc
           /\ Past("libedit") <=> 11 < pc
           /\ Past("stage2") <=> 12 < pc
           /\ Past("use-stage2") <=> 14 < pc
           /\ Past("device-sysroots") <=> 15 < pc
           /\ Past("builtins") <=> 16 < pc
           /\ Past("libunwind") <=> 17 < pc
           /\ Past("platform-libcxxabi") <=> 18 < pc
           /\ Past("compiler-rt") <=> 19 < pc
           /\ Past("host-sysroots") <=> 26 < pc
           /\ Past("libcxx") <=> 28 < pc
           /\ Past("win-libzstd") <=> 29 < pc
           /\ Past("win-libxml2") <=> 30 < pc
           /\ Past("win-liblzma") <=> 31 < pc
           /\ Past("windows-x86-64") <=> 32 < pc
           /\ Past("bolt-instrument") <=> 34 < pc
  <1>1. pc \in 1 .. 37
    BY PastMoves
  <1>2. \A i \in 1 .. 37 : Past(Flow[i]) <=> i < pc
    BY PastMoves
  <1>3. /\ Flow[1] = "sources"
        /\ Flow[2] = "stage1"
        /\ Flow[5] = "use-stage1"
        /\ Flow[6] = "swig"
        /\ Flow[8] = "libzstd"
        /\ Flow[9] = "libxml2"
        /\ Flow[10] = "liblzma"
        /\ Flow[11] = "libedit"
        /\ Flow[12] = "stage2"
        /\ Flow[14] = "use-stage2"
        /\ Flow[15] = "device-sysroots"
    BY DEF Flow
  <1>4. /\ Past("sources") <=> 1 < pc
        /\ Past("stage1") <=> 2 < pc
        /\ Past("use-stage1") <=> 5 < pc
        /\ Past("swig") <=> 6 < pc
        /\ Past("libzstd") <=> 8 < pc
        /\ Past("libxml2") <=> 9 < pc
        /\ Past("liblzma") <=> 10 < pc
        /\ Past("libedit") <=> 11 < pc
        /\ Past("stage2") <=> 12 < pc
        /\ Past("use-stage2") <=> 14 < pc
        /\ Past("device-sysroots") <=> 15 < pc
    BY <1>2, <1>3
  <1>5. /\ Flow[16] = "builtins"
        /\ Flow[17] = "libunwind"
        /\ Flow[18] = "platform-libcxxabi"
        /\ Flow[19] = "compiler-rt"
        /\ Flow[26] = "host-sysroots"
        /\ Flow[28] = "libcxx"
        /\ Flow[29] = "win-libzstd"
        /\ Flow[30] = "win-libxml2"
        /\ Flow[31] = "win-liblzma"
        /\ Flow[32] = "windows-x86-64"
        /\ Flow[34] = "bolt-instrument"
    BY DEF Flow
  <1>6. /\ Past("builtins") <=> 16 < pc
        /\ Past("libunwind") <=> 17 < pc
        /\ Past("platform-libcxxabi") <=> 18 < pc
        /\ Past("compiler-rt") <=> 19 < pc
        /\ Past("host-sysroots") <=> 26 < pc
        /\ Past("libcxx") <=> 28 < pc
        /\ Past("win-libzstd") <=> 29 < pc
        /\ Past("win-libxml2") <=> 30 < pc
        /\ Past("win-liblzma") <=> 31 < pc
        /\ Past("windows-x86-64") <=> 32 < pc
        /\ Past("bolt-instrument") <=> 34 < pc
    BY <1>2, <1>5
  <1> QED
    BY <1>1, <1>4, <1>6

\* Whether a builder is due does not change within a run.
LEMMA DueSame ==
    ASSUME NEW b \in Builders, opt' = opt
    PROVE  Due(b)' <=> Due(b)
  <1>1. b # "bolt"
    BY BuilderFacts
  <1>2. Applies(b)' <=> Applies(b)
    BY <1>1 DEF Applies, NeedHost, NeedWindows, DoBoltInstrument, ShouldBuild, PassesFilters
  <1>3. ShouldBuild(opt, b)' <=> ShouldBuild(opt, b)
    BY DEF ShouldBuild, PassesFilters
  <1> QED
    BY <1>2, <1>3 DEF Due

\* Nothing is filtered in an unfiltered run, but --single-stage leaves stage1 out.
LEMMA FullBuilds ==
    ASSUME Full, NEW b
    PROVE  ShouldBuild(opt, b) <=> ~(opt.single /\ b = "stage1")
  BY DEF Full, Unfiltered, ShouldBuild, PassesFilters

\* When main() reaches the builders that others read from.
LEMMA FullDue ==
    ASSUME Full
    PROVE  /\ Due("stage1") <=> ~opt.single
           /\ Due("swig") <=> opt.lldb
           /\ Due("libzstd") <=> NeedHost(opt)
           /\ Due("libxml2") <=> NeedHost(opt)
           /\ Due("liblzma") <=> NeedHost(opt) /\ opt.lldb
           /\ Due("libedit") <=> NeedHost(opt) /\ opt.lldb
           /\ Due("stage2") <=> NeedHost(opt)
           /\ Due("host-sysroots") <=> NeedWindows(opt)
           /\ Due("libcxx") <=> NeedWindows(opt) /\ ~opt.sdk
           /\ Due("win-libzstd") <=> NeedWindows(opt)
           /\ Due("win-libxml2") <=> NeedWindows(opt)
           /\ Due("win-liblzma") <=> NeedWindows(opt) /\ opt.lldb
           /\ Due("windows-x86-64") <=> NeedWindows(opt)
           /\ Due("lldb-server") <=> NeedHost(opt) /\ LinuxHost /\ opt.runtimes /\ opt.lldb
           /\ \A b \in (Runtimes \ {"lldb-server"}) \cup {"device-sysroots"} :
                  Due(b) <=> NeedHost(opt) /\ LinuxHost /\ opt.runtimes
  BY FullBuilds DEF Due, Applies, Runtimes, HostTree

\* The kinds of step there are.
LEMMA NextCases ==
    ASSUME [Next]_vars
    PROVE  \/ UNCHANGED vars
           \/ StartRun
           \/ /\ pc' = 0 /\ toolchain' = "prebuilt" /\ UNCHANGED << disk, objs, run >>
              /\ ToolFails \/ Return \/ Kill \/ FileMissing
           \/ Harmless
           \/ CleanWindows
           \/ \E b \in Builders : BuildBegin(b) \/ Compile(b) \/ InstallBegin(b) \/ InstallEnd(b)
  BY DEF Next, Step, Finished, Harmless, Build, ToolFails, Return, Kill, FileMissing, Stop,
         diskVars

\* A harmless step is no builder's, or passes over one that is not due.
LEMMA HarmlessSkips ==
    ASSUME TypeOK, Harmless
    PROVE  /\ pc # 0 /\ UNCHANGED << disk, objs, rebuilt, opt, run, planted >>
           /\ Flow[pc] \in Builders => phase = 0 /\ ~Due(Flow[pc]) /\ pc' = pc + 1
           /\ \/ pc' = pc
              \/ pc' = pc + 1 /\ phase' = 0
  <1>1. CASE PassOver
    BY <1>1, HarmlessMoves DEF PassOver, Due, Advance
  <1>2. CASE ~PassOver
    <2>1. Flow[pc] \notin Builders /\ planted' = planted
      <3>1. CASE \/ WriteSourceInfo \/ PlaceSources
                 \/ LinkHeaders("stage1-links", "stage1") \/ LinkHeaders("stage2-links", "stage2")
                 \/ Test("stage1-test", "stage1") \/ Test("stage2-test", "stage2")
                 \/ UseStage1 \/ UseStage2 \/ ExtractProfiles
        BY <3>1, BuilderFacts DEF WriteSourceInfo, PlaceSources, LinkHeaders, Test, UseStage1, UseStage2,
           ExtractProfiles, diskVars, At, Builders, HostTree, WinTree, HostLibs, WinLibs, Sysroots
      <3>2. CASE MoveClang \/ RunLlvmBolt
        BY <3>2, BuilderFacts DEF MoveClang, RunLlvmBolt, BoltSteps, At
      <3>3. CASE PackageToolchain
        BY <3>3, BuilderFacts DEF PackageToolchain, PackageBegin, PackageEnd, TarBegin, TarEnd,
           PackageStep, At
      <3> QED
        BY <1>2, <3>1, <3>2, <3>3 DEF Harmless
    <2> QED
      BY <2>1, HarmlessMoves
  <1> QED
    BY <1>1, <1>2

\* A builder leaves alone what the builders before it have installed.
LEMMA ClearedLater ==
    ASSUME TypeOK, pc # 0, NEW b \in Builders, Flow[pc] = b, NEW x \in Builders, Past(x)
    PROVE  Cleared(x, b) = disk[x]
  <1>1. pc \in 1 .. 37
    BY PastMoves
  <1>2. x # b
    BY <1>1, PastMoves
  <1>3. x \notin Wiped(b)
    <2>1. CASE b = "stage2"
      <3>1. pc = 12
        BY <1>1, <2>1, Places
      <3> QED
        BY <1>1, <2>1, <3>1, WipedFacts, Places DEF HostTree, Past
    <2>2. CASE b # "stage2"
      BY <1>2, <2>2 DEF Wiped
    <2> QED
      BY <2>1, <2>2
  <1>4. ~(b = "device-sysroots" /\ x = "platform-libcxxabi")
    BY <1>1, Places DEF Past
  <1> QED
    BY <1>2, <1>3, <1>4 DEF Cleared

\* The compiler that compiles a builder of an unfiltered run is of this run.
LEMMA MadeIsOwn ==
    ASSUME TypeOK, FullInv, Full, NEW b \in Builders
    PROVE  /\ OwnCompiler(CompiledNow(b)) /\ OwnCompiler(Made(b))
           /\ Made(b).run = run /\ Made(b).lldb = opt.lldb /\ Made(b).made <= run
  <1>1. ASSUME toolchain = "stage1" PROVE disk[toolchain].run = run
    <2>1. Past("stage1") /\ ~opt.single
      BY <1>1, PastMoves, Places DEF FullInv, ToolchainInv, Full, Past
    <2> QED
      BY <1>1, <2>1, FullDue, BuilderFacts DEF FullInv, BuiltInv, MadeNow
  <1>2. ASSUME toolchain = "stage2" PROVE disk[toolchain].run = run
    <2>1. Past("stage2") /\ NeedHost(opt)
      BY <1>2, PastMoves, Places DEF FullInv, ToolchainInv, Full, Past
    <2> QED
      BY <1>2, <2>1, FullDue, BuilderFacts DEF FullInv, BuiltInv, MadeNow
  <1>3. OwnCompiler(CompiledNow(b)) /\ CompiledNow(b).made = run
    BY <1>1, <1>2 DEF CompiledNow, Compiler, OwnCompiler
  <1>4. OwnCompiler(objs[b]) /\ objs[b].made <= run
    BY DEF FullInv, OwnInv
  <1>5. run <= run
    BY Numbers
  <1> DEFINE o == IF b \in Dirless THEN CompiledNow(b) ELSE objs[b]
  <1>6. OwnCompiler(o) /\ o.made <= run
    BY <1>3, <1>4, <1>5
  <1>7. Made(b) = [ st |-> "partial", run |-> run, cc |-> o.cc, ccrun |-> o.ccrun,
                    lldb |-> opt.lldb, made |-> o.made, oldest |-> Oldest(b) ]
    BY DEF Made
  <1> HIDE DEF o
  <1> QED
    BY <1>3, <1>6, <1>7 DEF OwnCompiler

-----------------------------------------------------------------------------
(* Every step preserves FullInv. *)

LEMMA FullInvInit == Init => FullInv
  <1> SUFFICES ASSUME Init PROVE FullInv
    OBVIOUS
  <1>1. /\ pc = 0 /\ run = 0 /\ toolchain = "prebuilt" /\ ~Full
        /\ \A b \in Builders : disk[b] = Absent /\ objs[b] = NoObjects
    BY DEF Init, Full
  <1>2. OwnInv
    <2>1. Absent.made = 0 /\ NoObjects.made = 0 /\ 0 <= 0
      BY DEF Absent, NoObjects
    <2> QED
      BY <1>1, <2>1 DEF OwnInv
  <1>3. ToolchainInv
    <2>1. ~Past("use-stage1") /\ ~Past("use-stage2")
      BY <1>1 DEF Past
    <2> QED
      BY <1>1, <2>1 DEF ToolchainInv
  <1> QED
    BY <1>1, <1>2, <1>3 DEF FullInv, BuiltInv, DirsInv, SourcesInv, ClangInv, PlantedInv

\* Between runs there is little to say, and nothing is behind a run that begins.
LEMMA FullInvIdle ==
    ASSUME TypeOK, FullInv,
           \/ pc' = 0 /\ toolchain' = "prebuilt" /\ UNCHANGED << disk, objs, run >>
           \/ StartRun
           \/ UNCHANGED vars
    PROVE  FullInv'
  <1>1. CASE pc' = 0 /\ toolchain' = "prebuilt" /\ UNCHANGED << disk, objs, run >>
    <2>1. ~Full' /\ ~\E s : Past(s)'
      BY <1>1 DEF Full, Past
    <2>2. OwnInv'
      BY <1>1, <2>1 DEF FullInv, OwnInv
    <2>3. ToolchainInv'
      BY <1>1, <2>1 DEF ToolchainInv
    <2> QED
      BY <2>1, <2>2, <2>3 DEF FullInv, BuiltInv, DirsInv, SourcesInv, ClangInv, PlantedInv
  <1>2. CASE StartRun
    <2>1. /\ pc' = 1 /\ phase' = 0 /\ toolchain' = "prebuilt" /\ ~\E s : Past(s)'
          /\ run' = run + 1 /\ UNCHANGED << disk, objs >>
      BY <1>2 DEF StartRun, FullInv, ToolchainInv, Past, diskVars
    <2>2. Flow[1] = "sources"
      BY Places
    <2>3. OwnInv'
      <3> SUFFICES ASSUME NEW b \in Builders
                   PROVE  /\ disk[b].made <= run' /\ disk[b].made # run'
                          /\ objs[b].made <= run' /\ objs[b].made # run'
        BY <2>1 DEF OwnInv, OwnCompiler
      <3>1. disk[b].made <= run /\ objs[b].made <= run
        BY DEF FullInv, OwnInv
      <3>2. disk[b].made \in Nat /\ objs[b].made \in Nat /\ run \in Nat
        BY Numbers
      <3> QED
        BY <2>1, <3>1, <3>2
    <2>4. ToolchainInv'
      BY <2>1 DEF ToolchainInv
    <2>5. DirsInv' /\ BuiltInv' /\ SourcesInv' /\ ClangInv' /\ PlantedInv'
      BY <2>1, <2>2 DEF DirsInv, BuiltInv, SourcesInv, ClangInv, PlantedInv
    <2> QED
      BY <2>3, <2>4, <2>5 DEF FullInv
  <1>3. CASE UNCHANGED vars
    <2>1. \A b \in Builders : Due(b)' <=> Due(b)
      BY <1>3, DueSame DEF vars
    <2>2. \A s : Past(s)' <=> Past(s)
      BY <1>3 DEF vars, Past
    <2>3. \A b : MadeNow(b)' <=> MadeNow(b)
      BY <1>3 DEF vars, MadeNow
    <2>4. (NeedHost(opt)' <=> NeedHost(opt)) /\ (KeepsStage1(opt)' <=> KeepsStage1(opt))
      BY <1>3 DEF vars, NeedHost, KeepsStage1, Instrumented
    <2>5. Full' <=> Full
      BY <1>3 DEF vars, Full, Unfiltered
    <2>6. "builtins" \in Builders /\ "libunwind" \in Builders
      BY BuilderFacts DEF HostTree
    <2>7. ToolchainInv' /\ SourcesInv' /\ ClangInv'
      BY <1>3, <2>2, <2>4, <2>5 DEF vars, FullInv, ToolchainInv, SourcesInv, ClangInv
    <2>8. BuiltInv'
      BY <1>3, <2>1, <2>2, <2>3, <2>5 DEF vars, FullInv, BuiltInv, Touching
    <2>9. OwnInv'
      BY <1>3, <2>5 DEF vars, FullInv, OwnInv, OwnCompiler
    <2>11. DirsInv'
      BY <1>3, <2>1, <2>2, <2>5, BuilderFacts DEF vars, FullInv, DirsInv
    <2>10. PlantedInv'
      BY <1>3, <2>1, <2>2, <2>5, <2>6 DEF vars, FullInv, PlantedInv
    <2> QED
      BY <2>7, <2>8, <2>9, <2>10, <2>11 DEF FullInv
  <1> QED
    BY <1>1, <1>2, <1>3

\* The steps that are not builders.
LEMMA FullInvHarmless ==
    ASSUME TypeOK, FullInv, Harmless
    PROVE  FullInv'
  <1> USE DEF FullInv
  <1>1. /\ pc \in 1 .. 37 /\ UNCHANGED << disk, objs, rebuilt, opt, run, planted >>
        /\ Flow[pc] \in Builders => phase = 0 /\ ~Due(Flow[pc]) /\ pc' = pc + 1
        /\ pc' = pc \/ (pc' = pc + 1 /\ phase' = 0)
        /\ Full' <=> Full
    BY HarmlessSkips, PastMoves DEF Full, Unfiltered
  <1>2. \A b \in Builders : (Due(b)' <=> Due(b)) /\ (MadeNow(b)' <=> MadeNow(b))
    BY <1>1, DueSame DEF MadeNow
  <1>3. \A b \in Builders : Past(b)' /\ Due(b)' => Past(b) /\ Due(b)
    BY <1>1, <1>2, PastMoves
  <1>4. (NeedHost(opt)' <=> NeedHost(opt)) /\ (KeepsStage1(opt)' <=> KeepsStage1(opt))
    BY <1>1 DEF NeedHost, KeepsStage1, Instrumented
  <1>5. Full /\ NeedHost(opt) /\ Past("stage2")' => Past("stage2")
    BY <1>1, <1>2, <1>3, FullDue, BuilderFacts
  <1>6. BuiltInv'
    <2> SUFFICES ASSUME Full, NEW b \in Builders
                 PROVE  /\ Past(b) /\ Due(b) => disk[b].st = "ok"
                        /\ ~(Flow[pc'] = b /\ phase' = 3)
      BY <1>1, <1>2, <1>3 DEF BuiltInv
    <2>1. ~Touching(b)
      BY <1>1 DEF Touching, Builders, WinTree
    <2> QED
      BY <1>1, <2>1 DEF BuiltInv
  <1>7. OwnInv' /\ DirsInv'
    <2>1. \A b \in {"stage1", "stage2"} : b \in Builders /\ ~(Flow[pc'] = b /\ phase' = 3)
      BY <1>1, BuilderFacts
    <2> QED
      BY <1>1, <1>2, <1>3, <2>1 DEF OwnInv, OwnCompiler, DirsInv
  <1>8. PlantedInv'
    <2>1. toolchain' # toolchain => pc < 16
      <3>1. toolchain' # toolchain => Flow[pc] = "use-stage1" \/ Flow[pc] = "use-stage2"
        BY DEF Harmless, PassOver, WriteSourceInfo, PlaceSources, LinkHeaders, Test,
           UseStage1, UseStage2, ExtractProfiles, MoveClang, RunLlvmBolt, PackageToolchain,
           PackageBegin, PackageEnd, TarBegin, TarEnd, At
      <3>2. \A i \in 1 .. 37 : Flow[i] = "use-stage1" \/ Flow[i] = "use-stage2" => i < 16
        BY Places
      <3> QED
        BY <1>1, <3>1, <3>2
    <2>2. \A r \in {"builtins", "libunwind"} : r \in Builders /\ (Past(r) => pc >= 16)
      BY <1>1, BuilderFacts, PastMoves, Places DEF HostTree, Past
    <2> QED
      BY <1>1, <1>2, <1>3, <2>1, <2>2 DEF PlantedInv
  <1>9. ToolchainInv'
    <2>0. /\ Flow[pc] = "use-stage1" <=> pc = 5
          /\ Flow[pc] = "use-stage2" <=> pc = 14
          /\ Past("use-stage1") <=> 5 < pc
          /\ Past("use-stage2") <=> 14 < pc
      BY <1>1, Places, PastPlaces
    <2>4. /\ \A s : Past(s) => Past(s)'
          /\ \A s : Past(s)' => Past(s) \/ (pc' = pc + 1 /\ Flow[pc] = s)
      BY <1>1, PastMoves
    <2>1. CASE UseStage1
      <3>1. pc = 5 /\ ~opt.single /\ toolchain' = "stage1" /\ pc' = pc + 1
        BY <2>0, <2>1 DEF UseStage1, Applies, At, Advance, Runtimes, HostTree
      <3>2. Past("use-stage1")' /\ ~Past("use-stage2")'
        BY <1>1, <2>0, <3>1, PastMoves
      <3> QED
        BY <1>1, <3>1, <3>2 DEF ToolchainInv
    <2>2. CASE UseStage2
      <3>1. /\ NeedHost(opt) /\ Past("use-stage2")' /\ Past("use-stage1") /\ pc' # 0
            /\ toolchain' = IF KeepsStage1(opt) THEN toolchain ELSE "stage2"
        BY <1>1, <2>0, <2>2, PastMoves DEF UseStage2, Applies, At, Advance
      <3> QED
        BY <1>1, <1>4, <2>0, <2>4, <3>1 DEF ToolchainInv
    <2>3. CASE ~UseStage1 /\ ~UseStage2
      <3>1. toolchain' = toolchain
        BY <2>3 DEF Harmless, PassOver, WriteSourceInfo, PlaceSources, LinkHeaders, Test,
         ExtractProfiles, MoveClang, RunLlvmBolt, PackageToolchain,
         PackageBegin, PackageEnd, TarBegin, TarEnd
      <3>2. Flow[pc] \in {"use-stage1", "use-stage2"} => PassOver
        BY <2>3 DEF Harmless, WriteSourceInfo, PlaceSources, LinkHeaders, Test,
         ExtractProfiles, MoveClang, RunLlvmBolt, BoltSteps, PackageToolchain,
         PackageBegin, PackageEnd, TarBegin, TarEnd, At, PackageStep
      <3>3. /\ Flow[pc] = "use-stage1" => opt.single
            /\ Flow[pc] = "use-stage2" => ~NeedHost(opt)
        BY <3>2, BuilderFacts DEF PassOver, Applies, Builders, HostTree, WinTree, HostLibs, WinLibs,
           Sysroots, Runtimes
      <3> QED
        BY <1>1, <1>4, <2>0, <2>4, <3>1, <3>3 DEF ToolchainInv
    <2> QED
      BY <2>1, <2>2, <2>3
  <1>10. SourcesInv'
    <2> SUFFICES ASSUME Full
                 PROVE  /\ Past("sources")' => tree' /\ info'
                        /\ pc' = 1 /\ phase' = 1 => info'
      BY <1>1 DEF SourcesInv
    <2>1. (tree => tree') /\ (info => info')
      BY DEF Harmless, PassOver, WriteSourceInfo, PlaceSources, LinkHeaders, Test,
         UseStage1, UseStage2, ExtractProfiles, MoveClang, RunLlvmBolt, PackageToolchain,
         PackageBegin, PackageEnd, TarBegin, TarEnd, diskVars
    <2>2. Past("sources") <=> pc > 1
      BY <1>1, PastMoves, Places
    <2>3. CASE pc > 1
      BY <1>1, <2>1, <2>2, <2>3, PastMoves DEF SourcesInv
    <2>4. CASE pc = 1
      <3>1. Flow[pc] = "sources" /\ opt.setup /\ opt.patches
        BY <2>4, Places DEF Full, Unfiltered
      <3>2. WriteSourceInfo \/ PlaceSources
        <4>1. ~PassOver
          BY <3>1, BuilderFacts DEF PassOver, Applies, Runtimes, HostTree
        <4>2. ~MoveClang /\ ~RunLlvmBolt
          BY <3>1 DEF MoveClang, RunLlvmBolt, BoltSteps, At
        <4>3. ~PackageToolchain
          BY <3>1 DEF PackageToolchain, PackageBegin, PackageEnd, TarBegin, TarEnd, At, PackageStep
        <4> QED
          BY <3>1, <4>1, <4>2, <4>3 DEF Harmless, LinkHeaders, Test, UseStage1, UseStage2,
             ExtractProfiles, At
      <3>3. CASE WriteSourceInfo
        BY <1>1, <2>2, <2>4, <3>3, PastMoves DEF WriteSourceInfo, Stay
      <3>4. CASE PlaceSources
        BY <1>1, <2>4, <3>1, <3>4, PastMoves DEF PlaceSources, Advance, SourcesInv
      <3> QED
        BY <3>2, <3>3, <3>4
    <2> QED
      BY <1>1, <2>3, <2>4
  <1>11. ClangInv'
    <2> SUFFICES ASSUME Full, NeedHost(opt), Past("stage2"),
                        ~(Flow[pc'] \in BoltSteps /\ phase' = 1)
                 PROVE  clang' # "absent"
      BY <1>1, <1>4, <1>5 DEF ClangInv
    <2>1. CASE MoveClang
      BY <2>1 DEF MoveClang, Stay, At
    <2>2. CASE RunLlvmBolt
      BY <2>2 DEF RunLlvmBolt
    <2>3. CASE ~MoveClang /\ ~RunLlvmBolt
      <3>1. clang' = clang
        BY <2>3 DEF Harmless, PassOver, WriteSourceInfo, PlaceSources, LinkHeaders, Test,
         UseStage1, UseStage2, ExtractProfiles, PackageToolchain,
         PackageBegin, PackageEnd, TarBegin, TarEnd, diskVars
      <3>2. ~(Flow[pc] \in BoltSteps /\ phase = 1)
        BY <2>3 DEF Harmless, PassOver, WriteSourceInfo, PlaceSources, LinkHeaders, Test,
         UseStage1, UseStage2, ExtractProfiles, PackageToolchain,
         PackageBegin, PackageEnd, TarBegin, TarEnd, At, BoltSteps, PackageStep
      <3> QED
        BY <3>1, <3>2 DEF ClangInv
    <2> QED
      BY <2>1, <2>2, <2>3
  <1> QED
    BY <1>6, <1>7, <1>8, <1>9, <1>10, <1>11

\* What CleanWindows deletes is built after it.
LEMMA FullInvClean ==
    ASSUME TypeOK, FullInv, CleanWindows
    PROVE  FullInv'
  <1> USE DEF FullInv
  <1>1. /\ pc = 27 /\ pc' = 28 /\ phase' = 0
        /\ disk' = [b \in Builders |-> IF b \in WinTree THEN Absent ELSE disk[b]]
        /\ UNCHANGED << opt, run, toolchain, fdata, rebuilt, tree, info, objs, clang, planted >>
        /\ Full' <=> Full
        /\ Flow[27] = "win-clean" /\ Flow[28] = "libcxx"
    BY PastMoves, Places DEF CleanWindows, At, Advance, Full, Unfiltered
  <1>2. \A s : Past(s)' <=> Past(s) \/ s = "win-clean"
    BY <1>1, PastMoves
  <1>3. ~Past("libcxx") /\ ~Past("windows-x86-64")
    BY <1>1, PastPlaces
  <1>4. \A b \in Builders : (Due(b)' <=> Due(b)) /\ b # "win-clean"
    BY <1>1, DueSame, BuilderFacts
  <1>5. \A b \in HostTree : disk'[b] = disk[b] /\ b \in Builders
    BY <1>1, BuilderFacts
  <1>6. BuiltInv'
    <2> SUFFICES ASSUME Full, NEW b \in Builders, Past(b), Due(b)
                 PROVE  MadeNow(b)' /\ disk'[b].st = "ok"
      BY <1>1, <1>2, <1>4 DEF BuiltInv
    <2>1. disk'[b] = disk[b]
      BY <1>1, <1>3 DEF WinTree
    <2> QED
      BY <1>1, <2>1 DEF BuiltInv, Touching, MadeNow
  <1>7. ToolchainInv' /\ SourcesInv'
    BY <1>1, <1>2 DEF ToolchainInv, SourcesInv, NeedHost, KeepsStage1, Instrumented
  <1>8. ClangInv' /\ PlantedInv'
    BY <1>1, <1>2, <1>4, BuilderFacts DEF ClangInv, PlantedInv, NeedHost, BoltSteps, HostTree
  <1>9. OwnInv'
    <2>1. \A b \in Builders : disk'[b] \in {disk[b], Absent}
      BY <1>1
    <2>2. 0 <= run
      BY Numbers
    <2> QED
      BY <1>1, <2>1, <2>2 DEF OwnInv, OwnCompiler, Absent
  <1>10. DirsInv'
    BY <1>1, <1>2, <1>4, BuilderFacts DEF DirsInv
  <1> QED
    BY <1>6, <1>7, <1>8, <1>9, <1>10

\* A builder begins: what it deletes is not behind it.
LEMMA FullInvBegin ==
    ASSUME TypeOK, FullInv, NEW b \in Builders, BuildBegin(b)
    PROVE  FullInv'
  <1> USE DEF FullInv
  <1>1. /\ pc \in 1 .. 37 /\ Flow[pc] = b /\ phase = 0 /\ pc' = pc /\ phase' = 1
        /\ disk' = [x \in Builders |-> Cleared(x, b)]
        /\ UNCHANGED << opt, run, toolchain, fdata, rebuilt, tree, info, objs, planted >>
        /\ Full' <=> Full
    BY PastMoves DEF BuildBegin, Building, At, Stay, Full, Unfiltered
  <1>2. \A s : Past(s)' <=> Past(s)
    BY <1>1, PastMoves
  <1>3. \A x \in Builders : Due(x)' <=> Due(x)
    BY <1>1, DueSame
  <1>4. \A x \in Builders : Past(x) => disk'[x] = disk[x]
    BY <1>1, ClearedLater
  <1>5. ~Past(b)
    BY <1>1, PastMoves
  <1>6. (NeedHost(opt)' <=> NeedHost(opt)) /\ (KeepsStage1(opt)' <=> KeepsStage1(opt))
    BY <1>1 DEF NeedHost, KeepsStage1, Instrumented
  <1>7. BuiltInv'
    BY <1>1, <1>2, <1>3, <1>4 DEF BuiltInv, Touching, MadeNow
  <1>8. ToolchainInv' /\ PlantedInv'
    BY <1>1, <1>2, <1>3, <1>6, BuilderFacts DEF ToolchainInv, PlantedInv, HostTree
  <1>9. SourcesInv'
    BY <1>1, <1>2, Places, BuilderFacts DEF SourcesInv
  <1>10. ClangInv'
    BY <1>1, <1>2, <1>5, <1>6, BuilderFacts DEF ClangInv, BuildBegin, BoltSteps
  <1>11. OwnInv'
    <2> SUFFICES ASSUME NEW x \in Builders
                 PROVE  /\ disk'[x].made <= run
                        /\ Full => OwnCompiler(disk'[x])
      BY <1>1 DEF OwnInv, OwnCompiler
    <2>1. disk'[x] = Absent \/ disk'[x] = disk[x] \/ disk'[x] = [disk[x] EXCEPT !.st = "partial"]
      BY <1>1 DEF Cleared
    <2>2. disk[x] \in Product /\ 0 <= run
      BY Numbers
    <2>3. \/ disk'[x].cc = "none" /\ disk'[x].made = 0
          \/ /\ disk'[x].cc = disk[x].cc /\ disk'[x].ccrun = disk[x].ccrun
             /\ disk'[x].made = disk[x].made
      BY <2>1, <2>2 DEF Product, Absent
    <2> QED
      BY <2>2, <2>3 DEF OwnInv, OwnCompiler
  <1>12. DirsInv'
    BY <1>1, <1>2, <1>3, BuilderFacts DEF DirsInv
  <1> QED
    BY <1>7, <1>8, <1>9, <1>10, <1>11, <1>12

\* A builder compiles, with what main() has made its compiler.
LEMMA FullInvCompile ==
    ASSUME TypeOK, FullInv, NEW b \in Builders, Compile(b)
    PROVE  FullInv'
  <1> USE DEF FullInv
  <1>1. /\ pc \in 1 .. 37 /\ Flow[pc] = b /\ phase = 1 /\ pc' = pc /\ phase' = 2
        /\ UNCHANGED << opt, run, toolchain, fdata, rebuilt, tree, info, disk, clang, planted >>
        /\ Full' <=> Full
    BY PastMoves DEF Compile, Building, At, Stay, Full, Unfiltered
  <1>2. \A s : Past(s)' <=> Past(s)
    BY <1>1, PastMoves
  <1>3. \A x \in Builders : Due(x)' <=> Due(x)
    BY <1>1, DueSame
  <1>4. objs \in [Builders -> Objects] /\ run \in Nat /\ objs[b].made \in Nat
    BY Numbers
  <1>5. ~Past(b)
    BY <1>1, PastMoves
  <1>6. (NeedHost(opt)' <=> NeedHost(opt)) /\ (KeepsStage1(opt)' <=> KeepsStage1(opt))
    BY <1>1 DEF NeedHost, KeepsStage1, Instrumented
  <1>7. \A x \in Builders \ {b} : objs'[x] = objs[x]
    BY <1>4 DEF Compile
  <1>8. BuiltInv'
    BY <1>1, <1>2, <1>3 DEF BuiltInv, Touching, MadeNow
  <1>9. ToolchainInv' /\ PlantedInv'
    BY <1>1, <1>2, <1>3, <1>6, BuilderFacts DEF ToolchainInv, PlantedInv, HostTree
  <1>10. SourcesInv'
    BY <1>1, <1>2, Places, BuilderFacts DEF SourcesInv
  <1>11. ClangInv'
    BY <1>1, <1>2, <1>6, BuilderFacts DEF ClangInv, BoltSteps
  <1>12. OwnInv'
    <2> SUFFICES objs'[b].made <= run /\ (Full => OwnCompiler(objs'[b]))
      BY <1>1, <1>7 DEF OwnInv, OwnCompiler
    <2>1. CASE objs'[b] = CompiledNow(b)
      <3>1. objs'[b].made = run
        BY <2>1 DEF CompiledNow
      <3> QED
        BY <1>4, <2>1, <3>1, MadeIsOwn
    <2>2. CASE objs'[b] = objs[b] \/ objs'[b] = [objs[b] EXCEPT !.st = "partial"]
      <3>1. objs[b] \in Objects
        BY <1>4
      <3>2. /\ objs'[b].made = objs[b].made /\ objs'[b].cc = objs[b].cc
            /\ objs'[b].ccrun = objs[b].ccrun
        BY <2>2, <3>1 DEF Objects
      <3> QED
        BY <3>2 DEF OwnInv, OwnCompiler
    <2> QED
      BY <1>4, <2>1, <2>2 DEF Compile
  <1>13. DirsInv'
    BY <1>1, <1>2, <1>3, <1>5, <1>7, BuilderFacts DEF DirsInv
  <1> QED
    BY <1>8, <1>9, <1>10, <1>11, <1>12, <1>13

\* A builder installs what it has compiled.
LEMMA FullInvInstall ==
    ASSUME TypeOK, FullInv, NEW b \in Builders, InstallBegin(b)
    PROVE  FullInv'
  <1> USE DEF FullInv
  <1>1. /\ pc \in 1 .. 37 /\ Flow[pc] = b /\ phase = 2 /\ pc' = pc /\ phase' = 3
        /\ disk' = [disk EXCEPT !["host-sysroots"] = Touched(b, "partial"),
                                ![b] = Made(b)]
        /\ UNCHANGED << opt, run, toolchain, fdata, rebuilt, tree, info, planted >>
        /\ Full' <=> Full
    BY PastMoves DEF InstallBegin, Building, At, Stay, Full, Unfiltered
  <1>2. \A s : Past(s)' <=> Past(s)
    BY <1>1, PastMoves
  <1>3. \A x \in Builders : Due(x)' <=> Due(x)
    BY <1>1, DueSame
  <1>4. /\ disk \in [Builders -> Product] /\ "host-sysroots" \in Builders
        /\ objs \in [Builders -> Objects] /\ run \in Nat
    BY BuilderFacts, Numbers
  <1>5. /\ disk'[b] = Made(b)
        /\ \A x \in Builders \ {b, "host-sysroots"} : disk'[x] = disk[x]
        /\ b # "host-sysroots" => disk'["host-sysroots"] = Touched(b, "partial")
    BY <1>1, <1>4
  <1>6. ~Past(b)
    BY <1>1, PastMoves
  <1>7. (NeedHost(opt)' <=> NeedHost(opt)) /\ (KeepsStage1(opt)' <=> KeepsStage1(opt))
    BY <1>1 DEF NeedHost, KeepsStage1, Instrumented
  <1>8. BuiltInv'
    <2> SUFFICES ASSUME Full, NEW x \in Builders
                 PROVE  /\ Past(x) /\ Due(x) => MadeNow(x)' /\ (disk'[x].st = "ok" \/ Touching(x)')
                        /\ b = x => MadeNow(x)'
      BY <1>1, <1>2, <1>3 DEF BuiltInv
    <2>1. MadeNow(b)'
      BY <1>1, <1>5, MadeIsOwn DEF MadeNow
    <2>2. ASSUME Past(x), Due(x) PROVE MadeNow(x)' /\ (disk'[x].st = "ok" \/ Touching(x)')
      <3>1. x # b /\ MadeNow(x) /\ disk[x].st = "ok"
        BY <1>1, <1>6, <2>2 DEF BuiltInv, Touching
      <3>2. CASE x # "host-sysroots" \/ b # "libcxx"
        <4>1. disk'[x] = disk[x]
          BY <1>5, <3>1, <3>2 DEF Touched
        <4> QED
          BY <1>1, <3>1, <4>1 DEF MadeNow
      <3>3. CASE x = "host-sysroots" /\ b = "libcxx"
        <4>1. disk'[x] = [disk[x] EXCEPT !.st = "partial"]
          BY <1>5, <3>3 DEF Touched
        <4>2. disk'[x].run = disk[x].run /\ disk'[x].lldb = disk[x].lldb
          BY <1>4, <3>3, <4>1 DEF Product
        <4> QED
          BY <1>1, <3>1, <3>3, <4>2 DEF MadeNow, Touching
      <3> QED
        BY <3>2, <3>3
    <2> QED
      BY <2>1, <2>2
  <1>9. ToolchainInv' /\ PlantedInv'
    BY <1>1, <1>2, <1>3, <1>7, BuilderFacts DEF ToolchainInv, PlantedInv, HostTree
  <1>10. SourcesInv'
    BY <1>1, <1>2, Places, BuilderFacts DEF SourcesInv
  <1>11. ClangInv'
    BY <1>1, <1>2, <1>6, <1>7, BuilderFacts DEF ClangInv, InstallBegin, BoltSteps
  <1>13. objs'[b] = objs[b] \/ objs'[b] = [objs[b] EXCEPT !.st = "ok", !.lldb = @ \/ opt.lldb]
    BY <1>4 DEF InstallBegin
  <1>14. \A x \in Builders \ {b} : objs'[x] = objs[x]
    BY <1>4 DEF InstallBegin
  <1>15. /\ objs[b] \in Objects
         /\ objs'[b].made = objs[b].made /\ objs'[b].cc = objs[b].cc
         /\ objs'[b].ccrun = objs[b].ccrun
    BY <1>4, <1>13 DEF Objects
  <1>12. OwnInv'
    <2> SUFFICES ASSUME NEW x \in Builders
                 PROVE  disk'[x].made <= run /\ (Full => OwnCompiler(disk'[x]))
      <3>1. \A x \in Builders : /\ objs'[x].made = objs[x].made /\ objs'[x].cc = objs[x].cc
                                /\ objs'[x].ccrun = objs[x].ccrun
        BY <1>14, <1>15
      <3> QED
        BY <1>1, <3>1 DEF OwnInv, OwnCompiler
    <2>1. CASE x = b
      <3>1. disk'[b].made <= run
        <4>1. Made(b).made = (IF b \in Dirless THEN CompiledNow(b) ELSE objs[b]).made
          BY DEF Made
        <4>2. CompiledNow(b).made = run
          BY DEF CompiledNow
        <4> QED
          BY <1>4, <1>5, <4>1, <4>2 DEF OwnInv
      <3> QED
        BY <1>5, <2>1, <3>1, MadeIsOwn
    <2>2. CASE x # b
      <3>1. disk'[x] = disk[x] \/ disk'[x] = [disk[x] EXCEPT !.st = "partial"]
        BY <1>5, <2>2 DEF Touched
      <3>2. disk[x] \in Product
        BY <1>4
      <3>3. /\ disk'[x].made = disk[x].made /\ disk'[x].cc = disk[x].cc
            /\ disk'[x].ccrun = disk[x].ccrun
        BY <3>1, <3>2 DEF Product
      <3> QED
        BY <3>3 DEF OwnInv, OwnCompiler
    <2> QED
      BY <2>1, <2>2
  <1>16. DirsInv'
    <2>1. b \in {"stage1", "stage2"} => b \notin Dirless
      BY DEF Dirless, CopyBuilders
    <2>2. b \in {"stage1", "stage2"} => objs'[b].st = "ok" /\ objs'[b].lldb = (objs[b].lldb \/ opt.lldb)
      BY <1>4, <1>15, <2>1 DEF InstallBegin, Objects
    <2> QED
      BY <1>1, <1>2, <1>3, <1>6, <1>14, <2>2, BuilderFacts DEF DirsInv
  <1> QED
    BY <1>8, <1>9, <1>10, <1>11, <1>12, <1>16

\* A builder is done.
LEMMA FullInvEnd ==
    ASSUME TypeOK, FullInv, NEW b \in Builders, InstallEnd(b)
    PROVE  FullInv'
  <1> USE DEF FullInv
  <1>1. /\ pc \in 1 .. 37 /\ Flow[pc] = b /\ phase = 3 /\ pc' = pc + 1 /\ phase' = 0
        /\ disk' = [disk EXCEPT !["host-sysroots"] = Touched(b, "ok"),
                                !["platform-libcxxabi"] =
                                    IF b = "device-sysroots" THEN Absent ELSE @,
                                ![b].st = "ok"]
        /\ planted' = planted \cup Copies(b)
        /\ UNCHANGED << opt, run, toolchain, fdata, tree, info, objs >>
        /\ Full' <=> Full
    BY PastMoves DEF InstallEnd, Building, At, Advance, Full, Unfiltered
  <1>2. \A s : Past(s)' <=> Past(s) \/ s = b
    BY <1>1, PastMoves
  <1>3. \A x \in Builders : Due(x)' <=> Due(x)
    BY <1>1, DueSame
  <1>4. disk \in [Builders -> Product] /\ "host-sysroots" \in Builders
    BY BuilderFacts DEF TypeOK, DiskTypeOK
  <1> DEFINE Gone(x) == x = "platform-libcxxabi" /\ b = "device-sysroots"
  <1>5. \A x \in Builders :
           IF Gone(x) THEN disk'[x] = Absent ELSE
           /\ disk'[x].run = disk[x].run /\ disk'[x].lldb = disk[x].lldb
           /\ disk'[x].cc = disk[x].cc /\ disk'[x].ccrun = disk[x].ccrun
           /\ disk'[x].made = disk[x].made
           /\ disk'[x].st \in {disk[x].st, "ok"}
           /\ x = b => disk'[x].st = "ok"
           /\ x = "host-sysroots" /\ b = "libcxx" => disk'[x].st = "ok"
    <2> DEFINE D == [disk EXCEPT !["host-sysroots"] = Touched(b, "ok")]
               E == [D EXCEPT !["platform-libcxxabi"] = IF b = "device-sysroots" THEN Absent ELSE @]
    <2>1. Touched(b, "ok") \in Product
      BY TouchedType DEF TypeOK
    <2>2. /\ D \in [Builders -> Product]
          /\ \A x \in Builders \ {"host-sysroots"} : D[x] = disk[x]
          /\ D["host-sysroots"] = Touched(b, "ok")
      BY <1>4, <2>1
    <2>7. disk' = [E EXCEPT ![b] = [E[b] EXCEPT !.st = "ok"]]
      BY <1>1
    <2> HIDE DEF D
    <2>8. /\ E \in [Builders -> Product]
          /\ \A x \in Builders : E[x] = IF Gone(x) THEN Absent ELSE D[x]
      BY <2>2, AbsentType
    <2> HIDE DEF E
    <2>4. /\ \A x \in Builders \ {b} : disk'[x] = E[x]
          /\ disk'[b] = [E[b] EXCEPT !.st = "ok"]
      BY <2>7, <2>8
    <2>5. \A x \in Builders :
           /\ D[x].run = disk[x].run /\ D[x].lldb = disk[x].lldb
           /\ D[x].cc = disk[x].cc /\ D[x].ccrun = disk[x].ccrun
           /\ D[x].made = disk[x].made
           /\ D[x].st \in {disk[x].st, "ok"}
           /\ x = "host-sysroots" /\ b = "libcxx" => D[x].st = "ok"
      BY <1>4, <2>2 DEF Touched, Product
    <2>6. E[b] \in Product /\ ~Gone(b)
      BY <2>8
    <2>9. /\ disk'[b].run = E[b].run /\ disk'[b].lldb = E[b].lldb
          /\ disk'[b].cc = E[b].cc /\ disk'[b].ccrun = E[b].ccrun
          /\ disk'[b].made = E[b].made /\ disk'[b].st = "ok"
      BY <2>4, <2>6 DEF Product
    <2> HIDE DEF Gone
    <2>10. ASSUME NEW x \in Builders, x # b
           PROVE  disk'[x] = IF Gone(x) THEN Absent ELSE D[x]
      BY <2>4, <2>8, <2>10
    <2>11. E[b] = D[b]
      BY <2>6, <2>8
    <2>12. ASSUME NEW x \in Builders, x # b, ~Gone(x)
           PROVE  disk'[x] = D[x]
      BY <2>10, <2>12
    <2> QED
      BY <2>5, <2>6, <2>9, <2>10, <2>11, <2>12
  <1>6. (NeedHost(opt)' <=> NeedHost(opt)) /\ (KeepsStage1(opt)' <=> KeepsStage1(opt))
    BY <1>1 DEF NeedHost, KeepsStage1, Instrumented
  <1>7. \A x \in Builders : ~Gone(x) => (MadeNow(x)' <=> MadeNow(x))
    BY <1>1, <1>5 DEF MadeNow
  <1>13. \A x : Past(x) \/ x = b => ~Gone(x)
    BY <1>1, Places DEF Past
  <1>8. BuiltInv'
    <2>1. ASSUME Full, NEW x \in Builders, Past(x) \/ x = b, Due(x)
          PROVE  MadeNow(x)' /\ disk'[x].st = "ok"
      <3>0. ~Gone(x)
        BY <1>13, <2>1
      <3>1. CASE x = b
        BY <1>1, <1>5, <1>7, <2>1, <3>0, <3>1 DEF BuiltInv
      <3>2. CASE x # b
        <4>1. MadeNow(x) /\ (disk[x].st = "ok" \/ Touching(x))
          BY <2>1, <3>2 DEF BuiltInv
        <4> QED
          BY <1>1, <1>5, <1>7, <2>1, <3>0, <4>1 DEF Touching
      <3> QED
        BY <3>1, <3>2
    <2>2. phase' # 3
      BY <1>1
    <2>3. ASSUME Full', NEW x \in Builders, Past(x)', Due(x)'
          PROVE  MadeNow(x)' /\ disk'[x].st = "ok"
      BY <1>1, <1>2, <1>3, <2>1, <2>3
    <2> QED
      BY <2>2, <2>3 DEF BuiltInv
  <1>9. ToolchainInv' /\ SourcesInv'
    BY <1>1, <1>2, <1>6, BuilderFacts DEF ToolchainInv, SourcesInv
  <1>10. ClangInv'
    BY <1>1, <1>2, <1>6, BuilderFacts DEF ClangInv, InstallEnd, BoltSteps
  <1>11. OwnInv'
    <2> SUFFICES ASSUME NEW x \in Builders
                 PROVE  disk'[x].made <= run /\ (Full => OwnCompiler(disk'[x]))
      BY <1>1 DEF OwnInv, OwnCompiler
    <2>1. CASE Gone(x)
      <3>1. 0 <= run
        BY Numbers
      <3> QED
        BY <1>5, <2>1, <3>1 DEF OwnCompiler, Absent
    <2>2. CASE ~Gone(x)
      BY <1>5, <2>2 DEF OwnInv, OwnCompiler
    <2> QED
      BY <2>1, <2>2
  <1>14. DirsInv'
    BY <1>1, <1>2, <1>3, BuilderFacts DEF DirsInv
  <1>12. PlantedInv'
    BY <1>1, <1>2, <1>3, BuilderFacts DEF PlantedInv, Copies, HostTree
  <1> QED
    BY <1>8, <1>9, <1>10, <1>11, <1>12, <1>14

LEMMA FullInvStep ==
    ASSUME TypeOK, FullInv, [Next]_vars
    PROVE  FullInv'
  BY NextCases, FullInvIdle, FullInvHarmless, FullInvClean, FullInvBegin, FullInvCompile,
     FullInvInstall, FullInvEnd

-----------------------------------------------------------------------------
(* An unfiltered run finds what it reads. *)

\* What is behind and was due is complete, and of this run.
LEMMA BehindReady ==
    ASSUME FullInv, Full, NEW b \in Builders, Past(b), Due(b), phase # 3
    PROVE  disk[b].st = "ok" /\ disk[b].lldb = opt.lldb
  BY DEF FullInv, BuiltInv, Touching, MadeNow

\* The compiler in use is complete, and so is the directory it was built in.
LEMMA ToolchainReady ==
    ASSUME TypeOK, FullInv, Full, toolchain \in {"stage1", "stage2"}
    PROVE  /\ toolchain \in Builders /\ Past(toolchain) /\ Due(toolchain)
           /\ disk[toolchain].st = "ok"
           /\ objs[toolchain].st = "ok" /\ (opt.lldb => objs[toolchain].lldb)
           /\ toolchain = "stage2" => NeedHost(opt)
  <1>1. CASE toolchain = "stage1"
    <2>1. Past("stage1") /\ Due("stage1")
      BY <1>1, PastPlaces, FullDue DEF FullInv, ToolchainInv, Full
    <2> QED
      BY <1>1, <2>1, BuilderFacts DEF FullInv, BuiltInv, Touching, DirsInv
  <1>2. CASE toolchain = "stage2"
    <2>1. Past("stage2") /\ Due("stage2") /\ NeedHost(opt)
      BY <1>2, PastPlaces, FullDue DEF FullInv, ToolchainInv, Full
    <2> QED
      BY <1>2, <2>1, BuilderFacts DEF FullInv, BuiltInv, Touching, DirsInv
  <1> QED
    BY <1>1, <1>2

\* Every product a builder reads is made before it, under the same options.
LEMMA InputsReady ==
    ASSUME TypeOK, FullInv, Full, NEW b, Building(b), phase # 3, NEW i \in Inputs(b)
    PROVE  disk[i].st = "ok"
  <1>1. /\ pc \in 1 .. 37 /\ Flow[pc] = b /\ Due(b) /\ b \in Builders
    BY PastPlaces DEF Building, At, Due
  <1>2. CASE i = toolchain /\ toolchain \in {"stage1", "stage2"}
    BY <1>2, ToolchainReady
  <1>3. CASE ~(i = toolchain /\ toolchain \in {"stage1", "stage2"})
    <2> SUFFICES i \in Builders /\ Past(i) /\ Due(i)
      BY BehindReady
    <2> DEFINE HostLibsNow == { "libzstd", "libxml2" } \cup
                                (IF opt.lldb THEN { "swig", "liblzma", "libedit" } ELSE {})
               WinLibsNow == { "win-libzstd", "win-libxml2" } \cup
                               (IF opt.lldb THEN { "swig", "win-liblzma" } ELSE {})
    <2>1. CASE b = "stage2"
      <3>1. i \in HostLibsNow
        <4>1. Inputs("stage2") = (IF Compiler("stage2") \in {"stage1", "stage2"}
                                  THEN {toolchain} ELSE {}) \cup HostLibsNow
          BY DEF Inputs, Runtimes, HostTree, WinLibs
        <4> HIDE DEF HostLibsNow
        <4> QED
          BY <1>3, <2>1, <4>1 DEF Compiler
      <3>2. pc = 12 /\ NeedHost(opt)
        BY <1>1, <2>1, FullDue, Places
      <3> QED
        BY <3>1, <3>2, FullDue, PastPlaces DEF Builders, HostLibs
    <2>2. CASE b = "windows-x86-64"
      <3>1. i \in WinLibsNow \/ (~opt.sdk /\ i = "host-sysroots")
        <4>1. Inputs("windows-x86-64") =
                 (IF Compiler("windows-x86-64") \in {"stage1", "stage2"} THEN {toolchain} ELSE {})
                 \cup (WinLibsNow \cup (IF opt.sdk THEN {} ELSE {"host-sysroots"}))
          BY DEF Inputs, Runtimes, HostTree, WinLibs
        <4> HIDE DEF WinLibsNow
        <4> QED
          BY <1>3, <2>2, <4>1 DEF Compiler
      <3>2. pc = 32 /\ NeedWindows(opt)
        BY <1>1, <2>2, FullDue, Places
      <3> QED
        BY <3>1, <3>2, FullDue, PastPlaces DEF Builders, WinLibs, Sysroots
    <2>3. CASE b \in WinLibs \cup {"libcxx"}
      <3>1. i = "host-sysroots"
        <4>1. Inputs(b) = (IF Compiler(b) \in {"stage1", "stage2"} THEN {toolchain} ELSE {})
                          \cup (IF opt.sdk THEN {} ELSE {"host-sysroots"})
          BY <2>3 DEF Inputs, Runtimes, HostTree, WinLibs
        <4> QED
          BY <1>3, <4>1 DEF Compiler
      <3>2. pc > 26 /\ NeedWindows(opt)
        BY <1>1, <2>3, FullDue, Places DEF WinLibs
      <3> QED
        BY <3>1, <3>2, FullDue, PastPlaces, BuilderFacts
    <2>4. CASE b \in Runtimes
      <3>1. NeedHost(opt) /\ LinuxHost /\ opt.runtimes
        BY <1>1, <2>4, FullDue
      <3>2. Due("stage2") /\ Due("device-sysroots") /\ Due("platform-libcxxabi")
            /\ Due("compiler-rt")
        BY <3>1, FullDue DEF Runtimes, HostTree
      <3>3. \/ i \in {"stage2", "device-sysroots"}
            \/ i = "platform-libcxxabi" /\ b \in {"compiler-rt", "tsan"}
            \/ i = "compiler-rt" /\ b = "sanitizer-mapfile"
        BY <1>3, <2>4 DEF Inputs, Compiler, Runtimes, HostTree, WinLibs
      <3>4. pc > 15 /\ (b \in {"compiler-rt", "tsan"} => pc > 18) /\ (b = "sanitizer-mapfile" => pc > 19)
        BY <1>1, <2>4, Places DEF Runtimes, HostTree
      <3> QED
        BY <1>1, <3>2, <3>3, <3>4, PastPlaces, BuilderFacts DEF Builders, HostTree, Sysroots, Full
    <2>5. CASE b \notin {"stage2", "windows-x86-64", "libcxx"} \cup WinLibs \cup Runtimes
      <3>1. "sanitizer-mapfile" \in Runtimes /\ "compiler-rt" \in Runtimes /\ "tsan" \in Runtimes
            /\ "compiler-rt-linux-musl" \in Runtimes
        BY DEF Runtimes, HostTree
      <3> QED
        BY <1>3, <2>5, <3>1 DEF Inputs, Compiler
    <2> QED
      BY <2>1, <2>2, <2>3, <2>4, <2>5
  <1> QED
    BY <1>2, <1>3

\* The shared libraries that stage2 copies first are there as well.
LEMMA EarlyReady ==
    ASSUME TypeOK, FullInv, Full, NEW b, Building(b), phase = 0, NEW i \in EarlyInputs(b)
    PROVE  disk[i].st = "ok"
  <1>1. b = "stage2" /\ (i = "libxml2" \/ (opt.lldb /\ i = "libedit"))
    BY DEF EarlyInputs
  <1>2. pc = 12 /\ NeedHost(opt)
    BY <1>1, PastPlaces, Places DEF Building, At, Applies
  <1>3. i \in Builders /\ Past(i) /\ Due(i)
    BY <1>1, <1>2, FullDue, PastPlaces DEF Builders, HostLibs
  <1> QED
    BY <1>3, BehindReady

\* Who runs llvm-tblgen has a compiler with a build directory, unless the command
\* line leaves it with the prebuilt one.
LEMMA TablegenReady ==
    ASSUME TypeOK, FullInv, Full, ~NeedsStage1Dir(opt), NEW b \in TablegenUsers, Building(b)
    PROVE  /\ toolchain \in {"stage1", "stage2"}
           /\ b = "lldb-server" => opt.lldb
  <1>1. /\ Due(b) /\ Flow[pc] = b /\ pc \in 1 .. 37
        /\ Past("use-stage1") <=> 5 < pc
        /\ Past("use-stage2") <=> 14 < pc
    BY PastPlaces DEF Building, At, Due
  <1>2. Past("use-stage1") /\ Past("use-stage2")
    BY <1>1, Places DEF TablegenUsers
  <1>3. /\ b = "lldb-server" => NeedHost(opt) /\ LinuxHost /\ opt.runtimes /\ opt.lldb
        /\ b = "windows-x86-64" => NeedWindows(opt)
    BY <1>1, FullDue
  <1>4. toolchain # "prebuilt"
    <2> SUFFICES ASSUME toolchain = "prebuilt" PROVE NeedsStage1Dir(opt)
      OBVIOUS
    <2>1. opt.single /\ (~NeedHost(opt) \/ KeepsStage1(opt))
      BY <1>2 DEF FullInv, ToolchainInv
    <2> QED
      BY <1>3, <2>1 DEF NeedsStage1Dir, TablegenUsers
  <1> QED
    BY <1>3, <1>4 DEF TypeOK, ProcTypeOK, Toolchains

\* Nor does it lack the sources, the compiler binary, the runtimes to link or a tool.
LEMMA LacksNothing ==
    ASSUME TypeOK, FullInv, Full, ~NeedsStage1Dir(opt), NEW b, Building(b), phase # 3
    PROVE  ~Lacks(b) /\ ~Doubtful(b)
  <1>1. /\ pc \in 1 .. 37 /\ Flow[pc] = b /\ Due(b) /\ b \in Builders
    BY PastPlaces DEF Building, At, Due
  <1>2. \A i \in Inputs(b) : disk[i].st = "ok"
    BY InputsReady
  <1>3. ASSUME Compiler(b) = "stage2" PROVE clang # "absent"
    <2>1. toolchain = "stage2"
      BY <1>3 DEF Compiler
    <2>2. Past("stage2") /\ NeedHost(opt)
      BY <2>1, ToolchainReady
    <2> QED
      BY <1>1, <2>2, BuilderFacts DEF FullInv, ClangInv, BoltSteps
  <1>4. ASSUME b \in LinkedRuntimes PROVE {"builtins", "libunwind"} \subseteq ResourceLibs
    <2>1. b \in Runtimes /\ pc > 17
      BY <1>1, <1>4, Places DEF LinkedRuntimes, Runtimes, HostTree
    <2>2. NeedHost(opt) /\ LinuxHost /\ opt.runtimes
      BY <1>1, <2>1, FullDue
    <2>3. \A r \in {"builtins", "libunwind"} : Past(r) /\ Due(r) /\ r \in Builders
      BY <2>1, <2>2, FullDue, PastPlaces, BuilderFacts DEF Runtimes, HostTree, Full
    <2>4. \A r \in {"builtins", "libunwind"} : disk[r].st = "ok"
      BY <2>3, BehindReady
    <2>5. toolchain # "stage2" =>
             \A r \in {"builtins", "libunwind"} : << toolchain, r >> \in planted
      BY <2>3 DEF FullInv, PlantedInv
    <2> QED
      BY <2>4, <2>5 DEF ResourceLibs
  <1>5. tree
    <2>1. pc # 1
      BY <1>1, Places, BuilderFacts
    <2> QED
      BY <1>1, <2>1, PastPlaces DEF FullInv, SourcesInv
  <1>6. ASSUME b \in TablegenUsers
        PROVE  BuildDir.st = "ok" /\ (b = "lldb-server" => BuildDir.lldb)
    BY <1>6, TablegenReady, ToolchainReady DEF BuildDir
  <1>7. ~NoTools(b)
    BY <1>6 DEF NoTools
  <1> QED
    BY <1>2, <1>3, <1>4, <1>5, <1>6, <1>7 DEF Lacks, Doubtful

\* package_toolchain finds all it opens.
LEMMA PackageReady ==
    ASSUME TypeOK, FullInv, Full, NEW k \in Targets, At(PackageStep(k)), Applies(PackageStep(k)),
           phase # 3
    PROVE  disk[Main(k)].st = "ok" /\ ~PackageLacks(k)
  <1>1. pc \in 1 .. 37 /\ Flow[pc] = PackageStep(k) /\ pc > 34
    BY PastPlaces, Places DEF At, PackageStep, Targets
  <1>2. /\ k = "host" => NeedHost(opt)
        /\ k = "windows" => NeedWindows(opt)
    BY DEF Applies, PackageStep, Runtimes, HostTree
  <1>3. Main(k) \in Builders /\ Past(Main(k)) /\ Due(Main(k))
    BY <1>1, <1>2, FullDue, PastPlaces, BuilderFacts DEF Main, Targets
  <1>4. disk[Main(k)].st = "ok" /\ disk[Main(k)].lldb = opt.lldb
    BY <1>3, BehindReady
  <1>5. toolchain # "prebuilt" => disk[toolchain].st = "ok"
    BY ToolchainReady DEF TypeOK, ProcTypeOK, Toolchains
  <1>6. k = "host" => clang # "absent"
    BY <1>1, <1>2, PastPlaces DEF FullInv, ClangInv, BoltSteps, PackageStep
  <1>7. k = "windows" /\ ~opt.sdk => disk["libcxx"].st = "ok"
    BY <1>1, <1>2, FullDue, PastPlaces, BuilderFacts, BehindReady DEF WinTree
  <1>8. info
    BY <1>1, PastPlaces DEF FullInv, SourcesInv
  <1> QED
    BY <1>4, <1>5, <1>6, <1>7, <1>8 DEF PackageLacks

LEMMA NotStarved ==
    ASSUME TypeOK, FullInv, Full, ~NeedsStage1Dir(opt)
    PROVE  ~Starved
  <1>1. ~(At("stage1-links") /\ Applies("stage1-links") /\ disk["stage1"].st # "ok")
    <2> SUFFICES ASSUME At("stage1-links"), Applies("stage1-links")
                 PROVE  disk["stage1"].st = "ok"
      OBVIOUS
    <2>1. pc = 3 /\ ~opt.single
      BY PastPlaces, Places DEF At, Applies, Runtimes, HostTree
    <2> QED
      BY <2>1, PastPlaces, FullDue, BuilderFacts DEF FullInv, BuiltInv, Touching
  <1>2. ~(At("stage2-links") /\ Applies("stage2-links") /\ disk["stage2"].st # "ok")
    <2> SUFFICES ASSUME At("stage2-links"), Applies("stage2-links")
                 PROVE  disk["stage2"].st = "ok"
      OBVIOUS
    <2>1. pc = 21 /\ NeedHost(opt)
      BY PastPlaces, Places DEF At, Applies, Runtimes, HostTree
    <2> QED
      BY <2>1, PastPlaces, FullDue, BuilderFacts DEF FullInv, BuiltInv, Touching
  <1>6. ~(At("stage1-test") /\ Applies("stage1-test") /\ objs["stage1"].st = "absent")
    <2> SUFFICES ASSUME At("stage1-test"), Applies("stage1-test")
                 PROVE  objs["stage1"].st = "ok"
      OBVIOUS
    <2>1. pc = 4 /\ opt.testing /\ opt.stage1t
      BY PastPlaces, Places DEF At, Applies, Runtimes, HostTree
    <2>2. ~opt.single
      BY <2>1 DEF NeedsStage1Dir
    <2> QED
      BY <2>1, <2>2, PastPlaces, FullDue DEF FullInv, DirsInv
  <1>3. ~\E b \in Builders :
            /\ Building(b)
            /\ \/ phase = 0 /\ \E i \in EarlyInputs(b) : disk[i].st # "ok"
               \/ phase = 1 /\ (Lacks(b) \/ Doubtful(b))
               \/ phase = 2 /\ Doubtful(b)
    BY LacksNothing, EarlyReady
  <1>4. ~(/\ \E s \in BoltSteps : At(s) /\ Applies(s)
          /\ phase = 0 /\ (clang = "absent" \/ disk["stage2"].st # "ok"))
    <2> SUFFICES ASSUME NEW s \in BoltSteps, At(s), Applies(s), phase = 0
                 PROVE  clang # "absent" /\ disk["stage2"].st = "ok"
      OBVIOUS
    <2>1. pc > 12 /\ NeedHost(opt)
      BY PastPlaces, Places DEF BoltSteps, At, Applies, Runtimes, HostTree
    <2>2. Past("stage2") /\ Due("stage2")
      BY <2>1, PastPlaces, FullDue DEF At
    <2> QED
      BY <2>1, <2>2, BuilderFacts DEF FullInv, BuiltInv, Touching, ClangInv
  <1>5. ~\E k \in Targets :
         /\ At(PackageStep(k)) /\ Applies(PackageStep(k))
         /\ \/ phase = 0 /\ disk[Main(k)].st # "ok"
            \/ phase = 1 /\ (PackageLacks(k) \/ disk[Main(k)].st # "ok")
    BY PackageReady
  <1> QED
    BY <1>1, <1>2, <1>3, <1>4, <1>5, <1>6 DEF Starved

\* An unfiltered run never ends for want of a file, unless its command line needs the
\* build directory of a stage1 that it does not build: every product, copy, build
\* directory and description that a step of main() reads was made by an earlier step
\* of the same run, whatever the runs before left in OUT (do_build.py builds the
\* compilers, the libraries, the sysroots and the runtimes in the order they need
\* each other).
THEOREM NeverStarvesTheorem == Spec => []FullRunNeverStarves
  <1>1. Init => FullInv /\ FullRunNeverStarves
    BY FullInvInit DEF Init, FullRunNeverStarves
  <1>2. ASSUME TypeOK, FullInv, FullRunNeverStarves, [Next]_vars
        PROVE  FullInv' /\ FullRunNeverStarves'
    <2>1. CASE FileMissing
      <3>1. Starved /\ (~Full \/ NeedsStage1Dir(opt))
        BY <1>2, <2>1, NotStarved DEF FileMissing
      <3>2. pc # 0
        BY <3>1 DEF Starved, At, Building
      <3> QED
        BY <1>2, <2>1, <3>1, <3>2, FullInvStep
        DEF FileMissing, Stop, Full, Unfiltered, NeedsStage1Dir, NeedHost, NeedWindows,
            KeepsStage1, Instrumented, FullRunNeverStarves
    <2>2. CASE ~FileMissing
      <3>1. \/ result' # "missing"
            \/ result' = result /\ opt' = opt
        BY <1>2, <2>2 DEF Next, Step, Finished, vars, StartRun, PassOver, WriteSourceInfo,
           PlaceSources, LinkHeaders, Test, UseStage1, UseStage2, ExtractProfiles, CleanWindows,
           Build, BuildBegin, Compile, InstallBegin, InstallEnd, MoveClang, RunLlvmBolt,
           PackageToolchain, PackageBegin, PackageEnd, TarBegin, TarEnd, Return, ToolFails, Kill, Stop
      <3> QED
        BY <1>2, <3>1, FullInvStep
        DEF FullRunNeverStarves, Unfiltered, NeedsStage1Dir, NeedHost, NeedWindows,
            KeepsStage1, Instrumented
    <2> QED
      BY <2>1, <2>2
  <1> QED
    BY <1>1, <1>2, TypeCorrect, PTL DEF Spec

-----------------------------------------------------------------------------
(* The package of an unfiltered run. *)

\* The host package is left alone, begun, or completed from the install directory.
LEMMA WholeChange ==
    ASSUME TypeOK, [Next]_vars
    PROVE  \/ pkg'["host"] = pkg["host"]
           \/ ~pkg'["host"].whole
           \/ /\ PackageEnd("host") /\ Unfiltered(opt) /\ opt.runtimes
              /\ pkg'["host"].run = run /\ pkg'["host"].bin = clang
              /\ \A b \in HostTree : pkg'["host"].parts[b] = disk[b]
  <1>0. pkg \in [Targets -> Package] /\ "host" \in Targets
    BY DEF TypeOK, DiskTypeOK, Targets
  <1>1. CASE PackageBegin("host")
    <2>1. pkg'["host"] = [NoPackage EXCEPT !.st = "partial", !.run = run]
      BY <1>0, <1>1 DEF PackageBegin
    <2> QED
      BY <2>1 DEF NoPackage
  <1>2. CASE PackageEnd("host")
    <2> DEFINE P == [b \in Builders |-> IF b \in InstallTree("host") THEN disk[b] ELSE Absent]
    <2>1. /\ pkg'["host"].run = run /\ pkg'["host"].bin = clang
          /\ pkg'["host"].parts = P
          /\ pkg'["host"].whole = (Unfiltered(opt) /\ opt.runtimes)
      BY <1>0, <1>2 DEF PackageEnd
    <2>2. \A b \in HostTree : P[b] = disk[b]
      BY BuilderFacts DEF InstallTree
    <2> QED
      BY <1>2, <2>1, <2>2
  <1>3. CASE ~PackageBegin("host") /\ ~PackageEnd("host")
    <2>1. CASE PackageToolchain
      BY <1>0, <1>3, <2>1 DEF PackageToolchain, PackageBegin, PackageEnd, TarBegin, TarEnd
    <2>2. CASE ~PackageToolchain
      BY <2>2 DEF Next, Step, Finished, vars, diskVars, StartRun, PassOver, WriteSourceInfo,
         PlaceSources, LinkHeaders, Test, UseStage1, UseStage2, ExtractProfiles, CleanWindows,
         Build, BuildBegin, Compile, InstallBegin, InstallEnd, MoveClang, RunLlvmBolt, Return,
         FileMissing, ToolFails, Kill
    <2> QED
      BY <2>1, <2>2
  <1> QED
    BY <1>1, <1>2, <1>3

\* What stands in the install directory when an unfiltered run completes a package.
LEMMA WholeTree ==
    ASSUME TypeOK, FullInv, PackageEnd("host"), Unfiltered(opt), opt.runtimes
    PROVE  /\ clang # "absent"
           /\ \A b \in HostTree :
                /\ OwnCompiler(disk[b])
                /\ \/ disk[b].st = "ok"
                   \/ ~LinuxHost /\ b # "stage2"
                   \/ b = "lldb-server" /\ ~disk["stage2"].lldb
  <1>1. /\ Full /\ pc \in 1 .. 37 /\ Flow[pc] = "package-host" /\ phase = 1 /\ NeedHost(opt)
        /\ clang # "absent"
    BY PastPlaces DEF PackageEnd, PackageStep, At, Applies, Runtimes, HostTree, PackageLacks, Full
  <1>2. pc = 35
    BY <1>1, Places
  <1>3. Past("stage2") /\ Due("stage2")
    BY <1>1, <1>2, PastPlaces, FullDue
  <1>4. disk["stage2"].st = "ok" /\ disk["stage2"].lldb = opt.lldb
    BY <1>1, <1>3, BehindReady, BuilderFacts
  <1>5. \A b \in HostTree : OwnCompiler(disk[b])
    BY <1>1, BuilderFacts DEF FullInv, OwnInv
  <1>6. ASSUME NEW b \in HostTree, LinuxHost, b # "lldb-server" \/ opt.lldb
        PROVE  disk[b].st = "ok"
    <2>1. Past(b)
      BY <1>1, <1>2, Places DEF HostTree, Past
    <2>2. b # "stage2" => Due(b)
      BY <1>1, <1>6, FullDue DEF Runtimes
    <2> QED
      BY <1>1, <1>4, <2>1, <2>2, BehindReady, BuilderFacts
  <1> QED
    BY <1>1, <1>4, <1>5, <1>6

LEMMA WholeStep ==
    ASSUME TypeOK, FullInv, WholePackageIsComplete, BootstrapChain, [Next]_vars
    PROVE  WholePackageIsComplete' /\ BootstrapChain'
  <1>1. CASE pkg'["host"] = pkg["host"]
    BY <1>1 DEF WholePackageIsComplete, BootstrapChain
  <1>2. CASE ~pkg'["host"].whole
    BY <1>2 DEF WholePackageIsComplete, BootstrapChain
  <1>3. CASE /\ PackageEnd("host") /\ Unfiltered(opt) /\ opt.runtimes
             /\ pkg'["host"].run = run /\ pkg'["host"].bin = clang
             /\ \A b \in HostTree : pkg'["host"].parts[b] = disk[b]
    BY <1>3, WholeTree, BuilderFacts DEF WholePackageIsComplete, BootstrapChain, OwnCompiler
  <1> QED
    BY <1>1, <1>2, <1>3, WholeChange

LEMMA WholeInit == Init => WholePackageIsComplete /\ BootstrapChain
  <1> SUFFICES ASSUME Init PROVE ~pkg["host"].whole
    BY DEF WholePackageIsComplete, BootstrapChain
  <1>1. pkg["host"] = NoPackage
    BY DEF Init, Targets
  <1> QED
    BY <1>1 DEF NoPackage

\* A package made by an unfiltered run with runtimes holds a clang binary, the
\* compiler and every runtime library complete, although package_toolchain looks
\* for few of them: the runs before may have been killed anywhere.
THEOREM WholeTheorem == Spec => []WholePackageIsComplete
  <1> QED
    BY FullInvInit, FullInvStep, WholeInit, WholeStep, TypeCorrect, PTL DEF Spec

\* Whatever an unfiltered run compiles for such a package with a stage compiler, it
\* compiles with one that it has installed itself, although the build directories keep
\* what earlier runs compiled with theirs: main() sets Builder.toolchain only after the
\* builder it takes it from.
THEOREM BootstrapTheorem == Spec => []BootstrapChain
  <1> QED
    BY FullInvInit, FullInvStep, WholeInit, WholeStep, TypeCorrect, PTL DEF Spec

-----------------------------------------------------------------------------
(* The headers of libxml2, and the instrumented compiler. *)

RunningInv == pc # 0 => result = "running"

\* A step inside a run, as far as the headers are concerned.
LEMMA HeadersMove ==
    ASSUME TypeOK, Next, pc # 0, pc' # 0
    PROVE  \/ UNCHANGED vars
           \/ /\ opt' = opt /\ result' = result
              /\ \/ pc' = pc /\ (phase # 0 => phase' # 0)
                 \/ /\ pc' = pc + 1
                    /\ Flow[pc] \in {"libxml2", "win-libxml2"} =>
                           headers' = "in place" \/ (phase = 0 /\ ~Applies(Flow[pc]))
              /\ \/ headers' \in {headers, "in place"}
                 \/ pc' = pc /\ phase' # 0 /\ Flow[pc] \in {"libxml2", "win-libxml2"}
  <1> DEFINE L == {"libxml2", "win-libxml2"}
  <1>1. CASE PassOver
    BY <1>1 DEF PassOver, Advance, Restored, Name
  <1>2. CASE \/ WriteSourceInfo \/ PlaceSources
             \/ LinkHeaders("stage1-links", "stage1") \/ LinkHeaders("stage2-links", "stage2")
             \/ Test("stage1-test", "stage1") \/ Test("stage2-test", "stage2")
             \/ UseStage1 \/ UseStage2 \/ ExtractProfiles \/ CleanWindows
    BY <1>2 DEF WriteSourceInfo, PlaceSources, LinkHeaders, Test, UseStage1, UseStage2,
       ExtractProfiles, CleanWindows, diskVars, At, Advance, Stay
  <1>3. CASE MoveClang \/ RunLlvmBolt
    BY <1>3 DEF MoveClang, RunLlvmBolt, BoltSteps, At, Advance, Stay
  <1>4. CASE PackageToolchain
    <2>1. PICK k \in Targets : PackageBegin(k) \/ PackageEnd(k) \/ TarBegin(k) \/ TarEnd(k)
      BY <1>4 DEF PackageToolchain
    <2>2. Flow[pc] \notin L /\ opt' = opt /\ result' = result /\ headers' = headers
      BY <2>1 DEF PackageBegin, PackageEnd, TarBegin, TarEnd, PackageStep, At
    <2>3. (pc' = pc /\ phase' # 0) \/ pc' = pc + 1
      BY <2>1 DEF PackageBegin, PackageEnd, TarBegin, TarEnd, Advance, Stay
    <2> QED
      BY <2>2, <2>3
  <1>5. CASE Build
    <2>1. PICK b \in Builders : BuildBegin(b) \/ Compile(b) \/ InstallBegin(b) \/ InstallEnd(b)
      BY <1>5 DEF Build
    <2>2. Flow[pc] = b /\ (Name(b) = "libxml2" => b \in L)
      BY <2>1 DEF BuildBegin, Compile, InstallBegin, InstallEnd, Building, At, Name
    <2>3. b \in L => Name(b) = "libxml2"
      BY DEF Name
    <2>4. CASE BuildBegin(b)
      BY <2>2, <2>4 DEF BuildBegin, Stay
    <2>7. CASE Compile(b)
      BY <2>7 DEF Compile, Stay
    <2>5. CASE InstallBegin(b)
      BY <2>5 DEF InstallBegin, Stay
    <2>6. CASE InstallEnd(b)
      BY <2>2, <2>3, <2>6 DEF InstallEnd, Advance, Restored
    <2> QED
      BY <2>1, <2>4, <2>5, <2>6, <2>7
  <1>6. CASE StartRun \/ Return \/ ToolFails \/ Kill \/ FileMissing \/ Finished
    BY <1>6 DEF StartRun, Return, ToolFails, Kill, FileMissing, Stop, Finished
  <1> QED
    BY <1>1, <1>2, <1>3, <1>4, <1>5, <1>6 DEF Next, Step

\* headers: who touches them puts them back before main() goes on.
LEMMA HeadersStep ==
    ASSUME TypeOK, RunningInv, HeadersInv, HeadersRestored, [Next]_vars
    PROVE  RunningInv' /\ HeadersInv' /\ HeadersRestored'
  <1>1. CASE UNCHANGED vars
    BY <1>1 DEF vars, RunningInv, HeadersInv, HeadersRestored, NeedHost, NeedWindows, Past
  <1>2. CASE StartRun
    <2>1. pc' = 1 /\ result' = "running" /\ ~\E s : Past(s)'
      BY <1>2 DEF StartRun, Past
    <2> QED
      BY <2>1 DEF RunningInv, HeadersInv, HeadersRestored
  <1>3. CASE Next /\ pc # 0 /\ pc' # 0
    <2>1. UNCHANGED vars \/ (opt' = opt /\ result' = "running")
      BY <1>3, HeadersMove DEF RunningInv
    <2>2. ASSUME ~UNCHANGED vars PROVE HeadersInv'
      <3>1. /\ NeedHost(opt)' <=> NeedHost(opt)
            /\ NeedWindows(opt)' <=> NeedWindows(opt)
        BY <1>3, <2>1, <2>2 DEF NeedHost, NeedWindows
      <3>2. \A s : Past(s)' => Past(s) \/ (pc' = pc + 1 /\ Flow[pc] = s)
        BY <1>3, <2>2, HeadersMove, PastMoves
      <3>3. /\ Applies("libxml2") <=> NeedHost(opt)
            /\ Applies("win-libxml2") <=> NeedWindows(opt)
        BY DEF Applies, Runtimes, HostTree
      <3>4. /\ Flow[pc] = "libxml2" <=> pc = 9
            /\ Flow[pc] = "win-libxml2" <=> pc = 30
            /\ Past("libxml2") <=> 9 < pc
            /\ Past("win-libxml2") <=> 30 < pc
        BY <1>3, PastPlaces, Places
      <3>5. pc' = pc => Flow[pc'] = Flow[pc]
        OBVIOUS
      <3>0. /\ \/ pc' = pc /\ (phase # 0 => phase' # 0)
               \/ /\ pc' = pc + 1
                  /\ Flow[pc] \in {"libxml2", "win-libxml2"} =>
                         headers' = "in place" \/ (phase = 0 /\ ~Applies(Flow[pc]))
            /\ \/ headers' \in {headers, "in place"}
               \/ pc' = pc /\ phase' # 0 /\ Flow[pc] \in {"libxml2", "win-libxml2"}
        BY <1>3, <2>2, HeadersMove
      <3>8. pc \in 1 .. 37
        BY <1>3, PastPlaces
      <3>9. pc' = pc + 1 => pc' # pc
        BY <3>8
      <3>6. ASSUME Past("libxml2")', NeedHost(opt)
            PROVE  headers' = "in place" \/ (Flow[pc'] = "win-libxml2" /\ phase' # 0)
        <4>1. CASE pc' = pc
          <5>1. Past("libxml2")
            BY <3>2, <3>6, <3>8, <4>1
          <5>2. headers = "in place" \/ (pc = 30 /\ phase # 0)
            BY <1>3, <3>4, <3>6, <5>1 DEF HeadersInv
          <5>3. pc # 9
            BY <3>4, <3>8, <5>1
          <5> QED
            BY <3>0, <3>4, <3>5, <3>8, <4>1, <5>2, <5>3
        <4>2. CASE pc' = pc + 1 /\ headers' # "in place"
          <5>1. pc' # pc /\ headers' = headers
            BY <3>0, <3>9, <4>2
          <5>3. CASE pc = 9
            <6>1. Flow[pc] = "libxml2" /\ ~Applies(Flow[pc])
              BY <3>0, <3>4, <4>2, <5>1, <5>3
            <6> QED
              BY <3>3, <3>6, <6>1
          <5>4. CASE pc # 9
            <6>1. pc = 30 => phase = 0
              BY <3>0, <3>4, <4>2, <5>1
            <6>2. Past("libxml2")
              BY <3>2, <3>4, <3>6, <5>4
            <6> QED
              BY <1>3, <3>4, <3>6, <5>1, <6>1, <6>2 DEF HeadersInv
          <5> QED
            BY <5>3, <5>4
        <4> QED
          BY <3>0, <4>1, <4>2
      <3>7. ASSUME Past("win-libxml2")', NeedWindows(opt)
            PROVE  headers' = "in place"
        <4>1. CASE Past("win-libxml2")
          <5>1. headers = "in place"
            BY <1>3, <3>7, <4>1 DEF HeadersInv
          <5> QED
            <6>1. pc # 9 /\ pc # 30
              BY <3>4, <3>8, <4>1
            <6> QED
              BY <3>0, <3>4, <3>9, <5>1, <6>1
        <4>2. CASE ~Past("win-libxml2")
          <5>1. pc' = pc + 1 /\ Flow[pc] = "win-libxml2"
            BY <3>2, <3>7, <4>2
          <5> QED
            BY <3>0, <3>3, <3>7, <3>9, <5>1
        <4> QED
          BY <4>1, <4>2
      <3> QED
        BY <3>1, <3>6, <3>7 DEF HeadersInv
    <2> QED
      BY <1>1, <2>1, <2>2 DEF RunningInv, HeadersRestored
  <1>4. CASE Next /\ pc' = 0 /\ ~StartRun /\ ~UNCHANGED vars
    <2>1. ASSUME result' = "done", NeedHost(opt') \/ NeedWindows(opt')
          PROVE  headers' = "in place"
      <3>1. Return
        <4>1. Finished => UNCHANGED vars
          BY DEF Finished
        <4>2. pc # 0
          BY <1>4, <4>1 DEF Next, Step, PassOver, WriteSourceInfo, PlaceSources, LinkHeaders, Test,
             UseStage1, UseStage2, ExtractProfiles, CleanWindows, Build, BuildBegin, Compile, InstallBegin,
             InstallEnd, Building, MoveClang, RunLlvmBolt, PackageToolchain, PackageBegin,
             PackageEnd, TarBegin, TarEnd, Return, ToolFails, Kill, FileMissing, Starved, At
        <4>3. result = "running"
          BY <4>2 DEF RunningInv
        <4> QED
          BY <1>4, <2>1, <4>1, <4>3 DEF Next, Step, PassOver, WriteSourceInfo, PlaceSources, LinkHeaders,
             Test, UseStage1, UseStage2, ExtractProfiles, CleanWindows, Build, BuildBegin, Compile, InstallBegin,
             InstallEnd, MoveClang, RunLlvmBolt, PackageToolchain, PackageBegin,
             PackageEnd, TarBegin, TarEnd, ToolFails, Kill, FileMissing, Stop
      <3>2. pc # 0 /\ Flow[pc] = "return" /\ opt' = opt /\ headers' = headers
        BY <3>1 DEF Return, At, Stop, diskVars
      <3>3. pc = 37
        BY <3>2, PastPlaces, Places
      <3>4. NeedHost(opt) \/ NeedWindows(opt)
        BY <2>1, <3>2
      <3>5. Past("libxml2") /\ Past("win-libxml2")
        BY <3>2, <3>3, PastPlaces
      <3> QED
        BY <3>2, <3>4, <3>5 DEF HeadersInv
    <2> QED
      BY <1>4, <2>1 DEF RunningInv, HeadersInv, HeadersRestored, NeedHost, NeedWindows
  <1>5. pc = 0 /\ Next => StartRun \/ UNCHANGED vars
    BY DEF Next, Step, PassOver, WriteSourceInfo, PlaceSources, LinkHeaders, Test,
       UseStage1, UseStage2, ExtractProfiles, CleanWindows, Build, BuildBegin, Compile, InstallBegin,
       InstallEnd, Building, MoveClang, RunLlvmBolt, PackageToolchain, PackageBegin,
       PackageEnd, TarBegin, TarEnd, Return, ToolFails, Kill, FileMissing, Starved, At, Finished
  <1> QED
    BY <1>1, <1>2, <1>3, <1>4, <1>5

\* The configure headers that building libxml2 sets aside are back in the source
\* tree after every run that ends normally, although a run may start with headers
\* that a killed one had renamed: backup_file's finally clause runs for a skipped
\* libxml2 as well, and one of the two libxml2 builders is reached.
THEOREM HeadersTheorem == Spec => []HeadersRestored
  <1>1. Init => RunningInv /\ HeadersInv /\ HeadersRestored
    BY DEF Init, RunningInv, HeadersInv, HeadersRestored
  <1> QED
    BY <1>1, HeadersStep, TypeCorrect, PTL DEF Spec

\* clang becomes the instrumented one only behind the last builder.
LEMMA InstrumentStep ==
    ASSUME TypeOK, DiskInv, InstrumentInv, [Next]_vars
    PROVE  InstrumentInv'
  <1> SUFFICES ASSUME pc' # 0, "stage2" \in rebuilt', ~Past("bolt-instrument")'
               PROVE  clang' # "instrumented"
    BY DEF InstrumentInv
  <1>1. CASE UNCHANGED vars
    BY <1>1 DEF vars, InstrumentInv, Past
  <1>2. CASE StartRun
    BY <1>2 DEF StartRun, DiskInv, IdleInv
  <1>3. CASE Harmless
    <2>1. /\ pc # 0 /\ rebuilt' = rebuilt
          /\ ~Past("bolt-instrument") /\ ~(pc' = pc + 1 /\ Flow[pc] = "bolt-instrument")
      BY <1>3, HarmlessSkips, PastMoves
    <2>2. CASE RunLlvmBolt
      BY <2>1, <2>2 DEF RunLlvmBolt, BoltSteps, Advance, At
    <2>3. CASE ~RunLlvmBolt
      <3>1. clang' = clang \/ clang' = "absent"
        BY <1>3, <2>3 DEF Harmless, PassOver, WriteSourceInfo, PlaceSources, LinkHeaders, Test,
         UseStage1, UseStage2, ExtractProfiles, MoveClang, PackageToolchain,
         PackageBegin, PackageEnd, TarBegin, TarEnd, diskVars
      <3> QED
        BY <2>1, <3>1 DEF InstrumentInv
    <2> QED
      BY <2>2, <2>3
  <1>4. CASE CleanWindows
    BY <1>4, PastMoves DEF CleanWindows, At, Advance, InstrumentInv
  <1>5. CASE \E b \in Builders : BuildBegin(b) \/ Compile(b) \/ InstallBegin(b) \/ InstallEnd(b)
    <2>1. PICK b \in Builders : BuildBegin(b) \/ Compile(b) \/ InstallBegin(b) \/ InstallEnd(b)
      BY <1>5
    <2>2. CASE b = "stage2" /\ ~Compile(b)
      BY <2>1, <2>2 DEF BuildBegin, InstallBegin, InstallEnd
    <2>3. CASE b # "stage2" \/ Compile(b)
      <3>1. pc # 0 /\ clang' = clang /\ ("stage2" \in rebuilt) /\ pc' \in {pc, pc + 1}
        BY <2>1, <2>3 DEF BuildBegin, Compile, InstallBegin, InstallEnd, Building, At, Stay, Advance
      <3> QED
        BY <3>1, PastMoves DEF InstrumentInv
    <2> QED
      BY <2>2, <2>3
  <1> QED
    BY <1>1, <1>2, <1>3, <1>4, <1>5, NextCases

\* In a run that builds stage2, nothing is compiled or tested with an instrumented
\* clang: bolt_instrument comes after every builder and after the tests.
THEOREM InstrumentTheorem == Spec => []NoInstrumentedCompiler
  <1>1. Init => DiskInv /\ MatchOnDisk /\ InstrumentInv
    BY DiskInvInit DEF Init, InstrumentInv
  <1>2. TypeOK /\ DiskInv /\ MatchOnDisk /\ InstrumentInv /\ [Next]_vars
          => DiskInv' /\ MatchOnDisk' /\ InstrumentInv'
    BY DiskInvStep, InstrumentStep
  <1>3. TypeOK /\ InstrumentInv => NoInstrumentedCompiler
    <2> SUFFICES ASSUME TypeOK, InstrumentInv, pc # 0, "stage2" \in rebuilt,
                        Flow[pc] \in Builders \cup {"stage2-test"}
                 PROVE  clang # "instrumented"
      BY DEF NoInstrumentedCompiler
    <2>1. pc \in 1 .. 37 /\ Flow[pc] \notin {"bolt-instrument", "package-host", "package-windows", "return"}
      BY PastPlaces, BuilderFacts
    <2>2. pc < 34
      BY <2>1, Places
    <2> QED
      BY <2>2, PastPlaces DEF InstrumentInv
  <1> QED
    BY <1>1, <1>2, <1>3, TypeCorrect, PTL DEF Spec

=============================================================================
