--------------------------- MODULE BuildPipeline ---------------------------
(***************************************************************************)
(* The toolchain build of do_build.py: main() walks a fixed list of steps, *)
(* each builder is filtered by the BuilderRegistry, builds into the OUT    *)
(* directory, and the result is packaged.  OUT outlives the process, so a  *)
(* behaviour is a sequence of runs with different command lines, each of   *)
(* which may be killed, or stopped by a failing tool, between any two      *)
(* writes; the next run starts from what is left on disk.                  *)
(*                                                                         *)
(* What a file contains is abstracted to who wrote it: the run, and the    *)
(* compiler used.  A copy and the removal of a tree are one write each; a  *)
(* compilation and an install are two, for they may be stopped half-way.   *)
(***************************************************************************)
EXTENDS Integers, Sequences

CONSTANTS
    LinuxHost,    \* hosts.build_host().is_linux
    OptionSets,   \* the command lines explored
    Edits,        \* the sets of builders whose sources or flags may have changed
                  \* between two runs so that nothing compiled before can be kept
    MaxRuns       \* bound on the number of invocations of do_build.py

-----------------------------------------------------------------------------
(* Builders and the directories they install into. *)

\* Builders that install into OUT/stage2-install.
HostTree == { "stage2", "builtins", "libunwind", "compiler-rt", "tsan",
              "compiler-rt-linux-musl", "libomp", "lldb-server",
              "sanitizer-mapfile" }

\* Builders that install into OUT/windows-x86-64-install.
WinTree == { "windows-x86-64", "libcxx" }

HostLibs == { "libzstd", "libxml2", "liblzma", "libedit" }
WinLibs == { "win-libzstd", "win-libxml2", "win-liblzma" }
Sysroots == { "device-sysroots", "host-sysroots" }

Builders == HostTree \cup WinTree \cup HostLibs \cup WinLibs \cup Sysroots
              \cup { "stage1", "swig", "platform-libcxxabi" }

\* The registry knows a builder by its name; the libraries are built a second
\* time for Windows under the same name.
Name(b) == CASE b = "win-libzstd" -> "libzstd"
             [] b = "win-libxml2" -> "libxml2"
             [] b = "win-liblzma" -> "liblzma"
             [] OTHER -> b

\* The runtimes that are linked against builtins and libunwind.
LinkedRuntimes == { "compiler-rt", "tsan", "libomp", "lldb-server",
                    "platform-libcxxabi" }
Runtimes == (HostTree \ {"stage2"}) \cup {"platform-libcxxabi"}

\* Builders whose sources are in paths.LLVM_PATH.
LLVMBuilders == (HostTree \ {"sanitizer-mapfile"}) \cup WinTree
                  \cup { "stage1", "platform-libcxxabi" }

\* Builders that do not run Builder.toolchain.
CopyBuilders == { "host-sysroots", "sanitizer-mapfile" }

\* Builders without a build directory.  All the others have one, which is never
\* removed: ninja and make keep the objects of earlier runs.
Dirless == CopyBuilders \cup { "device-sysroots" }

\* make does not compile again when only CC has changed; cmake drops its cache.
Autoconf == { "swig", "libedit" }

\* Builders that install into a temporary directory, which nobody empties, and copy
\* what is there on to stage2-install.
Carriers == { "compiler-rt", "tsan" }

\* Builders that run the llvm-tblgen in the build directory of their compiler.
TablegenUsers == { "lldb-server", "windows-x86-64" }

\* Builders that delete an install directory that is theirs alone.
RemovesInstallDir == { "swig", "libedit", "host-sysroots" }

\* Faulty variant: stage2 installs over what is there.
KeepsStage2Install(b) == CASE b \in RemovesInstallDir -> {b}
                           [] OTHER -> {}

\* Faulty variant: libomp removes its install directory, which it shares.
LibompRemovesInstall(b) == CASE b = "stage2" -> HostTree
                             [] b = "libomp" -> { b, "libunwind" }
                             [] b \in RemovesInstallDir -> {b}
                             [] OTHER -> {}

\* What building b deletes from OUT before it compiles.
Wiped(b) == CASE b = "stage2" -> HostTree
              [] b \in RemovesInstallDir -> {b}
              [] OTHER -> {}

\* Faulty variant: clang is instrumented as soon as it is built.
InstrumentsEarly ==
    << "sources", "stage1", "stage1-links", "stage1-test", "use-stage1",
       "swig", "profiles",
       "libzstd", "libxml2", "liblzma", "libedit",
       "stage2", "bolt", "bolt-instrument", "use-stage2",
       "device-sysroots", "builtins", "libunwind", "platform-libcxxabi",
       "compiler-rt", "tsan", "stage2-links", "compiler-rt-linux-musl",
       "libomp", "lldb-server", "sanitizer-mapfile",
       "host-sysroots", "win-clean", "libcxx",
       "win-libzstd", "win-libxml2", "win-liblzma", "windows-x86-64",
       "stage2-test", "package-host", "package-windows", "return" >>

(* The steps of main() in program order. *)
Flow == << "sources", "stage1", "stage1-links", "stage1-test", "use-stage1",
           "swig", "profiles",
           "libzstd", "libxml2", "liblzma", "libedit",
           "stage2", "bolt", "use-stage2",
           "device-sysroots", "builtins", "libunwind", "platform-libcxxabi",
           "compiler-rt", "tsan", "stage2-links", "compiler-rt-linux-musl",
           "libomp", "lldb-server", "sanitizer-mapfile",
           "host-sysroots", "win-clean", "libcxx",
           "win-libzstd", "win-libxml2", "win-liblzma", "windows-x86-64",
           "stage2-test", "bolt-instrument",
           "package-host", "package-windows", "return" >>

Steps == { Flow[i] : i \in 1 .. Len(Flow) }

-----------------------------------------------------------------------------
(* Command lines. *)

Filters == [kind : {"all", "none", "only", "skip"}, names : SUBSET Builders]

Options == [ filter   : Filters,   \* --skip-build, --build, --skip
             single   : BOOLEAN,   \* --single-stage
             setup    : BOOLEAN,   \* not --skip-source-setup
             patches  : BOOLEAN,   \* not --skip-apply-patches
             testing  : BOOLEAN,   \* not --skip-tests
             stage1t  : BOOLEAN,   \* --run-tests-stage1
             lldb     : BOOLEAN,   \* lldb is not in --no-build
             host     : BOOLEAN,   \* linux is not in --no-build
             windows  : BOOLEAN,   \* windows is not in --no-build
             sdk      : BOOLEAN,   \* --windows-sdk
             runtimes : BOOLEAN,   \* not --skip-runtimes
             package  : BOOLEAN,   \* not --skip-package
             tar      : BOOLEAN,   \* --create-tar
             pgo      : BOOLEAN,   \* --pgo
             bolt     : {"off", "optimize", "instrument"},
             debug    : BOOLEAN,   \* --debug
             instr    : BOOLEAN,   \* --build-instrumented
             strip    : BOOLEAN,   \* not --no-strip
             next     : BOOLEAN ]  \* --build-llvm-next

ASSUME ConstantsAssumption ==
    /\ LinuxHost \in BOOLEAN
    /\ MaxRuns \in Nat \ {0}
    /\ OptionSets # {}
    /\ OptionSets \subseteq Options
    /\ Edits # {} /\ Edits \subseteq SUBSET Builders
    \* argparse: --skip-build and --skip-package exclude each other.
    /\ \A o \in OptionSets : o.filter.kind = "none" => o.package

NeedHost(o) == ~LinuxHost \/ o.host
NeedWindows(o) == LinuxHost /\ o.windows
Instrumented(o) == LinuxHost /\ o.instr
DoBolt(o) == o.bolt = "optimize" /\ ~o.debug /\ ~o.instr
DoBoltInstrument(o) == o.bolt = "instrument" /\ ~o.debug /\ ~o.instr
KeepsStage1(o) == Instrumented(o) \/ o.debug

\* A command line that filters no builder and prepares the sources.
Unfiltered(o) == o.filter.kind = "all" /\ o.setup /\ o.patches

-----------------------------------------------------------------------------
VARIABLES
    pc,         \* 0: no process; else the step of Flow the process is at
    phase,      \* progress inside that step
    opt,        \* the command line of the current (or last) run
    edited,     \* the builders that cannot keep what was compiled before this run
    run,        \* number of the current (or last) run
    result,     \* how the last run ended
    toolchain,  \* Builder.toolchain
    fdata,      \* main()'s clang_bolt_fdata is not None
    rebuilt,    \* builders installed by this run
    tree,       \* paths.LLVM_PATH exists
    info,       \* OUT/clang_source_info.md exists
    headers,    \* the configure headers of the libxml2 sources
    disk,       \* what each builder has installed in OUT
    objs,       \* the build directories
    temp,       \* the first run whose files are in a temporary install directory
    clang,      \* stage2-install/bin/clang-N
    orig,       \* stage2-install/bin/clang-N.orig
    planted,    \* runtimes copied beside a compiler that is not stage2
    pkg,        \* the package directories
    tarball     \* the tar archives in DIST_DIR

procVars == << pc, phase, opt, edited, run, result, toolchain, fdata, rebuilt >>
diskVars == << tree, info, headers, disk, objs, temp, clang, orig, planted, pkg, tarball >>
vars == << pc, phase, opt, edited, run, result, toolchain, fdata, rebuilt,
           tree, info, headers, disk, objs, temp, clang, orig, planted, pkg, tarball >>

Runs == 0 .. MaxRuns
Toolchains == { "prebuilt", "stage1", "stage2" }
Binaries == { "absent", "plain", "bolted", "instrumented" }
Targets == { "host", "windows" }

\* One installed product: its state, the run that wrote it, the compiler, the
\* run that built that compiler, whether lldb was enabled; the run that compiled
\* the oldest object in it, and the first run that a file in it may be left of.
Product == [ st : {"absent", "partial", "ok"}, run : Runs,
             cc : Toolchains \cup {"none"}, ccrun : Runs, lldb : BOOLEAN,
             made : Runs, oldest : Runs ]
Absent == [ st |-> "absent", run |-> 0, cc |-> "none", ccrun |-> 0, lldb |-> FALSE,
            made |-> 0, oldest |-> 0 ]

\* A build directory: the compiler of its oldest object, and the run that compiled
\* it; whether lldb-tblgen has ever been built there.
Objects == [ st : {"absent", "partial", "ok"}, cc : Toolchains \cup {"none"},
             ccrun : Runs, made : Runs, lldb : BOOLEAN ]
NoObjects == [ st |-> "absent", cc |-> "none", ccrun |-> 0, made |-> 0, lldb |-> FALSE ]

\* A package: the products copied into it, the clang binary, and whether its
\* main builder was built by the packaging run and that run was unfiltered.
Package == [ st : {"absent", "partial", "ok"}, run : Runs, parts : [Builders -> Product],
             bin : Binaries, fresh : BOOLEAN, whole : BOOLEAN ]
NoPackage == [ st |-> "absent", run |-> 0, parts |-> [b \in Builders |-> Absent],
               bin |-> "absent", fresh |-> FALSE, whole |-> FALSE ]
Tarball == [ st : {"absent", "partial", "ok"}, run : Runs ]

ProcTypeOK ==
    /\ pc \in 0 .. Len(Flow)
    /\ phase \in 0 .. 3
    /\ opt \in OptionSets
    /\ edited \subseteq Builders
    /\ run \in Runs
    /\ result \in {"none", "running", "killed", "tool", "missing", "done"}
    /\ toolchain \in Toolchains
    /\ fdata \in BOOLEAN
    /\ rebuilt \subseteq Builders

DiskTypeOK ==
    /\ tree \in BOOLEAN
    /\ info \in BOOLEAN
    /\ headers \in {"in place", "moved"}
    /\ disk \in [Builders -> Product]
    /\ objs \in [Builders -> Objects]
    /\ temp \in [Carriers -> Runs]
    /\ clang \in Binaries
    /\ orig \in Binaries
    /\ planted \subseteq ({"prebuilt", "stage1"} \X {"builtins", "libunwind"})
    /\ pkg \in [Targets -> Package]
    /\ tarball \in [Targets -> Tarball]

TypeOK == ProcTypeOK /\ DiskTypeOK

\* A fresh checkout: an empty OUT directory.
Init ==
    /\ pc = 0 /\ phase = 0
    /\ opt = CHOOSE o \in OptionSets : TRUE
    /\ edited = {}
    /\ run = 0 /\ result = "none"
    /\ toolchain = "prebuilt" /\ fdata = FALSE /\ rebuilt = {}
    /\ tree = FALSE /\ info = FALSE /\ headers = "in place"
    /\ disk = [b \in Builders |-> Absent]
    /\ objs = [b \in Builders |-> NoObjects]
    /\ temp = [b \in Carriers |-> 0]
    /\ clang = "absent" /\ orig = "absent"
    /\ planted = {}
    /\ pkg = [k \in Targets |-> NoPackage]
    /\ tarball = [k \in Targets |-> [st |-> "absent", run |-> 0]]

-----------------------------------------------------------------------------
(* Control. *)

At(s) == pc # 0 /\ Flow[pc] = s

PassesFilters(o, b) ==
    CASE o.filter.kind = "all"  -> TRUE
      [] o.filter.kind = "none" -> FALSE
      [] o.filter.kind = "only" -> Name(b) \in o.filter.names
      [] o.filter.kind = "skip" -> Name(b) \notin o.filter.names

\* Faulty variant: a stage1 that is already installed is not built again.
ReusesStage1(o, b) ==
    /\ PassesFilters(o, b)
    /\ b = "stage1" => ~o.single /\ disk[b].st # "ok"

\* BuilderRegistry.should_build under the filters main() installs.
ShouldBuild(o, b) ==
    /\ PassesFilters(o, b)
    /\ o.single => b # "stage1"

\* The conditions under which main() reaches step s.
Applies(s) ==
    CASE s = "sources"      -> opt.setup
      [] s = "stage1-links" -> LinuxHost /\ ~opt.single
      [] s = "stage1-test"  -> opt.testing /\ opt.stage1t
      [] s = "use-stage1"   -> ~opt.single
      [] s = "swig"         -> opt.lldb
      [] s = "profiles"     -> NeedHost(opt) /\ opt.pgo
      [] s \in {"libzstd", "libxml2", "stage2", "use-stage2"} -> NeedHost(opt)
      [] s \in {"liblzma", "libedit"} -> NeedHost(opt) /\ opt.lldb
      [] s = "bolt"         -> NeedHost(opt) /\ DoBolt(opt) /\ fdata
      [] s = "lldb-server"  -> NeedHost(opt) /\ LinuxHost /\ opt.runtimes /\ opt.lldb
      [] s \in (Runtimes \ {"lldb-server"}) \cup {"device-sysroots", "stage2-links"} ->
              NeedHost(opt) /\ LinuxHost /\ opt.runtimes
      [] s \in {"host-sysroots", "win-clean", "win-libzstd", "win-libxml2", "windows-x86-64"} ->
              NeedWindows(opt)
      [] s = "libcxx"       -> NeedWindows(opt) /\ ~opt.sdk
      [] s = "win-liblzma"  -> NeedWindows(opt) /\ opt.lldb
      [] s = "stage2-test"  -> /\ LinuxHost /\ opt.testing /\ NeedHost(opt)
                               /\ ShouldBuild(opt, "stage2") /\ ~opt.instr
      [] s = "bolt-instrument" -> NeedHost(opt) /\ DoBoltInstrument(opt)
      [] s = "package-host"    -> opt.package /\ NeedHost(opt)
      [] s = "package-windows" -> opt.package /\ NeedWindows(opt)
      [] OTHER -> TRUE

Advance == pc' = pc + 1 /\ phase' = 0
Stay(p) == pc' = pc /\ phase' = p

\* The process is gone: its variables are reset, the disk stays.
Stop(why) ==
    /\ pc' = 0 /\ phase' = 0 /\ result' = why
    /\ toolchain' = "prebuilt" /\ fdata' = FALSE /\ rebuilt' = {}
    /\ UNCHANGED << opt, edited, run >>

StartRun ==
    /\ pc = 0 /\ run < MaxRuns
    /\ \E o \in OptionSets : opt' = o
    /\ \E e \in Edits : edited' = IF run = 0 THEN Builders ELSE e
    /\ run' = run + 1 /\ result' = "running"
    /\ pc' = 1 /\ phase' = 0
    /\ UNCHANGED << toolchain, fdata, rebuilt >> /\ UNCHANGED diskVars

\* Faulty variant: a skipped libxml2 does not look at the headers.
RestoredByBuild(s) ==
    IF Name(s) = "libxml2" /\ phase # 0 THEN "in place" ELSE headers

\* LibXml2Builder._backup_file puts the headers back when build() is left.
Restored(s) == IF Name(s) = "libxml2" THEN "in place" ELSE headers

\* A step main() does not reach, or a builder the registry skips.  Skipping
\* libxml2 still renames its headers and renames them back (backup_file).
PassOver ==
    /\ pc # 0 /\ phase = 0
    /\ LET s == Flow[pc] IN
         /\ ~Applies(s) \/ (s \in Builders /\ ~ShouldBuild(opt, s))
         /\ headers' = IF Applies(s) THEN Restored(s) ELSE headers
    /\ Advance
    /\ UNCHANGED << opt, edited, run, result, toolchain, fdata, rebuilt >>
    /\ UNCHANGED << tree, info, disk, objs, temp, clang, orig, planted, pkg, tarball >>

Return ==
    /\ At("return") /\ Stop("done") /\ UNCHANGED diskVars

\* kill -9, power loss, ^C in a child: nothing is cleaned up.
Kill == pc # 0 /\ Stop("killed") /\ UNCHANGED diskVars

\* Steps that start an external command or copy files.
Fallible == Steps \ {"use-stage1", "use-stage2", "win-clean", "return"}

\* A command exits with an error: the exception ends main(), and backup_file's
\* finally clause restores the headers.
ToolFails ==
    /\ pc # 0 /\ Flow[pc] \in Fallible /\ Applies(Flow[pc])
    /\ Flow[pc] \in Builders => ShouldBuild(opt, Flow[pc])
    /\ headers' = Restored(Flow[pc])
    /\ Stop("tool")
    /\ UNCHANGED << tree, info, disk, objs, temp, clang, orig, planted, pkg, tarball >>

-----------------------------------------------------------------------------
(* The steps that are not builders. *)

\* setup_sources (see SourceSetup): the description of the patches is written
\* before the patched sources are there.
WriteSourceInfo ==
    /\ At("sources") /\ Applies("sources")
    /\ phase = 0 /\ opt.patches
    /\ Stay(1)
    /\ info' = TRUE
    /\ UNCHANGED << opt, edited, run, result, toolchain, fdata, rebuilt >>
    /\ UNCHANGED << tree, headers, disk, objs, temp, clang, orig, planted, pkg, tarball >>

PlaceSources ==
    /\ At("sources") /\ Applies("sources")
    /\ phase = IF opt.patches THEN 1 ELSE 0
    /\ tree' = TRUE
    /\ Advance
    /\ UNCHANGED << opt, edited, run, result, toolchain, fdata, rebuilt >>
    /\ UNCHANGED << info, headers, disk, objs, temp, clang, orig, planted, pkg, tarball >>

\* add_header_links and add_lib_links make links inside an install directory.
LinkHeaders(s, b) ==
    /\ At(s) /\ Applies(s)
    /\ disk[b].st # "absent"
    /\ Advance
    /\ UNCHANGED << opt, edited, run, result, toolchain, fdata, rebuilt >> /\ UNCHANGED diskVars

\* The ninja check targets, in the build directory of the builder.
Test(s, b) ==
    /\ At(s) /\ Applies(s)
    /\ objs[b].st # "absent"
    /\ Advance
    /\ UNCHANGED << opt, edited, run, result, toolchain, fdata, rebuilt >> /\ UNCHANGED diskVars

UseStage1 ==
    /\ At("use-stage1") /\ Applies("use-stage1")
    /\ toolchain' = "stage1"
    /\ Advance
    /\ UNCHANGED << opt, edited, run, result, fdata, rebuilt >> /\ UNCHANGED diskVars

UseStage2 ==
    /\ At("use-stage2") /\ Applies("use-stage2")
    /\ toolchain' = IF KeepsStage1(opt) THEN toolchain ELSE "stage2"
    /\ Advance
    /\ UNCHANGED << opt, edited, run, result, fdata, rebuilt >> /\ UNCHANGED diskVars

\* Whether the prebuilt profile tars hold a BOLT profile for this revision.
ExtractProfiles ==
    /\ At("profiles") /\ Applies("profiles")
    /\ fdata' \in BOOLEAN
    /\ Advance
    /\ UNCHANGED << opt, edited, run, result, toolchain, rebuilt >> /\ UNCHANGED diskVars

\* Faulty variant: the Windows builders install over what is there.
CleanNothing ==
    /\ At("win-clean") /\ Applies("win-clean")
    /\ Advance
    /\ UNCHANGED << opt, edited, run, result, toolchain, fdata, rebuilt >> /\ UNCHANGED diskVars

\* build_llvm_for_windows deletes the install directory before its builders.
CleanWindows ==
    /\ At("win-clean") /\ Applies("win-clean")
    /\ disk' = [b \in Builders |-> IF b \in WinTree THEN Absent ELSE disk[b]]
    /\ Advance
    /\ UNCHANGED << opt, edited, run, result, toolchain, fdata, rebuilt >>
    /\ UNCHANGED << tree, info, headers, objs, temp, clang, orig, planted, pkg, tarball >>

-----------------------------------------------------------------------------
(* Builders: Builder.build() wrapped by register_and_build. *)

Compiler(b) == IF b \in CopyBuilders THEN "none" ELSE toolchain

\* The products that building b reads from OUT.
Inputs(b) ==
    (IF Compiler(b) \in {"stage1", "stage2"} THEN {toolchain} ELSE {})
    \cup (CASE b = "stage2" ->
                 { "libzstd", "libxml2" }
                   \cup (IF opt.lldb THEN { "swig", "liblzma", "libedit" } ELSE {})
            [] b = "windows-x86-64" ->
                 { "win-libzstd", "win-libxml2" }
                   \cup (IF opt.lldb THEN { "swig", "win-liblzma" } ELSE {})
                   \cup (IF opt.sdk THEN {} ELSE { "host-sysroots" })
            [] b \in WinLibs \cup {"libcxx"} ->
                 IF opt.sdk THEN {} ELSE { "host-sysroots" }
            [] b = "sanitizer-mapfile" -> { "stage2", "compiler-rt" }
            [] b \in {"compiler-rt", "tsan"} ->
                 { "stage2", "device-sysroots", "platform-libcxxabi" }
            [] b = "compiler-rt-linux-musl" -> { "stage2" }
            [] b \in Runtimes \ { "sanitizer-mapfile", "compiler-rt", "tsan",
                                  "compiler-rt-linux-musl" } ->
                 { "stage2", "device-sysroots" }
            [] OTHER -> {})

\* The runtimes a builder finds in its own compiler's resource directory.
ResourceLibs ==
    IF toolchain = "stage2"
    THEN { r \in {"builtins", "libunwind"} : disk[r].st # "absent" }
    ELSE { r \in {"builtins", "libunwind"} : << toolchain, r >> \in planted }

\* Toolchain.build_path: the directory the compiler was built in.  The prebuilt
\* toolchain has none.
BuildDir == IF toolchain \in {"stage1", "stage2"} THEN objs[toolchain] ELSE NoObjects

\* The tools that b runs from there are not built.
NoTools(b) ==
    /\ b \in TablegenUsers
    /\ BuildDir.st = "absent" \/ (b = "lldb-server" /\ BuildDir.st = "ok" /\ ~BuildDir.lldb)

\* Something b reads is certainly not there.
Lacks(b) ==
    \/ \E i \in Inputs(b) : disk[i].st = "absent"
    \/ "stage2" \in Inputs(b) /\ Compiler(b) = "stage2" /\ clang = "absent"
    \/ b \in LinkedRuntimes /\ ~({"builtins", "libunwind"} \subseteq ResourceLibs)
    \/ b \in LLVMBuilders /\ ~tree
    \/ NoTools(b)

\* Something b reads was left half written, and may or may not do.
Doubtful(b) ==
    \/ \E i \in Inputs(b) : disk[i].st = "partial"
    \/ b \in TablegenUsers /\ BuildDir.st = "partial"

\* _setup_build_dir: the shared libraries that stage2 copies into its build
\* directory, so that its own tools run from there, before it does anything else.
EarlyInputs(b) ==
    IF b = "stage2" /\ LinuxHost
    THEN {"libxml2"} \cup (IF opt.lldb THEN {"libedit"} ELSE {}) ELSE {}

Building(b) == At(b) /\ b \in Builders /\ Applies(b) /\ ShouldBuild(opt, b)

\* What is left of x when b has cleared its directories.  The device sysroots are
\* removed one configuration at a time, the files of platform-libcxxabi with them.
Cleared(x, b) ==
    IF x \in Wiped(b) THEN Absent
    ELSE IF /\ b = "device-sysroots" /\ x \in {"device-sysroots", "platform-libcxxabi"}
            /\ disk[x].st = "ok"
         THEN [disk[x] EXCEPT !.st = "partial"]
         ELSE disk[x]

\* The directories are cleared and the headers of libxml2 set aside.
BuildBegin(b) ==
    /\ Building(b) /\ phase = 0
    /\ \A i \in EarlyInputs(b) : disk[i].st # "absent"
    /\ Stay(1)
    /\ disk' = [x \in Builders |-> Cleared(x, b)]
    /\ clang' = IF b = "stage2" THEN "absent" ELSE clang
    /\ orig' = IF b = "stage2" THEN "absent" ELSE orig
    /\ headers' = IF Name(b) = "libxml2" THEN "moved" ELSE headers
    /\ UNCHANGED << opt, edited, run, result, toolchain, fdata, rebuilt >>
    /\ UNCHANGED << tree, info, objs, temp, planted, pkg, tarball >>

\* An object that b's compiler writes now.
CompiledNow(b) ==
    [ st |-> "partial", cc |-> Compiler(b),
      ccrun |-> IF Compiler(b) \in {"stage1", "stage2"} THEN disk[toolchain].run ELSE 0,
      made |-> run, lldb |-> objs[b].lldb ]

\* ninja and make compile again what is older than its sources or, ninja only,
\* was compiled by another command; a compiler that was itself replaced under its
\* old name is no reason to.
Keeps(b) ==
    /\ b \notin edited /\ objs[b].st # "absent"
    /\ objs[b].cc = Compiler(b) \/ b \in Autoconf

\* cmake or configure is done, and the compilation starts.
Compile(b) ==
    /\ Building(b) /\ phase = 1
    /\ ~Lacks(b)
    /\ Stay(2)
    /\ objs' = IF b \in Dirless THEN objs
               ELSE [objs EXCEPT ![b] = IF Keeps(b) THEN [objs[b] EXCEPT !.st = "partial"]
                                                    ELSE CompiledNow(b)]
    /\ UNCHANGED << opt, edited, run, result, toolchain, fdata, rebuilt >>
    /\ UNCHANGED << tree, info, headers, disk, temp, clang, orig, planted, pkg, tarball >>

\* The first run that a file installed by b may be of: an install adds to what is
\* there, the Carriers copy all that their temporary directory holds.
Oldest(b) ==
    IF b \in Carriers /\ temp[b] # 0 THEN temp[b]
    ELSE IF b = "device-sysroots" \/ disk[b].st = "absent" THEN run
    ELSE disk[b].oldest

Made(b) ==
    LET o == IF b \in Dirless THEN CompiledNow(b) ELSE objs[b]
    IN  [ st |-> "partial", run |-> run, cc |-> o.cc, ccrun |-> o.ccrun,
          lldb |-> opt.lldb, made |-> o.made, oldest |-> Oldest(b) ]

\* libcxx replaces the libc++ of the MinGW sysroot with its own.
Touched(b, state) ==
    IF b = "libcxx" THEN [disk["host-sysroots"] EXCEPT !.st = state]
                    ELSE disk["host-sysroots"]

\* ninja and make succeed, and the first file is installed.
InstallBegin(b) ==
    /\ Building(b) /\ phase = 2
    /\ Stay(3)
    /\ disk' = [disk EXCEPT !["host-sysroots"] = Touched(b, "partial"),
                            ![b] = Made(b)]
    /\ objs' = IF b \in Dirless THEN objs
               ELSE [objs EXCEPT ![b].st = "ok", ![b].lldb = @ \/ opt.lldb]
    /\ temp' = [x \in Carriers |-> IF x = b /\ temp[x] = 0 THEN run ELSE temp[x]]
    /\ clang' \in IF b = "stage2" THEN {"absent", "plain"} ELSE {clang}
    /\ UNCHANGED << opt, edited, run, result, toolchain, fdata, rebuilt >>
    /\ UNCHANGED << tree, info, headers, orig, planted, pkg, tarball >>

\* Faulty variants: the copy is also made when the directories are the same, and
\* the copy is never made.
CopiesAlways(b) ==
    IF b \in {"builtins", "libunwind"} THEN { << toolchain, b >> } ELSE {}
CopiesNever(b) == {}

\* builtins and libunwind are also put beside the compiler, if that is not stage2.
Copies(b) ==
    IF b \in {"builtins", "libunwind"} /\ toolchain # "stage2"
    THEN { << toolchain, b >> } ELSE {}

\* The last file is installed, and the builder returns.  The device sysroots are
\* new then, and what platform-libcxxabi had installed there is gone.
InstallEnd(b) ==
    /\ Building(b) /\ phase = 3
    /\ Advance
    /\ disk' = [disk EXCEPT !["host-sysroots"] = Touched(b, "ok"),
                            !["platform-libcxxabi"] =
                                IF b = "device-sysroots" THEN Absent ELSE @,
                            ![b].st = "ok"]
    /\ rebuilt' = rebuilt \cup {b}
    /\ clang' = IF b = "stage2" THEN "plain" ELSE clang
    /\ planted' = planted \cup Copies(b)
    /\ headers' = Restored(b)
    /\ UNCHANGED << opt, edited, run, result, toolchain, fdata >>
    /\ UNCHANGED << tree, info, objs, temp, orig, pkg, tarball >>

Build == \E b \in Builders :
             BuildBegin(b) \/ Compile(b) \/ InstallBegin(b) \/ InstallEnd(b)

-----------------------------------------------------------------------------
(* BOLT: bolt_optimize and bolt_instrument move the binary aside and let    *)
(* llvm-bolt write it back.                                                *)

BoltSteps == { "bolt", "bolt-instrument" }

MoveClang ==
    /\ \E s \in BoltSteps : At(s) /\ Applies(s)
    /\ phase = 0 /\ clang # "absent" /\ disk["stage2"].st # "absent"
    /\ Stay(1)
    /\ orig' = clang
    /\ clang' = "absent"
    /\ UNCHANGED << opt, edited, run, result, toolchain, fdata, rebuilt >>
    /\ UNCHANGED << tree, info, headers, disk, objs, temp, planted, pkg, tarball >>

RunLlvmBolt ==
    /\ \E s \in BoltSteps :
         /\ At(s) /\ Applies(s)
         /\ clang' = IF s = "bolt" THEN "bolted" ELSE "instrumented"
    /\ phase = 1
    /\ Advance
    /\ UNCHANGED << opt, edited, run, result, toolchain, fdata, rebuilt >>
    /\ UNCHANGED << tree, info, headers, disk, objs, temp, orig, planted, pkg, tarball >>

-----------------------------------------------------------------------------
(* package_toolchain. *)

Main(k) == IF k = "host" THEN "stage2" ELSE "windows-x86-64"
PackageStep(k) == IF k = "host" THEN "package-host" ELSE "package-windows"
InstallTree(k) == IF k = "host" THEN HostTree ELSE WinTree

\* Whether Builder.toolchain.strip is run: not for a host package to debug.
Strips(k) == opt.strip /\ (k = "host" => ~opt.debug /\ ~opt.next)

\* Faulty variant: the lldb binaries are always necessary.
AlwaysWantsLldb(k) == ~disk[Main(k)].lldb \/ ~info

\* A file package_toolchain opens, checks for or runs is not there.
PackageLacks(k) ==
    \/ Strips(k) /\ toolchain # "prebuilt" /\ disk[toolchain].st = "absent"
    \/ k = "host" /\ clang = "absent"
    \/ k = "windows" /\ ~opt.sdk /\ disk["libcxx"].st = "absent"
    \/ opt.lldb /\ ~disk[Main(k)].lldb
    \/ ~info

\* Reading the version needs the install directory; then the old package goes.
PackageBegin(k) ==
    /\ At(PackageStep(k)) /\ Applies(PackageStep(k)) /\ phase = 0
    /\ disk[Main(k)].st # "absent"
    /\ Stay(1)
    /\ pkg' = [pkg EXCEPT ![k] = [NoPackage EXCEPT !.st = "partial", !.run = run]]
    /\ UNCHANGED << opt, edited, run, result, toolchain, fdata, rebuilt >>
    /\ UNCHANGED << tree, info, headers, disk, objs, temp, clang, orig, planted, tarball >>

\* Copy, prune, strip, check and annotate.
PackageEnd(k) ==
    /\ At(PackageStep(k)) /\ Applies(PackageStep(k)) /\ phase = 1
    /\ ~PackageLacks(k)
    /\ IF opt.tar THEN Stay(2) ELSE Advance
    /\ pkg' = [pkg EXCEPT ![k] =
                 [ st |-> "ok", run |-> run,
                   parts |-> [b \in Builders |->
                                IF b \in InstallTree(k) THEN disk[b] ELSE Absent],
                   bin |-> IF k = "host" THEN clang ELSE "plain",
                   fresh |-> Main(k) \in rebuilt,
                   whole |-> Unfiltered(opt) /\ opt.runtimes ]]
    /\ UNCHANGED << opt, edited, run, result, toolchain, fdata, rebuilt >>
    /\ UNCHANGED << tree, info, headers, disk, objs, temp, clang, orig, planted, tarball >>

\* tar -cj writes the archive in place, over the one of an earlier run.
TarBegin(k) ==
    /\ At(PackageStep(k)) /\ phase = 2
    /\ Stay(3)
    /\ tarball' = [tarball EXCEPT ![k] = [st |-> "partial", run |-> run]]
    /\ UNCHANGED << opt, edited, run, result, toolchain, fdata, rebuilt >>
    /\ UNCHANGED << tree, info, headers, disk, objs, temp, clang, orig, planted, pkg >>

TarEnd(k) ==
    /\ At(PackageStep(k)) /\ phase = 3
    /\ Advance
    /\ tarball' = [tarball EXCEPT ![k] = [st |-> "ok", run |-> run]]
    /\ UNCHANGED << opt, edited, run, result, toolchain, fdata, rebuilt >>
    /\ UNCHANGED << tree, info, headers, disk, objs, temp, clang, orig, planted, pkg >>

PackageToolchain ==
    \E k \in Targets : PackageBegin(k) \/ PackageEnd(k) \/ TarBegin(k) \/ TarEnd(k)

-----------------------------------------------------------------------------
(* A file the step needs is not on disk: an OSError or a failing command   *)
(* ends main().                                                            *)

Starved ==
    \/ At("stage1-links") /\ Applies("stage1-links") /\ disk["stage1"].st # "ok"
    \/ At("stage2-links") /\ Applies("stage2-links") /\ disk["stage2"].st # "ok"
    \/ At("stage1-test") /\ Applies("stage1-test") /\ objs["stage1"].st = "absent"
    \/ \E b \in Builders :
         /\ Building(b)
         /\ \/ phase = 0 /\ \E i \in EarlyInputs(b) : disk[i].st # "ok"
            \/ phase = 1 /\ (Lacks(b) \/ Doubtful(b))
            \/ phase = 2 /\ Doubtful(b)
    \/ /\ \E s \in BoltSteps : At(s) /\ Applies(s)
       /\ phase = 0 /\ (clang = "absent" \/ disk["stage2"].st # "ok")
    \/ \E k \in Targets :
         /\ At(PackageStep(k)) /\ Applies(PackageStep(k))
         /\ \/ phase = 0 /\ disk[Main(k)].st # "ok"
            \/ phase = 1 /\ (PackageLacks(k) \/ disk[Main(k)].st # "ok")

FileMissing ==
    /\ Starved
    /\ headers' = Restored(Flow[pc])
    /\ Stop("missing")
    /\ UNCHANGED << tree, info, disk, objs, temp, clang, orig, planted, pkg, tarball >>

-----------------------------------------------------------------------------
\* A step of main() that goes well, or that must end it.
Step ==
    \/ PassOver
    \/ WriteSourceInfo
    \/ PlaceSources
    \/ LinkHeaders("stage1-links", "stage1")
    \/ LinkHeaders("stage2-links", "stage2")
    \/ Test("stage1-test", "stage1")
    \/ Test("stage2-test", "stage2")
    \/ UseStage1
    \/ UseStage2
    \/ ExtractProfiles
    \/ CleanWindows
    \/ Build
    \/ MoveClang
    \/ RunLlvmBolt
    \/ PackageToolchain
    \/ Return
    \/ FileMissing

\* After the last run nothing happens any more.
Finished == pc = 0 /\ run = MaxRuns /\ UNCHANGED vars

Next == StartRun \/ Step \/ ToolFails \/ Kill \/ Finished

Spec == Init /\ [][Next]_vars

\* Every command that main() starts ends, so the process keeps going.
FairSpec == Spec /\ WF_vars(Step)

-----------------------------------------------------------------------------
(* Properties. *)

\* Product p was installed when compiler c was already there, and what stage2
\* compiled of it since c is installed was compiled by c itself.  Older objects may
\* be in it: ninja keeps them when only the compiler has changed.
Matches(p, c) ==
    p.st # "absent" =>
        /\ p.run >= c.run
        /\ (p.cc = "stage2" /\ p.made >= c.run) => p.ccrun = c.run

\* No runtime library beside the stage2 compiler is older than that compiler, and
\* none was compiled by a stage2 that this one has replaced unless its objects
\* were kept from before; on disk and in the package, whatever mixture of
\* filtered, failed and killed runs came before (builders.py: stage2 removes its
\* install directory, the runtimes are built after it).
RuntimesMatchCompiler ==
    \A r \in HostTree \ {"stage2"} :
        /\ Matches(disk[r], disk["stage2"])
        /\ Matches(pkg["host"].parts[r], pkg["host"].parts["stage2"])

\* Everything in a package whose main builder ran in the packaging run was
\* installed by that run, and no file of it is left of an earlier one: not the
\* lldb-server of a run with lldb in a package without it, not a DLL of an earlier
\* Windows configuration (do_build.py removes both install directories before
\* they are filled again).  Only compiler-rt and tsan may bring old files along,
\* from the temporary directories that nobody empties (builders.py:381, 438).
NoStaleInPackage ==
    \A k \in Targets : pkg[k].fresh =>
        \A b \in InstallTree(k) :
            pkg[k].parts[b].st # "absent" =>
                /\ pkg[k].parts[b].run = pkg[k].run
                /\ pkg[k].parts[b].oldest = pkg[k].run \/ b \in Carriers

\* The package of an unfiltered run has the compiler and every runtime complete,
\* and a clang binary, although package_toolchain itself checks only for binaries
\* and libc++ (do_build.py "FIXME: check that all libs ... are created").
WholePackageIsComplete ==
    pkg["host"].whole =>
        /\ pkg["host"].bin # "absent"
        /\ \A b \in HostTree :
             \/ pkg["host"].parts[b].st = "ok"
             \/ ~LinuxHost /\ b # "stage2"
             \/ b = "lldb-server" /\ ~pkg["host"].parts["stage2"].lldb

\* Whatever an unfiltered run compiles for its host package with a stage compiler,
\* it compiles with one that it has installed itself: no step of the bootstrap
\* falls back on the compiler an earlier run left in OUT.  (Objects that ninja
\* keeps from an earlier run were compiled by that run's compiler.)
BootstrapChain ==
    pkg["host"].whole =>
        \A b \in HostTree :
            LET p == pkg["host"].parts[b] IN
            p.cc \in {"stage1", "stage2"} /\ p.made = pkg["host"].run =>
                p.ccrun = pkg["host"].run

\* In a run that builds stage2, nothing is compiled or tested with a BOLT
\* instrumented clang: the instrumentation comes after every other build step.
NoInstrumentedCompiler ==
    (/\ pc # 0 /\ "stage2" \in rebuilt /\ toolchain = "stage2"
     /\ Applies(Flow[pc])
     /\ Flow[pc] \in Builders \cup {"stage2-test"}) => clang # "instrumented"

\* Command lines that need the build directory of stage1 although --single-stage
\* skips stage1: to test it, or because the compiler of lldb-server or of the
\* Windows tools, whose llvm-tblgen they run, is then the prebuilt one.
NeedsStage1Dir(o) ==
    /\ o.single
    /\ \/ o.testing /\ o.stage1t
       \/ /\ ~NeedHost(o) \/ KeepsStage1(o)
          /\ NeedWindows(o) \/ (NeedHost(o) /\ LinuxHost /\ o.runtimes /\ o.lldb)

\* An unfiltered run never stops for want of a file, whatever earlier runs left
\* behind: everything it reads it has made itself, unless it was told to use a
\* directory that it was also told not to make.
FullRunNeverStarves ==
    result = "missing" => ~Unfiltered(opt) \/ NeedsStage1Dir(opt)

\* --single-stage: "Skip building stage 1 compiler and use the prebuilt instead."
\* (do_build.py:858): a run that filters nothing else finds what it needs.
SingleStageUsesPrebuilt == result = "missing" /\ Unfiltered(opt) => ~opt.single

\* The configure headers that the libxml2 build sets aside are back in the source
\* tree after every run that ends normally, also if an earlier run was killed
\* while they were renamed.
HeadersRestored ==
    (result = "done" /\ (NeedHost(opt) \/ NeedWindows(opt))) => headers = "in place"

\* A run that is neither killed nor failed by a tool, filters nothing and builds
\* all it uses ends with the host package it was asked for.
FullRunPackages ==
    (/\ pc = 1 /\ Unfiltered(opt) /\ ~NeedsStage1Dir(opt)
     /\ opt.package /\ NeedHost(opt)) ~>
        \/ result \in {"killed", "tool"}
        \/ pkg["host"].st = "ok" /\ pkg["host"].run = run

=============================================================================
