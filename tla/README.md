# TLA+ models of the Android LLVM toolchain scripts

This directory holds a verification project for the scripts that build, package, test and
update Android's LLVM toolchain.  The modules model what the programs do to the state that
outlives a call - the output directory, the source tree, the shared tables - under filtered,
failing, killed and repeated runs.  `PROJECT.json` lists the components, the runs, what every
definition models, the hazards, the disagreements found and the theorems.

Check a run with `tlc -workers 2 -config <cfg> <module>`, the proofs with `tlapm <module>`, the
modules whose names end in `Proofs`.

## 1. Inventory

| Component | Source | State it keeps | Operations | Hard behaviour |
|---|---|---|---|---|
| Build driver | `do_build.py` main, parse_args | position in the build, default toolchain, command line | one run | filters and stages combine freely; a run of hours is killed or fails anywhere, and the next one starts from what it left |
| Builder registry | `builder_registry.py` | filters | add_filter, should_build, decorated build | a skipped builder is assumed to have run before |
| Builders | `base_builders.py`, `builders.py` | build and install directories in OUT, sysroots, headers of the libxml2 sources | build = clear, configure, compile, install | several builders share a directory; build directories outlive the run and its compiler; one builder renames files in the source tree |
| Packaging | `do_build.py` package_toolchain | package directory, tar archive, `clang_source_info.md` | package_toolchain | removes the old package first; checks only part of what it ships |
| Source setup | `source_manager.py` | `OUT/llvm-project`, its `.tmp`, `clang_source_info.md` | setup_sources | temporary directory and rename; killed anywhere; sources already there |
| Forrest bookkeeping | `test/scripts/test_prebuilts.py`, `update_results.py`, `data.py`, `forrest.py`, `ab_client.py` | CSV tables in CNS, invocations in Forrest | submit, retry, poll, move | two programs rewrite whole tables without a lock; crash between submission and record |
| CL preparation | `test_prebuilts.py`, `gerrit.py` | CL tables, Gerrit | find or upload a CL | crash between upload and record |
| Bisection wrapper | `bisect_driver.py` | good and bad caches | populate, triage | many wrappers of one make at once; hard links |
| Prebuilts update | `update-prebuilts.py`, `remove-prebuilts.py`, `update-binutils.py` | prebuilts repositories | fetch, install, check, commit, upload | a failure in the second of three repositories |
| Compiler test driver | `do_test_compiler.py` | Android tree, devices | build targets, flash, collect profiles | keep going after failures |
| Patch tools | `cherrypick_cl.py`, `trim_patch_data.py`, `merge_from_upstream.py` | `PATCHES.json`, patch files | add, sort, remove | order decides whether patches apply |
| Kernel toolchain update | `update_kernel_toolchain.py` | several git repositories | update, commit, push | one of several steps fails |
| clang-tidy wrapper | `clang-tidy.sh` | output and dependency files | run clang and clang-tidy | two processes share a file |
| Versions, paths, targets | `android_version.py`, `version.py`, `paths.py`, `configs.py`, `toolchains.py`, `utils.py`, ... | constants, two flags | - | data and thin wrappers |
| Reports, CI | `do_kythe_xref.py`, `llvm_next_warnings.py`, `update-clang-stable.py`, `kokoro/`, `docker/`, `kernel-boot-tests/`, `test/platform/` | - | - | one-shot scripts around external tools |

How they interact.  `do_build.py` calls setup_sources, then the builders; the sources and OUT
are all they share, apart from the class attributes `Builder.toolchain` and
`Builder.output_toolchain`.  `cherrypick_cl.py --verify-merge` calls setup_sources too.
Packaging copies the install directories, and the package is what `update-prebuilts.py`
fetches and `do_test_compiler.py` unpacks.  `test_prebuilts.py` and `update_results.py` meet
only in the CSV tables and in Forrest.  No call-back or thread crosses a component; the
concurrency is between processes: two scripts on the tables, compiler wrappers under one make.

What makes each correct, in a sentence:

* **Build.** Whatever mixture of runs came before, the runtimes belong to the compiler beside
  them, a package contains nothing stale and nothing is missing, and a full run does not need
  leftovers - up to what incremental builds keep on purpose, which the properties name.
* **Source setup.** The source directory is all there or not there, and both descriptions of
  it (in OUT and in the package) are true.
* **Forrest.** Nothing is submitted twice, no result is lost, every row is completed.
* **Bisection.** An object comes from the cache its set says, with the side effects of the
  same compilation.
* **Prebuilts and patches.** A failed step leaves something the next call can deal with; the
  patch list stays sorted.

## 2. Modules

| Module | Models | Run | Proofs |
|---|---|---|---|
| `BuildPipeline` | `do_build.py` main, registry, builders, packaging | `build_pipeline`, `single_stage` | `BuildPipelineProofs`, `FullRunProofs` |
| `SourceSetup` | `source_manager.py`, the annotation in packaging | `source_setup`, `copy_fallback` | `SourceSetupProofs` |
| `ForrestTracking` | `test_prebuilts.py` and `update_results.py` on the tables | `forrest_tracking`, `pending_recovery` | `ForrestTrackingProofs` |
| `CLPreparation` | `prepareCLs`, `gerrit.py`, the git steps of `update_kernel_toolchain.py` | `cl_preparation`, `kernel_upload` | `CLPreparationProofs` |
| `BisectSession` | what a bisection promises (abstract) | - | - |
| `BisectDriver` | `bisect_driver.py`; implements `BisectSession` | `bisect_driver` | `BisectDriverProofs` |
| `UpdatePrebuilts` | `update-prebuilts.py`, `remove-prebuilts.py` | `update_prebuilts` | `UpdatePrebuiltsProofs` |
| `PatchList` | `cherrypick_cl.py`, `trim_patch_data.py`, the sorting | `patch_list` | `PatchListProofs` |
| `TestCompiler` | `do_test_compiler.py` | `keep_going` | - |

Each `MC` module extends its component and gives the constants that a `.cfg` cannot write.
The modules meet where the programs do: the patches that `SourceSetup` applies are the list of
`PatchList`; the package of `BuildPipeline` is the download of `UpdatePrebuilts`, which is one
step (`Upload`) of `CLPreparation`, whose end is the start of `ForrestTracking`; the build of
`TestCompiler` is a run of `BuildPipeline`.  In the code they share files and no state, hence
they are not composed into one specification.

Every module has, beside its actions, definitions that begin with the comment "Faulty variant":
an action as a plausible bug would leave it.  They are not part of any `Next`; `PROJECT.json`
says under `mutants` which property each of them breaks.

Worth doing next: `ForrestTracking` without failures as a refinement of a ledger in which an
invocation is recorded once and completed once, with the theorem that it is one: `SeenInv` and
`WrittenInv` of its proofs are most of what that needs.

## 3. BuildPipeline

**State.**  A behaviour is a sequence of runs of `do_build.py` over one OUT directory.  `pc` is
the position in `Flow`, main()'s steps in program order, 0 between runs; `phase` the progress
in a step; `opt` the command line; `edited` the builders whose sources or flags have changed since
the last run; `toolchain` is `Builder.toolchain`, `fdata` whether a BOLT profile was found,
`rebuilt` the builders that ran.  The rest is on disk: `disk[b]` is what builder `b` has installed,
`objs[b]` its build directory, `temp[b]` the temporary install directory of compiler-rt and tsan;
`clang` and `orig` the binaries BOLT rewrites, `planted` the runtimes copied beside a compiler
other than stage2, `headers` the renamed libxml2 headers, `tree` and `info` the sources and their
description, `pkg` and `tarball` the results.

**What a product knows of its making.**  Build directories are never removed: ninja and make keep
the objects of earlier runs, and neither compiles again because the compiler was replaced under
its old name (`Keeps`; ninja does when the command changes, make does not).  So `objs[b]` has the
compiler of its oldest object (`cc`), the run that had installed that compiler (`ccrun`) and the
run that compiled the object (`made`); a product inherits them.  Likewise an install adds to what is
there and the temporary directories of the `Carriers` are never emptied, so a product has the first
run that a file in it may be of (`oldest`).  `made` and `oldest` are bounds: something as old may be
there.  `edited` is any set of `Edits`: a builder in it compiles everything again, one outside keeps
everything, which are the two ends of what an incremental build does.

**Actions.**  `PassOver` is a step main() does not reach or a builder the registry skips.  A
builder takes four steps: `BuildBegin` clears what the code removes (`Cleared`; the device
sysroots go one configuration at a time, hence are partial), `Compile` begins the compilation and
needs the inputs (`Lacks`: products, sources, runtimes to link, and the llvm-tblgen in the
compiler's build directory), `InstallBegin` and `InstallEnd` install.  stage2 needs two libraries
before all that (`EarlyInputs`).  `MoveClang` and `RunLlvmBolt` are bolt_optimize and
bolt_instrument; `CleanWindows` the rmtree of build_llvm_for_windows; `PackageBegin`,
`PackageEnd`, `TarBegin` and `TarEnd` package_toolchain; `Test` runs ninja in a build directory.
`ToolFails`, `FileMissing` and `Kill` end a run: by a failing command, by a file that is not
there, or without any cleanup.  `Applies` holds main()'s conditions.

**Abstractions.**  Contents are who wrote them.  A copy and the removal of a tree are one write; a
compilation and an install are two.  A file that was left half written may or may not serve
(`Doubtful` inputs enable both outcomes).  A test run can only fail or pass.  Flags that change
compiler arguments only are an edit.  The libraries' names on musl are not told apart.  Darwin is
expressible (`LinuxHost`) and covered by the proofs; the runs are on Linux, where there is more
to go wrong.

**Run `build_pipeline`** (two runs, sixteen command lines each, 450,000 states).  Two runs are
what it takes to leave something and to stumble over it; the command lines contain each flag
of `Options` at both values and each kind of filter, for the host and for Windows.  The edit
between them is of stage2, builtins and the Windows tools, so that both kinds of objects meet.

* `RuntimesMatchCompiler`: no runtime is older than the stage2 beside it, and none has an object
  compiled since by another stage2.  Objects from before are excused: a filtered run that builds
  a new stage2 and the runtimes again keeps them (source_manager.py:123-124 wants incremental
  builds), and the model shows such packages.
* `NoStaleInPackage`: no file of an earlier run is in the package, except through the temporary
  directories of compiler-rt and tsan, which do bring them along.
* `WholePackageIsComplete`: what a package holds, after any history.
* `BootstrapChain`: what an unfiltered run compiles with a stage compiler, it compiles with its own.
* `FullRunNeverStarves`: it finds all it reads, unless its command line needs a stage1 directory
  that it also forbids to make (`NeedsStage1Dir`).
* `NoInstrumentedCompiler`: the order main()'s comment asks for.
* `HeadersRestored`: the source tree outside OUT is repaired also after a kill, because even a
  skipped libxml2 builder renames and restores.
* `FullRunPackages`: an unfiltered run that is neither killed nor failed by a tool reaches its
  package, with the same exception.

**Run `single_stage`** shows the exception above against the help text of `--single-stage`: the
prebuilt compiler has no build directory to take llvm-tblgen from, and the stage1 tests are run in
a directory nobody has made.  Another disagreement is in the model without a run of its own:
`--skip-build` ("only do the packaging step", `do_build.py:799`) still deletes the Windows
installation that was to be packaged (`CleanWindows`, `do_build.py:93`).

**Fairness.**  `WF_vars(Step)`: the commands that main() starts terminate, and main() is
sequential.  Starting a run, killing it and a failing tool are not fair.

**Proofs** (`BuildPipelineProofs`, for every set of command lines and of edits, any `MaxRuns`, both
hosts).  `TypeCorrect` is by the actions.  `RuntimesMatchCompiler` and `NoStaleInPackage` are not
inductive: nothing in them says why, when stage2 is being installed, no runtime of an older
stage2 is there, or what the package will be copied from.  `DiskInv` adds it.
`WipeInv` says that while stage2 is being built the rest of its tree is gone; `InstallInv`
that a product being installed carries this run's number; `HostInv` that once stage2 is in
`rebuilt`, nothing in its tree is of an earlier run (`OfThisRun`); `WindowsInv` the same for the
Windows tree once main() is past its removal; `IdleInv` that between runs nothing is
`rebuilt`.  `MatchOnDisk` is the property about the disk, with what the build directories need
for it: their objects match too (`ObjsMatch`), a runtime compiles only where a stage2 is
(`ReadyInv`), and until stage2 is built all objects of the runtimes are of earlier runs
(`AgeInv`), so that a new stage2 finds none compiled since.  Each action keeps both (one lemma per
action), the package is a copy of a disk that satisfies them, and the two theorems follow.  The
assumptions are those of `ConstantsAssumption`.

**Proofs** (`FullRunProofs`, on top of these and from the same assumptions).
`FullRunNeverStarves`, `WholePackageIsComplete`, `BootstrapChain`, `HeadersRestored` and
`NoInstrumentedCompiler` are about the order of main()'s 37 steps: a step finds what it reads
because an earlier one of the same run has made it, and neither a filter nor anything between
has taken it away.  `FullInv` says, for an unfiltered run at any step, what is there:

* `ToolchainInv`: the compiler in use is one that main() has switched to, so it is past the
  builder that makes it; and main() has switched unless the command line says otherwise;
* `BuiltInv`: every due builder that main() has passed is complete and was made by this run (the
  host's sysroots excepted, while libcxx writes into them), and a builder that is installing
  already writes for this run;
* `DirsInv`: so are the build directories of the two compilers;
* `OwnInv`: nothing on disk was compiled by a later run, and what this run has compiled has a
  compiler of this run;
* `SourcesInv`, `ClangInv`, `PlantedInv`: the sources with their description, the clang binary
  (away only between the two halves of a BOLT step) and the runtimes that later ones link.

That nothing starves is `FullInv` against what each step reads: the compiler (`ToolchainReady`)
and its build directory (`TablegenReady`), the other inputs (`EarlyReady`, `InputsReady`) and what
packaging looks for (`PackageReady`).  The package is again a copy of a disk that satisfies it; on
Darwin, where main() builds no runtimes, the theorem is about the compiler alone.  `HeadersInv`
and `InstrumentInv` are separate and small: which of the two libxml2 steps main() is past, and
that the instrumentation is not yet behind it.

## 4. SourceSetup

`checkout` is what the developer has, `tmp` and `tree` the two directories (absent, partial,
one level too deep, or whole; of which revision, with which patches, made by which run),
`info` and `pkg` the description in OUT and in the package, `text` what package_toolchain has
read of it.  One action per statement of setup_sources that changes a directory: `RemoveTmp`,
`Copy`, `CloneRefused` and `FallbackCopy`, `Fetch`, `Patch` or `SkipPatches`, `Describe`,
`Place` or `KeepTree` and `Discard`; `OpenInfo` and `WriteInfo` are the in-place annotation.
`Stop` ends a run anywhere; `Develop` and `DeleteSources` are the developer.

**Run `source_setup`** (three runs, two values of everything, 540,000 states): `TreeIsWhole`,
`NothingLeftOver`, `InfoMatchesTree`, `PackagedInfoIsCurrent`.  Three runs allow one to leave
sources, one to be stopped and one to pick up both.  `CloneFails = FALSE`: a cp that fails
after it has created the directory fails again in the fallback.

**Run `copy_fallback`** drops that assumption and gets a source tree with LLVM one level too
deep.  New sources and patches never reach an existing source directory (`KeepTree`), against the
comment "Copy tmp_source_dir to source_dir if they are different." (`source_manager.py:177`): the
rsync below it is commented out.  Nothing is claimed about liveness: a run ends because the code has no loop.

**Proofs** (`SourceSetupProofs`, for any revisions, patches, scripts and number of runs).  All
safety properties of the run are theorems; `TreeIsWhole` needs `~CloneFails`, and the run
`copy_fallback` shows why.  Each has a strengthening of its own beside the types:
`CopyInv` says when the temporary directory does not exist yet and when it is complete;
`DiscardInv` that new sources are only deleted where there are others; `SignedInv` that a run
signs nothing in place before its description (so that an older tree is never mistaken for
the one described), and that between description and rename the temporary directory has the
described patches; `CurrentInv` follows the description from `Describe` to the package.
`TypeInv` needs `TmpInv` and `FetchInv`: a revision is there to fetch, a directory to rename.

## 5. ForrestTracking

`cns` holds the three tables as sets of rows; `mem` what each script has loaded; `tester` and
`updater` their control; `submitted`, `node` and `finished` Forrest's side.  Tables are loaded
one by one, in the code's order, and written whole, so that every interleaving of the two
programs' reads and writes is explored.  `superseded`, `crashed` and `clobbered` are history
variables: invocations replaced by a retry, a script that was stopped, a table overwritten by
a script that had not seen its last content.

**Run `forrest_tracking`** (one configuration, one work node, two submissions, one crash,
170,000 states).  A configuration is a key that the scripts never relate to another one, so
one suffices for what the tables do; two submissions are a first one and a retry.

* `NoDuplicateSubmission`: also while the row moves between tables during a load.
* `PendingLeavesRecorded`: the order of the three final writes.
* `OneResultPerNode`: whatever is overwritten or re-run.
* `EveryRunCompletes`: under fairness of update_results being started again (it is a periodic
  job), of both scripts' steps (neither waits), and of Forrest finishing what it accepted.

**Run `pending_recovery`** shows update_results raising on a row that a crash left in both
tables, against its own comment.

**Proofs** (`ForrestTrackingProofs`, for every finite set of configurations and of work nodes and
any number of invocations and crashes).  The types, `NoDuplicateSubmission`, `OneResultPerNode`
and the action property `PendingLeavesRecorded` are theorems.  What the two scripts hold in memory
is of different ages, and none of the properties says how it relates to the files; `TrackInv` does:

* `IdInv`, `RowsInv`: Forrest numbers what it accepts; tables and lists hold accepted rows only.
* `TesterInv`: what is about to be submitted is new, what is dropped has been superseded.
* `ResultsInv`: every list of results has one per node, and an invocation is polled once.
* `UpdaterInv`: an invocation that update_results takes for finished is over, and it has all of
  its results.  Nothing it writes about it can be overtaken by Forrest.
* `WrittenInv`: what it has written stays until its last write, unless a retry replaces it or a
  table is clobbered: this is why the order of the three writes protects the row.
* `SeenInv`: while nothing crashed or was clobbered, an invocation that was not superseded is in
  one of the two tables, and test_prebuilts knows it once it has read both.  Rows move from
  pending to completed, and pending is read first: a row cannot pass the reader.

Finiteness of the sets is assumed since results are counted; `MaxInvocations` is at least one.
`EveryRunCompletes` is liveness and stays with TLC.

## 6. BisectDriver and BisectSession

**State.**  `stage`, `safe`, `continue` and `badSet` are the environment variables of the
wrapper; `cache` and `list` the two caches with their `_LIST`; `tree` the build tree, with the
compiler that made each file and the cache it is a hard link into, if any; `pc` and `file` the
position of the wrapper of each object.  `written` says which files the compiler really writes
(a .dwo is not always made).  The constant `Linked` holds the objects for which hard links are
possible: that depends on where the caches and the object's directory are, not on a build.

**Actions.**  One per file operation, two where the operation is not atomic: `BeginCompile` and
`EndCompile`, `BeginCopy` and `EndCopy` (copy2), `SkipCopy`, `List` (one line under a lock),
`Lookup`, `NotListed`, `RemoveCompiled`, `RemoveOld`, `Missing`, then `Link`, or `BeginFetch` and
`EndFetch` (copyfile, where os.link fails).  make starts wrappers side by side, one per object;
`Stop` ends a build with all of them anywhere.  External, from what the code says of them: make
(`Launch`, `Rerun`, `NextStage`: it goes on until all targets are there), the search (`Search`)
and the compiler.  It makes a new object, but opens .d and .dwo in place, hence through a link:
from `BeginCompile` on, what the link leads to is cut, in the cache too.  One that fails leaves
no object and may remove its other files.  bisect_driver() drops the return value of its stage,
so that make takes a failing compiler for a success (`CompileFails` ends in "done") and finds out
when the object is missing.  Logs and makedirs are left out.  Every stage starts from a clean
tree, as the search tool's instructions want it.

**Abstract specification.**  `BisectSession` knows neither caches nor links nor wrappers: two
builds record what the good and the bad compiler make of every object, completely; then every
object is delivered from the compiler the search asks for - or half of it, where it is copied
(`Copied`).  The mapping is at the end of
`BisectDriver`: an object is recorded when it is listed and all its files are in the cache
without being cut, delivered when its wrapper has returned and the object is there.

**Run `bisect_driver`** (516,000 states).  Two objects, one copied and without side effects, one
linked and perhaps with a .dwo, and one that appears after the caches were populated; two faults, so that a stopped build
and a failing compiler, or two stops, meet; two builds of the triage, so that links of one are
in the way of the next.

* `ListedIsCached`: what the list promises is there.
* `CachesStayWhole`: populated caches hold every file, the objects unchanged.  A side effect may
  have been written over by a compilation of the triage, where it is linked.
* `OnlySafeModeRewrites`: the only step of the triage that changes a cache is a compilation of the
  safe mode that writes a side effect through a link into that cache.  A compilation without the
  safe mode is of a late object, which has no links.
* `RaisedForGoodReason`: "Make will now crash" only for a file no compiler wrote.
* `ImplementsSession`: the refinement.  `PopulateEnds`: under weak fairness of every wrapper, of
  make running a wrapper again, and of make ending a stage that is complete - all of them
  processes that do not wait for each other, except for the lock of one write.

What the properties allow is what the code does, and more than its comments say.  "This option
is safe" (`bisect_driver.py:307`), but a safe mode compilation that is stopped leaves the linked
.d or .dwo cut short in the cache, and a later build without the safe mode restores it and reports
success.  And where files are copied, half an object left by a build that was stopped in copyfile
exists (`bisect_driver.py:324`), so that the next wrapper returns success with it.

**Proofs** (`BisectDriverProofs`): see section 11.

## 7. UpdatePrebuilts

Per host `extract` is the unpacked `clang-<build>`, `tree`, `index`, `tip` and `base` what the
directory `clang-<revision>` is in the working tree, the index, the commit and the manifest's
revision; `uploaded` the last upload.  The actions are the statements of the two programs in
their order, with their early exits: `Branch` (repo abandon and repo start, and what git does
when a checkout is refused), `Extract`, `Replace`, `Install`, `ExtractMusl`, `InstallMusl`,
`Link`, `Check`, `Add`, `Commit`, `Upload`; `RemoveDir`, `GitRm`, `CommitRemoval`.  `Stop` stops
a run anywhere and leaves half a directory; `FetchFails` leaves part of a download.  git, repo
and the submission of the changes (`Submit`) are external.  All builds have one revision, since
only then do two runs meet in one directory.

**Run `update_prebuilts`** (2.2 million states): a build with profiles and one without; all
hosts or Linux alone; three runs - one that is stopped, one that finds what it left, one that
removes or updates what that one committed -, one stop, one submission.

* `UploadedIsWhole`, `UploadedIsChecked`: what goes to review, after any history.
* `AllOrNothing`: three repositories, one after the other, but no upload before all commits.
* `MixedOnlyAfterStop`: libraries of musl beside those of glibc come from one interruption only,
  which no later run repairs: tar writes over what an earlier run left.
* `BlockedOnlyAfterStop`: the assertion of remove_prebuilt says what it is for, or a removal was
  stopped before its commit, after which no removal succeeds any more.

**Proofs** (`UpdatePrebuiltsProofs`, for any builds, choices of hosts, runs, stops and
submissions).  All six invariants of the run are theorems.  The properties are about what is
uploaded, committed or in the way, and say nothing of a run that is half through; `UpInv` does:

* `RunInv`: the arguments suit the step.
* `ExtractInv`: what is unpacked when it is moved is whole, whatever an earlier run left there.
* `TreeInv`: what this run has put together so far in the repository it is at, step by step, up
  to the index that is committed.
* `CommitInv`: in the repositories behind it there is this run's commit.  With `TreeInv` it gives
  `AllOrNothing`, and `UploadedIsWhole` and `UploadedIsChecked` when the uploads come.
* `MixInv`: libraries of musl among those of glibc, in any of the five places a directory can be,
  have a stop behind them, or the run is between the two steps where a stop would do it.
* `CutInv`: a directory is gone from the working tree or the index but not from the commit only
  where a run is between the deletion and the commit, or was stopped there.

The assumption is `ConstantsAssumption`: `--host` names one host or all.

## 8. CLPreparation

`gerrit` is the list of changes, `cns` the tables as files, `table` what each program has read
of them, `cls` what prepareCLs has found so far, `kernelTree` the commits of each tester's
kernel repository that are not pushed.  `Reuse`, `Adopt` and `Upload` are the three ways to a
change, `CommitKernel` and `PushKernel` the one through `update_kernel_toolchain.py`,
`ReadBack` and `Record` what follows an upload.  `Readable` is getExistingCL of the three
classes.  `Touch` is other users of Gerrit; `Stop` stops a program.  `forgotten` is a history
variable: keys whose row was never written, or was lost when a program wrote the table it had
read before.

A kernel change has a `form`, the way its diff names the revision.  `update_kernel_toolchain.py:188`
writes `CLANG_VERSION=<revision>` ("variable"); `gerrit.py:381` looks for `clang-(r[0-9]+)/bin`
("path"); somebody who makes a change by hand, or amends one, may write either.  `Touch` amends
changes that have a row or are somebody's own: made by hand, or left in Gerrit by a run of his
that did not record it (`Own`), which he can then pass with `--kernel_cl`.  Two more things the
code does that the model reproduces: SoongCL matches the revision as `r\d+"` (`gerrit.py:271`), so
that a recorded change of a revision with a letter (r487747c) cannot be used again; and a comment
in KernelCL (`gerrit.py:372-373`) says that merged and conflicting changes are rejected, but
only the project is looked at.

**Run `cl_preparation`** (1.7 million states, symmetric testers): two programs at once, two
builds of two revisions, one of them with a letter, three changes, one trouble (a stopped
program or another user).  It begins with a change made by hand or with a commit that was not
pushed.  Two programs and two keys are what it takes to overwrite a row; three changes allow a
duplicate beside the other build's change.

* `UniqueRows`: no interleaving gives a table that getOne raises on.
* `UsedIsRight`: what is tested is what was asked for, wherever the number came from.
* `DuplicateOnlyAfterLoss`: which histories lead to a second upload.

**Run `kernel_upload`** (one tester, one build, a revision without a letter, nobody interferes)
shows the docstring and the comments of getKernelCL violated, which say that a new switchover
change is made and recorded: the change is uploaded, cannot be read back because of its form, and
the program ends; the change stays in Gerrit, without a row (`NewKernelIsRecorded`).

**Proofs** (`CLPreparationProofs`, for any number of programs, builds, revisions, changes, stops
and interventions).  The types, `UniqueRows`, `UsedIsRight` and the action property
`DuplicateOnlyAfterLoss` are theorems.  `ClInv` is, program by program, `TesterInv`:

* `StepAt`, `TableAt`: the arguments suit the step; the tables a program holds have one row per
  key too, for it writes them back whole.
* `NewAt`: the change that is to be recorded has the key that was looked up.
* `ClsAt`: what has been found is for the build or revision that was asked for.

and `CnsInv`, the same about the files, and `MadeInv`: of every change that a program made, the row
is in its table, was forgotten, or is about to be written by a program.  `UniqueRows` is inductive
only with `TableAt` - a program that adds a row to an old copy must not bring back a second one -
and `DuplicateOnlyAfterLoss` is `MadeInv` before the step.  `ConstantsAssumption` has, beside the
types, that a build or revision is not called "by-hand", the model's own mark for a change nobody's
program made, and that there can be a change (`MaxCLs` is at least one).

## 9. PatchList

`list` is `PATCHES.json`, `cut` whether a program was stopped when it had opened it for writing,
`file` the patch files, `index` and `head` git, `svn` the version of LLVM.  `StartPick`,
`OpenPatch`, `FormatPatch`, `OpenList`, `SaveList`, `Verify`, `AddFiles` and `Commit` are
`cherrypick_cl.py`; `TrimList`, `StageList`, `RemovePatch` and `TrimDone` are
`trim_patch_data.py`; `AddByHand` follows the README of the repository, `Reset` is git, `Roll` a
new LLVM.  `Sorted` is list.sort() with `sort_key`, which is stable: the place of an entry is the
number of entries that do not come after it, and `Arranged` puts each at its place.  `Trimmed`,
what patch_manager.py leaves of the list, is the same with one key for all.

`start` is `--start-version`.  An entry may have no end (`NoEnd`) and, if somebody wrote it by
hand, no start (`NoStart`: the class has `Optional[int]` for both).  `Comparable` is what sorting
makes of that: of two upstream entries without an end, one with a start and one without, the
comparison is a TypeError, and `OpenList` ends the program before anything is written.

**Run `patch_list`** (3 million states): two upstream commits and two local patches, three
revisions, two runs, one stop, two edits.  Two entries of every sort (by end, without end, local)
are needed for an order to be wrong; a run that is stopped and one after it for the rest.

* `SortedAsDocumented`: the comments of sort_key, of what each run writes.
* `ListedPatchesExist`: a list that can be read names whole files, each once.
* `CommitsAreComplete`: which histories commit an entry without its file.

**Proofs** (`PatchListProofs`, for any patches, revisions, runs, stops and edits).  The types,
`ListedPatchesExist`, `CommitsAreComplete` and the action property `SortedAsDocumented` are
theorems.  The first lemmas are about `Arranged`: the places number the positions (two entries
never have one place, and there are as many places as entries: `PlaceFacts`), hence `Arranged`
lists each selected entry exactly once, by ascending key and in the old order where the key is the
same (`ArrangedFacts`).  `SortedAsDocumented` is that, with `sort_key` split by the three cases of
the comment.  The other two need `PatchInv`:

* `PickInv`: while cherrypick_cl.py adds entries, what it has loaded names whole files, and the
  entry at hand is not listed yet.
* `ListInv`: the same of the file, unless it is cut; and each listed patch is staged, left by an
  earlier run or about to be added.
* `TrimInv`: what is to be removed is not listed any more, and what is committed is the list.
* `HeadInv`: a committed list can be gone back to.  git never deletes a patch file that it does
  not know, so that the list of the last commit stays readable after `Reset`.

`LastRevision` is at least one: a patch that ends has an end after revision zero.

What the model also shows: a patch file that a stopped run left without an entry blocks every
later cherry-pick of that commit (the assertion in `OpenPatch`), also where it was the sorting
that failed; a trim that was stopped, or
that git refused, after the list was rewritten leaves work that a second run does not resume
("No patches to remove"); and `--create-cl` without `--sha` fails with a NameError after the
list was saved (in `Verify`).

## 10. TestCompiler

The three sources of a toolchain, the link in the Android tree, the single target with its
profiles, and the loop over the connected devices, each step of which may fail.  **Run
`keep_going`** shows the help of `--keep-going` violated: a lunch that fails is raised as a
RuntimeError, which ends the program although other devices are left.  The model also
reproduces that rm_current_product_out looks for ANDROID_PRODUCT_OUT in the program's own
environment, where lunch does not set it: `--clean-built-target` deletes nothing, and where the
variable is set `product_out.isdir()` is an AttributeError (`do_test_compiler.py:230-234`).

## 11. Proofs about BisectDriver

`BisectDriverProofs` holds for any sets of objects, any side effects, any number of objects that
appear late and any bounds, from `ConstantsAssumption` alone: `TypeCorrect`, `ListsAreTrue`
(`ListedIsCached`), `CachesAreWhole` (`CachesStayWhole`), `SafeModeTheorem`
(`OnlySafeModeRewrites`), `CrashesForGoodReason` (`RaisedForGoodReason`) and
`DriverImplementsSession`, the refinement.

None of the properties is inductive.  That a list is true when a wrapper restores from it depends
on how far the wrapper of the same object got two stages earlier, in another build.  `IndInv` is
`TypeOK` and, object by object, `ObjectInv`:

* `WrittenOf`: the compiler always writes the object, and no file the command does not name.
* `CacheOf` and `Full`: what a populated cache holds.  The stage changes only when make has every
  target, hence past a stage its cache is full for every object; `Overwritten` is what the triage
  may do to a side effect after that.
* `PlainTree`: while a cache is populated the tree has no links and only this stage's output.
* `Populating`: the files before the one the wrapper is at are kept; a wrapper that is done and
  has its object has kept all of them.
* `Triaging`: only cached objects are restored, and the object in the tree is the chosen one,
  except in the safe mode between the compilation and the restoration, and except for half a
  copy where files are not linked.

The wrappers run side by side but the objects are separate: a step of one wrapper changes nothing
of another object but lines in a list (`Alone`, `Untouched`).  Hence there is one lemma per action
about the object it is at, and `UntouchedKeeps` for all others; `AloneKeeps` joins them.  `Stop`,
`NextStage` and `Search` concern all objects and have a lemma of their own.  `WriteKeeps` is
about a compilation in the triage, which writes through links.

The refinement has the same shape.  `PopulateRefines`, `TriageRefines` and `LateRefines` map the
steps of a wrapper: those that complete what the cache has of a listed object record it (a copy
begun again loses it meanwhile), the last one of the triage delivers it, most others stutter.  `StopRefines`,
`NextStageRefines` and `SearchRefines` map the others, and `StepRefines` collects them.
`PopulateEnds`, which is about liveness, stays with TLC.

## 12. What is not covered

**Only model-checked:** the liveness properties `FullRunPackages`, `EveryRunCompletes` and
`PopulateEnds`, which are outside what the proof system does; every invariant and action property
of a passing run is a theorem.  `TestCompiler` has one run, which shows a disagreement, and no
theorem.  The other violations that runs show are counterexamples of TLC by their nature.

**Not modelled:**

* `clang-tidy.sh` starts two processes and waits for them; what they share is theirs, and the
  wrapper keeps no state.
* `android_version.py` has two flags, set once before anything reads them.  (Its getters assign a
  local `_version_read`, so that the guard in set_llvm_next never fires; nothing reaches it.)
* `update-binutils.py`, `merge_from_upstream.py` and the manifest part of
  `update_kernel_toolchain.py` are sequences of commands without state of their own or repeat
  one that is modelled; the kleaf/parent link of `update-prebuilts.py` is made and never added
  to git.
* What grep does with an object's name that is also a pattern matching other names
  (`bisect_driver.py:106`): `badSet` is the set of the objects that grep finds.
* The reports made from the results of Forrest, try_set_git_remote.
* `configs.py`, `toolchains.py`, `paths.py`, `utils.py` and the flags of the builders are data and
  thin wrappers; the kythe, warnings and clang-stable scripts, `kokoro/`, `docker/` and
  `test/platform/` only call external tools.

Two simultaneous runs of `do_build.py` on one OUT directory, or of the git programs in one
repository, are not explored: the code has no provision for them.  Two simultaneous runs of
`test_prebuilts.py` are explored for the changes (`CLPreparation`), not for the invocations.
