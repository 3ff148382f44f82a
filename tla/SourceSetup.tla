---------------------------- MODULE SourceSetup ----------------------------
(***************************************************************************)
(* source_manager.setup_sources prepares OUT/llvm-project: it copies (or    *)
(* fetches) LLVM into a temporary directory, applies the patches, describes *)
(* them in OUT/clang_source_info.md and renames the directory into place.   *)
(* package_toolchain later completes that description in place and puts it  *)
(* into the package.  do_build.py calls it at the start of a build, and     *)
(* cherrypick_cl.py --verify-merge to try the patches out.                  *)
(*                                                                         *)
(* Between the runs a developer changes the checkout, the patches and the   *)
(* scripts; a run may be killed, or stopped by a failing command, anywhere. *)
(***************************************************************************)
EXTENDS Naturals

CONSTANTS
    Revisions,     \* revisions of llvm-project
    PatchSets,     \* contents of patches/PATCHES.json
    ScriptShas,    \* revisions of the scripts in the manifest
    CloneFails,    \* the cloning cp can fail on a file that a plain cp copies
    MaxRuns        \* bound on the number of runs

ASSUME ConstantsAssumption ==
    /\ CloneFails \in BOOLEAN
    /\ MaxRuns \in Nat \ {0}
    /\ Revisions # {} /\ PatchSets # {} /\ ScriptShas # {}
    /\ "none" \notin Revisions /\ "unpatched" \notin PatchSets
    /\ "placeholder" \notin ScriptShas

VARIABLES
    checkout,  \* what the developer has: toolchain/llvm-project, patches, scripts
    pc,        \* the step of the current run
    opt,       \* its command line
    run,       \* its number
    tmp,       \* OUT/llvm-project.tmp
    tree,      \* OUT/llvm-project (paths.LLVM_PATH)
    info,      \* OUT/clang_source_info.md
    text,      \* what package_toolchain has read from it
    pkg        \* the copy of it in the package

vars == << checkout, pc, opt, run, tmp, tree, info, text, pkg >>

Checkouts == [ rev : Revisions, patches : PatchSets, sha : ScriptShas ]

\* kind: a build, or cherrypick_cl.py --verify-merge.  rev: --llvm-rev, if any.
Options == [ kind : {"build", "verify"}, setup : BOOLEAN, patch : BOOLEAN,
             rev : Revisions \cup {"none"} ]

\* A source directory: absent, being copied, with the copy one level too deep,
\* or complete; by is the run that made it.
Dirs == [ st : {"absent", "partial", "nested", "whole"}, rev : Revisions \cup {"none"},
          patches : PatchSets \cup {"unpatched"}, by : 0 .. MaxRuns ]
NoDir == [ st |-> "absent", rev |-> "none", patches |-> "unpatched", by |-> 0 ]

Infos == [ st : {"absent", "empty", "whole"}, patches : PatchSets \cup {"unpatched"},
           sha : ScriptShas \cup {"placeholder"}, by : 0 .. MaxRuns ]
NoInfo == [ st |-> "absent", patches |-> "unpatched", sha |-> "placeholder", by |-> 0 ]

TypeOK ==
    /\ checkout \in Checkouts
    /\ pc \in { "idle", "remove", "copy", "fallback", "fetch", "patch", "describe", "place",
                "discard", "set up", "annotate", "annotating", "done" }
    /\ opt \in Options
    /\ run \in 0 .. MaxRuns
    /\ tmp \in Dirs /\ tree \in Dirs
    /\ \A d \in {tmp, tree} : d.st # "absent" => d.rev # "none"
    /\ info \in Infos /\ text \in Infos /\ pkg \in Infos

Init ==
    /\ checkout \in Checkouts
    /\ pc = "idle" /\ run = 0
    /\ opt = [kind |-> "build", setup |-> TRUE, patch |-> TRUE, rev |-> "none"]
    /\ tmp = NoDir /\ tree = NoDir
    /\ info = NoInfo /\ text = NoInfo /\ pkg = NoInfo

-----------------------------------------------------------------------------
Idle == pc \in {"idle", "done"}

\* repo sync, a new cherry-pick, another manifest.
Develop ==
    /\ Idle /\ run < MaxRuns
    /\ checkout' \in Checkouts
    /\ pc' = "idle"
    /\ UNCHANGED << opt, run, tmp, tree, info, text, pkg >>

\* The developer deletes the sources to have them made again.
DeleteSources ==
    /\ Idle /\ run < MaxRuns
    /\ tree' = NoDir
    /\ pc' = "idle"
    /\ UNCHANGED << checkout, opt, run, tmp, info, text, pkg >>

Start ==
    /\ Idle /\ run < MaxRuns
    /\ opt' \in Options
    /\ opt'.kind = "verify" => opt'.setup /\ opt'.patch /\ opt'.rev = "none"
    /\ run' = run + 1
    /\ pc' = IF opt'.setup THEN "remove" ELSE "set up"
    /\ UNCHANGED << checkout, tmp, tree, info, text, pkg >>

\* SIGKILL, or a command fails and its exception ends main().
Stop ==
    /\ ~Idle
    /\ pc' = "idle"
    /\ UNCHANGED << checkout, opt, run, tmp, tree, info, text, pkg >>

-----------------------------------------------------------------------------
(* setup_sources *)

\* Faulty variant: what an earlier run left is not removed.
LeaveTmp ==
    /\ pc = "remove"
    /\ pc' = IF opt.rev = "none" THEN "copy" ELSE "fetch"
    /\ UNCHANGED << checkout, opt, run, tmp, tree, info, text, pkg >>

\* Faulty variant: the upstream revision is fetched also when none is given.
AlwaysFetch ==
    /\ pc = "remove"
    /\ tmp' = NoDir
    /\ pc' = "fetch"
    /\ UNCHANGED << checkout, opt, run, tree, info, text, pkg >>

RemoveTmp ==
    /\ pc = "remove"
    /\ tmp' = NoDir
    /\ pc' = IF opt.rev = "none" THEN "copy" ELSE "fetch"
    /\ UNCHANGED << checkout, opt, run, tree, info, text, pkg >>

\* cp -R SRC DST: into DST itself only if it does not exist.
Copied(rev) ==
    [ st |-> IF tmp.st = "absent" THEN "whole" ELSE "nested", rev |-> rev,
      patches |-> "unpatched", by |-> run ]
Partial(rev) == [ st |-> "partial", rev |-> rev, patches |-> "unpatched", by |-> run ]

Copy ==
    /\ pc = "copy"
    /\ tmp' = Copied(checkout.rev)
    /\ pc' = "patch"
    /\ UNCHANGED << checkout, opt, run, tree, info, text, pkg >>

\* The process is stopped, or the disk is full, while the copy is under way.
CopyBreaks ==
    /\ pc \in {"copy", "fallback"}
    /\ tmp' = Partial(checkout.rev)
    /\ pc' = "idle"
    /\ UNCHANGED << checkout, opt, run, tree, info, text, pkg >>

\* cp does not know the cloning option, or it cannot clone some file.
CloneRefused ==
    /\ pc = "copy"
    /\ \/ UNCHANGED tmp
       \/ CloneFails /\ tmp' = Partial(checkout.rev)
    /\ pc' = "fallback"
    /\ UNCHANGED << checkout, opt, run, tree, info, text, pkg >>

FallbackCopy ==
    /\ pc = "fallback"
    /\ tmp' = Copied(checkout.rev)
    /\ pc' = "patch"
    /\ UNCHANGED << checkout, opt, run, tree, info, text, pkg >>

\* git init, remote add, fetch and reset in a new directory.
Fetch ==
    /\ pc = "fetch"
    /\ \/ tmp' = [Copied(opt.rev) EXCEPT !.st = "whole"] /\ pc' = "patch"
       \/ tmp' = Partial(opt.rev) /\ pc' = "idle"
    /\ UNCHANGED << checkout, opt, run, tree, info, text, pkg >>

\* patch_manager.py.  Above a copy that is one level too deep lies a partial one,
\* which may have all the files to patch.
Patch ==
    /\ pc = "patch" /\ opt.patch
    /\ \/ tmp' = [tmp EXCEPT !.patches = checkout.patches] /\ pc' = "describe"
       \/ tmp' = [tmp EXCEPT !.st = "partial"] /\ pc' = "idle"
    /\ UNCHANGED << checkout, opt, run, tree, info, text, pkg >>

\* Faulty variant: the patches are described although they were not applied.
DescribeAnyway ==
    /\ pc = "patch" /\ ~opt.patch
    /\ pc' = "describe"
    /\ UNCHANGED << checkout, opt, run, tmp, tree, info, text, pkg >>

SkipPatches ==
    /\ pc = "patch" /\ ~opt.patch
    /\ pc' = "place"
    /\ UNCHANGED << checkout, opt, run, tmp, tree, info, text, pkg >>

\* write_source_info
Describe ==
    /\ pc = "describe"
    /\ \/ /\ info' = [st |-> "whole", patches |-> checkout.patches,
                       sha |-> "placeholder", by |-> run]
          /\ pc' = "place"
       \/ info' = [NoInfo EXCEPT !.st = "empty"] /\ pc' = "idle"
    /\ UNCHANGED << checkout, opt, run, tmp, tree, text, pkg >>

\* os.rename, only if there is no source directory.
Place ==
    /\ pc = "place" /\ tree.st = "absent"
    /\ tree' = tmp /\ tmp' = NoDir
    /\ pc' = "set up"
    /\ UNCHANGED << checkout, opt, run, info, text, pkg >>

\* Faulty variant: the new sources are not deleted.
AbandonTmp ==
    /\ pc = "place" /\ tree.st # "absent"
    /\ pc' = "set up"
    /\ UNCHANGED << checkout, opt, run, tmp, tree, info, text, pkg >>

\* Otherwise the new sources are deleted: the rsync is commented out.
KeepTree ==
    /\ pc = "place" /\ tree.st # "absent"
    /\ pc' = "discard"
    /\ UNCHANGED << checkout, opt, run, tmp, tree, info, text, pkg >>

Discard ==
    /\ pc = "discard"
    /\ \/ tmp' = NoDir /\ pc' = "set up"
       \/ tmp' = [tmp EXCEPT !.st = "partial"] /\ pc' = "idle"
    /\ UNCHANGED << checkout, opt, run, tree, info, text, pkg >>

-----------------------------------------------------------------------------
(* The rest of the run; the build itself is BuildPipeline. *)

Continue ==
    /\ pc = "set up"
    /\ pc' = IF opt.kind = "build" THEN "annotate" ELSE "done"
    /\ UNCHANGED << checkout, opt, run, tmp, tree, info, text, pkg >>

\* package_toolchain reads the description and opens it for writing.
OpenInfo ==
    /\ pc = "annotate" /\ info.st # "absent"
    /\ pc' = "annotating"
    /\ text' = info
    /\ info' = [info EXCEPT !.st = "empty"]
    /\ UNCHANGED << checkout, opt, run, tmp, tree, pkg >>

\* The placeholder becomes the revision of the scripts.
Annotated == IF text.st = "whole" /\ text.sha = "placeholder"
             THEN [text EXCEPT !.sha = checkout.sha] ELSE text

\* Faulty variant: the file is copied into the package before it is annotated.
CopyThenAnnotate ==
    /\ pc = "annotating"
    /\ info' = Annotated /\ pkg' = text
    /\ pc' = "done"
    /\ UNCHANGED << checkout, opt, run, tmp, tree, text >>

WriteInfo ==
    /\ pc = "annotating"
    /\ info' = Annotated /\ pkg' = Annotated
    /\ pc' = "done"
    /\ UNCHANGED << checkout, opt, run, tmp, tree, text >>

Setup ==
    \/ RemoveTmp \/ Copy \/ CopyBreaks \/ CloneRefused \/ FallbackCopy \/ Fetch
    \/ Patch \/ SkipPatches \/ Describe \/ Place \/ KeepTree \/ Discard

Next == Develop \/ DeleteSources \/ Start \/ Stop \/ Setup \/ Continue \/ OpenInfo \/ WriteInfo

Spec == Init /\ [][Next]_vars

-----------------------------------------------------------------------------
(* Properties. *)

\* The source directory is never seen half copied, or one level too deep, whatever
\* an earlier run left in the temporary directory: it appears by a rename.
TreeIsWhole == tree.st \in {"absent", "whole"}

\* After setup_sources there is a source directory and no temporary one.
NothingLeftOver ==
    (opt.setup /\ pc \in {"set up", "annotate", "annotating", "done"}) =>
        tmp = NoDir /\ tree.st # "absent"

\* A source directory and a description that one run made agree about the patches,
\* also when that run was stopped in between and others followed.
InfoMatchesTree ==
    (tree.st = "whole" /\ info.st = "whole" /\ tree.by = info.by) =>
        tree.patches = info.patches

\* The package of a run that prepared and patched the sources carries a complete
\* description, with this run's patches and this run's scripts, also if an earlier
\* run was stopped while it had the description open for writing.
PackagedInfoIsCurrent ==
    (pc = "done" /\ opt.kind = "build" /\ opt.setup /\ opt.patch) =>
        /\ pkg.st = "whole" /\ pkg.by = run
        /\ pkg.patches = checkout.patches /\ pkg.sha = checkout.sha
=============================================================================
