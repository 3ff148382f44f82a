------------------------- MODULE SourceSetupProofs -------------------------
(***************************************************************************)
(* Proofs about SourceSetup, for any revisions, patches, scripts and number *)
(* of runs.                                                                *)
(***************************************************************************)
EXTENDS SourceSetup, TLAPS

-----------------------------------------------------------------------------
(* The inductive invariant. *)

\* --llvm-rev decides between copying and fetching, and from the first copy on the
\* temporary directory exists until it is renamed or deleted.
FetchInv == pc = "fetch" => opt.rev # "none"
TmpInv == pc \in {"patch", "describe", "place", "discard"} => tmp.st # "absent"
TypeInv == TypeOK /\ FetchInv /\ TmpInv

\* When this run deletes its temporary directory, there is a source directory.
DiscardInv == pc = "discard" => tree.st # "absent"
LeftOverInv == DiscardInv /\ NothingLeftOver

\* Until it describes the patches, nothing is signed with this run's number; what
\* is described then is what was applied.
Older(n) == n < run
SignedInv ==
    /\ tree.by <= run /\ info.by <= run /\ text.by <= run
    /\ pc \in {"remove", "copy", "fallback", "fetch", "patch", "describe"} =>
           Older(tree.by) /\ Older(info.by)
    /\ pc = "place" => Older(tree.by)
    /\ pc \in {"patch", "describe", "place"} => tmp.by = run
    /\ pc = "describe" => tmp.patches = checkout.patches
    /\ (pc = "place" /\ info.st = "whole" /\ info.by = run) => tmp.patches = info.patches
Agree(i) == (tree.st = "whole" /\ i.st = "whole" /\ tree.by = i.by) => tree.patches = i.patches
MatchInv == SignedInv /\ Agree(info) /\ (pc = "annotating" => Agree(text))

\* From the moment it is written until it is packaged, the description is this run's.
ThisRunsInfo == [ st |-> "whole", patches |-> checkout.patches,
                  sha |-> "placeholder", by |-> run ]
CurrentInv ==
    /\ (pc = "describe" => opt.patch)
    /\ (opt.setup /\ opt.patch) =>
         /\ pc \in {"place", "discard", "set up", "annotate"} => info = ThisRunsInfo
         /\ pc = "annotating" => text = ThisRunsInfo
    /\ PackagedInfoIsCurrent

\* A cp that cannot clone leaves nothing behind if CloneFails is FALSE, so that what
\* goes on to the rename is complete.
CopyInv ==
    /\ tree.st \in {"absent", "whole"}
    /\ pc \in {"copy", "fallback", "fetch"} => tmp = NoDir
    /\ pc \in {"patch", "describe", "place"} => tmp.st = "whole"

-----------------------------------------------------------------------------
(* Types. *)

LEMMA RecordTypes ==
    /\ NoDir \in Dirs /\ NoInfo \in Infos /\ NoDir.st = "absent"
    /\ 0 \in 0 .. MaxRuns
  BY ConstantsAssumption DEF NoDir, NoInfo, Dirs, Infos

LEMMA TypeInit == Init => TypeInv
  BY RecordTypes, ConstantsAssumption
  DEF Init, TypeInv, TypeOK, FetchInv, TmpInv, Options, NoDir

\* What a copy makes is a directory of a proper revision.
LEMMA CopyType ==
    ASSUME TypeOK, NEW rev \in Revisions
    PROVE  /\ Copied(rev) \in Dirs /\ Copied(rev).st # "absent" /\ Copied(rev).rev # "none"
           /\ [Copied(rev) EXCEPT !.st = "whole"] \in Dirs
           /\ [Copied(rev) EXCEPT !.st = "whole"].st # "absent"
           /\ [Copied(rev) EXCEPT !.st = "whole"].rev # "none"
           /\ Partial(rev) \in Dirs /\ Partial(rev).rev # "none"
  BY ConstantsAssumption DEF TypeOK, Copied, Partial, Dirs

LEMMA TypeStep == TypeInv /\ [Next]_vars => TypeInv'
  <1> SUFFICES ASSUME TypeInv, [Next]_vars PROVE TypeInv'
    OBVIOUS
  <1> USE DEF TypeInv, FetchInv, TmpInv
  <1>1. CASE Develop
    BY <1>1 DEF Develop, TypeOK
  <1>2. CASE DeleteSources
    BY <1>2, RecordTypes DEF DeleteSources, TypeOK
  <1>3. CASE Start
    <2>1. run' \in 0 .. MaxRuns
      <3>1. run \in 0 .. MaxRuns /\ run < MaxRuns /\ run' = run + 1 /\ MaxRuns \in Nat
        BY <1>3, ConstantsAssumption DEF Start, TypeOK
      <3> QED
        BY <3>1, SMT
    <2>2. opt' \in Options /\ pc' \in {"remove", "set up"}
      BY <1>3 DEF Start
    <2> QED
      BY <1>3, <2>1, <2>2 DEF Start, TypeOK
  <1>4. CASE Stop
    BY <1>4 DEF Stop, TypeOK
  <1>5. CASE Setup
    <2>1. CASE RemoveTmp
      BY <2>1, RecordTypes DEF RemoveTmp, TypeOK
    <2>2. CASE Copy \/ FallbackCopy
      <3>1. checkout.rev \in Revisions
        BY DEF TypeOK, Checkouts
      <3>2. tmp' = Copied(checkout.rev) /\ pc' = "patch"
            /\ UNCHANGED << checkout, opt, run, tree, info, text, pkg >>
        BY <2>2 DEF Copy, FallbackCopy
      <3> QED
        BY <3>1, <3>2, CopyType DEF TypeOK
    <2>3. CASE CopyBreaks
      <3>1. checkout.rev \in Revisions
        BY DEF TypeOK, Checkouts
      <3> QED
        BY <2>3, <3>1, CopyType DEF CopyBreaks, TypeOK
    <2>4. CASE CloneRefused
      <3>1. checkout.rev \in Revisions
        BY DEF TypeOK, Checkouts
      <3> QED
        BY <2>4, <3>1, CopyType DEF CloneRefused, TypeOK
    <2>5. CASE Fetch
      <3>1. opt.rev \in Revisions
        BY <2>5 DEF Fetch, TypeOK, Options
      <3> QED
        BY <2>5, <3>1, CopyType DEF Fetch, TypeOK
    <2>6. CASE Patch
      <3>1. checkout.patches \in PatchSets /\ tmp \in Dirs /\ tmp.st # "absent" /\ tmp.rev # "none"
        BY <2>6 DEF Patch, TypeOK, Checkouts
      <3>2. /\ tmp' \in Dirs /\ tmp'.rev # "none"
            /\ pc' = "describe" => tmp'.st # "absent"
            /\ pc' \in {"describe", "idle"}
        BY <2>6, <3>1 DEF Patch, Dirs
      <3> QED
        BY <2>6, <3>2 DEF Patch, TypeOK
    <2>7. CASE SkipPatches
      BY <2>7 DEF SkipPatches, TypeOK
    <2>8. CASE Describe
      <3>1. info' \in Infos /\ pc' \in {"place", "idle"}
        BY <2>8, RecordTypes DEF Describe, TypeOK, Checkouts, Infos, NoInfo
      <3> QED
        BY <2>8, <3>1 DEF Describe, TypeOK
    <2>9. CASE Place
      BY <2>9, RecordTypes DEF Place, TypeOK
    <2>10. CASE KeepTree
      BY <2>10 DEF KeepTree, TypeOK
    <2>11. CASE Discard
      <3>1. /\ tmp' \in Dirs
            /\ tmp'.st # "absent" => tmp'.rev # "none"
            /\ pc' \in {"set up", "idle"}
        BY <2>11, RecordTypes DEF Discard, TypeOK, NoDir, Dirs
      <3> QED
        BY <2>11, <3>1 DEF Discard, TypeOK
    <2> QED
      BY <1>5, <2>1, <2>2, <2>3, <2>4, <2>5, <2>6, <2>7, <2>8, <2>9, <2>10, <2>11 DEF Setup
  <1>6. CASE Continue
    BY <1>6 DEF Continue, TypeOK
  <1>7. CASE OpenInfo
    <2>1. info' \in Infos
      BY <1>7 DEF OpenInfo, TypeOK, Infos
    <2> QED
      BY <1>7, <2>1 DEF OpenInfo, TypeOK
  <1>8. CASE WriteInfo
    <2>1. Annotated \in Infos
      BY DEF TypeOK, Annotated, Infos, Checkouts
    <2> QED
      BY <1>8, <2>1 DEF WriteInfo, TypeOK
  <1>9. CASE UNCHANGED vars
    BY <1>9 DEF vars, TypeOK
  <1> QED
    BY <1>1, <1>2, <1>3, <1>4, <1>5, <1>6, <1>7, <1>8, <1>9 DEF Next

\* Every variable keeps its type, and a directory that is there has a revision: the
\* fetch of setup_sources is only reached with one to fetch.
THEOREM SetupTypeCorrect == Spec => []TypeOK
  <1>1. Spec => []TypeInv
    BY TypeInit, TypeStep, PTL DEF Spec
  <1>2. TypeInv => TypeOK
    BY DEF TypeInv
  <1> QED
    BY <1>1, <1>2, PTL

-----------------------------------------------------------------------------
(* What setup_sources leaves. *)

LEMMA LeftOverStep == TypeInv /\ LeftOverInv /\ [Next]_vars => LeftOverInv'
  <1> SUFFICES ASSUME TypeInv, LeftOverInv, [Next]_vars PROVE LeftOverInv'
    OBVIOUS
  <1> USE DEF LeftOverInv, DiscardInv, NothingLeftOver
  <1>1. CASE Develop \/ DeleteSources \/ Start \/ Stop
    BY <1>1 DEF Develop, DeleteSources, Start, Stop
  <1>2. CASE RemoveTmp \/ Copy \/ CopyBreaks \/ CloneRefused \/ FallbackCopy \/ Fetch
    BY <1>2 DEF RemoveTmp, Copy, CopyBreaks, CloneRefused, FallbackCopy, Fetch
  <1>3. CASE Patch \/ SkipPatches \/ Describe
    BY <1>3 DEF Patch, SkipPatches, Describe
  <1>4. CASE Place
    BY <1>4 DEF Place, TypeInv, TmpInv
  <1>5. CASE KeepTree \/ Discard
    BY <1>5 DEF KeepTree, Discard
  <1>6. CASE Continue \/ OpenInfo \/ WriteInfo
    BY <1>6 DEF Continue, OpenInfo, WriteInfo
  <1>7. CASE UNCHANGED vars
    BY <1>7 DEF vars
  <1> QED
    BY <1>1, <1>2, <1>3, <1>4, <1>5, <1>6, <1>7 DEF Next, Setup

\* After setup_sources the temporary directory is gone, renamed or deleted, and there
\* is a source directory to configure, whichever of the two it did.
THEOREM SetupLeavesOneTree == Spec => []NothingLeftOver
  <1>1. Init => LeftOverInv
    BY DEF Init, LeftOverInv, DiscardInv, NothingLeftOver
  <1>2. Spec => [](TypeInv /\ LeftOverInv)
    BY <1>1, TypeInit, TypeStep, LeftOverStep, PTL DEF Spec
  <1>3. LeftOverInv => NothingLeftOver
    BY DEF LeftOverInv
  <1> QED
    BY <1>2, <1>3, PTL

-----------------------------------------------------------------------------
(* The sources are renamed into place complete. *)

LEMMA CopyStep == ~CloneFails /\ TypeInv /\ CopyInv /\ [Next]_vars => CopyInv'
  <1> SUFFICES ASSUME ~CloneFails, TypeInv, CopyInv, [Next]_vars PROVE CopyInv'
    OBVIOUS
  <1> USE DEF CopyInv
  <1>1. NoDir.st = "absent"
    BY DEF NoDir
  <1>2. CASE Develop \/ DeleteSources \/ Start \/ Stop
    BY <1>1, <1>2 DEF Develop, DeleteSources, Start, Stop
  <1>3. CASE RemoveTmp \/ CloneRefused \/ CopyBreaks
    BY <1>3 DEF RemoveTmp, CloneRefused, CopyBreaks
  <1>4. CASE Copy \/ FallbackCopy
    <2>1. tmp'.st = "whole"
      BY <1>1, <1>4 DEF Copy, FallbackCopy, Copied
    <2> QED
      BY <1>4, <2>1 DEF Copy, FallbackCopy
  <1>5. CASE Fetch
    <2>1. pc' = "patch" => tmp'.st = "whole"
      BY <1>5 DEF Fetch, Copied
    <2> QED
      BY <1>5, <2>1 DEF Fetch
  <1>6. CASE Patch
    <2>1. tmp \in Dirs
      BY DEF TypeInv, TypeOK
    <2>2. pc' = "describe" => tmp'.st = tmp.st
      BY <1>6, <2>1 DEF Patch, Dirs
    <2> QED
      BY <1>6, <2>2 DEF Patch
  <1>7. CASE SkipPatches \/ Describe \/ KeepTree \/ Discard
    BY <1>7 DEF SkipPatches, Describe, KeepTree, Discard
  <1>8. CASE Place
    BY <1>8 DEF Place
  <1>9. CASE Continue \/ OpenInfo \/ WriteInfo
    BY <1>9 DEF Continue, OpenInfo, WriteInfo
  <1>10. CASE UNCHANGED vars
    BY <1>10 DEF vars
  <1> QED
    BY <1>2, <1>3, <1>4, <1>5, <1>6, <1>7, <1>8, <1>9, <1>10 DEF Next, Setup

\* On a host where a cp that cannot clone leaves nothing behind, the source directory
\* is never seen incomplete, however often earlier runs were stopped in the middle.
THEOREM TreeAppearsWhole == ASSUME ~CloneFails PROVE Spec => []TreeIsWhole
  <1>1. Init => CopyInv
    BY DEF Init, CopyInv, NoDir
  <1>2. TypeInv /\ CopyInv /\ [Next]_vars => (TypeInv /\ CopyInv)'
    BY CopyStep, TypeStep
  <1>3. CopyInv => TreeIsWhole
    BY DEF CopyInv, TreeIsWhole
  <1> QED
    BY <1>1, <1>2, <1>3, TypeInit, PTL DEF Spec

-----------------------------------------------------------------------------
(* The description agrees with the tree of the same run. *)

\* Run numbers can be compared.
LEMMA Numbers ==
    ASSUME TypeOK
    PROVE  /\ run \in Nat /\ tree.by \in Nat /\ info.by \in Nat /\ text.by \in Nat
           /\ NoDir.by = 0 /\ NoDir.st = "absent"
  <1>1. run \in 0 .. MaxRuns /\ tree \in Dirs /\ info \in Infos /\ text \in Infos
    BY DEF TypeOK
  <1>2. MaxRuns \in Nat
    BY ConstantsAssumption
  <1>3. /\ run \in Nat /\ tree.by \in Nat /\ info.by \in Nat /\ text.by \in Nat
    BY <1>1, <1>2 DEF Dirs, Infos
  <1> QED
    BY <1>3 DEF NoDir

\* Changing one field of a directory or of a description leaves its others.
LEMMA Fields ==
    ASSUME TypeOK
    PROVE  /\ \A p \in PatchSets : /\ [tmp EXCEPT !.patches = p].by = tmp.by
                                   /\ [tmp EXCEPT !.patches = p].patches = p
           /\ [info EXCEPT !.st = "empty"].by = info.by
           /\ [info EXCEPT !.st = "empty"].st = "empty"
           /\ Annotated.by = text.by /\ Annotated.st = text.st
           /\ Annotated.patches = text.patches
  <1>1. tmp \in Dirs /\ info \in Infos /\ text \in Infos
    BY DEF TypeOK
  <1>2. \A p \in PatchSets : /\ [tmp EXCEPT !.patches = p].by = tmp.by
                             /\ [tmp EXCEPT !.patches = p].patches = p
    BY <1>1 DEF Dirs
  <1>3. /\ [info EXCEPT !.st = "empty"].by = info.by
        /\ [info EXCEPT !.st = "empty"].st = "empty"
    BY <1>1 DEF Infos
  <1>4. /\ Annotated.by = text.by /\ Annotated.st = text.st
        /\ Annotated.patches = text.patches
    BY <1>1 DEF Annotated, Infos
  <1> QED
    BY <1>2, <1>3, <1>4

LEMMA MatchStep == TypeInv /\ MatchInv /\ [Next]_vars => MatchInv'
  <1> SUFFICES ASSUME TypeInv, MatchInv, [Next]_vars PROVE MatchInv'
    OBVIOUS
  <1> USE Numbers DEF TypeInv, MatchInv, SignedInv, Agree, Older
  <1>1. CASE Develop \/ Stop \/ RemoveTmp \/ CloneRefused \/ CopyBreaks
    BY <1>1 DEF Develop, Stop, RemoveTmp, CloneRefused, CopyBreaks, Idle
  <1>2. CASE DeleteSources
    BY <1>2 DEF DeleteSources
  <1>3. CASE Start
    <2>1. run' = run + 1
      BY <1>3 DEF Start
    <2>2. /\ tree.by < run' /\ info.by < run'
          /\ tree.by <= run' /\ info.by <= run' /\ text.by <= run'
      BY <2>1
    <2>3. /\ pc' \in {"remove", "set up"} /\ pc # "annotating"
          /\ tree' = tree /\ info' = info /\ text' = text
      BY <1>3 DEF Start, Idle
    <2>4. (tree.by <= run /\ info.by <= run /\ text.by <= run)'
      BY <2>2, <2>3
    <2>5. (Older(tree.by) /\ Older(info.by))'
      BY <2>2, <2>3
    <2>6. (pc \notin {"patch", "describe", "place", "annotating"})' /\ Agree(info)'
      BY <2>3
    <2> QED
      BY <2>4, <2>5, <2>6
  <1>4. CASE Copy \/ FallbackCopy
    <2>1. tmp'.by = run
      BY <1>4 DEF Copy, FallbackCopy, Copied
    <2> QED
      BY <1>4, <2>1 DEF Copy, FallbackCopy
  <1>5. CASE Fetch
    <2>1. pc' = "patch" => tmp'.by = run
      BY <1>5 DEF Fetch, Copied
    <2> QED
      BY <1>5, <2>1 DEF Fetch
  <1>6. CASE Patch
    <2>1. checkout.patches \in PatchSets
      BY DEF TypeOK, Checkouts
    <2>2. pc' = "describe" => tmp'.by = run /\ tmp'.patches = checkout.patches
      BY <1>6, <2>1, Fields DEF Patch
    <2> QED
      BY <1>6, <2>2 DEF Patch
  <1>7. CASE SkipPatches \/ KeepTree \/ Discard \/ Continue
    <2>1. CASE SkipPatches
      BY <2>1 DEF SkipPatches
    <2>2. CASE KeepTree \/ Discard \/ Continue
      BY <2>2 DEF KeepTree, Discard, Continue
    <2> QED
      BY <1>7, <2>1, <2>2
  <1>8. CASE Describe
    <2>1. \/ info'.by = run /\ info'.patches = checkout.patches /\ pc' = "place"
          \/ info'.by = 0 /\ info'.st = "empty" /\ pc' = "idle"
      BY <1>8 DEF Describe, NoInfo
    <2> QED
      BY <1>8, <2>1 DEF Describe
  <1>9. CASE Place
    <2>1. pc = "place" /\ pc' = "set up" /\ tree' = tmp
      BY <1>9 DEF Place
    <2>2. tree'.by = run
      BY <2>1
    <2>3. run' = run /\ info' = info /\ text' = text
      BY <1>9 DEF Place
    <2>4. (info.st = "whole" /\ info.by = run) => tree'.patches = info.patches
      BY <2>1
    <2>5. SignedInv'
      <3>1. (tree.by <= run /\ info.by <= run /\ text.by <= run)'
        BY <2>2, <2>3
      <3> QED
        BY <2>1, <3>1
    <2>6. Agree(info)'
      BY <2>2, <2>3, <2>4
    <2> QED
      BY <2>1, <2>5, <2>6
  <1>10. CASE OpenInfo
    <2>1. text' = info /\ info'.by = info.by /\ info'.st = "empty"
      BY <1>10, Fields DEF OpenInfo
    <2> QED
      BY <1>10, <2>1 DEF OpenInfo
  <1>11. CASE WriteInfo
    <2>1. info'.by = text.by /\ info'.st = text.st /\ info'.patches = text.patches
      BY <1>11, Fields DEF WriteInfo
    <2> QED
      BY <1>11, <2>1 DEF WriteInfo
  <1>12. CASE UNCHANGED vars
    BY <1>12 DEF vars
  <1> QED
    BY <1>1, <1>2, <1>3, <1>4, <1>5, <1>6, <1>7, <1>8, <1>9, <1>10, <1>11, <1>12
    DEF Next, Setup

\* If OUT/llvm-project and clang_source_info.md come from the same run, the patches the
\* second lists are those applied to the first, wherever that run and the later ones
\* stopped: between the description and the rename nothing else is described.
THEOREM DescriptionMatchesTree == Spec => []InfoMatchesTree
  <1>1. Init => MatchInv
    BY DEF Init, MatchInv, SignedInv, Agree, Older, NoDir, NoInfo
  <1>2. Spec => [](TypeInv /\ MatchInv)
    BY <1>1, TypeInit, TypeStep, MatchStep, PTL DEF Spec
  <1>3. MatchInv => InfoMatchesTree
    BY DEF MatchInv, Agree, InfoMatchesTree
  <1> QED
    BY <1>2, <1>3, PTL

-----------------------------------------------------------------------------
(* The package carries the description of this run. *)

LEMMA CurrentStep == TypeInv /\ CurrentInv /\ [Next]_vars => CurrentInv'
  <1> SUFFICES ASSUME TypeInv, CurrentInv, [Next]_vars PROVE CurrentInv'
    OBVIOUS
  <1> USE DEF CurrentInv, PackagedInfoIsCurrent
  <1>1. CASE Develop \/ DeleteSources \/ Start \/ Stop
    BY <1>1 DEF Develop, DeleteSources, Start, Stop
  <1>2. CASE RemoveTmp \/ Copy \/ CopyBreaks \/ CloneRefused \/ FallbackCopy \/ Fetch
    BY <1>2 DEF RemoveTmp, Copy, CopyBreaks, CloneRefused, FallbackCopy, Fetch
  <1>3. CASE Patch \/ SkipPatches
    BY <1>3 DEF Patch, SkipPatches
  <1>4. CASE Describe
    BY <1>4 DEF Describe, ThisRunsInfo
  <1>5. CASE Place \/ KeepTree \/ Discard
    BY <1>5 DEF Place, KeepTree, Discard, ThisRunsInfo
  <1>6. CASE Continue
    BY <1>6 DEF Continue, ThisRunsInfo
  <1>7. CASE OpenInfo
    BY <1>7 DEF OpenInfo, ThisRunsInfo
  <1>8. CASE WriteInfo
    <2>1. text = ThisRunsInfo =>
              /\ Annotated.st = "whole" /\ Annotated.by = run
              /\ Annotated.patches = checkout.patches /\ Annotated.sha = checkout.sha
      <3>1. /\ ThisRunsInfo.st = "whole" /\ ThisRunsInfo.sha = "placeholder"
            /\ ThisRunsInfo.by = run /\ ThisRunsInfo.patches = checkout.patches
        BY DEF ThisRunsInfo
      <3>2. text \in Infos
        BY DEF TypeInv, TypeOK
      <3> QED
        BY <3>1, <3>2 DEF Annotated, Infos
    <2> QED
      BY <1>8, <2>1 DEF WriteInfo, PackagedInfoIsCurrent
  <1>9. CASE UNCHANGED vars
    BY <1>9 DEF vars, ThisRunsInfo
  <1> QED
    BY <1>1, <1>2, <1>3, <1>4, <1>5, <1>6, <1>7, <1>8, <1>9 DEF Next, Setup

\* A finished build that prepared and patched the sources has packaged the description
\* it wrote itself, complete, with its scripts' revision: not one that an earlier run
\* annotated, or left empty when it was stopped.
THEOREM DescriptionIsCurrent == Spec => []PackagedInfoIsCurrent
  <1>1. Init => CurrentInv
    BY DEF Init, CurrentInv, PackagedInfoIsCurrent
  <1>2. Spec => [](TypeInv /\ CurrentInv)
    BY <1>1, TypeInit, TypeStep, CurrentStep, PTL DEF Spec
  <1>3. CurrentInv => PackagedInfoIsCurrent
    BY DEF CurrentInv
  <1> QED
    BY <1>2, <1>3, PTL
=============================================================================
