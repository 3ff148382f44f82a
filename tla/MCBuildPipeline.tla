-------------------------- MODULE MCBuildPipeline --------------------------
(* Command lines for model checking BuildPipeline. *)
EXTENDS BuildPipeline

All == [kind |-> "all", names |-> {}]
None == [kind |-> "none", names |-> {}]
Only(S) == [kind |-> "only", names |-> S]
Skip(S) == [kind |-> "skip", names |-> S]

\* do_build.py with no flags but --no-build windows.
Plain == [ filter |-> All, single |-> FALSE, setup |-> TRUE, patches |-> TRUE,
           testing |-> TRUE, stage1t |-> FALSE, lldb |-> TRUE, host |-> TRUE,
           windows |-> FALSE, sdk |-> FALSE, runtimes |-> TRUE, package |-> TRUE,
           tar |-> FALSE, pgo |-> FALSE, bolt |-> "off", debug |-> FALSE,
           instr |-> FALSE, strip |-> TRUE, next |-> FALSE ]

Release == [Plain EXCEPT !.pgo = TRUE, !.bolt = "optimize", !.tar = TRUE]
NoLldb == [Plain EXCEPT !.lldb = FALSE, !.testing = FALSE, !.next = TRUE]
Debug == [Plain EXCEPT !.debug = TRUE]
Collect == [Plain EXCEPT !.bolt = "instrument"]
SkipBuild == [Plain EXCEPT !.filter = None]
OnlyStage2 == [Plain EXCEPT !.filter = Only({"stage2"}), !.setup = FALSE]
OnlyRuntimes == [Plain EXCEPT !.filter = Only({"builtins", "libunwind", "libomp"}),
                              !.strip = FALSE]
NoStages == [Release EXCEPT !.filter = Skip({"stage1", "stage2"})]
Single == [Plain EXCEPT !.single = TRUE, !.runtimes = FALSE, !.package = FALSE]
SingleInstrumented == [Plain EXCEPT !.single = TRUE, !.instr = TRUE, !.stage1t = TRUE,
                                    !.bolt = "instrument"]

WindowsOnly == [Plain EXCEPT !.windows = TRUE, !.host = FALSE, !.tar = TRUE]
WindowsNoLldb == [WindowsOnly EXCEPT !.lldb = FALSE]
WindowsSdk == [WindowsOnly EXCEPT !.sdk = TRUE]
OnlyWindows == [WindowsOnly EXCEPT !.filter = Only({"windows-x86-64"})]
WindowsSkipBuild == [WindowsOnly EXCEPT !.filter = None]
Stage1Tests == [WindowsOnly EXCEPT !.stage1t = TRUE, !.filter = Skip({"libxml2"})]

AllRuns == { Release, NoLldb, Debug, Collect, SkipBuild, OnlyStage2, OnlyRuntimes,
             NoStages, Single, SingleInstrumented,
             WindowsOnly, WindowsNoLldb, WindowsSdk, OnlyWindows, WindowsSkipBuild,
             Stage1Tests }
SingleWindows == [WindowsOnly EXCEPT !.single = TRUE, !.testing = FALSE]
SingleStageRuns == { Plain, SingleWindows }

\* What has changed since the last run: one builder of each tree, or everything.
SomeEdits == { {"stage2", "builtins", "windows-x86-64"} }
AllEdited == { Builders }
=============================================================================
