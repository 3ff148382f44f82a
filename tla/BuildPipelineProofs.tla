------------------------ MODULE BuildPipelineProofs ------------------------
(***************************************************************************)
(* Proofs about BuildPipeline, for every set of command lines, any number  *)
(* of runs and either build host.                                          *)
(***************************************************************************)
EXTENDS BuildPipeline, TLAPS

-----------------------------------------------------------------------------
(* Facts about the constant operators. *)

\* Where the steps that the proofs speak of are in the program order.
LEMMA FlowFacts ==
    /\ Len(Flow) = 37
    /\ Flow[37] = "return"
    /\ Flow[27] = "win-clean"
    /\ \A i \in 1 .. 37 : Flow[i] = "win-clean" => i = 27
    /\ \A i \in 1 .. 37 : Flow[i] = "package-windows" => i > 27
    /\ \A i \in 1 .. 37 : Flow[i] = "stage2" => i = 12
    /\ \A i \in 1 .. 37 : Flow[i] \in HostTree \ {"stage2"} => i > 12
  BY DEF Flow, HostTree

\* Which builders the tables of the registry contain.
LEMMA BuilderFacts ==
    /\ "return" \notin Builders /\ "win-clean" \notin Builders /\ "sources" \notin Builders
    /\ "use-stage1" \notin Builders /\ "use-stage2" \notin Builders
    /\ "bolt" \notin Builders /\ "bolt-instrument" \notin Builders
    /\ "package-host" \notin Builders /\ "package-windows" \notin Builders
    /\ HostTree \subseteq Builders /\ WinTree \subseteq Builders
    /\ HostTree \cap WinTree = {}
    /\ "stage2" \in HostTree /\ "windows-x86-64" \in WinTree
    /\ "stage1" \in Builders
    /\ "host-sysroots" \in Builders /\ "host-sysroots" \notin HostTree \cup WinTree
    /\ "device-sysroots" \in Builders /\ "device-sysroots" \notin HostTree \cup WinTree
    /\ "platform-libcxxabi" \in Builders /\ "platform-libcxxabi" \notin HostTree \cup WinTree
    /\ "stage2" \notin Dirless
  BY DEF Builders, HostTree, WinTree, HostLibs, WinLibs, Sysroots, Dirless, CopyBuilders

\* Only stage2 itself deletes the stage2 compiler.
LEMMA WipedFacts ==
    /\ Wiped("stage2") = HostTree
    /\ \A b \in Builders : "stage2" \in Wiped(b) => b = "stage2"
  <1>1. Wiped("stage2") = HostTree
    BY DEF Wiped, RemovesInstallDir
  <1>2. ASSUME NEW b, b # "stage2"
        PROVE  "stage2" \notin Wiped(b)
    BY <1>2 DEF Wiped
  <1> QED
    BY <1>1, <1>2

\* The products written in one step have the type of a product.
LEMMA AbsentType == Absent \in Product
  BY ConstantsAssumption DEF Absent, Product, Runs

LEMMA NoPackageType == NoPackage \in Package
  <1> DEFINE P == [b \in Builders |-> Absent]
  <1>1. P \in [Builders -> Product]
    BY AbsentType
  <1>2. 0 \in Runs
    BY ConstantsAssumption DEF Runs
  <1> HIDE DEF P
  <1>3. [ st |-> "absent", run |-> 0, parts |-> P, bin |-> "absent",
          fresh |-> FALSE, whole |-> FALSE ] \in Package
    BY <1>1, <1>2 DEF Package, Binaries
  <1> USE DEF P
  <1> QED
    BY <1>3 DEF NoPackage

LEMMA NoObjectsType == NoObjects \in Objects
  BY ConstantsAssumption DEF NoObjects, Objects, Runs

LEMMA CompiledType ==
    ASSUME TypeOK, NEW b \in Builders
    PROVE  CompiledNow(b) \in Objects
  <1>1. toolchain \in {"stage1", "stage2"} => disk[toolchain] \in Product
    BY BuilderFacts DEF TypeOK, DiskTypeOK, HostTree
  <1>2. Compiler(b) \in Toolchains \cup {"none"}
    BY DEF Compiler, TypeOK, ProcTypeOK
  <1>3. objs[b].lldb \in BOOLEAN
    BY DEF TypeOK, DiskTypeOK, Objects
  <1>4. (IF Compiler(b) \in {"stage1", "stage2"} THEN disk[toolchain].run ELSE 0) \in Runs
    BY <1>1, ConstantsAssumption DEF Compiler, Product, Runs
  <1>5. run \in Runs
    BY DEF TypeOK, ProcTypeOK
  <1> QED
    BY <1>2, <1>3, <1>4, <1>5 DEF CompiledNow, Objects

LEMMA MadeType ==
    ASSUME TypeOK, NEW b \in Builders
    PROVE  Made(b) \in Product
  <1> DEFINE o == IF b \in Dirless THEN CompiledNow(b) ELSE objs[b]
  <1>1. o \in Objects
    BY CompiledType DEF TypeOK, DiskTypeOK
  <1>2. opt.lldb \in BOOLEAN
    BY ConstantsAssumption DEF TypeOK, ProcTypeOK, Options
  <1>3. run \in Runs /\ disk[b].oldest \in Runs /\ (b \in Carriers => temp[b] \in Runs)
    BY DEF TypeOK, ProcTypeOK, DiskTypeOK, Product
  <1>4. Oldest(b) \in Runs
    BY <1>3 DEF Oldest
  <1>5. Made(b) = [ st |-> "partial", run |-> run, cc |-> o.cc, ccrun |-> o.ccrun,
                    lldb |-> opt.lldb, made |-> o.made, oldest |-> Oldest(b) ]
    BY DEF Made
  <1> HIDE DEF o
  <1> QED
    BY <1>1, <1>2, <1>3, <1>4, <1>5 DEF Product, Objects

LEMMA ClearedType ==
    ASSUME DiskTypeOK, NEW b, NEW x \in Builders
    PROVE  Cleared(x, b) \in Product
  <1>1. disk[x] \in Product
    BY DEF DiskTypeOK
  <1>2. [disk[x] EXCEPT !.st = "partial"] \in Product
    BY <1>1 DEF Product
  <1> QED
    BY <1>1, <1>2, AbsentType DEF Cleared

LEMMA TouchedType ==
    ASSUME DiskTypeOK, NEW b, NEW s \in {"partial", "ok"}
    PROVE  Touched(b, s) \in Product
  <1>1. disk["host-sysroots"] \in Product
    BY BuilderFacts DEF DiskTypeOK
  <1> QED
    BY <1>1 DEF Touched, Product

-----------------------------------------------------------------------------
(* Control. *)

\* A step that advances stays inside Flow, for "return" does not advance.
LEMMA AdvanceOK ==
    ASSUME ProcTypeOK, NEW s, At(s), s # "return", Advance
    PROVE  pc' \in 1 .. Len(Flow) /\ pc' = pc + 1 /\ phase' = 0
  <1>1. pc \in 0 .. Len(Flow) /\ pc # 0 /\ Flow[pc] # "return"
    BY DEF ProcTypeOK, At
  <1> QED
    BY <1>1, FlowFacts DEF Advance

LEMMA AdvanceType ==
    ASSUME ProcTypeOK, NEW s, At(s), s # "return", Advance,
           UNCHANGED << opt, edited, run, result >>,
           toolchain' \in Toolchains, fdata' \in BOOLEAN, rebuilt' \subseteq Builders
    PROVE  ProcTypeOK'
  <1>1. pc' \in 0 .. Len(Flow) /\ phase' \in 0 .. 3
    BY AdvanceOK, FlowFacts
  <1>2. /\ opt' \in OptionSets /\ edited' \subseteq Builders /\ run' \in Runs
        /\ result' \in {"none", "running", "killed", "tool", "missing", "done"}
    BY DEF ProcTypeOK
  <1> QED
    BY <1>1, <1>2 DEF ProcTypeOK

LEMMA StayType ==
    ASSUME ProcTypeOK, NEW p \in 0 .. 3, Stay(p),
           UNCHANGED << opt, edited, run, result, toolchain, fdata, rebuilt >>
    PROVE  ProcTypeOK'
  BY DEF ProcTypeOK, Stay

LEMMA StopType ==
    ASSUME ProcTypeOK, NEW why \in {"killed", "tool", "missing", "done"}, Stop(why)
    PROVE  ProcTypeOK'
  <1>1. pc' \in 0 .. Len(Flow) /\ phase' \in 0 .. 3
    BY FlowFacts DEF Stop
  <1>2. opt' \in OptionSets /\ edited' \subseteq Builders /\ run' \in Runs
    BY DEF ProcTypeOK, Stop
  <1>3. /\ result' \in {"none", "running", "killed", "tool", "missing", "done"}
        /\ toolchain' \in Toolchains /\ fdata' \in BOOLEAN /\ rebuilt' \subseteq Builders
    BY DEF Stop, Toolchains
  <1> QED
    BY <1>1, <1>2, <1>3 DEF ProcTypeOK

LEMMA DiskSame ==
    ASSUME DiskTypeOK, UNCHANGED diskVars
    PROVE  DiskTypeOK'
  BY DEF DiskTypeOK, diskVars

LEMMA RestoredType ==
    ASSUME DiskTypeOK, NEW s
    PROVE  Restored(s) \in {"in place", "moved"}
  BY DEF DiskTypeOK, Restored

\* The step of a package is no builder and not the last one.
LEMMA PackageStepFacts ==
    \A k \in Targets : PackageStep(k) # "return" /\ Main(k) \in Builders
                       /\ InstallTree(k) \subseteq Builders
  BY BuilderFacts DEF Targets, PackageStep, Main, InstallTree

-----------------------------------------------------------------------------
(* Type correctness. *)

LEMMA InitType == Init => TypeOK
  <1> SUFFICES ASSUME Init PROVE TypeOK
    OBVIOUS
  <1>1. opt \in OptionSets
    BY ConstantsAssumption DEF Init
  <1>2. disk \in [Builders -> Product]
    BY AbsentType DEF Init
  <1>0. pc = 0 /\ phase = 0 /\ run = 0
    BY DEF Init
  <1>3. run \in Runs /\ 0 \in Runs
    BY <1>0, ConstantsAssumption DEF Runs
  <1>4. pkg \in [Targets -> Package]
    BY NoPackageType DEF Init
  <1>5. tarball \in [Targets -> Tarball]
    BY <1>3 DEF Init, Tarball
  <1>6. pc \in 0 .. Len(Flow) /\ phase \in 0 .. 3
    BY <1>0, FlowFacts
  <1>7. ProcTypeOK
    BY <1>1, <1>3, <1>6 DEF Init, ProcTypeOK, Toolchains
  <1>9. objs \in [Builders -> Objects] /\ temp \in [Carriers -> Runs]
    BY <1>3, NoObjectsType DEF Init
  <1>8. DiskTypeOK
    BY <1>2, <1>4, <1>5, <1>9 DEF Init, DiskTypeOK, Binaries
  <1> QED
    BY <1>7, <1>8 DEF TypeOK

\* The steps that are not builders: control moves on and little is written.
LEMMA ControlType ==
    ASSUME TypeOK, 
           \/ StartRun \/ PassOver \/ ToolFails \/ Return \/ Kill \/ FileMissing
           \/ WriteSourceInfo \/ PlaceSources
           \/ LinkHeaders("stage1-links", "stage1") \/ LinkHeaders("stage2-links", "stage2")
           \/ Test("stage1-test", "stage1") \/ Test("stage2-test", "stage2")
           \/ UseStage1 \/ UseStage2 \/ ExtractProfiles \/ CleanWindows
    PROVE  TypeOK'
  <1> USE DEF TypeOK
  <1>0. toolchain \in Toolchains /\ fdata \in BOOLEAN /\ rebuilt \subseteq Builders
    BY DEF ProcTypeOK
  <1>1. CASE StartRun
    <2>1. run' \in Runs
      BY <1>1, ConstantsAssumption DEF StartRun, ProcTypeOK, Runs
    <2>2. pc' \in 0 .. Len(Flow) /\ phase' \in 0 .. 3
      BY <1>1, FlowFacts DEF StartRun
    <2>3. opt' \in OptionSets /\ edited' \subseteq Builders
      BY <1>1, ConstantsAssumption DEF StartRun
    <2>4. ProcTypeOK'
      BY <1>1, <2>1, <2>2, <2>3, <1>0 DEF StartRun, ProcTypeOK
    <2> QED
      BY <1>1, <2>4, DiskSame DEF StartRun
  <1>2. CASE PassOver
    <2>1. At(Flow[pc]) /\ Advance /\ Flow[pc] # "return"
      BY <1>2 DEF PassOver, At, Applies, Builders, HostTree, WinTree, HostLibs, WinLibs,
                  Sysroots, Runtimes
    <2>2. headers' \in {"in place", "moved"}
      BY <1>2, RestoredType DEF PassOver, DiskTypeOK
    <2>3. ProcTypeOK'
      BY <1>2, <1>0, <2>1, AdvanceType DEF PassOver
    <2>4. DiskTypeOK'
      BY <1>2, <2>2 DEF PassOver, DiskTypeOK
    <2> QED
      BY <2>3, <2>4
  <1>3. CASE ToolFails
    BY <1>3, StopType, RestoredType DEF ToolFails, DiskTypeOK
  <1>4. CASE Return
    BY <1>4, StopType, DiskSame DEF Return
  <1>5. CASE Kill
    BY <1>5, StopType, DiskSame DEF Kill
  <1>6. CASE FileMissing
    BY <1>6, StopType, RestoredType DEF FileMissing, DiskTypeOK
  <1>7. CASE WriteSourceInfo
    <2>1. ProcTypeOK'
      BY <1>7, StayType DEF WriteSourceInfo
    <2> QED
      BY <1>7, <2>1 DEF WriteSourceInfo, DiskTypeOK
  <1>16. CASE PlaceSources
    <2>1. ProcTypeOK'
      BY <1>16, <1>0, AdvanceType DEF PlaceSources
    <2> QED
      BY <1>16, <2>1 DEF PlaceSources, DiskTypeOK
  <1>8. CASE LinkHeaders("stage1-links", "stage1")
    BY <1>8, <1>0, AdvanceType, DiskSame DEF LinkHeaders
  <1>9. CASE LinkHeaders("stage2-links", "stage2")
    BY <1>9, <1>0, AdvanceType, DiskSame DEF LinkHeaders
  <1>10. CASE Test("stage1-test", "stage1")
    BY <1>10, <1>0, AdvanceType, DiskSame DEF Test
  <1>11. CASE Test("stage2-test", "stage2")
    BY <1>11, <1>0, AdvanceType, DiskSame DEF Test
  <1>12. CASE UseStage1
    <2>1. toolchain' \in Toolchains
      BY <1>12 DEF UseStage1, Toolchains
    <2> QED
      BY <1>12, <1>0, <2>1, AdvanceType, DiskSame DEF UseStage1
  <1>13. CASE UseStage2
    <2>1. toolchain' \in Toolchains
      BY <1>13, <1>0 DEF UseStage2, Toolchains
    <2> QED
      BY <1>13, <1>0, <2>1, AdvanceType, DiskSame DEF UseStage2
  <1>14. CASE ExtractProfiles
    BY <1>14, <1>0, AdvanceType, DiskSame DEF ExtractProfiles
  <1>15. CASE CleanWindows
    <2>1. ProcTypeOK'
      BY <1>15, <1>0, AdvanceType DEF CleanWindows
    <2>2. disk' \in [Builders -> Product]
      BY <1>15, AbsentType DEF CleanWindows, DiskTypeOK
    <2> QED
      BY <1>15, <2>1, <2>2 DEF CleanWindows, DiskTypeOK
  <1> QED
    BY <1>1, <1>2, <1>3, <1>4, <1>5, <1>6, <1>7, <1>8, <1>9, <1>10, <1>11, <1>12,
       <1>13, <1>14, <1>15, <1>16

\* The four steps of a builder.
LEMMA BuildType ==
    ASSUME TypeOK, NEW b \in Builders,
           BuildBegin(b) \/ Compile(b) \/ InstallBegin(b) \/ InstallEnd(b)
    PROVE  TypeOK'
  <1> USE DEF TypeOK
  <1>0. /\ toolchain \in Toolchains /\ fdata \in BOOLEAN /\ rebuilt \subseteq Builders
        /\ disk \in [Builders -> Product] /\ objs \in [Builders -> Objects]
        /\ temp \in [Carriers -> Runs] /\ run \in Runs /\ b # "return"
    BY BuilderFacts DEF ProcTypeOK, DiskTypeOK
  <1>1. CASE BuildBegin(b)
    <2>1. ProcTypeOK'
      BY <1>1, StayType DEF BuildBegin
    <2>2. disk' \in [Builders -> Product]
      BY <1>1, ClearedType DEF BuildBegin
    <2>3. clang' \in Binaries /\ orig' \in Binaries /\ headers' \in {"in place", "moved"}
      BY <1>1 DEF BuildBegin, DiskTypeOK, Binaries
    <2>4. DiskTypeOK'
      BY <1>1, <2>2, <2>3 DEF BuildBegin, DiskTypeOK
    <2> QED
      BY <2>1, <2>4
  <1>4. CASE Compile(b)
    <2>1. ProcTypeOK'
      BY <1>4, StayType DEF Compile
    <2> DEFINE o == IF Keeps(b) THEN [objs[b] EXCEPT !.st = "partial"] ELSE CompiledNow(b)
    <2>2. o \in Objects
      <3>1. [objs[b] EXCEPT !.st = "partial"] \in Objects
        BY <1>0 DEF Objects
      <3> QED
        BY <3>1, CompiledType
    <2>3. objs' = objs \/ objs' = [objs EXCEPT ![b] = o]
      BY <1>4 DEF Compile
    <2> HIDE DEF o
    <2>4. objs' \in [Builders -> Objects]
      BY <1>0, <2>2, <2>3
    <2>5. DiskTypeOK'
      BY <1>4, <2>4 DEF Compile, DiskTypeOK
    <2> QED
      BY <2>1, <2>5
  <1>2. CASE InstallBegin(b)
    <2>1. ProcTypeOK'
      BY <1>2, StayType DEF InstallBegin
    <2>2. disk' \in [Builders -> Product]
      BY <1>0, <1>2, MadeType, TouchedType DEF InstallBegin
    <2>3. clang' \in Binaries
      BY <1>2 DEF InstallBegin, DiskTypeOK, Binaries
    <2>5. objs' \in [Builders -> Objects]
      <3> DEFINE o == [objs[b] EXCEPT !.st = "ok", !.lldb = @ \/ opt.lldb]
      <3>1. opt.lldb \in BOOLEAN /\ objs[b].lldb \in BOOLEAN
        BY <1>0, ConstantsAssumption DEF ProcTypeOK, Options, Objects
      <3>2. o \in Objects
        BY <1>0, <3>1 DEF Objects
      <3>3. objs' = objs \/ objs' = [objs EXCEPT ![b] = o]
        BY <1>0, <1>2 DEF InstallBegin
      <3> HIDE DEF o
      <3> QED
        BY <1>0, <3>2, <3>3
    <2>6. temp' \in [Carriers -> Runs]
      BY <1>0, <1>2 DEF InstallBegin
    <2>4. DiskTypeOK'
      BY <1>2, <2>2, <2>3, <2>5, <2>6 DEF InstallBegin, DiskTypeOK
    <2> QED
      BY <2>1, <2>4
  <1>3. CASE InstallEnd(b)
    <2>1. ProcTypeOK'
      BY <1>0, <1>3, AdvanceType DEF InstallEnd, Building
    <2>2. disk' \in [Builders -> Product]
      <3> DEFINE D == [disk EXCEPT !["host-sysroots"] = Touched(b, "ok")]
                 p == IF b = "device-sysroots" THEN Absent ELSE D["platform-libcxxabi"]
                 E == [D EXCEPT !["platform-libcxxabi"] = p]
      <3>1. D \in [Builders -> Product]
        BY <1>0, TouchedType
      <3>4. disk' = [E EXCEPT ![b].st = "ok"]
        BY <1>3 DEF InstallEnd
      <3> HIDE DEF D
      <3>5. p \in Product
        BY <3>1, AbsentType, BuilderFacts
      <3> HIDE DEF p
      <3>6. E \in [Builders -> Product]
        BY <3>1, <3>5
      <3> HIDE DEF E
      <3>2. [E[b] EXCEPT !.st = "ok"] \in Product
        BY <3>6 DEF Product
      <3> QED
        BY <3>2, <3>4, <3>6
    <2>3. clang' \in Binaries /\ headers' \in {"in place", "moved"}
      BY <1>3, RestoredType DEF InstallEnd, DiskTypeOK, Binaries
    <2>4. planted' \subseteq ({"prebuilt", "stage1"} \X {"builtins", "libunwind"})
      <3>1. Copies(b) \subseteq ({"prebuilt", "stage1"} \X {"builtins", "libunwind"})
        BY <1>0 DEF Copies, Toolchains
      <3>2. planted' = planted \cup Copies(b)
        BY <1>3 DEF InstallEnd
      <3>3. planted \subseteq ({"prebuilt", "stage1"} \X {"builtins", "libunwind"})
        BY DEF DiskTypeOK
      <3> QED
        BY <3>1, <3>2, <3>3
    <2>5. DiskTypeOK'
      BY <1>3, <2>2, <2>3, <2>4 DEF InstallEnd, DiskTypeOK
    <2> QED
      BY <2>1, <2>5
  <1> QED
    BY <1>1, <1>2, <1>3, <1>4

\* bolt_optimize and bolt_instrument.
LEMMA BoltType ==
    ASSUME TypeOK, MoveClang \/ RunLlvmBolt
    PROVE  TypeOK'
  <1> USE DEF TypeOK
  <1>0. toolchain \in Toolchains /\ fdata \in BOOLEAN /\ rebuilt \subseteq Builders
    BY DEF ProcTypeOK
  <1>1. CASE MoveClang
    <2>1. ProcTypeOK'
      BY <1>1, StayType DEF MoveClang
    <2> QED
      BY <1>1, <2>1 DEF MoveClang, DiskTypeOK, Binaries
  <1>2. CASE RunLlvmBolt
    <2>1. PICK s \in BoltSteps : At(s)
      BY <1>2 DEF RunLlvmBolt
    <2>2. s # "return"
      BY <2>1 DEF BoltSteps
    <2>3. ProcTypeOK'
      BY <1>0, <1>2, <2>1, <2>2, AdvanceType DEF RunLlvmBolt
    <2>4. clang' \in Binaries
      BY <1>2 DEF RunLlvmBolt, Binaries
    <2> QED
      BY <1>2, <2>3, <2>4 DEF RunLlvmBolt, DiskTypeOK
  <1> QED
    BY <1>1, <1>2

\* The four steps of package_toolchain.
LEMMA PackageType ==
    ASSUME TypeOK, NEW k \in Targets,
           PackageBegin(k) \/ PackageEnd(k) \/ TarBegin(k) \/ TarEnd(k)
    PROVE  TypeOK'
  <1> USE DEF TypeOK
  <1>0. /\ toolchain \in Toolchains /\ fdata \in BOOLEAN /\ rebuilt \subseteq Builders
        /\ run \in Runs /\ clang \in Binaries /\ disk \in [Builders -> Product]
        /\ pkg \in [Targets -> Package] /\ tarball \in [Targets -> Tarball]
    BY DEF ProcTypeOK, DiskTypeOK
  <1>1. CASE PackageBegin(k)
    <2>1. ProcTypeOK'
      BY <1>1, StayType DEF PackageBegin
    <2>2. [NoPackage EXCEPT !.st = "partial", !.run = run] \in Package
      BY <1>0, NoPackageType DEF Package
    <2>3. pkg' \in [Targets -> Package]
      BY <1>0, <1>1, <2>2 DEF PackageBegin
    <2> QED
      BY <1>1, <2>1, <2>3 DEF PackageBegin, DiskTypeOK
  <1>2. CASE PackageEnd(k)
    <2>1. ProcTypeOK'
      <3>1. CASE opt.tar
        BY <1>2, <3>1, StayType DEF PackageEnd
      <3>2. CASE ~opt.tar
        BY <1>0, <1>2, <3>2, AdvanceType, PackageStepFacts DEF PackageEnd
      <3> QED
        BY <3>1, <3>2
    <2> DEFINE P == [b \in Builders |-> IF b \in InstallTree(k) THEN disk[b] ELSE Absent]
               B == IF k = "host" THEN clang ELSE "plain"
               W == Unfiltered(opt) /\ opt.runtimes
    <2>2. P \in [Builders -> Product]
      BY <1>0, AbsentType
    <2>3. B \in Binaries
      BY <1>0 DEF Binaries
    <2>4. W \in BOOLEAN
      BY DEF Unfiltered
    <2>5. pkg' = [pkg EXCEPT ![k] = [ st |-> "ok", run |-> run, parts |-> P, bin |-> B,
                                      fresh |-> Main(k) \in rebuilt, whole |-> W ]]
      BY <1>2 DEF PackageEnd
    <2> HIDE DEF P, B, W
    <2>6. [ st |-> "ok", run |-> run, parts |-> P, bin |-> B,
            fresh |-> Main(k) \in rebuilt, whole |-> W ] \in Package
      BY <1>0, <2>2, <2>3, <2>4 DEF Package
    <2>7. pkg' \in [Targets -> Package]
      BY <1>0, <2>5, <2>6
    <2> QED
      BY <1>2, <2>1, <2>7 DEF PackageEnd, DiskTypeOK
  <1>3. CASE TarBegin(k)
    <2>1. ProcTypeOK'
      BY <1>3, StayType DEF TarBegin
    <2>2. tarball' \in [Targets -> Tarball]
      BY <1>0, <1>3 DEF TarBegin, Tarball
    <2> QED
      BY <1>3, <2>1, <2>2 DEF TarBegin, DiskTypeOK
  <1>4. CASE TarEnd(k)
    <2>1. ProcTypeOK'
      BY <1>0, <1>4, AdvanceType, PackageStepFacts DEF TarEnd
    <2>2. tarball' \in [Targets -> Tarball]
      BY <1>0, <1>4 DEF TarEnd, Tarball
    <2> QED
      BY <1>4, <2>1, <2>2 DEF TarEnd, DiskTypeOK
  <1> QED
    BY <1>1, <1>2, <1>3, <1>4

LEMMA StutterType ==
    ASSUME TypeOK, UNCHANGED vars
    PROVE  TypeOK'
  BY DEF TypeOK, ProcTypeOK, DiskTypeOK, vars

\* The state has its type in every reachable state; in particular a runtime is
\* only ever copied beside a compiler other than stage2 (Copies), and control
\* never leaves the steps of main().
THEOREM TypeCorrect == Spec => []TypeOK
  <1>1. Init => TypeOK
    BY InitType
  <1>2. TypeOK /\ [Next]_vars => TypeOK'
    <2> SUFFICES ASSUME TypeOK, [Next]_vars PROVE TypeOK'
      OBVIOUS
    <2>1. CASE UNCHANGED vars
      BY <2>1, StutterType
    <2>2. CASE Build
      BY <2>2, BuildType DEF Build
    <2>3. CASE MoveClang \/ RunLlvmBolt
      BY <2>3, BoltType
    <2>4. CASE PackageToolchain
      BY <2>4, PackageType DEF PackageToolchain
    <2>5. CASE \/ StartRun \/ PassOver \/ ToolFails \/ Return \/ Kill \/ FileMissing
               \/ WriteSourceInfo \/ PlaceSources
               \/ LinkHeaders("stage1-links", "stage1") \/ LinkHeaders("stage2-links", "stage2")
               \/ Test("stage1-test", "stage1") \/ Test("stage2-test", "stage2")
               \/ UseStage1 \/ UseStage2 \/ ExtractProfiles \/ CleanWindows
      BY <2>5, ControlType
    <2> QED
      BY <2>1, <2>2, <2>3, <2>4, <2>5 DEF Next, Step, Finished
  <1> QED
    BY <1>1, <1>2, PTL DEF Spec

-----------------------------------------------------------------------------
(* What a run may rely on about the install directories.                   *)

\* Nothing of an earlier run is left of what b installed, but for what comes along
\* from a temporary directory.
OfThisRun(b) ==
    disk[b].st # "absent" =>
        disk[b].run = run /\ (disk[b].oldest = run \/ b \in Carriers)

\* The inductive invariant: between the moment a directory is deleted and the end
\* of the run, whatever is in it was installed by this run.
IdleInv == pc = 0 => rebuilt = {}
WipeInv == (pc # 0 /\ Flow[pc] = "stage2") =>
               /\ phase \in {1, 2, 3} => \A r \in HostTree \ {"stage2"} : disk[r] = Absent
               /\ phase \in {1, 2} => disk["stage2"] = Absent
InstallInv == (pc # 0 /\ Flow[pc] \in Builders /\ phase = 3) =>
                  /\ disk[Flow[pc]].st # "absent" /\ disk[Flow[pc]].run = run
                  /\ Flow[pc] = "stage2" => disk["stage2"].oldest = run
HostInv == "stage2" \in rebuilt => \A b \in HostTree : OfThisRun(b)
WindowsInv == (pc > 27 /\ NeedWindows(opt)) => \A b \in WinTree : OfThisRun(b)
DiskInv == IdleInv /\ WipeInv /\ InstallInv /\ HostInv /\ WindowsInv

\* The runtimes, and the objects they are installed from, match the stage2 compiler
\* on disk.  When a stage2 replaces it, all objects there are older.
StageRuntimes == HostTree \ {"stage2"}
RunInv == disk["stage2"].run <= run
AgeInv == \A r \in StageRuntimes :
              objs[r].made <= run /\ ((pc # 0 /\ pc <= 12) => objs[r].made < run)
ReadyInv == (pc # 0 /\ Flow[pc] \in StageRuntimes /\ phase = 2) =>
                disk["stage2"].st # "absent"
ObjsMatch ==
    disk["stage2"].st # "absent" =>
        \A r \in StageRuntimes :
            (objs[r].cc = "stage2" /\ objs[r].made >= disk["stage2"].run) =>
                objs[r].ccrun = disk["stage2"].run
DiskMatch ==
    \A r \in StageRuntimes : disk[r].st # "absent" =>
        disk["stage2"].st # "absent" /\ Matches(disk[r], disk["stage2"])
MatchOnDisk == RunInv /\ AgeInv /\ ReadyInv /\ ObjsMatch /\ DiskMatch

\* The runs that products and objects name are numbers.
LEMMA Numbers ==
    ASSUME TypeOK
    PROVE  /\ pc \in 0 .. 37 /\ run \in Nat
           /\ disk \in [Builders -> Product] /\ objs \in [Builders -> Objects]
           /\ HostTree \subseteq Builders
           /\ \A b \in Builders : disk[b].run \in Nat /\ disk[b].made \in Nat /\ objs[b].made \in Nat
  <1>1. Runs \subseteq Nat
    BY ConstantsAssumption DEF Runs
  <1>2. /\ pc \in 0 .. 37 /\ run \in Nat
        /\ disk \in [Builders -> Product] /\ objs \in [Builders -> Objects]
    BY <1>1, FlowFacts DEF TypeOK, ProcTypeOK, DiskTypeOK
  <1>3. ASSUME NEW b \in Builders
        PROVE  disk[b].run \in Nat /\ disk[b].made \in Nat /\ objs[b].made \in Nat
    <2>1. disk[b] \in Product /\ objs[b] \in Objects
      BY <1>2
    <2> QED
      BY <1>1, <2>1 DEF Product, Objects
  <1> QED
    BY <1>2, <1>3, BuilderFacts

LEMMA DiskInvInit == Init => DiskInv /\ MatchOnDisk
  <1> SUFFICES ASSUME Init PROVE DiskInv /\ MatchOnDisk
    OBVIOUS
  <1>1. /\ pc = 0 /\ rebuilt = {} /\ run = 0 /\ disk = [b \in Builders |-> Absent]
        /\ objs = [b \in Builders |-> NoObjects]
    BY DEF Init
  <1>2. MatchOnDisk
    BY <1>1, BuilderFacts DEF MatchOnDisk, RunInv, AgeInv, ReadyInv, ObjsMatch, DiskMatch,
       StageRuntimes, Absent, NoObjects
  <1>3. DiskInv
    BY <1>1 DEF DiskInv, IdleInv, WipeInv, InstallInv, HostInv, WindowsInv
  <1> QED
    BY <1>2, <1>3

\* Leaving the install directories alone preserves it, whether control stays at a
\* step that is no builder, moves on, or the process ends.
LEMMA DiskInvKept ==
    ASSUME TypeOK, DiskInv, UNCHANGED << disk, rebuilt, opt, run >>,
           \/ pc' = pc /\ pc # 0 /\ Flow[pc] \notin Builders
           \/ /\ pc # 0 /\ pc' = pc + 1 /\ phase' = 0
              /\ Flow[pc] = "win-clean" => ~NeedWindows(opt)
    PROVE  DiskInv'
  <1> USE DEF DiskInv
  <1>1. pc \in 0 .. 37
    BY FlowFacts DEF TypeOK, ProcTypeOK
  <1>2. pc' # 0 /\ IdleInv'
    BY <1>1 DEF IdleInv
  <1>3. WipeInv'
    BY BuilderFacts DEF WipeInv
  <1>4. InstallInv'
    BY DEF InstallInv
  <1>5. HostInv'
    BY DEF HostInv, OfThisRun
  <1>6. WindowsInv'
    <2> SUFFICES ASSUME pc' > 27, NeedWindows(opt) PROVE \A b \in WinTree : OfThisRun(b)
      BY DEF WindowsInv, OfThisRun, NeedWindows
    <2>1. pc # 27 \/ pc' = pc
      BY <1>1, FlowFacts
    <2>2. pc > 27
      BY <1>1, <2>1
    <2> QED
      BY <2>2 DEF WindowsInv
  <1> QED
    BY <1>2, <1>3, <1>4, <1>5, <1>6

LEMMA DiskInvStop ==
    ASSUME NEW why, Stop(why)
    PROVE  DiskInv'
  BY DEF Stop, DiskInv, IdleInv, WipeInv, InstallInv, HostInv, WindowsInv

LEMMA DiskInvStart ==
    ASSUME DiskInv, StartRun
    PROVE  DiskInv'
  <1>1. pc = 0 /\ pc' = 1 /\ phase' = 0 /\ rebuilt' = {}
    BY DEF StartRun, DiskInv, IdleInv
  <1> QED
    BY <1>1 DEF DiskInv, IdleInv, WipeInv, InstallInv, HostInv, WindowsInv

\* A step that writes nothing of this preserves the match of runtimes and compiler.
LEMMA MatchKept ==
    ASSUME TypeOK, MatchOnDisk, UNCHANGED << disk, objs >>,
           \/ run' = run /\ pc' = 0
           \/ run' = run /\ pc' = pc /\ (phase' = phase \/ Flow[pc] \notin Builders)
           \/ run' = run /\ pc # 0 /\ pc' = pc + 1 /\ phase' = 0
           \/ run' = run + 1 /\ pc' = 1 /\ phase' = 0
    PROVE  MatchOnDisk'
  <1> USE DEF MatchOnDisk
  <1>1. /\ pc \in 0 .. 37 /\ run \in Nat /\ HostTree \subseteq Builders
        /\ \A r \in StageRuntimes : objs[r].made \in Nat
        /\ disk["stage2"].run \in Nat
    BY Numbers, BuilderFacts DEF StageRuntimes
  <1>2. RunInv' /\ AgeInv'
    BY <1>1 DEF RunInv, AgeInv
  <1>3. ReadyInv'
    BY <1>1 DEF ReadyInv, StageRuntimes
  <1>4. ObjsMatch' /\ DiskMatch'
    BY DEF ObjsMatch, DiskMatch, Matches
  <1> QED
    BY <1>2, <1>3, <1>4

\* The steps that leave all install directories alone.
Harmless ==
    \/ PassOver \/ WriteSourceInfo \/ PlaceSources
    \/ LinkHeaders("stage1-links", "stage1") \/ LinkHeaders("stage2-links", "stage2")
    \/ Test("stage1-test", "stage1") \/ Test("stage2-test", "stage2")
    \/ UseStage1 \/ UseStage2 \/ ExtractProfiles \/ MoveClang \/ RunLlvmBolt
    \/ PackageToolchain

LEMMA HarmlessMoves ==
    ASSUME Harmless
    PROVE  /\ UNCHANGED << disk, objs, temp, rebuilt, opt, run >>
           /\ \/ pc' = pc /\ pc # 0 /\ Flow[pc] \notin Builders
              \/ /\ pc # 0 /\ pc' = pc + 1 /\ phase' = 0
                 /\ Flow[pc] = "win-clean" => ~NeedWindows(opt)
  <1>1. CASE PassOver
    BY <1>1, BuilderFacts DEF PassOver, Advance, Applies, Runtimes, HostTree
  <1>2. CASE \/ WriteSourceInfo \/ PlaceSources
             \/ LinkHeaders("stage1-links", "stage1") \/ LinkHeaders("stage2-links", "stage2")
             \/ Test("stage1-test", "stage1") \/ Test("stage2-test", "stage2")
             \/ UseStage1 \/ UseStage2 \/ ExtractProfiles
    BY <1>2, BuilderFacts DEF WriteSourceInfo, PlaceSources, LinkHeaders, Test, UseStage1, UseStage2,
                ExtractProfiles, diskVars, At, Stay, Advance
  <1>3. CASE MoveClang \/ RunLlvmBolt
    BY <1>3, BuilderFacts DEF MoveClang, RunLlvmBolt, BoltSteps, At, Stay, Advance
  <1>4. CASE PackageToolchain
    <2>1. PICK k \in Targets : PackageBegin(k) \/ PackageEnd(k) \/ TarBegin(k) \/ TarEnd(k)
      BY <1>4 DEF PackageToolchain
    <2>2. PackageStep(k) \notin Builders /\ PackageStep(k) # "win-clean"
      BY BuilderFacts DEF PackageStep
    <2> QED
      BY <2>1, <2>2 DEF PackageBegin, PackageEnd, TarBegin, TarEnd, At, Stay, Advance
  <1> QED
    BY <1>1, <1>2, <1>3, <1>4 DEF Harmless

\* build_llvm_for_windows deletes the Windows install directory.
LEMMA DiskInvClean ==
    ASSUME TypeOK, DiskInv, MatchOnDisk, CleanWindows
    PROVE  DiskInv' /\ MatchOnDisk'
  <1> USE DEF DiskInv
  <1>1. /\ disk' = [b \in Builders |-> IF b \in WinTree THEN Absent ELSE disk[b]]
        /\ UNCHANGED << opt, run, rebuilt, objs >> /\ phase' = 0 /\ pc # 0 /\ pc' = pc + 1
    BY DEF CleanWindows, Advance, At
  <1>2. \A b \in HostTree : disk'[b] = disk[b]
    BY <1>1, BuilderFacts
  <1>3. \A b \in WinTree : disk'[b] = Absent
    BY <1>1, BuilderFacts
  <1>4. pc' # 0 /\ pc = 27
    BY AdvanceOK, FlowFacts DEF CleanWindows, At, TypeOK, ProcTypeOK
  <1>5. HostInv'
    BY <1>1, <1>2 DEF HostInv, OfThisRun
  <1>6. WindowsInv'
    BY <1>1, <1>3 DEF WindowsInv, OfThisRun, Absent
  <1>7. IdleInv' /\ WipeInv' /\ InstallInv'
    BY <1>1, <1>4 DEF IdleInv, WipeInv, InstallInv
  <1>8. MatchOnDisk'
    BY <1>1, <1>2, <1>4, BuilderFacts
    DEF MatchOnDisk, RunInv, AgeInv, ReadyInv, ObjsMatch, DiskMatch, Matches, StageRuntimes
  <1> QED
    BY <1>5, <1>6, <1>7, <1>8

\* A builder deletes what it owns.
LEMMA DiskInvBegin ==
    ASSUME TypeOK, DiskInv, MatchOnDisk, NEW b \in Builders, BuildBegin(b)
    PROVE  DiskInv' /\ MatchOnDisk'
  <1> USE DEF DiskInv
  <1>1. /\ disk' = [x \in Builders |-> Cleared(x, b)]
        /\ UNCHANGED << opt, run, rebuilt, objs >> /\ pc' = pc /\ phase' = 1
        /\ pc # 0 /\ Flow[pc] = b
    BY DEF BuildBegin, Stay, Building, At
  <1>2. \A x \in HostTree \cup WinTree :
            disk'[x] = IF x \in Wiped(b) THEN Absent ELSE disk[x]
    BY <1>1, BuilderFacts DEF Cleared
  <1>3. \A x \in HostTree \cup WinTree : OfThisRun(x) => OfThisRun(x)'
    BY <1>1, <1>2 DEF OfThisRun, Absent
  <1>4. HostInv' /\ WindowsInv'
    BY <1>1, <1>3, BuilderFacts DEF HostInv, WindowsInv, NeedWindows
  <1>5. WipeInv'
    <2>1. CASE b = "stage2"
      BY <1>1, <1>2, <2>1, WipedFacts, BuilderFacts DEF WipeInv
    <2>2. CASE b # "stage2"
      BY <1>1, <2>2 DEF WipeInv
    <2> QED
      BY <2>1, <2>2
  <1>6. IdleInv' /\ InstallInv'
    BY <1>1 DEF IdleInv, InstallInv
  <1>7. MatchOnDisk'
    <2>0. AgeInv' /\ ReadyInv'
      BY <1>1 DEF MatchOnDisk, AgeInv, ReadyInv
    <2>1. CASE b = "stage2"
      <3>1. \A x \in HostTree : disk'[x] = Absent
        BY <1>2, <2>1, WipedFacts
      <3>2. 0 <= run
        BY ConstantsAssumption DEF TypeOK, ProcTypeOK, Runs
      <3>3. RunInv'
        BY <1>1, <3>1, <3>2, BuilderFacts DEF RunInv, Absent
      <3>4. ObjsMatch' /\ DiskMatch'
        BY <3>1, BuilderFacts DEF ObjsMatch, DiskMatch, StageRuntimes, Absent
      <3> QED
        BY <2>0, <3>3, <3>4 DEF MatchOnDisk
    <2>2. CASE b # "stage2"
      <3>1. disk'["stage2"] = disk["stage2"]
        BY <1>2, <2>2, WipedFacts, BuilderFacts
      <3>2. RunInv' /\ ObjsMatch'
        BY <1>1, <3>1 DEF MatchOnDisk, RunInv, ObjsMatch
      <3>3. DiskMatch'
        BY <1>2, <3>1 DEF MatchOnDisk, DiskMatch, StageRuntimes, Absent, Matches
      <3> QED
        BY <2>0, <3>2, <3>3 DEF MatchOnDisk
    <2> QED
      BY <2>1, <2>2
  <1> QED
    BY <1>4, <1>5, <1>6, <1>7

\* A builder compiles, or keeps what was compiled: what a runtime compiles with
\* stage2 now, it compiles with the stage2 on disk.
LEMMA DiskInvCompile ==
    ASSUME TypeOK, DiskInv, MatchOnDisk, NEW b \in Builders, Compile(b)
    PROVE  DiskInv' /\ MatchOnDisk'
  <1> USE DEF DiskInv
  <1>1. /\ UNCHANGED << disk, opt, run, rebuilt >> /\ pc' = pc /\ phase' = 2 /\ phase = 1
        /\ pc # 0 /\ Flow[pc] = b /\ ~Lacks(b)
    BY DEF Compile, Stay, Building, At
  <1>2. /\ pc \in 1 .. 37 /\ run \in Nat /\ HostTree \subseteq Builders
        /\ disk["stage2"].run \in Nat /\ objs \in [Builders -> Objects]
        /\ \A x \in Builders : objs[x].made \in Nat
    BY <1>1, Numbers, BuilderFacts
  <1>3. \A x \in Builders :
          \/ /\ objs'[x].cc = objs[x].cc /\ objs'[x].ccrun = objs[x].ccrun
             /\ objs'[x].made = objs[x].made
          \/ x = b /\ objs'[x] = CompiledNow(b)
    <2>1. CASE b \in Dirless
      BY <2>1 DEF Compile
    <2>2. CASE b \notin Dirless /\ ~Keeps(b)
      BY <1>2, <2>2 DEF Compile
    <2>3. CASE b \notin Dirless /\ Keeps(b)
      <3>1. objs' = [objs EXCEPT ![b] = [objs[b] EXCEPT !.st = "partial"]]
        BY <2>3 DEF Compile
      <3>2. ASSUME NEW o \in Objects, NEW p, p = [o EXCEPT !.st = "partial"]
            PROVE  p.cc = o.cc /\ p.ccrun = o.ccrun /\ p.made = o.made
        BY <3>2 DEF Objects
      <3>3. objs'[b] = [objs[b] EXCEPT !.st = "partial"]
        BY <1>2, <3>1
      <3>4. \A x \in Builders \ {b} : objs'[x] = objs[x]
        BY <1>2, <3>1
      <3> QED
        BY <1>2, <3>2, <3>3, <3>4
    <2> QED
      BY <2>1, <2>2, <2>3
  <1>4. b \in StageRuntimes => pc > 12 /\ disk["stage2"].st # "absent"
    <2> SUFFICES ASSUME b \in StageRuntimes PROVE pc > 12 /\ "stage2" \in Inputs(b)
      BY <1>1 DEF Lacks
    <2>1. pc > 12
      BY <1>1, <1>2, FlowFacts DEF StageRuntimes
    <2>2. "stage2" \in Inputs(b)
      BY DEF StageRuntimes, Inputs, Runtimes, HostTree, WinLibs
    <2> QED
      BY <2>1, <2>2
  <1>5. CompiledNow(b).made = run
        /\ (CompiledNow(b).cc = "stage2" => CompiledNow(b).ccrun = disk["stage2"].run)
    BY DEF CompiledNow, Compiler
  <1>6. DiskInv'
    BY <1>1 DEF IdleInv, WipeInv, InstallInv, HostInv, WindowsInv, OfThisRun, NeedWindows
  <1>7. RunInv' /\ ReadyInv' /\ DiskMatch'
    BY <1>1, <1>4 DEF MatchOnDisk, RunInv, ReadyInv, DiskMatch, Matches
  <1>8. AgeInv'
    <2> SUFFICES ASSUME NEW r \in StageRuntimes
                 PROVE  objs'[r].made <= run /\ (pc <= 12 => objs'[r].made < run)
      BY <1>1 DEF AgeInv
    <2>1. r \in Builders
      BY <1>2 DEF StageRuntimes
    <2> QED
      BY <1>1, <1>2, <1>3, <1>4, <1>5, <2>1 DEF MatchOnDisk, AgeInv
  <1>9. ObjsMatch'
    BY <1>1, <1>2, <1>3, <1>5 DEF MatchOnDisk, ObjsMatch, StageRuntimes
  <1> QED
    BY <1>6, <1>7, <1>8, <1>9 DEF MatchOnDisk

\* A builder installs what it compiled.
LEMMA DiskInvInstall ==
    ASSUME TypeOK, DiskInv, MatchOnDisk, NEW b \in Builders, InstallBegin(b)
    PROVE  DiskInv' /\ MatchOnDisk'
  <1> USE DEF DiskInv
  <1>1. /\ disk' = [disk EXCEPT !["host-sysroots"] = Touched(b, "partial"),
                                ![b] = Made(b)]
        /\ UNCHANGED << opt, run, rebuilt >> /\ pc' = pc /\ phase' = 3 /\ phase = 2
        /\ pc # 0 /\ Flow[pc] = b
    BY DEF InstallBegin, Stay, Building, At
  <1>2. /\ disk \in [Builders -> Product] /\ objs \in [Builders -> Objects]
        /\ pc \in 1 .. 37 /\ run \in Nat
        /\ \A x \in Builders : disk[x].run \in Nat /\ objs[x].made \in Nat
    BY <1>1, Numbers
  <1>3. disk'[b] = Made(b) /\ disk'[b].run = run /\ disk'[b].oldest = Oldest(b)
        /\ disk'[b].st # "absent"
    BY <1>1, <1>2 DEF Made
  <1>4. \A x \in Builders \ {b, "host-sysroots"} : disk'[x] = disk[x]
    BY <1>1, <1>2
  <1>0. \A x \in Builders :
           objs'[x].cc = objs[x].cc /\ objs'[x].ccrun = objs[x].ccrun /\ objs'[x].made = objs[x].made
    <2>1. CASE b \in Dirless
      BY <2>1 DEF InstallBegin
    <2>2. CASE b \notin Dirless
      <3>1. objs[b] \in Objects
        BY <1>2
      <3>2. objs'[b] = [objs[b] EXCEPT !.st = "ok", !.lldb = objs[b].lldb \/ opt.lldb]
        BY <1>2, <2>2, <3>1 DEF InstallBegin, Objects
      <3>4. /\ objs'[b].cc = objs[b].cc /\ objs'[b].ccrun = objs[b].ccrun
            /\ objs'[b].made = objs[b].made
        BY <3>1, <3>2 DEF Objects
      <3>3. \A x \in Builders \ {b} : objs'[x] = objs[x]
        BY <1>2, <2>2 DEF InstallBegin
      <3> QED
        BY <3>3, <3>4
    <2> QED
      BY <2>1, <2>2
  <1>5. \A x \in HostTree \cup WinTree : OfThisRun(x) => OfThisRun(x)'
    <2>1. OfThisRun(b) /\ b \in HostTree \cup WinTree => OfThisRun(b)'
      BY <1>1, <1>3, BuilderFacts DEF OfThisRun, Oldest
    <2> QED
      BY <1>1, <1>4, <2>1, BuilderFacts DEF OfThisRun
  <1>6. HostInv' /\ WindowsInv'
    BY <1>1, <1>5 DEF HostInv, WindowsInv, NeedWindows
  <1>7. IdleInv' /\ InstallInv'
    <2>1. b = "stage2" => disk'[b].oldest = run
      BY <1>1, <1>3 DEF WipeInv, Oldest, Carriers, Absent
    <2> QED
      BY <1>1, <1>3, <2>1 DEF IdleInv, InstallInv
  <1>8. WipeInv'
    <2>1. CASE b = "stage2"
      <3>1. \A r \in HostTree \ {"stage2"} : disk'[r] = disk[r]
        BY <1>4, <2>1, BuilderFacts
      <3>2. \A r \in HostTree \ {"stage2"} : disk[r] = Absent
        BY <1>1, <2>1 DEF WipeInv
      <3>3. \A r \in HostTree \ {"stage2"} : disk'[r] = Absent
        BY <3>1, <3>2
      <3>4. phase' \notin {1, 2}
        BY <1>1
      <3> QED
        BY <3>3, <3>4 DEF WipeInv
    <2>2. CASE b # "stage2"
      BY <1>1, <2>2 DEF WipeInv
    <2> QED
      BY <2>1, <2>2
  <1>9. MatchOnDisk'
    <2>0. AgeInv' /\ ReadyInv'
      BY <1>0, <1>1, BuilderFacts DEF MatchOnDisk, AgeInv, ReadyInv, StageRuntimes
    <2>1. CASE b = "stage2"
      <3>1. \A r \in StageRuntimes : disk'[r] = Absent
        BY <1>1, <1>4, <2>1, BuilderFacts DEF WipeInv, StageRuntimes
      <3>2. DiskMatch'
        BY <3>1 DEF DiskMatch, Absent
      <3>3. disk'["stage2"].run = run
        BY <1>3, <2>1
      <3>4. pc <= 12
        BY <1>1, <1>2, <2>1, FlowFacts
      <3>5. \A r \in StageRuntimes : objs'[r].made < run /\ objs'[r].made \in Nat
        BY <1>0, <1>1, <1>2, <3>4, BuilderFacts DEF MatchOnDisk, AgeInv, StageRuntimes
      <3>7. RunInv'
        BY <1>1, <1>2, <3>3 DEF RunInv
      <3>8. \A r \in StageRuntimes : ~(objs'[r].made >= disk'["stage2"].run)
        BY <1>2, <3>3, <3>5
      <3>6. RunInv' /\ ObjsMatch'
        BY <3>7, <3>8 DEF ObjsMatch
      <3> QED
        BY <2>0, <3>2, <3>6 DEF MatchOnDisk
    <2>2. CASE b # "stage2"
      <3>1. disk'["stage2"] = disk["stage2"]
        BY <1>4, <2>2, BuilderFacts
      <3>2. RunInv' /\ ObjsMatch'
        BY <1>0, <1>1, <3>1, BuilderFacts DEF MatchOnDisk, RunInv, ObjsMatch, StageRuntimes
      <3>3. ASSUME NEW r \in StageRuntimes, disk'[r].st # "absent"
            PROVE  disk'["stage2"].st # "absent" /\ Matches(disk'[r], disk'["stage2"])
        <4>1. CASE r = b
          <5>1. disk["stage2"].st # "absent" /\ disk["stage2"].run <= run
            BY <1>1, <4>1 DEF MatchOnDisk, ReadyInv, RunInv
          <5>2. b \notin Dirless =>
                  Made(b).cc = objs[b].cc /\ Made(b).ccrun = objs[b].ccrun /\ Made(b).made = objs[b].made
            BY DEF Made
          <5>3. b \in Dirless => (Made(b).cc = "stage2" => Made(b).ccrun = disk["stage2"].run)
            BY DEF Made, CompiledNow, Compiler
          <5>4. (Made(b).cc = "stage2" /\ Made(b).made >= disk["stage2"].run) =>
                    Made(b).ccrun = disk["stage2"].run
            BY <4>1, <5>1, <5>2, <5>3 DEF MatchOnDisk, ObjsMatch
          <5>5. disk'["stage2"].run <= disk'[b].run
            BY <1>3, <3>1, <5>1
          <5>6. disk'[b].run >= disk'["stage2"].run
            BY <1>2, <1>3, <3>1, <5>1, BuilderFacts, ConstantsAssumption DEF Product, Runs
          <5> QED
            BY <1>3, <3>1, <4>1, <5>1, <5>4, <5>6 DEF Matches
        <4>2. CASE r # b
          BY <1>4, <3>1, <3>3, <4>2, BuilderFacts DEF MatchOnDisk, DiskMatch, StageRuntimes
        <4> QED
          BY <4>1, <4>2
      <3>4. DiskMatch'
        BY <3>3 DEF DiskMatch, Matches
      <3> QED
        BY <2>0, <3>2, <3>4 DEF MatchOnDisk
    <2> QED
      BY <2>1, <2>2
  <1> QED
    BY <1>6, <1>7, <1>8, <1>9

\* A builder completes its installation.
LEMMA DiskInvEnd ==
    ASSUME TypeOK, DiskInv, MatchOnDisk, NEW b \in Builders, InstallEnd(b)
    PROVE  DiskInv' /\ MatchOnDisk'
  <1> USE DEF DiskInv
  <1>1. /\ disk' = [disk EXCEPT !["host-sysroots"] = Touched(b, "ok"),
                                !["platform-libcxxabi"] =
                                    IF b = "device-sysroots" THEN Absent ELSE @,
                                ![b].st = "ok"]
        /\ UNCHANGED << opt, run, objs >> /\ rebuilt' = rebuilt \cup {b}
        /\ phase' = 0 /\ phase = 3 /\ pc # 0 /\ Flow[pc] = b
    BY DEF InstallEnd, Advance, Building, At
  <1>2. disk \in [Builders -> Product]
    BY DEF TypeOK, DiskTypeOK
  <1>3. pc \in 1 .. 37 /\ pc' = pc + 1 /\ Flow[pc] # "win-clean"
    BY <1>1, FlowFacts, BuilderFacts DEF TypeOK, ProcTypeOK, InstallEnd, Advance
  <1>4. ASSUME NEW x \in HostTree \cup WinTree
        PROVE  /\ disk'[x].run = disk[x].run /\ disk'[x].cc = disk[x].cc
               /\ disk'[x].ccrun = disk[x].ccrun
               /\ disk'[x].made = disk[x].made /\ disk'[x].oldest = disk[x].oldest
               /\ x # b => disk'[x] = disk[x]
               /\ x = b => disk'[x].st # "absent"
    <2>1. x # "host-sysroots" /\ x # "platform-libcxxabi" /\ x \in Builders
      BY BuilderFacts
    <2>2. CASE x = b
      <3>1. disk'[x] = [disk[x] EXCEPT !.st = "ok"]
        BY <1>1, <1>2, <2>1, <2>2
      <3> QED
        BY <1>2, <2>1, <2>2, <3>1 DEF Product
    <2>3. CASE x # b
      BY <1>1, <1>2, <2>1, <2>3
    <2> QED
      BY <2>2, <2>3
  <1>5. b \in HostTree \cup WinTree => disk'[b].run = run
    BY <1>1, <1>4 DEF InstallInv
  <1>6. \A x \in HostTree \cup WinTree : x # b /\ OfThisRun(x) => OfThisRun(x)'
    BY <1>1, <1>4 DEF OfThisRun
  <1>11. b \in HostTree \cup WinTree /\ OfThisRun(b) => OfThisRun(b)'
    BY <1>1, <1>4 DEF OfThisRun, InstallInv
  <1>7. HostInv'
    <2>1. CASE b = "stage2"
      <3>1. \A r \in HostTree \ {"stage2"} : disk'[r] = Absent
        BY <1>1, <1>4, <2>1 DEF WipeInv
      <3>2. disk'["stage2"].run = run' /\ disk'["stage2"].oldest = run'
        BY <1>1, <1>4, <1>5, <2>1, BuilderFacts DEF InstallInv
      <3> QED
        BY <3>1, <3>2 DEF HostInv, OfThisRun, Absent
    <2>2. CASE b # "stage2"
      BY <1>1, <1>6, <1>11, <2>2 DEF HostInv
    <2> QED
      BY <2>1, <2>2
  <1>8. WindowsInv'
    <2>1. pc' > 27 => pc > 27
      BY <1>3, FlowFacts
    <2> QED
      BY <1>1, <1>6, <1>11, <2>1 DEF WindowsInv, NeedWindows
  <1>9. IdleInv' /\ WipeInv' /\ InstallInv'
    BY <1>1, <1>3 DEF IdleInv, WipeInv, InstallInv
  <1>10. MatchOnDisk'
    <2>1. disk[b].st # "absent"
      BY <1>1 DEF InstallInv
    <2>2. /\ disk'["stage2"].run = disk["stage2"].run
          /\ disk'["stage2"].st = "absent" <=> disk["stage2"].st = "absent"
      BY <1>4, <2>1, BuilderFacts
    <2>3. RunInv' /\ ObjsMatch'
      BY <1>1, <2>2 DEF MatchOnDisk, RunInv, ObjsMatch
    <2>4. AgeInv' /\ ReadyInv'
      BY <1>1, <1>3 DEF MatchOnDisk, AgeInv, ReadyInv
    <2>5. DiskMatch'
      BY <1>4, <2>1, <2>2 DEF MatchOnDisk, DiskMatch, Matches, StageRuntimes
    <2> QED
      BY <2>3, <2>4, <2>5 DEF MatchOnDisk
  <1> QED
    BY <1>7, <1>8, <1>9, <1>10

LEMMA DiskInvStep ==
    ASSUME TypeOK, DiskInv, MatchOnDisk, [Next]_vars
    PROVE  DiskInv' /\ MatchOnDisk'
  <1>1. CASE UNCHANGED vars
    <2>1. DiskInv'
      BY <1>1 DEF vars, DiskInv, IdleInv, WipeInv, InstallInv, HostInv, WindowsInv,
                  OfThisRun, NeedWindows
    <2> QED
      BY <1>1, <2>1, MatchKept DEF vars
  <1>2. CASE Harmless
    BY <1>2, HarmlessMoves, DiskInvKept, MatchKept
  <1>3. CASE StartRun
    BY <1>3, DiskInvStart, MatchKept DEF StartRun, diskVars
  <1>4. CASE ToolFails \/ Return \/ Kill \/ FileMissing
    <2>1. UNCHANGED << disk, objs, run >> /\ pc' = 0
      BY <1>4 DEF ToolFails, Return, Kill, FileMissing, diskVars, Stop
    <2>2. DiskInv'
      BY <1>4, DiskInvStop DEF ToolFails, Return, Kill, FileMissing
    <2> QED
      BY <2>1, <2>2, MatchKept
  <1>5. CASE CleanWindows
    BY <1>5, DiskInvClean
  <1>6. CASE Build
    BY <1>6, DiskInvBegin, DiskInvCompile, DiskInvInstall, DiskInvEnd DEF Build
  <1> QED
    BY <1>1, <1>2, <1>3, <1>4, <1>5, <1>6 DEF Next, Step, Finished, Harmless

-----------------------------------------------------------------------------
(* The packages. *)

\* A package changes only when package_toolchain begins it or completes it, and a
\* completed one holds a copy of the install directory.
LEMMA PackageChange ==
    ASSUME TypeOK, [Next]_vars, NEW k \in Targets
    PROVE  \/ pkg'[k] = pkg[k]
           \/ /\ ~pkg'[k].fresh
              /\ \A b \in Builders : pkg'[k].parts[b] = Absent
           \/ /\ PackageEnd(k)
              /\ pkg'[k].fresh = (Main(k) \in rebuilt) /\ pkg'[k].run = run
              /\ \A b \in InstallTree(k) : pkg'[k].parts[b] = disk[b]
  <1>0. pkg \in [Targets -> Package]
    BY DEF TypeOK, DiskTypeOK
  <1>1. CASE PackageToolchain
    <2>1. PICK j \in Targets : PackageBegin(j) \/ PackageEnd(j) \/ TarBegin(j) \/ TarEnd(j)
      BY <1>1 DEF PackageToolchain
    <2>2. CASE j # k
      BY <1>0, <2>1, <2>2 DEF PackageBegin, PackageEnd, TarBegin, TarEnd
    <2>3. CASE j = k /\ PackageBegin(k)
      <3>1. pkg'[k] = [NoPackage EXCEPT !.st = "partial", !.run = run]
        BY <1>0, <2>3 DEF PackageBegin
      <3>2. ~pkg'[k].fresh /\ pkg'[k].parts = [b \in Builders |-> Absent]
        BY <3>1 DEF NoPackage
      <3> QED
        BY <3>2
    <2>4. CASE j = k /\ PackageEnd(k)
      <3> DEFINE P == [b \in Builders |-> IF b \in InstallTree(k) THEN disk[b] ELSE Absent]
      <3>1. /\ pkg'[k].fresh = (Main(k) \in rebuilt) /\ pkg'[k].run = run
            /\ pkg'[k].parts = P
        BY <1>0, <2>4 DEF PackageEnd
      <3>2. \A b \in InstallTree(k) : P[b] = disk[b]
        BY PackageStepFacts
      <3> QED
        BY <2>4, <3>1, <3>2
    <2>5. CASE TarBegin(j) \/ TarEnd(j)
      BY <2>5 DEF TarBegin, TarEnd
    <2> QED
      BY <2>1, <2>2, <2>3, <2>4, <2>5
  <1>2. CASE ~PackageToolchain
    <2>1. pkg' = pkg
      BY <1>2 DEF Next, Step, Finished, vars, diskVars, StartRun, PassOver, WriteSourceInfo, PlaceSources,
         LinkHeaders, Test, UseStage1, UseStage2, ExtractProfiles, CleanWindows, Build,
         BuildBegin, Compile, InstallBegin, InstallEnd, MoveClang, RunLlvmBolt, Return, FileMissing,
         ToolFails, Kill
    <2> QED
      BY <2>1
  <1> QED
    BY <1>1, <1>2

LEMMA NoStaleStep ==
    ASSUME TypeOK, DiskInv, NoStaleInPackage, [Next]_vars
    PROVE  NoStaleInPackage'
  <1> SUFFICES ASSUME NEW k \in Targets, pkg'[k].fresh,
                      NEW b \in InstallTree(k), pkg'[k].parts[b].st # "absent"
               PROVE  /\ pkg'[k].parts[b].run = pkg'[k].run
                      /\ pkg'[k].parts[b].oldest = pkg'[k].run \/ b \in Carriers
    BY DEF NoStaleInPackage
  <1>1. CASE pkg'[k] = pkg[k]
    BY <1>1 DEF NoStaleInPackage
  <1>2. CASE ~pkg'[k].fresh
    BY <1>2
  <1>3. CASE /\ PackageEnd(k)
             /\ pkg'[k].fresh = (Main(k) \in rebuilt) /\ pkg'[k].run = run
             /\ \A x \in InstallTree(k) : pkg'[k].parts[x] = disk[x]
    <2>1. Main(k) \in rebuilt
      BY <1>3
    <2>2. CASE k = "host"
      BY <1>3, <2>1, <2>2 DEF DiskInv, HostInv, OfThisRun, Main, InstallTree
    <2>3. CASE k = "windows"
      <3>1. pc \in 1 .. 37 /\ Flow[pc] = "package-windows" /\ NeedWindows(opt)
        BY <1>3, <2>3, FlowFacts DEF PackageEnd, At, Applies, PackageStep, TypeOK, ProcTypeOK,
           Runtimes, HostTree
      <3>2. pc > 27
        BY <3>1, FlowFacts
      <3> QED
        BY <1>3, <2>3, <3>1, <3>2 DEF DiskInv, WindowsInv, OfThisRun, InstallTree
    <2> QED
      BY <2>2, <2>3 DEF Targets
  <1> QED
    BY <1>1, <1>2, <1>3, PackageChange

LEMMA MatchStep ==
    ASSUME TypeOK, DiskInv, MatchOnDisk, RuntimesMatchCompiler, [Next]_vars
    PROVE  RuntimesMatchCompiler'
  <1>1. DiskMatch /\ DiskMatch'
    BY DiskInvStep DEF MatchOnDisk
  <1> SUFFICES ASSUME NEW r \in HostTree \ {"stage2"}
               PROVE  Matches(pkg'["host"].parts[r], pkg'["host"].parts["stage2"])
    BY <1>1 DEF RuntimesMatchCompiler, DiskMatch, StageRuntimes, Matches
  <1>2. "host" \in Targets /\ InstallTree("host") = HostTree
    BY DEF Targets, InstallTree
  <1>3. CASE pkg'["host"] = pkg["host"]
    BY <1>3 DEF RuntimesMatchCompiler
  <1>4. CASE \A b \in Builders : pkg'["host"].parts[b] = Absent
    BY <1>4, BuilderFacts DEF Absent, Matches
  <1>5. CASE \A b \in HostTree : pkg'["host"].parts[b] = disk[b]
    BY <1>1, <1>5, BuilderFacts DEF DiskMatch, StageRuntimes, Matches
  <1> QED
    BY <1>2, <1>3, <1>4, <1>5, PackageChange

-----------------------------------------------------------------------------
(* The theorems. *)

LEMMA PackageInit == Init => RuntimesMatchCompiler /\ NoStaleInPackage
  <1> SUFFICES ASSUME Init PROVE RuntimesMatchCompiler /\ NoStaleInPackage
    OBVIOUS
  <1>1. pkg = [k \in Targets |-> NoPackage]
    BY DEF Init
  <1>2. \A k \in Targets : pkg[k].parts = [b \in Builders |-> Absent] /\ ~pkg[k].fresh
    BY <1>1 DEF NoPackage
  <1>3. NoStaleInPackage
    BY <1>2 DEF NoStaleInPackage
  <1>4. \A b \in Builders : pkg["host"].parts[b] = Absent
    BY <1>2 DEF Targets
  <1>5. MatchOnDisk
    BY DiskInvInit
  <1>6. RuntimesMatchCompiler
    BY <1>4, <1>5, BuilderFacts
    DEF RuntimesMatchCompiler, MatchOnDisk, DiskMatch, StageRuntimes, Absent, Matches
  <1> QED
    BY <1>3, <1>6

\* No runtime library is left over from before the stage2 compiler beside it was
\* installed, and whatever of it was compiled by a stage2 since then was compiled by
\* that one, on disk and in the package: stage2 deletes the directory it shares with
\* its runtimes before it is replaced.  (What ninja had compiled before, it keeps.)
THEOREM RuntimesTheorem == Spec => []RuntimesMatchCompiler
  <1>1. Init => DiskInv /\ MatchOnDisk /\ RuntimesMatchCompiler
    BY DiskInvInit, PackageInit
  <1>2. TypeOK /\ DiskInv /\ MatchOnDisk /\ RuntimesMatchCompiler /\ [Next]_vars
          => DiskInv' /\ MatchOnDisk' /\ RuntimesMatchCompiler'
    BY DiskInvStep, MatchStep
  <1> QED
    BY <1>1, <1>2, TypeCorrect, PTL DEF Spec

\* A package made by a run that built its main compiler holds no product of an
\* earlier run, however the earlier runs ended and whatever they built; and a file of
\* an earlier run only if compiler-rt or tsan found it in a temporary directory.
THEOREM NoStaleTheorem == Spec => []NoStaleInPackage
  <1>1. Init => DiskInv /\ MatchOnDisk /\ NoStaleInPackage
    BY DiskInvInit, PackageInit
  <1>2. TypeOK /\ DiskInv /\ MatchOnDisk /\ NoStaleInPackage /\ [Next]_vars
          => DiskInv' /\ MatchOnDisk' /\ NoStaleInPackage'
    BY DiskInvStep, NoStaleStep
  <1> QED
    BY <1>1, <1>2, TypeCorrect, PTL DEF Spec

=============================================================================
