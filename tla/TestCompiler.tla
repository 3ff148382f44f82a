---------------------------- MODULE TestCompiler ----------------------------
(***************************************************************************)
(* do_test_compiler.py: a toolchain (given, unpacked from a package, or built by *)
(* build.py) is linked into an Android tree as clang-dev, and Android is built   *)
(* with it: one target only, with profiles of the compiler collected if wanted,  *)
(* or the target of every connected device, which is then flashed.              *)
(*                                                                         *)
(* External: adb, lunch and soong_ui.bash, which may fail for any target;        *)
(* build.py is BuildPipeline.                                                  *)
(***************************************************************************)
EXTENDS Naturals, Sequences

CONSTANTS
    Devices,
    NoDevice,   \* stands for the one target of --build-only; not a device
    MaxRuns     \* bound on the runs after the first

VARIABLES
    args,
    sourced,    \* ANDROID_PRODUCT_OUT is set in the shell that starts the program
    pc,
    extracted,  \* OUT_DIR/extracted: "none", "partial" or "whole"
    clangDev,   \* prebuilts/clang/host/linux-x86/clang-dev of the Android tree: "none", "old",
                \* or the kind of toolchain it was linked to last
    todo,       \* the devices that are left, the current one first
    built,      \* of each device: "not tried", "skipped", "failed" or "flashed"
    onDisk,     \* devices whose product is on disk
    profile,    \* of the compiler: "none", "raw", "merged" or "archived"
    runs

vars == << args, sourced, pc, extracted, clangDev, todo, built, onDisk, profile, runs >>
disk == << extracted, clangDev, onDisk, profile >>

\* What parse_args lets pass: not both ways to give a toolchain, a target with
\* --build-only, one kind of profile.  Options that only become flags are left out.
Args == [clang : {"path", "package", "build"}, buildOnly : BOOLEAN,
         collect : {"nothing", "pgo", "bolt"}, keepGoing : BOOLEAN, clean : BOOLEAN]

Init ==
    /\ args \in Args /\ sourced \in BOOLEAN
    /\ pc = "start" /\ runs = 0
    /\ extracted \in {"none", "partial", "whole"} /\ clangDev \in {"none", "old"}
    /\ todo = << >> /\ built = [d \in Devices |-> "not tried"]
    /\ onDisk = {} /\ profile = "none"

Goto(step) == pc' = step /\ UNCHANGED << args, sourced, runs >>
\* An exception that nothing catches.
Abort == Goto("end")

-----------------------------------------------------------------------------
(* The toolchain. *)

\* --clang-path.
UseGiven ==
    /\ pc = "start" /\ args.clang = "path" /\ Goto("version")
    /\ UNCHANGED << disk, todo, built >>

\* Exactly one archive must be found; the old copy is removed, the archive unpacked, and
\* it must hold exactly one directory.
ExtractPackaged ==
    /\ pc = "start" /\ args.clang = "package"
    /\ \/ extracted' = "whole" /\ Goto("version")
       \/ extracted' = "partial" /\ Abort
       \/ UNCHANGED extracted /\ Abort
    /\ UNCHANGED << clangDev, todo, built, onDisk, profile >>

\* build.py, instrumented if profiles are to be collected.
Build ==
    /\ pc = "start" /\ args.clang = "build"
    /\ Goto("version") \/ Abort
    /\ UNCHANGED << disk, todo, built >>

\* Version.inc must be there.
ReadVersion ==
    /\ pc = "version"
    /\ Goto("link") \/ Abort
    /\ UNCHANGED << disk, todo, built >>

\* What is there, a link or a directory, is replaced.
LinkClang ==
    /\ pc = "link" /\ clangDev' = args.clang
    /\ Goto(IF args.buildOnly THEN "lunch" ELSE "list")
    /\ UNCHANGED << extracted, todo, built, onDisk, profile >>

-----------------------------------------------------------------------------
(* --build-only *)

\* build_target first runs lunch, in a shell of its own whose environment is kept for make.
Lunch ==
    /\ pc = "lunch"
    /\ Goto("make") \/ Abort
    /\ UNCHANGED << disk, todo, built >>

Make ==
    /\ pc = "make"
    /\ \/ /\ onDisk' = onDisk \cup {NoDevice}
          /\ profile' = IF args.collect = "nothing" THEN profile ELSE "raw"
          /\ Goto(IF args.collect = "nothing" THEN "end" ELSE "merge")
       \/ Abort /\ UNCHANGED << onDisk, profile >>
    /\ UNCHANGED << extracted, clangDev, todo, built >>

\* mergeProfiles: the tool of stage1 (pgo) or stage2 (bolt) merges, tar archives.
MergeProfiles ==
    /\ pc = "merge"
    /\ \/ profile' = "merged" /\ Goto("archive")
       \/ Abort /\ UNCHANGED profile
    /\ UNCHANGED << extracted, clangDev, todo, built, onDisk >>

ArchiveProfile ==
    /\ pc = "archive"
    /\ \/ profile' = "archived" /\ Goto("end")
       \/ Abort /\ UNCHANGED profile
    /\ UNCHANGED << extracted, clangDev, todo, built, onDisk >>

-----------------------------------------------------------------------------
(* Every connected device *)

\* get_connected_device_list: none if adb fails.
ListDevices ==
    /\ pc = "list"
    /\ todo' \in UNION {{s \in [1 .. n -> Devices] : \A i, j \in 1 .. n : s[i] = s[j] => i = j}
                        : n \in 0 .. 2}
    /\ Goto("device")
    /\ UNCHANGED << disk, built >>

\* test_device begins; one that is not connected correctly counts as good, and one that adb
\* does not describe as <label>:<target> is a ValueError.
NextDevice ==
    /\ pc = "device"
    /\ IF todo = << >> THEN Goto("end") /\ UNCHANGED << todo, built >>
       ELSE \/ Goto("build device") /\ UNCHANGED << todo, built >>
            \/ Abort /\ UNCHANGED << todo, built >>
            \/ /\ built' = [built EXCEPT ![Head(todo)] = "skipped"]
               /\ todo' = Tail(todo) /\ Goto("device")
    /\ UNCHANGED disk

\* build_target: a lunch that fails is raised again as a RuntimeError, which test_device
\* does not catch; a make that fails is a CalledProcessError, which it does.
BuildDevice ==
    /\ pc = "build device"
    /\ \/ /\ built' = [built EXCEPT ![Head(todo)] = "failed"]
          /\ Abort /\ UNCHANGED onDisk
       \/ /\ onDisk' = onDisk \cup {Head(todo)}
          /\ \/ Goto("flash") /\ UNCHANGED built
             \/ built' = [built EXCEPT ![Head(todo)] = "failed"] /\ Goto("clean")
    /\ UNCHANGED << extracted, clangDev, todo, profile >>

\* adb and fastboot, or flashall.
Flash ==
    /\ pc = "flash"
    /\ \E outcome \in {"flashed", "failed"} : built' = [built EXCEPT ![Head(todo)] = outcome]
    /\ Goto("clean")
    /\ UNCHANGED << disk, todo >>

\* rm_current_product_out looks for ANDROID_PRODUCT_OUT in the environment of the program,
\* not of lunch, and calls a method that a Path does not have.  Then main goes on, or not.
CleanDevice ==
    /\ pc = "clean"
    /\ IF args.clean /\ sourced THEN Abort /\ UNCHANGED todo
       ELSE /\ todo' = Tail(todo)
            /\ Goto(IF built[Head(todo)] = "failed" /\ ~args.keepGoing THEN "end" ELSE "device")
    /\ UNCHANGED << disk, built >>

Restart ==
    /\ pc = "end" /\ runs < MaxRuns /\ runs' = runs + 1 /\ pc' = "start"
    /\ args' \in Args /\ UNCHANGED sourced
    /\ todo' = << >> /\ built' = [d \in Devices |-> "not tried"]
    /\ UNCHANGED disk

Next ==
    \/ UseGiven \/ ExtractPackaged \/ Build \/ ReadVersion \/ LinkClang
    \/ Lunch \/ Make \/ MergeProfiles \/ ArchiveProfile
    \/ ListDevices \/ NextDevice \/ BuildDevice \/ Flash \/ CleanDevice \/ Restart

Spec == Init /\ [][Next]_vars

-----------------------------------------------------------------------------
(* Properties. *)

\* --keep-going: 'Keep going when some targets cannot be built.'  A run with it does not
\* end at the target of one device, because that failed, while those of others are left.
KeepsGoing ==
    pc = "end" /\ args.keepGoing /\ todo # << >> /\ built[Head(todo)] = "failed" => Len(todo) = 1
=============================================================================
