-------------------------- MODULE UpdatePrebuilts --------------------------
(***************************************************************************)
(* update-prebuilts.py and remove-prebuilts.py: a build of the toolchain is  *)
(* fetched, unpacked, checked and committed in three git repositories, one    *)
(* per host, and then uploaded from all of them; an unused version is removed  *)
(* in the same way.  A run fails or is stopped anywhere and another one, of    *)
(* the same or of another build, with other flags, starts from what it left.  *)
(*                                                                         *)
(* All builds here have the same svn revision, hence the same clang-<rev>      *)
(* directory: that is when they meet.  External: git, repo, tar, the build     *)
(* server, and the submission of what was uploaded.                          *)
(***************************************************************************)
EXTENDS Naturals, Sequences, SequencesExt

CONSTANTS
    Builds,      \* build numbers
    Profiled,    \* the builds whose Linux clang passes validity_check
    HostChoices, \* the values of hosts: all of them, or the one of --host
    MaxRuns,     \* bound on the runs
    MaxStops,    \* bound on the runs that are stopped or find nothing to fetch
    MaxSubmits   \* bound on the submissions

AllHosts == << "darwin-x86", "linux-x86", "windows-x86" >>   \* in the order of targets_map
Hosts == ToSet(AllHosts)
Packages == Hosts \cup {"linux_musl"}

ASSUME ConstantsAssumption ==
    /\ Profiled \subseteq Builds
    /\ HostChoices \subseteq {AllHosts} \cup {<< h >> : h \in Hosts}
    /\ MaxRuns \in Nat /\ MaxStops \in Nat /\ MaxSubmits \in Nat

VARIABLES
    run,        \* the arguments of the run
    pc, at,     \* its next step, and the index in hosts it is at
    download,   \* .download
    extract,    \* clang-<build> in each repository
    tree,       \* clang-<revision> in each working tree
    index,      \* ... in the index of git
    tip,        \* ... in the commit that is checked out
    branch,     \* the branch that is checked out
    base,       \* clang-<revision> in the revision of the manifest
    uploaded,   \* ... in the last upload of each repository
    mixed,      \* where, and of which build, a musl extraction was once left behind
    cut,        \* the repositories where a run was once stopped after it deleted the directory
    runs, stops, submits

repos == << extract, tree, index, tip, branch, base >>
counters == << runs, stops, submits >>
vars == << run, pc, at, download, repos, uploaded, mixed, cut, counters >>

\* An install directory.  main and musl are what was unpacked into it, and "half" says
\* that not all of it is there; link is the resource directory of Linux.
NoDir == [build |-> "none", main |-> {}, musl |-> {}, link |-> FALSE, manifest |-> FALSE]
Dirs == [build : Builds \cup {"none"}, main : SUBSET {"clang", "musl", "half"},
         musl : SUBSET {"musl", "half"}, link : BOOLEAN, manifest : BOOLEAN]

Arguments == [kind : {"none", "update", "remove"}, build : Builds \cup {"none"},
              hosts : HostChoices \cup {AllHosts, << >>},
              overwrite : BOOLEAN, current : BOOLEAN, check : BOOLEAN]
NoRun == [kind |-> "none", build |-> "none", hosts |-> << >>, overwrite |-> FALSE,
          current |-> FALSE, check |-> FALSE]
Uploads == [dir : Dirs, kind : {"none", "update", "remove"}, checked : BOOLEAN]
NoUpload == [dir |-> NoDir, kind |-> "none", checked |-> FALSE]

TypeOK ==
    /\ run \in Arguments
    /\ at \in 1 .. Len(AllHosts)
    /\ pc \in { "idle", "fetch", "branch", "extract", "install", "extract-musl",
                "install-musl", "link", "check", "add", "commit", "remove", "git-rm",
                "commit-removal", "blocked", "upload", "end" }
    /\ download \in [build : Builds \cup {"none"}, has : SUBSET Packages]
    /\ extract \in [Hosts -> [Builds -> SUBSET {"clang", "musl", "half"}]]
    /\ tree \in [Hosts -> Dirs] /\ index \in [Hosts -> Dirs]
    /\ tip \in [Hosts -> Dirs] /\ base \in [Hosts -> Dirs]
    /\ branch \in [Hosts -> Builds \cup {"manifest", "remove"}]
    /\ uploaded \in [Hosts -> Uploads]
    /\ mixed \in [Hosts -> SUBSET Builds] /\ cut \subseteq Hosts
    /\ runs \in 0 .. MaxRuns /\ stops \in 0 .. MaxStops /\ submits \in 0 .. MaxSubmits

NoDownload == [build |-> "none", has |-> {}]
Everywhere(x) == [h \in Hosts |-> x]

Init ==
    /\ run = NoRun /\ pc = "idle" /\ at = 1 /\ download = NoDownload
    /\ extract = Everywhere([b \in Builds |-> {}])
    /\ tree = Everywhere(NoDir) /\ index = Everywhere(NoDir) /\ tip = Everywhere(NoDir)
    /\ base = Everywhere(NoDir) /\ branch = Everywhere("manifest")
    /\ uploaded = Everywhere(NoUpload)
    /\ mixed = Everywhere({}) /\ cut = {}
    /\ runs = 0 /\ stops = 0 /\ submits = 0

-----------------------------------------------------------------------------
(* The steps that both programs have. *)

Host == run.hosts[at]
Goto(step) == pc' = step /\ UNCHANGED << run, at, uploaded, mixed, cut, counters >>

\* sys.exit and exceptions too: .download is removed, unless --skip-cleanup is given.
Exit ==
    /\ pc' = "idle" /\ at' = 1 /\ run' = NoRun
    /\ download' \in {download} \cup (IF run.kind = "update" THEN {NoDownload} ELSE {})
    /\ UNCHANGED << uploaded, mixed, cut, counters >>

\* git checkout of the manifest's revision is refused if a committed file was changed
\* since, or an uncommitted one is in the way; where there is nothing to change, what was
\* not committed is carried over.
Within(d, e) ==
    d = NoDir \/ (d.build = e.build /\ d.main \ {"half"} \subseteq e.main /\ d.musl \subseteq e.musl
                  /\ (d.link => e.link) /\ (d.manifest => e.manifest))
Refused(h) == tip[h] # base[h] /\ ~(Within(tree[h], tip[h]) /\ index[h] = tip[h])
CheckedOut(h, d) == IF tip[h] = base[h] THEN d ELSE base[h]

NewBranch == IF run.kind = "update" THEN run.build ELSE "remove"

\* repo abandon, whose result is not looked at, and repo start.  A refused checkout stays
\* on the branch that should have been abandoned: repo start is content with that.
Branch ==
    /\ pc = "branch"
    /\ LET h == Host
           next == IF run.kind = "update" THEN "extract" ELSE "remove"
       IN \/ /\ run.current \/ (Refused(h) /\ branch[h] = NewBranch)
             /\ Goto(next)
             /\ UNCHANGED << repos, download >>
          \/ /\ ~run.current /\ Refused(h) /\ branch[h] # NewBranch
             /\ Exit
             /\ UNCHANGED repos
          \/ /\ ~run.current /\ ~Refused(h)
             /\ branch' = [branch EXCEPT ![h] = NewBranch]
             /\ tip' = [tip EXCEPT ![h] = base[h]]
             /\ tree' = [tree EXCEPT ![h] = CheckedOut(h, @)]
             /\ index' = [index EXCEPT ![h] = CheckedOut(h, @)]
             /\ Goto(next)
             /\ UNCHANGED << extract, base, download >>

\* git commit of what is in the index; then the next host, or the uploads.
CommitIndex ==
    /\ tip' = [tip EXCEPT ![Host] = index[Host]]
    /\ IF at < Len(run.hosts)
       THEN at' = at + 1 /\ pc' = "branch"
       ELSE at' = 1 /\ pc' \in {"upload", "end"}
    /\ UNCHANGED << run, download, extract, tree, index, branch, base, uploaded, mixed, cut, counters >>

\* prebuilt_repo_upload: where there is no commit there is nothing to upload.
Upload ==
    /\ pc = "upload"
    /\ uploaded' = IF tip[Host] = base[Host] THEN uploaded
                   ELSE [uploaded EXCEPT ![Host] =
                            [dir |-> tip[Host], kind |-> run.kind, checked |-> run.check]]
    /\ IF at < Len(run.hosts) THEN at' = at + 1 /\ pc' = pc ELSE at' = 1 /\ pc' = "end"
    /\ UNCHANGED << run, download, repos, mixed, cut, counters >>

End == pc = "end" /\ Exit /\ UNCHANGED repos

-----------------------------------------------------------------------------
(* update-prebuilts.py *)

StartUpdate ==
    /\ pc = "idle" /\ runs < MaxRuns /\ runs' = runs + 1
    /\ run' \in [kind : {"update"}, build : Builds, hosts : HostChoices,
                 overwrite : BOOLEAN, current : BOOLEAN, check : BOOLEAN]
    /\ \/ pc' = "fetch"
       \/ pc' = "branch" /\ download # NoDownload   \* --skip-fetch
    /\ UNCHANGED << at, download, repos, uploaded, mixed, cut, stops, submits >>

Wanted == ToSet(run.hosts) \cup
          (IF "linux-x86" \in ToSet(run.hosts) THEN {"linux_musl"} ELSE {})

Fetch ==
    /\ pc = "fetch"
    /\ download' = [build |-> run.build, has |-> Wanted]
    /\ Goto("branch")
    /\ UNCHANGED repos

\* The server has not built all of it: what was fetched before, in the order of targets,
\* stays there with --skip-cleanup.
FetchFails ==
    /\ pc = "fetch" /\ stops < MaxStops /\ stops' = stops + 1
    /\ \E n \in 0 .. Len(run.hosts) :
           download' \in {NoDownload,
                          [build |-> run.build, has |-> ToSet(SubSeq(run.hosts, 1, n))]}
    /\ pc' = "idle" /\ at' = 1 /\ run' = NoRun
    /\ UNCHANGED << repos, uploaded, mixed, cut, runs, submits >>

Has(package) == download.build = run.build /\ package \in download.has
NoPackage(package) == ~Has(package) /\ Exit /\ UNCHANGED repos

\* tar writes over what an earlier run may have left in clang-<build>.
Unpack(what) == extract' = [extract EXCEPT ![Host][run.build] = (@ \ {"half"}) \cup {what}]

\* Faulty variant: what is already there is not unpacked again.
ExtractOnce ==
    /\ pc = "extract"
    /\ \/ /\ Has(Host)
          /\ IF extract[Host][run.build] = {} THEN Unpack("clang") ELSE UNCHANGED extract
          /\ Goto("install")
          /\ UNCHANGED << download, tree, index, tip, branch, base >>
       \/ NoPackage(Host)

Extract ==
    /\ pc = "extract"
    /\ \/ /\ Has(Host)
          /\ Unpack("clang")
          /\ Goto("install")
          /\ UNCHANGED << download, tree, index, tip, branch, base >>
       \/ NoPackage(Host)

\* Faulty variant: a directory that is there is taken for the result of the same update.
ReplaceKeeps ==
    /\ pc = "install" /\ tree[Host] # NoDir
    /\ IF run.overwrite
       THEN /\ tree' = [tree EXCEPT ![Host] = NoDir]
            /\ Goto("install")
       ELSE Goto("add") /\ UNCHANGED tree
    /\ UNCHANGED << download, extract, index, tip, branch, base >>

\* install_clang_directory
Replace ==
    /\ pc = "install" /\ tree[Host] # NoDir
    /\ \/ /\ run.overwrite
          /\ tree' = [tree EXCEPT ![Host] = NoDir]
          /\ Goto("install")
          /\ UNCHANGED << download, extract, index, tip, branch, base >>
       \/ /\ ~run.overwrite
          /\ Exit
          /\ UNCHANGED repos

Install ==
    /\ pc = "install" /\ tree[Host] = NoDir
    /\ tree' = [tree EXCEPT ![Host] =
                   [NoDir EXCEPT !.build = run.build, !.main = extract[Host][run.build]]]
    /\ extract' = [extract EXCEPT ![Host][run.build] = {}]
    /\ Goto(CASE Host = "linux-x86" -> "extract-musl"
              [] Host = "darwin-x86" -> "link"
              [] OTHER -> "check")
    /\ UNCHANGED << download, index, tip, branch, base >>

\* Faulty variant: all of the musl package is unpacked.
ExtractMuslWhole ==
    /\ pc = "extract-musl"
    /\ \/ /\ Has("linux_musl")
          /\ Unpack("clang")
          /\ Goto("install-musl")
          /\ UNCHANGED << download, tree, index, tip, branch, base >>
       \/ NoPackage("linux_musl")

ExtractMusl ==
    /\ pc = "extract-musl"
    /\ \/ /\ Has("linux_musl")
          /\ Unpack("musl")
          /\ Goto("install-musl")
          /\ UNCHANGED << download, tree, index, tip, branch, base >>
       \/ NoPackage("linux_musl")

\* Faulty variant: the libraries are copied, not moved.
InstallMuslCopies ==
    /\ pc = "install-musl"
    /\ tree' = [tree EXCEPT ![Host].musl = extract[Host][run.build]]
    /\ Goto("check")
    /\ UNCHANGED << download, extract, index, tip, branch, base >>

InstallMusl ==
    /\ pc = "install-musl"
    /\ tree' = [tree EXCEPT ![Host].musl = extract[Host][run.build]]
    /\ extract' = [extract EXCEPT ![Host][run.build] = {}]
    /\ Goto("check")
    /\ UNCHANGED << download, index, tip, branch, base >>

\* symlink_to_linux_resource_dir
Link ==
    /\ pc = "link"
    /\ tree' = [tree EXCEPT ![Host].link = TRUE]
    /\ Goto("check")
    /\ UNCHANGED << download, extract, index, tip, branch, base >>

\* Faulty variant: where the check fails the host is passed over.
CheckPassesOver ==
    /\ pc = "check"
    /\ IF run.check /\ Host = "linux-x86" /\ run.build \notin Profiled
       THEN /\ IF at < Len(run.hosts) THEN at' = at + 1 /\ pc' = "branch"
               ELSE at' = 1 /\ pc' = "upload"
            /\ UNCHANGED << run, uploaded, mixed, cut, counters >>
       ELSE Goto("add")
    /\ UNCHANGED << repos, download >>

\* Faulty variant: where the check fails the directory is removed again.
CheckCleansUp ==
    /\ pc = "check"
    /\ IF run.check /\ Host = "linux-x86" /\ run.build \notin Profiled
       THEN Exit /\ tree' = [tree EXCEPT ![Host] = NoDir]
       ELSE Goto("add") /\ UNCHANGED << download, tree >>
    /\ UNCHANGED << extract, index, tip, branch, base >>

\* validity_check only looks at the Linux toolchain.
Check ==
    /\ pc = "check"
    /\ IF run.check /\ Host = "linux-x86" /\ run.build \notin Profiled
       THEN Exit
       ELSE Goto("add") /\ UNCHANGED download
    /\ UNCHANGED repos

\* The manifest is copied into the directory, then git add.
Add ==
    /\ pc = "add"
    /\ tree' = [tree EXCEPT ![Host].manifest = TRUE]
    /\ index' = [index EXCEPT ![Host] = tree'[Host]]
    /\ Goto("commit")
    /\ UNCHANGED << download, extract, tip, branch, base >>

\* Nothing is committed where there is no difference.
Commit == pc = "commit" /\ CommitIndex

-----------------------------------------------------------------------------
(* remove-prebuilts.py *)

StartRemove ==
    /\ pc = "idle" /\ runs < MaxRuns /\ runs' = runs + 1
    /\ \E current \in BOOLEAN :
           run' = [NoRun EXCEPT !.kind = "remove", !.hosts = AllHosts, !.current = current]
    /\ pc' = "branch"
    /\ UNCHANGED << at, download, repos, uploaded, mixed, cut, stops, submits >>

\* assert clang_dir.is_dir()
RemoveDir ==
    /\ pc = "remove" /\ tree[Host] # NoDir
    /\ tree' = [tree EXCEPT ![Host] = NoDir]
    /\ Goto("git-rm")
    /\ UNCHANGED << download, extract, index, tip, branch, base >>

NothingToRemove ==
    /\ pc = "remove" /\ tree[Host] = NoDir
    /\ Goto("blocked")
    /\ UNCHANGED << download, repos >>

\* git rm finds nothing if the directory was never added.
GitRm ==
    /\ pc = "git-rm"
    /\ IF index[Host] = NoDir THEN Exit ELSE Goto("commit-removal") /\ UNCHANGED download
    /\ index' = [index EXCEPT ![Host] = NoDir]
    /\ UNCHANGED << extract, tree, tip, branch, base >>

\* git commit fails when nothing is staged.
CommitRemoval ==
    /\ pc = "commit-removal"
    /\ IF tip[Host] = NoDir THEN Exit /\ UNCHANGED repos ELSE CommitIndex

Blocked == pc = "blocked" /\ Exit /\ UNCHANGED repos

-----------------------------------------------------------------------------
(* The world around them. *)

\* A run is stopped: what it was unpacking or removing is half done.
Stop ==
    /\ pc # "idle" /\ stops < MaxStops /\ stops' = stops + 1
    /\ pc' = "idle" /\ at' = 1 /\ run' = NoRun
    /\ download' \in {download, NoDownload}
    /\ extract' \in {extract} \cup
           (IF pc \in {"extract", "extract-musl"} /\ extract[Host][run.build] = {}
            THEN {[extract EXCEPT ![Host][run.build] =
                      {"half"} \cup (IF pc = "extract-musl" THEN {"musl"} ELSE {})]}
            ELSE {})
    /\ tree' \in {tree} \cup
           (IF (pc = "install" \/ pc = "remove") /\ tree[Host] # NoDir
               /\ (run.overwrite \/ run.kind = "remove")
            THEN {[tree EXCEPT ![Host].main = @ \cup {"half"}]} ELSE {})
    /\ mixed' = IF pc \in {"extract-musl", "install-musl"}
                THEN [mixed EXCEPT ![Host] = @ \cup {run.build}] ELSE mixed
    /\ cut' = IF pc \in {"install", "remove", "git-rm", "commit-removal"} THEN cut \cup {Host} ELSE cut
    /\ UNCHANGED << index, tip, branch, base, uploaded, runs, submits >>

\* The changes of one topic are submitted together; then the tree is cleaned and synced.
Submit ==
    /\ pc = "idle" /\ submits < MaxSubmits /\ submits' = submits + 1
    /\ \E kind \in {"update", "remove"} : \A h \in Hosts : uploaded[h].kind = kind
    /\ base' = [h \in Hosts |-> uploaded[h].dir]
    /\ tree' = base' /\ index' = base' /\ tip' = base'
    /\ branch' = Everywhere("manifest")
    /\ uploaded' = Everywhere(NoUpload)
    /\ UNCHANGED << run, pc, at, download, extract, mixed, cut, runs, stops >>

Next ==
    \/ StartUpdate \/ Fetch \/ FetchFails \/ Branch \/ Extract \/ Replace \/ Install
    \/ ExtractMusl \/ InstallMusl \/ Link \/ Check \/ Add \/ Commit
    \/ StartRemove \/ RemoveDir \/ NothingToRemove \/ GitRm \/ CommitRemoval \/ Blocked
    \/ Upload \/ End \/ Stop \/ Submit

Spec == Init /\ [][Next]_vars

-----------------------------------------------------------------------------
(* Properties. *)

Whole(h, d) ==
    /\ "clang" \in d.main /\ "half" \notin d.main /\ d.manifest
    /\ h = "linux-x86" => d.musl = {"musl"}
    /\ h = "darwin-x86" => d.link

\* A toolchain is uploaded with all its parts - the libraries of musl for Linux, the
\* resource directory for Darwin, the manifest - whatever half unpacked, half removed or
\* half fetched directories earlier runs left.
UploadedIsWhole ==
    \A h \in Hosts : uploaded[h].kind = "update" => Whole(h, uploaded[h].dir)

\* Nothing is uploaded before every repository of the run has its commit, and these are
\* of one build: a run that fails in the second of three repositories uploads nothing.
AllOrNothing ==
    pc = "upload" =>
        \A h \in ToSet(run.hosts) :
            IF run.kind = "remove" THEN tip[h] = NoDir
            ELSE tip[h].build = run.build /\ tip[h].manifest

\* A Linux clang without profiles is only uploaded by a run that did not want the check,
\* although the check comes after the directory has been installed and later runs find it.
UploadedIsChecked ==
    LET up == uploaded["linux-x86"]
    IN up.kind = "update" /\ up.checked => up.dir.build \in Profiled

\* libraries of musl get among those of glibc in one way only: a run that was stopped
\* between the two steps that unpack them and move them away.
MixedOnlyAfterStop ==
    \A h \in Hosts :
        "musl" \in tip[h].main => tip[h].build \in mixed[h]

\* The assertion of remove_prebuilt ("doesn't exist") means that the commit it starts from
\* has no such directory, or that a run - a removal, or an update that overwrites - was once
\* stopped in this repository between deleting the directory and committing: no removal
\* brings the repositories out of that state again.
BlockedOnlyAfterStop ==
    pc = "blocked" => tip[Host] = NoDir \/ Host \in cut
=============================================================================
