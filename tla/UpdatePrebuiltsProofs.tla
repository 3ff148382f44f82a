----------------------- MODULE UpdatePrebuiltsProofs -----------------------
(***************************************************************************)
(* Proofs about UpdatePrebuilts, for every set of builds and of --host        *)
(* choices and any number of runs, stops and submissions.                   *)
(***************************************************************************)
EXTENDS UpdatePrebuilts, TLAPS

-----------------------------------------------------------------------------
(* The inductive invariant. *)

Fresh == extract[Host][run.build]
UpdateSteps == { "fetch", "extract", "install", "extract-musl", "install-musl", "link",
                 "check", "add", "commit" }
RemoveSteps == { "remove", "git-rm", "commit-removal", "blocked" }

\* The hosts a program goes through: remove-prebuilts.py has no --host.
HostLists == HostChoices \cup {AllHosts}

\* The arguments suit the step.
RunInv ==
    /\ pc = "idle" <=> run = NoRun
    /\ pc = "idle" => at = 1
    /\ pc # "idle" => /\ run.hosts \in HostLists /\ at \in 1 .. Len(run.hosts)
                      /\ run.kind \in {"update", "remove"}
                      /\ run.kind = "update" => run.build \in Builds
    /\ pc \in UpdateSteps => run.kind = "update"
    /\ pc \in RemoveSteps => run.kind = "remove"

\* What is unpacked when it is moved.
ExtractInv ==
    /\ pc = "install" => "clang" \in Fresh /\ "half" \notin Fresh
    /\ pc = "extract-musl" => Fresh = {}
    /\ pc = "install-musl" => Fresh = {"musl"}
    /\ pc \in {"extract-musl", "install-musl"} => Host = "linux-x86"
    /\ pc = "link" => Host = "darwin-x86"

\* What this run has put together in the repository it is at.
TreeInv ==
    /\ pc \in {"extract-musl", "install-musl", "link", "check", "add", "commit"} =>
           /\ tree[Host].build = run.build
           /\ "clang" \in tree[Host].main /\ "half" \notin tree[Host].main
    /\ pc \in {"check", "add", "commit"} =>
           /\ Host = "linux-x86" => tree[Host].musl = {"musl"}
           /\ Host = "darwin-x86" => tree[Host].link
    /\ pc \in {"add", "commit"} /\ run.check /\ Host = "linux-x86" => run.build \in Profiled
    /\ pc = "commit" => index[Host] = tree[Host] /\ tree[Host].manifest
    /\ pc = "commit-removal" => index[Host] = NoDir

\* What this run has committed.
Committed(h) ==
    IF run.kind = "remove" THEN tip[h] = NoDir
    ELSE /\ Whole(h, tip[h]) /\ tip[h].build = run.build
         /\ run.check /\ h = "linux-x86" => run.build \in Profiled

CommitInv ==
    pc # "idle" => \A j \in 1 .. Len(run.hosts) :
                       j < at \/ pc = "upload" => Committed(run.hosts[j])

\* libraries of musl among those of glibc.
Unmixed(d, h) == "musl" \in d.main => d.build \in mixed[h]

MixAt(h) ==
    /\ Unmixed(tree[h], h) /\ Unmixed(index[h], h) /\ Unmixed(tip[h], h)
    /\ Unmixed(base[h], h) /\ Unmixed(uploaded[h].dir, h)
    /\ \A b \in Builds : "musl" \in extract[h][b] =>
           b \in mixed[h] \/ (pc = "install-musl" /\ Host = h /\ b = run.build)
MixInv == \A h \in Hosts : MixAt(h)

\* A directory is only gone from the working tree or the index, and not from the commit,
\* where a run is between the deletion and the commit, or was stopped there.
CutAt(h) ==
    /\ tree[h] = NoDir => \/ tip[h] = NoDir \/ h \in cut
                          \/ pc \in {"install", "git-rm", "commit-removal"} /\ Host = h
    /\ index[h] = NoDir => \/ tip[h] = NoDir \/ h \in cut
                           \/ pc = "commit-removal" /\ Host = h
CutInv == (\A h \in Hosts : CutAt(h)) /\ BlockedOnlyAfterStop

UpInv == /\ RunInv /\ ExtractInv /\ TreeInv /\ CommitInv /\ MixInv /\ CutInv
         /\ UploadedIsWhole /\ UploadedIsChecked

-----------------------------------------------------------------------------
(* Hosts and directories. *)

LEMMA HostsFacts ==
    /\ Hosts = {"darwin-x86", "linux-x86", "windows-x86"}
    /\ Len(AllHosts) = 3
    /\ \A s \in HostLists :
         /\ s \in Seq(Hosts) /\ Len(s) \in 1 .. 3
         /\ ToSet(s) = {s[i] : i \in 1 .. Len(s)}
         /\ \A i \in 1 .. Len(s) : s[i] \in Hosts
         /\ \A i, j \in 1 .. Len(s) : s[i] = s[j] => i = j
  <1>1. /\ AllHosts \in Seq({"darwin-x86", "linux-x86", "windows-x86"}) /\ Len(AllHosts) = 3
        /\ AllHosts[1] = "darwin-x86" /\ AllHosts[2] = "linux-x86" /\ AllHosts[3] = "windows-x86"
        /\ DOMAIN AllHosts = 1 .. 3
    BY DEF AllHosts
  <1>2. Hosts = {"darwin-x86", "linux-x86", "windows-x86"}
    BY <1>1 DEF Hosts, ToSet
  <1>3. ASSUME NEW s \in HostLists
        PROVE  s = AllHosts \/ \E h \in Hosts : s = << h >>
    BY ConstantsAssumption DEF HostLists
  <1>4. \A i, j \in 1 .. 3 : AllHosts[i] = AllHosts[j] => i = j
    BY <1>1
  <1>5. ASSUME NEW h \in Hosts
        PROVE  << h >> \in Seq(Hosts) /\ Len(<< h >>) = 1 /\ << h >>[1] = h
    OBVIOUS
  <1>6. ASSUME NEW s \in HostLists
        PROVE  /\ s \in Seq(Hosts) /\ Len(s) \in 1 .. 3
               /\ \A i, j \in 1 .. Len(s) : s[i] = s[j] => i = j
    <2>1. CASE s = AllHosts
      <3>1. AllHosts \in Seq(Hosts) /\ Len(AllHosts) \in 1 .. 3
        BY <1>1, <1>2
      <3>2. \A i, j \in 1 .. Len(AllHosts) : AllHosts[i] = AllHosts[j] => i = j
        BY <1>1, <1>4
      <3> QED
        BY <2>1, <3>1, <3>2
    <2>2. CASE \E h \in Hosts : s = << h >>
      <3>1. PICK h \in Hosts : s = << h >>
        BY <2>2
      <3>2. s \in Seq(Hosts) /\ Len(s) = 1
        BY <1>5, <3>1
      <3> QED
        BY <3>2
    <2> QED
      BY <1>3, <1>6, <2>1, <2>2
  <1>7. ASSUME NEW s \in HostLists
        PROVE  /\ ToSet(s) = {s[i] : i \in 1 .. Len(s)}
               /\ \A i \in 1 .. Len(s) : s[i] \in Hosts
    BY <1>6 DEF ToSet
  <1> QED
    BY <1>1, <1>2, <1>6, <1>7

LEMMA NextHost ==
    ASSUME NEW n \in 1 .. 3, NEW a \in 1 .. n, a < n
    PROVE  a + 1 \in 1 .. 3
  OBVIOUS

LEMMA HostCount == Len(AllHosts) = 3
  BY HostsFacts

\* Where a run is.
LEMMA RunFacts ==
    ASSUME TypeOK, RunInv, pc # "idle"
    PROVE  Host \in Hosts /\ at \in 1 .. Len(run.hosts) /\ Len(run.hosts) \in 1 .. 3
  BY HostsFacts DEF RunInv, Host

LEMMA OtherHosts ==
    ASSUME TypeOK, RunInv, pc # "idle"
    PROVE  \A j \in 1 .. Len(run.hosts) :
                  run.hosts[j] \in Hosts /\ (run.hosts[j] = Host => j = at)
  BY HostsFacts DEF RunInv, Host

LEMMA DirFacts ==
    /\ NoDir \in Dirs /\ NoUpload \in Uploads /\ NoRun \in Arguments
    /\ NoDownload \in [build : Builds \cup {"none"}, has : SUBSET Packages]
  BY DEF NoDir, Dirs, NoUpload, Uploads, NoRun, Arguments, NoDownload

LEMMA UpInvInit == Init => TypeOK /\ UpInv
  <1> SUFFICES ASSUME Init PROVE TypeOK /\ UpInv
    OBVIOUS
  <1>1. TypeOK
    BY DirFacts, HostsFacts, ConstantsAssumption DEF Init, TypeOK, Everywhere
  <1>2. RunInv /\ ExtractInv /\ TreeInv /\ CommitInv
    BY DEF Init, RunInv, ExtractInv, TreeInv, CommitInv, UpdateSteps, RemoveSteps, NoRun
  <1>3. MixInv
    BY DEF Init, MixInv, MixAt, Unmixed, Everywhere, NoDir, NoUpload
  <1>4. CutInv
    BY DEF Init, CutInv, CutAt, BlockedOnlyAfterStop, Everywhere
  <1>5. UploadedIsWhole /\ UploadedIsChecked
    BY HostsFacts DEF Init, UploadedIsWhole, UploadedIsChecked, Everywhere, NoUpload
  <1> QED
    BY <1>1, <1>2, <1>3, <1>4, <1>5 DEF UpInv

-----------------------------------------------------------------------------
(* What a step leaves as it is. *)

\* A step inside a repository does not disturb what the run has committed before it, nor
\* what is in the other repositories.
LEMMA GotoKeeps ==
    ASSUME TypeOK, UpInv, pc # "idle", NEW step, Goto(step), step \notin {"idle", "upload"},
           base' = base,
           \A h \in Hosts \ {Host} : /\ extract'[h] = extract[h] /\ tree'[h] = tree[h]
                                     /\ index'[h] = index[h] /\ tip'[h] = tip[h]
    PROVE  /\ Host' = Host /\ Host \in Hosts /\ run' = run /\ pc' = step
           /\ at' \in 1 .. 3 /\ UNCHANGED << uploaded, mixed, cut, counters >>
           /\ UploadedIsWhole' /\ UploadedIsChecked' /\ CommitInv'
           /\ \A h \in Hosts \ {Host} : MixAt(h)' /\ CutAt(h)'
           /\ (step \in UpdateSteps => run.kind = "update")
                 /\ (step \in RemoveSteps => run.kind = "remove") => RunInv'
  <1> USE DEF UpInv
  <1>1. /\ Host' = Host /\ Host \in Hosts /\ run' = run /\ pc' = step /\ at' = at
        /\ at' \in 1 .. 3 /\ UNCHANGED << uploaded, mixed, cut, counters >>
    BY RunFacts, HostCount DEF Goto, Host, TypeOK
  <1>2. UploadedIsWhole' /\ UploadedIsChecked'
    BY <1>1 DEF UploadedIsWhole, UploadedIsChecked
  <1>3. CommitInv'
    <2> SUFFICES ASSUME NEW j \in 1 .. Len(run.hosts), j < at
                 PROVE  Committed(run.hosts[j])'
      BY <1>1 DEF CommitInv
    <2>1. Committed(run.hosts[j])
      BY DEF CommitInv
    <2>2. run.hosts[j] \in Hosts \ {Host}
      BY OtherHosts
    <2> QED
      BY <1>1, <2>1, <2>2 DEF Committed
  <1>4. ASSUME NEW h \in Hosts \ {Host} PROVE MixAt(h)' /\ CutAt(h)'
    <2>1. MixAt(h) /\ CutAt(h)
      BY DEF MixInv, CutInv
    <2> QED
      BY <1>1, <2>1 DEF MixAt, CutAt, Unmixed
  <1>5. ASSUME step \in UpdateSteps => run.kind = "update", step \in RemoveSteps => run.kind = "remove"
        PROVE  RunInv'
    BY <1>1, <1>5 DEF RunInv
  <1> QED
    BY <1>1, <1>2, <1>3, <1>4, <1>5

\* The rest of the invariant is about the repository the step is in.
LEMMA GotoSuffices ==
    ASSUME RunInv', ExtractInv', TreeInv', CommitInv', UploadedIsWhole', UploadedIsChecked',
           \A h \in Hosts : MixAt(h)' /\ CutAt(h)', pc' # "blocked"
    PROVE  UpInv'
  BY DEF UpInv, MixInv, CutInv, BlockedOnlyAfterStop

\* A program leaves: it is not between a deletion and the commit.
LEMMA ExitKeeps ==
    ASSUME TypeOK, UpInv, pc \notin {"idle", "install-musl"}, Exit, UNCHANGED repos,
           tree[Host] = NoDir \/ index[Host] = NoDir => tip[Host] = NoDir \/ Host \in cut
    PROVE  TypeOK' /\ UpInv'
  <1> USE DEF UpInv
  <1>1. /\ pc' = "idle" /\ at' = 1 /\ run' = NoRun
        /\ UNCHANGED << extract, tree, index, tip, branch, base, uploaded, mixed, cut, counters >>
        /\ download' \in {download, NoDownload}
    BY DEF Exit, repos
  <1>2. TypeOK'
    <2>1. run' \in Arguments /\ at' \in 1 .. Len(AllHosts)
      BY <1>1, DirFacts, HostCount
    <2>2. download' \in [build : Builds \cup {"none"}, has : SUBSET Packages]
      <3> DEFINE D == [build : Builds \cup {"none"}, has : SUBSET Packages]
      <3>1. download \in D /\ NoDownload \in D
        BY DirFacts DEF TypeOK
      <3> HIDE DEF D
      <3>2. download' \in D
        BY <1>1, <3>1
      <3> QED
        BY <3>2 DEF D
    <2> QED
      BY <1>1, <2>1, <2>2 DEF TypeOK, counters
  <1>3. RunInv' /\ ExtractInv' /\ TreeInv' /\ CommitInv'
    BY <1>1 DEF RunInv, ExtractInv, TreeInv, CommitInv, UpdateSteps, RemoveSteps
  <1>4. MixInv'
    <2> SUFFICES ASSUME NEW h \in Hosts PROVE MixAt(h)'
      BY DEF MixInv
    <2> QED
      BY <1>1 DEF MixInv, MixAt, Unmixed
  <1>5. CutInv'
    <2> SUFFICES ASSUME NEW h \in Hosts PROVE CutAt(h)'
      BY <1>1 DEF CutInv, BlockedOnlyAfterStop
    <2>1. CutAt(h)
      BY DEF CutInv
    <2> QED
      BY <1>1, <2>1 DEF CutAt
  <1>6. UploadedIsWhole' /\ UploadedIsChecked'
    BY <1>1 DEF UploadedIsWhole, UploadedIsChecked
  <1> QED
    BY <1>2, <1>3, <1>4, <1>5, <1>6

-----------------------------------------------------------------------------
(* The steps of both programs. *)

LEMMA BranchStep ==
    ASSUME TypeOK, UpInv, Branch
    PROVE  TypeOK' /\ UpInv'
  <1> USE DEF UpInv
  <1> DEFINE H == Host
             next == IF run.kind = "update" THEN "extract" ELSE "remove"
  <1>1. pc = "branch" /\ H \in Hosts /\ NewBranch \in Builds \cup {"manifest", "remove"}
    BY RunFacts DEF Branch, NewBranch, RunInv
  <1>2. \A h \in Hosts : MixAt(h) /\ CutAt(h)
    BY DEF MixInv, CutInv
  <1>3. CASE Exit /\ UNCHANGED repos
    BY <1>1, <1>2, <1>3, ExitKeeps DEF CutAt
  <1>4. CASE /\ Goto(next) /\ UNCHANGED << extract, base, download >>
             /\ \/ UNCHANGED << tree, index, tip, branch >>
                \/ /\ branch' = [branch EXCEPT ![H] = NewBranch]
                   /\ tip' = [tip EXCEPT ![H] = base[H]]
                   /\ tree' = [tree EXCEPT ![H] = CheckedOut(H, @)]
                   /\ index' = [index EXCEPT ![H] = CheckedOut(H, @)]
    <2>0. /\ tree \in [Hosts -> Dirs] /\ index \in [Hosts -> Dirs] /\ tip \in [Hosts -> Dirs]
          /\ base \in [Hosts -> Dirs]
          /\ branch \in [Hosts -> Builds \cup {"manifest", "remove"}]
      BY DEF TypeOK
    <2>1. /\ tree' \in [Hosts -> Dirs] /\ index' \in [Hosts -> Dirs] /\ tip' \in [Hosts -> Dirs]
          /\ branch' \in [Hosts -> Builds \cup {"manifest", "remove"}]
          /\ \A h \in Hosts \ {H} : tree'[h] = tree[h] /\ index'[h] = index[h] /\ tip'[h] = tip[h]
          /\ \/ tree'[H] = tree[H] /\ index'[H] = index[H] /\ tip'[H] = tip[H]
             \/ tree'[H] = base[H] /\ index'[H] = base[H] /\ tip'[H] = base[H]
      BY <1>1, <1>4, <2>0 DEF CheckedOut
    <2>2. /\ H' = H /\ run' = run /\ pc' = next /\ at' \in 1 .. 3
          /\ UNCHANGED << uploaded, mixed, cut, counters >>
          /\ UploadedIsWhole' /\ UploadedIsChecked' /\ CommitInv' /\ RunInv'
          /\ \A h \in Hosts \ {H} : MixAt(h)' /\ CutAt(h)'
      <3>1. /\ next \notin {"idle", "upload"}
            /\ next \in UpdateSteps => run.kind = "update"
            /\ next \in RemoveSteps => run.kind = "remove"
        BY <1>1 DEF UpdateSteps, RemoveSteps, RunInv
      <3>2. \A h \in Hosts \ {Host} : /\ extract'[h] = extract[h] /\ tree'[h] = tree[h]
                                       /\ index'[h] = index[h] /\ tip'[h] = tip[h]
        BY <1>4, <2>1
      <3> HIDE DEF next
      <3> QED
        BY <1>1, <1>4, <3>1, <3>2, GotoKeeps
    <2>3. TypeOK'
      BY <1>1, <1>4, <2>1, <2>2, HostCount DEF TypeOK, counters
    <2>4. MixAt(H)' /\ CutAt(H)'
      BY <1>1, <1>2, <1>4, <2>1, <2>2 DEF MixAt, CutAt, Unmixed
    <2>5. ExtractInv' /\ TreeInv'
      BY <2>2 DEF ExtractInv, TreeInv
    <2> QED
      BY <1>1, <2>2, <2>3, <2>4, <2>5, GotoSuffices
  <1> QED
    BY <1>3, <1>4 DEF Branch, repos

\* A commit: the working tree and the index are what the run has made of them.
LEMMA CommitStep ==
    ASSUME TypeOK, UpInv, CommitIndex, pc \in {"commit", "commit-removal"}
    PROVE  TypeOK' /\ UpInv'
  <1> USE DEF UpInv
  <1> DEFINE H == Host
  <1>1. /\ H \in Hosts /\ at \in 1 .. Len(run.hosts) /\ Len(run.hosts) \in 1 .. 3
    BY RunFacts
  <1>2. /\ tip' = [tip EXCEPT ![H] = index[H]]
        /\ UNCHANGED << run, download, extract, tree, index, branch, base, uploaded, mixed, cut, counters >>
        /\ \/ at < Len(run.hosts) /\ at' = at + 1 /\ pc' = "branch"
           \/ at = Len(run.hosts) /\ at' = 1 /\ pc' \in {"upload", "end"}
    BY <1>1 DEF CommitIndex
  <1>3. /\ tip' \in [Hosts -> Dirs] /\ tip'[H] = index[H]
        /\ \A h \in Hosts \ {H} : tip'[h] = tip[h]
    BY <1>1, <1>2 DEF TypeOK
  <1>4. TypeOK'
    <2>1. at' \in 1 .. Len(AllHosts)
      <3>1. at' \in 1 .. 3
        <4>1. CASE at < Len(run.hosts) /\ at' = at + 1
          BY <1>1, <4>1, NextHost
        <4>2. CASE at' = 1
          BY <4>2
        <4> QED
          BY <1>2, <4>1, <4>2
      <3> QED
        BY <3>1, HostCount
    <2> QED
      BY <1>2, <1>3, <2>1 DEF TypeOK, counters
  <1>5. RunInv' /\ ExtractInv' /\ TreeInv'
    <2>1. at' \in 1 .. Len(run.hosts) /\ pc' \in {"branch", "upload", "end"}
      BY <1>1, <1>2
    <2> QED
      BY <1>1, <1>2, <2>1 DEF RunInv, ExtractInv, TreeInv, UpdateSteps, RemoveSteps
  <1>6. CommitInv'
    <2> SUFFICES ASSUME NEW j \in 1 .. Len(run.hosts), j < at'  \/ pc' = "upload"
                 PROVE  Committed(run.hosts[j])'
      BY <1>2 DEF CommitInv
    <2>1. CASE j = at
      <3>1. run.hosts[j] = H
        BY <2>1 DEF Host
      <3>2. CASE pc = "commit"
        <4>1. run.kind = "update" /\ index[H] = tree[H]
          BY <3>2 DEF TreeInv, RunInv, UpdateSteps
        <4> QED
          BY <1>2, <1>3, <3>1, <3>2, <4>1 DEF TreeInv, Committed, Whole
      <3>3. CASE pc = "commit-removal"
        BY <1>2, <1>3, <3>1, <3>3 DEF TreeInv, Committed, RunInv, RemoveSteps
      <3> QED
        BY <3>2, <3>3
    <2>2. CASE j # at
      <3>1. j < at /\ run.hosts[j] \in Hosts \ {H}
        BY <1>1, <1>2, <2>2, OtherHosts
      <3>2. Committed(run.hosts[j])
        BY <1>1, <3>1 DEF CommitInv
      <3> QED
        BY <1>2, <1>3, <3>1, <3>2 DEF Committed
    <2> QED
      BY <2>1, <2>2
  <1>7. ASSUME NEW h \in Hosts PROVE MixAt(h)' /\ CutAt(h)'
    <2>1. MixAt(h) /\ CutAt(h)
      BY DEF MixInv, CutInv
    <2>2. CASE h = H
      <3>1. /\ pc = "commit" => tree[H] # NoDir /\ index[H] = tree[H]
            /\ pc = "commit-removal" => index[H] = NoDir
        <4>1. "clang" \notin NoDir.main
          BY DEF NoDir
        <4> QED
          BY <4>1 DEF TreeInv
      <3> QED
        BY <1>1, <1>2, <1>3, <2>1, <2>2, <3>1 DEF MixAt, CutAt, Unmixed
    <2>3. CASE h # H
      BY <1>2, <1>3, <2>1, <2>3 DEF MixAt, CutAt, Unmixed
    <2> QED
      BY <2>2, <2>3
  <1>8. UploadedIsWhole' /\ UploadedIsChecked'
    BY <1>2 DEF UploadedIsWhole, UploadedIsChecked
  <1> QED
    BY <1>2, <1>4, <1>5, <1>6, <1>7, <1>8, GotoSuffices

LEMMA UploadStep ==
    ASSUME TypeOK, UpInv, Upload
    PROVE  TypeOK' /\ UpInv'
  <1> USE DEF UpInv
  <1> DEFINE H == Host
  <1>1. /\ H \in Hosts /\ at \in 1 .. Len(run.hosts) /\ Len(run.hosts) \in 1 .. 3
        /\ pc = "upload"
    BY RunFacts DEF Upload
  <1>2. /\ UNCHANGED << run, download, extract, tree, index, tip, branch, base, mixed, cut, counters >>
        /\ \/ at < Len(run.hosts) /\ at' = at + 1 /\ pc' = "upload"
           \/ at' = 1 /\ pc' = "end"
    BY <1>1 DEF Upload, repos
  <1>3. Committed(H)
    BY <1>1 DEF CommitInv, Host
  <1>4. /\ uploaded' \in [Hosts -> Uploads]
        /\ \A h \in Hosts \ {H} : uploaded'[h] = uploaded[h]
        /\ \/ uploaded'[H] = uploaded[H]
           \/ uploaded'[H] = [dir |-> tip[H], kind |-> run.kind, checked |-> run.check]
    <2>1. [dir |-> tip[H], kind |-> run.kind, checked |-> run.check] \in Uploads
      BY <1>1 DEF TypeOK, Uploads, Arguments
    <2> QED
      BY <1>1, <2>1 DEF Upload, TypeOK
  <1>5. TypeOK'
    <2>1. at' \in 1 .. Len(AllHosts)
      <3>1. at' \in 1 .. 3
        <4>1. CASE at < Len(run.hosts) /\ at' = at + 1
          BY <1>1, <4>1, NextHost
        <4>2. CASE at' = 1
          BY <4>2
        <4> QED
          BY <1>2, <4>1, <4>2
      <3> QED
        BY <3>1, HostCount
    <2> QED
      BY <1>2, <1>4, <2>1 DEF TypeOK, counters
  <1>6. RunInv' /\ ExtractInv' /\ TreeInv'
    <2>1. at' \in 1 .. Len(run.hosts) /\ pc' \in {"upload", "end"}
      BY <1>1, <1>2
    <2> QED
      BY <1>1, <1>2, <2>1 DEF RunInv, ExtractInv, TreeInv, UpdateSteps, RemoveSteps
  <1>7. CommitInv'
    <2> SUFFICES ASSUME NEW j \in 1 .. Len(run.hosts), pc' = "upload"
                 PROVE  Committed(run.hosts[j])'
      BY <1>2 DEF CommitInv
    <2>1. Committed(run.hosts[j])
      BY <1>1 DEF CommitInv
    <2> QED
      BY <1>2, <2>1 DEF Committed
  <1>8. ASSUME NEW h \in Hosts PROVE MixAt(h)' /\ CutAt(h)'
    <2>1. MixAt(h) /\ CutAt(h)
      BY DEF MixInv, CutInv
    <2>2. Unmixed(uploaded'[h].dir, h)
      <3>1. uploaded'[h].dir \in {uploaded[h].dir, tip[h]}
        BY <1>4
      <3> QED
        BY <2>1, <3>1 DEF MixAt
    <2>3. pc' # "install-musl" /\ pc' \notin {"install", "git-rm", "commit-removal"}
      BY <1>2
    <2> QED
      BY <1>1, <1>2, <2>1, <2>2, <2>3 DEF MixAt, CutAt, Unmixed
  <1>9. UploadedIsWhole'
    BY <1>1, <1>3, <1>4 DEF UploadedIsWhole, Committed
  <1>10. UploadedIsChecked'
    BY <1>1, <1>3, <1>4, HostsFacts DEF UploadedIsChecked, Committed
  <1> QED
    BY <1>2, <1>5, <1>6, <1>7, <1>8, <1>9, <1>10, GotoSuffices

-----------------------------------------------------------------------------
(* update-prebuilts.py *)

\* The start of either program, and a fetch that fails, touch no repository.
LEMMA IdleStep ==
    ASSUME TypeOK, UpInv, StartUpdate \/ StartRemove \/ FetchFails
    PROVE  TypeOK' /\ UpInv'
  <1> USE DEF UpInv
  <1> DEFINE Downloads == [build : Builds \cup {"none"}, has : SUBSET Packages]
  <1>1. /\ UNCHANGED << extract, tree, index, tip, branch, base, uploaded, mixed, cut >>
        /\ pc' \in {"idle", "fetch", "branch"} /\ pc \in {"idle", "fetch"}
    BY DEF StartUpdate, StartRemove, FetchFails, repos
  <1>2. RunInv' /\ run' \in Arguments /\ at' = 1
    <2>1. CASE StartUpdate
      <3>1. /\ run' \in Arguments /\ run'.kind = "update" /\ run'.hosts \in HostChoices
            /\ run'.build \in Builds
        BY <2>1 DEF StartUpdate, Arguments
      <3>2. run'.hosts \in HostLists /\ Len(run'.hosts) \in 1 .. 3
        BY <3>1, HostsFacts DEF HostLists
      <3>3. at' = 1 /\ pc' \in {"fetch", "branch"}
        BY <2>1 DEF StartUpdate, RunInv
      <3>4. 1 \in 1 .. Len(run'.hosts)
        BY <3>2
      <3>5. run' # NoRun
        BY <3>1 DEF NoRun
      <3>6. pc' # "idle" /\ pc' \notin RemoveSteps
        BY <3>3 DEF RemoveSteps
      <3> QED
        BY <3>1, <3>2, <3>3, <3>4, <3>5, <3>6 DEF RunInv
    <2>2. CASE StartRemove
      <3>1. \E current \in BOOLEAN :
               run' = [NoRun EXCEPT !.kind = "remove", !.hosts = AllHosts, !.current = current]
        BY <2>2 DEF StartRemove
      <3>2. AllHosts \in HostLists
        BY DEF HostLists
      <3>3. run' \in Arguments /\ run'.kind = "remove" /\ run'.hosts = AllHosts
        BY <3>1 DEF NoRun, Arguments
      <3>4. at' = 1 /\ pc' = "branch"
        BY <2>2 DEF StartRemove, RunInv
      <3> QED
        BY <3>2, <3>3, <3>4, HostCount DEF RunInv, NoRun, UpdateSteps, RemoveSteps
    <2>3. CASE FetchFails
      BY <2>3, DirFacts DEF FetchFails, RunInv, UpdateSteps, RemoveSteps
    <2> QED
      BY <2>1, <2>2, <2>3
  <1>3. download' \in Downloads
    <2>1. CASE FetchFails
      <3>1. run.build \in Builds /\ run.hosts \in HostLists
        BY <2>1 DEF FetchFails, RunInv, UpdateSteps
      <3>2. ASSUME NEW n \in 0 .. Len(run.hosts)
            PROVE  ToSet(SubSeq(run.hosts, 1, n)) \subseteq Packages
        <4>1. run.hosts \in Seq(Hosts)
          BY <3>1, HostsFacts
        <4>2. SubSeq(run.hosts, 1, n) \in Seq(Hosts)
          BY <3>2, <4>1
        <4>3. \A i \in DOMAIN SubSeq(run.hosts, 1, n) : SubSeq(run.hosts, 1, n)[i] \in Hosts
          BY <4>2
        <4> QED
          BY <4>3 DEF ToSet, Packages
      <3> QED
        BY <2>1, <3>1, <3>2, DirFacts DEF FetchFails
    <2>2. CASE ~FetchFails
      <3>1. download' = download
        BY <2>2 DEF StartUpdate, StartRemove
      <3> QED
        BY <3>1 DEF TypeOK
    <2> QED
      BY <2>1, <2>2
  <1>4. runs' \in 0 .. MaxRuns /\ stops' \in 0 .. MaxStops /\ submits' \in 0 .. MaxSubmits
    <2>1. /\ runs \in 0 .. MaxRuns /\ stops \in 0 .. MaxStops /\ submits \in 0 .. MaxSubmits
          /\ MaxRuns \in Nat /\ MaxStops \in Nat
      BY ConstantsAssumption DEF TypeOK
    <2>2. /\ runs' = runs \/ (runs < MaxRuns /\ runs' = runs + 1)
          /\ stops' = stops \/ (stops < MaxStops /\ stops' = stops + 1)
          /\ submits' = submits
      BY DEF StartUpdate, StartRemove, FetchFails
    <2> QED
      BY <2>1, <2>2
  <1>5. TypeOK'
    BY <1>1, <1>2, <1>3, <1>4, HostCount DEF TypeOK
  <1>6. ExtractInv' /\ TreeInv'
    BY <1>1 DEF ExtractInv, TreeInv
  <1>7. CommitInv'
    BY <1>1, <1>2 DEF CommitInv, RunInv
  <1>8. ASSUME NEW h \in Hosts PROVE MixAt(h)' /\ CutAt(h)'
    <2>1. MixAt(h) /\ CutAt(h)
      BY DEF MixInv, CutInv
    <2> QED
      BY <1>1, <2>1 DEF MixAt, CutAt, Unmixed
  <1>9. UploadedIsWhole' /\ UploadedIsChecked'
    BY <1>1 DEF UploadedIsWhole, UploadedIsChecked
  <1> QED
    BY <1>1, <1>2, <1>5, <1>6, <1>7, <1>8, <1>9, GotoSuffices

LEMMA FetchStep ==
    ASSUME TypeOK, UpInv, Fetch
    PROVE  TypeOK' /\ UpInv'
  <1> USE DEF UpInv
  <1>1. /\ pc = "fetch" /\ Goto("branch") /\ run.build \in Builds /\ run.hosts \in HostLists
        /\ UNCHANGED << extract, tree, index, tip, branch, base >>
        /\ download' = [build |-> run.build, has |-> Wanted]
    BY DEF Fetch, RunInv, UpdateSteps, repos
  <1>2. /\ Host' = Host /\ run' = run /\ pc' = "branch" /\ at' \in 1 .. 3
        /\ UNCHANGED << uploaded, mixed, cut, counters >>
        /\ UploadedIsWhole' /\ UploadedIsChecked' /\ CommitInv' /\ RunInv'
        /\ \A h \in Hosts \ {Host} : MixAt(h)' /\ CutAt(h)'
    BY <1>1, GotoKeeps DEF UpdateSteps, RemoveSteps
  <1>3. Wanted \subseteq Packages
    BY <1>1, HostsFacts DEF Wanted, Packages
  <1>4. TypeOK'
    BY <1>1, <1>2, <1>3, HostCount DEF TypeOK, counters
  <1>5. MixAt(Host)' /\ CutAt(Host)'
    <2>1. MixAt(Host) /\ CutAt(Host) /\ Host \in Hosts
      BY <1>1, RunFacts DEF MixInv, CutInv
    <2> QED
      BY <1>1, <1>2, <2>1 DEF MixAt, CutAt, Unmixed
  <1>6. ExtractInv' /\ TreeInv'
    BY <1>2 DEF ExtractInv, TreeInv
  <1> QED
    BY <1>2, <1>4, <1>5, <1>6, GotoSuffices

\* A step that unpacks an archive or finds that there is none.
LEMMA ExtractStep ==
    ASSUME TypeOK, UpInv, Extract \/ ExtractMusl
    PROVE  TypeOK' /\ UpInv'
  <1> USE DEF UpInv
  <1> DEFINE H == Host
             what == IF pc = "extract" THEN "clang" ELSE "musl"
             next == IF pc = "extract" THEN "install" ELSE "install-musl"
  <1>1. pc \in {"extract", "extract-musl"} /\ H \in Hosts /\ run.build \in Builds
    BY RunFacts DEF Extract, ExtractMusl, RunInv, UpdateSteps
  <1>2. MixAt(H) /\ CutAt(H)
    BY <1>1 DEF MixInv, CutInv
  <1>3. CASE Exit /\ UNCHANGED repos
    BY <1>1, <1>2, <1>3, ExitKeeps DEF CutAt
  <1>4. CASE Goto(next) /\ Unpack(what) /\ UNCHANGED << download, tree, index, tip, branch, base >>
    <2>1. /\ extract' \in [Hosts -> [Builds -> SUBSET {"clang", "musl", "half"}]]
          /\ \A h \in Hosts \ {H} : extract'[h] = extract[h]
          /\ \A b \in Builds \ {run.build} : extract'[H][b] = extract[H][b]
          /\ extract'[H][run.build] = (extract[H][run.build] \ {"half"}) \cup {what}
      BY <1>1, <1>4 DEF Unpack, TypeOK
    <2>2. /\ H' = H /\ run' = run /\ pc' = next /\ at' \in 1 .. 3
          /\ UNCHANGED << uploaded, mixed, cut, counters >>
          /\ UploadedIsWhole' /\ UploadedIsChecked' /\ CommitInv' /\ RunInv'
          /\ \A h \in Hosts \ {H} : MixAt(h)' /\ CutAt(h)'
      <3>1. next \in UpdateSteps /\ next \notin RemoveSteps /\ run.kind = "update"
            /\ next \notin {"idle", "upload"}
        BY <1>1 DEF UpdateSteps, RemoveSteps, RunInv
      <3> HIDE DEF next
      <3> QED
        BY <1>1, <1>4, <2>1, <3>1, GotoKeeps
    <2>3. TypeOK'
      BY <1>4, <2>1, <2>2, HostCount DEF TypeOK, counters
    <2>4. MixAt(H)' /\ CutAt(H)'
      BY <1>1, <1>2, <1>4, <2>1, <2>2 DEF MixAt, CutAt, Unmixed
    <2>5. ExtractInv'
      BY <1>1, <2>1, <2>2 DEF ExtractInv, Fresh
    <2>6. TreeInv'
      BY <1>1, <1>4, <2>2 DEF TreeInv
    <2> QED
      BY <1>1, <2>2, <2>3, <2>4, <2>5, <2>6, GotoSuffices
  <1> QED
    BY <1>3, <1>4 DEF Extract, ExtractMusl, NoPackage


\* What remains to be shown of a step that works on the directories of one repository.
LEMMA HereSuffices ==
    ASSUME TypeOK, UpInv, pc # "idle", NEW step, Goto(step),
           \/ step \in UpdateSteps /\ run.kind = "update"
           \/ step \in RemoveSteps \ {"blocked"} /\ run.kind = "remove",
           UNCHANGED << download, tip, branch, base >>,
           extract' \in [Hosts -> [Builds -> SUBSET {"clang", "musl", "half"}]],
           tree' \in [Hosts -> Dirs], index' \in [Hosts -> Dirs],
           \A h \in Hosts \ {Host} : /\ extract'[h] = extract[h]
                                     /\ tree'[h] = tree[h] /\ index'[h] = index[h],
           ExtractInv', TreeInv', MixAt(Host)', CutAt(Host)'
    PROVE  TypeOK' /\ UpInv'
  <1>1. /\ Host' = Host /\ Host \in Hosts /\ run' = run /\ pc' = step
        /\ at' \in 1 .. 3 /\ UNCHANGED << uploaded, mixed, cut, counters >>
        /\ UploadedIsWhole' /\ UploadedIsChecked' /\ CommitInv' /\ RunInv'
        /\ \A h \in Hosts \ {Host} : MixAt(h)' /\ CutAt(h)'
    <2>1. \A h \in Hosts \ {Host} : /\ extract'[h] = extract[h] /\ tree'[h] = tree[h]
                                     /\ index'[h] = index[h] /\ tip'[h] = tip[h]
      OBVIOUS
    <2>2. /\ step \notin {"idle", "upload"}
          /\ step \in UpdateSteps => run.kind = "update"
          /\ step \in RemoveSteps => run.kind = "remove"
      BY DEF UpdateSteps, RemoveSteps
    <2> QED
      BY <2>1, <2>2, GotoKeeps
  <1>2. pc' \in { "idle", "fetch", "branch", "extract", "install", "extract-musl",
                  "install-musl", "link", "check", "add", "commit", "remove", "git-rm",
                  "commit-removal", "blocked", "upload", "end" }
    BY <1>1 DEF UpdateSteps, RemoveSteps
  <1>3. TypeOK'
    BY <1>1, <1>2, HostCount DEF TypeOK, counters
  <1>4. \A h \in Hosts : MixAt(h)' /\ CutAt(h)'
    BY <1>1
  <1> QED
    BY <1>1, <1>3, <1>4, GotoSuffices DEF UpdateSteps, RemoveSteps

\* The directory a step of an update works on is not gone.
LEMMA MainIsThere == \A d : "clang" \in d.main => d # NoDir
  BY DEF NoDir

LEMMA ReplaceStep ==
    ASSUME TypeOK, UpInv, Replace
    PROVE  TypeOK' /\ UpInv'
  <1> USE DEF UpInv
  <1> DEFINE H == Host
  <1>1. pc = "install" /\ H \in Hosts /\ run.kind = "update" /\ tree[H] # NoDir
    BY RunFacts DEF Replace, RunInv, UpdateSteps
  <1>2. MixAt(H) /\ CutAt(H)
    BY <1>1 DEF MixInv, CutInv
  <1>3. CASE Exit /\ UNCHANGED repos
    BY <1>1, <1>2, <1>3, ExitKeeps DEF CutAt
  <1>4. CASE /\ tree' = [tree EXCEPT ![H] = NoDir] /\ Goto("install")
             /\ UNCHANGED << download, extract, index, tip, branch, base >>
    <2>1. /\ tree' \in [Hosts -> Dirs] /\ tree'[H] = NoDir
          /\ \A h \in Hosts \ {H} : tree'[h] = tree[h]
      BY <1>1, <1>4, DirFacts DEF TypeOK
    <2>2. pc' = "install" /\ run' = run /\ at' = at /\ H' = H /\ mixed' = mixed /\ cut' = cut
          /\ uploaded' = uploaded
      BY <1>4 DEF Goto, Host
    <2>3. ExtractInv' /\ TreeInv'
      BY <1>1, <1>4, <2>2 DEF ExtractInv, TreeInv, Fresh
    <2>4. MixAt(H)' /\ CutAt(H)'
      BY <1>1, <1>2, <1>4, <2>1, <2>2 DEF MixAt, CutAt, Unmixed, NoDir
    <2> QED
      BY <1>1, <1>4, <2>1, <2>3, <2>4, HereSuffices DEF TypeOK, UpdateSteps, RemoveSteps
  <1> QED
    BY <1>3, <1>4 DEF Replace

LEMMA InstallStep ==
    ASSUME TypeOK, UpInv, Install
    PROVE  TypeOK' /\ UpInv'
  <1> USE DEF UpInv
  <1> DEFINE H == Host
             next == CASE H = "linux-x86" -> "extract-musl"
                       [] H = "darwin-x86" -> "link"
                       [] OTHER -> "check"
  <1>1. /\ pc = "install" /\ H \in Hosts /\ run.kind = "update" /\ run.build \in Builds
        /\ Goto(next) /\ UNCHANGED << download, index, tip, branch, base >>
    BY RunFacts DEF Install, RunInv, UpdateSteps
  <1>2. MixAt(H) /\ CutAt(H)
    BY <1>1 DEF MixInv, CutInv
  <1>3. "clang" \in Fresh /\ "half" \notin Fresh
    BY <1>1 DEF ExtractInv
  <1>4. /\ pc' = next /\ run' = run /\ at' = at /\ H' = H /\ mixed' = mixed /\ cut' = cut
        /\ uploaded' = uploaded
    BY <1>1 DEF Goto, Host
  <1>5. /\ H = "linux-x86" => next = "extract-musl"
        /\ H = "darwin-x86" => next = "link"
        /\ H # "linux-x86" /\ H # "darwin-x86" => next = "check"
    OBVIOUS
  <1> HIDE DEF next
  <1>6. /\ extract' \in [Hosts -> [Builds -> SUBSET {"clang", "musl", "half"}]]
        /\ \A h \in Hosts \ {H} : extract'[h] = extract[h]
        /\ \A b \in Builds \ {run.build} : extract'[H][b] = extract[H][b]
        /\ extract'[H][run.build] = {}
    BY <1>1 DEF Install, TypeOK
  <1>7. /\ tree' \in [Hosts -> Dirs] /\ \A h \in Hosts \ {H} : tree'[h] = tree[h]
        /\ tree'[H] = [NoDir EXCEPT !.build = run.build, !.main = Fresh]
    <2>1. Fresh \in SUBSET {"clang", "musl", "half"}
      BY <1>1 DEF TypeOK, Fresh
    <2>2. [NoDir EXCEPT !.build = run.build, !.main = Fresh] \in Dirs
      BY <1>1, <2>1 DEF NoDir, Dirs
    <2> QED
      BY <1>1, <2>2 DEF Install, TypeOK, Fresh
  <1>8. tree'[H].build = run.build /\ tree'[H].main = Fresh
    BY <1>7 DEF NoDir
  <1>9. ExtractInv'
    BY <1>1, <1>4, <1>5, <1>6 DEF ExtractInv, Fresh
  <1>10. TreeInv'
    BY <1>1, <1>3, <1>4, <1>5, <1>8 DEF TreeInv
  <1>11. MixAt(H)' /\ CutAt(H)'
    BY <1>1, <1>2, <1>3, <1>4, <1>6, <1>8, MainIsThere DEF MixAt, CutAt, Unmixed, Fresh
  <1>12. next \in UpdateSteps
    BY <1>5 DEF UpdateSteps
  <1>13. index' \in [Hosts -> Dirs] /\ \A h \in Hosts : index'[h] = index[h]
    BY <1>1 DEF TypeOK
  <1> QED
    BY <1>1, <1>6, <1>7, <1>9, <1>10, <1>11, <1>12, <1>13, HereSuffices

LEMMA InstallMuslStep ==
    ASSUME TypeOK, UpInv, InstallMusl
    PROVE  TypeOK' /\ UpInv'
  <1> USE DEF UpInv
  <1> DEFINE H == Host
  <1>1. /\ pc = "install-musl" /\ H \in Hosts /\ run.kind = "update" /\ run.build \in Builds
        /\ Goto("check") /\ UNCHANGED << download, index, tip, branch, base >>
    BY RunFacts DEF InstallMusl, RunInv, UpdateSteps
  <1>2. MixAt(H) /\ CutAt(H)
    BY <1>1 DEF MixInv, CutInv
  <1>3. Fresh = {"musl"} /\ H = "linux-x86"
    BY <1>1 DEF ExtractInv
  <1>4. /\ pc' = "check" /\ run' = run /\ at' = at /\ H' = H /\ mixed' = mixed /\ cut' = cut
        /\ uploaded' = uploaded
    BY <1>1 DEF Goto, Host
  <1>5. /\ extract' \in [Hosts -> [Builds -> SUBSET {"clang", "musl", "half"}]]
        /\ \A h \in Hosts \ {H} : extract'[h] = extract[h]
        /\ \A b \in Builds \ {run.build} : extract'[H][b] = extract[H][b]
        /\ extract'[H][run.build] = {}
    BY <1>1 DEF InstallMusl, TypeOK
  <1>6. /\ tree' \in [Hosts -> Dirs] /\ \A h \in Hosts \ {H} : tree'[h] = tree[h]
        /\ tree'[H] = [tree[H] EXCEPT !.musl = {"musl"}]
    <2>1. tree' = [tree EXCEPT ![H] = [tree[H] EXCEPT !.musl = {"musl"}]]
      BY <1>1, <1>3 DEF InstallMusl, Fresh, TypeOK
    <2>2. tree[H] \in Dirs
      BY <1>1 DEF TypeOK
    <2>3. [tree[H] EXCEPT !.musl = {"musl"}] \in Dirs
      BY <2>2 DEF Dirs
    <2> QED
      BY <1>1, <2>1, <2>3 DEF TypeOK
  <1>7. /\ tree'[H].build = tree[H].build /\ tree'[H].main = tree[H].main
        /\ tree'[H].musl = {"musl"}
    <2>1. tree[H] \in Dirs
      BY <1>1 DEF TypeOK
    <2> QED
      BY <1>6, <2>1 DEF Dirs
  <1>8. ExtractInv'
    BY <1>4 DEF ExtractInv
  <1>9. TreeInv'
    BY <1>1, <1>3, <1>4, <1>7 DEF TreeInv
  <1>10. "clang" \in tree'[H].main
    BY <1>1, <1>7 DEF TreeInv
  <1>11. MixAt(H)' /\ CutAt(H)'
    BY <1>1, <1>2, <1>4, <1>5, <1>7, <1>10, MainIsThere DEF MixAt, CutAt, Unmixed
  <1>12. "check" \in UpdateSteps
    BY DEF UpdateSteps
  <1>13. index' \in [Hosts -> Dirs] /\ \A h \in Hosts : index'[h] = index[h]
    BY <1>1 DEF TypeOK
  <1> QED
    BY <1>1, <1>5, <1>6, <1>8, <1>9, <1>11, <1>12, <1>13, HereSuffices

LEMMA LinkStep ==
    ASSUME TypeOK, UpInv, Link
    PROVE  TypeOK' /\ UpInv'
  <1> USE DEF UpInv
  <1> DEFINE H == Host
  <1>1. /\ pc = "link" /\ H \in Hosts /\ run.kind = "update"
        /\ Goto("check") /\ UNCHANGED << download, extract, index, tip, branch, base >>
    BY RunFacts DEF Link, RunInv, UpdateSteps
  <1>2. MixAt(H) /\ CutAt(H) /\ H = "darwin-x86"
    BY <1>1 DEF MixInv, CutInv, ExtractInv
  <1>3. /\ pc' = "check" /\ run' = run /\ at' = at /\ H' = H /\ mixed' = mixed /\ cut' = cut
        /\ uploaded' = uploaded
    BY <1>1 DEF Goto, Host
  <1>4. tree[H] \in Dirs
    BY <1>1 DEF TypeOK
  <1>5. /\ tree' \in [Hosts -> Dirs] /\ \A h \in Hosts \ {H} : tree'[h] = tree[h]
        /\ tree'[H] = [tree[H] EXCEPT !.link = TRUE]
    <2>1. tree' = [tree EXCEPT ![H] = [tree[H] EXCEPT !.link = TRUE]]
      BY <1>1 DEF Link, TypeOK
    <2>2. [tree[H] EXCEPT !.link = TRUE] \in Dirs
      BY <1>4 DEF Dirs
    <2> QED
      BY <1>1, <2>1, <2>2 DEF TypeOK
  <1>6. /\ tree'[H].build = tree[H].build /\ tree'[H].main = tree[H].main
        /\ tree'[H].link
    BY <1>4, <1>5 DEF Dirs
  <1>7. ExtractInv'
    BY <1>3 DEF ExtractInv
  <1>8. TreeInv' /\ "clang" \in tree'[H].main
    BY <1>1, <1>2, <1>3, <1>6 DEF TreeInv
  <1>9. MixAt(H)' /\ CutAt(H)'
    BY <1>1, <1>2, <1>3, <1>6, <1>8, MainIsThere DEF MixAt, CutAt, Unmixed
  <1>10. "check" \in UpdateSteps
    BY DEF UpdateSteps
  <1>11. /\ index' \in [Hosts -> Dirs]
         /\ extract' \in [Hosts -> [Builds -> SUBSET {"clang", "musl", "half"}]]
    BY <1>1 DEF TypeOK
  <1> QED
    BY <1>1, <1>5, <1>7, <1>8, <1>9, <1>10, <1>11, HereSuffices

LEMMA CheckStep ==
    ASSUME TypeOK, UpInv, Check
    PROVE  TypeOK' /\ UpInv'
  <1> USE DEF UpInv
  <1> DEFINE H == Host
  <1>1. /\ pc = "check" /\ H \in Hosts /\ run.kind = "update" /\ UNCHANGED repos
    BY RunFacts DEF Check, RunInv, UpdateSteps
  <1>2. MixAt(H) /\ CutAt(H) /\ tree[H] # NoDir
    BY <1>1, MainIsThere DEF MixInv, CutInv, TreeInv
  <1>3. CASE Exit
    BY <1>1, <1>2, <1>3, ExitKeeps DEF CutAt
  <1>4. CASE /\ Goto("add") /\ download' = download
             /\ ~(run.check /\ H = "linux-x86" /\ run.build \notin Profiled)
    <2>1. /\ pc' = "add" /\ run' = run /\ at' = at /\ H' = H /\ mixed' = mixed /\ cut' = cut
          /\ uploaded' = uploaded
      BY <1>4 DEF Goto, Host
    <2>2. UNCHANGED << extract, tree, index, tip, branch, base >>
      BY <1>1 DEF repos
    <2>3. ExtractInv' /\ TreeInv'
      BY <1>1, <1>4, <2>1, <2>2 DEF ExtractInv, TreeInv
    <2>4. MixAt(H)' /\ CutAt(H)'
      BY <1>1, <1>2, <2>1, <2>2 DEF MixAt, CutAt, Unmixed
    <2>5. "add" \in UpdateSteps
      BY DEF UpdateSteps
    <2>6. /\ tree' \in [Hosts -> Dirs] /\ index' \in [Hosts -> Dirs]
          /\ extract' \in [Hosts -> [Builds -> SUBSET {"clang", "musl", "half"}]]
      BY <2>2 DEF TypeOK
    <2> QED
      BY <1>1, <1>4, <2>2, <2>3, <2>4, <2>5, <2>6, HereSuffices
  <1> QED
    BY <1>3, <1>4 DEF Check

LEMMA AddStep ==
    ASSUME TypeOK, UpInv, Add
    PROVE  TypeOK' /\ UpInv'
  <1> USE DEF UpInv
  <1> DEFINE H == Host
  <1>1. /\ pc = "add" /\ H \in Hosts /\ run.kind = "update"
        /\ Goto("commit") /\ UNCHANGED << download, extract, tip, branch, base >>
    BY RunFacts DEF Add, RunInv, UpdateSteps
  <1>2. MixAt(H) /\ CutAt(H)
    BY <1>1 DEF MixInv, CutInv
  <1>3. /\ pc' = "commit" /\ run' = run /\ at' = at /\ H' = H /\ mixed' = mixed /\ cut' = cut
        /\ uploaded' = uploaded
    BY <1>1 DEF Goto, Host
  <1>4. tree[H] \in Dirs
    BY <1>1 DEF TypeOK
  <1>5. /\ tree' \in [Hosts -> Dirs] /\ \A h \in Hosts \ {H} : tree'[h] = tree[h]
        /\ tree'[H] = [tree[H] EXCEPT !.manifest = TRUE] /\ tree'[H] \in Dirs
    <2>1. tree' = [tree EXCEPT ![H] = [tree[H] EXCEPT !.manifest = TRUE]]
      BY <1>1 DEF Add, TypeOK
    <2>2. [tree[H] EXCEPT !.manifest = TRUE] \in Dirs
      BY <1>4 DEF Dirs
    <2> QED
      BY <1>1, <2>1, <2>2 DEF TypeOK
  <1>6. /\ tree'[H].build = tree[H].build /\ tree'[H].main = tree[H].main
        /\ tree'[H].musl = tree[H].musl /\ tree'[H].link = tree[H].link /\ tree'[H].manifest
    BY <1>4, <1>5 DEF Dirs
  <1>7. /\ index' \in [Hosts -> Dirs] /\ index'[H] = tree'[H]
        /\ \A h \in Hosts \ {H} : index'[h] = index[h]
    BY <1>1, <1>5 DEF Add, TypeOK
  <1>8. ExtractInv'
    BY <1>3 DEF ExtractInv
  <1>9. TreeInv' /\ "clang" \in tree'[H].main
    BY <1>1, <1>3, <1>6, <1>7 DEF TreeInv
  <1>10. MixAt(H)' /\ CutAt(H)'
    BY <1>1, <1>2, <1>3, <1>6, <1>7, <1>9, MainIsThere DEF MixAt, CutAt, Unmixed
  <1>11. "commit" \in UpdateSteps
    BY DEF UpdateSteps
  <1>12. extract' \in [Hosts -> [Builds -> SUBSET {"clang", "musl", "half"}]]
    BY <1>1 DEF TypeOK
  <1> QED
    BY <1>1, <1>5, <1>7, <1>8, <1>9, <1>10, <1>11, <1>12, HereSuffices

-----------------------------------------------------------------------------
(* remove-prebuilts.py *)

LEMMA RemoveDirStep ==
    ASSUME TypeOK, UpInv, RemoveDir
    PROVE  TypeOK' /\ UpInv'
  <1> USE DEF UpInv
  <1> DEFINE H == Host
  <1>1. /\ pc = "remove" /\ H \in Hosts /\ run.kind = "remove"
        /\ Goto("git-rm") /\ UNCHANGED << download, extract, index, tip, branch, base >>
    BY RunFacts DEF RemoveDir, RunInv, RemoveSteps
  <1>2. MixAt(H) /\ CutAt(H)
    BY <1>1 DEF MixInv, CutInv
  <1>3. /\ pc' = "git-rm" /\ run' = run /\ at' = at /\ H' = H /\ mixed' = mixed /\ cut' = cut
        /\ uploaded' = uploaded
    BY <1>1 DEF Goto, Host
  <1>4. /\ tree' \in [Hosts -> Dirs] /\ tree'[H] = NoDir
        /\ \A h \in Hosts \ {H} : tree'[h] = tree[h]
    BY <1>1, DirFacts DEF RemoveDir, TypeOK
  <1>5. ExtractInv' /\ TreeInv'
    BY <1>3 DEF ExtractInv, TreeInv
  <1>6. MixAt(H)' /\ CutAt(H)'
    BY <1>1, <1>2, <1>3, <1>4 DEF MixAt, CutAt, Unmixed, NoDir
  <1>7. "git-rm" \in RemoveSteps \ {"blocked"}
    BY DEF RemoveSteps
  <1>8. /\ index' \in [Hosts -> Dirs]
        /\ extract' \in [Hosts -> [Builds -> SUBSET {"clang", "musl", "half"}]]
    BY <1>1 DEF TypeOK
  <1> QED
    BY <1>1, <1>4, <1>5, <1>6, <1>7, <1>8, HereSuffices

\* The assertion fails: the commit has no directory, or a run was stopped here.
LEMMA NothingToRemoveStep ==
    ASSUME TypeOK, UpInv, NothingToRemove
    PROVE  TypeOK' /\ UpInv'
  <1> USE DEF UpInv
  <1> DEFINE H == Host
  <1>1. /\ pc = "remove" /\ H \in Hosts /\ run.kind = "remove" /\ tree[H] = NoDir
        /\ Goto("blocked") /\ UNCHANGED << download, extract, tree, index, tip, branch, base >>
    BY RunFacts DEF NothingToRemove, RunInv, RemoveSteps, repos
  <1>2. MixAt(H) /\ CutAt(H)
    BY <1>1 DEF MixInv, CutInv
  <1>3. /\ H' = H /\ run' = run /\ pc' = "blocked"
        /\ at' \in 1 .. 3 /\ UNCHANGED << uploaded, mixed, cut, counters >>
        /\ UploadedIsWhole' /\ UploadedIsChecked' /\ CommitInv' /\ RunInv'
        /\ \A h \in Hosts \ {H} : MixAt(h)' /\ CutAt(h)'
    BY <1>1, GotoKeeps DEF UpdateSteps
  <1>4. TypeOK'
    BY <1>1, <1>3, HostCount DEF TypeOK, counters
  <1>5. ExtractInv' /\ TreeInv'
    BY <1>3 DEF ExtractInv, TreeInv
  <1>6. MixAt(H)' /\ CutAt(H)'
    BY <1>1, <1>2, <1>3 DEF MixAt, CutAt, Unmixed
  <1>7. BlockedOnlyAfterStop'
    BY <1>1, <1>2, <1>3 DEF BlockedOnlyAfterStop, CutAt
  <1>8. MixInv' /\ CutInv'
    BY <1>3, <1>6, <1>7 DEF MixInv, CutInv
  <1> QED
    BY <1>3, <1>4, <1>5, <1>8

LEMMA GitRmStep ==
    ASSUME TypeOK, UpInv, GitRm
    PROVE  TypeOK' /\ UpInv'
  <1> USE DEF UpInv
  <1> DEFINE H == Host
  <1>1. /\ pc = "git-rm" /\ H \in Hosts /\ run.kind = "remove"
        /\ UNCHANGED << extract, tree, tip, branch, base >>
        /\ index' = [index EXCEPT ![H] = NoDir]
    BY RunFacts DEF GitRm, RunInv, RemoveSteps
  <1>2. MixAt(H) /\ CutAt(H)
    BY <1>1 DEF MixInv, CutInv
  <1>3. CASE index[H] = NoDir /\ Exit
    <2>1. index' = index
      BY <1>1, <1>3 DEF TypeOK
    <2>2. UNCHANGED repos
      BY <1>1, <2>1 DEF repos
    <2> QED
      BY <1>1, <1>2, <1>3, <2>2, ExitKeeps DEF CutAt
  <1>4. CASE Goto("commit-removal") /\ download' = download
    <2>1. /\ pc' = "commit-removal" /\ run' = run /\ at' = at /\ H' = H /\ mixed' = mixed
          /\ cut' = cut /\ uploaded' = uploaded
      BY <1>4 DEF Goto, Host
    <2>2. /\ index' \in [Hosts -> Dirs] /\ index'[H] = NoDir
          /\ \A h \in Hosts \ {H} : index'[h] = index[h]
      BY <1>1, DirFacts DEF TypeOK
    <2>3. ExtractInv' /\ TreeInv'
      BY <2>1, <2>2 DEF ExtractInv, TreeInv
    <2>4. MixAt(H)' /\ CutAt(H)'
      BY <1>1, <1>2, <2>1, <2>2 DEF MixAt, CutAt, Unmixed, NoDir
    <2>5. "commit-removal" \in RemoveSteps \ {"blocked"}
      BY DEF RemoveSteps
    <2>6. /\ tree' \in [Hosts -> Dirs]
          /\ extract' \in [Hosts -> [Builds -> SUBSET {"clang", "musl", "half"}]]
      BY <1>1 DEF TypeOK
    <2> QED
      BY <1>1, <1>4, <2>2, <2>3, <2>4, <2>5, <2>6, HereSuffices
  <1> QED
    BY <1>3, <1>4 DEF GitRm

\* The steps that commit, and those that only leave.
LEMMA LastStep ==
    ASSUME TypeOK, UpInv, Commit \/ CommitRemoval \/ Blocked \/ End
    PROVE  TypeOK' /\ UpInv'
  <1> USE DEF UpInv
  <1>1. CASE CommitIndex /\ pc \in {"commit", "commit-removal"}
    BY <1>1, CommitStep
  <1>2. CASE Exit /\ UNCHANGED repos /\ pc \in {"commit-removal", "blocked", "end"}
             /\ (pc = "commit-removal" => tip[Host] = NoDir)
    <2>1. CutAt(Host) /\ BlockedOnlyAfterStop
      BY <1>2, RunFacts DEF CutInv
    <2>2. tree[Host] = NoDir \/ index[Host] = NoDir => tip[Host] = NoDir \/ Host \in cut
      BY <1>2, <2>1 DEF CutAt, BlockedOnlyAfterStop
    <2> QED
      BY <1>2, <2>2, ExitKeeps
  <1> QED
    BY <1>1, <1>2 DEF Commit, CommitRemoval, Blocked, End

-----------------------------------------------------------------------------
(* The world around them. *)

LEMMA StopStep ==
    ASSUME TypeOK, UpInv, Stop
    PROVE  TypeOK' /\ UpInv'
  <1> USE DEF UpInv
  <1> DEFINE H == Host
  <1>1. /\ pc # "idle" /\ H \in Hosts /\ pc' = "idle" /\ at' = 1 /\ run' = NoRun
        /\ UNCHANGED << index, tip, branch, base, uploaded, runs, submits >>
        /\ pc \in UpdateSteps => run.build \in Builds
    BY RunFacts DEF Stop, RunInv
  <1>2. \A h \in Hosts : MixAt(h) /\ CutAt(h)
    BY DEF MixInv, CutInv
  <1>3. /\ extract' \in [Hosts -> [Builds -> SUBSET {"clang", "musl", "half"}]]
        /\ \/ extract' = extract
           \/ /\ pc \in {"extract", "extract-musl"} /\ run.build \in Builds
              /\ \A h \in Hosts \ {H} : extract'[h] = extract[h]
              /\ \A b \in Builds \ {run.build} : extract'[H][b] = extract[H][b]
              /\ "musl" \in extract'[H][run.build] => pc = "extract-musl"
    <2>1. CASE extract' = extract
      BY <2>1 DEF TypeOK
    <2>2. CASE /\ pc \in {"extract", "extract-musl"}
               /\ extract' = [extract EXCEPT ![H][run.build] =
                      {"half"} \cup (IF pc = "extract-musl" THEN {"musl"} ELSE {})]
      <3>1. run.build \in Builds
        BY <1>1, <2>2 DEF UpdateSteps
      <3>2. extract \in [Hosts -> [Builds -> SUBSET {"clang", "musl", "half"}]]
        BY DEF TypeOK
      <3>3. \E s \in SUBSET {"clang", "musl", "half"} :
               /\ extract' = [extract EXCEPT ![H][run.build] = s]
               /\ "musl" \in s => pc = "extract-musl"
        <4> DEFINE s == {"half"} \cup (IF pc = "extract-musl" THEN {"musl"} ELSE {})
        <4>1. s \in SUBSET {"clang", "musl", "half"} /\ ("musl" \in s => pc = "extract-musl")
          OBVIOUS
        <4> QED
          BY <2>2, <4>1
      <3>4. PICK s \in SUBSET {"clang", "musl", "half"} :
               /\ extract' = [extract EXCEPT ![H][run.build] = s]
               /\ "musl" \in s => pc = "extract-musl"
        BY <3>3
      <3> QED
        BY <1>1, <2>2, <3>1, <3>2, <3>4
    <2> QED
      BY <2>1, <2>2 DEF Stop
  <1>4. /\ tree' \in [Hosts -> Dirs]
        /\ \A h \in Hosts : /\ tree'[h] = NoDir => tree[h] = NoDir
                            /\ tree'[h].build = tree[h].build
                            /\ "musl" \in tree'[h].main <=> "musl" \in tree[h].main
    <2>1. CASE tree' = tree
      BY <2>1 DEF TypeOK
    <2>2. CASE tree' = [tree EXCEPT ![H].main = @ \cup {"half"}]
      <3>1. tree[H] \in Dirs /\ tree \in [Hosts -> Dirs]
        BY <1>1 DEF TypeOK
      <3>2. tree' = [tree EXCEPT ![H] = [tree[H] EXCEPT !.main = tree[H].main \cup {"half"}]]
        BY <2>2, <3>1
      <3> DEFINE d == [tree[H] EXCEPT !.main = tree[H].main \cup {"half"}]
      <3>3. d \in Dirs /\ d.build = tree[H].build /\ d.main = tree[H].main \cup {"half"}
        BY <3>1 DEF Dirs
      <3>4. d # NoDir
        BY <3>3 DEF NoDir
      <3>5. "musl" \in d.main <=> "musl" \in tree[H].main
        BY <3>3
      <3> HIDE DEF d
      <3>6. tree' = [tree EXCEPT ![H] = d]
        BY <3>2 DEF d
      <3>7. tree' \in [Hosts -> Dirs] /\ tree'[H] = d /\ \A h \in Hosts \ {H} : tree'[h] = tree[h]
        BY <1>1, <3>1, <3>3, <3>6
      <3> QED
        BY <3>3, <3>4, <3>5, <3>7
    <2> QED
      BY <2>1, <2>2 DEF Stop
  <1>5. /\ mixed' \in [Hosts -> SUBSET Builds]
        /\ \A h \in Hosts : mixed[h] \subseteq mixed'[h]
        /\ pc \in {"extract-musl", "install-musl"} => run.build \in mixed'[H]
    <2>1. CASE pc \in {"extract-musl", "install-musl"}
      <3>1. mixed' = [mixed EXCEPT ![H] = @ \cup {run.build}] /\ run.build \in Builds
        BY <1>1, <2>1 DEF Stop, UpdateSteps
      <3> QED
        BY <1>1, <3>1 DEF TypeOK
    <2>2. CASE pc \notin {"extract-musl", "install-musl"}
      BY <2>2 DEF Stop, TypeOK
    <2> QED
      BY <2>1, <2>2
  <1>6. /\ cut' \subseteq Hosts /\ cut \subseteq cut'
        /\ pc \in {"install", "git-rm", "commit-removal"} => H \in cut'
    BY <1>1 DEF Stop, TypeOK
  <1>7. TypeOK'
    <2>1. stops' \in 0 .. MaxStops
      <3>1. stops < MaxStops /\ stops' = stops + 1 /\ stops \in 0 .. MaxStops /\ MaxStops \in Nat
        BY ConstantsAssumption DEF Stop, TypeOK
      <3> QED
        BY <3>1
    <2>2. download' \in [build : Builds \cup {"none"}, has : SUBSET Packages]
      <3> DEFINE D == [build : Builds \cup {"none"}, has : SUBSET Packages]
      <3>1. download \in D /\ NoDownload \in D /\ download' \in {download, NoDownload}
        BY DirFacts DEF TypeOK, Stop
      <3> HIDE DEF D
      <3>2. download' \in D
        BY <3>1
      <3> QED
        BY <3>2 DEF D
    <2>3. run' \in Arguments /\ at' \in 1 .. Len(AllHosts)
      BY <1>1, DirFacts, HostCount
    <2> QED
      BY <1>1, <1>3, <1>4, <1>5, <1>6, <2>1, <2>2, <2>3 DEF TypeOK
  <1>8. RunInv' /\ ExtractInv' /\ TreeInv' /\ CommitInv'
    BY <1>1 DEF RunInv, ExtractInv, TreeInv, CommitInv, UpdateSteps, RemoveSteps
  <1>9. ASSUME NEW h \in Hosts PROVE MixAt(h)'
    <2>1. MixAt(h)
      BY <1>2
    <2>2. ASSUME NEW b \in Builds, "musl" \in extract'[h][b] PROVE b \in mixed'[h]
      <3>1. CASE extract' = extract
        BY <1>5, <2>1, <2>2, <3>1 DEF MixAt
      <3>2. CASE extract' # extract /\ h = H /\ b = run.build
        BY <1>3, <1>5, <2>2, <3>2
      <3>3. CASE extract' # extract /\ ~(h = H /\ b = run.build)
        <4>1. extract'[h][b] = extract[h][b]
          BY <1>3, <3>3
        <4> QED
          BY <1>3, <1>5, <2>1, <2>2, <3>3, <4>1 DEF MixAt
      <3> QED
        BY <3>1, <3>2, <3>3
    <2>3. Unmixed(tree[h], h) => Unmixed(tree[h], h)'
      BY <1>4, <1>5 DEF Unmixed
    <2> QED
      BY <1>1, <1>5, <2>1, <2>2, <2>3 DEF MixAt, Unmixed
  <1>10. ASSUME NEW h \in Hosts PROVE CutAt(h)'
    <2>1. CutAt(h)
      BY <1>2
    <2> QED
      BY <1>1, <1>4, <1>6, <2>1 DEF CutAt
  <1>11. UploadedIsWhole' /\ UploadedIsChecked'
    BY <1>1 DEF UploadedIsWhole, UploadedIsChecked
  <1> QED
    BY <1>1, <1>7, <1>8, <1>9, <1>10, <1>11, GotoSuffices

LEMMA SubmitStep ==
    ASSUME TypeOK, UpInv, Submit
    PROVE  TypeOK' /\ UpInv'
  <1> USE DEF UpInv
  <1>1. /\ pc = "idle" /\ UNCHANGED << run, pc, at, download, extract, mixed, cut, runs, stops >>
        /\ base' = [h \in Hosts |-> uploaded[h].dir]
        /\ tree' = base' /\ index' = base' /\ tip' = base'
        /\ branch' = Everywhere("manifest") /\ uploaded' = Everywhere(NoUpload)
    BY DEF Submit
  <1>2. \A h \in Hosts : MixAt(h)
    BY DEF MixInv
  <1>3. TypeOK'
    <2>1. submits' \in 0 .. MaxSubmits
      <3>1. submits < MaxSubmits /\ submits' = submits + 1 /\ submits \in 0 .. MaxSubmits
            /\ MaxSubmits \in Nat
        BY ConstantsAssumption DEF Submit, TypeOK
      <3> QED
        BY <3>1
    <2>2. base' \in [Hosts -> Dirs]
      BY <1>1 DEF TypeOK, Uploads
    <2>3. branch' \in [Hosts -> Builds \cup {"manifest", "remove"}] /\ uploaded' \in [Hosts -> Uploads]
      BY <1>1, DirFacts DEF Everywhere
    <2> QED
      BY <1>1, <2>1, <2>2, <2>3 DEF TypeOK
  <1>4. RunInv' /\ ExtractInv' /\ TreeInv' /\ CommitInv'
    BY <1>1 DEF RunInv, ExtractInv, TreeInv, CommitInv, UpdateSteps, RemoveSteps
  <1>5. ASSUME NEW h \in Hosts PROVE MixAt(h)' /\ CutAt(h)'
    <2>1. /\ base'[h] = uploaded[h].dir /\ tree'[h] = base'[h] /\ index'[h] = base'[h]
          /\ tip'[h] = base'[h] /\ uploaded'[h] = NoUpload
      BY <1>1 DEF Everywhere
    <2>2. Unmixed(NoDir, h)'
      BY DEF Unmixed, NoDir
    <2>3. NoUpload.dir = NoDir
      BY DEF NoUpload
    <2>4. MixAt(h)
      BY <1>2
    <2> QED
      BY <1>1, <2>1, <2>2, <2>3, <2>4 DEF MixAt, CutAt, Unmixed
  <1>6. UploadedIsWhole' /\ UploadedIsChecked'
    BY <1>1, HostsFacts DEF UploadedIsWhole, UploadedIsChecked, Everywhere, NoUpload
  <1> QED
    BY <1>1, <1>4, <1>3, <1>5, <1>6, GotoSuffices

-----------------------------------------------------------------------------
(* The theorems. *)

LEMMA UpInvStep == TypeOK /\ UpInv /\ [Next]_vars => (TypeOK /\ UpInv)'
  <1> SUFFICES ASSUME TypeOK, UpInv, [Next]_vars PROVE TypeOK' /\ UpInv'
    OBVIOUS
  <1>1. CASE StartUpdate \/ StartRemove \/ FetchFails
    BY <1>1, IdleStep
  <1>2. CASE Fetch
    BY <1>2, FetchStep
  <1>3. CASE Branch
    BY <1>3, BranchStep
  <1>4. CASE Extract \/ ExtractMusl
    BY <1>4, ExtractStep
  <1>5. CASE Replace
    BY <1>5, ReplaceStep
  <1>6. CASE Install
    BY <1>6, InstallStep
  <1>7. CASE InstallMusl
    BY <1>7, InstallMuslStep
  <1>8. CASE Link
    BY <1>8, LinkStep
  <1>9. CASE Check
    BY <1>9, CheckStep
  <1>10. CASE Add
    BY <1>10, AddStep
  <1>11. CASE Commit \/ CommitRemoval \/ Blocked \/ End
    BY <1>11, LastStep
  <1>12. CASE RemoveDir
    BY <1>12, RemoveDirStep
  <1>13. CASE NothingToRemove
    BY <1>13, NothingToRemoveStep
  <1>14. CASE GitRm
    BY <1>14, GitRmStep
  <1>15. CASE Upload
    BY <1>15, UploadStep
  <1>16. CASE Stop
    BY <1>16, StopStep
  <1>17. CASE Submit
    BY <1>17, SubmitStep
  <1>18. CASE UNCHANGED vars
    <2>1. UNCHANGED << run, pc, at, download, extract, tree, index, tip, branch, base,
                       uploaded, mixed, cut, runs, stops, submits >>
      BY <1>18 DEF vars, repos, counters
    <2>2. TypeOK'
      BY <2>1 DEF TypeOK
    <2>3. RunInv' /\ ExtractInv' /\ TreeInv' /\ CommitInv'
      BY <2>1 DEF UpInv, RunInv, ExtractInv, TreeInv, CommitInv, Committed, Fresh, Host
    <2>4. MixInv'
      BY <2>1 DEF UpInv, MixInv, MixAt, Unmixed, Host
    <2>5. CutInv'
      BY <2>1 DEF UpInv, CutInv, CutAt, BlockedOnlyAfterStop, Host
    <2>6. UploadedIsWhole' /\ UploadedIsChecked'
      BY <2>1 DEF UpInv, UploadedIsWhole, UploadedIsChecked
    <2> QED
      BY <2>2, <2>3, <2>4, <2>5, <2>6 DEF UpInv
  <1> QED
    BY <1>1, <1>2, <1>3, <1>4, <1>5, <1>6, <1>7, <1>8, <1>9, <1>10, <1>11, <1>12, <1>13,
       <1>14, <1>15, <1>16, <1>17, <1>18 DEF Next

LEMMA UpInvHolds == Spec => [](TypeOK /\ UpInv)
  BY UpInvInit, UpInvStep, PTL DEF Spec

\* The repositories, the download and the arguments of both programs stay well formed.
THEOREM TypeTheorem == Spec => []TypeOK
  BY UpInvHolds, PTL

\* update-prebuilts.py uploads a toolchain only with all its parts, whatever earlier runs
\* left behind, because each of its steps leaves in the directory what the later ones
\* count on (TreeInv), and what is unpacked is complete when it is moved (ExtractInv).
THEOREM WholeTheorem == Spec => []UploadedIsWhole
  <1>1. TypeOK /\ UpInv => UploadedIsWhole
    BY DEF UpInv
  <1> QED
    BY <1>1, UpInvHolds, PTL

\* When the uploads begin each repository of the run has the commit of this run: the loops
\* commit in all of them first.
THEOREM AllOrNothingTheorem == Spec => []AllOrNothing
  <1>1. TypeOK /\ UpInv => AllOrNothing
    <2> SUFFICES ASSUME TypeOK, UpInv, pc = "upload", NEW h \in ToSet(run.hosts)
                 PROVE  IF run.kind = "remove" THEN tip[h] = NoDir
                        ELSE tip[h].build = run.build /\ tip[h].manifest
      BY DEF AllOrNothing
    <2>1. run.hosts \in HostLists
      BY DEF UpInv, RunInv
    <2>2. PICK j \in 1 .. Len(run.hosts) : run.hosts[j] = h
      BY <2>1, HostsFacts
    <2>3. Committed(run.hosts[j])
      BY DEF UpInv, CommitInv
    <2> QED
      BY <2>2, <2>3 DEF Committed, Whole
  <1> QED
    BY <1>1, UpInvHolds, PTL

\* A checked upload for Linux has profiles: the check stands between every installation
\* and the commit, also where the directory was found and not installed.
THEOREM CheckedTheorem == Spec => []UploadedIsChecked
  <1>1. TypeOK /\ UpInv => UploadedIsChecked
    BY DEF UpInv
  <1> QED
    BY <1>1, UpInvHolds, PTL

\* The libraries of musl get among those of glibc only after a stop between the two steps
\* that unpack and move them.
THEOREM MixedTheorem == Spec => []MixedOnlyAfterStop
  <1>1. TypeOK /\ UpInv => MixedOnlyAfterStop
    BY DEF UpInv, MixInv, MixAt, Unmixed, MixedOnlyAfterStop
  <1> QED
    BY <1>1, UpInvHolds, PTL

\* The assertion of remove_prebuilt fails only where there is nothing to remove or where a
\* run was once stopped between the deletion of the directory and the commit.
THEOREM BlockedTheorem == Spec => []BlockedOnlyAfterStop
  <1>1. TypeOK /\ UpInv => BlockedOnlyAfterStop
    BY DEF UpInv, CutInv
  <1> QED
    BY <1>1, UpInvHolds, PTL

=============================================================================
