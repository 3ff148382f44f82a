----------------------------- MODULE PatchList -----------------------------
(***************************************************************************)
(* The list of patches to LLVM, patches/PATCHES.json, with its patch files, in *)
(* the working tree, the index and the last commit of git.  It is changed by   *)
(* cherrypick_cl.py, which adds upstream patches and sorts the list, by         *)
(* trim_patch_data.py, which removes what LLVM has by now, and by hand.         *)
(*                                                                         *)
(* One developer runs one program at a time; each may be stopped anywhere, and *)
(* the next one works on what is left.  External: git, patch_manager.py (it     *)
(* removes the entries that end at the version of LLVM or before), the          *)
(* developer.  The branch that trim_patch_data.py starts is taken to be at the   *)
(* last commit.                                                               *)
(***************************************************************************)
EXTENDS Naturals, Sequences, FiniteSets

CONSTANTS
    Upstream,   \* upstream commits
    Local,      \* local patches
    UntilOf,    \* the revision of an upstream commit
    LastRevision,
    Starts,     \* the revisions that --start-version is given
    MaxRuns,    \* bound on the runs of the programs
    MaxStops,   \* bound on the runs that are stopped, or fail in git
    MaxEdits    \* bound on what the developer does between runs

NoEnd == LastRevision + 1
NoStart == LastRevision + 1
Patches == Upstream \cup Local
Entries == [patch : Patches, from : 1 .. NoStart, until : 1 .. NoEnd]

ASSUME ConstantsAssumption ==
    /\ Upstream \cap Local = {}
    /\ LastRevision \in Nat \ {0} /\ UntilOf \in [Upstream -> 1 .. LastRevision]
    /\ Starts \subseteq 1 .. LastRevision
    /\ MaxRuns \in Nat /\ MaxStops \in Nat /\ MaxEdits \in Nat

VARIABLES
    list,       \* PATCHES.json in the working tree
    cut,        \* it has been opened for writing and is empty
    file,       \* the patch files in the working tree
    index, head,    \* what git has staged and committed: the list, and the patch files
    svn,        \* the version of LLVM (android_version.py)
    pc,
    createCL,   \* --create-cl, with a reason
    start,      \* --start-version, while a run formats patches
    todo,       \* the commits of --sha that are still to be formatted
    loaded,     \* the list as read, with the new entries
    added,      \* the patches this run has added, or that it is to remove
    loose,      \* patches of runs that ended after they had listed them and before a commit
    runs, stops, edits

vars == << list, cut, file, index, head, svn, pc, createCL, start, todo, loaded, added,
           loose, runs, stops, edits >>
git == << index, head >>
tree == << list, cut, file >>
bounds == << runs, stops, edits >>

Snapshots == [list : Seq(Entries), files : SUBSET Patches]
Steps == {"idle", "pick", "format", "save", "verify", "create", "add", "commit",
          "trim", "stage", "remove"}

TypeOK ==
    /\ list \in Seq(Entries) /\ cut \in BOOLEAN
    /\ file \in [Patches -> {"none", "partial", "whole"}]
    /\ index \in Snapshots /\ head \in Snapshots
    /\ svn \in 1 .. LastRevision /\ pc \in Steps /\ createCL \in BOOLEAN
    /\ start \in 1 .. NoStart /\ todo \in Seq(Upstream) /\ loaded \in Seq(Entries)
    /\ added \subseteq Patches /\ loose \subseteq Patches
    /\ runs \in 0 .. MaxRuns /\ stops \in 0 .. MaxStops /\ edits \in 0 .. MaxEdits

Init ==
    /\ list = << >> /\ cut = FALSE /\ file = [p \in Patches |-> "none"]
    /\ head = [list |-> << >>, files |-> {}] /\ index = head
    /\ svn = 1 /\ pc = "idle" /\ createCL = FALSE
    /\ start = NoStart /\ todo = << >> /\ loaded = << >> /\ added = {} /\ loose = {}
    /\ runs = 0 /\ stops = 0 /\ edits = 0

-----------------------------------------------------------------------------
(* The order of the list. *)

is_local_patch(e) == e.patch \in Local

\* Faulty variant: those without an end are not sorted by their start.
sort_keyNoStart(e) ==
    IF is_local_patch(e) THEN 2 * NoEnd
    ELSE IF e.until = NoEnd THEN NoEnd
    ELSE e.until

\* The place of an entry: by ascending end, then those without an end by their start,
\* then the local ones.
sort_key(e) ==
    IF is_local_patch(e) THEN 2 * NoEnd
    ELSE IF e.until = NoEnd THEN LastRevision + e.from
    ELSE e.until

\* Two of those without an end cannot be compared if one of them has no start: None < 1 is
\* a TypeError, and sorting compares what ends up side by side.
Comparable(s) ==
    LET starts == {s[i].from : i \in {j \in DOMAIN s : ~is_local_patch(s[j]) /\ s[j].until = NoEnd}}
    IN NoStart \in starts => starts = {NoStart}

Before(key, i, j) == key[i] < key[j] \/ (key[i] = key[j] /\ i < j)

Places(I, key) == [i \in I |-> Cardinality({j \in I : ~Before(key, i, j)})]

\* The entries at the positions I of s, by ascending key; those of one key keep their order.
Arranged(s, I, key) ==
    LET place == Places(I, key)
    IN [n \in 1 .. Cardinality(I) |-> s[CHOOSE i \in I : place[i] = n]]

\* list.sort() is stable.
Sorted(s) == Arranged(s, DOMAIN s, [i \in DOMAIN s |-> sort_key(s[i])])

PatchesOf(s) == {s[i].patch : i \in DOMAIN s}

Quit == /\ pc' = "idle" /\ createCL' = FALSE /\ start' = NoStart /\ todo' = << >>
        /\ loaded' = << >> /\ added' = {}

-----------------------------------------------------------------------------
(* cherrypick_cl.py *)

\* A revision, or "llvm".
parse_start_version == Starts \cup {svn}

\* The list is read, which fails if it was cut.  Without --sha it is only sorted.
StartPick ==
    /\ pc = "idle" /\ runs < MaxRuns /\ runs' = runs + 1 /\ ~cut
    /\ todo' \in UNION {[1 .. n -> Upstream] : n \in 0 .. 2}
    /\ createCL' \in BOOLEAN
    /\ start' \in IF todo' = << >> THEN {NoStart} ELSE parse_start_version
    /\ loaded' = list /\ pc' = "pick"
    /\ UNCHANGED << tree, git, svn, added, loose, stops, edits >>

\* Faulty variant: without the assertion.
OpenPatchAgain ==
    /\ pc = "pick" /\ todo # << >>
    /\ file' = [file EXCEPT ![Head(todo)] = "partial"]
    /\ pc' = "format"
    /\ UNCHANGED << list, cut, git, svn, createCL, start, todo, loaded, added, loose, bounds >>

\* A patch file that exists is not written again (an assertion); the file is opened
\* before git format-patch is called.
OpenPatch ==
    /\ pc = "pick" /\ todo # << >>
    /\ IF file[Head(todo)] = "none"
       THEN /\ file' = [file EXCEPT ![Head(todo)] = "partial"]
            /\ pc' = "format" /\ UNCHANGED << createCL, start, todo, loaded, added >>
       ELSE Quit /\ UNCHANGED file
    /\ UNCHANGED << list, cut, git, svn, loose, bounds >>

\* Faulty variant: the entry starts one revision before --start-version.
FormatPatchEarly ==
    /\ pc = "format"
    /\ LET p == Head(todo)
       IN /\ file' = [file EXCEPT ![p] = "whole"]
          /\ loaded' = Append(loaded, [patch |-> p, from |-> start - 1, until |-> UntilOf[p]])
          /\ added' = added \cup {p}
    /\ todo' = Tail(todo) /\ pc' = "pick"
    /\ UNCHANGED << list, cut, git, svn, createCL, start, loose, bounds >>

\* The entry is valid from --start-version, by default the version of LLVM, up to the commit
\* itself.
FormatPatch ==
    /\ pc = "format"
    /\ LET p == Head(todo)
       IN /\ file' = [file EXCEPT ![p] = "whole"]
          /\ loaded' = Append(loaded, [patch |-> p, from |-> start, until |-> UntilOf[p]])
          /\ added' = added \cup {p}
    /\ todo' = Tail(todo) /\ pc' = "pick"
    /\ UNCHANGED << list, cut, git, svn, createCL, start, loose, bounds >>

\* The list is sorted, which may fail, and written, which cuts it first.
OpenList ==
    /\ pc = "pick" /\ todo = << >>
    /\ IF Comparable(loaded)
       THEN cut' = TRUE /\ pc' = "save" /\ UNCHANGED << createCL, start, todo, loaded, added >>
       ELSE Quit /\ UNCHANGED cut
    /\ UNCHANGED << list, file, git, svn, loose, bounds >>

SaveList ==
    /\ pc = "save"
    /\ list' = Sorted(loaded) /\ cut' = FALSE
    /\ pc' = "verify"
    /\ UNCHANGED << file, git, svn, createCL, start, todo, loaded, added, loose, bounds >>

\* --verify-merge is setup_sources (SourceSetup): it may find that a patch does not apply.
\* create_cl needs the commits of --sha.
Verify ==
    /\ pc = "verify"
    /\ \/ createCL /\ added # {} /\ pc' = "add" /\ UNCHANGED << createCL, start, todo, loaded, added, loose >>
       \/ Quit /\ loose' = loose \cup added
    /\ UNCHANGED << tree, git, svn, bounds >>

\* Faulty variant: only the list is added.
AddListOnly ==
    /\ pc = "add"
    /\ index' = [index EXCEPT !.list = list]
    /\ pc' = "commit"
    /\ UNCHANGED << tree, head, svn, createCL, start, todo, loaded, added, loose, bounds >>

\* The files of the new patches, and the whole list.
AddFiles ==
    /\ pc = "add"
    /\ index' = [list |-> list, files |-> index.files \cup added]
    /\ pc' = "commit"
    /\ UNCHANGED << tree, head, svn, createCL, start, todo, loaded, added, loose, bounds >>

\* Of both programs.  git commit fails if nothing is staged.
Commit ==
    /\ pc = "commit"
    /\ head' = index /\ Quit
    /\ UNCHANGED << tree, index, svn, loose, bounds >>

-----------------------------------------------------------------------------
(* trim_patch_data.py *)

Expired == {p \in Patches : \E i \in DOMAIN list : list[i].patch = p /\ list[i].until <= svn}

\* The list without what has expired, in its order.
Trimmed == Arranged(list, {i \in DOMAIN list : list[i].until > svn}, [i \in DOMAIN list |-> 0])

\* patch_manager.py rewrites the list and prints what it removed.
TrimList ==
    /\ pc = "idle" /\ runs < MaxRuns /\ runs' = runs + 1 /\ ~cut
    /\ IF Expired = {} THEN Quit /\ UNCHANGED list
       ELSE /\ list' = Trimmed
            /\ added' = Expired /\ pc' = "stage"
            /\ UNCHANGED << createCL, start, todo, loaded >>
    /\ UNCHANGED << cut, file, git, svn, loose, stops, edits >>

\* Every patch must have its file; then git add of the list.
StageList ==
    /\ pc = "stage"
    /\ IF \E p \in added : file[p] = "none" THEN Quit /\ UNCHANGED index
       ELSE /\ index' = [index EXCEPT !.list = list]
            /\ pc' = "remove" /\ UNCHANGED << createCL, start, todo, loaded, added >>
    /\ UNCHANGED << tree, head, svn, loose, bounds >>

\* git rm, one file after the other: it refuses a file that is not committed.
RemovePatch ==
    /\ pc = "remove" /\ added # {}
    /\ \E p \in added :
           IF p \in index.files \cap head.files
           THEN /\ file' = [file EXCEPT ![p] = "none"]
                /\ index' = [index EXCEPT !.files = @ \ {p}]
                /\ added' = added \ {p} /\ UNCHANGED << pc, createCL, start, todo, loaded >>
           ELSE Quit /\ UNCHANGED << file, index >>
    /\ UNCHANGED << list, cut, head, svn, loose, bounds >>

TrimDone ==
    /\ pc = "remove" /\ added = {} /\ pc' = "commit"
    /\ UNCHANGED << tree, git, svn, createCL, start, todo, loaded, added, loose, bounds >>

-----------------------------------------------------------------------------
(* The world around. *)

\* A program is stopped, or git fails.
Stop ==
    /\ pc # "idle" /\ stops < MaxStops /\ stops' = stops + 1
    /\ Quit
    /\ loose' = IF pc \in {"verify", "add", "commit"} THEN loose \cup added ELSE loose
    /\ UNCHANGED << tree, git, svn, runs, edits >>

\* README.md, step 3: a patch is written by hand and added at the end of the list, which
\* is committed as a whole.
AddByHand ==
    /\ pc = "idle" /\ edits < MaxEdits /\ edits' = edits + 1 /\ ~cut
    /\ \E p \in Patches, from \in Starts \cup {svn, NoStart}, until \in {svn + 1, NoEnd} :
           /\ file[p] = "none"
           /\ file' = [file EXCEPT ![p] = "whole"]
           /\ list' = Append(list, [patch |-> p, from |-> from, until |-> until])
           /\ index' = [list |-> list', files |-> index.files \cup {p}]
           /\ head' = index'
    /\ UNCHANGED << cut, svn, pc, createCL, start, todo, loaded, added, loose, runs, stops >>

\* git reset --hard: what git does not know stays.
Reset ==
    /\ pc = "idle" /\ edits < MaxEdits /\ edits' = edits + 1
    /\ list' = head.list /\ cut' = FALSE
    /\ file' = [p \in Patches |->
                   IF p \in head.files THEN "whole"
                   ELSE IF p \in index.files THEN "none" ELSE file[p]]
    /\ index' = head
    /\ UNCHANGED << head, svn, pc, createCL, start, todo, loaded, added, loose, runs, stops >>

\* android_version.py moves to a later revision.
Roll ==
    /\ pc = "idle" /\ svn < LastRevision /\ svn' = svn + 1
    /\ UNCHANGED << tree, git, pc, createCL, start, todo, loaded, added, loose, bounds >>

Next ==
    \/ StartPick \/ OpenPatch \/ FormatPatch \/ OpenList \/ SaveList \/ Verify
    \/ AddFiles \/ Commit
    \/ TrimList \/ StageList \/ RemovePatch \/ TrimDone
    \/ Stop \/ AddByHand \/ Reset \/ Roll

Spec == Init /\ [][Next]_vars

-----------------------------------------------------------------------------
(* Properties. *)

\* patch_manager.py reads the file of every entry, and a patch cannot be applied twice:
\* whatever was stopped, a list that can be read names whole files only, each once.
ListedPatchesExist ==
    ~cut =>
        /\ \A i \in DOMAIN list : file[list[i].patch] = "whole"
        /\ \A i, j \in DOMAIN list : list[i].patch = list[j].patch => i = j

\* What others check out: a committed list names a patch that is not committed only if an
\* earlier run listed it without committing it (create_cl adds its own patches only, but
\* the list as a whole).
CommitsAreComplete == PatchesOf(head.list) \subseteq head.files \cup loose

\* The order of two entries that sort_key's comments ask for.
At(s, e) == CHOOSE i \in DOMAIN s : s[i] = e

Ordered(a, b) ==
    LET kept == At(loaded, a) < At(loaded, b)
    IN \/ a.patch \in Upstream /\ b.patch \in Local
       \/ a.patch \in Local /\ b.patch \in Local /\ kept
       \/ /\ a.patch \in Upstream /\ b.patch \in Upstream
          /\ \/ a.until < b.until
             \/ a.until = b.until /\ a.until # NoEnd /\ kept
             \/ a.until = b.until /\ a.until = NoEnd /\ (a.from < b.from \/ (a.from = b.from /\ kept))

\* The comments of sort_key: what a run writes has the entries it read and the new ones;
\* local patches come last and keep their order; upstream patches are in the order of
\* their end, whatever the order of --sha, and those of one end keep theirs; those without
\* an end come after them, by their start.
SortedAsDocumented ==
    [][SaveList =>
         /\ {list'[i] : i \in DOMAIN list'} = {loaded[i] : i \in DOMAIN loaded}
         /\ Len(list') = Len(loaded)
         /\ \A i, j \in DOMAIN list' : i < j => Ordered(list'[i], list'[j])]_vars
=============================================================================
