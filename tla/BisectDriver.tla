---------------------------- MODULE BisectDriver ----------------------------
(***************************************************************************)
(* bisect_driver.py, which the compiler wrapper of the toolchain calls for   *)
(* every compilation while a bad object file is searched.  BISECT_STAGE is   *)
(* POPULATE_GOOD, then POPULATE_BAD - both compile and keep a copy of what    *)
(* the compiler wrote - then TRIAGE, in which objects come from one of the    *)
(* two caches.                                                              *)
(*                                                                         *)
(* make runs many wrappers at once; they share the two caches.  A build may  *)
(* be stopped anywhere and is then run again.  External, modelled from what  *)
(* the code says of them: the compiler, make, and the search tool that       *)
(* writes BISECT_BAD_SET and links the objects before a build.               *)
(***************************************************************************)
EXTENDS Naturals, FiniteSets

CONSTANTS
    Objects,     \* the object files that have been bisected
    Late,        \* object files that only a later build makes
    Sides,       \* for each, the side effects its command line names
    Linked,      \* those on the file system of the caches: there os.link works
    MaxFaults,   \* bound on stopped builds and failing compilations
    MaxRounds    \* bound on the builds of the triage

Compilers == {"good", "bad"}   \* GOOD_CACHE and BAD_CACHE
Files == {"o", "d", "dwo"}
All == Objects \cup Late

ASSUME ConstantsAssumption ==
    /\ Objects \cap Late = {}
    /\ Sides \in [All -> SUBSET (Files \ {"o"})]
    /\ Linked \subseteq All
    /\ MaxFaults \in Nat /\ MaxRounds \in Nat

VARIABLES
    stage,     \* BISECT_STAGE
    safe,      \* BISECT_WRAPPER_SAFE_MODE
    continue,  \* BISECT_CONTINUE_ON_MISSING
    badSet,    \* the objects that grep finds in the file BISECT_BAD_SET
    written,   \* for each object, the files the compiler writes
    cache,     \* the caches, by compiler, object and file
    list,      \* _LIST of each cache, as the set of its lines
    tree,      \* the build tree: whose output a file is, and what it is a link to
    pc, file,  \* the wrapper of each object: its step, the file it is at
    faults, rounds

session == << stage, safe, continue, badSet, written, faults, rounds >>
vars == << session, cache, list, tree, pc, file >>

NoFile == [by |-> "none", link |-> "no"]

CacheFiles == {"none", "partial", "good", "bad", "new"}
Caches == [Compilers -> [All -> [Files -> CacheFiles]]]
TreeFiles == {NoFile} \cup
    [by : CacheFiles \ {"none"}, link : {"no"} \cup Compilers]
Trees == [All -> [Files -> TreeFiles]]
Steps == { "waiting", "compile", "compiling", "cache", "copying", "list", "lookup",
           "remove", "restore", "link", "fetching", "done", "raised" }

TypeOK ==
    /\ stage \in Compilers \cup {"triage"}
    /\ safe \in BOOLEAN /\ continue \in BOOLEAN /\ badSet \subseteq All
    /\ written \in [All -> SUBSET Files]
    /\ cache \in Caches /\ list \in [Compilers -> SUBSET All] /\ tree \in Trees
    /\ pc \in [All -> Steps] /\ file \in [All -> Files]
    /\ faults \in 0 .. MaxFaults /\ rounds \in 0 .. MaxRounds

\* A compiler writes no .dwo for some inputs although -gsplit-dwarf is given.
Init ==
    /\ stage = "good" /\ safe = FALSE /\ continue \in BOOLEAN /\ badSet = {}
    /\ written \in [All -> SUBSET Files]
    /\ \A o \in All : {"o", "d"} \cap ({"o"} \cup Sides[o]) \subseteq written[o]
    /\ \A o \in All : written[o] \subseteq {"o"} \cup Sides[o]
    /\ cache = [c \in Compilers |-> [o \in All |-> [f \in Files |-> "none"]]]
    /\ list = [c \in Compilers |-> {}]
    /\ tree = [o \in All |-> [f \in Files |-> NoFile]]
    /\ pc = [o \in All |-> "waiting"] /\ file = [o \in All |-> "o"]
    /\ faults = 0 /\ rounds = 0

-----------------------------------------------------------------------------
(* Helpers. *)

\* which_cache: whatever grep does not find, also when it fails, is good.
Chosen(o) == IF o \in badSet THEN "bad" ELSE "good"

\* get_side_effects: the .d file first, then the .dwo.
SidesAfter(o, f) == IF f = "o" THEN Sides[o] ELSE IF f = "d" THEN Sides[o] \ {"d"} ELSE {}
First(S) == IF "d" \in S THEN "d" ELSE "dwo"

Exists(o, f) == tree[o][f].by # "none"
Put(o, f, what) == tree' = [tree EXCEPT ![o][f] = what]
Goto(o, step, f) == pc' = [pc EXCEPT ![o] = step] /\ file' = [file EXCEPT ![o] = f]

\* bisect_populate's loop over the side effects.
CacheNext(o) ==
    LET rest == SidesAfter(o, file[o])
    IN IF rest = {} THEN Goto(o, "done", "o") ELSE Goto(o, "cache", First(rest))

\* bisect_triage's loop, and the object after it, if it was pruned.
RestoreNext(o, rest) ==
    IF rest # {} THEN Goto(o, "restore", First(rest))
    ELSE IF ~Exists(o, "o") THEN Goto(o, "restore", "o")
    ELSE Goto(o, "done", "o")

-----------------------------------------------------------------------------
(* The wrapper. *)

\* make starts it: any number of them at a time.
Launch(o) ==
    /\ pc[o] = "waiting"
    /\ IF stage = "triage" THEN rounds < MaxRounds ELSE o \in Objects
    /\ pc' = [pc EXCEPT ![o] = IF stage = "triage" THEN "lookup" ELSE "compile"]
    /\ UNCHANGED << session, cache, list, tree, file >>

\* What the compiler writes in place, through a link into a cache if there is one: a
\* file that is opened for writing is cut and filled.  An object is a new file.
InPlace(o) == written[o] \ {"o"}

Write(o, by, object) ==
    /\ tree' = [tree EXCEPT ![o] = [f \in Files |->
           IF f = "o" THEN object
           ELSE IF f \in InPlace(o) THEN [tree[o][f] EXCEPT !.by = by] ELSE tree[o][f]]]
    /\ cache' = [c \in Compilers |-> [cache[c] EXCEPT ![o] = [f \in Files |->
           IF f \in InPlace(o) /\ tree[o][f].link = c THEN by ELSE cache[c][o][f]]]]

Output(o, by) == Write(o, by, [by |-> by, link |-> "no"])

\* exec_and_return, and what it returns.
BeginCompile(o) ==
    /\ pc[o] = "compile"
    /\ Write(o, "partial", tree[o]["o"])
    /\ Goto(o, "compiling", "o")
    /\ UNCHANGED << session, list >>

\* Faulty variant: the safe mode keeps what it has compiled.
CompileKept(o) ==
    /\ pc[o] = "compiling"
    /\ Output(o, IF stage = "triage" THEN "new" ELSE stage)
    /\ Goto(o, IF stage = "triage" THEN "done" ELSE "cache", "o")
    /\ UNCHANGED << session, list >>

EndCompile(o) ==
    /\ pc[o] = "compiling"
    /\ Output(o, IF stage = "triage" THEN "new" ELSE stage)
    /\ IF stage # "triage" THEN Goto(o, "cache", "o")
       ELSE IF o \in list["good"] THEN Goto(o, "remove", "o")
       ELSE Goto(o, "done", "o")
    /\ UNCHANGED << session, list >>

\* A compiler that fails leaves no object, and may remove what else it has begun.
Fail(o) ==
    /\ pc[o] \in {"compile", "compiling"} /\ faults < MaxFaults
    /\ \E gone \in SUBSET InPlace(o) :
           tree' = [tree EXCEPT ![o] = [f \in Files |->
               IF f \in gone \cup {"o"} THEN NoFile ELSE tree[o][f]]]
    /\ faults' = faults + 1
    /\ UNCHANGED << stage, safe, continue, badSet, written, rounds, cache, list >>

\* Faulty variant: the return value is not looked at.
CompileFailsUnseen(o) ==
    /\ Fail(o)
    /\ Goto(o, IF stage = "triage" THEN "done" ELSE "cache", "o")

\* The return value is dropped by bisect_driver: to make it is a success.
CompileFails(o) ==
    /\ Fail(o)
    /\ Goto(o, "done", "o")

\* Faulty variant: the copy is started and not waited for.
BeginCopyOnly(o) ==
    /\ pc[o] = "cache" /\ Exists(o, file[o])
    /\ cache' = [cache EXCEPT ![stage][o][file[o]] = "partial"]
    /\ IF file[o] = "o" THEN Goto(o, "list", "o") ELSE CacheNext(o)
    /\ UNCHANGED << session, list, tree >>

\* cache_file: copy2 is not atomic; a file that is not there is passed over.
BeginCopy(o) ==
    /\ pc[o] = "cache" /\ Exists(o, file[o])
    /\ cache' = [cache EXCEPT ![stage][o][file[o]] = "partial"]
    /\ Goto(o, "copying", file[o])
    /\ UNCHANGED << session, list, tree >>

EndCopy(o) ==
    /\ pc[o] = "copying"
    /\ cache' = [cache EXCEPT ![stage][o][file[o]] = tree[o][file[o]].by]
    /\ IF file[o] = "o" THEN Goto(o, "list", "o") ELSE CacheNext(o)
    /\ UNCHANGED << session, list, tree >>

\* Faulty variant: a file that is not there is an error.
SkipCopyRaises(o) ==
    /\ pc[o] = "cache" /\ ~Exists(o, file[o])
    /\ Goto(o, "raised", file[o])
    /\ UNCHANGED << session, cache, list, tree >>

SkipCopy(o) ==
    /\ pc[o] = "cache" /\ ~Exists(o, file[o])
    /\ IF file[o] = "o" THEN Goto(o, "list", "o") ELSE CacheNext(o)
    /\ UNCHANGED << session, cache, list, tree >>

\* Faulty variant: the side effects are not cached.
ListLast(o) ==
    /\ pc[o] = "list"
    /\ list' = [list EXCEPT ![stage] = @ \cup {o}]
    /\ Goto(o, "done", "o")
    /\ UNCHANGED << session, cache, tree >>

\* One line, written under an exclusive lock.
List(o) ==
    /\ pc[o] = "list"
    /\ list' = [list EXCEPT ![stage] = @ \cup {o}]
    /\ CacheNext(o)
    /\ UNCHANGED << session, cache, tree >>

\* bisect_triage up to the choice between compiling and linking.
Lookup(o) ==
    /\ pc[o] = "lookup" /\ o \in list["good"]
    /\ IF safe THEN Goto(o, "compile", "o") ELSE RestoreNext(o, Sides[o])
    /\ UNCHANGED << session, cache, list, tree >>

NotListed(o) ==
    /\ pc[o] = "lookup" /\ o \notin list["good"]
    /\ Goto(o, IF continue THEN "compile" ELSE "raised", "o")
    /\ UNCHANGED << session, cache, list, tree >>

\* os.remove of the object that the safe mode has just compiled.
RemoveCompiled(o) ==
    /\ pc[o] = "remove"
    /\ Put(o, "o", NoFile)
    /\ Goto(o, "restore", "o")
    /\ UNCHANGED << session, cache, list >>

\* Faulty variant: the file is copied over the old one, which may be a link.
RestoreOver(o) ==
    /\ pc[o] = "restore" /\ cache[Chosen(o)][o][file[o]] # "none"
    /\ LET from == cache[Chosen(o)][o][file[o]]
       IN /\ Put(o, file[o], [tree[o][file[o]] EXCEPT !.by = from])
          /\ cache' = [c \in Compilers |-> [cache[c] EXCEPT ![o][file[o]] =
                 IF tree[o][file[o]].link = c THEN from ELSE @]]
    /\ Goto(o, "link", file[o])
    /\ UNCHANGED << session, list >>

\* Faulty variant: it is not asked whether the cache has the file.
RemoveUnasked(o) ==
    /\ pc[o] = "restore"
    /\ Put(o, file[o], NoFile)
    /\ Goto(o, "link", file[o])
    /\ UNCHANGED << session, cache, list >>

\* restore_file
RemoveOld(o) ==
    /\ pc[o] = "restore" /\ cache[Chosen(o)][o][file[o]] # "none"
    /\ Put(o, file[o], NoFile)
    /\ Goto(o, "link", file[o])
    /\ UNCHANGED << session, cache, list >>

Missing(o) ==
    /\ pc[o] = "restore" /\ cache[Chosen(o)][o][file[o]] = "none"
    /\ Goto(o, "raised", file[o])
    /\ UNCHANGED << session, cache, list, tree >>

AfterRestored(o) ==
    IF file[o] = "o" THEN Goto(o, "done", "o") ELSE RestoreNext(o, SidesAfter(o, file[o]))

\* os.link
Link(o) ==
    /\ pc[o] = "link" /\ o \in Linked
    /\ Put(o, file[o], [by |-> cache[Chosen(o)][o][file[o]], link |-> Chosen(o)])
    /\ AfterRestored(o)
    /\ UNCHANGED << session, cache, list >>

\* The OSError of os.link: copyfile, which is not atomic.
BeginFetch(o) ==
    /\ pc[o] = "link" /\ o \notin Linked
    /\ Put(o, file[o], [by |-> "partial", link |-> "no"])
    /\ Goto(o, "fetching", file[o])
    /\ UNCHANGED << session, cache, list >>

EndFetch(o) ==
    /\ pc[o] = "fetching"
    /\ Put(o, file[o], [by |-> cache[Chosen(o)][o][file[o]], link |-> "no"])
    /\ AfterRestored(o)
    /\ UNCHANGED << session, cache, list >>

Wrapper(o) ==
    \/ Launch(o) \/ BeginCompile(o) \/ EndCompile(o) \/ CompileFails(o)
    \/ BeginCopy(o) \/ EndCopy(o) \/ SkipCopy(o) \/ List(o)
    \/ Lookup(o) \/ NotListed(o) \/ RemoveCompiled(o) \/ RemoveOld(o) \/ Missing(o)
    \/ Link(o) \/ BeginFetch(o) \/ EndFetch(o)

-----------------------------------------------------------------------------
(* make and the search. *)

\* The build is stopped, with all its wrappers, and started again: what had not
\* returned is run again.
Stop ==
    /\ faults < MaxFaults
    /\ \E o \in All : pc[o] \notin {"waiting", "done"}
    /\ pc' = [o \in All |-> IF pc[o] = "done" THEN "done" ELSE "waiting"]
    /\ file' = [o \in All |-> "o"]
    /\ faults' = faults + 1
    /\ UNCHANGED << stage, safe, continue, badSet, written, rounds, cache, list, tree >>

\* make finds no object where a wrapper has returned, and runs it again.
Rerun(o) ==
    /\ pc[o] = "done" /\ ~Exists(o, "o")
    /\ pc' = [pc EXCEPT ![o] = "waiting"]
    /\ UNCHANGED << session, cache, list, tree, file >>

Built == {o \in All : pc[o] = "done" /\ Exists(o, "o")}

Fresh == pc' = [o \in All |-> "waiting"] /\ file' = [o \in All |-> "o"]

\* A populating build is complete; the next stage starts from a clean tree.
NextStage ==
    /\ stage \in Compilers /\ Objects \subseteq Built
    /\ stage' = IF stage = "good" THEN "bad" ELSE "triage"
    /\ Fresh
    /\ tree' = [o \in All |-> [f \in Files |-> NoFile]]
    /\ rounds' = IF stage = "bad" THEN MaxRounds ELSE rounds
    /\ UNCHANGED << safe, continue, badSet, written, faults, cache, list >>

\* The search chooses a set of bad objects, links the objects from the caches - some
\* of them are pruned again - and starts a build.
Search ==
    /\ stage = "triage" /\ rounds > 0
    /\ \A o \in All : pc[o] \in {"waiting", "done"}
    /\ rounds' = rounds - 1
    /\ badSet' \in SUBSET Objects /\ safe' \in BOOLEAN
    /\ \E pruned \in SUBSET Objects :
           tree' = [o \in All |->
               LET from == IF o \in badSet' THEN "bad" ELSE "good"
               IN IF o \in Late THEN tree[o]
                  ELSE [tree[o] EXCEPT !["o"] = IF o \in pruned THEN NoFile
                            ELSE [by |-> cache[from][o]["o"],
                                      link |-> IF o \in Linked THEN from ELSE "no"]]]
    /\ Fresh
    /\ UNCHANGED << stage, continue, written, faults, cache, list >>

Next == Stop \/ NextStage \/ Search \/ \E o \in All : Wrapper(o) \/ Rerun(o)

\* make goes on until all its targets are there.
Fairness ==
    /\ WF_vars(NextStage)
    /\ \A o \in All : WF_vars(Wrapper(o)) /\ WF_vars(Rerun(o))

Spec == Init /\ [][Next]_vars /\ Fairness

-----------------------------------------------------------------------------
(* Properties. *)

\* Whatever has been stopped: a name in _LIST has an object in that cache, so that
\* triage, which looks only into the list, does not promise make a file that is not there.
ListedIsCached ==
    \A c \in Compilers : \A o \in list[c] : cache[c][o]["o"] # "none"

\* Once both caches are populated they hold every file their compiler wrote, although
\* wrappers were stopped in the middle of copying or compiled in vain, and although the
\* build tree then consists of links into the caches: an object is always its compiler's
\* and whole.  A side effect is too, unless it is linked; then a compilation of the triage
\* may have written over it.
CachesStayWhole ==
    stage = "triage" =>
        \A c \in Compilers, o \in Objects :
            /\ cache[c][o]["o"] = c
            /\ \A f \in InPlace(o) :
                  cache[c][o][f] = c \/ (o \in Linked /\ cache[c][o][f] \in {"partial", "new"})

\* In the triage a cache changes in one way only: a compilation of the safe mode writes a
\* side effect, of which the tree has a link to just that cache.  As long as no build
\* uses the safe mode, both caches stay what the populating builds made them.
OnlySafeModeRewrites ==
    [][stage = "triage" =>
           \A c \in Compilers, o \in All, f \in Files :
               cache'[c][o][f] # cache[c][o][f] => safe /\ f # "o" /\ tree[o][f].link = c]_vars

\* "Unsure how to proceed.  Make will now crash": only for a side effect that the compiler
\* never wrote, or for an object that was not there when the caches were populated.
RaisedForGoodReason ==
    \A o \in All : pc[o] = "raised" =>
        IF o \in Late THEN ~continue ELSE file[o] \notin written[o]

\* A bisection gets to its triage.
PopulateEnds == <>(stage = "triage")

\* The wrappers, caches and links implement BisectSession: an object counts as recorded
\* when it is listed and all its files are in the cache (nothing of it half copied while
\* that is populated), and as delivered when its wrapper has returned and the object is
\* there.  Only one that has to be copied, not linked, may be delivered torn.
Recorded(c) == {o \in Objects \cap list[c] : \A f \in written[o] :
                   cache[c][o][f] \notin {"none"} \cup (IF stage = "triage" THEN {} ELSE {"partial"})}

Session == INSTANCE BisectSession WITH
    Copied <- Objects \ Linked,
    recorded <- [c \in Compilers |-> Recorded(c)],
    wanted <- [o \in Objects |-> Chosen(o)],
    object <- [o \in Objects |-> tree[o]["o"].by],
    delivered <- {o \in Objects : pc[o] = "done" /\ Exists(o, "o")}

ImplementsSession == Session!Spec
=============================================================================
