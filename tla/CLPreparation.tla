--------------------------- MODULE CLPreparation ---------------------------
(***************************************************************************)
(* prepareCLs of test_prebuilts.py: before a toolchain build is tested there *)
(* must be a Gerrit change with the prebuilt, one that switches build/soong    *)
(* to it, and one that switches kernel/common.  A change is looked up in a     *)
(* table (data.py), or adopted from the command line, or uploaded (gerrit.py   *)
(* and, for the kernel, update_kernel_toolchain.py) and then recorded.         *)
(*                                                                         *)
(* Several people test at the same time.  Every program reads the tables when  *)
(* it starts and writes a table as a whole; it may be stopped anywhere.        *)
(* External: Gerrit with its users, the file system of the tables, git and     *)
(* repo.  update-prebuilts.py, a module of its own, is one step here.          *)
(***************************************************************************)
EXTENDS Naturals, Sequences, FiniteSets

CONSTANTS
    Testers,    \* the people who run test_prebuilts.py, each with a kernel tree
    Builds, Revisions,
    RevOf,      \* the revision of a build
    Lettered,   \* the revisions that end in a letter (r487747c)
    MaxCLs,     \* bound on the changes in Gerrit
    MaxTroubles \* bound on stopped programs, failing uploads and on what others do to changes

Kinds == {"prebuilt", "soong", "kernel"}
Keys(k) == IF k = "prebuilt" THEN Builds ELSE Revisions

ASSUME ConstantsAssumption ==
    /\ RevOf \in [Builds -> Revisions] /\ Lettered \subseteq Revisions
    /\ Builds \cap Revisions = {}
    /\ "by-hand" \notin Builds \cup Revisions
    /\ MaxCLs \in Nat \ {0} /\ MaxTroubles \in Nat

VARIABLES
    gerrit,     \* the changes, by number
    cns,        \* the tables as files
    table,      \* the tables in the memory of each program
    pc, at,     \* the next step of each program, and the change it prepares
    build,      \* --build (the other arguments are chosen where they are looked at)
    new,        \* the change that is to be recorded, as it was read
    cls,        \* what prepareCLs has found, with the key it read there
    kernelTree, \* of each tester: the revision of HEAD, and what is not pushed
    forgotten,  \* for each table, the keys a row of which was never written, or lost
    troubles

vars == << gerrit, cns, table, pc, at, build, new, cls, kernelTree, forgotten, troubles >>

\* How the diff of a kernel change names the revision: in a path, clang-<revision>/bin, or
\* in a variable, CLANG_VERSION=<revision>.
Forms(k) == IF k = "kernel" THEN {"path", "variable"} ELSE {"other"}

\* made: the key a program made it for, or "by-hand".  trivial: changes nothing but the
\* version of clang.
Changes == [kind : Kinds, key : Builds \cup Revisions, merged : BOOLEAN, conflict : BOOLEAN,
            made : Builds \cup Revisions \cup {"by-hand"}, trivial : BOOLEAN,
            form : {"path", "variable", "other"}]
Numbers == 1 .. MaxCLs
Rows == [key : Builds \cup Revisions, cl : Numbers]
Reads == [cl : 0 .. MaxCLs, key : Builds \cup Revisions \cup {"none"}]
NoCL == [cl |-> 0, key |-> "none"]
Empty == [k \in Kinds |-> {}]

TypeOK ==
    /\ gerrit \in Seq(Changes) /\ Len(gerrit) <= MaxCLs
    /\ cns \in [Kinds -> SUBSET Rows]
    /\ table \in [Testers -> [Kinds -> SUBSET Rows]]
    /\ pc \in [Testers -> {"idle", "find", "push", "read-back", "record", "ready"}]
    /\ at \in [Testers -> Kinds]
    /\ build \in [Testers -> Builds \cup {"none"}]
    /\ new \in [Testers -> Reads] /\ cls \in [Testers -> [Kinds -> Reads]]
    /\ kernelTree \in [Testers -> [head : Revisions \cup {"none"}, unpushed : SUBSET Revisions]]
    /\ forgotten \in [Kinds -> SUBSET (Builds \cup Revisions)]
    /\ troubles \in 0 .. MaxTroubles

\* What the programs write: update_kernel_toolchain.py puts a kernel's revision in a variable.
Created(k, key) == [kind |-> k, key |-> key, merged |-> FALSE, conflict |-> FALSE,
                    made |-> key, trivial |-> TRUE,
                    form |-> IF k = "kernel" THEN "variable" ELSE "other"]

Clean == [head |-> "none", unpushed |-> {}]

\* What went before: somebody made a change by hand, or update_kernel_toolchain.py was
\* stopped in one of the kernel trees between its commit and the push.
Init ==
    /\ \/ /\ kernelTree = [t \in Testers |-> Clean]
          /\ \E k \in Kinds, trivial \in BOOLEAN : \E key \in Keys(k), form \in Forms(k) :
                 /\ k # "soong" => trivial
                 /\ gerrit = << [Created(k, key) EXCEPT !.made = "by-hand", !.trivial = trivial,
                                                        !.form = form] >>
       \/ /\ \E r \in Lettered, old \in Testers :
                 kernelTree = [[t \in Testers |-> Clean] EXCEPT ![old] =
                                  [head |-> r, unpushed |-> {r}]]
          /\ gerrit = << >>
    /\ cns = Empty
    /\ table = [t \in Testers |-> Empty]
    /\ pc = [t \in Testers |-> "idle"] /\ at = [t \in Testers |-> "prebuilt"]
    /\ build = [t \in Testers |-> "none"]
    /\ new = [t \in Testers |-> NoCL]
    /\ cls = [t \in Testers |-> [k \in Kinds |-> NoCL]]
    /\ forgotten = [k \in Kinds |-> {}]
    /\ troubles = 0

-----------------------------------------------------------------------------
(* Helpers. *)

Key(t) == IF at[t] = "prebuilt" THEN build[t] ELSE RevOf[build[t]]
RowsFor(t) == {r \in table[t][at[t]] : r.key = Key(t)}

\* getExistingCL of the three classes: what makes it raise.  The version that a soong
\* change switches to is matched as digits, that of a kernel change as digits in a path.
Readable(k, n) ==
    LET c == gerrit[n]
    IN /\ c.kind = k
       /\ k = "prebuilt" => c.merged \/ ~c.conflict
       /\ k = "soong" => ~c.merged /\ c.key \notin Lettered /\ (c.conflict => c.trivial)
       /\ k = "kernel" => c.form = "path" /\ c.key \notin Lettered

\* A switchover that conflicts is uploaded again, under its Change-Id.
Resolved(k, n) == IF k = "soong" THEN [gerrit EXCEPT ![n].conflict = FALSE] ELSE gerrit

AsRead(n) == [cl |-> n, key |-> gerrit[n].key]

\* A change somebody has of his own: made by hand, or uploaded by a run of his that did not
\* record it.
Own(n) == gerrit[n].made = "by-hand" \/ gerrit[n].made \in forgotten[gerrit[n].kind]

\* The next kind of change, in the order of prepareCLs, as --test_kind wants it.
Continue(t, change) ==
    /\ cls' = [cls EXCEPT ![t][at[t]] = change]
    /\ \/ /\ \/ at[t] = "prebuilt" /\ at' \in {[at EXCEPT ![t] = k] : k \in {"soong", "kernel"}}
             \/ at[t] = "soong" /\ at' = [at EXCEPT ![t] = "kernel"]
          /\ pc' = [pc EXCEPT ![t] = "find"]
       \/ /\ at[t] # "prebuilt"
          /\ pc' = [pc EXCEPT ![t] = "ready"] /\ UNCHANGED at
    /\ UNCHANGED build

\* An exception, or the end.
Leave(t) ==
    /\ pc' = [pc EXCEPT ![t] = "idle"] /\ at' = [at EXCEPT ![t] = "prebuilt"]
    /\ new' = [new EXCEPT ![t] = NoCL]
    /\ cls' = [cls EXCEPT ![t] = [k \in Kinds |-> NoCL]]
    /\ build' = [build EXCEPT ![t] = "none"] /\ table' = [table EXCEPT ![t] = Empty]

-----------------------------------------------------------------------------
(* test_prebuilts.py *)

\* All tables are read.
Start(t) ==
    /\ pc[t] = "idle"
    /\ \E b \in Builds : build' = [build EXCEPT ![t] = b]
    /\ table' = [table EXCEPT ![t] = cns]
    /\ pc' = [pc EXCEPT ![t] = "find"]
    /\ UNCHANGED << gerrit, cns, at, new, cls, kernelTree, forgotten, troubles >>

\* A row is found: the number on the command line, if any, must be the same (asked), and
\* the change must be usable and still be what the row says.
Reuse(t) ==
    /\ pc[t] = "find"
    /\ \E r \in RowsFor(t), asked \in BOOLEAN :
           IF asked /\ Readable(at[t], r.cl)
           THEN /\ gerrit' = Resolved(at[t], r.cl)
                /\ IF gerrit[r.cl].key = r.key
                   THEN Continue(t, AsRead(r.cl)) /\ UNCHANGED << new, table >>
                   ELSE Leave(t)
           ELSE Leave(t) /\ UNCHANGED gerrit
    /\ UNCHANGED << cns, kernelTree, forgotten, troubles >>

\* Faulty variant: the change given is not compared with what is asked for.
AdoptAnything(t) ==
    /\ pc[t] = "find" /\ RowsFor(t) = {}
    /\ \E n \in {m \in DOMAIN gerrit : Own(m)} :
           IF Readable(at[t], n)
           THEN /\ gerrit' = Resolved(at[t], n)
                /\ pc' = [pc EXCEPT ![t] = "record"] /\ new' = [new EXCEPT ![t] = AsRead(n)]
                /\ UNCHANGED << at, build, cls, table >>
           ELSE Leave(t) /\ UNCHANGED gerrit
    /\ UNCHANGED << cns, kernelTree, forgotten, troubles >>

\* No row, but a number on the command line: of a change made by hand, or of one that an
\* earlier run uploaded and did not record.
Adopt(t) ==
    /\ pc[t] = "find" /\ RowsFor(t) = {}
    /\ \E n \in {m \in DOMAIN gerrit : Own(m)} :
           IF Readable(at[t], n)
           THEN /\ gerrit' = Resolved(at[t], n)
                /\ IF gerrit[n].key = Key(t)
                   THEN /\ pc' = [pc EXCEPT ![t] = "record"] /\ new' = [new EXCEPT ![t] = AsRead(n)]
                        /\ UNCHANGED << at, build, cls, table >>
                   ELSE Leave(t)
           ELSE Leave(t) /\ UNCHANGED gerrit
    /\ UNCHANGED << cns, kernelTree, forgotten, troubles >>

\* Neither: update-prebuilts.py, or SoongCL.uploadCL, makes a new change.
Upload(t) ==
    /\ pc[t] = "find" /\ at[t] # "kernel" /\ RowsFor(t) = {}
    /\ Len(gerrit) < MaxCLs
    /\ gerrit' = Append(gerrit, Created(at[t], Key(t)))
    /\ pc' = [pc EXCEPT ![t] = "read-back"]
    /\ new' = [new EXCEPT ![t] = [cl |-> Len(gerrit'), key |-> Key(t)]]
    /\ UNCHANGED << cns, table, at, build, cls, kernelTree, forgotten, troubles >>

\* update_kernel_toolchain.py edits build.config.constants and commits it in the kernel
\* tree, on whatever is checked out there: git commit fails if that changes nothing.
\* Without --kernel_repo_path it is not called.
CommitKernel(t) ==
    /\ pc[t] = "find" /\ at[t] = "kernel" /\ RowsFor(t) = {}
    /\ \/ /\ kernelTree[t].head # Key(t)
          /\ kernelTree' = [kernelTree EXCEPT ![t] =
                 [head |-> Key(t), unpushed |-> @.unpushed \cup {Key(t)}]]
          /\ pc' = [pc EXCEPT ![t] = "push"]
          /\ UNCHANGED << table, at, build, new, cls >>
       \/ Leave(t) /\ UNCHANGED kernelTree
    /\ UNCHANGED << gerrit, cns, forgotten, troubles >>

\* git push makes a change of every commit that is not yet in Gerrit; then the query for
\* the hashtag wants exactly one.
PushKernel(t) ==
    /\ pc[t] = "push"
    /\ LET revs == kernelTree[t].unpushed
       IN /\ Len(gerrit) + Cardinality(revs) <= MaxCLs
          /\ \E order \in [1 .. Cardinality(revs) -> revs] :
                 /\ \A r \in revs : \E i \in DOMAIN order : order[i] = r
                 /\ gerrit' = gerrit \o [i \in DOMAIN order |-> Created("kernel", order[i])]
          /\ IF Cardinality(revs) = 1
             THEN /\ pc' = [pc EXCEPT ![t] = "read-back"] 
                  /\ new' = [new EXCEPT ![t] = [cl |-> Len(gerrit'), key |-> Key(t)]]
                  /\ UNCHANGED << table, at, build, cls, forgotten >>
             ELSE Leave(t) /\ forgotten' = [forgotten EXCEPT !["kernel"] = @ \cup revs]
    /\ kernelTree' = [kernelTree EXCEPT ![t].unpushed = {}]
    /\ UNCHANGED << cns, troubles >>

\* Faulty variant: getNewCL forgets to return the change, and None is recorded.
ReadBackReturnsNone(t) ==
    /\ pc[t] = "read-back"
    /\ pc' = [pc EXCEPT ![t] = "record"] /\ new' = [new EXCEPT ![t] = NoCL]
    /\ UNCHANGED << gerrit, cns, table, at, build, cls, kernelTree, forgotten, troubles >>

\* getNewCL ends with getExistingCL: for soong with the version it has just written, and
\* without another attempt at conflicts.
ReadBack(t) ==
    /\ pc[t] = "read-back"
    /\ IF LET n == new[t].cl
          IN IF at[t] = "soong" THEN ~gerrit[n].conflict /\ ~gerrit[n].merged
             ELSE Readable(at[t], n)
       THEN /\ pc' = [pc EXCEPT ![t] = "record"]
            /\ UNCHANGED << table, at, build, new, cls, forgotten >>
       ELSE Leave(t) /\ forgotten' = [forgotten EXCEPT ![at[t]] = @ \cup {Key(t)}]
    /\ UNCHANGED << gerrit, cns, kernelTree, troubles >>

\* Faulty variant: the row is appended to the file, whatever others wrote there since.
RecordAppends(t) ==
    /\ pc[t] = "record" /\ \A r \in table[t][at[t]] : r.key # new[t].key
    /\ table' = [table EXCEPT ![t][at[t]] = @ \cup {new[t]}]
    /\ cns' = [cns EXCEPT ![at[t]] = @ \cup {new[t]}]
    /\ Continue(t, new[t]) /\ new' = [new EXCEPT ![t] = NoCL]
    /\ UNCHANGED << gerrit, kernelTree, forgotten, troubles >>

\* Faulty variant: the row is added in memory and not written.
RecordUnwritten(t) ==
    /\ pc[t] = "record" /\ \A r \in table[t][at[t]] : r.key # new[t].key
    /\ table' = [table EXCEPT ![t][at[t]] = @ \cup {new[t]}]
    /\ Continue(t, new[t]) /\ new' = [new EXCEPT ![t] = NoCL]
    /\ UNCHANGED << gerrit, cns, kernelTree, forgotten, troubles >>

\* addPrebuilt and addCL: no second row for a key; the whole table is written.
Record(t) ==
    /\ pc[t] = "record" /\ \A r \in table[t][at[t]] : r.key # new[t].key
    /\ LET k == at[t]
           rows == table[t][k] \cup {new[t]}
       IN /\ table' = [table EXCEPT ![t][k] = rows]
          /\ cns' = [cns EXCEPT ![k] = rows]
          /\ forgotten' = [forgotten EXCEPT ![k] = @ \cup {r.key : r \in cns[k] \ rows}]
    /\ Continue(t, new[t]) /\ new' = [new EXCEPT ![t] = NoCL]
    /\ UNCHANGED << gerrit, kernelTree, troubles >>

\* The invocations follow (ForrestTracking).
Finish(t) ==
    /\ pc[t] = "ready" /\ Leave(t)
    /\ UNCHANGED << gerrit, cns, kernelTree, forgotten, troubles >>

-----------------------------------------------------------------------------
(* The world around. *)

\* A program is stopped, or a command it calls fails.
Stop(t) ==
    /\ pc[t] # "idle" /\ troubles < MaxTroubles /\ troubles' = troubles + 1
    /\ Leave(t)
    /\ forgotten' = IF pc[t] \in {"read-back", "record"}
                    THEN [forgotten EXCEPT ![at[t]] = @ \cup {Key(t)}] ELSE forgotten
    /\ UNCHANGED << gerrit, cns, kernelTree >>

\* Somebody submits a change, submits another one it then conflicts with, or amends one
\* that is known: by its row, or because it is theirs, such as a kernel change that a run
\* of theirs could not read; not one that a program is just about to read back.  (Whether a
\* kernel change is merged or conflicts is not looked at, whatever the comment in
\* getExistingCL says.)
Touch ==
    /\ troubles < MaxTroubles /\ troubles' = troubles + 1
    /\ \E n \in DOMAIN gerrit :
           /\ ~gerrit[n].merged
           /\ \/ /\ gerrit[n].kind # "kernel" /\ ~gerrit[n].conflict
                 /\ gerrit' = [gerrit EXCEPT ![n].merged = TRUE]
              \/ /\ gerrit[n].kind # "kernel"
                 /\ gerrit' = [gerrit EXCEPT ![n].conflict = TRUE]
              \/ /\ Own(n) \/ \E k \in Kinds : \E r \in cns[k] : r.cl = n
                 /\ \A t \in Testers : ~ (pc[t] = "read-back" /\ new[t].cl = n)
                 /\ \E key \in Keys(gerrit[n].kind), form \in Forms(gerrit[n].kind) :
                        gerrit' = [gerrit EXCEPT ![n].key = key, ![n].form = form]
    /\ UNCHANGED << cns, table, pc, at, build, new, cls, kernelTree, forgotten >>

Next ==
    \/ Touch
    \/ \E t \in Testers :
           \/ Start(t) \/ Reuse(t) \/ Adopt(t) \/ Upload(t) \/ CommitKernel(t)
           \/ PushKernel(t) \/ ReadBack(t) \/ Record(t) \/ Finish(t) \/ Stop(t)

Spec == Init /\ [][Next]_vars

-----------------------------------------------------------------------------
(* Properties. *)

\* getOne raises on two rows with one key, after which nothing could be tested with that
\* build any more: no interleaving of programs makes such a table.
UniqueRows ==
    \A k \in Kinds : \A r1, r2 \in cns[k] : r1.key = r2.key => r1 = r2

\* What the invocations will test is the build that was asked for: when prepareCLs returns,
\* every change was seen to contain the build, or to switch to its revision, although the
\* numbers come from rows others wrote and from the command line.
UsedIsRight ==
    \A t \in Testers : pc[t] = "ready" =>
        \A k \in {j \in Kinds : cls[t][j] # NoCL} :
            /\ cls[t][k].key = IF k = "prebuilt" THEN build[t] ELSE RevOf[build[t]]
            /\ gerrit[cls[t][k].cl].kind = k

\* A build or revision gets a second change by these programs only if the first one was
\* never recorded (stopped in between, not readable), if its row was lost to another
\* program's table, or if two programs are at it at the same time.
Uploaded(k, key) == {n \in DOMAIN gerrit : gerrit[n].kind = k /\ gerrit[n].made = key}

DuplicateOnlyAfterLoss ==
    [][\A t \in Testers :
           Upload(t) /\ Uploaded(at[t], Key(t)) # {} =>
               \/ Key(t) \in forgotten[at[t]]
               \/ \E r \in cns[at[t]] : r.key = Key(t)
               \/ \E u \in Testers \ {t} :
                      pc[u] \in {"read-back", "record"} /\ at[u] = at[t] /\ Key(u) = Key(t)]_vars

\* Without a row for the revision, and without --kernel_cl, "Create record (cl_number or
\* new switchover change) and update records" (test_prebuilts.py:237): what
\* KernelCL.getNewCL has uploaded is read back, and recorded.
NewKernelIsRecorded ==
    [][\A t \in Testers : ReadBack(t) /\ at[t] = "kernel" => pc'[t] = "record"]_vars
=============================================================================
