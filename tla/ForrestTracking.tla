-------------------------- MODULE ForrestTracking --------------------------
(***************************************************************************)
(* The bookkeeping of test runs in test/scripts.  test_prebuilts.py submits *)
(* builds and tests to Forrest and records each invocation in the CSV table *)
(* of pending work nodes; update_results.py polls Forrest, stores results   *)
(* and moves finished invocations to the table of completed ones.  Each     *)
(* script loads every table when it starts and rewrites a whole table when  *)
(* it changes one; nothing locks the tables.                                *)
(*                                                                         *)
(* At most one test_prebuilts and one update_results run at a time.  The    *)
(* build, the tag, the branch and the target of a row are one key, config.  *)
(***************************************************************************)
EXTENDS Naturals, FiniteSets

CONSTANTS
    Configs,         \* the (build, tag, branch, target) that are tested
    Nodes,           \* the work nodes of one invocation: a build and its tests
    MaxInvocations   \* bound on the number of submissions

ASSUME ConstantsAssumption ==
    /\ IsFiniteSet(Configs) /\ IsFiniteSet(Nodes)
    /\ MaxInvocations \in Nat \ {0}

Ids == 1 .. MaxInvocations
Rows == [id : Ids, config : Configs]
Outcomes == { "passed", "failed" }
Results == [id : Ids, node : Nodes, result : Outcomes]
Tables == { "pending", "completed", "results" }
Policies == { "none", "failed", "all" }

VARIABLES
    cns,         \* the CSV files
    submitted,   \* rows of the invocations Forrest has accepted
    node,        \* the state of every work node in Forrest
    finished,    \* invocations whose trybotFinished node is complete
    tester,      \* test_prebuilts: control, policy, what is left to do
    updater,     \* update_results: control, polled results, finished rows
    mem,         \* the tables each script has in memory
    superseded,  \* history: invocations test_prebuilts decided to replace
    crashed,     \* history: a script was stopped before it returned
    clobbered    \* history: a script overwrote a table it had not seen

forrestVars == << submitted, node, finished >>
vars == << cns, submitted, node, finished, tester, updater, mem,
           superseded, crashed, clobbered >>

Scripts == { "tester", "updater" }
Content == [ pending : SUBSET Rows, completed : SUBSET Rows, results : SUBSET Results ]
Empty == [ pending |-> {}, completed |-> {}, results |-> {} ]

LoadSteps == { "load-pending", "load-completed", "load-results" }
WriteSteps == { "write-pending", "write-completed", "write-results" }

TesterStates ==
    [ pc : LoadSteps \cup { "idle", "evaluate", "drop-pending", "drop-completed",
                            "drop-results", "submit", "record" },
      policy : Policies, todo : SUBSET Configs,
      drop : SUBSET Rows, gone : SUBSET Results, row : SUBSET Rows ]
UpdaterStates ==
    [ pc : LoadSteps \cup WriteSteps \cup { "idle", "poll" },
      topoll : SUBSET Rows, polled : SUBSET Results, done : SUBSET Rows ]

TypeOK ==
    /\ cns \in Content
    /\ submitted \subseteq Rows
    /\ node \in [Ids -> [Nodes -> Outcomes \cup {"open"}]]
    /\ finished \subseteq Ids
    /\ tester \in TesterStates /\ updater \in UpdaterStates
    /\ mem \in [Scripts -> Content]
    /\ superseded \subseteq Ids
    /\ crashed \in BOOLEAN /\ clobbered \in BOOLEAN

IdleTester == [ pc |-> "idle", policy |-> "none", todo |-> {}, drop |-> {}, gone |-> {},
                row |-> {} ]
IdleUpdater == [ pc |-> "idle", topoll |-> {}, polled |-> {}, done |-> {} ]

Init ==
    /\ cns = Empty
    /\ submitted = {} /\ finished = {}
    /\ node = [i \in Ids |-> [n \in Nodes |-> "open"]]
    /\ tester = IdleTester /\ updater = IdleUpdater
    /\ mem = [s \in Scripts |-> Empty]
    /\ superseded = {}
    /\ crashed = FALSE /\ clobbered = FALSE

-----------------------------------------------------------------------------
(* Forrest.  A failed node may be run again until the invocation is over.  *)

NodeEnds(i, n) ==
    /\ \E r \in submitted : r.id = i
    /\ i \notin finished
    /\ node[i][n] # "passed"
    /\ \E res \in Outcomes : node' = [node EXCEPT ![i][n] = res]
    /\ UNCHANGED << cns, submitted, finished, tester, updater, mem,
                    superseded, crashed, clobbered >>

TrybotFinishes(i) ==
    /\ i \notin finished
    /\ \A n \in Nodes : node[i][n] # "open"
    /\ finished' = finished \cup {i}
    /\ UNCHANGED << cns, submitted, node, tester, updater, mem,
                    superseded, crashed, clobbered >>

Forrest == \E i \in Ids : TrybotFinishes(i) \/ \E n \in Nodes : NodeEnds(i, n)

-----------------------------------------------------------------------------
(* CSVTable: a table is read when a script starts, and written as a whole. *)

\* Faulty variant: completed rows are read before pending ones.
AfterReversed(step) == CASE step = "start"          -> "load-completed"
                         [] step = "load-completed" -> "load-pending"
                         [] step = "load-pending"   -> "load-results"

\* CNSData.loadCNSData: the order in which the tables are read.
AfterLoad(step) == CASE step = "start"          -> "load-pending"
                     [] step = "load-pending"   -> "load-completed"
                     [] step = "load-completed" -> "load-results"

\* Faulty variant: the pending table is written before the completed one.
AfterWritePendingFirst(step) == CASE step = "start"           -> "write-results"
                                  [] step = "write-results"   -> "write-pending"
                                  [] step = "write-pending"   -> "write-completed"
                                  [] step = "write-completed" -> "idle"

\* The order of the three CSVTable.write calls that end main().
AfterWrite(step) == CASE step = "start"           -> "write-results"
                      [] step = "write-results"   -> "write-completed"
                      [] step = "write-completed" -> "write-pending"
                      [] step = "write-pending"   -> "idle"

TableOf(step) == CASE step \in { "load-pending", "write-pending" }     -> "pending"
                   [] step \in { "load-completed", "write-completed" } -> "completed"
                   [] step \in { "load-results", "write-results" }     -> "results"

Read(s, t) == mem' = [mem EXCEPT ![s] = [@ EXCEPT ![t] = cns[t]]]

\* Script s replaces table t; it knew the table as mem[s][t].
Write(s, t, rows) ==
    /\ cns' = [cns EXCEPT ![t] = rows]
    /\ mem' = [mem EXCEPT ![s] = [@ EXCEPT ![t] = rows]]
    /\ clobbered' = (clobbered \/ cns[t] # mem[s][t])

Forget(s) == mem' = [mem EXCEPT ![s] = Empty]

-----------------------------------------------------------------------------
(* test_prebuilts.invokeForrestRuns *)

testerFrame == UNCHANGED << updater, submitted, node, finished >>

\* When no submission is left within the bound, only a start that must fail is
\* explored: one that finds two completed rows of a configuration.
StartTester ==
    /\ tester.pc = "idle"
    /\ \/ Cardinality(submitted) < MaxInvocations
       \/ \E r, q \in cns.completed : r # q /\ r.config = q.config
    /\ \E p \in Policies, C \in SUBSET Configs \ {{}} :
         tester' = [IdleTester EXCEPT !.pc = AfterLoad("start"), !.policy = p, !.todo = C]
    /\ testerFrame /\ UNCHANGED << cns, mem, superseded, crashed, clobbered >>

TesterLoads ==
    /\ tester.pc \in LoadSteps
    /\ Read("tester", TableOf(tester.pc))
    /\ tester' = [tester EXCEPT !.pc = IF tester.pc = "load-results" THEN "evaluate"
                                       ELSE AfterLoad(tester.pc)]
    /\ testerFrame /\ UNCHANGED << cns, superseded, crashed, clobbered >>

Find(rows, c) == { r \in rows : r.config = c }

\* WorkNodeTable.find raises an error when several rows match.
Ambiguous(c) == \/ Cardinality(Find(mem["tester"].pending, c)) > 1
                \/ Cardinality(Find(mem["tester"].completed, c)) > 1

\* The rows found for c, in the pending table and in the completed table.
Known(c) == Find(mem["tester"].pending, c) \cup Find(mem["tester"].completed, c)

\* The results of the invocation found: the pending row is preferred.  The id of a work node
\* starts with that of its invocation, which the code looks for as a prefix; ids have one
\* length, so that no id is the prefix of another one.
OldResults(c) ==
    LET rows == IF Find(mem["tester"].pending, c) # {}
                THEN Find(mem["tester"].pending, c)
                ELSE Find(mem["tester"].completed, c)
    IN  { x \in mem["tester"].results : \E r \in rows : r.id = x.id }

\* evaluateConfig
Retries(c) ==
    /\ Known(c) # {}
    /\ \/ tester.policy = "all"
       \/ tester.policy = "failed" /\ \E x \in OldResults(c) : x.result = "failed"

Skip(c) ==
    /\ tester.pc = "evaluate" /\ c \in tester.todo /\ ~Ambiguous(c)
    /\ Known(c) # {} /\ ~Retries(c)
    /\ tester' = [tester EXCEPT !.todo = @ \ {c}]
    /\ testerFrame /\ UNCHANGED << cns, mem, superseded, crashed, clobbered >>

RunNew(c) ==
    /\ tester.pc = "evaluate" /\ c \in tester.todo /\ ~Ambiguous(c)
    /\ Known(c) = {} /\ Cardinality(submitted) < MaxInvocations
    /\ tester' = [tester EXCEPT !.pc = "submit", !.todo = @ \ {c},
                                !.row = [id : {Cardinality(submitted) + 1}, config : {c}]]
    /\ testerFrame /\ UNCHANGED << cns, mem, superseded, crashed, clobbered >>

\* The old records are deleted: only the policy "failed" looked up the results.
Retry(c) ==
    /\ tester.pc = "evaluate" /\ c \in tester.todo /\ ~Ambiguous(c)
    /\ Retries(c) /\ Cardinality(submitted) < MaxInvocations
    /\ tester' = [tester EXCEPT
                    !.pc = "drop-pending", !.todo = @ \ {c}, !.drop = Known(c),
                    !.gone = IF tester.policy = "failed" THEN OldResults(c) ELSE {},
                    !.row = [id : {Cardinality(submitted) + 1}, config : {c}]]
    /\ superseded' = superseded \cup { r.id : r \in Known(c) }
    /\ testerFrame /\ UNCHANGED << cns, mem, crashed, clobbered >>

\* CSVTable.remove for the row of one table, written back at once.
Drop(t, next) ==
    /\ tester' = [tester EXCEPT !.pc = next]
    /\ IF tester.drop \cap mem["tester"][t] = {}
       THEN UNCHANGED << cns, mem, clobbered >>
       ELSE Write("tester", t, mem["tester"][t] \ tester.drop)
    /\ testerFrame /\ UNCHANGED << superseded, crashed >>

DropPending == tester.pc = "drop-pending" /\ Drop("pending", "drop-completed")
DropCompleted == tester.pc = "drop-completed" /\ Drop("completed", "drop-results")

DropResult(x) ==
    /\ tester.pc = "drop-results" /\ x \in tester.gone
    /\ tester' = [tester EXCEPT !.gone = @ \ {x}]
    /\ Write("tester", "results", mem["tester"].results \ {x})
    /\ testerFrame /\ UNCHANGED << superseded, crashed >>

ResultsDropped ==
    /\ tester.pc = "drop-results" /\ tester.gone = {}
    /\ tester' = [tester EXCEPT !.pc = "submit"]
    /\ testerFrame /\ UNCHANGED << cns, mem, superseded, crashed, clobbered >>

\* forrest.invokeForrestRun
Submit ==
    /\ tester.pc = "submit"
    /\ submitted' = submitted \cup tester.row
    /\ tester' = [tester EXCEPT !.pc = "record", !.drop = {}]
    /\ UNCHANGED << cns, node, finished, updater, mem, superseded, crashed, clobbered >>

\* PendingWorkNodes.addInvocation
Record ==
    /\ tester.pc = "record"
    /\ Write("tester", "pending", mem["tester"].pending \cup tester.row)
    /\ tester' = [tester EXCEPT !.pc = "evaluate", !.row = {}]
    /\ testerFrame /\ UNCHANGED << superseded, crashed >>

TesterReturns ==
    /\ tester.pc = "evaluate" /\ tester.todo = {}
    /\ tester' = IdleTester /\ Forget("tester")
    /\ testerFrame /\ UNCHANGED << cns, superseded, crashed, clobbered >>

\* "Expected unique match but found many."
TesterRaises ==
    /\ tester.pc = "evaluate" /\ \E c \in tester.todo : Ambiguous(c)
    /\ tester' = IdleTester /\ Forget("tester")
    /\ testerFrame /\ UNCHANGED << cns, superseded, crashed, clobbered >>

\* The process is killed, or the forrest command, the network or CNS fails.
\* One such failure of either script is explored.
TesterCrashes ==
    /\ tester.pc # "idle" /\ ~crashed
    /\ tester' = IdleTester /\ Forget("tester") /\ crashed' = TRUE
    /\ testerFrame /\ UNCHANGED << cns, superseded, clobbered >>

\* The bound on submissions is reached.
TesterStops ==
    /\ tester.pc = "evaluate" /\ Cardinality(submitted) = MaxInvocations
    /\ tester' = IdleTester /\ Forget("tester")
    /\ testerFrame /\ UNCHANGED << cns, superseded, crashed, clobbered >>

TesterStep ==
    \/ TesterLoads
    \/ \E c \in Configs : Skip(c) \/ RunNew(c) \/ Retry(c)
    \/ DropPending \/ DropCompleted
    \/ \E x \in tester.gone : DropResult(x)
    \/ ResultsDropped \/ Submit \/ Record \/ TesterReturns \/ TesterRaises \/ TesterStops

-----------------------------------------------------------------------------
(* update_results.main *)

updaterFrame == UNCHANGED << tester, submitted, node, finished, superseded >>

StartUpdater ==
    /\ updater.pc = "idle"
    /\ updater' = [IdleUpdater EXCEPT !.pc = AfterLoad("start")]
    /\ updaterFrame /\ UNCHANGED << cns, mem, crashed, clobbered >>

UpdaterLoads ==
    /\ updater.pc \in LoadSteps
    /\ Read("updater", TableOf(updater.pc))
    /\ IF updater.pc = "load-results"
       THEN updater' = [updater EXCEPT !.pc = "poll", !.topoll = mem["updater"].pending]
       ELSE updater' = [updater EXCEPT !.pc = AfterLoad(updater.pc)]
    /\ updaterFrame /\ UNCHANGED << cns, crashed, clobbered >>

\* Faulty variant: the nodes that are not final are reported too.
StatusOfAll(i) == { [id |-> i, node |-> n, result |-> node[i][n]] : n \in Nodes }

\* get_worknode_status: the results of the nodes that are final now.
Status(i) == { [id |-> i, node |-> n, result |-> node[i][n]] :
                 n \in { m \in Nodes : node[i][m] # "open" } }

Recorded(r) == \E q \in mem["updater"].completed : q.id = r.id

\* Faulty variant: an invocation without failures only is complete.
CompleteIfPassed(r) == /\ Recorded(r) \/ r.id \in finished
                       /\ \A x \in Status(r.id) : x.result = "passed"

Complete(r) == Recorded(r) \/ r.id \in finished

\* An invocation that is in the completed table already is not polled again.
Poll(r) ==
    /\ updater.pc = "poll" /\ r \in updater.topoll
    /\ updater' = [updater EXCEPT
                     !.topoll = @ \ {r},
                     !.polled = IF Recorded(r) THEN @ ELSE @ \cup Status(r.id),
                     !.done = IF Complete(r) THEN @ \cup {r} ELSE @]
    /\ updaterFrame /\ UNCHANGED << cns, mem, crashed, clobbered >>

\* addInvocation finds every finished row absent from the completed table.
Move ==
    /\ updater.pc = "poll" /\ updater.topoll = {}
    /\ \A r \in updater.done : ~Recorded(r)
    /\ updater' = [updater EXCEPT !.pc = AfterWrite("start")]
    /\ updaterFrame /\ UNCHANGED << cns, mem, crashed, clobbered >>

\* "Invocation ... already exists": nothing is written.
MoveRaises ==
    /\ updater.pc = "poll" /\ updater.topoll = {}
    /\ \E r \in updater.done : Recorded(r)
    /\ updater' = IdleUpdater /\ Forget("updater")
    /\ updaterFrame /\ UNCHANGED << cns, crashed, clobbered >>

\* Faulty variant: a stored result is not replaced.
Accumulated(old, new) == old \cup new

\* addResult replaces what the table has for the same work node.
Merged(old, new) ==
    { x \in old : ~\E y \in new : y.id = x.id /\ y.node = x.node } \cup new

NewTables ==
    [ results   |-> Merged(mem["updater"].results, updater.polled),
      completed |-> mem["updater"].completed \cup updater.done,
      pending   |-> mem["updater"].pending \ updater.done ]

UpdaterWrites ==
    /\ updater.pc \in WriteSteps
    /\ LET t == TableOf(updater.pc)
           next == AfterWrite(updater.pc)
       IN  /\ cns' = [cns EXCEPT ![t] = NewTables[t]]
           /\ clobbered' = (clobbered \/ cns[t] # mem["updater"][t])
           /\ IF next = "idle"
              THEN updater' = IdleUpdater /\ Forget("updater")
              ELSE updater' = [updater EXCEPT !.pc = next] /\ UNCHANGED mem
    /\ updaterFrame /\ UNCHANGED crashed

UpdaterCrashes ==
    /\ updater.pc # "idle" /\ ~crashed
    /\ updater' = IdleUpdater /\ Forget("updater") /\ crashed' = TRUE
    /\ updaterFrame /\ UNCHANGED << cns, clobbered >>

UpdaterStep ==
    \/ UpdaterLoads
    \/ \E r \in updater.topoll : Poll(r)
    \/ Move \/ MoveRaises
    \/ UpdaterWrites

-----------------------------------------------------------------------------
Next ==
    \/ Forrest
    \/ StartTester \/ TesterStep \/ TesterCrashes
    \/ StartUpdater \/ UpdaterStep \/ UpdaterCrashes

Spec == Init /\ [][Next]_vars

\* update_results is started again and again, neither script waits for anything,
\* and Forrest completes what it has accepted.
Fairness ==
    /\ WF_vars(StartUpdater) /\ WF_vars(UpdaterStep) /\ WF_vars(TesterStep)
    /\ \A i \in Ids : WF_vars(TrybotFinishes(i))
    /\ \A i \in Ids, n \in Nodes : WF_vars(node[i][n] = "open" /\ NodeEnds(i, n))

FairSpec == Spec /\ Fairness

-----------------------------------------------------------------------------
(* Properties. *)

\* --tag lets a user "avoid duplicate submissions": as long as no script was
\* stopped and no table overwritten unseen, a configuration has one invocation
\* besides the ones a retry policy replaced - also when update_results moves the
\* row to the other table while test_prebuilts is loading both.
NoDuplicateSubmission ==
    (~crashed /\ ~clobbered) =>
        \A r, q \in submitted : (r.config = q.config /\ r # q) =>
            (r.id \in superseded \/ q.id \in superseded)

\* A row leaves the pending table only when a retry drops it, or when its
\* invocation is over, is in the completed table, and the final result of every
\* work node is in the results table: whatever write a crash comes after, nothing
\* that Forrest has to report is lost.
LeavesRecorded(r) ==
    \/ r.id \in superseded
    \/ /\ r.id \in finished /\ r \in cns.completed
       /\ Status(r.id) \subseteq cns.results

PendingLeavesRecorded ==
    [][ \A r \in cns.pending \ cns'.pending : clobbered' \/ LeavesRecorded(r) ]_vars

\* A work node has one result on file, the last one that was stored, whatever is
\* overwritten and whichever nodes are run again while they are polled.
OneResultPerNode ==
    \A x, y \in cns.results : (x.id = y.id /\ x.node = y.node) => x = y

\* Every recorded invocation leaves the pending table, if no script is stopped
\* and no table overwritten unseen.
EveryRunCompletes ==
    \A i \in Ids :
        (\E r \in cns.pending : r.id = i) ~>
            (crashed \/ clobbered \/ ~\E r \in cns.pending : r.id = i)

\* "Remove the pending record if it already exists in CNSData.Forrest"
\* (update_results.py): when a run of the script ends by itself, no pending row
\* that it found in the completed table is left.
RecordedRowsRemoved ==
    [][ (updater.pc \in WriteSteps \cup {"poll"} /\ updater'.pc = "idle" /\ crashed' = crashed) =>
          \A r \in mem["updater"].pending : Recorded(r) => r \notin cns'.pending ]_vars
=============================================================================
