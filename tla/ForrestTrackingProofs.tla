------------------------ MODULE ForrestTrackingProofs ------------------------
(***************************************************************************)
(* Proofs about ForrestTracking, for every finite set of configurations and   *)
(* work nodes and any number of invocations.                                *)
(***************************************************************************)
EXTENDS ForrestTracking, FiniteSetTheorems, TLAPS

-----------------------------------------------------------------------------
(* The inductive invariant. *)

\* Forrest numbers what it accepts.
IdInv ==
    /\ IsFiniteSet(submitted)
    /\ \A r \in submitted : r.id <= Cardinality(submitted)
    /\ \A r, q \in submitted : r.id = q.id => r = q

\* The tables and the lists of the scripts have submitted invocations only.
RowsInv ==
    /\ cns.pending \subseteq submitted /\ cns.completed \subseteq submitted
    /\ \A s \in Scripts : mem[s].pending \subseteq submitted /\ mem[s].completed \subseteq submitted
    /\ updater.topoll \subseteq submitted /\ updater.done \subseteq submitted

\* What test_prebuilts is about to submit is new, and what it drops is replaced.
Prepared == { "drop-pending", "drop-completed", "drop-results", "submit" }
TesterInv ==
    /\ tester.pc \in Prepared =>
           /\ Cardinality(submitted) < MaxInvocations
           /\ \E c \in Configs :
                  tester.row = {[id |-> Cardinality(submitted) + 1, config |-> c]}
    /\ tester.pc = "record" => tester.row \subseteq submitted
    /\ \A r \in tester.drop : r.id \in superseded
    /\ \A x \in tester.gone : x.id \in superseded

\* No list of results has two for one work node; an invocation is polled once.
Single(results) == \A x, y \in results : x.id = y.id /\ x.node = y.node => x = y
ResultsInv ==
    /\ Single(cns.results) /\ \A s \in Scripts : Single(mem[s].results)
    /\ Single(updater.polled)
    /\ updater.pc = "poll" => \A x \in updater.polled, r \in updater.topoll : x.id # r.id
    /\ updater.pc \in LoadSteps => updater.polled = {} /\ updater.done = {}

\* What update_results knows of a finished invocation is final.
Final(r) == r.id \in finished /\ Status(r.id) \subseteq updater.polled
UpdaterInv ==
    /\ updater.pc = "poll" => \A r \in updater.done : Recorded(r) \/ Final(r)
    /\ updater.pc \in WriteSteps => \A r \in updater.done : Final(r)

\* What it has written stays, unless it is replaced.
WrittenInv ==
    ~clobbered =>
        /\ updater.pc \in { "write-completed", "write-pending" } =>
               \A x \in updater.polled : x \in cns.results \/ x.id \in superseded
        /\ updater.pc = "write-pending" =>
               \A r \in updater.done : r \in cns.completed \/ r.id \in superseded

\* An invocation that is not replaced is in a table, and known to test_prebuilts once it
\* has read the tables.
Tracked(r) ==
    \/ r.id \in superseded \/ r \in cns.pending \/ r \in cns.completed
    \/ tester.pc = "record" /\ r \in tester.row
Loaded == { "load-results", "evaluate", "record" } \cup Prepared
Seen(r) ==
    /\ tester.pc = "load-completed" =>
           r.id \in superseded \/ r \in mem["tester"].pending \/ r \in cns.completed
    /\ tester.pc \in Loaded =>
           \/ r.id \in superseded
           \/ r \in mem["tester"].pending \/ r \in mem["tester"].completed
           \/ tester.pc = "record" /\ r \in tester.row
    /\ tester.pc \in Prepared =>
           \A q \in tester.row : r.config = q.config => r.id \in superseded
SeenInv == ~crashed /\ ~clobbered => \A r \in submitted : Tracked(r) /\ Seen(r)

TrackInv ==
    /\ IdInv /\ RowsInv /\ TesterInv /\ ResultsInv /\ UpdaterInv /\ WrittenInv
    /\ SeenInv /\ NoDuplicateSubmission

-----------------------------------------------------------------------------
(* Tables. *)

LEMMA ContentFacts ==
    ASSUME NEW C \in Content
    PROVE  /\ DOMAIN C = Tables
           /\ C["pending"] = C.pending /\ C["completed"] = C.completed /\ C["results"] = C.results
           /\ \A x \in SUBSET Rows : [C EXCEPT !["pending"] = x] =
                  [pending |-> x, completed |-> C.completed, results |-> C.results]
           /\ \A x \in SUBSET Rows : [C EXCEPT !["completed"] = x] =
                  [pending |-> C.pending, completed |-> x, results |-> C.results]
           /\ \A x \in SUBSET Results : [C EXCEPT !["results"] = x] =
                  [pending |-> C.pending, completed |-> C.completed, results |-> x]
           /\ C.pending \in SUBSET Rows /\ C.completed \in SUBSET Rows
           /\ C.results \in SUBSET Results
  BY DEF Content, Tables

LEMMA NewContent ==
    ASSUME NEW p \in SUBSET Rows, NEW c \in SUBSET Rows, NEW x \in SUBSET Results
    PROVE  LET C == [pending |-> p, completed |-> c, results |-> x]
           IN  C \in Content /\ C.pending = p /\ C.completed = c /\ C.results = x
  BY DEF Content

LEMMA EmptyFacts ==
    /\ Empty \in Content /\ Empty.pending = {} /\ Empty.completed = {} /\ Empty.results = {}
    /\ IdleTester \in TesterStates /\ IdleUpdater \in UpdaterStates
  <1>1. Empty \in Content /\ Empty.pending = {} /\ Empty.completed = {} /\ Empty.results = {}
    BY DEF Empty, Content
  <1>2. IdleTester \in TesterStates
    BY DEF IdleTester, TesterStates, Policies
  <1>3. IdleUpdater \in UpdaterStates
    BY DEF IdleUpdater, UpdaterStates
  <1> QED
    BY <1>1, <1>2, <1>3

\* What a script has read of a table.
LEMMA ReadFacts ==
    ASSUME TypeOK, NEW s \in Scripts, NEW t \in Tables, Read(s, t)
    PROVE  /\ mem' \in [Scripts -> Content]
           /\ \A z \in Scripts \ {s} : mem'[z] = mem[z]
           /\ mem'[s].pending = IF t = "pending" THEN cns.pending ELSE mem[s].pending
           /\ mem'[s].completed = IF t = "completed" THEN cns.completed ELSE mem[s].completed
           /\ mem'[s].results = IF t = "results" THEN cns.results ELSE mem[s].results
  <1> DEFINE M == [mem[s] EXCEPT ![t] = cns[t]]
  <1>1. mem[s] \in Content /\ cns \in Content /\ mem \in [Scripts -> Content]
    BY DEF TypeOK
  <1>2. /\ M \in Content
        /\ M.pending = IF t = "pending" THEN cns.pending ELSE mem[s].pending
        /\ M.completed = IF t = "completed" THEN cns.completed ELSE mem[s].completed
        /\ M.results = IF t = "results" THEN cns.results ELSE mem[s].results
    <2>1. CASE t = "pending"
      <3>1. M = [pending |-> cns.pending, completed |-> mem[s].completed, results |-> mem[s].results]
        BY <1>1, <2>1, ContentFacts
      <3> HIDE DEF M
      <3> QED
        BY <1>1, <2>1, <3>1, ContentFacts, NewContent
    <2>2. CASE t = "completed"
      <3>1. M = [pending |-> mem[s].pending, completed |-> cns.completed, results |-> mem[s].results]
        BY <1>1, <2>2, ContentFacts
      <3> HIDE DEF M
      <3> QED
        BY <1>1, <2>2, <3>1, ContentFacts, NewContent
    <2>3. CASE t = "results"
      <3>1. M = [pending |-> mem[s].pending, completed |-> mem[s].completed, results |-> cns.results]
        BY <1>1, <2>3, ContentFacts
      <3> HIDE DEF M
      <3> QED
        BY <1>1, <2>3, <3>1, ContentFacts, NewContent
    <2> QED
      BY <2>1, <2>2, <2>3 DEF Tables
  <1>3. mem' = [mem EXCEPT ![s] = M]
    BY <1>1 DEF Read
  <1> HIDE DEF M
  <1> QED
    BY <1>1, <1>2, <1>3

\* A table is replaced.
LEMMA PutFacts ==
    ASSUME NEW C \in Content, NEW t \in Tables, NEW rows,
           rows \in IF t = "results" THEN SUBSET Results ELSE SUBSET Rows
    PROVE  LET M == [C EXCEPT ![t] = rows]
           IN  /\ M \in Content
               /\ M.pending = IF t = "pending" THEN rows ELSE C.pending
               /\ M.completed = IF t = "completed" THEN rows ELSE C.completed
               /\ M.results = IF t = "results" THEN rows ELSE C.results
  <1> DEFINE M == [C EXCEPT ![t] = rows]
  <1>1. CASE t = "pending"
    <2>1. M = [pending |-> rows, completed |-> C.completed, results |-> C.results]
      BY <1>1, ContentFacts
    <2> HIDE DEF M
    <2>2. /\ M \in Content /\ M.pending = rows
          /\ M.completed = C.completed /\ M.results = C.results
      BY <1>1, <2>1, ContentFacts, NewContent
    <2> QED
      BY <1>1, <2>2 DEF M
  <1>2. CASE t = "completed"
    <2>1. M = [pending |-> C.pending, completed |-> rows, results |-> C.results]
      BY <1>2, ContentFacts
    <2> HIDE DEF M
    <2>2. /\ M \in Content /\ M.completed = rows
          /\ M.pending = C.pending /\ M.results = C.results
      BY <1>2, <2>1, ContentFacts, NewContent
    <2> QED
      BY <1>2, <2>2 DEF M
  <1>3. CASE t = "results"
    <2>1. M = [pending |-> C.pending, completed |-> C.completed, results |-> rows]
      BY <1>3, ContentFacts
    <2> HIDE DEF M
    <2>2. /\ M \in Content /\ M.results = rows
          /\ M.pending = C.pending /\ M.completed = C.completed
      BY <1>3, <2>1, ContentFacts, NewContent
    <2> QED
      BY <1>3, <2>2 DEF M
  <1> QED
    BY <1>1, <1>2, <1>3 DEF Tables

\* What is in the files and in memory when script s has written a table.
LEMMA WriteFacts ==
    ASSUME TypeOK, NEW s \in Scripts, NEW t \in Tables, NEW rows, Write(s, t, rows),
           rows \in IF t = "results" THEN SUBSET Results ELSE SUBSET Rows
    PROVE  /\ cns' \in Content /\ mem' \in [Scripts -> Content] /\ clobbered' \in BOOLEAN
           /\ \A z \in Scripts \ {s} : mem'[z] = mem[z]
           /\ clobbered' <=> clobbered \/ cns[t] # mem[s][t]
           /\ cns'.pending = IF t = "pending" THEN rows ELSE cns.pending
           /\ cns'.completed = IF t = "completed" THEN rows ELSE cns.completed
           /\ cns'.results = IF t = "results" THEN rows ELSE cns.results
           /\ mem'[s].pending = IF t = "pending" THEN rows ELSE mem[s].pending
           /\ mem'[s].completed = IF t = "completed" THEN rows ELSE mem[s].completed
           /\ mem'[s].results = IF t = "results" THEN rows ELSE mem[s].results
  <1>1. mem[s] \in Content /\ cns \in Content /\ mem \in [Scripts -> Content]
    BY DEF TypeOK
  <1> DEFINE M == [mem[s] EXCEPT ![t] = rows]
             D == [cns EXCEPT ![t] = rows]
  <1>2. mem' = [mem EXCEPT ![s] = M] /\ cns' = D
    BY <1>1 DEF Write
  <1>3. /\ M \in Content
        /\ M.pending = IF t = "pending" THEN rows ELSE mem[s].pending
        /\ M.completed = IF t = "completed" THEN rows ELSE mem[s].completed
        /\ M.results = IF t = "results" THEN rows ELSE mem[s].results
    BY <1>1, PutFacts
  <1>4. /\ D \in Content
        /\ D.pending = IF t = "pending" THEN rows ELSE cns.pending
        /\ D.completed = IF t = "completed" THEN rows ELSE cns.completed
        /\ D.results = IF t = "results" THEN rows ELSE cns.results
    BY <1>1, PutFacts
  <1>5. clobbered' \in BOOLEAN /\ (clobbered' <=> clobbered \/ cns[t] # mem[s][t])
    BY DEF Write, TypeOK
  <1> HIDE DEF M, D
  <1>6. mem' \in [Scripts -> Content] /\ mem'[s] = M /\ \A z \in Scripts \ {s} : mem'[z] = mem[z]
    BY <1>1, <1>2, <1>3
  <1> QED
    BY <1>2, <1>3, <1>4, <1>5, <1>6

-----------------------------------------------------------------------------
(* What a step leaves as it is. *)

\* It is enough to look at what test_prebuilts does to the tables and to its own state.
LEMMA TesterSuffices ==
    ASSUME TypeOK, TrackInv, UNCHANGED << updater, node, finished >>,
           mem'["updater"] = mem["updater"],
           clobbered => clobbered', superseded \subseteq superseded',
           submitted \subseteq submitted', IdInv',
           cns'.pending \subseteq submitted', cns'.completed \subseteq submitted',
           mem'["tester"].pending \subseteq submitted', mem'["tester"].completed \subseteq submitted',
           Single(cns'.results), Single(mem'["tester"].results),
           ~clobbered' => \A x \in cns.results : x \in cns'.results \/ x.id \in superseded',
           ~clobbered' => \A r \in cns.completed : r \in cns'.completed \/ r.id \in superseded',
           TesterInv', SeenInv', NoDuplicateSubmission'
    PROVE  TrackInv'
  <1> USE DEF TrackInv
  <1>1. RowsInv'
    BY DEF RowsInv, Scripts
  <1>2. ResultsInv'
    BY DEF ResultsInv, Scripts
  <1>3. UpdaterInv'
    BY DEF UpdaterInv, Final, Recorded, Status
  <1>4. WrittenInv'
    BY DEF WrittenInv
  <1> QED
    BY <1>1, <1>2, <1>3, <1>4

\* ... and if it writes no table and submits nothing, to the latter only.
LEMMA TesterQuiet ==
    ASSUME TypeOK, TrackInv, UNCHANGED << cns, updater, submitted, node, finished, clobbered >>,
           mem'["updater"] = mem["updater"],
           crashed => crashed', superseded \subseteq superseded',
           mem'["tester"].pending \subseteq submitted, mem'["tester"].completed \subseteq submitted,
           Single(mem'["tester"].results),
           tester.pc = "record" => crashed',
           TesterInv', ~crashed' /\ ~clobbered' => (\A r \in submitted : Seen(r))'
    PROVE  TrackInv'
  <1> USE DEF TrackInv
  <1>1. IdInv'
    BY DEF IdInv
  <1>2. NoDuplicateSubmission'
    BY DEF NoDuplicateSubmission
  <1>3. SeenInv'
    BY DEF SeenInv, Tracked
  <1>4. /\ cns'.pending \subseteq submitted' /\ cns'.completed \subseteq submitted'
        /\ Single(cns'.results)
    BY DEF RowsInv, ResultsInv
  <1> QED
    BY <1>1, <1>2, <1>3, <1>4, TesterSuffices

\* It is enough to look at what update_results does to the tables and to its own state.
LEMMA UpdaterSuffices ==
    ASSUME TypeOK, TrackInv, UNCHANGED << tester, submitted, superseded >>,
           mem'["tester"] = mem["tester"],
           crashed => crashed', clobbered => clobbered',
           cns'.pending \subseteq submitted, cns'.completed \subseteq submitted,
           mem'["updater"].pending \subseteq submitted, mem'["updater"].completed \subseteq submitted,
           updater'.topoll \subseteq submitted, updater'.done \subseteq submitted,
           ~clobbered' => \A r \in cns.completed : r \in cns'.completed,
           ~clobbered' => \A r \in cns.pending :
               r \in cns'.pending \/ r \in cns'.completed \/ r.id \in superseded,
           ResultsInv', UpdaterInv', WrittenInv'
    PROVE  TrackInv'
  <1> USE DEF TrackInv
  <1>1. IdInv' /\ TesterInv'
    BY DEF IdInv, TesterInv
  <1>2. RowsInv'
    BY DEF RowsInv, Scripts
  <1>3. SeenInv'
    <2> SUFFICES ASSUME ~crashed', ~clobbered', NEW r \in submitted
                 PROVE  Tracked(r)' /\ Seen(r)'
      BY DEF SeenInv
    <2>1. Tracked(r) /\ Seen(r)
      BY DEF SeenInv
    <2> QED
      BY <2>1 DEF Tracked, Seen
  <1>4. NoDuplicateSubmission'
    BY DEF NoDuplicateSubmission
  <1> QED
    BY <1>1, <1>2, <1>3, <1>4

LEMMA MemFacts ==
    ASSUME TypeOK, TrackInv
    PROVE  /\ cns \in Content /\ mem["tester"] \in Content /\ mem["updater"] \in Content
           /\ "tester" \in Scripts /\ "updater" \in Scripts
           /\ \A s \in Scripts : /\ mem[s].pending \subseteq submitted
                                 /\ mem[s].completed \subseteq submitted
                                 /\ Single(mem[s].results)
           /\ cns.pending \subseteq submitted /\ cns.completed \subseteq submitted
           /\ Single(cns.results)
  BY DEF TypeOK, Scripts, TrackInv, RowsInv, ResultsInv

LEMMA IdFacts ==
    ASSUME TypeOK, TrackInv
    PROVE  Cardinality(submitted) \in Nat /\ MaxInvocations \in Nat
  BY ConstantsAssumption, FS_CardinalityType DEF TrackInv, IdInv

LEMMA RowFacts ==
    ASSUME NEW n \in Nat, n < MaxInvocations, NEW c \in Configs
    PROVE  /\ [id : {n + 1}, config : {c}] = {[id |-> n + 1, config |-> c]}
           /\ [id |-> n + 1, config |-> c] \in Rows
  <1>1. n + 1 \in Ids
    BY ConstantsAssumption DEF Ids
  <1>2. [id |-> n + 1, config |-> c] \in Rows
    BY <1>1 DEF Rows
  <1> DEFINE k == n + 1
  <1> HIDE DEF k
  <1>3. [id : {k}, config : {c}] = {[id |-> k, config |-> c]}
    <2>1. ASSUME NEW x \in [id : {k}, config : {c}] PROVE x = [id |-> k, config |-> c]
      <3>1. x = [id |-> x.id, config |-> x.config] /\ x.id = k /\ x.config = c
        OBVIOUS
      <3> QED
        BY <3>1
    <2>2. [id |-> k, config |-> c] \in [id : {k}, config : {c}]
      OBVIOUS
    <2> QED
      BY <2>1, <2>2
  <1> QED
    BY <1>2, <1>3 DEF k

LEMMA TrackInvInit == Init => TypeOK /\ TrackInv
  <1> SUFFICES ASSUME Init PROVE TypeOK /\ TrackInv
    OBVIOUS
  <1>1. TypeOK
    BY EmptyFacts DEF Init, TypeOK
  <1>2. IdInv /\ RowsInv
    BY EmptyFacts, FS_EmptySet DEF Init, IdInv, RowsInv, IdleUpdater
  <1>3. TesterInv /\ UpdaterInv
    BY DEF Init, TesterInv, UpdaterInv, IdleTester, IdleUpdater, Prepared, WriteSteps
  <1>4. ResultsInv
    BY EmptyFacts DEF Init, ResultsInv, Single, IdleUpdater, LoadSteps
  <1>5. WrittenInv /\ SeenInv /\ NoDuplicateSubmission
    BY DEF Init, WrittenInv, SeenInv, NoDuplicateSubmission, IdleUpdater
  <1> QED
    BY <1>1, <1>2, <1>3, <1>4, <1>5 DEF TrackInv

-----------------------------------------------------------------------------
(* Forrest. *)

\* The results of a finished invocation do not change any more.
LEMMA ForrestStep ==
    ASSUME TypeOK, TrackInv, Forrest
    PROVE  TypeOK' /\ TrackInv'
  <1> USE DEF TrackInv
  <1>1. /\ UNCHANGED << cns, submitted, tester, updater, mem, superseded, crashed, clobbered >>
        /\ finished \subseteq finished'
        /\ \A i \in finished : node'[i] = node[i]
    BY DEF Forrest, TrybotFinishes, NodeEnds, TypeOK
  <1>2. finished' \subseteq Ids /\ node' \in [Ids -> [Nodes -> Outcomes \cup {"open"}]]
    BY DEF Forrest, TrybotFinishes, NodeEnds, TypeOK
  <1>3. TypeOK'
    BY <1>1, <1>2 DEF TypeOK
  <1>4. IdInv' /\ RowsInv' /\ TesterInv' /\ ResultsInv'
    BY <1>1 DEF IdInv, RowsInv, TesterInv, ResultsInv
  <1>5. UpdaterInv'
    <2>1. ASSUME NEW r, Final(r) PROVE Final(r)'
      BY <1>1, <2>1 DEF Final, Status
    <2>2. ASSUME NEW r, Recorded(r) PROVE Recorded(r)'
      BY <1>1, <2>2 DEF Recorded
    <2> QED
      BY <1>1, <2>1, <2>2 DEF UpdaterInv
  <1>6. WrittenInv' /\ NoDuplicateSubmission'
    BY <1>1 DEF WrittenInv, NoDuplicateSubmission
  <1>7. SeenInv'
    BY <1>1 DEF SeenInv, Seen, Tracked
  <1> QED
    BY <1>3, <1>4, <1>5, <1>6, <1>7

-----------------------------------------------------------------------------
(* test_prebuilts.py *)

LEMMA StartTesterStep ==
    ASSUME TypeOK, TrackInv, StartTester
    PROVE  TypeOK' /\ TrackInv'
  <1>1. /\ tester.pc = "idle"
        /\ UNCHANGED << updater, submitted, node, finished, cns, mem, superseded, crashed, clobbered >>
    BY DEF StartTester, testerFrame
  <1>2. PICK p \in Policies, C \in SUBSET Configs :
            tester' = [IdleTester EXCEPT !.pc = "load-pending", !.policy = p, !.todo = C]
    BY DEF StartTester, AfterLoad
  <1>3. /\ tester' \in TesterStates /\ tester'.pc = "load-pending"
        /\ tester'.drop = {} /\ tester'.gone = {}
    BY <1>2 DEF IdleTester, TesterStates, LoadSteps
  <1>4. TypeOK'
    BY <1>1, <1>3 DEF TypeOK
  <1>5. TesterInv'
    BY <1>3 DEF TesterInv, Prepared
  <1>6. (\A r \in submitted : Seen(r))'
    BY <1>3 DEF Seen, Loaded, Prepared
  <1> QED
    BY <1>1, <1>4, <1>5, <1>6, MemFacts, TesterQuiet

\* A script that ends forgets what it has read.
LEMMA ForgetFacts ==
    ASSUME TypeOK, NEW s \in Scripts, Forget(s)
    PROVE  /\ mem' \in [Scripts -> Content] /\ mem'[s] = Empty
           /\ \A z \in Scripts \ {s} : mem'[z] = mem[z]
  BY EmptyFacts DEF Forget, TypeOK

LEMMA TesterEnds ==
    ASSUME TypeOK, TrackInv, TesterReturns \/ TesterRaises \/ TesterStops \/ TesterCrashes
    PROVE  TypeOK' /\ TrackInv'
  <1>1. /\ tester' = IdleTester /\ Forget("tester")
        /\ UNCHANGED << updater, submitted, node, finished, cns, superseded, clobbered >>
        /\ crashed' \in BOOLEAN /\ (crashed => crashed')
        /\ tester.pc = "record" => crashed'
    BY DEF TesterReturns, TesterRaises, TesterStops, TesterCrashes, testerFrame, TypeOK
  <1>2. /\ mem' \in [Scripts -> Content] /\ mem'["tester"] = Empty /\ mem'["updater"] = mem["updater"]
    BY <1>1, ForgetFacts DEF Scripts
  <1>3. TypeOK'
    BY <1>1, <1>2, EmptyFacts DEF TypeOK
  <1>4. tester'.pc = "idle" /\ tester'.drop = {} /\ tester'.gone = {}
    BY <1>1 DEF IdleTester
  <1>5. TesterInv'
    BY <1>4 DEF TesterInv, Prepared
  <1>6. (\A r \in submitted : Seen(r))'
    BY <1>4 DEF Seen, Loaded, Prepared
  <1>7. /\ mem'["tester"].pending \subseteq submitted /\ mem'["tester"].completed \subseteq submitted
        /\ Single(mem'["tester"].results)
    BY <1>2, EmptyFacts DEF Single
  <1> QED
    BY <1>1, <1>2, <1>3, <1>5, <1>6, <1>7, TesterQuiet

\* The pending table is read before the completed one: a row that update_results moves in
\* between is in both, or is read from the second.
LEMMA TesterLoadsStep ==
    ASSUME TypeOK, TrackInv, TesterLoads
    PROVE  TypeOK' /\ TrackInv'
  <1> USE DEF TrackInv
  <1> DEFINE t == TableOf(tester.pc)
             next == IF tester.pc = "load-results" THEN "evaluate" ELSE AfterLoad(tester.pc)
  <1>1. /\ tester.pc \in LoadSteps /\ Read("tester", t)
        /\ tester' = [tester EXCEPT !.pc = next]
        /\ UNCHANGED << updater, submitted, node, finished, cns, superseded, crashed, clobbered >>
    BY DEF TesterLoads, testerFrame
  <1>2. /\ tester.pc = "load-pending" => t = "pending" /\ next = "load-completed"
        /\ tester.pc = "load-completed" => t = "completed" /\ next = "load-results"
        /\ tester.pc = "load-results" => t = "results" /\ next = "evaluate"
    BY DEF TableOf, AfterLoad
  <1> HIDE DEF t, next
  <1>3. t \in Tables /\ next \in {"load-completed", "load-results", "evaluate"}
    BY <1>1, <1>2 DEF LoadSteps, Tables
  <1>4. /\ mem' \in [Scripts -> Content] /\ mem'["updater"] = mem["updater"]
        /\ mem'["tester"].pending = IF t = "pending" THEN cns.pending ELSE mem["tester"].pending
        /\ mem'["tester"].completed = IF t = "completed" THEN cns.completed ELSE mem["tester"].completed
        /\ mem'["tester"].results = IF t = "results" THEN cns.results ELSE mem["tester"].results
    BY <1>1, <1>3, ReadFacts, MemFacts
  <1>5. /\ tester' \in TesterStates /\ tester'.pc = next /\ tester'.drop = tester.drop
        /\ tester'.gone = tester.gone /\ tester'.row = tester.row
    BY <1>1, <1>3 DEF TypeOK, TesterStates, LoadSteps
  <1>6. TypeOK'
    BY <1>1, <1>4, <1>5 DEF TypeOK
  <1>7. TesterInv'
    BY <1>1, <1>3, <1>5 DEF TesterInv, Prepared
  <1>8. ASSUME ~crashed, ~clobbered, NEW r \in submitted PROVE Seen(r)'
    <2>1. Tracked(r) /\ Seen(r)
      BY <1>8 DEF SeenInv
    <2>2. CASE tester.pc = "load-pending"
      BY <1>1, <1>2, <1>4, <1>5, <2>1, <2>2 DEF Tracked, Seen, Loaded, Prepared
    <2>3. CASE tester.pc = "load-completed"
      BY <1>1, <1>2, <1>4, <1>5, <2>1, <2>3 DEF Seen, Loaded, Prepared
    <2>4. CASE tester.pc = "load-results"
      BY <1>1, <1>2, <1>4, <1>5, <2>1, <2>4 DEF Seen, Loaded, Prepared
    <2> QED
      BY <1>1, <2>2, <2>3, <2>4 DEF LoadSteps
  <1>9. /\ mem'["tester"].pending \subseteq submitted /\ mem'["tester"].completed \subseteq submitted
        /\ Single(mem'["tester"].results)
    BY <1>4, MemFacts
  <1>10. ~crashed' /\ ~clobbered' => (\A r \in submitted : Seen(r))'
    BY <1>1, <1>8
  <1>11. tester.pc # "record"
    BY <1>1 DEF LoadSteps
  <1> QED
    BY <1>1, <1>4, <1>6, <1>7, <1>9, <1>10, <1>11, TesterQuiet

LEMMA SkipStep ==
    ASSUME TypeOK, TrackInv, NEW c \in Configs, Skip(c)
    PROVE  TypeOK' /\ TrackInv'
  <1> USE DEF TrackInv
  <1>1. /\ tester.pc = "evaluate" /\ tester' = [tester EXCEPT !.todo = @ \ {c}]
        /\ UNCHANGED << updater, submitted, node, finished, cns, mem, superseded, crashed, clobbered >>
    BY DEF Skip, testerFrame
  <1>2. /\ tester' \in TesterStates /\ tester'.pc = "evaluate" /\ tester'.drop = tester.drop
        /\ tester'.gone = tester.gone /\ tester'.row = tester.row
    BY <1>1 DEF TypeOK, TesterStates
  <1>3. TypeOK'
    BY <1>1, <1>2 DEF TypeOK
  <1>4. TesterInv'
    BY <1>1, <1>2 DEF TesterInv, Prepared
  <1>5. ~crashed' /\ ~clobbered' => (\A r \in submitted : Seen(r))'
    BY <1>1, <1>2 DEF SeenInv, Seen, Loaded, Prepared
  <1> QED
    BY <1>1, <1>3, <1>4, <1>5, MemFacts, TesterQuiet

\* What test_prebuilts knows of a configuration is all there is of it, except for what
\* has been replaced.
LEMMA KnownFacts ==
    ASSUME TypeOK, TrackInv, tester.pc = "evaluate", NEW c
    PROVE  /\ Known(c) \subseteq submitted /\ Known(c) \subseteq Rows
           /\ \A r \in Known(c) : r.id \in Ids
           /\ ~crashed /\ ~clobbered =>
                  \A r \in submitted : r.config = c => r \in Known(c) \/ r.id \in superseded
  <1> USE DEF TrackInv
  <1>1. Known(c) = {r \in mem["tester"].pending \cup mem["tester"].completed : r.config = c}
    BY DEF Known, Find
  <1>2. Known(c) \subseteq submitted /\ submitted \subseteq Rows
    BY <1>1, MemFacts DEF TypeOK
  <1>3. \A r \in Known(c) : r.id \in Ids
    BY <1>2 DEF Rows
  <1>4. ASSUME ~crashed, ~clobbered, NEW r \in submitted, r.config = c
        PROVE  r \in Known(c) \/ r.id \in superseded
    BY <1>1, <1>4 DEF SeenInv, Seen, Loaded
  <1> QED
    BY <1>2, <1>3, <1>4

LEMMA RunNewStep ==
    ASSUME TypeOK, TrackInv, NEW c \in Configs, RunNew(c)
    PROVE  TypeOK' /\ TrackInv'
  <1> USE DEF TrackInv
  <1> DEFINE n == Cardinality(submitted)
             new == [id |-> n + 1, config |-> c]
  <1>1. /\ tester.pc = "evaluate" /\ Known(c) = {} /\ n < MaxInvocations
        /\ tester' = [tester EXCEPT !.pc = "submit", !.todo = @ \ {c},
                                    !.row = [id : {n + 1}, config : {c}]]
        /\ UNCHANGED << updater, submitted, node, finished, cns, mem, superseded, crashed, clobbered >>
    BY DEF RunNew, testerFrame
  <1>2. [id : {n + 1}, config : {c}] = {new} /\ new \in Rows
    BY <1>1, IdFacts, RowFacts
  <1>3. new.config = c
    OBVIOUS
  <1> HIDE DEF new
  <1>4. /\ tester' \in TesterStates /\ tester'.pc = "submit" /\ tester'.drop = tester.drop
        /\ tester'.gone = tester.gone /\ tester'.row = {new}
    BY <1>1, <1>2 DEF TypeOK, TesterStates
  <1>5. TypeOK'
    BY <1>1, <1>4 DEF TypeOK
  <1>6. TesterInv'
    BY <1>1, <1>4 DEF TesterInv, Prepared, new
  <1>7. ASSUME ~crashed, ~clobbered, NEW r \in submitted PROVE Seen(r)'
    <2>1. Seen(r) /\ (r.config = c => r.id \in superseded)
      BY <1>1, <1>7, KnownFacts DEF SeenInv
    <2> QED
      BY <1>1, <1>3, <1>4, <2>1 DEF Seen, Loaded, Prepared
  <1>8. ~crashed' /\ ~clobbered' => (\A r \in submitted : Seen(r))'
    BY <1>1, <1>7
  <1> QED
    BY <1>1, <1>5, <1>6, <1>8, MemFacts, TesterQuiet

LEMMA RetryStep ==
    ASSUME TypeOK, TrackInv, NEW c \in Configs, Retry(c)
    PROVE  TypeOK' /\ TrackInv'
  <1> USE DEF TrackInv
  <1> DEFINE n == Cardinality(submitted)
             new == [id |-> n + 1, config |-> c]
             old == IF tester.policy = "failed" THEN OldResults(c) ELSE {}
             ids == {r.id : r \in Known(c)}
  <1>1. /\ tester.pc = "evaluate" /\ n < MaxInvocations
        /\ tester' = [tester EXCEPT !.pc = "drop-pending", !.todo = @ \ {c}, !.drop = Known(c),
                                    !.gone = old, !.row = [id : {n + 1}, config : {c}]]
        /\ superseded' = superseded \cup ids
        /\ UNCHANGED << updater, submitted, node, finished, cns, mem, crashed, clobbered >>
    BY DEF Retry, testerFrame
  <1>2. [id : {n + 1}, config : {c}] = {new} /\ new \in Rows
    BY <1>1, IdFacts, RowFacts
  <1>3. new.config = c
    OBVIOUS
  <1>4. /\ Known(c) \subseteq Rows /\ \A r \in Known(c) : r.id \in Ids /\ r.id \in superseded'
        /\ superseded' \subseteq Ids /\ superseded \subseteq superseded'
    BY <1>1, KnownFacts DEF TypeOK
  <1>5. old \subseteq Results /\ \A x \in old : x.id \in superseded'
    <2>1. OldResults(c) \subseteq mem["tester"].results
          /\ \A x \in OldResults(c) : \E r \in Known(c) : r.id = x.id
      BY DEF OldResults, Known
    <2>2. mem["tester"].results \subseteq Results
      BY MemFacts, ContentFacts
    <2> QED
      BY <1>4, <2>1, <2>2
  <1> HIDE DEF new, old, ids
  <1>6. /\ tester' \in TesterStates /\ tester'.pc = "drop-pending" /\ tester'.drop = Known(c)
        /\ tester'.gone = old /\ tester'.row = {new}
    BY <1>1, <1>2, <1>4, <1>5 DEF TypeOK, TesterStates
  <1>7. TypeOK'
    BY <1>1, <1>4, <1>6 DEF TypeOK
  <1>8. TesterInv'
    BY <1>1, <1>4, <1>5, <1>6 DEF TesterInv, Prepared, new
  <1>9. ASSUME ~crashed, ~clobbered, NEW r \in submitted PROVE Seen(r)'
    <2>1. Seen(r) /\ (r.config = c => r.id \in superseded')
      BY <1>1, <1>4, <1>9, KnownFacts DEF SeenInv
    <2> QED
      BY <1>1, <1>3, <1>4, <1>6, <2>1 DEF Seen, Loaded, Prepared
  <1>10. ~crashed' /\ ~clobbered' => (\A r \in submitted : Seen(r))'
    BY <1>1, <1>9
  <1> QED
    BY <1>1, <1>4, <1>7, <1>8, <1>10, MemFacts, TesterQuiet


\* A table is written as test_prebuilts has it in memory, without the rows it drops.
LEMMA DropStep ==
    ASSUME TypeOK, TrackInv, NEW t \in {"pending", "completed"}, NEW next \in Prepared,
           tester.pc \in Prepared, Drop(t, next)
    PROVE  TypeOK' /\ TrackInv'
  <1> USE DEF TrackInv
  <1> DEFINE rows == mem["tester"][t] \ tester.drop
  <1>1. /\ tester' = [tester EXCEPT !.pc = next]
        /\ UNCHANGED << updater, submitted, node, finished, superseded, crashed >>
        /\ \/ UNCHANGED << cns, mem, clobbered >>
           \/ Write("tester", t, rows)
    BY DEF Drop, testerFrame
  <1>2. /\ tester' \in TesterStates /\ tester'.pc = next /\ tester'.drop = tester.drop
        /\ tester'.gone = tester.gone /\ tester'.row = tester.row
    BY <1>1 DEF TypeOK, TesterStates, Prepared
  <1>3. TesterInv'
    BY <1>1, <1>2 DEF TesterInv, Prepared
  <1>4. CASE UNCHANGED << cns, mem, clobbered >>
    <2>1. TypeOK'
      BY <1>1, <1>2, <1>4 DEF TypeOK
    <2>2. ~crashed' /\ ~clobbered' => (\A r \in submitted : Seen(r))'
      BY <1>1, <1>2, <1>4 DEF SeenInv, Seen, Loaded, Prepared
    <2>3. tester.pc # "record"
      BY DEF Prepared
    <2> QED
      BY <1>1, <1>3, <1>4, <2>1, <2>2, <2>3, MemFacts, TesterQuiet
  <1>5. CASE Write("tester", t, rows)
    <2>1. rows \subseteq submitted /\ rows \subseteq Rows
      BY MemFacts, ContentFacts DEF TypeOK
    <2> HIDE DEF rows
    <2>2. /\ cns' \in Content /\ mem' \in [Scripts -> Content] /\ clobbered' \in BOOLEAN
          /\ mem'["updater"] = mem["updater"]
          /\ clobbered' <=> clobbered \/ cns[t] # mem["tester"][t]
          /\ cns'.pending = IF t = "pending" THEN rows ELSE cns.pending
          /\ cns'.completed = IF t = "completed" THEN rows ELSE cns.completed
          /\ cns'.results = cns.results
          /\ mem'["tester"].pending = IF t = "pending" THEN rows ELSE mem["tester"].pending
          /\ mem'["tester"].completed = IF t = "completed" THEN rows ELSE mem["tester"].completed
          /\ mem'["tester"].results = mem["tester"].results
      BY <1>5, <2>1, WriteFacts DEF Scripts, Tables
    <2>3. TypeOK'
      BY <1>1, <1>2, <2>2 DEF TypeOK
    <2>4. /\ cns'.pending \subseteq submitted /\ cns'.completed \subseteq submitted
          /\ mem'["tester"].pending \subseteq submitted /\ mem'["tester"].completed \subseteq submitted
          /\ Single(cns'.results) /\ Single(mem'["tester"].results)
      BY <2>1, <2>2, MemFacts
    <2>5. \A r \in mem["tester"][t] : r \in rows \/ r.id \in superseded
      BY DEF TesterInv, rows
    <2>6. ~clobbered' => ~clobbered /\ cns[t] = mem["tester"][t]
      BY <2>2
    <2>7. /\ cns["pending"] = cns.pending /\ cns["completed"] = cns.completed
          /\ mem["tester"]["pending"] = mem["tester"].pending
          /\ mem["tester"]["completed"] = mem["tester"].completed
      BY MemFacts, ContentFacts
    <2>8. ~clobbered' => /\ \A r \in cns.completed : r \in cns'.completed \/ r.id \in superseded
                         /\ \A r \in cns.pending : r \in cns'.pending \/ r.id \in superseded
      BY <2>2, <2>5, <2>6, <2>7
    <2>9. /\ \A r \in mem["tester"].pending : r \in mem'["tester"].pending \/ r.id \in superseded
          /\ \A r \in mem["tester"].completed :
                 r \in mem'["tester"].completed \/ r.id \in superseded
      BY <2>2, <2>5, <2>7
    <2>10. SeenInv'
      <3> SUFFICES ASSUME ~crashed, ~clobbered', NEW r \in submitted
                   PROVE  Tracked(r)' /\ Seen(r)'
        BY <1>1 DEF SeenInv
      <3>1. Tracked(r) /\ Seen(r)
        BY <2>6 DEF SeenInv
      <3>2. Tracked(r)'
        BY <1>1, <1>2, <2>8, <3>1 DEF Tracked, Prepared
      <3>3. Seen(r)'
        BY <1>1, <1>2, <2>9, <3>1 DEF Seen, Loaded, Prepared
      <3> QED
        BY <3>2, <3>3
    <2>11. IdInv' /\ NoDuplicateSubmission'
      BY <1>1, <2>2 DEF IdInv, NoDuplicateSubmission
    <2>12. clobbered => clobbered'
      BY <2>2
    <2> QED
      BY <1>1, <1>3, <2>2, <2>3, <2>4, <2>8, <2>10, <2>11, <2>12, TesterSuffices
  <1> QED
    BY <1>1, <1>4, <1>5

LEMMA DropResultStep ==
    ASSUME TypeOK, TrackInv, NEW x \in tester.gone, DropResult(x)
    PROVE  TypeOK' /\ TrackInv'
  <1> USE DEF TrackInv
  <1> DEFINE rows == mem["tester"].results \ {x}
  <1>1. /\ tester.pc = "drop-results" /\ tester' = [tester EXCEPT !.gone = @ \ {x}]
        /\ UNCHANGED << updater, submitted, node, finished, superseded, crashed >>
        /\ Write("tester", "results", rows)
    BY DEF DropResult, testerFrame
  <1>2. /\ tester' \in TesterStates /\ tester'.pc = tester.pc /\ tester'.drop = tester.drop
        /\ tester'.gone \subseteq tester.gone /\ tester'.row = tester.row
    BY <1>1 DEF TypeOK, TesterStates
  <1>3. TesterInv'
    BY <1>1, <1>2 DEF TesterInv
  <1>4. rows \subseteq Results /\ Single(rows) /\ x.id \in superseded
    BY MemFacts, ContentFacts DEF Single, TesterInv
  <1> HIDE DEF rows
  <1>5. /\ cns' \in Content /\ mem' \in [Scripts -> Content] /\ clobbered' \in BOOLEAN
        /\ mem'["updater"] = mem["updater"]
        /\ clobbered' <=> clobbered \/ cns["results"] # mem["tester"]["results"]
        /\ cns'.pending = cns.pending /\ cns'.completed = cns.completed
        /\ cns'.results = rows
        /\ mem'["tester"].pending = mem["tester"].pending
        /\ mem'["tester"].completed = mem["tester"].completed
        /\ mem'["tester"].results = rows
    BY <1>1, <1>4, WriteFacts DEF Scripts, Tables
  <1>6. TypeOK'
    BY <1>1, <1>2, <1>5 DEF TypeOK
  <1>7. ~clobbered' => \A y \in cns.results : y \in cns'.results \/ y.id \in superseded
    BY <1>4, <1>5, MemFacts, ContentFacts DEF rows
  <1>8. SeenInv'
    BY <1>1, <1>2, <1>5 DEF SeenInv, Tracked, Seen
  <1>9. IdInv' /\ NoDuplicateSubmission'
    BY <1>1, <1>5 DEF IdInv, NoDuplicateSubmission
  <1>10. clobbered => clobbered'
    BY <1>5
  <1>11. /\ cns'.pending \subseteq submitted /\ cns'.completed \subseteq submitted
         /\ mem'["tester"].pending \subseteq submitted /\ mem'["tester"].completed \subseteq submitted
         /\ Single(cns'.results) /\ Single(mem'["tester"].results)
    BY <1>4, <1>5, MemFacts
  <1> QED
    BY <1>1, <1>3, <1>5, <1>6, <1>7, <1>8, <1>9, <1>10, <1>11, TesterSuffices

LEMMA ResultsDroppedStep ==
    ASSUME TypeOK, TrackInv, ResultsDropped
    PROVE  TypeOK' /\ TrackInv'
  <1> USE DEF TrackInv
  <1>1. /\ tester.pc = "drop-results" /\ tester' = [tester EXCEPT !.pc = "submit"]
        /\ UNCHANGED << updater, submitted, node, finished, cns, mem, superseded, crashed, clobbered >>
    BY DEF ResultsDropped, testerFrame
  <1>2. /\ tester' \in TesterStates /\ tester'.pc = "submit" /\ tester'.drop = tester.drop
        /\ tester'.gone = tester.gone /\ tester'.row = tester.row
    BY <1>1 DEF TypeOK, TesterStates
  <1>3. TypeOK'
    BY <1>1, <1>2 DEF TypeOK
  <1>4. TesterInv'
    BY <1>1, <1>2 DEF TesterInv, Prepared
  <1>5. ~crashed' /\ ~clobbered' => (\A r \in submitted : Seen(r))'
    BY <1>1, <1>2 DEF SeenInv, Seen, Loaded, Prepared
  <1> QED
    BY <1>1, <1>3, <1>4, <1>5, MemFacts, TesterQuiet

LEMMA SubmitStep ==
    ASSUME TypeOK, TrackInv, Submit
    PROVE  TypeOK' /\ TrackInv'
  <1> USE DEF TrackInv
  <1> DEFINE n == Cardinality(submitted)
  <1>1. /\ tester.pc = "submit" /\ submitted' = submitted \cup tester.row
        /\ tester' = [tester EXCEPT !.pc = "record", !.drop = {}]
        /\ UNCHANGED << cns, node, finished, updater, mem, superseded, crashed, clobbered >>
    BY DEF Submit
  <1>2. n \in Nat /\ n < MaxInvocations
    BY <1>1, IdFacts DEF TesterInv, Prepared
  <1>3. PICK c \in Configs : tester.row = {[id |-> n + 1, config |-> c]}
    BY <1>1 DEF TesterInv, Prepared
  <1> DEFINE new == [id |-> n + 1, config |-> c]
  <1>4. new \in Rows /\ new.id = n + 1 /\ tester.row = {new}
    BY <1>2, <1>3, RowFacts
  <1> HIDE DEF new
  <1>5. /\ tester' \in TesterStates /\ tester'.pc = "record" /\ tester'.drop = {}
        /\ tester'.gone = tester.gone /\ tester'.row = {new}
    BY <1>1, <1>4 DEF TypeOK, TesterStates
  <1>6. TypeOK'
    BY <1>1, <1>4, <1>5 DEF TypeOK
  <1>7. \A r \in submitted : r.id \in Nat /\ r.id <= n
    BY DEF IdInv, TypeOK, Rows, Ids
  <1>8. IdInv'
    <2>1. new \notin submitted
      BY <1>2, <1>4, <1>7
    <2>2. IsFiniteSet(submitted') /\ Cardinality(submitted') = n + 1
      BY <1>1, <1>4, <2>1, FS_AddElement DEF IdInv
    <2>3. \A r \in submitted' : r.id <= n + 1
      BY <1>1, <1>2, <1>4, <1>7
    <2>4. \A r, q \in submitted' : r.id = q.id => r = q
      BY <1>1, <1>2, <1>4, <1>7 DEF IdInv
    <2> QED
      BY <2>2, <2>3, <2>4 DEF IdInv
  <1>9. TesterInv'
    BY <1>1, <1>4, <1>5 DEF TesterInv, Prepared
  <1>10. \A r \in submitted : ~crashed /\ ~clobbered /\ r.config = new.config => r.id \in superseded
    BY <1>1, <1>4 DEF SeenInv, Seen, Prepared
  <1>11. NoDuplicateSubmission'
    BY <1>1, <1>4, <1>10 DEF NoDuplicateSubmission
  <1>12. SeenInv'
    <2> SUFFICES ASSUME ~crashed, ~clobbered, NEW r \in submitted'
                 PROVE  Tracked(r)' /\ Seen(r)'
      BY <1>1 DEF SeenInv
    <2>1. CASE r = new
      BY <1>5, <2>1 DEF Tracked, Seen, Prepared
    <2>2. CASE r \in submitted
      <3>1. Tracked(r) /\ Seen(r)
        BY <2>2 DEF SeenInv
      <3> QED
        BY <1>1, <1>5, <3>1 DEF Tracked, Seen, Loaded, Prepared
    <2> QED
      BY <1>1, <1>4, <2>1, <2>2
  <1>13. /\ cns'.pending \subseteq submitted' /\ cns'.completed \subseteq submitted'
         /\ mem'["tester"].pending \subseteq submitted' /\ mem'["tester"].completed \subseteq submitted'
         /\ Single(cns'.results) /\ Single(mem'["tester"].results)
    BY <1>1, MemFacts
  <1> QED
    BY <1>1, <1>6, <1>8, <1>9, <1>11, <1>12, <1>13, TesterSuffices

LEMMA RecordStep ==
    ASSUME TypeOK, TrackInv, Record
    PROVE  TypeOK' /\ TrackInv'
  <1> USE DEF TrackInv
  <1> DEFINE rows == mem["tester"].pending \cup tester.row
  <1>1. /\ tester.pc = "record" /\ tester' = [tester EXCEPT !.pc = "evaluate", !.row = {}]
        /\ UNCHANGED << updater, submitted, node, finished, superseded, crashed >>
        /\ Write("tester", "pending", rows)
    BY DEF Record, testerFrame
  <1>2. /\ tester' \in TesterStates /\ tester'.pc = "evaluate" /\ tester'.drop = tester.drop
        /\ tester'.gone = tester.gone /\ tester'.row = {}
    BY <1>1 DEF TypeOK, TesterStates
  <1>3. TesterInv'
    BY <1>1, <1>2 DEF TesterInv, Prepared
  <1>4. rows \subseteq submitted /\ rows \subseteq Rows
    BY <1>1, MemFacts DEF TesterInv, TypeOK
  <1> HIDE DEF rows
  <1>5. /\ cns' \in Content /\ mem' \in [Scripts -> Content] /\ clobbered' \in BOOLEAN
        /\ mem'["updater"] = mem["updater"]
        /\ clobbered' <=> clobbered \/ cns["pending"] # mem["tester"]["pending"]
        /\ cns'.pending = rows /\ cns'.completed = cns.completed /\ cns'.results = cns.results
        /\ mem'["tester"].pending = rows
        /\ mem'["tester"].completed = mem["tester"].completed
        /\ mem'["tester"].results = mem["tester"].results
    BY <1>1, <1>4, WriteFacts DEF Scripts, Tables
  <1>6. TypeOK'
    BY <1>1, <1>2, <1>5 DEF TypeOK
  <1>7. ~clobbered' => ~clobbered /\ cns.pending = mem["tester"].pending
    BY <1>5, MemFacts, ContentFacts
  <1>8. SeenInv'
    <2> SUFFICES ASSUME ~crashed, ~clobbered', NEW r \in submitted
                 PROVE  Tracked(r)' /\ Seen(r)'
      BY <1>1 DEF SeenInv
    <2>1. Tracked(r) /\ Seen(r)
      BY <1>7 DEF SeenInv
    <2>2. Tracked(r)'
      BY <1>1, <1>5, <1>7, <2>1 DEF Tracked, rows
    <2>3. Seen(r)'
      BY <1>1, <1>2, <1>5, <2>1 DEF Seen, Loaded, Prepared, rows
    <2> QED
      BY <2>2, <2>3
  <1>9. IdInv' /\ NoDuplicateSubmission'
    BY <1>1, <1>5 DEF IdInv, NoDuplicateSubmission
  <1>10. /\ clobbered => clobbered'
         /\ cns'.pending \subseteq submitted /\ cns'.completed \subseteq submitted
         /\ mem'["tester"].pending \subseteq submitted /\ mem'["tester"].completed \subseteq submitted
         /\ Single(cns'.results) /\ Single(mem'["tester"].results)
    BY <1>4, <1>5, MemFacts
  <1>11. /\ \A x \in cns.results : x \in cns'.results
         /\ \A r \in cns.completed : r \in cns'.completed
    BY <1>5
  <1> QED
    BY <1>1, <1>3, <1>5, <1>6, <1>8, <1>9, <1>10, <1>11, TesterSuffices

-----------------------------------------------------------------------------
(* update_results. *)

\* When no table is written, it is enough to look at its own state.
LEMMA UpdaterQuiet ==
    ASSUME TypeOK, TrackInv, UNCHANGED << cns, tester, submitted, superseded, clobbered >>,
           mem'["tester"] = mem["tester"], crashed => crashed',
           mem'["updater"].pending \subseteq submitted, mem'["updater"].completed \subseteq submitted,
           updater'.topoll \subseteq submitted, updater'.done \subseteq submitted,
           ResultsInv', UpdaterInv', WrittenInv'
    PROVE  TrackInv'
  BY UpdaterSuffices, MemFacts

LEMMA StartUpdaterStep ==
    ASSUME TypeOK, TrackInv, StartUpdater
    PROVE  TypeOK' /\ TrackInv'
  <1> USE DEF TrackInv
  <1>1. /\ updater' = [IdleUpdater EXCEPT !.pc = "load-pending"]
        /\ UNCHANGED << cns, submitted, node, finished, tester, mem, superseded, crashed, clobbered >>
    BY DEF StartUpdater, updaterFrame, AfterLoad
  <1>2. /\ updater' \in UpdaterStates /\ updater'.pc = "load-pending" /\ updater'.topoll = {}
        /\ updater'.polled = {} /\ updater'.done = {}
    BY <1>1 DEF IdleUpdater, UpdaterStates, LoadSteps
  <1>3. TypeOK'
    BY <1>1, <1>2 DEF TypeOK
  <1>4. ResultsInv'
    BY <1>1, <1>2 DEF ResultsInv, Single, LoadSteps
  <1>5. UpdaterInv' /\ WrittenInv'
    BY <1>2 DEF UpdaterInv, WrittenInv, WriteSteps
  <1> QED
    BY <1>1, <1>2, <1>3, <1>4, <1>5, MemFacts, UpdaterQuiet

\* The run ends without an entry: the tables stay as they are.
LEMMA UpdaterEnds ==
    ASSUME TypeOK, TrackInv, MoveRaises \/ UpdaterCrashes
    PROVE  TypeOK' /\ TrackInv'
  <1> USE DEF TrackInv
  <1>1. /\ updater' = IdleUpdater /\ Forget("updater")
        /\ UNCHANGED << tester, submitted, node, finished, cns, superseded, clobbered >>
        /\ crashed' \in BOOLEAN /\ (crashed => crashed')
    BY DEF MoveRaises, UpdaterCrashes, updaterFrame, TypeOK
  <1>2. /\ mem' \in [Scripts -> Content] /\ mem'["updater"] = Empty /\ mem'["tester"] = mem["tester"]
    BY <1>1, ForgetFacts DEF Scripts
  <1>3. TypeOK'
    BY <1>1, <1>2, EmptyFacts DEF TypeOK
  <1>4. /\ updater'.pc = "idle" /\ updater'.topoll = {}
        /\ updater'.polled = {} /\ updater'.done = {}
    BY <1>1 DEF IdleUpdater
  <1>5. ResultsInv'
    BY <1>1, <1>2, <1>4, EmptyFacts DEF ResultsInv, Single, Scripts, LoadSteps
  <1>6. UpdaterInv' /\ WrittenInv'
    BY <1>4 DEF UpdaterInv, WrittenInv, WriteSteps
  <1>7. /\ mem'["updater"].pending \subseteq submitted /\ mem'["updater"].completed \subseteq submitted
    BY <1>2, EmptyFacts
  <1> QED
    BY <1>1, <1>2, <1>3, <1>4, <1>5, <1>6, <1>7, UpdaterQuiet

LEMMA UpdaterLoadsStep ==
    ASSUME TypeOK, TrackInv, UpdaterLoads
    PROVE  TypeOK' /\ TrackInv'
  <1> USE DEF TrackInv
  <1> DEFINE t == TableOf(updater.pc)
  <1>1. /\ updater.pc \in LoadSteps /\ Read("updater", t)
        /\ UNCHANGED << tester, submitted, node, finished, superseded, cns, crashed, clobbered >>
    BY DEF UpdaterLoads, updaterFrame
  <1>2. t \in Tables /\ "updater" \in Scripts
    BY <1>1 DEF LoadSteps, TableOf, Tables, Scripts
  <1> HIDE DEF t
  <1>3. /\ mem' \in [Scripts -> Content] /\ mem'["tester"] = mem["tester"]
        /\ mem'["updater"].pending \in {cns.pending, mem["updater"].pending}
        /\ mem'["updater"].completed \in {cns.completed, mem["updater"].completed}
        /\ mem'["updater"].results \in {cns.results, mem["updater"].results}
    BY <1>1, <1>2, ReadFacts DEF Scripts
  <1>4. updater.polled = {} /\ updater.done = {}
    BY <1>1 DEF ResultsInv
  <1>5. /\ updater' \in UpdaterStates /\ updater'.pc \in LoadSteps \cup {"poll"}
        /\ updater'.topoll \subseteq submitted /\ updater'.polled = {} /\ updater'.done = {}
    <2>1. CASE updater.pc = "load-results"
      <3>1. updater' = [updater EXCEPT !.pc = "poll", !.topoll = mem["updater"].pending]
        BY <2>1 DEF UpdaterLoads
      <3>2. mem["updater"].pending \in SUBSET Rows /\ mem["updater"].pending \subseteq submitted
        BY MemFacts, ContentFacts
      <3> QED
        BY <1>4, <3>1, <3>2 DEF TypeOK, UpdaterStates
    <2>2. CASE updater.pc # "load-results"
      <3>1. updater' = [updater EXCEPT !.pc = AfterLoad(updater.pc)]
        BY <2>2 DEF UpdaterLoads
      <3>2. AfterLoad(updater.pc) \in LoadSteps
        BY <1>1, <2>2 DEF LoadSteps, AfterLoad
      <3> QED
        BY <1>4, <3>1, <3>2 DEF TypeOK, UpdaterStates, RowsInv
    <2> QED
      BY <2>1, <2>2
  <1>6. TypeOK'
    BY <1>1, <1>3, <1>5 DEF TypeOK
  <1>7. /\ mem'["updater"].pending \subseteq submitted /\ mem'["updater"].completed \subseteq submitted
        /\ Single(mem'["updater"].results)
    BY <1>3, MemFacts
  <1>8. ResultsInv'
    BY <1>1, <1>3, <1>5, <1>7 DEF ResultsInv, Single, Scripts
  <1>9. UpdaterInv' /\ WrittenInv'
    BY <1>5 DEF UpdaterInv, WrittenInv, WriteSteps, LoadSteps
  <1> QED
    BY <1>1, <1>3, <1>5, <1>6, <1>7, <1>8, <1>9, UpdaterQuiet

LEMMA StatusFacts ==
    ASSUME TypeOK, NEW i \in Ids
    PROVE  Status(i) \subseteq Results /\ Single(Status(i)) /\ \A x \in Status(i) : x.id = i
  <1>1. ASSUME NEW x \in Status(i)
        PROVE  x.id = i /\ x.node \in Nodes /\ x.result = node[i][x.node] /\ x \in Results
    <2>1. PICK n \in Nodes : node[i][n] # "open" /\ x = [id |-> i, node |-> n, result |-> node[i][n]]
      BY DEF Status
    <2>2. node[i][n] \in Outcomes
      BY <2>1 DEF TypeOK
    <2> QED
      BY <2>1, <2>2 DEF Results
  <1>2. Single(Status(i))
    <2> SUFFICES ASSUME NEW x \in Status(i), NEW y \in Status(i), x.node = y.node PROVE x = y
      BY DEF Single
    <2> QED
      BY <1>1 DEF Results
  <1> QED
    BY <1>1, <1>2

\* What is polled of an invocation that is over is all there will be.
LEMMA PollStep ==
    ASSUME TypeOK, TrackInv, NEW r \in updater.topoll, Poll(r)
    PROVE  TypeOK' /\ TrackInv'
  <1> USE DEF TrackInv
  <1>1. /\ updater.pc = "poll"
        /\ updater' = [updater EXCEPT
                         !.topoll = updater.topoll \ {r},
                         !.polled = IF Recorded(r) THEN updater.polled
                                    ELSE updater.polled \cup Status(r.id),
                         !.done = IF Complete(r) THEN updater.done \cup {r} ELSE updater.done]
        /\ UNCHANGED << cns, submitted, node, finished, tester, mem, superseded, crashed, clobbered >>
    BY DEF Poll, updaterFrame, TypeOK, UpdaterStates
  <1>2. r \in Rows /\ r \in submitted /\ r.id \in Ids
    BY DEF TypeOK, UpdaterStates, RowsInv, Rows
  <1>3. Status(r.id) \subseteq Results /\ Single(Status(r.id)) /\ \A x \in Status(r.id) : x.id = r.id
    BY <1>2, StatusFacts
  <1>4. /\ updater' \in UpdaterStates /\ updater'.pc = "poll"
        /\ updater'.topoll = updater.topoll \ {r}
        /\ updater'.polled = IF Recorded(r) THEN updater.polled ELSE updater.polled \cup Status(r.id)
        /\ updater'.done = IF Complete(r) THEN updater.done \cup {r} ELSE updater.done
    BY <1>1, <1>2, <1>3 DEF TypeOK, UpdaterStates
  <1>5. TypeOK'
    BY <1>1, <1>4 DEF TypeOK
  <1>6. ResultsInv'
    <2>1. Single(updater.polled) /\ \A x \in updater.polled, q \in updater.topoll : x.id # q.id
      BY <1>1 DEF ResultsInv
    <2>2. Single(updater'.polled)
      BY <1>3, <1>4, <2>1 DEF Single
    <2>3. \A q \in updater'.topoll : q.id # r.id
      <3> SUFFICES ASSUME NEW q \in updater'.topoll PROVE q.id # r.id
        OBVIOUS
      <3>1. q \in submitted /\ q # r
        BY <1>4 DEF RowsInv
      <3> QED
        BY <1>2, <3>1 DEF IdInv
    <2>4. \A x \in updater'.polled, q \in updater'.topoll : x.id # q.id
      BY <1>3, <1>4, <2>1, <2>3
    <2> QED
      BY <1>1, <1>4, <2>2, <2>4 DEF ResultsInv, LoadSteps, Single
  <1>7. UpdaterInv'
    <2>1. \A q \in updater.done : Recorded(q) \/ Final(q)
      BY <1>1 DEF UpdaterInv
    <2>2. Complete(r) /\ ~Recorded(r) => r.id \in finished /\ Status(r.id) \subseteq updater'.polled
      BY <1>4 DEF Complete
    <2>3. \A q : Recorded(q)' <=> Recorded(q)
      BY <1>1 DEF Recorded
    <2>4. \A q : Final(q) => Final(q)'
      BY <1>1, <1>4 DEF Final, Status
    <2>5. Complete(r) /\ ~Recorded(r) => Final(r)'
      BY <1>1, <2>2 DEF Final, Status
    <2>6. \A q \in updater'.done : Recorded(q)' \/ Final(q)'
      BY <1>4, <2>1, <2>3, <2>4, <2>5
    <2> QED
      BY <1>4, <2>6 DEF UpdaterInv, WriteSteps
  <1>8. WrittenInv'
    BY <1>4 DEF WrittenInv
  <1>9. updater'.topoll \subseteq submitted /\ updater'.done \subseteq submitted
    BY <1>2, <1>4 DEF RowsInv
  <1> QED
    BY <1>1, <1>5, <1>6, <1>7, <1>8, <1>9, MemFacts, UpdaterQuiet

LEMMA MoveStep ==
    ASSUME TypeOK, TrackInv, Move
    PROVE  TypeOK' /\ TrackInv'
  <1> USE DEF TrackInv
  <1>1. /\ updater.pc = "poll" /\ \A r \in updater.done : ~Recorded(r)
        /\ updater' = [updater EXCEPT !.pc = "write-results"]
        /\ UNCHANGED << cns, submitted, node, finished, tester, mem, superseded, crashed, clobbered >>
    BY DEF Move, updaterFrame, AfterWrite
  <1>2. /\ updater' \in UpdaterStates /\ updater'.pc = "write-results"
        /\ updater'.topoll = updater.topoll /\ updater'.polled = updater.polled
        /\ updater'.done = updater.done
    BY <1>1 DEF TypeOK, UpdaterStates, WriteSteps
  <1>3. TypeOK'
    BY <1>1, <1>2 DEF TypeOK
  <1>4. ResultsInv'
    BY <1>1, <1>2 DEF ResultsInv, LoadSteps
  <1>5. UpdaterInv'
    <2>1. \A r \in updater.done : Final(r)
      BY <1>1 DEF UpdaterInv
    <2> QED
      BY <1>1, <1>2, <2>1 DEF UpdaterInv, Final, Status
  <1>6. WrittenInv'
    BY <1>2 DEF WrittenInv
  <1> QED
    BY <1>1, <1>2, <1>3, <1>4, <1>5, <1>6, MemFacts, UpdaterQuiet DEF RowsInv

LEMMA MergedFacts ==
    ASSUME NEW old \in SUBSET Results, NEW new \in SUBSET Results, Single(old), Single(new)
    PROVE  /\ Merged(old, new) \in SUBSET Results /\ Single(Merged(old, new))
           /\ new \subseteq Merged(old, new)
  BY DEF Merged, Single

LEMMA NewTablesFacts ==
    ASSUME TypeOK, TrackInv
    PROVE  /\ NewTables["results"] = Merged(mem["updater"].results, updater.polled)
           /\ NewTables["results"] \in SUBSET Results /\ Single(NewTables["results"])
           /\ updater.polled \subseteq NewTables["results"]
           /\ NewTables["completed"] = mem["updater"].completed \cup updater.done
           /\ NewTables["completed"] \in SUBSET Rows /\ NewTables["completed"] \subseteq submitted
           /\ NewTables["pending"] = mem["updater"].pending \ updater.done
           /\ NewTables["pending"] \in SUBSET Rows /\ NewTables["pending"] \subseteq submitted
  <1>1. /\ mem["updater"].results \in SUBSET Results /\ Single(mem["updater"].results)
        /\ updater.polled \in SUBSET Results /\ Single(updater.polled)
    BY MemFacts, ContentFacts DEF TypeOK, UpdaterStates, TrackInv, ResultsInv
  <1>2. /\ mem["updater"].completed \in SUBSET Rows /\ mem["updater"].completed \subseteq submitted
        /\ mem["updater"].pending \in SUBSET Rows /\ mem["updater"].pending \subseteq submitted
        /\ updater.done \in SUBSET Rows /\ updater.done \subseteq submitted
    BY MemFacts, ContentFacts DEF TypeOK, UpdaterStates, TrackInv, RowsInv
  <1>3. /\ NewTables["results"] = Merged(mem["updater"].results, updater.polled)
        /\ NewTables["completed"] = mem["updater"].completed \cup updater.done
        /\ NewTables["pending"] = mem["updater"].pending \ updater.done
    BY DEF NewTables
  <1> QED
    BY <1>1, <1>2, <1>3, MergedFacts

\* The three tables are written results first and pending last.
LEMMA UpdaterWritesStep ==
    ASSUME TypeOK, TrackInv, UpdaterWrites
    PROVE  TypeOK' /\ TrackInv'
  <1> USE DEF TrackInv
  <1> DEFINE t == TableOf(updater.pc)
             rows == NewTables[t]
  <1>1. /\ updater.pc \in WriteSteps /\ cns' = [cns EXCEPT ![t] = rows]
        /\ clobbered' = (clobbered \/ cns[t] # mem["updater"][t])
        /\ UNCHANGED << tester, submitted, node, finished, superseded, crashed >>
    BY DEF UpdaterWrites, updaterFrame
  <1>2. t = IF updater.pc = "write-results" THEN "results"
            ELSE IF updater.pc = "write-completed" THEN "completed" ELSE "pending"
    BY <1>1 DEF TableOf, WriteSteps
  <1>3. /\ IF updater.pc = "write-pending"
           THEN updater' = IdleUpdater /\ Forget("updater")
           ELSE /\ updater' = [updater EXCEPT !.pc = IF updater.pc = "write-results"
                                                     THEN "write-completed" ELSE "write-pending"]
                /\ UNCHANGED mem
    BY <1>1 DEF UpdaterWrites, AfterWrite, WriteSteps
  <1>4. /\ t \in Tables /\ rows \in IF t = "results" THEN SUBSET Results ELSE SUBSET Rows
        /\ rows \subseteq submitted \/ t = "results"
        /\ Single(rows) \/ t # "results"
    BY <1>2, NewTablesFacts DEF Tables
  <1>5. /\ mem["updater"]["pending"] = mem["updater"].pending
        /\ mem["updater"]["completed"] = mem["updater"].completed
        /\ cns["pending"] = cns.pending /\ cns["completed"] = cns.completed
    BY MemFacts, ContentFacts
  <1> HIDE DEF t, rows
  <1>6. /\ cns' \in Content
        /\ cns'.pending = IF t = "pending" THEN rows ELSE cns.pending
        /\ cns'.completed = IF t = "completed" THEN rows ELSE cns.completed
        /\ cns'.results = IF t = "results" THEN rows ELSE cns.results
    <2> DEFINE D == [cns EXCEPT ![t] = rows]
    <2>1. /\ D \in Content
          /\ D.pending = IF t = "pending" THEN rows ELSE cns.pending
          /\ D.completed = IF t = "completed" THEN rows ELSE cns.completed
          /\ D.results = IF t = "results" THEN rows ELSE cns.results
      BY <1>4, MemFacts, PutFacts
    <2>2. cns' = D
      BY <1>1
    <2> HIDE DEF D
    <2> QED
      BY <2>1, <2>2
  <1>7. /\ mem' \in [Scripts -> Content] /\ mem'["tester"] = mem["tester"]
        /\ mem'["updater"] \in {mem["updater"], Empty}
    <2>1. CASE updater.pc = "write-pending"
      BY <1>3, <2>1, ForgetFacts DEF Scripts
    <2>2. CASE updater.pc # "write-pending"
      BY <1>3, <2>2 DEF TypeOK
    <2> QED
      BY <2>1, <2>2
  <1>8. /\ mem'["updater"].pending \subseteq submitted /\ mem'["updater"].completed \subseteq submitted
        /\ Single(mem'["updater"].results)
    BY <1>7, MemFacts, EmptyFacts DEF Single
  <1>9. \/ /\ updater.pc = "write-pending" /\ updater'.pc = "idle" /\ updater'.topoll = {}
           /\ updater'.polled = {} /\ updater'.done = {}
        \/ /\ updater.pc = "write-results" /\ updater'.pc = "write-completed"
           /\ updater'.topoll = updater.topoll
           /\ updater'.polled = updater.polled /\ updater'.done = updater.done
        \/ /\ updater.pc = "write-completed" /\ updater'.pc = "write-pending"
           /\ updater'.topoll = updater.topoll
           /\ updater'.polled = updater.polled /\ updater'.done = updater.done
    BY <1>1, <1>3 DEF WriteSteps, IdleUpdater, TypeOK, UpdaterStates
  <1>10. updater' \in UpdaterStates
    <2>1. CASE updater.pc = "write-pending"
      BY <1>3, <2>1, EmptyFacts
    <2>2. CASE updater.pc # "write-pending"
      BY <1>3, <2>2 DEF TypeOK, UpdaterStates, WriteSteps
    <2> QED
      BY <2>1, <2>2
  <1>11. TypeOK'
    BY <1>1, <1>6, <1>7, <1>10 DEF TypeOK
  <1>12. ResultsInv'
    <2>1. Single(cns'.results)
      BY <1>4, <1>6, MemFacts
    <2>2. Single(updater'.polled)
      BY <1>9 DEF ResultsInv, Single
    <2>3. \A s \in Scripts : Single(mem'[s].results)
      BY <1>7, <1>8, MemFacts DEF Scripts
    <2> QED
      BY <1>9, <2>1, <2>2, <2>3 DEF ResultsInv, LoadSteps
  <1>13. UpdaterInv'
    BY <1>1, <1>9 DEF UpdaterInv, Final, Status, WriteSteps
  <1>14. ~clobbered' => ~clobbered /\ cns[t] = mem["updater"][t]
    BY <1>1
  <1>15. ~clobbered' => \A r \in cns.completed : r \in cns'.completed
    BY <1>2, <1>5, <1>6, <1>14, NewTablesFacts DEF rows
  <1>16. ~clobbered' => \A r \in cns.pending :
             r \in cns'.pending \/ r \in cns'.completed \/ r.id \in superseded
    <2> SUFFICES ASSUME ~clobbered', NEW r \in cns.pending
                 PROVE  r \in cns'.pending \/ r \in cns'.completed \/ r.id \in superseded
      OBVIOUS
    <2>1. CASE updater.pc = "write-pending"
      <3>1. r \in updater.done => r \in cns.completed \/ r.id \in superseded
        BY <1>14, <2>1 DEF WrittenInv
      <3>2. cns'.pending = cns.pending \ updater.done /\ cns'.completed = cns.completed
        BY <1>2, <1>5, <1>6, <1>14, <2>1, NewTablesFacts DEF rows
      <3> QED
        BY <3>1, <3>2
    <2>2. CASE updater.pc # "write-pending"
      BY <1>1, <1>2, <1>6, <2>2 DEF WriteSteps
    <2> QED
      BY <2>1, <2>2
  <1>17. WrittenInv'
    <2> SUFFICES ASSUME ~clobbered'
                 PROVE  /\ updater'.pc \in { "write-completed", "write-pending" } =>
                               \A x \in updater'.polled : x \in cns'.results \/ x.id \in superseded
                        /\ updater'.pc = "write-pending" =>
                               \A r \in updater'.done : r \in cns'.completed \/ r.id \in superseded
      BY <1>1 DEF WrittenInv
    <2>1. CASE updater.pc = "write-results"
      BY <1>2, <1>6, <1>9, <2>1, NewTablesFacts DEF rows
    <2>2. CASE updater.pc = "write-completed"
      <3>1. \A x \in updater.polled : x \in cns.results \/ x.id \in superseded
        BY <1>14, <2>2 DEF WrittenInv
      <3> QED
        BY <1>2, <1>6, <1>9, <2>2, <3>1, NewTablesFacts DEF rows
    <2>3. CASE updater.pc = "write-pending"
      BY <1>9, <2>3
    <2> QED
      BY <1>1, <2>1, <2>2, <2>3 DEF WriteSteps
  <1>18. /\ cns'.pending \subseteq submitted /\ cns'.completed \subseteq submitted
         /\ updater'.topoll \subseteq submitted /\ updater'.done \subseteq submitted
    BY <1>4, <1>6, <1>9, MemFacts DEF RowsInv
  <1>19. clobbered => clobbered'
    BY <1>1
  <1> QED
    BY <1>1, <1>7, <1>8, <1>11, <1>12, <1>13, <1>15, <1>16, <1>17, <1>18, <1>19, UpdaterSuffices

-----------------------------------------------------------------------------
LEMMA TrackInvStep ==
    ASSUME TypeOK, TrackInv, [Next]_vars
    PROVE  TypeOK' /\ TrackInv'
  <1>1. CASE Forrest
    BY <1>1, ForrestStep
  <1>2. CASE StartTester
    BY <1>2, StartTesterStep
  <1>3. CASE TesterStep
    <2>1. CASE TesterLoads
      BY <2>1, TesterLoadsStep
    <2>2. ASSUME NEW c \in Configs, Skip(c) \/ RunNew(c) \/ Retry(c)
          PROVE  TypeOK' /\ TrackInv'
      BY <2>2, SkipStep, RunNewStep, RetryStep
    <2>3. CASE DropPending
      BY <2>3, DropStep DEF DropPending, Prepared
    <2>4. CASE DropCompleted
      BY <2>4, DropStep DEF DropCompleted, Prepared
    <2>5. ASSUME NEW x \in tester.gone, DropResult(x)
          PROVE  TypeOK' /\ TrackInv'
      BY <2>5, DropResultStep
    <2>6. CASE ResultsDropped
      BY <2>6, ResultsDroppedStep
    <2>7. CASE Submit
      BY <2>7, SubmitStep
    <2>8. CASE Record
      BY <2>8, RecordStep
    <2>9. CASE TesterReturns \/ TesterRaises \/ TesterStops
      BY <2>9, TesterEnds
    <2> QED
      BY <1>3, <2>1, <2>2, <2>3, <2>4, <2>5, <2>6, <2>7, <2>8, <2>9 DEF TesterStep
  <1>4. CASE TesterCrashes
    BY <1>4, TesterEnds
  <1>5. CASE StartUpdater
    BY <1>5, StartUpdaterStep
  <1>6. CASE UpdaterStep
    <2>1. CASE UpdaterLoads
      BY <2>1, UpdaterLoadsStep
    <2>2. ASSUME NEW r \in updater.topoll, Poll(r)
          PROVE  TypeOK' /\ TrackInv'
      BY <2>2, PollStep
    <2>3. CASE Move
      BY <2>3, MoveStep
    <2>4. CASE MoveRaises
      BY <2>4, UpdaterEnds
    <2>5. CASE UpdaterWrites
      BY <2>5, UpdaterWritesStep
    <2> QED
      BY <1>6, <2>1, <2>2, <2>3, <2>4, <2>5 DEF UpdaterStep
  <1>7. CASE UpdaterCrashes
    BY <1>7, UpdaterEnds
  <1>8. CASE UNCHANGED vars
    BY <1>8 DEF vars, TypeOK, TrackInv, IdInv, RowsInv, TesterInv, ResultsInv, UpdaterInv,
        Final, Recorded, Status, WrittenInv, SeenInv, Seen, Tracked, NoDuplicateSubmission
  <1> QED
    BY <1>1, <1>2, <1>3, <1>4, <1>5, <1>6, <1>7, <1>8 DEF Next

LEMMA TrackInvHolds == Spec => [](TypeOK /\ TrackInv)
  BY TrackInvInit, TrackInvStep, PTL DEF Spec

-----------------------------------------------------------------------------
(* The results. *)

\* The tables, the two scripts and Forrest keep their types whatever they interleave.
THEOREM TypeTheorem == Spec => []TypeOK
  BY TrackInvHolds, PTL

\* As long as no script was stopped and no table overwritten unseen, a configuration is
\* not submitted again, unless its invocation was to be replaced: what test_prebuilts
\* loads misses no invocation, though update_results moves rows between the tables.
THEOREM DuplicateTheorem == Spec => []NoDuplicateSubmission
  <1>1. TypeOK /\ TrackInv => NoDuplicateSubmission
    BY DEF TrackInv
  <1> QED
    BY <1>1, TrackInvHolds, PTL

\* A work node has one result on file.
THEOREM OneResultTheorem == Spec => []OneResultPerNode
  <1>1. TypeOK /\ TrackInv => OneResultPerNode
    BY DEF TrackInv, ResultsInv, Single, OneResultPerNode
  <1> QED
    BY <1>1, TrackInvHolds, PTL

\* What test_prebuilts takes out of the pending table is replaced.
LEMMA TesterLeaves ==
    ASSUME TypeOK, TrackInv, DropPending \/ DropCompleted \/ (\E x \in tester.gone : DropResult(x))
                             \/ Record,
           NEW r \in cns.pending \ cns'.pending, ~clobbered'
    PROVE  LeavesRecorded(r)
  <1>1. CASE DropPending
    <2> DEFINE rows == mem["tester"]["pending"] \ tester.drop
    <2>1. Write("tester", "pending", rows)
      BY <1>1 DEF DropPending, Drop
    <2>2. rows \in SUBSET Rows
      BY MemFacts, ContentFacts
    <2> HIDE DEF rows
    <2>3. cns'.pending = rows /\ cns["pending"] = mem["tester"]["pending"]
      BY <2>1, <2>2, WriteFacts DEF Tables, Scripts
    <2>4. r \in tester.drop
      BY <2>3, MemFacts, ContentFacts DEF rows
    <2> QED
      BY <2>4 DEF TrackInv, TesterInv, LeavesRecorded
  <1>2. CASE DropCompleted
    <2> DEFINE rows == mem["tester"]["completed"] \ tester.drop
    <2>1. UNCHANGED cns \/ Write("tester", "completed", rows)
      BY <1>2 DEF DropCompleted, Drop
    <2>2. rows \in SUBSET Rows
      BY MemFacts, ContentFacts
    <2> HIDE DEF rows
    <2> QED
      BY <2>1, <2>2, WriteFacts DEF Tables, Scripts
  <1>3. ASSUME NEW x \in tester.gone, DropResult(x) PROVE LeavesRecorded(r)
    <2> DEFINE rows == mem["tester"].results \ {x}
    <2>1. Write("tester", "results", rows)
      BY <1>3 DEF DropResult
    <2>2. rows \in SUBSET Results
      BY MemFacts, ContentFacts
    <2> HIDE DEF rows
    <2> QED
      BY <2>1, <2>2, WriteFacts DEF Tables, Scripts
  <1>4. CASE Record
    <2> DEFINE rows == mem["tester"].pending \cup tester.row
    <2>1. Write("tester", "pending", rows)
      BY <1>4 DEF Record
    <2>2. rows \in SUBSET Rows
      BY MemFacts, ContentFacts DEF TypeOK, TesterStates
    <2> HIDE DEF rows
    <2>3. cns'.pending = rows /\ cns["pending"] = mem["tester"]["pending"]
      BY <2>1, <2>2, WriteFacts DEF Tables, Scripts
    <2> QED
      BY <2>3, MemFacts, ContentFacts DEF rows
  <1> QED
    BY <1>1, <1>2, <1>3, <1>4

\* What update_results takes out of it is over and on file.
LEMMA UpdaterLeaves ==
    ASSUME TypeOK, TrackInv, UpdaterWrites, NEW r \in cns.pending \ cns'.pending, ~clobbered'
    PROVE  LeavesRecorded(r)
  <1> USE DEF TrackInv
  <1> DEFINE t == TableOf(updater.pc)
             rows == NewTables[t]
             D == [cns EXCEPT ![t] = rows]
  <1>1. /\ updater.pc \in WriteSteps /\ cns' = D
        /\ clobbered' = (clobbered \/ cns[t] # mem["updater"][t])
    BY DEF UpdaterWrites
  <1>2. t = IF updater.pc = "write-results" THEN "results"
            ELSE IF updater.pc = "write-completed" THEN "completed" ELSE "pending"
    BY <1>1 DEF TableOf, WriteSteps
  <1>3. t \in Tables /\ rows \in IF t = "results" THEN SUBSET Results ELSE SUBSET Rows
    BY <1>2, NewTablesFacts DEF Tables
  <1>4. D.pending = IF t = "pending" THEN rows ELSE cns.pending
    <2> HIDE DEF t, rows
    <2>1. /\ D \in Content
          /\ D.pending = IF t = "pending" THEN rows ELSE cns.pending
          /\ D.completed = IF t = "completed" THEN rows ELSE cns.completed
          /\ D.results = IF t = "results" THEN rows ELSE cns.results
      BY <1>3, MemFacts, PutFacts
    <2> QED
      BY <2>1
  <1>5. t = "pending"
    BY <1>1, <1>4 DEF D
  <1>6. /\ rows = mem["updater"].pending \ updater.done
        /\ cns.pending = mem["updater"].pending /\ ~clobbered
    BY <1>1, <1>5, MemFacts, ContentFacts, NewTablesFacts
  <1>7. updater.pc = "write-pending"
    BY <1>1, <1>2, <1>5 DEF WriteSteps
  <1> HIDE DEF t, rows, D
  <1>8. r \in updater.done
    BY <1>1, <1>4, <1>5, <1>6
  <1>9. /\ r \in cns.completed \/ r.id \in superseded
        /\ \A x \in updater.polled : x \in cns.results \/ x.id \in superseded
    BY <1>6, <1>7, <1>8 DEF WrittenInv
  <1>10. r.id \in finished /\ Status(r.id) \subseteq updater.polled
    BY <1>1, <1>8 DEF UpdaterInv, Final
  <1>11. \A x \in Status(r.id) : x.id = r.id
    BY DEF Status
  <1> QED
    BY <1>9, <1>10, <1>11 DEF LeavesRecorded

\* A row leaves the pending table only when a retry drops it, or with its invocation over,
\* its row in the completed table and all its results on file, whichever of the three
\* writes of update_results a stop comes after.
THEOREM LeavesTheorem == Spec => PendingLeavesRecorded
  <1> DEFINE Leaves == \A r \in cns.pending \ cns'.pending : clobbered' \/ LeavesRecorded(r)
  <1>1. ASSUME TypeOK, TrackInv, [Next]_vars PROVE [Leaves]_vars
    <2>1. \/ UNCHANGED cns
          \/ DropPending \/ DropCompleted \/ (\E x \in tester.gone : DropResult(x)) \/ Record
          \/ UpdaterWrites
      BY <1>1 DEF Next, vars, Forrest, NodeEnds, TrybotFinishes, StartTester, TesterStep,
          TesterLoads, Skip, RunNew, Retry, ResultsDropped, Submit, TesterReturns, TesterRaises,
          TesterStops, TesterCrashes, StartUpdater, UpdaterStep, UpdaterLoads, Poll, Move,
          MoveRaises, UpdaterCrashes
    <2> QED
      BY <1>1, <2>1, TesterLeaves, UpdaterLeaves
  <1> QED
    BY <1>1, TrackInvHolds, PTL DEF Spec, PendingLeavesRecorded

=============================================================================
