------------------------- MODULE CLPreparationProofs -------------------------
(***************************************************************************)
(* Proofs about CLPreparation, for any number of testers, builds, changes in  *)
(* Gerrit, stopped programs and interventions of others.                    *)
(***************************************************************************)
EXTENDS CLPreparation, FiniteSetTheorems, TLAPS

-----------------------------------------------------------------------------
(* The inductive invariant. *)

KeyFor(k, b) == IF k = "prebuilt" THEN b ELSE RevOf[b]

\* The arguments and the kernel tree of a program suit its step.
StepAt(t) ==
    /\ pc[t] # "idle" => build[t] \in Builds
    /\ IsFiniteSet(kernelTree[t].unpushed)
    /\ pc[t] = "push" => at[t] = "kernel" /\ Key(t) \in kernelTree[t].unpushed

\* The rows of a table are of changes of its kind, and none has the key of another.
RowOf(k, r) == r.cl \in DOMAIN gerrit /\ gerrit[r.cl].kind = k
Unique(rows) == \A r1, r2 \in rows : r1.key = r2.key => r1 = r2
CnsInv == \A k \in Kinds : Unique(cns[k]) /\ \A r \in cns[k] : RowOf(k, r)
TableAt(t) == \A k \in Kinds : Unique(table[t][k]) /\ \A r \in table[t][k] : RowOf(k, r)

\* The change that is to be recorded is of the kind, and of the build or revision, that the
\* program is at.
Written(t) == pc[t] \in {"read-back", "record"}
NewAt(t) ==
    /\ Written(t) => /\ new[t].cl \in DOMAIN gerrit /\ gerrit[new[t].cl].kind = at[t]
                     /\ new[t].key = Key(t)

\* What has been found is of the right kind, and was of the right build or revision.
ClsAt(t) ==
    \A k \in Kinds :
        cls[t][k] # NoCL => /\ pc[t] # "idle" /\ cls[t][k].cl \in DOMAIN gerrit
                            /\ gerrit[cls[t][k].cl].kind = k
                            /\ cls[t][k].key = KeyFor(k, build[t])

TesterInv(t) == StepAt(t) /\ TableAt(t) /\ NewAt(t) /\ ClsAt(t)

\* Where a change is that a program made: its row was lost or never written, or is in the
\* table, or a program is about to write it.
Accounted(k, key) ==
    \/ key \in forgotten[k]
    \/ \E r \in cns[k] : r.key = key
    \/ \E u \in Testers : Written(u) /\ at[u] = k /\ Key(u) = key
MadeInv ==
    \A n \in DOMAIN gerrit :
        gerrit[n].made # "by-hand" => Accounted(gerrit[n].kind, gerrit[n].made)

ClInv == (\A t \in Testers : TesterInv(t)) /\ CnsInv /\ MadeInv

-----------------------------------------------------------------------------
(* Changes and keys. *)

LEMMA EditFacts ==
    ASSUME NEW s \in Seq(Changes), NEW n \in DOMAIN s, NEW c \in Changes
    PROVE  /\ [s EXCEPT ![n] = c] \in Seq(Changes)
           /\ Len([s EXCEPT ![n] = c]) = Len(s)
           /\ DOMAIN [s EXCEPT ![n] = c] = DOMAIN s
           /\ \A m \in DOMAIN s : [s EXCEPT ![n] = c][m] = IF m = n THEN c ELSE s[m]
  OBVIOUS

LEMMA AppendFacts ==
    ASSUME NEW s \in Seq(Changes), NEW c \in Changes
    PROVE  /\ Append(s, c) \in Seq(Changes) /\ Len(Append(s, c)) = Len(s) + 1
           /\ \A m \in DOMAIN s : m \in DOMAIN Append(s, c) /\ Append(s, c)[m] = s[m]
           /\ DOMAIN Append(s, c) = DOMAIN s \cup {Len(s) + 1} /\ Len(s) + 1 \notin DOMAIN s
           /\ Append(s, c)[Len(s) + 1] = c
  OBVIOUS

LEMMA ConcatFacts ==
    ASSUME NEW s \in Seq(Changes), NEW n \in Nat, NEW o \in [1 .. n -> Changes]
    PROVE  /\ s \o o \in Seq(Changes) /\ Len(s \o o) = Len(s) + n
           /\ \A m \in DOMAIN s : m \in DOMAIN (s \o o) /\ (s \o o)[m] = s[m]
           /\ \A m \in DOMAIN (s \o o) \ DOMAIN s : \E i \in 1 .. n : (s \o o)[m] = o[i]
           /\ n = 1 => (s \o o)[Len(s) + 1] = o[1] /\ Len(s) + 1 \in DOMAIN (s \o o)
  <1>1. o \in Seq(Changes) /\ Len(o) = n
    OBVIOUS
  <1>2. /\ s \o o \in Seq(Changes) /\ Len(s \o o) = Len(s) + n
        /\ \A m \in DOMAIN s : m \in DOMAIN (s \o o) /\ (s \o o)[m] = s[m]
        /\ \A m \in 1 .. Len(s) + n : m > Len(s) => (s \o o)[m] = o[m - Len(s)]
    BY <1>1
  <1>3. ASSUME NEW m \in DOMAIN (s \o o) \ DOMAIN s
        PROVE  \E i \in 1 .. n : (s \o o)[m] = o[i]
    <2>1. m \in 1 .. Len(s) + n /\ m > Len(s) /\ m - Len(s) \in 1 .. n
      BY <1>2
    <2> QED
      BY <1>2, <2>1
  <1>4. n = 1 => (s \o o)[Len(s) + 1] = o[1] /\ Len(s) + 1 \in DOMAIN (s \o o)
    BY <1>2
  <1> QED
    BY <1>2, <1>3, <1>4

LEMMA CreatedFacts ==
    ASSUME NEW k \in Kinds, NEW key \in Builds \cup Revisions
    PROVE  /\ Created(k, key) \in Changes
           /\ Created(k, key).kind = k /\ Created(k, key).made = key
  BY DEF Created, Changes

LEMMA EmptyFacts == NoCL \in Reads /\ NoCL.cl = 0 /\ Empty \in [Kinds -> SUBSET Rows]
  BY ConstantsAssumption DEF NoCL, Reads, Empty

LEMMA KeyFacts ==
    ASSUME TypeOK, NEW t \in Testers, build[t] \in Builds
    PROVE  Key(t) \in Builds \cup Revisions /\ Key(t) = KeyFor(at[t], build[t])
  BY ConstantsAssumption DEF Key, KeyFor

LEMMA KindFacts == TypeOK => \A n \in DOMAIN gerrit : gerrit[n].kind \in Kinds
  <1>1. TypeOK => \A n \in DOMAIN gerrit : gerrit[n] \in Changes
    BY DEF TypeOK
  <1> QED
    BY <1>1 DEF Changes

\* No change disappears, or becomes one of another kind or origin.
Grows ==
    /\ gerrit' \in Seq(Changes) /\ Len(gerrit') <= MaxCLs
    /\ \A n \in DOMAIN gerrit : /\ n \in DOMAIN gerrit' /\ gerrit'[n].kind = gerrit[n].kind
                                /\ gerrit'[n].made = gerrit[n].made

LEMMA ResolvedGrows ==
    ASSUME TypeOK, NEW k \in Kinds, NEW n \in DOMAIN gerrit, gerrit' = Resolved(k, n)
    PROVE  Grows /\ DOMAIN gerrit' = DOMAIN gerrit
  <1>1. gerrit \in Seq(Changes) /\ gerrit[n] \in Changes /\ Len(gerrit) <= MaxCLs
    BY DEF TypeOK
  <1>2. CASE gerrit' = gerrit
    BY <1>1, <1>2 DEF Grows
  <1>3. CASE gerrit' = [gerrit EXCEPT ![n].conflict = FALSE]
    <2> DEFINE c == [gerrit[n] EXCEPT !.conflict = FALSE]
    <2>1. c \in Changes /\ c.kind = gerrit[n].kind /\ c.made = gerrit[n].made
      BY <1>1 DEF Changes
    <2>2. gerrit' = [gerrit EXCEPT ![n] = c]
      BY <1>1, <1>3
    <2> HIDE DEF c
    <2> QED
      BY <1>1, <2>1, <2>2, EditFacts DEF Grows
  <1> QED
    BY <1>2, <1>3 DEF Resolved

LEMMA RowOfKeeps ==
    ASSUME Grows, NEW k, NEW r, RowOf(k, r)
    PROVE  RowOf(k, r)'
  BY DEF RowOf, Grows

-----------------------------------------------------------------------------
(* What a step leaves as it is. *)

\* The step is of one program only.
Same(t) ==
    \A u \in Testers \ {t} :
        /\ pc'[u] = pc[u] /\ at'[u] = at[u] /\ build'[u] = build[u] /\ new'[u] = new[u]
        /\ cls'[u] = cls[u] /\ table'[u] = table[u] /\ kernelTree'[u] = kernelTree[u]

LEMMA TesterKeeps ==
    ASSUME Grows, NEW u \in Testers, TesterInv(u),
           pc'[u] = pc[u], at'[u] = at[u], build'[u] = build[u], new'[u] = new[u],
           cls'[u] = cls[u], table'[u] = table[u], kernelTree'[u] = kernelTree[u]
    PROVE  TesterInv(u)'
  <1>1. Key(u)' = Key(u) /\ Written(u)' = Written(u)
    BY DEF Key, Written
  <1>2. StepAt(u)'
    BY <1>1 DEF TesterInv, StepAt
  <1>3. TableAt(u)'
    BY RowOfKeeps DEF TesterInv, TableAt
  <1>4. NewAt(u)'
    BY <1>1, RowOfKeeps DEF TesterInv, NewAt, Grows
  <1>5. ClsAt(u)'
    BY DEF TesterInv, ClsAt, Grows
  <1> QED
    BY <1>2, <1>3, <1>4, <1>5 DEF TesterInv

LEMMA CnsKeeps ==
    ASSUME CnsInv, Grows, cns' = cns
    PROVE  CnsInv'
  BY RowOfKeeps DEF CnsInv

\* The changes that were accounted for still are, if the keys of the rows that are gone and
\* what the program gives up are marked as forgotten.
LEMMA AccountedKeeps ==
    ASSUME NEW k \in Kinds, NEW key, Accounted(k, key), NEW t \in Testers, Same(t),
           forgotten[k] \subseteq forgotten'[k],
           \A r \in cns[k] : r.key \in forgotten'[k] \/ \E s \in cns'[k] : s.key = r.key,
           Written(t) /\ at[t] = k /\ Key(t) = key => Accounted(k, key)'
    PROVE  Accounted(k, key)'
  <1>1. CASE key \in forgotten[k] \/ \E r \in cns[k] : r.key = key
    BY <1>1 DEF Accounted
  <1>2. CASE \E u \in Testers : Written(u) /\ at[u] = k /\ Key(u) = key
    <2>1. PICK u \in Testers : Written(u) /\ at[u] = k /\ Key(u) = key
      BY <1>2
    <2>2. CASE u = t
      BY <2>1, <2>2
    <2>3. CASE u # t
      <3>1. Written(u)' /\ at'[u] = k /\ Key(u)' = key
        BY <2>1, <2>3 DEF Same, Written, Key
      <3> QED
        BY <3>1 DEF Accounted
    <2> QED
      BY <2>2, <2>3
  <1> QED
    BY <1>1, <1>2 DEF Accounted

LEMMA MadeKeeps ==
    ASSUME TypeOK, MadeInv, Grows, NEW t \in Testers, Same(t),
           \A k \in Kinds : forgotten[k] \subseteq forgotten'[k],
           \A k \in Kinds : \A r \in cns[k] :
               r.key \in forgotten'[k] \/ \E s \in cns'[k] : s.key = r.key,
           \A k, key : Written(t) /\ at[t] = k /\ Key(t) = key => Accounted(k, key)',
           \A k, key : \A n \in DOMAIN gerrit' \ DOMAIN gerrit :
               gerrit'[n].kind = k /\ gerrit'[n].made = key => Accounted(k, key)'
    PROVE  MadeInv'
  <1>1. ASSUME NEW n \in DOMAIN gerrit', NEW k, NEW key,
               gerrit'[n].kind = k, gerrit'[n].made = key, key # "by-hand"
        PROVE  Accounted(k, key)'
    <2>1. CASE n \in DOMAIN gerrit
      <3>1. gerrit[n].kind = k /\ gerrit[n].made = key /\ k \in Kinds
        BY <1>1, <2>1, KindFacts DEF Grows
      <3>2. Accounted(k, key)
        BY <1>1, <2>1, <3>1 DEF MadeInv
      <3> QED
        BY <3>1, <3>2, AccountedKeeps
    <2>2. CASE n \notin DOMAIN gerrit
      BY <1>1, <2>2
    <2> QED
      BY <2>1, <2>2
  <1> QED
    BY <1>1 DEF MadeInv, Accounted

LEMMA ClInvInit == Init => TypeOK /\ ClInv
  <1> SUFFICES ASSUME Init PROVE TypeOK /\ ClInv
    OBVIOUS
  <1>1. \/ gerrit = << >>
        \/ \E c \in Changes : gerrit = << c >> /\ c.made = "by-hand"
    <2>1. ASSUME NEW k \in Kinds, NEW trivial \in BOOLEAN, NEW key \in Keys(k), NEW form \in Forms(k)
          PROVE  LET c == [Created(k, key) EXCEPT !.made = "by-hand", !.trivial = trivial,
                                                  !.form = form]
                 IN  c \in Changes /\ c.made = "by-hand"
      BY DEF Created, Changes, Keys, Forms
    <2>2. CASE \E k \in Kinds, trivial \in BOOLEAN : \E key \in Keys(k), form \in Forms(k) :
                  gerrit = << [Created(k, key) EXCEPT !.made = "by-hand", !.trivial = trivial,
                                                     !.form = form] >>
      <3>1. PICK k \in Kinds, trivial \in BOOLEAN : \E key \in Keys(k), form \in Forms(k) :
                  gerrit = << [Created(k, key) EXCEPT !.made = "by-hand", !.trivial = trivial,
                                                     !.form = form] >>
        BY <2>2
      <3>2. PICK key \in Keys(k), form \in Forms(k) :
                  gerrit = << [Created(k, key) EXCEPT !.made = "by-hand", !.trivial = trivial,
                                                     !.form = form] >>
        BY <3>1
      <3> DEFINE c == [Created(k, key) EXCEPT !.made = "by-hand", !.trivial = trivial,
                                              !.form = form]
      <3>3. c \in Changes /\ c.made = "by-hand" /\ gerrit = << c >>
        BY <2>1, <3>2
      <3> QED
        BY <3>3
    <2>3. \/ gerrit = << >>
          \/ \E k \in Kinds, trivial \in BOOLEAN : \E key \in Keys(k), form \in Forms(k) :
                  gerrit = << [Created(k, key) EXCEPT !.made = "by-hand", !.trivial = trivial,
                                                     !.form = form] >>
      BY DEF Init
    <2> QED
      BY <2>2, <2>3
  <1>2. gerrit \in Seq(Changes) /\ Len(gerrit) <= MaxCLs
        /\ \A n \in DOMAIN gerrit : gerrit[n].made = "by-hand"
    <2>1. CASE gerrit = << >>
      BY <2>1, ConstantsAssumption
    <2>2. CASE \E c \in Changes : gerrit = << c >> /\ c.made = "by-hand"
      <3>1. PICK c \in Changes : gerrit = << c >> /\ c.made = "by-hand"
        BY <2>2
      <3>2. Len(gerrit) = 1 /\ gerrit \in Seq(Changes) /\ gerrit[1] = c /\ DOMAIN gerrit = {1}
        BY <3>1
      <3>3. 1 <= MaxCLs
        BY ConstantsAssumption
      <3> QED
        BY <3>1, <3>2, <3>3
    <2> QED
      BY <1>1, <2>1, <2>2
  <1>3. /\ kernelTree \in [Testers -> [head : Revisions \cup {"none"}, unpushed : SUBSET Revisions]]
        /\ \A t \in Testers : IsFiniteSet(kernelTree[t].unpushed)
    <2>1. Clean \in [head : Revisions \cup {"none"}, unpushed : SUBSET Revisions]
          /\ IsFiniteSet(Clean.unpushed)
      BY FS_EmptySet DEF Clean
    <2>2. ASSUME NEW r \in Lettered
          PROVE  /\ [head |-> r, unpushed |-> {r}]
                        \in [head : Revisions \cup {"none"}, unpushed : SUBSET Revisions]
                 /\ IsFiniteSet([head |-> r, unpushed |-> {r}].unpushed)
      BY ConstantsAssumption, FS_Singleton
    <2>3. CASE kernelTree = [t \in Testers |-> Clean]
      BY <2>1, <2>3
    <2>4. CASE \E r \in Lettered, old \in Testers :
                 kernelTree = [[t \in Testers |-> Clean] EXCEPT ![old] =
                                  [head |-> r, unpushed |-> {r}]]
      <3>1. PICK r \in Lettered, old \in Testers :
                 kernelTree = [[t \in Testers |-> Clean] EXCEPT ![old] =
                                  [head |-> r, unpushed |-> {r}]]
        BY <2>4
      <3> QED
        BY <2>1, <2>2, <3>1
    <2> QED
      BY <2>3, <2>4 DEF Init
  <1>4. TypeOK
    <2>1. /\ cns \in [Kinds -> SUBSET Rows] /\ table \in [Testers -> [Kinds -> SUBSET Rows]]
          /\ new \in [Testers -> Reads] /\ cls \in [Testers -> [Kinds -> Reads]]
      BY EmptyFacts DEF Init
    <2>2. /\ pc \in [Testers -> {"idle", "find", "push", "read-back", "record", "ready"}]
          /\ at \in [Testers -> Kinds] /\ build \in [Testers -> Builds \cup {"none"}]
      BY DEF Init, Kinds
    <2>3. forgotten \in [Kinds -> SUBSET (Builds \cup Revisions)]
      BY DEF Init
    <2>4. troubles \in 0 .. MaxTroubles
      <3>1. troubles = 0 /\ MaxTroubles \in Nat
        BY ConstantsAssumption DEF Init
      <3> QED
        BY <3>1
    <2> QED
      BY <1>2, <1>3, <2>1, <2>2, <2>3, <2>4 DEF TypeOK
  <1>5. ASSUME NEW t \in Testers PROVE TesterInv(t)
    BY <1>3 DEF Init, TesterInv, StepAt, TableAt, NewAt, ClsAt, Written, Unique, Empty
  <1>6. CnsInv
    BY DEF Init, CnsInv, Unique, Empty
  <1>7. MadeInv
    BY <1>2 DEF MadeInv
  <1> QED
    BY <1>4, <1>5, <1>6, <1>7 DEF ClInv

\* It is enough to look at the program that takes the step.
LEMMA OthersSuffice ==
    ASSUME ClInv, NEW t \in Testers, Grows, Same(t), TesterInv(t)', CnsInv', MadeInv'
    PROVE  ClInv'
  <1>1. ASSUME NEW u \in Testers PROVE TesterInv(u)'
    <2>1. CASE u = t
      BY <2>1
    <2>2. CASE u # t
      BY <2>2, TesterKeeps DEF Same, ClInv
    <2> QED
      BY <2>1, <2>2
  <1> QED
    BY <1>1 DEF ClInv

LEMMA LeaveFacts ==
    ASSUME TypeOK, NEW t \in Testers, Leave(t)
    PROVE  /\ pc' \in [Testers -> {"idle", "find", "push", "read-back", "record", "ready"}]
           /\ at' \in [Testers -> Kinds] /\ build' \in [Testers -> Builds \cup {"none"}]
           /\ new' \in [Testers -> Reads] /\ cls' \in [Testers -> [Kinds -> Reads]]
           /\ table' \in [Testers -> [Kinds -> SUBSET Rows]]
           /\ pc'[t] = "idle" /\ \A k \in Kinds : cls'[t][k] = NoCL /\ table'[t][k] = {}
           /\ \A u \in Testers \ {t} :
                  /\ pc'[u] = pc[u] /\ at'[u] = at[u] /\ build'[u] = build[u]
                  /\ new'[u] = new[u] /\ cls'[u] = cls[u] /\ table'[u] = table[u]
  <1>1. [k \in Kinds |-> NoCL] \in [Kinds -> Reads]
    BY EmptyFacts
  <1>2. /\ pc' \in [Testers -> {"idle", "find", "push", "read-back", "record", "ready"}]
        /\ at' \in [Testers -> Kinds] /\ build' \in [Testers -> Builds \cup {"none"}]
    BY DEF Leave, TypeOK, Kinds
  <1>3. /\ new' \in [Testers -> Reads] /\ cls' \in [Testers -> [Kinds -> Reads]]
        /\ table' \in [Testers -> [Kinds -> SUBSET Rows]]
    BY <1>1, EmptyFacts DEF Leave, TypeOK
  <1>4. pc'[t] = "idle" /\ \A k \in Kinds : cls'[t][k] = NoCL /\ table'[t][k] = {}
    BY DEF Leave, TypeOK, Empty
  <1> QED
    BY <1>2, <1>3, <1>4 DEF Leave, TypeOK

\* A program ends: what it has given up is forgotten, and so is every change it has just
\* uploaded.
LEMMA LeaveKeeps ==
    ASSUME TypeOK, ClInv, NEW t \in Testers, Leave(t), Grows, cns' = cns,
           kernelTree' \in [Testers -> [head : Revisions \cup {"none"}, unpushed : SUBSET Revisions]],
           \A u \in Testers \ {t} : kernelTree'[u] = kernelTree[u],
           IsFiniteSet(kernelTree'[t].unpushed),
           forgotten' \in [Kinds -> SUBSET (Builds \cup Revisions)],
           \A k \in Kinds : forgotten[k] \subseteq forgotten'[k],
           troubles' \in 0 .. MaxTroubles,
           Written(t) => Key(t) \in forgotten'[at[t]],
           \A n \in DOMAIN gerrit' \ DOMAIN gerrit :
               gerrit'[n].made \in forgotten'[gerrit'[n].kind]
    PROVE  TypeOK' /\ ClInv'
  <1>1. TypeOK'
    BY LeaveFacts DEF TypeOK, Grows
  <1>2. Same(t)
    BY LeaveFacts DEF Same
  <1>3. TesterInv(t)'
    BY LeaveFacts DEF TesterInv, StepAt, TableAt, NewAt, ClsAt, Written, Unique
  <1>4. CnsInv'
    BY CnsKeeps DEF ClInv
  <1>5. MadeInv'
    <2>1. \A k, key : Written(t) /\ at[t] = k /\ Key(t) = key => Accounted(k, key)'
      BY DEF Accounted
    <2>2. \A k, key : \A n \in DOMAIN gerrit' \ DOMAIN gerrit :
               gerrit'[n].kind = k /\ gerrit'[n].made = key => Accounted(k, key)'
      BY DEF Accounted
    <2>3. \A k \in Kinds : \A r \in cns[k] :
              r.key \in forgotten'[k] \/ \E s \in cns'[k] : s.key = r.key
      OBVIOUS
    <2> QED
      BY <1>2, <2>1, <2>2, <2>3, MadeKeeps DEF ClInv
  <1> QED
    BY <1>1, <1>2, <1>3, <1>4, <1>5, OthersSuffice

\* ... in particular, one that has not uploaded anything and touches no kernel tree.
LEMMA LeaveSuffices ==
    ASSUME TypeOK, ClInv, NEW t \in Testers, Leave(t), ~Written(t),
           Grows, DOMAIN gerrit' = DOMAIN gerrit,
           UNCHANGED << cns, kernelTree, forgotten >>, troubles' \in 0 .. MaxTroubles
    PROVE  TypeOK' /\ ClInv'
  <1>1. /\ kernelTree' \in [Testers -> [head : Revisions \cup {"none"}, unpushed : SUBSET Revisions]]
        /\ forgotten' \in [Kinds -> SUBSET (Builds \cup Revisions)]
    BY DEF TypeOK
  <1>2. IsFiniteSet(kernelTree'[t].unpushed)
    BY DEF ClInv, TesterInv, StepAt
  <1> QED
    BY <1>1, <1>2, LeaveKeeps

LEMMA ContinueFacts ==
    ASSUME TypeOK, NEW t \in Testers, NEW c \in Reads, Continue(t, c)
    PROVE  /\ pc' \in [Testers -> {"idle", "find", "push", "read-back", "record", "ready"}]
           /\ at' \in [Testers -> Kinds] /\ cls' \in [Testers -> [Kinds -> Reads]]
           /\ build' = build /\ pc'[t] \in {"find", "ready"}
           /\ cls'[t][at[t]] = c
           /\ \A k \in Kinds \ {at[t]} : cls'[t][k] = cls[t][k]
           /\ \A u \in Testers \ {t} : pc'[u] = pc[u] /\ at'[u] = at[u] /\ cls'[u] = cls[u]
  <1>1. at[t] \in Kinds
    BY DEF TypeOK
  <1>2. /\ cls' \in [Testers -> [Kinds -> Reads]] /\ cls'[t][at[t]] = c
        /\ \A k \in Kinds \ {at[t]} : cls'[t][k] = cls[t][k]
        /\ \A u \in Testers \ {t} : cls'[u] = cls[u]
    BY <1>1 DEF Continue, TypeOK
  <1>3. /\ pc' \in [Testers -> {"idle", "find", "push", "read-back", "record", "ready"}]
        /\ pc'[t] \in {"find", "ready"} /\ \A u \in Testers \ {t} : pc'[u] = pc[u]
    BY DEF Continue, TypeOK
  <1>4. at' \in [Testers -> Kinds] /\ \A u \in Testers \ {t} : at'[u] = at[u]
    <2>1. "kernel" \in Kinds /\ "soong" \in Kinds
      BY DEF Kinds
    <2>2. at' = at \/ \E k \in Kinds : at' = [at EXCEPT ![t] = k]
      BY <2>1 DEF Continue
    <2>3. at \in [Testers -> Kinds]
      BY DEF TypeOK
    <2>4. CASE at' = at
      BY <2>3, <2>4
    <2>5. CASE \E k \in Kinds : at' = [at EXCEPT ![t] = k]
      <3>1. PICK k \in Kinds : at' = [at EXCEPT ![t] = k]
        BY <2>5
      <3> QED
        BY <2>3, <3>1
    <2> QED
      BY <2>2, <2>4, <2>5
  <1> QED
    BY <1>2, <1>3, <1>4 DEF Continue

\* The program goes on with a change that is of the right kind and key.
LEMMA ContinueKeeps ==
    ASSUME TypeOK, NEW t \in Testers, TesterInv(t), pc[t] # "idle", NEW c \in Reads,
           Continue(t, c), Grows, kernelTree' = kernelTree, TableAt(t)',
           c.cl \in DOMAIN gerrit, gerrit[c.cl].kind = at[t], c.key = Key(t)
    PROVE  TesterInv(t)'
  <1>1. build[t] \in Builds /\ at[t] \in Kinds
    BY DEF TesterInv, StepAt, TypeOK
  <1>2. StepAt(t)' /\ NewAt(t)'
    BY <1>1, ContinueFacts DEF TesterInv, StepAt, NewAt, Written
  <1>3. ClsAt(t)'
    <2> SUFFICES ASSUME NEW k \in Kinds, cls'[t][k] # NoCL
                 PROVE  /\ pc'[t] # "idle" /\ cls'[t][k].cl \in DOMAIN gerrit'
                        /\ gerrit'[cls'[t][k].cl].kind = k
                        /\ cls'[t][k].key = KeyFor(k, build'[t])
      BY DEF ClsAt
    <2>1. CASE k = at[t]
      <3>1. cls'[t][k] = c /\ build' = build /\ pc'[t] # "idle"
        BY <2>1, ContinueFacts
      <3>2. c.key = KeyFor(k, build'[t])
        BY <1>1, <2>1, <3>1, KeyFacts
      <3> QED
        BY <2>1, <3>1, <3>2 DEF Grows
    <2>2. CASE k # at[t]
      <3>1. cls'[t][k] = cls[t][k] /\ build' = build /\ pc'[t] # "idle"
        BY <2>2, ContinueFacts
      <3> QED
        BY <3>1 DEF Grows, TesterInv, ClsAt
    <2> QED
      BY <2>1, <2>2
  <1> QED
    BY <1>2, <1>3 DEF TesterInv

-----------------------------------------------------------------------------
(* test_prebuilts.py *)

\* Where a program finds a row, or reads a change.
LEMMA AtFacts ==
    ASSUME TypeOK, ClInv, NEW t \in Testers, pc[t] # "idle"
    PROVE  /\ at[t] \in Kinds /\ build[t] \in Builds /\ TesterInv(t)
           /\ Key(t) \in Builds \cup Revisions /\ Key(t) = KeyFor(at[t], build[t])
  <1>1. build[t] \in Builds /\ TesterInv(t)
    BY DEF ClInv, TesterInv, StepAt
  <1> QED
    BY <1>1, KeyFacts DEF TypeOK

LEMMA ReadFacts ==
    ASSUME TypeOK, NEW n \in DOMAIN gerrit
    PROVE  /\ AsRead(n) \in Reads /\ AsRead(n).cl = n /\ AsRead(n).key = gerrit[n].key
           /\ n \in Numbers
  <1>1. gerrit[n] \in Changes /\ n \in 1 .. MaxCLs
    BY ConstantsAssumption DEF TypeOK
  <1>2. gerrit[n].key \in Builds \cup Revisions
    BY <1>1 DEF Changes
  <1> QED
    BY <1>1, <1>2 DEF AsRead, Reads, Numbers

LEMMA StartStep ==
    ASSUME TypeOK, ClInv, NEW t \in Testers, Start(t)
    PROVE  TypeOK' /\ ClInv'
  <1>1. /\ pc[t] = "idle" /\ build' \in [Testers -> Builds \cup {"none"}] /\ build'[t] \in Builds
        /\ \A u \in Testers \ {t} : build'[u] = build[u]
    <2>1. PICK b \in Builds : build' = [build EXCEPT ![t] = b]
      BY DEF Start
    <2> QED
      BY <2>1 DEF Start, TypeOK
  <1>2. /\ table' \in [Testers -> [Kinds -> SUBSET Rows]] /\ table'[t] = cns
        /\ \A u \in Testers \ {t} : table'[u] = table[u]
    BY DEF Start, TypeOK
  <1>3. /\ pc' \in [Testers -> {"idle", "find", "push", "read-back", "record", "ready"}]
        /\ pc'[t] = "find" /\ \A u \in Testers \ {t} : pc'[u] = pc[u]
        /\ UNCHANGED << gerrit, cns, at, new, cls, kernelTree, forgotten, troubles >>
    BY DEF Start, TypeOK
  <1>4. TypeOK' /\ Grows /\ Same(t)
    BY <1>1, <1>2, <1>3 DEF TypeOK, Grows, Same
  <1>5. CnsInv /\ CnsInv'
    BY <1>3, <1>4, CnsKeeps DEF ClInv
  <1>6. TableAt(t)'
    BY <1>2, <1>3, <1>5 DEF CnsInv, TableAt
  <1>7. StepAt(t)' /\ NewAt(t)' /\ ClsAt(t)'
    <2>1. TesterInv(t)
      BY DEF ClInv
    <2> QED
      BY <1>1, <1>3, <2>1 DEF TesterInv, StepAt, NewAt, ClsAt, Written
  <1>8. MadeInv'
    <2>1. MadeInv /\ ~Written(t)
      BY <1>1 DEF ClInv, Written
    <2> QED
      BY <1>3, <1>4, <2>1, MadeKeeps
  <1> QED
    BY <1>4, <1>5, <1>6, <1>7, <1>8, OthersSuffice DEF TesterInv

\* A step that does not write a table, upload a change or end the program.
LEMMA StepSuffices ==
    ASSUME TypeOK, ClInv, NEW t \in Testers, Grows, DOMAIN gerrit' = DOMAIN gerrit, Same(t),
           TesterInv(t)', cns' = cns, forgotten' = forgotten,
           Written(t) => Written(t)' /\ at'[t] = at[t] /\ Key(t)' = Key(t)
    PROVE  ClInv'
  <1>1. CnsInv'
    BY CnsKeeps DEF ClInv
  <1>2. MadeInv'
    <2>1. \A k, key : Written(t) /\ at[t] = k /\ Key(t) = key => Accounted(k, key)'
      BY DEF Accounted
    <2> QED
      BY <2>1, MadeKeeps DEF ClInv
  <1> QED
    BY <1>1, <1>2, OthersSuffice

LEMMA ReuseStep ==
    ASSUME TypeOK, ClInv, NEW t \in Testers, Reuse(t)
    PROVE  TypeOK' /\ ClInv'
  <1>1. /\ pc[t] = "find" /\ ~Written(t) /\ troubles' \in 0 .. MaxTroubles
        /\ UNCHANGED << cns, kernelTree, forgotten, troubles >>
    BY DEF Reuse, Written, TypeOK
  <1>2. /\ at[t] \in Kinds /\ build[t] \in Builds /\ TesterInv(t)
        /\ Key(t) \in Builds \cup Revisions /\ Key(t) = KeyFor(at[t], build[t])
    BY <1>1, AtFacts
  <1>3. PICK r \in RowsFor(t), asked \in BOOLEAN :
           IF asked /\ Readable(at[t], r.cl)
           THEN /\ gerrit' = Resolved(at[t], r.cl)
                /\ IF gerrit[r.cl].key = r.key
                   THEN Continue(t, AsRead(r.cl)) /\ UNCHANGED << new, table >>
                   ELSE Leave(t)
           ELSE Leave(t) /\ UNCHANGED gerrit
    BY DEF Reuse
  <1>4. r.cl \in DOMAIN gerrit /\ gerrit[r.cl].kind = at[t] /\ r.key = Key(t)
    BY <1>2 DEF RowsFor, TesterInv, TableAt, RowOf
  <1>5. Grows /\ DOMAIN gerrit' = DOMAIN gerrit
    <2>1. CASE gerrit' = Resolved(at[t], r.cl)
      BY <1>2, <1>4, <2>1, ResolvedGrows
    <2>2. CASE gerrit' = gerrit
      BY <2>2 DEF Grows, TypeOK
    <2> QED
      BY <1>3, <2>1, <2>2
  <1>6. CASE Leave(t)
    BY <1>1, <1>5, <1>6, LeaveSuffices
  <1>7. CASE Continue(t, AsRead(r.cl)) /\ UNCHANGED << new, table >> /\ gerrit[r.cl].key = r.key
    <2>1. AsRead(r.cl) \in Reads /\ AsRead(r.cl).cl = r.cl /\ AsRead(r.cl).key = Key(t)
      BY <1>4, <1>7, ReadFacts
    <2> DEFINE c == AsRead(r.cl)
    <2> HIDE DEF c
    <2>2. c \in Reads /\ c.cl = r.cl /\ c.key = Key(t) /\ Continue(t, c)
      BY <1>7, <2>1 DEF c
    <2>3. TableAt(t)'
      BY <1>2, <1>5, <1>7, RowOfKeeps DEF TesterInv, TableAt
    <2>4. TesterInv(t)'
      BY <1>1, <1>2, <1>4, <1>5, <2>2, <2>3, ContinueKeeps
    <2>5. /\ pc' \in [Testers -> {"idle", "find", "push", "read-back", "record", "ready"}]
          /\ at' \in [Testers -> Kinds] /\ cls' \in [Testers -> [Kinds -> Reads]]
          /\ build' = build
          /\ \A u \in Testers \ {t} : pc'[u] = pc[u] /\ at'[u] = at[u] /\ cls'[u] = cls[u]
      BY <2>2, ContinueFacts
    <2>6. TypeOK' /\ Same(t)
      BY <1>1, <1>5, <1>7, <2>5 DEF TypeOK, Same, Grows
    <2> QED
      BY <1>1, <1>5, <2>4, <2>6, StepSuffices
  <1> QED
    BY <1>3, <1>6, <1>7

LEMMA AdoptStep ==
    ASSUME TypeOK, ClInv, NEW t \in Testers, Adopt(t)
    PROVE  TypeOK' /\ ClInv'
  <1>1. /\ pc[t] = "find" /\ ~Written(t) /\ troubles' \in 0 .. MaxTroubles
        /\ UNCHANGED << cns, kernelTree, forgotten, troubles >>
    BY DEF Adopt, Written, TypeOK
  <1>2. /\ at[t] \in Kinds /\ build[t] \in Builds /\ TesterInv(t)
        /\ Key(t) \in Builds \cup Revisions
    BY <1>1, AtFacts
  <1>3. PICK n \in DOMAIN gerrit :
           IF Readable(at[t], n)
           THEN /\ gerrit' = Resolved(at[t], n)
                /\ IF gerrit[n].key = Key(t)
                   THEN /\ pc' = [pc EXCEPT ![t] = "record"] /\ new' = [new EXCEPT ![t] = AsRead(n)]
                        /\ UNCHANGED << at, build, cls, table >>
                   ELSE Leave(t)
           ELSE Leave(t) /\ UNCHANGED gerrit
    BY DEF Adopt
  <1>4. Grows /\ DOMAIN gerrit' = DOMAIN gerrit
    <2>1. CASE gerrit' = Resolved(at[t], n)
      BY <1>2, <2>1, ResolvedGrows
    <2>2. CASE gerrit' = gerrit
      BY <2>2 DEF Grows, TypeOK
    <2> QED
      BY <1>3, <2>1, <2>2
  <1>5. CASE Leave(t)
    BY <1>1, <1>4, <1>5, LeaveSuffices
  <1>6. CASE /\ pc' = [pc EXCEPT ![t] = "record"] /\ new' = [new EXCEPT ![t] = AsRead(n)]
             /\ UNCHANGED << at, build, cls, table >> /\ gerrit[n].key = Key(t)
             /\ Readable(at[t], n)
    <2>1. AsRead(n) \in Reads /\ AsRead(n).cl = n /\ AsRead(n).key = Key(t)
      BY <1>6, ReadFacts
    <2>2. /\ pc' \in [Testers -> {"idle", "find", "push", "read-back", "record", "ready"}]
          /\ pc'[t] = "record" /\ \A u \in Testers \ {t} : pc'[u] = pc[u]
          /\ new' \in [Testers -> Reads] /\ new'[t].cl = n /\ new'[t].key = Key(t)
          /\ \A u \in Testers \ {t} : new'[u] = new[u]
      BY <1>6, <2>1 DEF TypeOK
    <2>3. TypeOK' /\ Same(t)
      BY <1>1, <1>4, <1>6, <2>2 DEF TypeOK, Same, Grows
    <2>4. StepAt(t)' /\ TableAt(t)' /\ ClsAt(t)'
      BY <1>1, <1>2, <1>4, <1>6, <2>2, RowOfKeeps DEF TesterInv, StepAt, TableAt, ClsAt, Grows
    <2>5. NewAt(t)'
      <3>1. gerrit[n].kind = at[t]
        BY <1>6 DEF Readable
      <3>2. Key(t)' = Key(t) /\ at' = at
        BY <1>6 DEF Key
      <3> QED
        BY <1>4, <2>2, <3>1, <3>2 DEF NewAt, Grows
    <2> QED
      BY <1>1, <1>4, <2>3, <2>4, <2>5, StepSuffices DEF TesterInv
  <1> QED
    BY <1>3, <1>5, <1>6

\* A change that has just been uploaded is accounted for by the program that did it.
LEMMA UploadSuffices ==
    ASSUME TypeOK, ClInv, NEW t \in Testers, ~Written(t), Grows, Same(t), TesterInv(t)',
           UNCHANGED << cns, forgotten >>, Written(t)', at'[t] = at[t], Key(t)' = Key(t),
           \A n \in DOMAIN gerrit' \ DOMAIN gerrit :
               gerrit'[n].kind = at[t] /\ gerrit'[n].made = Key(t)
    PROVE  ClInv'
  <1>1. CnsInv'
    BY CnsKeeps DEF ClInv
  <1>2. \A k, key : \A n \in DOMAIN gerrit' \ DOMAIN gerrit :
            gerrit'[n].kind = k /\ gerrit'[n].made = key => Accounted(k, key)'
    BY DEF Accounted
  <1>3. MadeInv'
    BY <1>2, MadeKeeps DEF ClInv
  <1> QED
    BY <1>1, <1>3, OthersSuffice

LEMMA UploadStep ==
    ASSUME TypeOK, ClInv, NEW t \in Testers, Upload(t)
    PROVE  TypeOK' /\ ClInv'
  <1>1. /\ pc[t] = "find" /\ at[t] # "kernel" /\ ~Written(t) /\ Len(gerrit) < MaxCLs
        /\ UNCHANGED << cns, table, at, build, cls, kernelTree, forgotten, troubles >>
    BY DEF Upload, Written
  <1>2. /\ at[t] \in Kinds /\ build[t] \in Builds /\ TesterInv(t)
        /\ Key(t) \in Builds \cup Revisions
    BY <1>1, AtFacts
  <1> DEFINE c == Created(at[t], Key(t))
  <1>3. c \in Changes /\ c.kind = at[t] /\ c.made = Key(t)
    BY <1>2, CreatedFacts
  <1>4. gerrit' = Append(gerrit, c) /\ gerrit \in Seq(Changes)
    BY DEF Upload, TypeOK
  <1> HIDE DEF c
  <1>5. /\ gerrit' \in Seq(Changes) /\ Len(gerrit') = Len(gerrit) + 1
        /\ \A m \in DOMAIN gerrit : m \in DOMAIN gerrit' /\ gerrit'[m] = gerrit[m]
        /\ DOMAIN gerrit' = DOMAIN gerrit \cup {Len(gerrit) + 1}
        /\ gerrit'[Len(gerrit) + 1] = c
    BY <1>3, <1>4, AppendFacts
  <1>6. Grows
    <2>1. Len(gerrit') <= MaxCLs
      BY <1>1, <1>4, <1>5, ConstantsAssumption
    <2> QED
      BY <1>5, <2>1 DEF Grows
  <1>7. /\ pc' \in [Testers -> {"idle", "find", "push", "read-back", "record", "ready"}]
        /\ pc'[t] = "read-back" /\ \A u \in Testers \ {t} : pc'[u] = pc[u]
    BY DEF Upload, TypeOK
  <1>8. /\ new' \in [Testers -> Reads] /\ new'[t].cl = Len(gerrit) + 1 /\ new'[t].key = Key(t)
        /\ \A u \in Testers \ {t} : new'[u] = new[u]
    <2> DEFINE x == [cl |-> Len(gerrit'), key |-> Key(t)]
    <2>1. Len(gerrit') \in 0 .. MaxCLs
      BY <1>6, ConstantsAssumption DEF Grows
    <2>2. x \in Reads /\ x.cl = Len(gerrit) + 1 /\ x.key = Key(t)
      BY <1>2, <1>5, <2>1 DEF Reads
    <2>3. new' = [new EXCEPT ![t] = x] /\ new \in [Testers -> Reads]
      BY DEF Upload, TypeOK
    <2> HIDE DEF x
    <2> QED
      BY <2>2, <2>3
  <1>9. TypeOK' /\ Same(t)
    BY <1>1, <1>6, <1>7, <1>8 DEF TypeOK, Same, Grows
  <1>10. Key(t)' = Key(t) /\ at' = at /\ Written(t)'
    BY <1>1, <1>7 DEF Key, Written
  <1>11. StepAt(t)' /\ TableAt(t)' /\ ClsAt(t)'
    BY <1>1, <1>2, <1>6, <1>7, RowOfKeeps DEF TesterInv, StepAt, TableAt, ClsAt, Grows
  <1>12. NewAt(t)'
    BY <1>3, <1>5, <1>7, <1>8, <1>10 DEF NewAt
  <1> QED
    BY <1>1, <1>3, <1>5, <1>6, <1>9, <1>10, <1>11, <1>12, UploadSuffices DEF TesterInv


LEMMA CommitKernelStep ==
    ASSUME TypeOK, ClInv, NEW t \in Testers, CommitKernel(t)
    PROVE  TypeOK' /\ ClInv'
  <1>1. /\ pc[t] = "find" /\ at[t] = "kernel" /\ ~Written(t)
        /\ UNCHANGED << gerrit, cns, forgotten, troubles >>
    BY DEF CommitKernel, Written
  <1>2. /\ build[t] \in Builds /\ TesterInv(t)
        /\ Key(t) \in Builds \cup Revisions /\ Key(t) = KeyFor(at[t], build[t])
    BY <1>1, AtFacts
  <1>3. Grows /\ troubles' \in 0 .. MaxTroubles
    BY <1>1 DEF Grows, TypeOK
  <1>4. CASE Leave(t) /\ UNCHANGED kernelTree
    BY <1>1, <1>3, <1>4, LeaveSuffices
  <1>5. CASE /\ kernelTree' = [kernelTree EXCEPT ![t] =
                     [head |-> Key(t), unpushed |-> @.unpushed \cup {Key(t)}]]
             /\ pc' = [pc EXCEPT ![t] = "push"]
             /\ UNCHANGED << table, at, build, new, cls >>
    <2> DEFINE T == [head : Revisions \cup {"none"}, unpushed : SUBSET Revisions]
               x == [head |-> Key(t), unpushed |-> kernelTree[t].unpushed \cup {Key(t)}]
    <2>1. Key(t) \in Revisions
      BY <1>1, <1>2, ConstantsAssumption DEF KeyFor
    <2>2. x \in T /\ x.unpushed = kernelTree[t].unpushed \cup {Key(t)}
      BY <2>1 DEF TypeOK
    <2>3. IsFiniteSet(kernelTree[t].unpushed \cup {Key(t)})
      BY <1>2, FS_AddElement DEF TesterInv, StepAt
    <2>4. kernelTree' = [kernelTree EXCEPT ![t] = x] /\ kernelTree \in [Testers -> T]
      BY <1>5 DEF TypeOK
    <2> HIDE DEF T, x
    <2>5. kernelTree' \in [Testers -> T] /\ kernelTree'[t] = x
          /\ \A u \in Testers \ {t} : kernelTree'[u] = kernelTree[u]
      BY <2>2, <2>4
    <2>6. /\ pc' \in [Testers -> {"idle", "find", "push", "read-back", "record", "ready"}]
          /\ pc'[t] = "push" /\ \A u \in Testers \ {t} : pc'[u] = pc[u]
      BY <1>5 DEF TypeOK
    <2>7. TypeOK' /\ Same(t)
      BY <1>1, <1>5, <2>5, <2>6 DEF TypeOK, Same, T
    <2>8. Key(t)' = Key(t) /\ at'[t] = "kernel"
      BY <1>1, <1>5 DEF Key
    <2>9. StepAt(t)'
      BY <1>2, <1>5, <2>2, <2>3, <2>5, <2>8 DEF StepAt
    <2>10. TableAt(t)' /\ NewAt(t)' /\ ClsAt(t)'
      BY <1>1, <1>2, <1>3, <1>5, <2>6, RowOfKeeps DEF TesterInv, TableAt, NewAt, ClsAt, Grows, Written
    <2> QED
      BY <1>1, <1>3, <2>7, <2>9, <2>10, StepSuffices DEF TesterInv
  <1> QED
    BY <1>4, <1>5 DEF CommitKernel

LEMMA PushKernelStep ==
    ASSUME TypeOK, ClInv, NEW t \in Testers, PushKernel(t)
    PROVE  TypeOK' /\ ClInv'
  <1> DEFINE T == [head : Revisions \cup {"none"}, unpushed : SUBSET Revisions]
             revs == kernelTree[t].unpushed
             n == Cardinality(revs)
  <1>1. /\ pc[t] = "push" /\ ~Written(t) /\ Len(gerrit) + n <= MaxCLs
        /\ UNCHANGED << cns, troubles >>
        /\ kernelTree' = [kernelTree EXCEPT ![t].unpushed = {}]
    BY DEF PushKernel, Written
  <1>2. /\ at[t] = "kernel" /\ build[t] \in Builds /\ TesterInv(t)
        /\ Key(t) \in Builds \cup Revisions /\ Key(t) \in revs /\ IsFiniteSet(revs)
    BY <1>1, AtFacts DEF TesterInv, StepAt
  <1>3. n \in Nat /\ revs \subseteq Revisions
    BY <1>2, FS_CardinalityType DEF TypeOK
  <1>4. PICK order \in [1 .. n -> revs] :
            /\ \A r \in revs : \E i \in DOMAIN order : order[i] = r
            /\ gerrit' = gerrit \o [i \in DOMAIN order |-> Created("kernel", order[i])]
    BY DEF PushKernel
  <1> DEFINE new1 == [i \in DOMAIN order |-> Created("kernel", order[i])]
  <1>5. /\ new1 \in [1 .. n -> Changes]
        /\ \A i \in 1 .. n : new1[i].kind = "kernel" /\ new1[i].made = order[i] /\ order[i] \in revs
    <2>1. "kernel" \in Kinds
      BY DEF Kinds
    <2>2. \A i \in 1 .. n : /\ Created("kernel", order[i]) \in Changes
                            /\ Created("kernel", order[i]).kind = "kernel"
                            /\ Created("kernel", order[i]).made = order[i]
      BY <1>3, <2>1, CreatedFacts
    <2> QED
      BY <2>2
  <1>6. gerrit' = gerrit \o new1 /\ gerrit \in Seq(Changes)
    BY <1>4 DEF TypeOK
  <1> HIDE DEF new1, n
  <1>7. /\ gerrit' \in Seq(Changes) /\ Len(gerrit') = Len(gerrit) + n
        /\ \A m \in DOMAIN gerrit : m \in DOMAIN gerrit' /\ gerrit'[m] = gerrit[m]
        /\ \A m \in DOMAIN gerrit' \ DOMAIN gerrit : \E i \in 1 .. n : gerrit'[m] = new1[i]
        /\ n = 1 => gerrit'[Len(gerrit) + 1] = new1[1] /\ Len(gerrit) + 1 \in DOMAIN gerrit'
    <2> DEFINE g == gerrit \o new1
    <2>1. n \in Nat /\ new1 \in [1 .. n -> Changes] /\ gerrit \in Seq(Changes)
      BY <1>3, <1>5, <1>6 DEF n
    <2>2. /\ g \in Seq(Changes) /\ Len(g) = Len(gerrit) + n
          /\ \A m \in DOMAIN gerrit : m \in DOMAIN g /\ g[m] = gerrit[m]
          /\ \A m \in DOMAIN g \ DOMAIN gerrit : \E i \in 1 .. n : g[m] = new1[i]
          /\ n = 1 => g[Len(gerrit) + 1] = new1[1] /\ Len(gerrit) + 1 \in DOMAIN g
      BY <2>1, ConcatFacts
    <2>3. gerrit' = g
      BY <1>6
    <2> HIDE DEF g
    <2> QED
      BY <2>2, <2>3
  <1>8. Grows
    BY <1>1, <1>7 DEF Grows
  <1>9. /\ kernelTree' \in [Testers -> T] /\ kernelTree'[t].unpushed = {}
        /\ \A u \in Testers \ {t} : kernelTree'[u] = kernelTree[u]
    <2>1. kernelTree \in [Testers -> T] /\ kernelTree[t] \in T
      BY DEF TypeOK
    <2> DEFINE x == [kernelTree[t] EXCEPT !.unpushed = {}]
    <2>2. x \in T /\ x.unpushed = {}
      BY <2>1
    <2>3. kernelTree' = [kernelTree EXCEPT ![t] = x]
      BY <1>1, <2>1
    <2> HIDE DEF x, T
    <2> QED
      BY <2>1, <2>2, <2>3
  <1>10. IsFiniteSet(kernelTree'[t].unpushed)
    BY <1>9, FS_EmptySet
  <1>11. troubles' \in 0 .. MaxTroubles
    BY <1>1 DEF TypeOK
  <1>12. CASE Leave(t) /\ forgotten' = [forgotten EXCEPT !["kernel"] = @ \cup revs]
    <2>1. /\ forgotten' \in [Kinds -> SUBSET (Builds \cup Revisions)]
          /\ \A k \in Kinds : forgotten[k] \subseteq forgotten'[k]
          /\ revs \subseteq forgotten'["kernel"]
      <3>1. "kernel" \in Kinds
        BY DEF Kinds
      <3> QED
        BY <1>3, <1>12, <3>1 DEF TypeOK
    <2>2. \A m \in DOMAIN gerrit' \ DOMAIN gerrit :
               gerrit'[m].made \in forgotten'[gerrit'[m].kind]
      BY <1>5, <1>7, <2>1
    <2> QED
      BY <1>1, <1>8, <1>9, <1>10, <1>11, <1>12, <2>1, <2>2, LeaveKeeps
  <1>13. CASE /\ n = 1 /\ pc' = [pc EXCEPT ![t] = "read-back"]
              /\ new' = [new EXCEPT ![t] = [cl |-> Len(gerrit'), key |-> Key(t)]]
              /\ UNCHANGED << table, at, build, cls, forgotten >>
    <2>1. order[1] = Key(t)
      BY <1>2, <1>4, <1>13
    <2>2. \A m \in DOMAIN gerrit' \ DOMAIN gerrit :
              gerrit'[m].kind = at[t] /\ gerrit'[m].made = Key(t)
      BY <1>2, <1>5, <1>7, <1>13, <2>1
    <2>3. /\ pc' \in [Testers -> {"idle", "find", "push", "read-back", "record", "ready"}]
          /\ pc'[t] = "read-back" /\ \A u \in Testers \ {t} : pc'[u] = pc[u]
      BY <1>13 DEF TypeOK
    <2>4. /\ new' \in [Testers -> Reads] /\ new'[t].cl = Len(gerrit) + 1 /\ new'[t].key = Key(t)
          /\ \A u \in Testers \ {t} : new'[u] = new[u]
      <3> DEFINE x == [cl |-> Len(gerrit'), key |-> Key(t)]
      <3>1. Len(gerrit') \in 0 .. MaxCLs
        BY <1>8, ConstantsAssumption DEF Grows
      <3>2. x \in Reads /\ x.cl = Len(gerrit) + 1 /\ x.key = Key(t)
        BY <1>2, <1>7, <1>13, <3>1 DEF Reads
      <3>3. new' = [new EXCEPT ![t] = x] /\ new \in [Testers -> Reads]
        BY <1>13 DEF TypeOK
      <3> HIDE DEF x
      <3> QED
        BY <3>2, <3>3
    <2>5. TypeOK' /\ Same(t)
      BY <1>1, <1>8, <1>9, <1>11, <1>13, <2>3, <2>4 DEF TypeOK, Same, Grows
    <2>6. Key(t)' = Key(t) /\ at' = at /\ Written(t)'
      BY <1>13, <2>3 DEF Key, Written
    <2>7. StepAt(t)' /\ TableAt(t)' /\ ClsAt(t)'
      BY <1>2, <1>8, <1>10, <1>13, <2>3, RowOfKeeps DEF TesterInv, StepAt, TableAt, ClsAt, Grows
    <2>8. NewAt(t)'
      BY <1>2, <1>5, <1>7, <1>13, <2>3, <2>4, <2>6 DEF NewAt
    <2> QED
      BY <1>1, <1>8, <1>13, <2>2, <2>5, <2>6, <2>7, <2>8, UploadSuffices DEF TesterInv
  <1> QED
    BY <1>12, <1>13 DEF PushKernel, n

\* The key a program gives up is forgotten.
LEMMA ForgetFacts ==
    ASSUME TypeOK, NEW t \in Testers, Key(t) \in Builds \cup Revisions, at[t] \in Kinds,
           forgotten' = [forgotten EXCEPT ![at[t]] = @ \cup {Key(t)}]
    PROVE  /\ forgotten' \in [Kinds -> SUBSET (Builds \cup Revisions)]
           /\ \A k \in Kinds : forgotten[k] \subseteq forgotten'[k]
           /\ Key(t) \in forgotten'[at[t]]
  BY DEF TypeOK

LEMMA ReadBackStep ==
    ASSUME TypeOK, ClInv, NEW t \in Testers, ReadBack(t)
    PROVE  TypeOK' /\ ClInv'
  <1>1. /\ pc[t] = "read-back" /\ UNCHANGED << gerrit, cns, kernelTree, troubles >>
    BY DEF ReadBack
  <1>2. /\ at[t] \in Kinds /\ build[t] \in Builds /\ TesterInv(t)
        /\ Key(t) \in Builds \cup Revisions
    BY <1>1, AtFacts
  <1>3. Grows /\ troubles' \in 0 .. MaxTroubles
    BY <1>1 DEF Grows, TypeOK
  <1>4. CASE Leave(t) /\ forgotten' = [forgotten EXCEPT ![at[t]] = @ \cup {Key(t)}]
    <2>1. /\ forgotten' \in [Kinds -> SUBSET (Builds \cup Revisions)]
          /\ \A k \in Kinds : forgotten[k] \subseteq forgotten'[k]
          /\ Key(t) \in forgotten'[at[t]]
      BY <1>2, <1>4, ForgetFacts
    <2>2. kernelTree' \in [Testers -> [head : Revisions \cup {"none"}, unpushed : SUBSET Revisions]]
      BY <1>1 DEF TypeOK
    <2>3. IsFiniteSet(kernelTree'[t].unpushed)
      BY <1>1, <1>2 DEF TesterInv, StepAt
    <2> QED
      BY <1>1, <1>3, <1>4, <2>1, <2>2, <2>3, LeaveKeeps
  <1>5. CASE /\ pc' = [pc EXCEPT ![t] = "record"]
             /\ UNCHANGED << table, at, build, new, cls, forgotten >>
             /\ at[t] = "soong" \/ Readable(at[t], new[t].cl)
    <2>1. /\ pc' \in [Testers -> {"idle", "find", "push", "read-back", "record", "ready"}]
          /\ pc'[t] = "record" /\ \A u \in Testers \ {t} : pc'[u] = pc[u]
      BY <1>5 DEF TypeOK
    <2>2. TypeOK' /\ Same(t)
      BY <1>1, <1>5, <2>1 DEF TypeOK, Same
    <2>3. StepAt(t)' /\ TableAt(t)' /\ ClsAt(t)'
      BY <1>1, <1>2, <1>3, <1>5, <2>1, RowOfKeeps DEF TesterInv, StepAt, TableAt, ClsAt, Grows
    <2>4. Key(t)' = Key(t) /\ at' = at /\ Written(t)'
      BY <1>5, <2>1 DEF Key, Written
    <2>5. NewAt(t)'
      <3>1. /\ new[t].cl \in DOMAIN gerrit /\ gerrit[new[t].cl].kind = at[t]
            /\ new[t].key = Key(t)
        BY <1>1, <1>2 DEF TesterInv, NewAt, Written
      <3> QED
        BY <1>1, <1>5, <2>4, <3>1 DEF NewAt
    <2> QED
      BY <1>1, <1>3, <1>5, <2>2, <2>3, <2>4, <2>5, StepSuffices DEF TesterInv
  <1> QED
    BY <1>4, <1>5 DEF ReadBack

LEMMA RecordStep ==
    ASSUME TypeOK, ClInv, NEW t \in Testers, Record(t)
    PROVE  TypeOK' /\ ClInv'
  <1> DEFINE k == at[t]
             rows == table[t][k] \cup {new[t]}
             c == new[t]
  <1>1. /\ pc[t] = "record" /\ \A r \in table[t][k] : r.key # c.key
        /\ table' = [table EXCEPT ![t][k] = rows]
        /\ cns' = [cns EXCEPT ![k] = rows]
        /\ forgotten' = [forgotten EXCEPT ![k] = @ \cup {r.key : r \in cns[k] \ rows}]
        /\ Continue(t, c) /\ new' = [new EXCEPT ![t] = NoCL]
        /\ UNCHANGED << gerrit, kernelTree, troubles >>
    BY DEF Record
  <1>2. /\ k \in Kinds /\ build[t] \in Builds /\ TesterInv(t)
        /\ Key(t) \in Builds \cup Revisions
    BY <1>1, AtFacts
  <1>3. Grows
    BY <1>1 DEF Grows, TypeOK
  <1>4. /\ RowOf(k, c) /\ c.cl \in DOMAIN gerrit /\ gerrit[c.cl].kind = k /\ c.key = Key(t)
        /\ c \in Reads
    BY <1>1, <1>2 DEF TesterInv, NewAt, RowOf, Written, TypeOK
  <1>5. c \in Rows
    <2>1. c.cl \in Numbers
      BY <1>4, ReadFacts
    <2> QED
      BY <1>2, <1>4, <2>1 DEF Reads, Rows
  <1>6. Unique(rows) /\ (\A r \in rows : RowOf(k, r)) /\ rows \in SUBSET Rows
    <2>1. Unique(table[t][k]) /\ (\A r \in table[t][k] : RowOf(k, r)) /\ table[t][k] \in SUBSET Rows
      BY <1>2 DEF TesterInv, TableAt, TypeOK
    <2> QED
      BY <1>1, <1>4, <1>5, <2>1 DEF Unique
  <1> HIDE DEF rows, c
  <1>7. /\ cns' \in [Kinds -> SUBSET Rows] /\ cns'[k] = rows
        /\ \A j \in Kinds \ {k} : cns'[j] = cns[j]
    BY <1>1, <1>2, <1>6 DEF TypeOK
  <1>8. /\ table' \in [Testers -> [Kinds -> SUBSET Rows]] /\ table'[t][k] = rows
        /\ \A j \in Kinds \ {k} : table'[t][j] = table[t][j]
        /\ \A u \in Testers \ {t} : table'[u] = table[u]
    BY <1>1, <1>2, <1>6 DEF TypeOK
  <1>9. /\ forgotten' \in [Kinds -> SUBSET (Builds \cup Revisions)]
        /\ \A j \in Kinds : forgotten[j] \subseteq forgotten'[j]
        /\ \A r \in cns[k] \ rows : r.key \in forgotten'[k]
    <2> DEFINE lost == {r.key : r \in cns[k] \ rows}
    <2>1. cns[k] \in SUBSET Rows
      BY <1>2 DEF TypeOK
    <2>2. lost \subseteq Builds \cup Revisions /\ \A r \in cns[k] \ rows : r.key \in lost
      BY <2>1 DEF Rows
    <2>3. forgotten' = [forgotten EXCEPT ![k] = @ \cup lost]
          /\ forgotten \in [Kinds -> SUBSET (Builds \cup Revisions)]
      BY <1>1 DEF TypeOK
    <2> HIDE DEF lost
    <2> QED
      BY <1>2, <2>2, <2>3
  <1>10. /\ pc' \in [Testers -> {"idle", "find", "push", "read-back", "record", "ready"}]
         /\ at' \in [Testers -> Kinds] /\ cls' \in [Testers -> [Kinds -> Reads]]
         /\ build' = build
         /\ \A u \in Testers \ {t} : pc'[u] = pc[u] /\ at'[u] = at[u] /\ cls'[u] = cls[u]
    BY <1>1, <1>4, ContinueFacts
  <1>11. new' \in [Testers -> Reads] /\ \A u \in Testers \ {t} : new'[u] = new[u]
    BY <1>1, EmptyFacts DEF TypeOK
  <1>12. TypeOK' /\ Same(t)
    BY <1>1, <1>7, <1>8, <1>9, <1>10, <1>11 DEF TypeOK, Same
  <1>13. ASSUME NEW j \in Kinds, NEW r, RowOf(j, r) PROVE RowOf(j, r)'
    BY <1>3, <1>13, RowOfKeeps
  <1>14. CnsInv'
    BY <1>6, <1>7, <1>13 DEF CnsInv, ClInv
  <1>15. TableAt(t)'
    BY <1>2, <1>6, <1>8, <1>13 DEF TableAt, TesterInv
  <1>16. TesterInv(t)'
    BY <1>1, <1>2, <1>3, <1>4, <1>15, ContinueKeeps
  <1>17. MadeInv'
    <2>1. c \in rows
      BY DEF rows, c
    <2>2. \A j, key : Written(t) /\ at[t] = j /\ Key(t) = key => Accounted(j, key)'
      BY <1>4, <1>7, <2>1 DEF Accounted
    <2>3. \A j \in Kinds : \A r \in cns[j] :
              r.key \in forgotten'[j] \/ \E s \in cns'[j] : s.key = r.key
      BY <1>7, <1>9
    <2>4. DOMAIN gerrit' = DOMAIN gerrit
      BY <1>1
    <2> QED
      BY <1>3, <1>9, <1>12, <2>2, <2>3, <2>4, MadeKeeps DEF ClInv
  <1> QED
    BY <1>3, <1>12, <1>14, <1>16, <1>17, OthersSuffice

LEMMA FinishStep ==
    ASSUME TypeOK, ClInv, NEW t \in Testers, Finish(t)
    PROVE  TypeOK' /\ ClInv'
  <1>1. /\ Leave(t) /\ ~Written(t) /\ DOMAIN gerrit' = DOMAIN gerrit
        /\ UNCHANGED << gerrit, cns, kernelTree, forgotten, troubles >>
    BY DEF Finish, Written
  <1>2. Grows /\ troubles' \in 0 .. MaxTroubles
    BY <1>1 DEF Grows, TypeOK
  <1> QED
    BY <1>1, <1>2, LeaveSuffices

-----------------------------------------------------------------------------
(* The world around. *)

LEMMA TroubleFacts ==
    ASSUME TypeOK, troubles < MaxTroubles, troubles' = troubles + 1
    PROVE  troubles' \in 0 .. MaxTroubles
  <1>1. troubles \in 0 .. MaxTroubles /\ MaxTroubles \in Nat
    BY ConstantsAssumption DEF TypeOK
  <1> QED
    BY <1>1

LEMMA StopStep ==
    ASSUME TypeOK, ClInv, NEW t \in Testers, Stop(t)
    PROVE  TypeOK' /\ ClInv'
  <1>1. /\ pc[t] # "idle" /\ Leave(t) /\ UNCHANGED << gerrit, cns, kernelTree >>
        /\ troubles' \in 0 .. MaxTroubles
    BY TroubleFacts DEF Stop
  <1>2. /\ at[t] \in Kinds /\ TesterInv(t) /\ Key(t) \in Builds \cup Revisions
    BY <1>1, AtFacts
  <1>3. Grows /\ DOMAIN gerrit' = DOMAIN gerrit
    BY <1>1 DEF Grows, TypeOK
  <1>4. CASE Written(t)
    <2>1. /\ forgotten' \in [Kinds -> SUBSET (Builds \cup Revisions)]
          /\ \A k \in Kinds : forgotten[k] \subseteq forgotten'[k]
          /\ Key(t) \in forgotten'[at[t]]
      BY <1>2, <1>4, ForgetFacts DEF Stop, Written
    <2>2. kernelTree' \in [Testers -> [head : Revisions \cup {"none"}, unpushed : SUBSET Revisions]]
      BY <1>1 DEF TypeOK
    <2>3. IsFiniteSet(kernelTree'[t].unpushed)
      BY <1>1, <1>2 DEF TesterInv, StepAt
    <2> QED
      BY <1>1, <1>3, <2>1, <2>2, <2>3, LeaveKeeps
  <1>5. CASE ~Written(t)
    <2>1. forgotten' = forgotten
      BY <1>5 DEF Stop, Written
    <2> QED
      BY <1>1, <1>3, <1>5, <2>1, LeaveSuffices
  <1> QED
    BY <1>4, <1>5

\* Others change what a change contains, never its kind or who made it.
LEMMA TouchStep ==
    ASSUME TypeOK, ClInv, Touch
    PROVE  TypeOK' /\ ClInv'
  <1>1. UNCHANGED << cns, table, pc, at, build, new, cls, kernelTree, forgotten >>
        /\ troubles' \in 0 .. MaxTroubles
    BY TroubleFacts DEF Touch
  <1>2. PICK n \in DOMAIN gerrit :
              \/ gerrit' = [gerrit EXCEPT ![n].merged = TRUE]
              \/ gerrit' = [gerrit EXCEPT ![n].conflict = TRUE]
              \/ \E key \in Keys(gerrit[n].kind), form \in Forms(gerrit[n].kind) :
                     gerrit' = [gerrit EXCEPT ![n].key = key, ![n].form = form]
    BY DEF Touch
  <1>3. gerrit \in Seq(Changes) /\ gerrit[n] \in Changes /\ Len(gerrit) <= MaxCLs
    BY DEF TypeOK
  <1>4. \E c \in Changes : /\ gerrit' = [gerrit EXCEPT ![n] = c]
                           /\ c.kind = gerrit[n].kind /\ c.made = gerrit[n].made
    <2>1. CASE gerrit' = [gerrit EXCEPT ![n].merged = TRUE]
      <3> DEFINE c == [gerrit[n] EXCEPT !.merged = TRUE]
      <3>1. c \in Changes /\ c.kind = gerrit[n].kind /\ c.made = gerrit[n].made
        BY <1>3 DEF Changes
      <3>2. gerrit' = [gerrit EXCEPT ![n] = c]
        BY <1>3, <2>1
      <3> HIDE DEF c
      <3> QED
        BY <3>1, <3>2
    <2>2. CASE gerrit' = [gerrit EXCEPT ![n].conflict = TRUE]
      <3> DEFINE c == [gerrit[n] EXCEPT !.conflict = TRUE]
      <3>1. c \in Changes /\ c.kind = gerrit[n].kind /\ c.made = gerrit[n].made
        BY <1>3 DEF Changes
      <3>2. gerrit' = [gerrit EXCEPT ![n] = c]
        BY <1>3, <2>2
      <3> HIDE DEF c
      <3> QED
        BY <3>1, <3>2
    <2>3. CASE \E key \in Keys(gerrit[n].kind), form \in Forms(gerrit[n].kind) :
                  gerrit' = [gerrit EXCEPT ![n].key = key, ![n].form = form]
      <3>1. PICK key \in Keys(gerrit[n].kind), form \in Forms(gerrit[n].kind) :
                  gerrit' = [gerrit EXCEPT ![n].key = key, ![n].form = form]
        BY <2>3
      <3>2. key \in Builds \cup Revisions /\ form \in {"path", "variable", "other"}
        BY DEF Keys, Forms
      <3> DEFINE c == [gerrit[n] EXCEPT !.key = key, !.form = form]
      <3>3. c \in Changes /\ c.kind = gerrit[n].kind /\ c.made = gerrit[n].made
        BY <1>3, <3>2 DEF Changes
      <3>4. gerrit' = [gerrit EXCEPT ![n] = c]
        BY <1>3, <3>1
      <3> HIDE DEF c
      <3> QED
        BY <3>3, <3>4
    <2> QED
      BY <1>2, <2>1, <2>2, <2>3
  <1>5. Grows /\ DOMAIN gerrit' = DOMAIN gerrit
    <2>1. PICK c \in Changes : /\ gerrit' = [gerrit EXCEPT ![n] = c]
                               /\ c.kind = gerrit[n].kind /\ c.made = gerrit[n].made
      BY <1>4
    <2> QED
      BY <1>3, <2>1, EditFacts DEF Grows
  <1>6. TypeOK'
    BY <1>1, <1>5 DEF TypeOK, Grows
  <1>7. ASSUME NEW u \in Testers PROVE TesterInv(u)'
    BY <1>1, <1>5, TesterKeeps DEF ClInv
  <1>8. CnsInv'
    BY <1>1, <1>5, CnsKeeps DEF ClInv
  <1>9. MadeInv'
    BY <1>1, <1>5 DEF ClInv, MadeInv, Accounted, Grows, Written, Key
  <1> QED
    BY <1>6, <1>7, <1>8, <1>9 DEF ClInv

-----------------------------------------------------------------------------
(* The theorems. *)

LEMMA ClInvStep == TypeOK /\ ClInv /\ [Next]_vars => (TypeOK /\ ClInv)'
  <1> SUFFICES ASSUME TypeOK, ClInv, [Next]_vars PROVE TypeOK' /\ ClInv'
    OBVIOUS
  <1>1. CASE Touch
    BY <1>1, TouchStep
  <1>2. ASSUME NEW t \in Testers, Start(t) PROVE TypeOK' /\ ClInv'
    BY <1>2, StartStep
  <1>3. ASSUME NEW t \in Testers, Reuse(t) PROVE TypeOK' /\ ClInv'
    BY <1>3, ReuseStep
  <1>4. ASSUME NEW t \in Testers, Adopt(t) PROVE TypeOK' /\ ClInv'
    BY <1>4, AdoptStep
  <1>5. ASSUME NEW t \in Testers, Upload(t) PROVE TypeOK' /\ ClInv'
    BY <1>5, UploadStep
  <1>6. ASSUME NEW t \in Testers, CommitKernel(t) PROVE TypeOK' /\ ClInv'
    BY <1>6, CommitKernelStep
  <1>7. ASSUME NEW t \in Testers, PushKernel(t) PROVE TypeOK' /\ ClInv'
    BY <1>7, PushKernelStep
  <1>8. ASSUME NEW t \in Testers, ReadBack(t) PROVE TypeOK' /\ ClInv'
    BY <1>8, ReadBackStep
  <1>9. ASSUME NEW t \in Testers, Record(t) PROVE TypeOK' /\ ClInv'
    BY <1>9, RecordStep
  <1>10. ASSUME NEW t \in Testers, Finish(t) PROVE TypeOK' /\ ClInv'
    BY <1>10, FinishStep
  <1>11. ASSUME NEW t \in Testers, Stop(t) PROVE TypeOK' /\ ClInv'
    BY <1>11, StopStep
  <1>12. CASE UNCHANGED vars
    <2>1. UNCHANGED << gerrit, cns, table, pc, at, build, new, cls, kernelTree, forgotten, troubles >>
      BY <1>12 DEF vars
    <2>2. TypeOK' /\ Grows
      BY <2>1 DEF TypeOK, Grows
    <2>3. ASSUME NEW u \in Testers PROVE TesterInv(u)'
      BY <2>1, <2>2, TesterKeeps DEF ClInv
    <2>4. CnsInv'
      BY <2>1, <2>2, CnsKeeps DEF ClInv
    <2>5. MadeInv'
      BY <2>1 DEF ClInv, MadeInv, Accounted, Written, Key
    <2> QED
      BY <2>2, <2>3, <2>4, <2>5 DEF ClInv
  <1> QED
    BY <1>1, <1>2, <1>3, <1>4, <1>5, <1>6, <1>7, <1>8, <1>9, <1>10, <1>11, <1>12 DEF Next

LEMMA ClInvHolds == Spec => [](TypeOK /\ ClInv)
  BY ClInvInit, ClInvStep, PTL DEF Spec

\* The tables, the changes and what the programs have in memory stay well formed.
THEOREM TypeTheorem == Spec => []TypeOK
  BY ClInvHolds, PTL

\* No table of data.py ever has two rows for one build or revision, however the programs
\* that read it, add to it and write it as a whole interleave.
THEOREM UniqueRowsTheorem == Spec => []UniqueRows
  <1>1. TypeOK /\ ClInv => UniqueRows
    BY DEF ClInv, CnsInv, Unique, UniqueRows
  <1> QED
    BY <1>1, ClInvHolds, PTL

\* What prepareCLs returns is for the build that was asked for.
THEOREM UsedIsRightTheorem == Spec => []UsedIsRight
  <1>1. TypeOK /\ ClInv => UsedIsRight
    BY DEF ClInv, TesterInv, ClsAt, UsedIsRight, KeyFor
  <1> QED
    BY <1>1, ClInvHolds, PTL

\* A second change for a build or revision is uploaded only where the first was never
\* recorded, where its row was lost, or where two programs are at it at the same time: every
\* change a program made is accounted for in one of these ways.
THEOREM DuplicateTheorem == Spec => DuplicateOnlyAfterLoss
  <1> DEFINE Good == \A t \in Testers :
           Upload(t) /\ Uploaded(at[t], Key(t)) # {} =>
               \/ Key(t) \in forgotten[at[t]]
               \/ \E r \in cns[at[t]] : r.key = Key(t)
               \/ \E u \in Testers \ {t} :
                      pc[u] \in {"read-back", "record"} /\ at[u] = at[t] /\ Key(u) = Key(t)
  <1>1. TypeOK /\ ClInv => Good
    <2> SUFFICES ASSUME TypeOK, ClInv, NEW t \in Testers, Upload(t),
                        Uploaded(at[t], Key(t)) # {}
                 PROVE  \/ Key(t) \in forgotten[at[t]]
                        \/ \E r \in cns[at[t]] : r.key = Key(t)
                        \/ \E u \in Testers \ {t} :
                            pc[u] \in {"read-back", "record"} /\ at[u] = at[t] /\ Key(u) = Key(t)
      OBVIOUS
    <2>1. PICK n \in DOMAIN gerrit : gerrit[n].kind = at[t] /\ gerrit[n].made = Key(t)
      BY DEF Uploaded
    <2>2. pc[t] = "find"
      BY DEF Upload
    <2>3. Key(t) \in Builds \cup Revisions
      BY <2>2, AtFacts
    <2>4. Key(t) # "by-hand"
      BY <2>3, ConstantsAssumption
    <2>5. Accounted(at[t], Key(t))
      BY <2>1, <2>4 DEF ClInv, MadeInv
    <2> QED
      BY <2>2, <2>5 DEF Accounted, Written
  <1>2. TypeOK /\ ClInv /\ [Next]_vars => [Good]_vars
    BY <1>1
  <1> QED
    BY <1>2, ClInvHolds, PTL DEF Spec, DuplicateOnlyAfterLoss

=============================================================================
