--------------------------- MODULE PatchListProofs ---------------------------
(***************************************************************************)
(* Proofs about PatchList, for every set of patches, revisions and runs.     *)
(***************************************************************************)
EXTENDS PatchList, FiniteSetTheorems, FunctionTheorems, SequenceTheorems, TLAPS

-----------------------------------------------------------------------------
(* The inductive invariant. *)

\* A list of whole files, each once.
Once(s) == \A i, j \in DOMAIN s : s[i].patch = s[j].patch => i = j
Sound(s) == Once(s) /\ \A i \in DOMAIN s : file[s[i].patch] = "whole"

\* While cherrypick_cl.py adds entries: the one at hand is not listed yet, and nothing in
\* the last commit waits for one of the files it adds.
Picking == {"pick", "format", "save"}
Waiting == PatchesOf(head.list) \ head.files
PickInv ==
    /\ pc \in Picking =>
           Sound(loaded) /\ PatchesOf(loaded) \subseteq index.files \cup loose \cup added
    /\ pc = "format" => todo # << >> /\ file[Head(todo)] = "partial"
    /\ pc = "idle" => added = {}
    /\ pc \in Picking \cup {"verify", "add"} => added \cap Waiting = {}

\* A list that can be read is sound, and its files are staged, or left by an earlier run,
\* or about to be added.
ListInv ==
    /\ cut => pc \in {"idle", "save"}
    /\ ~cut =>
           /\ Sound(list)
           /\ PatchesOf(list) \subseteq
                  index.files \cup loose \cup (IF pc \in {"verify", "add"} THEN added ELSE {})

\* What trim_patch_data.py is to remove is no longer listed; what is committed is the list.
TrimInv ==
    /\ pc \in {"stage", "remove"} => added \cap PatchesOf(list) = {}
    /\ pc \in {"remove", "commit"} => index.list = list

\* A committed list can be gone back to: the files it names that are not committed are there,
\* and git does not know of them.
HeadInv ==
    /\ Once(head.list)
    /\ CommitsAreComplete
    /\ \A p \in Waiting : file[p] = "whole" /\ p \notin index.files

PatchInv == PickInv /\ ListInv /\ TrimInv /\ HeadInv

-----------------------------------------------------------------------------
(* What Arranged does. *)

\* Places counts what does not come after: these counts number the positions.
LEMMA PlaceFacts ==
    ASSUME NEW I \in SUBSET Nat, IsFiniteSet(I), NEW key, \A i \in I : key[i] \in Nat,
           NEW place, place = Places(I, key)
    PROVE  /\ place \in [I -> 1 .. Cardinality(I)]
           /\ \A i, j \in I : Before(key, i, j) => place[i] < place[j]
           /\ \A i, j \in I : place[i] = place[j] => i = j
           /\ \A n \in 1 .. Cardinality(I) : \E i \in I : place[i] = n
  <1> DEFINE upTo(i) == {j \in I : ~Before(key, i, j)}
  <1>1. Cardinality(I) \in Nat
    BY FS_CardinalityType
  <1>2. ASSUME NEW i \in I
        PROVE  /\ IsFiniteSet(upTo(i)) /\ Cardinality(upTo(i)) \in 1 .. Cardinality(I)
               /\ place[i] = Cardinality(upTo(i)) /\ i \in upTo(i)
    <2>1. upTo(i) \in SUBSET I
      OBVIOUS
    <2>2. i \in upTo(i)
      BY DEF Before
    <2>3. IsFiniteSet(upTo(i)) /\ Cardinality(upTo(i)) <= Cardinality(I)
      BY <2>1, FS_Subset
    <2>4. Cardinality(upTo(i)) \in Nat /\ Cardinality(upTo(i)) # 0
      <3> HIDE DEF upTo
      <3> QED
        BY <2>2, <2>3, FS_CardinalityType, FS_EmptySet
    <2>5. place[i] = Cardinality(upTo(i))
      BY DEF Places
    <2> HIDE DEF upTo
    <2> QED
      BY <1>1, <2>2, <2>3, <2>4, <2>5
  <1>3. ASSUME NEW i \in I, NEW j \in I, Before(key, i, j)
        PROVE  place[i] < place[j]
    <2>1. upTo(i) \in SUBSET upTo(j) /\ j \in upTo(j) /\ j \notin upTo(i)
      <3>1. ASSUME NEW k \in I, ~Before(key, i, k) PROVE ~Before(key, j, k)
        <4>1. i \in Nat /\ j \in Nat /\ k \in Nat
              /\ key[i] \in Nat /\ key[j] \in Nat /\ key[k] \in Nat
          OBVIOUS
        <4> QED
          BY <1>3, <3>1, <4>1 DEF Before
      <3>2. ~Before(key, j, j)
        BY DEF Before
      <3> QED
        BY <1>3, <3>1, <3>2
    <2>2. /\ IsFiniteSet(upTo(j)) /\ Cardinality(upTo(i)) \in Nat /\ Cardinality(upTo(j)) \in Nat
          /\ place[i] = Cardinality(upTo(i)) /\ place[j] = Cardinality(upTo(j))
      BY <1>1, <1>2
    <2> HIDE DEF upTo
    <2>3. /\ Cardinality(upTo(i)) <= Cardinality(upTo(j))
          /\ Cardinality(upTo(j)) = Cardinality(upTo(i)) => upTo(j) = upTo(i)
      BY <2>1, <2>2, FS_Subset
    <2> QED
      BY <2>1, <2>2, <2>3
  <1>4. place \in [I -> 1 .. Cardinality(I)]
    <2>1. \A i \in I : place[i] \in 1 .. Cardinality(I)
      BY <1>2
    <2>2. place = [i \in I |-> place[i]]
      BY DEF Places
    <2> QED
      BY <2>1, <2>2
  <1>5. ASSUME NEW i \in I, NEW j \in I, place[i] = place[j]
        PROVE  i = j
    <2>1. Before(key, i, j) \/ Before(key, j, i) \/ i = j
      BY DEF Before
    <2>2. place[i] \in Nat /\ place[j] \in Nat
      BY <1>1, <1>4
    <2> QED
      BY <1>3, <1>5, <2>1, <2>2
  <1>6. \A n \in 1 .. Cardinality(I) : \E i \in I : place[i] = n
    <2>1. place \in Injection(I, 1 .. Cardinality(I))
      BY <1>4, <1>5, Fun_IsInj
    <2>2. /\ IsFiniteSet(1 .. Cardinality(I))
          /\ Cardinality(1 .. Cardinality(I)) = Cardinality(I)
      BY <1>1, FS_Interval
    <2> DEFINE T == 1 .. Cardinality(I)
    <2> HIDE DEF T
    <2>3. place \in Surjection(I, T)
      BY <2>1, <2>2, FS_Injection DEF T
    <2>4. \A n \in T : \E i \in I : place[i] = n
      BY <2>3 DEF Surjection
    <2> QED
      BY <2>4 DEF T
  <1> QED
    BY <1>3, <1>4, <1>5, <1>6

\* r has the entries at the positions I of s, each position once, in order; from[n] is the
\* position of the nth.
Arranges(from, r, s, I, key) ==
    /\ from \in [DOMAIN r -> I]
    /\ \A n \in DOMAIN r : r[n] = s[from[n]]
    /\ \A i \in I : \E n \in DOMAIN r : from[n] = i
    /\ \A m, n \in DOMAIN r : m < n => Before(key, from[m], from[n])

LEMMA ArrangedFacts ==
    ASSUME NEW s \in Seq(Entries), NEW I \in SUBSET (DOMAIN s),
           NEW key, \A i \in I : key[i] \in Nat,
           NEW r, r = Arranged(s, I, key)
    PROVE  /\ r \in Seq(Entries)
           /\ Len(r) = Cardinality(I)
           /\ IsFiniteSet(I)
           /\ \E from : Arranges(from, r, s, I, key)
  <1> DEFINE place == Places(I, key)
             from == [n \in 1 .. Cardinality(I) |-> CHOOSE i \in I : place[i] = n]
             q == [n \in 1 .. Cardinality(I) |-> s[CHOOSE i \in I : place[i] = n]]
  <1>1. I \in SUBSET Nat /\ IsFiniteSet(I) /\ Cardinality(I) \in Nat
    <2>1. DOMAIN s = 1 .. Len(s) /\ Len(s) \in Nat
      OBVIOUS
    <2>2. IsFiniteSet(DOMAIN s)
      BY <2>1, FS_Interval
    <2> QED
      BY <2>1, <2>2, FS_Subset, FS_CardinalityType
  <1>2. r = q
    BY DEF Arranged
  <1>3. /\ place \in [I -> 1 .. Cardinality(I)]
        /\ \A i, j \in I : Before(key, i, j) => place[i] < place[j]
        /\ \A i, j \in I : place[i] = place[j] => i = j
        /\ \A n \in 1 .. Cardinality(I) : \E i \in I : place[i] = n
    <2>1. place = Places(I, key)
      OBVIOUS
    <2> HIDE DEF place
    <2> QED
      BY <1>1, <2>1, PlaceFacts
  <1> HIDE DEF place
  <1>4. \A n \in 1 .. Cardinality(I) : from[n] \in I /\ place[from[n]] = n /\ r[n] = s[from[n]]
    BY <1>2, <1>3
  <1>5. from \in [1 .. Cardinality(I) -> I]
    BY <1>4
  <1>6. r \in [1 .. Cardinality(I) -> Entries]
    <2>1. \A i \in I : s[i] \in Entries
      OBVIOUS
    <2>2. \A n \in 1 .. Cardinality(I) : r[n] \in Entries
      BY <1>4, <2>1
    <2> QED
      BY <1>2, <2>2
  <1>7. DOMAIN r = 1 .. Cardinality(I)
    BY <1>2
  <1> HIDE DEF from, q
  <1>8. r \in Seq(Entries) /\ Len(r) = Cardinality(I)
    BY <1>1, <1>6, IsASeq
  <1>9. \A i \in I : \E n \in DOMAIN r : from[n] = i
    <2> SUFFICES ASSUME NEW i \in I PROVE \E n \in DOMAIN r : from[n] = i
      OBVIOUS
    <2>1. place[i] \in 1 .. Cardinality(I)
      BY <1>3
    <2>2. from[place[i]] = i
      BY <1>3, <1>4, <2>1
    <2> QED
      BY <1>7, <2>1, <2>2
  <1>10. ASSUME NEW m \in DOMAIN r, NEW n \in DOMAIN r, m < n
         PROVE  Before(key, from[m], from[n])
    <2>1. from[m] \in I /\ from[n] \in I /\ place[from[m]] = m /\ place[from[n]] = n
      BY <1>4, <1>7
    <2>2. m \in Nat /\ n \in Nat
      BY <1>1, <1>7
    <2>3. ~Before(key, from[n], from[m]) /\ from[m] # from[n]
      BY <1>3, <1>10, <2>1, <2>2
    <2>4. from[m] \in Nat /\ from[n] \in Nat /\ key[from[m]] \in Nat /\ key[from[n]] \in Nat
      BY <1>1, <2>1
    <2> QED
      BY <2>3, <2>4 DEF Before
  <1>11. Arranges(from, r, s, I, key)
    BY <1>4, <1>5, <1>7, <1>9, <1>10 DEF Arranges
  <1> QED
    BY <1>1, <1>8, <1>11

-----------------------------------------------------------------------------
(* Lists. *)

LEMMA KeyFacts == \A e \in Entries : sort_key(e) \in Nat
  BY ConstantsAssumption DEF Entries, sort_key, NoEnd

\* r has the entries at the positions I of s.
PartOf(r, s, I) ==
    /\ \A n \in DOMAIN r : \E i \in I : r[n] = s[i]
    /\ \A i \in I : \E n \in DOMAIN r : r[n] = s[i]

\* What is arranged are entries of the list, each once if they were.
LEMMA PartFacts ==
    ASSUME NEW s \in Seq(Entries), NEW I \in SUBSET (DOMAIN s),
           NEW key, \A i \in I : key[i] \in Nat,
           NEW r, r = Arranged(s, I, key)
    PROVE  /\ r \in Seq(Entries) /\ (Once(s) => Once(r)) /\ PartOf(r, s, I)
  <1>1. PICK from : Arranges(from, r, s, I, key)
    BY ArrangedFacts
  <1>2. r \in Seq(Entries)
    BY ArrangedFacts
  <1>3. ASSUME Once(s), NEW m \in DOMAIN r, NEW n \in DOMAIN r, r[m].patch = r[n].patch
        PROVE  m = n
    <2>1. from[m] \in DOMAIN s /\ from[n] \in DOMAIN s /\ from[m] = from[n]
      BY <1>1, <1>3 DEF Once, Arranges
    <2>2. key[from[m]] \in Nat /\ from[m] \in Nat
      BY <1>1, <2>1 DEF Arranges
    <2>3. ~(m < n) /\ ~(n < m)
      BY <1>1, <2>1, <2>2 DEF Before, Arranges
    <2>4. m \in Nat /\ n \in Nat
      BY <1>2
    <2> QED
      BY <2>3, <2>4
  <1> QED
    BY <1>1, <1>2, <1>3 DEF Once, PartOf, Arranges

LEMMA SortedFacts ==
    ASSUME NEW s \in Seq(Entries), NEW r, r = Sorted(s)
    PROVE  /\ r \in Seq(Entries) /\ PatchesOf(r) = PatchesOf(s) /\ (Once(s) => Once(r))
           /\ PartOf(r, s, DOMAIN s)
  <1> DEFINE key == [i \in DOMAIN s |-> sort_key(s[i])]
  <1>1. \A i \in DOMAIN s : key[i] \in Nat
    BY KeyFacts
  <1>2. r = Arranged(s, DOMAIN s, key)
    BY DEF Sorted
  <1> HIDE DEF key
  <1> QED
    <2>1. r \in Seq(Entries) /\ (Once(s) => Once(r)) /\ PartOf(r, s, DOMAIN s)
      BY <1>1, <1>2, PartFacts
    <2> QED
      BY <2>1 DEF PartOf, PatchesOf

LEMMA TrimmedFacts ==
    ASSUME TypeOK
    PROVE  /\ Trimmed \in Seq(Entries) /\ PatchesOf(Trimmed) \subseteq PatchesOf(list)
           /\ Once(list) => Once(Trimmed) /\ PatchesOf(Trimmed) \cap Expired = {}
  <1> DEFINE I == {i \in DOMAIN list : list[i].until > svn}
             key == [i \in DOMAIN list |-> 0]
  <1>1. I \in SUBSET (DOMAIN list) /\ list \in Seq(Entries) /\ \A i \in I : key[i] \in Nat
    BY DEF TypeOK
  <1>2. Trimmed = Arranged(list, I, key)
    BY DEF Trimmed
  <1> HIDE DEF key
  <1>3. /\ Trimmed \in Seq(Entries) /\ (Once(list) => Once(Trimmed))
        /\ PartOf(Trimmed, list, I)
    <2> HIDE DEF I
    <2> QED
      BY <1>1, <1>2, PartFacts
  <1>4. ASSUME Once(list), NEW p \in PatchesOf(Trimmed), p \in Expired PROVE FALSE
    <2>1. PICK i \in DOMAIN list : list[i].until > svn /\ list[i].patch = p
      BY <1>3 DEF PartOf, PatchesOf
    <2>2. PICK j \in DOMAIN list : list[j].patch = p /\ list[j].until <= svn
      BY <1>4 DEF Expired
    <2>3. i = j
      BY <1>4, <2>1, <2>2 DEF Once
    <2>4. list[i].until \in Nat /\ svn \in Nat
      <3>1. list[i] \in Entries /\ svn \in 1 .. LastRevision
        BY DEF TypeOK
      <3> QED
        BY <3>1, ConstantsAssumption DEF Entries, NoEnd
    <2> QED
      BY <2>1, <2>2, <2>3, <2>4
  <1> QED
    BY <1>3, <1>4 DEF PartOf, PatchesOf

\* r has the entries of s and e.
With(r, s, e) == \A n \in DOMAIN r : r[n] = e \/ \E i \in DOMAIN s : r[n] = s[i]

LEMMA AppendFacts ==
    ASSUME NEW s \in Seq(Entries), NEW e \in Entries, NEW r, r = Append(s, e)
    PROVE  /\ r \in Seq(Entries) /\ PatchesOf(r) = PatchesOf(s) \cup {e.patch}
           /\ Once(s) /\ e.patch \notin PatchesOf(s) => Once(r)
           /\ With(r, s, e)
  <1>1. /\ r \in Seq(Entries) /\ DOMAIN s = 1 .. Len(s) /\ DOMAIN r = 1 .. Len(s) + 1
        /\ Len(s) \in Nat /\ r[Len(s) + 1] = e /\ \A i \in 1 .. Len(s) : r[i] = s[i]
    BY AppendProperties
  <1>2. \A n \in DOMAIN r : n = Len(s) + 1 \/ n \in DOMAIN s
    BY <1>1
  <1>3. Len(s) + 1 \in DOMAIN r /\ \A i \in DOMAIN s : i \in DOMAIN r
    BY <1>1
  <1>4. PatchesOf(r) = PatchesOf(s) \cup {e.patch}
    BY <1>1, <1>2, <1>3 DEF PatchesOf
  <1>5. ASSUME Once(s), e.patch \notin PatchesOf(s),
               NEW m \in DOMAIN r, NEW n \in DOMAIN r, r[m].patch = r[n].patch
        PROVE  m = n
    BY <1>1, <1>2, <1>5 DEF Once, PatchesOf
  <1> QED
    BY <1>1, <1>2, <1>4, <1>5 DEF Once, With

LEMMA TypeFacts ==
    ASSUME TypeOK
    PROVE  /\ list \in Seq(Entries) /\ loaded \in Seq(Entries) /\ todo \in Seq(Upstream)
           /\ index = [list |-> index.list, files |-> index.files]
           /\ head = [list |-> head.list, files |-> head.files]
           /\ index.list \in Seq(Entries) /\ head.list \in Seq(Entries)
           /\ index.files \subseteq Patches /\ head.files \subseteq Patches
           /\ \A s \in Seq(Entries) : PatchesOf(s) \subseteq Patches
  <1>1. ASSUME NEW s \in Seq(Entries) PROVE PatchesOf(s) \subseteq Patches
    <2>1. \A i \in DOMAIN s : s[i] \in Entries
      OBVIOUS
    <2> QED
      BY <2>1 DEF PatchesOf, Entries
  <1> QED
    BY <1>1 DEF TypeOK, Snapshots

LEMMA SnapshotFacts ==
    ASSUME NEW s \in Seq(Entries), NEW F \in SUBSET Patches, NEW r, r = [list |-> s, files |-> F]
    PROVE  r \in Snapshots /\ r.list = s /\ r.files = F
  BY DEF Snapshots

\* HeadInv, as long as nothing is committed.
LEMMA HeadFrame ==
    ASSUME HeadInv, UNCHANGED head, loose \subseteq loose',
           \A p \in Waiting : file'[p] = "whole" /\ p \notin index'.files
    PROVE  HeadInv'
  BY DEF HeadInv, Waiting, Once, CommitsAreComplete, PatchesOf

LEMMA PatchInvInit == Init => TypeOK /\ PatchInv
  <1> SUFFICES ASSUME Init PROVE TypeOK /\ PatchInv
    OBVIOUS
  <1>1. /\ << >> \in Seq(Entries) /\ << >> \in Seq(Upstream)
        /\ head \in Snapshots /\ index \in Snapshots /\ head.list = << >> /\ index.list = << >>
    <2>1. << >> \in Seq(Entries) /\ << >> \in Seq(Upstream) /\ {} \in SUBSET Patches
      OBVIOUS
    <2> QED
      BY <2>1, SnapshotFacts DEF Init
  <1>2. 1 \in 1 .. LastRevision /\ NoStart \in 1 .. NoStart /\ 0 \in 0 .. MaxRuns /\ 0 \in 0 .. MaxStops /\ 0 \in 0 .. MaxEdits
    BY ConstantsAssumption DEF NoStart
  <1>3. TypeOK
    BY <1>1, <1>2 DEF Init, TypeOK, Steps
  <1>4. Once(<< >>) /\ PatchesOf(<< >>) = {} /\ DOMAIN << >> = {}
    BY DEF Once, PatchesOf
  <1>5. HeadInv
    BY <1>1, <1>4 DEF HeadInv, Waiting, CommitsAreComplete
  <1>6. PickInv /\ ListInv /\ TrimInv
    BY <1>4 DEF Init, PickInv, ListInv, TrimInv, Picking, Sound
  <1> QED
    BY <1>3, <1>5, <1>6 DEF PatchInv

-----------------------------------------------------------------------------
(* cherrypick_cl.py *)

LEMMA CountFacts ==
    ASSUME TypeOK
    PROVE  /\ runs < MaxRuns => runs + 1 \in 0 .. MaxRuns
           /\ stops < MaxStops => stops + 1 \in 0 .. MaxStops
           /\ edits < MaxEdits => edits + 1 \in 0 .. MaxEdits
  BY ConstantsAssumption DEF TypeOK

LEMMA StartPickStep ==
    ASSUME TypeOK, PatchInv, StartPick
    PROVE  TypeOK' /\ PatchInv'
  <1> USE DEF PatchInv
  <1>1. /\ pc = "idle" /\ pc' = "pick" /\ ~cut /\ loaded' = list
        /\ runs' \in 0 .. MaxRuns /\ createCL' \in BOOLEAN
        /\ UNCHANGED << list, cut, file, index, head, svn, added, loose, stops, edits >>
        /\ start' \in {NoStart} \cup parse_start_version
    BY CountFacts DEF StartPick, tree, git
  <1>2. todo' \in Seq(Upstream)
    <2>1. PICK n \in 0 .. 2 : todo' \in [1 .. n -> Upstream]
      BY DEF StartPick
    <2> QED
      BY <2>1, IsASeq
  <1>3. TypeOK'
    <2>1. start' \in 1 .. NoStart
      BY <1>1, ConstantsAssumption DEF TypeOK, parse_start_version, NoStart
    <2> QED
      BY <1>1, <1>2, <2>1 DEF TypeOK, Steps
  <1>4. PickInv'
    BY <1>1 DEF PickInv, Picking, ListInv, Sound, Once, PatchesOf
  <1>5. ListInv' /\ TrimInv'
    BY <1>1 DEF ListInv, TrimInv, Sound, Once, PatchesOf
  <1>6. HeadInv'
    BY <1>1, HeadFrame DEF HeadInv
  <1> QED
    BY <1>3, <1>4, <1>5, <1>6

\* What a step that quits, or only goes on to the next one, leaves of the invariant.
LEMMA QuietFacts ==
    ASSUME TypeOK, PatchInv, UNCHANGED << list, cut, file, index, head >>, loose \subseteq loose',
           pc' = "idle", added' = {},
           pc \in {"verify", "add"} => added \subseteq loose', pc = "save" => pc' = "idle"
    PROVE  PatchInv'
  <1> USE DEF PatchInv
  <1>1. PickInv' /\ TrimInv'
    BY DEF PickInv, TrimInv, Picking
  <1>2. ListInv'
    BY DEF ListInv, Sound, Once, PatchesOf
  <1>3. HeadInv'
    BY HeadFrame DEF HeadInv
  <1> QED
    BY <1>1, <1>2, <1>3

LEMMA OpenPatchStep ==
    ASSUME TypeOK, PatchInv, OpenPatch
    PROVE  TypeOK' /\ PatchInv'
  <1> USE DEF PatchInv
  <1> DEFINE p == Head(todo)
  <1>1. /\ pc = "pick" /\ todo # << >>
        /\ UNCHANGED << list, cut, index, head, svn, loose, runs, stops, edits >>
    BY DEF OpenPatch, git, bounds
  <1>2. p \in Patches
    BY <1>1, TypeFacts, HeadTailProperties DEF Patches
  <1>3. CASE file[p] # "none"
    <2>1. Quit /\ UNCHANGED file
      BY <1>3 DEF OpenPatch
    <2>2. << >> \in Seq(Upstream) /\ << >> \in Seq(Entries) /\ NoStart \in 1 .. NoStart
      BY ConstantsAssumption DEF NoStart
    <2>3. TypeOK'
      BY <1>1, <2>1, <2>2 DEF Quit, TypeOK, Steps
    <2> QED
      BY <1>1, <2>1, <2>3, QuietFacts DEF Quit
  <1>4. CASE file[p] = "none"
    <2>1. /\ file' = [file EXCEPT ![p] = "partial"] /\ pc' = "format"
          /\ UNCHANGED << createCL, start, todo, loaded, added >>
      BY <1>4 DEF OpenPatch
    <2> HIDE DEF p
    <2>2. TypeOK'
      BY <1>1, <1>2, <2>1 DEF TypeOK, Steps
    <2>3. file'[p] = "partial" /\ \A q \in Patches \ {p} : file'[q] = file[q]
      BY <1>2, <2>1 DEF TypeOK
    <2>4. ASSUME NEW s \in Seq(Entries), Sound(s)
          PROVE  \A i \in DOMAIN s : file'[s[i].patch] = "whole"
      <3>1. \A i \in DOMAIN s : s[i].patch \in Patches
        BY TypeFacts DEF PatchesOf
      <3> QED
        BY <1>4, <2>3, <2>4, <3>1 DEF Sound
    <2>5. PickInv'
      <3>1. Sound(loaded) /\ PatchesOf(loaded) \subseteq index.files \cup loose \cup added
            /\ added \cap Waiting = {}
        BY <1>1 DEF PickInv, Picking
      <3>2. Sound(loaded)'
        BY <2>1, <2>4, <3>1, TypeFacts DEF Sound, Once
      <3>3. PatchesOf(loaded)' \subseteq (index.files \cup loose \cup added)'
        BY <1>1, <2>1, <3>1 DEF PatchesOf
      <3>4. todo' # << >> /\ file'[Head(todo')] = "partial"
        BY <1>1, <2>1, <2>3 DEF p
      <3>5. (added \cap Waiting = {})'
        BY <1>1, <2>1, <3>1 DEF Waiting, PatchesOf
      <3> QED
        BY <2>1, <3>2, <3>3, <3>4, <3>5 DEF PickInv, Picking
    <2>6. ListInv'
      BY <1>1, <2>1, <2>4, TypeFacts DEF ListInv, Sound, Once, PatchesOf
    <2>7. TrimInv'
      BY <2>1 DEF TrimInv
    <2>8. HeadInv'
      <3>1. \A q \in Waiting : q \in Patches
        BY TypeFacts DEF Waiting
      <3> QED
        BY <1>1, <1>4, <2>3, <3>1, HeadFrame DEF HeadInv
    <2> QED
      BY <2>2, <2>5, <2>6, <2>7, <2>8
  <1> QED
    BY <1>3, <1>4

LEMMA FormatPatchStep ==
    ASSUME TypeOK, PatchInv, FormatPatch
    PROVE  TypeOK' /\ PatchInv'
  <1> USE DEF PatchInv
  <1> DEFINE p == Head(todo)
             e == [patch |-> p, from |-> start, until |-> UntilOf[p]]
  <1>1. /\ pc = "format" /\ pc' = "pick" /\ todo # << >> /\ file[p] = "partial" /\ ~cut
        /\ file' = [file EXCEPT ![p] = "whole"]
        /\ loaded' = Append(loaded, e) /\ added' = added \cup {p} /\ todo' = Tail(todo)
        /\ UNCHANGED << list, cut, index, head, svn, createCL, start, loose, runs, stops, edits >>
    BY DEF FormatPatch, git, bounds, PickInv, ListInv
  <1>2. p \in Upstream /\ p \in Patches /\ todo' \in Seq(Upstream)
    BY <1>1, TypeFacts, HeadTailProperties DEF Patches
  <1>3. e \in Entries /\ e.patch = p
    BY <1>2, ConstantsAssumption DEF Entries, TypeOK, NoEnd
  <1> HIDE DEF p, e
  <1>4. Sound(loaded) /\ p \notin PatchesOf(loaded)
    BY <1>1 DEF PickInv, Picking, Sound, PatchesOf
  <1>5. /\ loaded' \in Seq(Entries) /\ PatchesOf(loaded') = PatchesOf(loaded) \cup {p}
        /\ Once(loaded')
        /\ With(loaded', loaded, e)
    BY <1>1, <1>3, <1>4, TypeFacts, AppendFacts DEF Sound
  <1>6. file'[p] = "whole" /\ \A q \in Patches \ {p} : file'[q] = file[q]
    BY <1>1, <1>2 DEF TypeOK
  <1>7. TypeOK'
    BY <1>1, <1>2, <1>5 DEF TypeOK, Steps
  <1>8. \A q \in Patches : file[q] = "whole" => file'[q] = "whole"
    BY <1>6
  <1>9. ASSUME NEW s \in Seq(Entries), Sound(s)
        PROVE  \A i \in DOMAIN s : file'[s[i].patch] = "whole"
    <2>1. \A i \in DOMAIN s : s[i].patch \in Patches
      BY TypeFacts DEF PatchesOf
    <2> QED
      BY <1>8, <1>9, <2>1 DEF Sound
  <1>10. PickInv'
    <2>1. Sound(loaded)'
      <3>1. \A i \in DOMAIN loaded : file'[loaded[i].patch] = "whole"
        BY <1>4, <1>9, TypeFacts
      <3>2. \A n \in DOMAIN loaded' : file'[loaded'[n].patch] = "whole"
        BY <1>3, <1>5, <1>6, <3>1 DEF With
      <3> QED
        BY <1>5, <3>2 DEF Sound, Once
    <2>2. PatchesOf(loaded)' \subseteq (index.files \cup loose \cup added)'
      BY <1>1, <1>5 DEF PickInv, Picking, PatchesOf
    <2>3. p \notin Waiting
      BY <1>1 DEF HeadInv
    <2> QED
      BY <1>1, <2>1, <2>2, <2>3 DEF PickInv, Picking, Waiting, PatchesOf
  <1>11. ListInv'
    BY <1>1, <1>9, TypeFacts DEF ListInv, Sound, Once, PatchesOf
  <1>12. TrimInv'
    BY <1>1 DEF TrimInv
  <1>13. HeadInv'
    <2>1. \A q \in Waiting : q \in Patches
      BY TypeFacts DEF Waiting
    <2> QED
      BY <1>1, <1>8, <2>1, HeadFrame DEF HeadInv
  <1> QED
    BY <1>7, <1>10, <1>11, <1>12, <1>13

LEMMA QuitFacts ==
    ASSUME TypeOK, Quit
    PROVE  /\ pc' = "idle" /\ pc' \in Steps /\ createCL' \in BOOLEAN /\ added' = {}
           /\ start' \in 1 .. NoStart /\ todo' \in Seq(Upstream) /\ loaded' \in Seq(Entries)
  <1>1. << >> \in Seq(Upstream) /\ << >> \in Seq(Entries) /\ NoStart \in 1 .. NoStart
    BY ConstantsAssumption DEF NoStart
  <1> QED
    BY <1>1 DEF Quit, Steps

LEMMA OpenListStep ==
    ASSUME TypeOK, PatchInv, OpenList
    PROVE  TypeOK' /\ PatchInv'
  <1> USE DEF PatchInv
  <1>1. /\ pc = "pick" /\ UNCHANGED << list, file, index, head, svn, loose, runs, stops, edits >>
    BY DEF OpenList, git, bounds
  <1>2. CASE Quit /\ UNCHANGED cut
    <2>1. TypeOK'
      BY <1>1, <1>2, QuitFacts DEF TypeOK
    <2> QED
      BY <1>1, <1>2, <2>1, QuitFacts, QuietFacts
  <1>3. CASE cut' = TRUE /\ pc' = "save" /\ UNCHANGED << createCL, start, todo, loaded, added >>
    <2>1. TypeOK'
      BY <1>1, <1>3 DEF TypeOK, Steps
    <2>2. PickInv'
      BY <1>1, <1>3 DEF PickInv, Picking, Sound, Once, PatchesOf, Waiting
    <2>3. ListInv' /\ TrimInv'
      BY <1>1, <1>3 DEF ListInv, TrimInv
    <2>4. HeadInv'
      BY <1>1, <1>3, HeadFrame DEF HeadInv
    <2> QED
      BY <2>1, <2>2, <2>3, <2>4
  <1> QED
    BY <1>2, <1>3 DEF OpenList

\* The sorted list has the patches of the list in memory.
LEMMA SaveListStep ==
    ASSUME TypeOK, PatchInv, SaveList
    PROVE  TypeOK' /\ PatchInv'
  <1> USE DEF PatchInv
  <1>1. /\ pc = "save" /\ pc' = "verify" /\ ~cut' /\ cut' \in BOOLEAN /\ list' = Sorted(loaded)
        /\ UNCHANGED << file, index, head, svn, createCL, start, todo, loaded, added, loose,
                        runs, stops, edits >>
    BY DEF SaveList, git, bounds
  <1>2. /\ list' \in Seq(Entries) /\ PatchesOf(list') = PatchesOf(loaded)
        /\ Once(loaded) => Once(list')
        /\ PartOf(list', loaded, DOMAIN loaded)
    BY <1>1, TypeFacts, SortedFacts
  <1>3. TypeOK'
    BY <1>1, <1>2 DEF TypeOK, Steps
  <1>4. PickInv' /\ TrimInv'
    BY <1>1 DEF PickInv, TrimInv, Picking, Waiting, PatchesOf
  <1>5. ListInv'
    <2>1. Sound(loaded) /\ PatchesOf(loaded) \subseteq index.files \cup loose \cup added
      BY <1>1 DEF PickInv, Picking
    <2>2. Once(list') /\ \A i \in DOMAIN list' : file'[list'[i].patch] = "whole"
      BY <1>1, <1>2, <2>1 DEF Sound, PartOf
    <2>3. Sound(list)'
      BY <2>2 DEF Sound, Once
    <2>4. PatchesOf(list)' \subseteq index'.files \cup loose' \cup added'
      BY <1>1, <1>2, <2>1 DEF PatchesOf
    <2> QED
      BY <1>1, <2>3, <2>4 DEF ListInv
  <1>6. HeadInv'
    BY <1>1, HeadFrame DEF HeadInv
  <1> QED
    BY <1>3, <1>4, <1>5, <1>6

LEMMA VerifyStep ==
    ASSUME TypeOK, PatchInv, Verify
    PROVE  TypeOK' /\ PatchInv'
  <1> USE DEF PatchInv
  <1>1. /\ pc = "verify"
        /\ UNCHANGED << list, cut, file, index, head, svn, runs, stops, edits >>
    BY DEF Verify, tree, git, bounds
  <1>2. CASE Quit /\ loose' = loose \cup added
    <2>1. TypeOK'
      BY <1>1, <1>2, QuitFacts DEF TypeOK
    <2> QED
      BY <1>1, <1>2, <2>1, QuitFacts, QuietFacts
  <1>3. CASE pc' = "add" /\ UNCHANGED << createCL, start, todo, loaded, added, loose >>
    <2>1. TypeOK'
      BY <1>1, <1>3 DEF TypeOK, Steps
    <2>2. PickInv' /\ TrimInv'
      BY <1>1, <1>3 DEF PickInv, TrimInv, Picking, Waiting, PatchesOf
    <2>3. ListInv'
      BY <1>1, <1>3 DEF ListInv, Sound, Once, PatchesOf
    <2>4. HeadInv'
      BY <1>1, <1>3, HeadFrame DEF HeadInv
    <2> QED
      BY <2>1, <2>2, <2>3, <2>4
  <1> QED
    BY <1>2, <1>3 DEF Verify

LEMMA AddFilesStep ==
    ASSUME TypeOK, PatchInv, AddFiles
    PROVE  TypeOK' /\ PatchInv'
  <1> USE DEF PatchInv
  <1>1. /\ pc = "add" /\ pc' = "commit" /\ ~cut
        /\ index' = [list |-> list, files |-> index.files \cup added]
        /\ UNCHANGED << list, cut, file, head, svn, createCL, start, todo, loaded, added, loose,
                        runs, stops, edits >>
    BY DEF AddFiles, tree, bounds, ListInv
  <1>2. index' \in Snapshots /\ index'.list = list /\ index'.files = index.files \cup added
    <2>1. list \in Seq(Entries) /\ index.files \cup added \in SUBSET Patches
      BY TypeFacts DEF TypeOK
    <2> QED
      BY <1>1, <2>1, SnapshotFacts
  <1>3. TypeOK'
    BY <1>1, <1>2 DEF TypeOK, Steps
  <1>4. PickInv' /\ TrimInv'
    BY <1>1, <1>2 DEF PickInv, TrimInv, Picking
  <1>5. ListInv'
    BY <1>1, <1>2 DEF ListInv, Sound, Once, PatchesOf
  <1>6. HeadInv'
    <2>1. added \cap Waiting = {}
      BY <1>1 DEF PickInv
    <2> QED
      BY <1>1, <1>2, <2>1, HeadFrame DEF HeadInv
  <1> QED
    BY <1>3, <1>4, <1>5, <1>6

\* HeadInv, when the list in the working tree is committed with what is staged.
LEMMA HeadCommits ==
    ASSUME Sound(list)', head'.list = list', index'.files = head'.files,
           PatchesOf(list)' \subseteq head'.files \cup loose'
    PROVE  HeadInv'
  <1>1. Once(head.list)'
    BY DEF Sound, Once
  <1>2. PatchesOf(head.list)' = PatchesOf(list)'
    BY DEF PatchesOf
  <1>3. CommitsAreComplete'
    BY <1>2 DEF CommitsAreComplete
  <1>4. ASSUME NEW p \in Waiting' PROVE file'[p] = "whole" /\ p \notin index'.files
    BY <1>2 DEF Waiting, Sound, PatchesOf
  <1> QED
    BY <1>1, <1>3, <1>4 DEF HeadInv

LEMMA CommitStep ==
    ASSUME TypeOK, PatchInv, Commit
    PROVE  TypeOK' /\ PatchInv'
  <1> USE DEF PatchInv
  <1>1. /\ pc = "commit" /\ ~cut /\ head' = index /\ Quit /\ index.list = list
        /\ UNCHANGED << list, cut, file, index, svn, loose, runs, stops, edits >>
    BY DEF Commit, tree, bounds, ListInv, TrimInv
  <1>2. TypeOK'
    BY <1>1, QuitFacts DEF TypeOK
  <1>3. PickInv' /\ TrimInv'
    BY <1>1, QuitFacts DEF PickInv, TrimInv, Picking
  <1>4. ListInv'
    BY <1>1, QuitFacts DEF ListInv, Sound, Once, PatchesOf
  <1>5. Sound(list)' /\ PatchesOf(list)' \subseteq index.files \cup loose
    BY <1>1 DEF ListInv, Sound, Once, PatchesOf
  <1>6. HeadInv'
    BY <1>1, <1>5, HeadCommits
  <1> QED
    BY <1>2, <1>3, <1>4, <1>6

-----------------------------------------------------------------------------
(* trim_patch_data.py *)

LEMMA TrimListStep ==
    ASSUME TypeOK, PatchInv, TrimList
    PROVE  TypeOK' /\ PatchInv'
  <1> USE DEF PatchInv
  <1>1. /\ pc = "idle" /\ ~cut /\ runs' \in 0 .. MaxRuns
        /\ UNCHANGED << cut, file, index, head, svn, loose, stops, edits >>
    BY CountFacts DEF TrimList, git
  <1>2. CASE Quit /\ UNCHANGED list
    <2>1. TypeOK'
      BY <1>1, <1>2, QuitFacts DEF TypeOK
    <2> QED
      BY <1>1, <1>2, <2>1, QuitFacts, QuietFacts
  <1>3. CASE /\ list' = Trimmed /\ added' = Expired /\ pc' = "stage"
             /\ UNCHANGED << createCL, start, todo, loaded >>
    <2>1. Sound(list) /\ PatchesOf(list) \subseteq index.files \cup loose
      BY <1>1 DEF ListInv
    <2>2. /\ list' \in Seq(Entries) /\ Once(list') /\ PatchesOf(list') \subseteq PatchesOf(list)
          /\ PatchesOf(list') \cap Expired = {}
      BY <1>3, <2>1, TrimmedFacts DEF Sound
    <2>3. Expired \subseteq Patches
      BY DEF Expired
    <2>4. TypeOK'
      BY <1>1, <1>3, <2>2, <2>3 DEF TypeOK, Steps
    <2>5. PatchesOf(list') = PatchesOf(list)'
      BY DEF PatchesOf
    <2>6. PickInv' /\ TrimInv'
      BY <1>3, <2>2, <2>5 DEF PickInv, TrimInv, Picking
    <2>7. Sound(list)'
      <3>1. \A q \in PatchesOf(list) : file[q] = "whole"
        BY <2>1 DEF Sound, PatchesOf
      <3>2. \A i \in DOMAIN list' : list'[i].patch \in PatchesOf(list')
        BY DEF PatchesOf
      <3> QED
        BY <1>1, <2>2, <3>1, <3>2 DEF Sound, Once
    <2>8. ListInv'
      BY <1>1, <1>3, <2>1, <2>2, <2>5, <2>7 DEF ListInv
    <2>9. HeadInv'
      BY <1>1, HeadFrame DEF HeadInv
    <2> QED
      BY <2>4, <2>6, <2>8, <2>9
  <1> QED
    BY <1>2, <1>3 DEF TrimList

LEMMA StageListStep ==
    ASSUME TypeOK, PatchInv, StageList
    PROVE  TypeOK' /\ PatchInv'
  <1> USE DEF PatchInv
  <1>1. /\ pc = "stage" /\ ~cut
        /\ UNCHANGED << list, cut, file, head, svn, loose, runs, stops, edits >>
    BY DEF StageList, tree, bounds, ListInv
  <1>2. CASE Quit /\ UNCHANGED index
    <2>1. TypeOK'
      BY <1>1, <1>2, QuitFacts DEF TypeOK
    <2> QED
      BY <1>1, <1>2, <2>1, QuitFacts, QuietFacts
  <1>3. CASE /\ index' = [index EXCEPT !.list = list] /\ pc' = "remove"
             /\ UNCHANGED << createCL, start, todo, loaded, added >>
    <2>1. index' = [list |-> list, files |-> index.files]
      BY <1>3, TypeFacts
    <2>2. index' \in Snapshots /\ index'.list = list /\ index'.files = index.files
      <3>1. list \in Seq(Entries) /\ index.files \in SUBSET Patches
        BY TypeFacts
      <3> QED
        BY <2>1, <3>1, SnapshotFacts
    <2>3. TypeOK'
      BY <1>1, <1>3, <2>2 DEF TypeOK, Steps
    <2>4. PickInv' /\ TrimInv'
      BY <1>1, <1>3, <2>2 DEF PickInv, TrimInv, Picking, PatchesOf
    <2>5. ListInv'
      BY <1>1, <1>3, <2>2 DEF ListInv, Sound, Once, PatchesOf
    <2>6. HeadInv'
      BY <1>1, <2>2, HeadFrame DEF HeadInv
    <2> QED
      BY <2>3, <2>4, <2>5, <2>6
  <1> QED
    BY <1>2, <1>3 DEF StageList

\* A file is removed that no list that can be read names, and that the last commit has.
LEMMA RemovePatchStep ==
    ASSUME TypeOK, PatchInv, RemovePatch
    PROVE  TypeOK' /\ PatchInv'
  <1> USE DEF PatchInv
  <1>1. /\ pc = "remove" /\ ~cut
        /\ UNCHANGED << list, cut, head, svn, loose, runs, stops, edits >>
    BY DEF RemovePatch, bounds, ListInv
  <1>2. CASE Quit /\ UNCHANGED << file, index >>
    <2>1. TypeOK'
      BY <1>1, <1>2, QuitFacts DEF TypeOK
    <2> QED
      BY <1>1, <1>2, <2>1, QuitFacts, QuietFacts
  <1>3. ASSUME NEW p \in added, p \in index.files \cap head.files,
               file' = [file EXCEPT ![p] = "none"],
               index' = [index EXCEPT !.files = @ \ {p}],
               added' = added \ {p}, UNCHANGED << pc, createCL, start, todo, loaded >>
        PROVE  TypeOK' /\ PatchInv'
    <2>1. index' = [list |-> index.list, files |-> index.files \ {p}]
      BY <1>3, TypeFacts
    <2>2. index' \in Snapshots /\ index'.list = index.list /\ index'.files = index.files \ {p}
      <3>1. index.list \in Seq(Entries) /\ index.files \ {p} \in SUBSET Patches
        BY TypeFacts
      <3> DEFINE r == [list |-> index.list, files |-> index.files \ {p}]
      <3>2. r \in Snapshots
        BY <3>1 DEF Snapshots
      <3> QED
        BY <2>1, <3>2
    <2>3. file' \in [Patches -> {"none", "partial", "whole"}] /\ \A q \in Patches \ {p} : file'[q] = file[q]
      BY <1>3 DEF TypeOK
    <2>4. TypeOK'
      BY <1>1, <1>3, <2>2, <2>3 DEF TypeOK
    <2>5. p \notin PatchesOf(list)
      BY <1>1 DEF TrimInv
    <2>6. PickInv' /\ TrimInv'
      BY <1>1, <1>3, <2>2 DEF PickInv, TrimInv, Picking, PatchesOf
    <2>7. Sound(list)' /\ PatchesOf(list)' \subseteq (index.files \cup loose)'
      <3>1. Sound(list) /\ PatchesOf(list) \subseteq index.files \cup loose
        BY <1>1 DEF ListInv
      <3>2. \A i \in DOMAIN list : list[i].patch \in Patches \ {p}
        BY <2>5, TypeFacts DEF PatchesOf
      <3>3. PatchesOf(list)' = PatchesOf(list)
        BY <1>1 DEF PatchesOf
      <3> QED
        BY <1>1, <2>2, <2>3, <2>5, <3>1, <3>2, <3>3 DEF Sound, Once
    <2>8. ListInv'
      BY <1>1, <1>3, <2>7 DEF ListInv
    <2>9. HeadInv'
      <3>1. \A q \in Waiting : q \in Patches \ {p}
        BY <1>3, TypeFacts DEF Waiting
      <3> QED
        BY <1>1, <2>2, <2>3, <3>1, HeadFrame DEF HeadInv
    <2> QED
      BY <2>4, <2>6, <2>8, <2>9
  <1> QED
    BY <1>2, <1>3 DEF RemovePatch

LEMMA TrimDoneStep ==
    ASSUME TypeOK, PatchInv, TrimDone
    PROVE  TypeOK' /\ PatchInv'
  <1> USE DEF PatchInv
  <1>1. /\ pc = "remove" /\ pc' = "commit"
        /\ UNCHANGED << list, cut, file, index, head, svn, createCL, start, todo, loaded, added, loose,
                        runs, stops, edits >>
    BY DEF TrimDone, tree, git, bounds
  <1>2. TypeOK'
    BY <1>1 DEF TypeOK, Steps
  <1>3. PickInv' /\ TrimInv'
    BY <1>1 DEF PickInv, TrimInv, Picking
  <1>4. ListInv'
    BY <1>1 DEF ListInv, Sound, Once, PatchesOf
  <1>5. HeadInv'
    BY <1>1, HeadFrame DEF HeadInv
  <1> QED
    BY <1>2, <1>3, <1>4, <1>5

-----------------------------------------------------------------------------
(* The world around. *)

LEMMA StopStep ==
    ASSUME TypeOK, PatchInv, Stop
    PROVE  TypeOK' /\ PatchInv'
  <1>1. /\ pc # "idle" /\ Quit /\ stops' \in 0 .. MaxStops
        /\ loose' = IF pc \in {"verify", "add", "commit"} THEN loose \cup added ELSE loose
        /\ UNCHANGED << list, cut, file, index, head, svn, runs, edits >>
    BY CountFacts DEF Stop, tree, git
  <1>2. TypeOK'
    BY <1>1, QuitFacts DEF TypeOK
  <1> QED
    BY <1>1, <1>2, QuitFacts, QuietFacts

LEMMA AddByHandStep ==
    ASSUME TypeOK, PatchInv, AddByHand
    PROVE  TypeOK' /\ PatchInv'
  <1> USE DEF PatchInv
  <1>1. PICK p \in Patches, from \in Starts \cup {svn, NoStart}, until \in {svn + 1, NoEnd} :
            /\ file[p] = "none" /\ file' = [file EXCEPT ![p] = "whole"]
            /\ list' = Append(list, [patch |-> p, from |-> from, until |-> until])
            /\ index' = [list |-> list', files |-> index.files \cup {p}]
            /\ head' = index'
    BY DEF AddByHand
  <1>2. /\ pc = "idle" /\ ~cut /\ edits' \in 0 .. MaxEdits
        /\ UNCHANGED << cut, svn, pc, createCL, start, todo, loaded, added, loose, runs, stops >>
    BY CountFacts DEF AddByHand
  <1> DEFINE e == [patch |-> p, from |-> from, until |-> until]
  <1>3. e \in Entries /\ e.patch = p
    <2>1. from \in 1 .. NoStart /\ until \in 1 .. NoEnd
      BY ConstantsAssumption DEF TypeOK, NoEnd, NoStart
    <2> QED
      BY <2>1 DEF Entries
  <1>4. list' = Append(list, e)
    BY <1>1
  <1> HIDE DEF e
  <1>5. Sound(list) /\ PatchesOf(list) \subseteq index.files \cup loose /\ p \notin PatchesOf(list)
    BY <1>1, <1>2 DEF ListInv, Sound, PatchesOf
  <1>6. /\ list' \in Seq(Entries) /\ PatchesOf(list') = PatchesOf(list) \cup {p} /\ Once(list')
        /\ With(list', list, e)
    BY <1>3, <1>4, <1>5, TypeFacts, AppendFacts DEF Sound
  <1>7. index' \in Snapshots /\ index'.list = list' /\ index'.files = index.files \cup {p}
    <2>1. index.files \cup {p} \in SUBSET Patches
      BY TypeFacts
    <2> DEFINE r == [list |-> list', files |-> index.files \cup {p}]
    <2>2. r \in Snapshots
      BY <1>6, <2>1 DEF Snapshots
    <2> QED
      BY <1>1, <2>2
  <1>8. file'[p] = "whole" /\ \A q \in Patches \ {p} : file'[q] = file[q]
    BY <1>1 DEF TypeOK
  <1>9. TypeOK'
    BY <1>1, <1>2, <1>6, <1>7 DEF TypeOK
  <1>10. Sound(list)'
    <2>1. \A i \in DOMAIN list : list[i].patch \in Patches \ {p} /\ file[list[i].patch] = "whole"
      BY <1>5, TypeFacts DEF Sound, PatchesOf
    <2>2. \A n \in DOMAIN list' : file'[list'[n].patch] = "whole"
      BY <1>3, <1>6, <1>8, <2>1 DEF With
    <2> QED
      BY <1>6, <2>2 DEF Sound, Once
  <1>11. PatchesOf(list)' \subseteq index'.files \cup loose'
    <2>1. PatchesOf(list)' = PatchesOf(list')
      BY DEF PatchesOf
    <2> QED
      BY <1>2, <1>5, <1>6, <1>7, <2>1
  <1>12. PickInv' /\ TrimInv'
    BY <1>2 DEF PickInv, TrimInv, Picking
  <1>13. ListInv'
    BY <1>2, <1>10, <1>11 DEF ListInv
  <1>14. HeadInv'
    BY <1>1, <1>7, <1>10, <1>11, HeadCommits
  <1> QED
    BY <1>9, <1>12, <1>13, <1>14

\* The last commit is a list that can be gone back to.
LEMMA ResetStep ==
    ASSUME TypeOK, PatchInv, Reset
    PROVE  TypeOK' /\ PatchInv'
  <1> USE DEF PatchInv
  <1>1. /\ pc = "idle" /\ edits' \in 0 .. MaxEdits
        /\ list' = head.list /\ cut' = FALSE /\ index' = head
        /\ file' = [p \in Patches |->
                       IF p \in head.files THEN "whole"
                       ELSE IF p \in index.files THEN "none" ELSE file[p]]
        /\ UNCHANGED << head, svn, pc, createCL, start, todo, loaded, added, loose, runs, stops >>
    BY CountFacts DEF Reset
  <1>2. TypeOK'
    BY <1>1, TypeFacts DEF TypeOK
  <1>3. \A p \in PatchesOf(head.list) : file'[p] = "whole"
    <2>1. \A p \in PatchesOf(head.list) : p \in Patches
      BY TypeFacts
    <2> QED
      BY <1>1, <2>1 DEF HeadInv, Waiting
  <1>4. Sound(list)' /\ PatchesOf(list)' = PatchesOf(head.list)
    BY <1>1, <1>3 DEF Sound, PatchesOf, HeadInv, Once
  <1>5. PatchesOf(list)' \subseteq head'.files \cup loose'
    BY <1>1, <1>4 DEF HeadInv, CommitsAreComplete
  <1>6. PickInv' /\ TrimInv'
    BY <1>1 DEF PickInv, TrimInv, Picking
  <1>7. ListInv'
    BY <1>1, <1>4, <1>5 DEF ListInv
  <1>8. HeadInv'
    BY <1>1, <1>4, <1>5, HeadCommits
  <1> QED
    BY <1>2, <1>6, <1>7, <1>8

LEMMA RollStep ==
    ASSUME TypeOK, PatchInv, Roll
    PROVE  TypeOK' /\ PatchInv'
  <1>1. /\ pc = "idle" /\ svn' \in 1 .. LastRevision
        /\ UNCHANGED << list, cut, file, index, head, pc, createCL, start, todo, loaded, added, loose,
                        runs, stops, edits >>
    BY ConstantsAssumption DEF Roll, TypeOK, tree, git, bounds
  <1>2. TypeOK'
    BY <1>1 DEF TypeOK
  <1>3. added' = {}
    BY <1>1 DEF PatchInv, PickInv
  <1> QED
    BY <1>1, <1>2, <1>3, QuietFacts

-----------------------------------------------------------------------------
LEMMA PatchInvStep ==
    ASSUME TypeOK, PatchInv, [Next]_vars
    PROVE  TypeOK' /\ PatchInv'
  <1>1. CASE UNCHANGED vars
    BY <1>1 DEF vars, TypeOK, PatchInv, PickInv, ListInv, TrimInv, HeadInv, Sound, Once,
        PatchesOf, Waiting, CommitsAreComplete
  <1> QED
    BY <1>1, StartPickStep, OpenPatchStep, FormatPatchStep, OpenListStep, SaveListStep, VerifyStep,
       AddFilesStep, CommitStep, TrimListStep, StageListStep, RemovePatchStep, TrimDoneStep,
       StopStep, AddByHandStep, ResetStep, RollStep DEF Next

LEMMA PatchInvHolds == Spec => [](TypeOK /\ PatchInv)
  BY PatchInvInit, PatchInvStep, PTL DEF Spec

-----------------------------------------------------------------------------
(* The results. *)

\* The list, the files, git and the programs keep their types, whatever is stopped.
THEOREM TypeTheorem == Spec => []TypeOK
  BY PatchInvHolds, PTL

\* A list that can be read names whole patch files only, each once, after any sequence of
\* runs, stops, edits by hand and resets.
THEOREM ListedTheorem == Spec => []ListedPatchesExist
  <1>1. TypeOK /\ PatchInv => ListedPatchesExist
    BY DEF PatchInv, ListInv, Sound, Once, ListedPatchesExist
  <1> QED
    BY <1>1, PatchInvHolds, PTL

\* What others check out lacks the file of a patch only if an earlier run listed it and
\* ended before the commit.
THEOREM CommitsTheorem == Spec => []CommitsAreComplete
  <1>1. TypeOK /\ PatchInv => CommitsAreComplete
    BY DEF PatchInv, HeadInv
  <1> QED
    BY <1>1, PatchInvHolds, PTL

\* Where an entry without repetition is.
LEMMA AtFacts ==
    ASSUME NEW s \in Seq(Entries), Once(s), NEW i \in DOMAIN s
    PROVE  At(s, s[i]) = i
  <1>1. \A j \in DOMAIN s : s[j] = s[i] => j = i
    BY DEF Once
  <1>2. At(s, s[i]) \in DOMAIN s /\ s[At(s, s[i])] = s[i]
    BY DEF At
  <1> QED
    BY <1>1, <1>2

\* The order that the keys give.
LEMMA OrderFacts ==
    ASSUME NEW a \in Entries, NEW b \in Entries,
           \/ sort_key(a) < sort_key(b)
           \/ sort_key(a) = sort_key(b) /\ At(loaded, a) < At(loaded, b)
    PROVE  Ordered(a, b)
  <1>1. /\ LastRevision \in Nat \ {0} /\ NoEnd = LastRevision + 1 /\ NoStart = LastRevision + 1
        /\ a.until \in 1 .. NoEnd /\ b.until \in 1 .. NoEnd
        /\ a.from \in 1 .. NoStart /\ b.from \in 1 .. NoStart
    BY ConstantsAssumption DEF Entries, NoEnd, NoStart
  <1>2. /\ a.patch \in Local \/ a.patch \in Upstream
        /\ b.patch \in Local \/ b.patch \in Upstream
        /\ a.patch \in Upstream => a.patch \notin Local
        /\ b.patch \in Upstream => b.patch \notin Local
    BY ConstantsAssumption DEF Entries, Patches
  <1> DEFINE place(e) == IF e.until = NoEnd THEN LastRevision + e.from ELSE e.until
  <1>3. /\ sort_key(a) = IF a.patch \in Local THEN 2 * NoEnd ELSE place(a)
        /\ sort_key(b) = IF b.patch \in Local THEN 2 * NoEnd ELSE place(b)
    BY DEF sort_key, is_local_patch
  <1>4. place(a) \in Nat /\ place(b) \in Nat /\ place(a) < 2 * NoEnd /\ place(b) < 2 * NoEnd
    BY <1>1
  <1>5. place(a) < place(b) =>
            a.until < b.until \/ (a.until = b.until /\ a.until = NoEnd /\ a.from < b.from)
    BY <1>1
  <1>6. place(a) = place(b) =>
            a.until = b.until /\ (a.until = NoEnd => a.from = b.from)
    BY <1>1
  <1> HIDE DEF place
  <1>7. 2 * NoEnd \in Nat
    BY <1>1
  <1> QED
    BY <1>2, <1>3, <1>4, <1>5, <1>6, <1>7 DEF Ordered

\* What is written is what was loaded and added: local patches last and in the order they had,
\* upstream patches in the order of their end, and of one end in the order they had; those
\* without an end by their start, and of one start in the order they had.
THEOREM SortedTheorem == Spec => SortedAsDocumented
  <1> DEFINE Documented ==
         SaveList =>
             /\ {list'[i] : i \in DOMAIN list'} = {loaded[i] : i \in DOMAIN loaded}
             /\ Len(list') = Len(loaded)
             /\ \A i, j \in DOMAIN list' : i < j => Ordered(list'[i], list'[j])
  <1>1. TypeOK /\ PatchInv => Documented
    <2> SUFFICES ASSUME TypeOK, PatchInv, SaveList PROVE Documented
      OBVIOUS
    <2> DEFINE key == [i \in DOMAIN loaded |-> sort_key(loaded[i])]
               I == DOMAIN loaded
    <2>1. loaded \in Seq(Entries) /\ Once(loaded)
      BY TypeFacts DEF PatchInv, PickInv, Picking, Sound, SaveList
    <2>2. list' = Arranged(loaded, I, key)
      BY DEF SaveList, Sorted
    <2>3. \A i \in I : key[i] \in Nat /\ loaded[i] \in Entries
      BY <2>1, KeyFacts
    <2>4. I \in SUBSET (DOMAIN loaded)
      OBVIOUS
    <2> HIDE DEF key, I
    <2>5. list' \in Seq(Entries) /\ Len(list') = Cardinality(I) /\ \E from : Arranges(from, list', loaded, I, key)
      BY <2>1, <2>2, <2>3, <2>4, ArrangedFacts
    <2>6. PICK from : Arranges(from, list', loaded, I, key)
      BY <2>5
    <2>7. Len(list') = Len(loaded)
      <3>1. DOMAIN loaded = 1 .. Len(loaded) /\ Len(loaded) \in Nat
        BY <2>1
      <3>2. ASSUME NEW n \in Nat PROVE Cardinality(1 .. n) = n
        BY FS_Interval
      <3> QED
        BY <2>5, <3>1, <3>2 DEF I
    <2>8. {list'[i] : i \in DOMAIN list'} = {loaded[i] : i \in DOMAIN loaded}
      BY <2>6 DEF Arranges, I
    <2>9. ASSUME NEW i \in DOMAIN list', NEW j \in DOMAIN list', i < j
          PROVE  Ordered(list'[i], list'[j])
      <3>1. /\ from[i] \in I /\ from[j] \in I /\ Before(key, from[i], from[j])
            /\ list'[i] = loaded[from[i]] /\ list'[j] = loaded[from[j]]
        BY <2>6, <2>9 DEF Arranges
      <3>2. /\ At(loaded, list'[i]) = from[i] /\ At(loaded, list'[j]) = from[j]
        BY <2>1, <3>1, AtFacts DEF I
      <3>3. /\ key[from[i]] = sort_key(list'[i]) /\ key[from[j]] = sort_key(list'[j])
            /\ list'[i] \in Entries /\ list'[j] \in Entries
        BY <2>3, <3>1 DEF key, I
      <3>4. \/ sort_key(list'[i]) < sort_key(list'[j])
            \/ /\ sort_key(list'[i]) = sort_key(list'[j])
               /\ At(loaded, list'[i]) < At(loaded, list'[j])
        BY <3>1, <3>2, <3>3 DEF Before
      <3> QED
        BY <3>3, <3>4, OrderFacts
    <2> QED
      BY <2>7, <2>8, <2>9
  <1>2. TypeOK /\ PatchInv /\ [Next]_vars => [Documented]_vars
    BY <1>1
  <1> QED
    BY <1>2, PatchInvHolds, PTL DEF Spec, SortedAsDocumented

=============================================================================
