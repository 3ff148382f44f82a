------------------------- MODULE BisectDriverProofs -------------------------
(***************************************************************************)
(* Proofs about BisectDriver, for any objects, side effects and bounds: what *)
(* the caches promise, and that wrappers, caches and links implement         *)
(* BisectSession.                                                            *)
(***************************************************************************)
EXTENDS BisectDriver, TLAPS

-----------------------------------------------------------------------------
(* The inductive invariant, object by object. *)

\* A compiler always writes the object, and nothing that the command line does not name.
WrittenOf(o) == "o" \in written[o] /\ written[o] \subseteq {"o"} \cup Sides[o]

\* What a populated cache holds of an object, and what the triage may leave of that.
Overwritten(c, o, f) == stage = "triage" /\ o \in Linked /\ cache[c][o][f] \in {"partial", "new"}
Full(c, o) ==
    /\ o \in list[c] /\ cache[c][o]["o"] = c
    /\ \A f \in InPlace(o) : cache[c][o][f] = c \/ Overwritten(c, o, f)

\* A cache has nothing of late objects and of files that no compiler writes; what a
\* populating build was to keep is there when the next stage begins.
CacheOf(o) ==
    /\ \A c \in Compilers, f \in Files : o \in Late \/ f \notin written[o] => cache[c][o][f] = "none"
    /\ \A c \in Compilers : o \in list[c] => o \in Objects /\ cache[c][o]["o"] # "none"
    /\ stage = "good" => o \notin list["bad"]
    /\ o \in Objects /\ stage # "good" => Full("good", o)
    /\ o \in Objects /\ stage = "triage" => Full("bad", o)

\* The build tree while a cache is populated: output of this stage's compiler, no links.
PlainTree(o) ==
    \A f \in Files :
        /\ tree[o][f].link = "no"
        /\ tree[o][f].by \in {"none", stage} \/ (f # "o" /\ tree[o][f].by = "partial")
        /\ f \notin written[o] => tree[o][f].by = "none"

\* How far a populating wrapper has got.
Kept(o, f) == f \in written[o] => cache[stage][o][f] = stage
KeptAndListed(o) == o \in list[stage] /\ Kept(o, "o")
Populating(o) ==
    /\ o \in Late => pc[o] = "waiting"
    /\ pc[o] \in {"waiting", "compile", "compiling", "cache", "copying", "list", "done"}
    /\ pc[o] \in {"cache", "copying", "list"} => \A f \in written[o] : tree[o][f].by = stage
    /\ pc[o] = "copying" => file[o] \in written[o]
    /\ pc[o] = "list" => file[o] = "o" /\ Kept(o, "o")
    /\ pc[o] \in {"cache", "copying"} =>
           /\ file[o] # "o" => KeptAndListed(o)
           /\ file[o] = "dwo" => Kept(o, "d")
    /\ pc[o] = "done" /\ Exists(o, "o") => KeptAndListed(o) /\ \A f \in Files : Kept(o, f)

\* In the triage only objects of the caches are restored; and the object in the tree is
\* the chosen one, except between the compilation and the restoration of the safe mode,
\* and except where it is copied.
ChosenObject(o) == tree[o]["o"].by \in {"none", Chosen(o)} \/ (o \notin Linked /\ tree[o]["o"].by = "partial")
Triaging(o) ==
    /\ pc[o] \in { "waiting", "lookup", "compile", "compiling", "remove", "restore", "link",
                   "fetching", "done", "raised" }
    /\ pc[o] \in {"remove", "restore", "link", "fetching"} => o \in Objects
    /\ pc[o] \in {"link", "fetching"} => file[o] \in written[o]
    /\ o \in Late \/ o \notin Linked => \A f \in Files : tree[o][f].link = "no"
    /\ pc[o] = "raised" => IF o \in Late THEN ~continue ELSE file[o] \notin written[o]
    /\ o \in Objects =>
           /\ pc[o] \in {"compile", "compiling"} => safe
           /\ tree[o]["o"].by = "new" \/ ChosenObject(o)
           /\ ~safe \/ pc[o] \in {"restore", "link", "fetching", "done"} => ChosenObject(o)

ObjectInv(o) ==
    /\ WrittenOf(o) /\ CacheOf(o)
    /\ stage \in Compilers => PlainTree(o) /\ Populating(o)
    /\ stage = "triage" => Triaging(o)

IndInv == TypeOK /\ \A o \in All : ObjectInv(o)

-----------------------------------------------------------------------------
(* The initial states. *)

LEMMA IndInit == Init => IndInv
  <1> SUFFICES ASSUME Init PROVE IndInv
    OBVIOUS
  <1>1. TypeOK
    <2>1. cache \in Caches
      BY DEF Init, Caches, CacheFiles
    <2>2. tree \in Trees
      BY DEF Init, NoFile, Trees, TreeFiles
    <2>3. 0 \in 0 .. MaxFaults /\ 0 \in 0 .. MaxRounds
      BY ConstantsAssumption
    <2>4. pc \in [All -> Steps] /\ file \in [All -> Files] /\ list \in [Compilers -> SUBSET All]
      BY DEF Init, Steps, Files
    <2>5. stage \in Compilers \cup {"triage"} /\ safe \in BOOLEAN /\ badSet \subseteq All
      BY DEF Init, Compilers
    <2> QED
      BY <2>1, <2>2, <2>3, <2>4, <2>5 DEF Init, TypeOK
  <1>2. ASSUME NEW o \in All PROVE ObjectInv(o)
    <2>1. WrittenOf(o)
      BY ConstantsAssumption DEF Init, WrittenOf
    <2>2. CacheOf(o)
      BY DEF Init, CacheOf, Compilers, Files
    <2>3. PlainTree(o)
      BY DEF Init, PlainTree, NoFile
    <2>4. Populating(o) /\ stage # "triage"
      BY DEF Init, Populating, NoFile, Exists
    <2> QED
      BY <2>1, <2>2, <2>3, <2>4 DEF ObjectInv
  <1> QED
    BY <1>1, <1>2 DEF IndInv

-----------------------------------------------------------------------------
(* What the helpers change. *)

LEMMA GotoFacts ==
    ASSUME TypeOK, NEW o \in All, NEW step \in Steps, NEW f \in Files, Goto(o, step, f)
    PROVE  /\ pc' \in [All -> Steps] /\ file' \in [All -> Files]
           /\ pc'[o] = step /\ file'[o] = f
           /\ \A p \in All \ {o} : pc'[p] = pc[p] /\ file'[p] = file[p]
  BY DEF TypeOK, Goto

LEMMA PutFacts ==
    ASSUME TypeOK, NEW o \in All, NEW f \in Files, NEW what \in TreeFiles, Put(o, f, what)
    PROVE  /\ tree' \in Trees /\ tree'[o][f] = what
           /\ \A p \in All \ {o} : tree'[p] = tree[p]
           /\ \A g \in Files \ {f} : tree'[o][g] = tree[o][g]
  <1>1. tree' = [tree EXCEPT ![o] = [tree[o] EXCEPT ![f] = what]]
    BY DEF Put
  <1>2. tree \in [All -> [Files -> TreeFiles]]
    BY DEF TypeOK, Trees
  <1>3. [tree[o] EXCEPT ![f] = what] \in [Files -> TreeFiles]
    BY <1>2
  <1>4. tree'[o] = [tree[o] EXCEPT ![f] = what] /\ tree' \in [All -> [Files -> TreeFiles]]
    BY <1>1, <1>2, <1>3
  <1> QED
    BY <1>1, <1>2, <1>4 DEF Trees

Store(c, o, f, v) == cache' = [cache EXCEPT ![c][o][f] = v]

LEMMA StoreFacts ==
    ASSUME TypeOK, NEW c \in Compilers, NEW o \in All, NEW f \in Files, NEW v \in CacheFiles,
           Store(c, o, f, v)
    PROVE  /\ cache' \in Caches /\ cache'[c][o][f] = v
           /\ \A d \in Compilers, p \in All, g \in Files :
                 d # c \/ p # o \/ g # f => cache'[d][p][g] = cache[d][p][g]
  <1>1. cache \in [Compilers -> [All -> [Files -> CacheFiles]]]
    BY DEF TypeOK, Caches
  <1>2. cache' = [cache EXCEPT ![c] = [cache[c] EXCEPT ![o] = [cache[c][o] EXCEPT ![f] = v]]]
    BY DEF Store
  <1>3. [cache[c][o] EXCEPT ![f] = v] \in [Files -> CacheFiles]
    BY <1>1
  <1>4. [cache[c] EXCEPT ![o] = [cache[c][o] EXCEPT ![f] = v]] \in [All -> [Files -> CacheFiles]]
    BY <1>1, <1>3
  <1>5. cache' \in [Compilers -> [All -> [Files -> CacheFiles]]]
    BY <1>1, <1>2, <1>4
  <1>6. /\ \A d \in Compilers \ {c} : cache'[d] = cache[d]
        /\ cache'[c] = [cache[c] EXCEPT ![o] = [cache[c][o] EXCEPT ![f] = v]]
    BY <1>1, <1>2
  <1>7. /\ \A p \in All \ {o} : cache'[c][p] = cache[c][p]
        /\ cache'[c][o] = [cache[c][o] EXCEPT ![f] = v]
    BY <1>1, <1>6
  <1>8. cache'[c][o][f] = v /\ \A g \in Files \ {f} : cache'[c][o][g] = cache[c][o][g]
    BY <1>1, <1>7
  <1> QED
    BY <1>5, <1>6, <1>7, <1>8 DEF Caches

\* What a compilation does to each file, and to each cache.
LEMMA WriteFacts ==
    ASSUME TypeOK, NEW o \in All, NEW by \in CacheFiles \ {"none"}, NEW object \in TreeFiles,
           "o" \in written[o], Write(o, by, object)
    PROVE  /\ tree' \in Trees /\ cache' \in Caches
           /\ \A p \in All \ {o} : tree'[p] = tree[p]
           /\ tree'[o]["o"] = object
           /\ \A f \in Files \ {"o"} :
                 /\ f \notin written[o] => tree'[o][f] = tree[o][f]
                 /\ f \in written[o] => tree'[o][f].by = by
                 /\ tree'[o][f].link = tree[o][f].link
           /\ \A c \in Compilers, p \in All, f \in Files :
                 p # o \/ f \notin InPlace(o) \/ tree[o][f].link # c =>
                     cache'[c][p][f] = cache[c][p][f]
           /\ \A c \in Compilers, f \in Files :
                 f \in InPlace(o) /\ tree[o][f].link = c => cache'[c][o][f] = by
  <1>1. /\ \A p \in All \ {o} : tree'[p] = tree[p]
        /\ tree'[o] = [f \in Files |->
               IF f = "o" THEN object
               ELSE IF f \in InPlace(o) THEN [tree[o][f] EXCEPT !.by = by] ELSE tree[o][f]]
        /\ tree' = [p \in All |-> tree'[p]]
    BY DEF TypeOK, Trees, Write
  <1>0. "o" \in Files
    BY DEF Files
  <1>2. ASSUME NEW f \in Files \ {"o"}
        PROVE  /\ f \notin written[o] => tree'[o][f] = tree[o][f]
               /\ f \in written[o] => tree'[o][f].by = by
               /\ tree'[o][f].link = tree[o][f].link
               /\ tree'[o][f] \in TreeFiles
    <2>0. tree[o][f] \in TreeFiles
      BY DEF TypeOK, Trees
    <2>1. CASE f \notin written[o]
      BY <2>0, <2>1, <1>1 DEF InPlace
    <2>2. CASE f \in written[o]
      <3>1. tree'[o][f] = [tree[o][f] EXCEPT !.by = by]
        BY <2>2, <1>1 DEF InPlace
      <3>2. CASE tree[o][f] = NoFile
        BY <3>1, <3>2, <2>2 DEF TreeFiles, NoFile
      <3>3. CASE tree[o][f] # NoFile
        <4>1. tree[o][f] \in [by : CacheFiles \ {"none"}, link : {"no"} \cup Compilers]
          BY <2>0, <3>3 DEF TreeFiles
        <4> QED
          BY <3>1, <4>1, <2>2 DEF TreeFiles
      <3> QED
        BY <3>2, <3>3
    <2> QED
      BY <2>1, <2>2
  <1>3. tree' \in Trees /\ tree'[o]["o"] = object
    <2>1. tree'[o]["o"] = object
      BY <1>0, <1>1
    <2>2. tree'[o] \in [Files -> TreeFiles]
      BY <1>1, <1>2, <2>1
    <2> QED
      BY <2>1, <2>2, <1>1 DEF TypeOK, Trees
  <1>4. ASSUME NEW c \in Compilers
        PROVE  /\ \A p \in All, f \in Files :
                     p # o \/ f \notin InPlace(o) \/ tree[o][f].link # c =>
                         cache'[c][p][f] = cache[c][p][f]
               /\ \A f \in Files :
                     f \in InPlace(o) /\ tree[o][f].link = c => cache'[c][o][f] = by
               /\ cache'[c] \in [All -> [Files -> CacheFiles]]
    <2>1. cache[c] \in [All -> [Files -> CacheFiles]]
      BY DEF TypeOK, Caches
    <2> DEFINE new == [f \in Files |-> IF f \in InPlace(o) /\ tree[o][f].link = c
                                       THEN by ELSE cache[c][o][f]]
    <2>2. cache'[c] = [cache[c] EXCEPT ![o] = new]
      BY <2>1 DEF Write
    <2>3. new \in [Files -> CacheFiles]
      BY <2>1
    <2>4. /\ \A p \in All \ {o} : cache'[c][p] = cache[c][p]
          /\ cache'[c][o] = new
      BY <2>1, <2>2
    <2>5. cache'[c] \in [All -> [Files -> CacheFiles]]
      BY <2>1, <2>2, <2>3
    <2> QED
      BY <2>4, <2>5
  <1>5. cache' \in Caches
    <2>1. cache' = [c \in Compilers |-> cache'[c]]
      BY DEF Write
    <2> QED
      BY <2>1, <1>4 DEF Caches
  <1> QED
    BY <1>1, <1>2, <1>3, <1>4, <1>5

\* A step of one wrapper changes nothing of another object.
Untouched(p) ==
    /\ pc'[p] = pc[p] /\ file'[p] = file[p] /\ tree'[p] = tree[p]
    /\ \A c \in Compilers :
          /\ p \in list'[c] <=> p \in list[c]
          /\ \A f \in Files : cache'[c][p][f] = cache[c][p][f]
SameSession ==
    /\ stage' = stage /\ written' = written /\ safe' = safe
    /\ continue' = continue /\ badSet' = badSet
Alone(o) == SameSession /\ \A p \in All \ {o} : Untouched(p)

LEMMA UntouchedKeeps ==
    ASSUME TypeOK, NEW p \in All, ObjectInv(p), SameSession, Untouched(p)
    PROVE  ObjectInv(p)'
  <1> USE DEF SameSession, Untouched
  <1>0. written[p] \subseteq Files /\ "o" \in Files /\ "d" \in Files
    BY DEF TypeOK, Files
  <1>1. WrittenOf(p)'
    BY DEF ObjectInv, WrittenOf
  <1>2. CacheOf(p)'
    <2>1. \A c \in Compilers : Full(c, p) => Full(c, p)'
      BY <1>0 DEF Full, Overwritten, InPlace
    <2> QED
      BY <2>1, <1>0 DEF ObjectInv, CacheOf, Compilers
  <1>3. PlainTree(p) => PlainTree(p)'
    BY DEF PlainTree
  <1>4. stage \in Compilers /\ Populating(p) => Populating(p)'
    <2>1. stage \in Compilers => \A f \in Files : Kept(p, f)' <=> Kept(p, f)
      BY DEF Kept
    <2>2. stage \in Compilers => (KeptAndListed(p)' <=> KeptAndListed(p))
      BY <2>1, <1>0 DEF KeptAndListed
    <2>3. Exists(p, "o")' <=> Exists(p, "o")
      BY DEF Exists
    <2> QED
      BY <2>1, <2>2, <2>3, <1>0 DEF Populating
  <1>5. Triaging(p) => Triaging(p)'
    BY DEF Triaging, ChosenObject, Chosen
  <1> QED
    BY <1>1, <1>2, <1>3, <1>4, <1>5 DEF ObjectInv

LEMMA AloneKeeps ==
    ASSUME IndInv, NEW o \in All, Alone(o), TypeOK', ObjectInv(o)'
    PROVE  IndInv'
  BY UntouchedKeeps DEF IndInv, Alone

-----------------------------------------------------------------------------
(* The steps of a wrapper. *)

\* Facts about its object that the steps use again and again.
LEMMA OfObject ==
    ASSUME IndInv, NEW o \in All
    PROVE  /\ TypeOK /\ ObjectInv(o) /\ written[o] \subseteq Files
           /\ "o" \in Files /\ "d" \in Files /\ "dwo" \in Files
           /\ o \in Objects \/ o \in Late
           /\ ~(o \in Objects /\ o \in Late)
           /\ stage \in Compilers \/ stage = "triage"
           /\ "triage" \notin Compilers
           /\ file[o] \in Files /\ pc[o] \in Steps
           /\ \A f \in Files : tree[o][f] \in TreeFiles
           /\ \A c \in Compilers, f \in Files : cache[c][o][f] \in CacheFiles
  BY ConstantsAssumption DEF IndInv, TypeOK, Files, All, Compilers, Trees, Caches

LEMMA LaunchStep ==
    ASSUME IndInv, NEW o \in All, Launch(o)
    PROVE  TypeOK' /\ Alone(o) /\ ObjectInv(o)'
  <1> USE OfObject DEF Launch, session
  <1>1. TypeOK' /\ Alone(o)
    BY DEF TypeOK, Alone, SameSession, Untouched, Steps
  <1>2. pc'[o] = IF stage = "triage" THEN "lookup" ELSE "compile"
    BY DEF TypeOK
  <1>3. WrittenOf(o)' /\ CacheOf(o)' /\ (PlainTree(o) => PlainTree(o)')
    BY DEF ObjectInv, WrittenOf, CacheOf, Full, Overwritten, InPlace, PlainTree
  <1>4. stage \in Compilers => Populating(o)'
    BY <1>2 DEF ObjectInv, Populating, Compilers
  <1>5. stage = "triage" => Triaging(o)'
    BY <1>2 DEF ObjectInv, Triaging, ChosenObject, Chosen
  <1> QED
    BY <1>1, <1>3, <1>4, <1>5 DEF ObjectInv

\* What a compilation means for the caches: in the triage, side effects are overwritten.
LEMMA WriteKeeps ==
    ASSUME IndInv, NEW o \in All, NEW by \in CacheFiles \ {"none"}, NEW object \in TreeFiles,
           Write(o, by, object), SameSession, list' = list,
           stage = "triage" => by \in {"partial", "new"}
    PROVE  CacheOf(o)' /\ WrittenOf(o)'
  <1> USE OfObject DEF SameSession
  <1>0. "o" \in written[o] /\ InPlace(o) \subseteq Files
    BY DEF ObjectInv, WrittenOf, InPlace
  <1>1. WrittenOf(o)'
    BY DEF ObjectInv, WrittenOf
  <1>2. /\ \A c \in Compilers, f \in Files :
              f \notin InPlace(o) \/ tree[o][f].link # c => cache'[c][o][f] = cache[c][o][f]
        /\ \A c \in Compilers, f \in Files :
              f \in InPlace(o) /\ tree[o][f].link = c => cache'[c][o][f] = by
    BY <1>0, WriteFacts
  <1>3. CASE stage \in Compilers \/ o \in Late \/ o \notin Linked
    <2>1. \A c \in Compilers, f \in Files : tree[o][f].link # c
      BY <1>3 DEF ObjectInv, PlainTree, Triaging, Compilers
    <2>2. \A c \in Compilers, f \in Files : cache'[c][o][f] = cache[c][o][f]
      BY <1>2, <2>1
    <2>3. \A c \in Compilers : Full(c, o) => Full(c, o)'
      BY <2>2, <1>0 DEF Full, Overwritten, InPlace
    <2> QED
      BY <1>1, <2>2, <2>3 DEF ObjectInv, CacheOf, Compilers
  <1>4. CASE stage = "triage" /\ o \in Objects /\ o \in Linked
    <2>1. \A c \in Compilers, f \in Files : f \notin written[o] => cache'[c][o][f] = "none"
      BY <1>2 DEF ObjectInv, CacheOf, InPlace
    <2>2. \A c \in Compilers : cache'[c][o]["o"] = cache[c][o]["o"]
      BY <1>2 DEF InPlace
    <2>3. ASSUME NEW c \in Compilers, Full(c, o) PROVE Full(c, o)'
      <3>1. \A f \in InPlace(o) : cache'[c][o][f] = c \/ cache'[c][o][f] \in {"partial", "new"}
        BY <1>0, <1>2, <1>4, <2>3 DEF Full, Overwritten
      <3> QED
        BY <1>4, <2>2, <2>3, <3>1 DEF Full, Overwritten, InPlace
    <2> QED
      BY <1>1, <1>4, <2>1, <2>2, <2>3 DEF ObjectInv, CacheOf, Compilers
  <1> QED
    BY <1>3, <1>4

LEMMA BeginCompileStep ==
    ASSUME IndInv, NEW o \in All, BeginCompile(o)
    PROVE  TypeOK' /\ Alone(o) /\ ObjectInv(o)'
  <1> USE OfObject
  <1>1. SameSession /\ list' = list /\ pc[o] = "compile" /\ UNCHANGED session
    BY DEF BeginCompile, session, SameSession
  <1>2. /\ "partial" \in CacheFiles \ {"none"} /\ tree[o]["o"] \in TreeFiles
        /\ Write(o, "partial", tree[o]["o"]) /\ "o" \in written[o]
    BY DEF BeginCompile, CacheFiles, ObjectInv, WrittenOf
  <1>3. /\ tree' \in Trees /\ cache' \in Caches
        /\ \A p \in All \ {o} : tree'[p] = tree[p]
        /\ tree'[o]["o"] = tree[o]["o"]
        /\ \A f \in Files \ {"o"} :
              /\ f \notin written[o] => tree'[o][f] = tree[o][f]
              /\ f \in written[o] => tree'[o][f].by = "partial"
              /\ tree'[o][f].link = tree[o][f].link
        /\ \A c \in Compilers, p \in All, f \in Files :
              p # o => cache'[c][p][f] = cache[c][p][f]
    BY <1>2, WriteFacts
  <1>4. CacheOf(o)' /\ WrittenOf(o)'
    BY <1>1, <1>2, WriteKeeps
  <1>5. /\ pc' \in [All -> Steps] /\ file' \in [All -> Files]
        /\ pc'[o] = "compiling" /\ file'[o] = "o"
        /\ \A p \in All \ {o} : pc'[p] = pc[p] /\ file'[p] = file[p]
    BY GotoFacts DEF BeginCompile, Steps
  <1>6. TypeOK' /\ Alone(o)
    BY <1>1, <1>3, <1>5 DEF TypeOK, session, Alone, Untouched
  <1>7. stage \in Compilers => PlainTree(o)'
    BY <1>1, <1>3 DEF ObjectInv, PlainTree, SameSession
  <1>8. stage \in Compilers => Populating(o)'
    BY <1>1, <1>5 DEF ObjectInv, Populating
  <1>9. stage = "triage" => Triaging(o)'
    BY <1>1, <1>3, <1>5 DEF ObjectInv, Triaging, ChosenObject, Chosen, SameSession
  <1> QED
    BY <1>1, <1>4, <1>6, <1>7, <1>8, <1>9 DEF ObjectInv, SameSession

LEMMA EndCompileStep ==
    ASSUME IndInv, NEW o \in All, EndCompile(o)
    PROVE  TypeOK' /\ Alone(o) /\ ObjectInv(o)'
  <1> DEFINE by == IF stage = "triage" THEN "new" ELSE stage
             made == [by |-> by, link |-> "no"]
  <1> USE OfObject
  <1>1. SameSession /\ list' = list /\ pc[o] = "compiling" /\ UNCHANGED session
    BY DEF EndCompile, session, SameSession
  <1>2. /\ (stage = "triage" => by = "new") /\ (stage \in Compilers => by = stage)
        /\ by \in CacheFiles \ {"none"} /\ made \in TreeFiles /\ Write(o, by, made)
        /\ made.by = by /\ made.link = "no" /\ "o" \in written[o]
    BY DEF EndCompile, Output, CacheFiles, TreeFiles, Compilers, ObjectInv, WrittenOf
  <1> HIDE DEF made, by
  <1>3. /\ tree' \in Trees /\ cache' \in Caches
        /\ \A p \in All \ {o} : tree'[p] = tree[p]
        /\ tree'[o]["o"] = made
        /\ \A f \in Files \ {"o"} :
              /\ f \notin written[o] => tree'[o][f] = tree[o][f]
              /\ f \in written[o] => tree'[o][f].by = by
              /\ tree'[o][f].link = tree[o][f].link
        /\ \A c \in Compilers, p \in All, f \in Files :
              p # o => cache'[c][p][f] = cache[c][p][f]
    BY <1>2, WriteFacts
  <1>4. CacheOf(o)' /\ WrittenOf(o)'
    BY <1>1, <1>2, WriteKeeps
  <1>5. /\ pc' \in [All -> Steps] /\ file' \in [All -> Files] /\ file'[o] = "o"
        /\ \A p \in All \ {o} : pc'[p] = pc[p] /\ file'[p] = file[p]
        /\ pc'[o] = IF stage # "triage" THEN "cache"
                    ELSE IF o \in list["good"] THEN "remove" ELSE "done"
    BY GotoFacts DEF EndCompile, Steps
  <1>6. TypeOK' /\ Alone(o)
    BY <1>1, <1>3, <1>5 DEF TypeOK, session, Alone, Untouched
  <1>7. \A f \in written[o] : tree'[o][f].by = by
    BY <1>2, <1>3
  <1>8. CASE stage \in Compilers
    <2>1. PlainTree(o)'
      BY <1>1, <1>2, <1>3, <1>8 DEF ObjectInv, PlainTree, SameSession
    <2>2. Populating(o)'
      BY <1>1, <1>2, <1>5, <1>7, <1>8 DEF ObjectInv, Populating, SameSession
    <2> QED
      BY <1>1, <1>4, <1>6, <1>8, <2>1, <2>2 DEF ObjectInv, SameSession
  <1>9. CASE stage = "triage"
    <2>1. o \in list["good"] <=> o \in Objects
      BY <1>9 DEF ObjectInv, CacheOf, Full, Compilers
    <2>2. o \in Late \/ o \notin Linked => \A f \in Files : tree'[o][f].link = "no"
      BY <1>2, <1>3, <1>9 DEF ObjectInv, Triaging
    <2>3. tree'[o]["o"].by = "new"
      BY <1>2, <1>3, <1>9
    <2>4. Triaging(o)'
      BY <2>1, <2>2, <2>3, <1>1, <1>5, <1>9 DEF ObjectInv, Triaging, SameSession
    <2> QED
      BY <1>1, <1>4, <1>6, <1>9, <2>4 DEF ObjectInv, SameSession
  <1> QED
    BY <1>8, <1>9

LEMMA CompileFailsStep ==
    ASSUME IndInv, NEW o \in All, CompileFails(o)
    PROVE  TypeOK' /\ Alone(o) /\ ObjectInv(o)'
  <1> USE OfObject
  <1>0. PICK gone \in SUBSET InPlace(o) :
            tree' = [tree EXCEPT ![o] = [f \in Files |->
                         IF f \in gone \cup {"o"} THEN NoFile ELSE tree[o][f]]]
    BY DEF CompileFails, Fail
  <1>1. /\ tree' \in Trees /\ tree'[o]["o"] = NoFile
        /\ \A p \in All \ {o} : tree'[p] = tree[p]
        /\ \A g \in Files : tree'[o][g] \in {NoFile, tree[o][g]}
    <2>1. tree'[o] = [f \in Files |-> IF f \in gone \cup {"o"} THEN NoFile ELSE tree[o][f]]
      BY <1>0 DEF TypeOK, Trees
    <2>2. tree'[o] \in [Files -> TreeFiles]
      BY <2>1 DEF TreeFiles
    <2>3. tree' \in Trees /\ \A p \in All \ {o} : tree'[p] = tree[p]
      BY <1>0, <2>1, <2>2 DEF TypeOK, Trees
    <2> QED
      BY <2>1, <2>3
  <1>2. /\ pc' \in [All -> Steps] /\ file' \in [All -> Files]
        /\ pc'[o] = "done" /\ file'[o] = "o"
        /\ \A p \in All \ {o} : pc'[p] = pc[p] /\ file'[p] = file[p]
    BY GotoFacts DEF CompileFails, Steps
  <1>3. SameSession /\ cache' = cache /\ list' = list /\ pc[o] \in {"compile", "compiling"}
    BY DEF CompileFails, Fail, SameSession
  <1>4. faults' \in 0 .. MaxFaults
    BY ConstantsAssumption DEF TypeOK, CompileFails, Fail
  <1>5. TypeOK' /\ Alone(o)
    BY <1>1, <1>2, <1>3, <1>4 DEF TypeOK, CompileFails, Fail, Alone, Untouched, SameSession
  <1>6. WrittenOf(o)' /\ CacheOf(o)'
    BY <1>3 DEF ObjectInv, WrittenOf, CacheOf, Full, Overwritten, InPlace, SameSession
  <1>7. stage \in Compilers => PlainTree(o)'
    BY <1>1, <1>3 DEF ObjectInv, PlainTree, SameSession, NoFile
  <1>8. stage \in Compilers => Populating(o)'
    BY <1>1, <1>2, <1>3 DEF ObjectInv, Populating, Exists, NoFile
  <1>9. stage = "triage" => Triaging(o)'
    BY <1>1, <1>2, <1>3 DEF ObjectInv, Triaging, ChosenObject, NoFile, SameSession
  <1> QED
    BY <1>3, <1>5, <1>6, <1>7, <1>8, <1>9 DEF ObjectInv, SameSession

\* Where bisect_populate's loop goes.
LEMMA CacheNextFacts ==
    ASSUME IndInv, NEW o \in All, CacheNext(o)
    PROVE  /\ pc' \in [All -> Steps] /\ file' \in [All -> Files]
           /\ \A p \in All \ {o} : pc'[p] = pc[p] /\ file'[p] = file[p]
           /\ \/ /\ pc'[o] = "done"
                 /\ file[o] = "o" => written[o] \subseteq {"o"}
                 /\ file[o] = "d" => written[o] \subseteq {"o", "d"}
              \/ /\ pc'[o] = "cache" /\ file'[o] = "d" /\ file[o] = "o"
              \/ /\ pc'[o] = "cache" /\ file'[o] = "dwo"
                 /\ file[o] = "d" \/ (file[o] = "o" /\ "d" \notin written[o])
  <1> USE OfObject
  <1>1. Sides[o] \subseteq {"d", "dwo"} /\ written[o] \subseteq {"o"} \cup Sides[o]
    BY ConstantsAssumption DEF ObjectInv, WrittenOf, Files
  <1> DEFINE rest == SidesAfter(o, file[o])
  <1>2. CASE rest = {}
    <2>1. Goto(o, "done", "o")
      BY <1>2 DEF CacheNext
    <2>2. /\ pc' \in [All -> Steps] /\ file' \in [All -> Files] /\ pc'[o] = "done"
          /\ \A p \in All \ {o} : pc'[p] = pc[p] /\ file'[p] = file[p]
      BY <2>1, GotoFacts DEF Steps
    <2> QED
      BY <1>1, <1>2, <2>2 DEF SidesAfter
  <1>3. CASE rest # {}
    <2>1. Goto(o, "cache", First(rest)) /\ First(rest) \in Files
      BY <1>3 DEF CacheNext, First, Files
    <2>2. /\ pc' \in [All -> Steps] /\ file' \in [All -> Files]
          /\ pc'[o] = "cache" /\ file'[o] = First(rest)
          /\ \A p \in All \ {o} : pc'[p] = pc[p] /\ file'[p] = file[p]
      BY <2>1, GotoFacts DEF Steps
    <2>3. \/ file'[o] = "d" /\ file[o] = "o"
          \/ file'[o] = "dwo" /\ (file[o] = "d" \/ (file[o] = "o" /\ "d" \notin written[o]))
      BY <1>1, <1>3, <2>2 DEF SidesAfter, First, Files
    <2> QED
      BY <2>2, <2>3
  <1> QED
    BY <1>2, <1>3

\* When everything up to the file it was at is kept, the loop goes on as it should.
LEMMA CacheNextKeeps ==
    ASSUME IndInv, NEW o \in All, CacheNext(o), SameSession, tree' = tree,
           stage \in Compilers, o \in Objects,
           \A f \in written[o] : tree[o][f].by = stage,
           KeptAndListed(o)',
           file[o] # "o" => Kept(o, "d")',
           file[o] = "dwo" => Kept(o, "dwo")'
    PROVE  Populating(o)'
  <1> USE OfObject, CacheNextFacts DEF SameSession
  <1>1. o \notin Late
    OBVIOUS
  <1>2. CASE pc'[o] = "done"
    <2>1. \A f \in Files : Kept(o, f)'
      BY <1>2 DEF Kept, KeptAndListed, Files
    <2> QED
      BY <1>1, <1>2, <2>1 DEF Populating
  <1>3. CASE pc'[o] = "cache" /\ file'[o] = "d"
    BY <1>1, <1>3 DEF Populating
  <1>4. CASE pc'[o] = "cache" /\ file'[o] = "dwo"
    <2>1. Kept(o, "d")'
      BY <1>4 DEF Kept
    <2> QED
      BY <1>1, <1>4, <2>1 DEF Populating
  <1> QED
    BY <1>2, <1>3, <1>4

\* A wrapper that caches something is a populating one.
LEMMA Caching ==
    ASSUME IndInv, NEW o \in All, pc[o] \in {"cache", "copying", "list"}
    PROVE  /\ stage \in Compilers /\ stage # "triage" /\ o \in Objects /\ o \notin Late
           /\ PlainTree(o) /\ Populating(o)
  BY OfObject DEF ObjectInv, Triaging, Populating

\* What caching one file means for the cache as a whole.
LEMMA StoreKeeps ==
    ASSUME IndInv, NEW o \in All, NEW f \in Files, NEW v \in {"partial", stage},
           stage \in Compilers, o \in Objects, f \in written[o], SameSession, list' = list,
           Store(stage, o, f, v)
    PROVE  /\ cache' \in Caches /\ CacheOf(o)' /\ cache'[stage][o][f] = v
           /\ \A c \in Compilers, p \in All, g \in Files :
                 c # stage \/ p # o \/ g # f => cache'[c][p][g] = cache[c][p][g]
  <1> USE OfObject DEF SameSession
  <1>1. v \in CacheFiles
    BY DEF CacheFiles, Compilers
  <1>2. /\ cache' \in Caches /\ cache'[stage][o][f] = v
        /\ \A c \in Compilers, p \in All, g \in Files :
              c # stage \/ p # o \/ g # f => cache'[c][p][g] = cache[c][p][g]
    BY <1>1, StoreFacts
  <1>3. v # "none"
    BY DEF Compilers
  <1>4. \A c \in Compilers, g \in Files : o \in Late \/ g \notin written[o] => cache'[c][o][g] = "none"
    BY <1>2 DEF ObjectInv, CacheOf
  <1>5. \A c \in Compilers : o \in list[c] => cache'[c][o]["o"] # "none"
    BY <1>2, <1>3 DEF ObjectInv, CacheOf
  <1>6. stage # "good" => Full("good", o)'
    BY <1>2 DEF ObjectInv, CacheOf, Full, Overwritten, InPlace, Compilers
  <1>7. stage = "good" => o \notin list["bad"]
    BY DEF ObjectInv, CacheOf
  <1> QED
    BY <1>2, <1>4, <1>5, <1>6, <1>7 DEF CacheOf, Compilers

LEMMA BeginCopyStep ==
    ASSUME IndInv, NEW o \in All, BeginCopy(o)
    PROVE  TypeOK' /\ Alone(o) /\ ObjectInv(o)'
  <1> USE OfObject, Caching DEF BeginCopy
  <1>1. SameSession /\ list' = list /\ tree' = tree
    BY DEF SameSession, session
  <1>2. file[o] \in written[o]
    BY DEF PlainTree, Exists
  <1>3. /\ cache' \in Caches /\ CacheOf(o)'
        /\ \A c \in Compilers, p \in All, g \in Files :
              c # stage \/ p # o \/ g # file[o] => cache'[c][p][g] = cache[c][p][g]
    <2>1. Store(stage, o, file[o], "partial")
      BY DEF Store
    <2>2. stage \in Compilers /\ o \in Objects /\ file[o] \in Files
      OBVIOUS
    <2> HIDE DEF BeginCopy
    <2> QED
      BY <1>1, <1>2, <2>1, <2>2, StoreKeeps
  <1>4. /\ pc' \in [All -> Steps] /\ file' \in [All -> Files]
        /\ pc'[o] = "copying" /\ file'[o] = file[o]
        /\ \A p \in All \ {o} : pc'[p] = pc[p] /\ file'[p] = file[p]
    BY GotoFacts DEF Steps
  <1>5. TypeOK' /\ Alone(o)
    BY <1>1, <1>3, <1>4 DEF TypeOK, Alone, Untouched, session
  <1>6. WrittenOf(o)' /\ PlainTree(o)'
    BY <1>1 DEF ObjectInv, WrittenOf, PlainTree, SameSession
  <1>7. Populating(o)'
    BY <1>1, <1>2, <1>3, <1>4 DEF Populating, Kept, KeptAndListed, SameSession
  <1> QED
    BY <1>1, <1>3, <1>5, <1>6, <1>7 DEF ObjectInv, SameSession

LEMMA EndCopyStep ==
    ASSUME IndInv, NEW o \in All, EndCopy(o)
    PROVE  TypeOK' /\ Alone(o) /\ ObjectInv(o)'
  <1> USE OfObject, Caching DEF EndCopy
  <1>1. SameSession /\ list' = list /\ tree' = tree
    BY DEF SameSession, session
  <1>2. file[o] \in written[o] /\ tree[o][file[o]].by = stage
    BY DEF Populating
  <1>3. /\ cache' \in Caches /\ CacheOf(o)' /\ cache'[stage][o][file[o]] = stage
        /\ \A c \in Compilers, p \in All, g \in Files :
              c # stage \/ p # o \/ g # file[o] => cache'[c][p][g] = cache[c][p][g]
    <2>1. Store(stage, o, file[o], stage)
      BY <1>2 DEF Store
    <2>2. stage \in Compilers /\ o \in Objects /\ file[o] \in Files
      OBVIOUS
    <2> HIDE DEF EndCopy
    <2> QED
      BY <1>1, <1>2, <2>1, <2>2, StoreKeeps
  <1>4. ASSUME NEW g \in Files, g = file[o] \/ Kept(o, g) PROVE Kept(o, g)'
    BY <1>1, <1>3, <1>4 DEF Kept, SameSession
  <1>5. WrittenOf(o)' /\ PlainTree(o)'
    BY <1>1 DEF ObjectInv, WrittenOf, PlainTree, SameSession
  <1>6. CASE file[o] = "o"
    <2>1. /\ pc' \in [All -> Steps] /\ file' \in [All -> Files]
          /\ pc'[o] = "list" /\ file'[o] = "o"
          /\ \A p \in All \ {o} : pc'[p] = pc[p] /\ file'[p] = file[p]
      BY <1>6, GotoFacts DEF Steps
    <2>2. TypeOK' /\ Alone(o)
      BY <1>1, <1>3, <2>1 DEF TypeOK, Alone, Untouched, session
    <2>3. Populating(o)'
      BY <1>1, <1>4, <1>6, <2>1 DEF Populating, SameSession
    <2> QED
      BY <1>1, <1>3, <1>5, <2>2, <2>3 DEF ObjectInv, SameSession
  <1>7. CASE file[o] # "o"
    <2>1. CacheNext(o)
      BY <1>7
    <2>2. TypeOK' /\ Alone(o)
      BY <1>1, <1>3, <2>1, CacheNextFacts DEF TypeOK, Alone, Untouched, session
    <2>3. KeptAndListed(o)' /\ Kept(o, "d")' /\ (file[o] = "dwo" => Kept(o, "dwo")')
      <3>1. KeptAndListed(o) /\ (file[o] = "dwo" => Kept(o, "d"))
        BY <1>7 DEF Populating
      <3>2. KeptAndListed(o)'
        BY <1>1, <1>4, <1>7, <3>1 DEF KeptAndListed, SameSession
      <3>3. file[o] = "d" \/ file[o] = "dwo"
        BY <1>7 DEF Files
      <3> QED
        BY <1>4, <3>1, <3>2, <3>3
    <2>4. \A f \in written[o] : tree[o][f].by = stage
      BY DEF Populating
    <2>5. Populating(o)'
      BY <1>1, <2>1, <2>3, <2>4, CacheNextKeeps
    <2> QED
      BY <1>1, <1>3, <1>5, <2>2, <2>5 DEF ObjectInv, SameSession
  <1> QED
    BY <1>6, <1>7

LEMMA SkipCopyStep ==
    ASSUME IndInv, NEW o \in All, SkipCopy(o)
    PROVE  TypeOK' /\ Alone(o) /\ ObjectInv(o)'
  <1> USE OfObject, Caching DEF SkipCopy
  <1>1. SameSession /\ list' = list /\ tree' = tree /\ cache' = cache
    BY DEF SameSession, session
  <1>2. file[o] \notin written[o] /\ file[o] # "o" /\ \A f \in written[o] : tree[o][f].by = stage
    BY DEF Populating, Exists, ObjectInv, WrittenOf, Compilers
  <1>3. CacheNext(o)
    BY <1>2
  <1>4. TypeOK' /\ Alone(o)
    BY <1>1, <1>3, CacheNextFacts DEF TypeOK, Alone, Untouched, session
  <1>5. WrittenOf(o)' /\ PlainTree(o)' /\ CacheOf(o)'
    BY <1>1 DEF ObjectInv, WrittenOf, PlainTree, CacheOf, Full, Overwritten, InPlace, SameSession
  <1>6. KeptAndListed(o)' /\ Kept(o, "d")' /\ (file[o] = "dwo" => Kept(o, "dwo")')
    BY <1>1, <1>2 DEF Populating, KeptAndListed, Kept, SameSession, Files
  <1>7. Populating(o)'
    BY <1>1, <1>2, <1>3, <1>6, CacheNextKeeps
  <1> QED
    BY <1>1, <1>4, <1>5, <1>7 DEF ObjectInv, SameSession

LEMMA ListStep ==
    ASSUME IndInv, NEW o \in All, List(o)
    PROVE  TypeOK' /\ Alone(o) /\ ObjectInv(o)'
  <1> USE OfObject, Caching DEF List
  <1>1. SameSession /\ tree' = tree /\ cache' = cache
    BY DEF SameSession, session
  <1>2. /\ list' \in [Compilers -> SUBSET All] /\ list'[stage] = list[stage] \cup {o}
        /\ \A c \in Compilers \ {stage} : list'[c] = list[c]
    BY DEF TypeOK
  <1>3. file[o] = "o" /\ Kept(o, "o") /\ \A f \in written[o] : tree[o][f].by = stage
    BY DEF Populating
  <1>4. TypeOK' /\ Alone(o)
    BY <1>1, <1>2, CacheNextFacts DEF TypeOK, Alone, Untouched, session
  <1>5. WrittenOf(o)' /\ PlainTree(o)'
    BY <1>1 DEF ObjectInv, WrittenOf, PlainTree, SameSession
  <1>6. cache[stage][o]["o"] = stage
    BY <1>3 DEF Kept, ObjectInv, WrittenOf
  <1>7. CacheOf(o)'
    BY <1>1, <1>2, <1>6 DEF ObjectInv, CacheOf, Full, Overwritten, InPlace, SameSession, Compilers
  <1>8. KeptAndListed(o)'
    BY <1>1, <1>2, <1>3 DEF KeptAndListed, Kept, SameSession
  <1>9. Populating(o)'
    BY <1>1, <1>3, <1>8, CacheNextKeeps
  <1> QED
    BY <1>1, <1>4, <1>5, <1>7, <1>9 DEF ObjectInv, SameSession

\* A wrapper that looks up, restores or removes is one of the triage.
LEMMA Restoring ==
    ASSUME IndInv, NEW o \in All, pc[o] \in {"lookup", "remove", "restore", "link", "fetching"}
    PROVE  /\ stage = "triage" /\ stage \notin Compilers /\ Triaging(o)
           /\ o \in list["good"] <=> o \in Objects
           /\ o \in Objects => Full("good", o) /\ Full("bad", o) /\ Full(Chosen(o), o)
           /\ Chosen(o) \in Compilers
  BY OfObject DEF ObjectInv, Populating, CacheOf, Full, Overwritten, InPlace, Chosen, Compilers

\* Where bisect_triage's loop goes.
LEMMA RestoreNextFacts ==
    ASSUME IndInv, NEW o \in All, NEW rest \in SUBSET {"d", "dwo"}, RestoreNext(o, rest)
    PROVE  /\ pc' \in [All -> Steps] /\ file' \in [All -> Files]
           /\ pc'[o] \in {"restore", "done"}
           /\ \A p \in All \ {o} : pc'[p] = pc[p] /\ file'[p] = file[p]
  <1> USE OfObject
  <1>1. First(rest) \in Files
    BY DEF First
  <1>2. \E step \in {"restore", "done"}, f \in Files : Goto(o, step, f)
    BY <1>1 DEF RestoreNext
  <1>3. PICK step \in {"restore", "done"}, f \in Files : Goto(o, step, f)
    BY <1>2
  <1>4. step \in Steps
    BY DEF Steps
  <1> QED
    BY <1>3, <1>4, GotoFacts

\* A step of the triage that only changes the files of its object in the tree.
LEMMA TriageKeeps ==
    ASSUME IndInv, NEW o \in All, stage = "triage", SameSession, list' = list, cache' = cache,
           UNCHANGED session,
           tree' \in Trees, \A p \in All \ {o} : tree'[p] = tree[p],
           pc' \in [All -> Steps], file' \in [All -> Files],
           \A p \in All \ {o} : pc'[p] = pc[p] /\ file'[p] = file[p],
           Triaging(o)'
    PROVE  TypeOK' /\ Alone(o) /\ ObjectInv(o)'
  <1> USE OfObject
  <1>1. TypeOK' /\ Alone(o)
    BY DEF TypeOK, Alone, Untouched, session
  <1>2. WrittenOf(o)' /\ CacheOf(o)'
    BY DEF ObjectInv, WrittenOf, CacheOf, Full, Overwritten, InPlace, SameSession
  <1> QED
    BY <1>1, <1>2 DEF ObjectInv, SameSession

LEMMA LookupStep ==
    ASSUME IndInv, NEW o \in All, Lookup(o)
    PROVE  TypeOK' /\ Alone(o) /\ ObjectInv(o)'
  <1> USE OfObject, Restoring DEF Lookup
  <1>1. SameSession /\ list' = list /\ tree' = tree /\ cache' = cache /\ UNCHANGED session
    BY DEF SameSession, session
  <1>2. /\ pc' \in [All -> Steps] /\ file' \in [All -> Files]
        /\ \A p \in All \ {o} : pc'[p] = pc[p] /\ file'[p] = file[p]
        /\ IF safe THEN pc'[o] = "compile" ELSE pc'[o] \in {"restore", "done"}
    <2>1. CASE safe
      BY <2>1, GotoFacts DEF Steps
    <2>2. CASE ~safe
      <3>1. Sides[o] \subseteq {"d", "dwo"} /\ RestoreNext(o, Sides[o])
        BY <2>2, ConstantsAssumption DEF Files
      <3> QED
        BY <2>2, <3>1, RestoreNextFacts
    <2> QED
      BY <2>1, <2>2
  <1>3. Triaging(o)'
    BY <1>1, <1>2 DEF Triaging, ChosenObject, Chosen, SameSession
  <1>4. tree' \in Trees
    BY <1>1 DEF TypeOK
  <1> QED
    BY <1>1, <1>2, <1>3, <1>4, TriageKeeps

LEMMA NotListedStep ==
    ASSUME IndInv, NEW o \in All, NotListed(o)
    PROVE  TypeOK' /\ Alone(o) /\ ObjectInv(o)'
  <1> USE OfObject, Restoring DEF NotListed
  <1>1. SameSession /\ list' = list /\ tree' = tree /\ cache' = cache /\ UNCHANGED session
    BY DEF SameSession, session
  <1>2. /\ pc' \in [All -> Steps] /\ file' \in [All -> Files]
        /\ \A p \in All \ {o} : pc'[p] = pc[p] /\ file'[p] = file[p]
        /\ pc'[o] = IF continue THEN "compile" ELSE "raised"
    BY GotoFacts DEF Steps
  <1>3. Triaging(o)'
    BY <1>1, <1>2 DEF Triaging, SameSession
  <1>4. tree' \in Trees
    BY <1>1 DEF TypeOK
  <1> QED
    BY <1>1, <1>2, <1>3, <1>4, TriageKeeps

LEMMA MissingStep ==
    ASSUME IndInv, NEW o \in All, Missing(o)
    PROVE  TypeOK' /\ Alone(o) /\ ObjectInv(o)'
  <1> USE OfObject, Restoring DEF Missing
  <1>1. SameSession /\ list' = list /\ tree' = tree /\ cache' = cache /\ UNCHANGED session
    BY DEF SameSession, session
  <1>2. /\ pc' \in [All -> Steps] /\ file' \in [All -> Files]
        /\ \A p \in All \ {o} : pc'[p] = pc[p] /\ file'[p] = file[p]
        /\ pc'[o] = "raised" /\ file'[o] = file[o]
    BY GotoFacts DEF Steps
  <1>3. o \in Objects /\ file[o] \notin written[o]
    BY DEF Triaging, Full, Overwritten, InPlace, Compilers
  <1>4. Triaging(o)'
    BY <1>1, <1>2, <1>3 DEF Triaging, ChosenObject, Chosen, SameSession
  <1>5. tree' \in Trees
    BY <1>1 DEF TypeOK
  <1> QED
    BY <1>1, <1>2, <1>4, <1>5, TriageKeeps

LEMMA RemoveCompiledStep ==
    ASSUME IndInv, NEW o \in All, RemoveCompiled(o)
    PROVE  TypeOK' /\ Alone(o) /\ ObjectInv(o)'
  <1> USE OfObject, Restoring DEF RemoveCompiled
  <1>1. SameSession /\ list' = list /\ cache' = cache /\ UNCHANGED session
    BY DEF SameSession, session
  <1>2. /\ tree' \in Trees /\ tree'[o]["o"] = NoFile
        /\ \A f \in Files : tree'[o][f] \in {NoFile, tree[o][f]}
        /\ \A p \in All \ {o} : tree'[p] = tree[p]
    BY PutFacts DEF TreeFiles
  <1>3. /\ pc' \in [All -> Steps] /\ file' \in [All -> Files]
        /\ \A p \in All \ {o} : pc'[p] = pc[p] /\ file'[p] = file[p]
        /\ pc'[o] = "restore"
    BY GotoFacts DEF Steps
  <1>4. Triaging(o)'
    BY <1>1, <1>2, <1>3 DEF Triaging, ChosenObject, NoFile, SameSession
  <1> QED
    BY <1>1, <1>2, <1>3, <1>4, TriageKeeps

LEMMA RemoveOldStep ==
    ASSUME IndInv, NEW o \in All, RemoveOld(o)
    PROVE  TypeOK' /\ Alone(o) /\ ObjectInv(o)'
  <1> USE OfObject, Restoring DEF RemoveOld
  <1>1. SameSession /\ list' = list /\ cache' = cache /\ UNCHANGED session
    BY DEF SameSession, session
  <1>2. /\ tree' \in Trees /\ \A f \in Files : tree'[o][f] \in {NoFile, tree[o][f]}
        /\ \A p \in All \ {o} : tree'[p] = tree[p]
    BY PutFacts DEF NoFile, TreeFiles
  <1>3. /\ pc' \in [All -> Steps] /\ file' \in [All -> Files]
        /\ \A p \in All \ {o} : pc'[p] = pc[p] /\ file'[p] = file[p]
        /\ pc'[o] = "link" /\ file'[o] = file[o]
    BY GotoFacts DEF Steps
  <1>4. o \in Objects /\ file[o] \in written[o]
    BY DEF ObjectInv, CacheOf, Triaging
  <1>5. Triaging(o)'
    BY <1>1, <1>2, <1>3, <1>4 DEF Triaging, ChosenObject, Chosen, NoFile, SameSession
  <1> QED
    BY <1>1, <1>2, <1>3, <1>5, TriageKeeps

\* What is restored from a cache.
LEMMA RestoredFacts ==
    ASSUME IndInv, NEW o \in All, pc[o] \in {"link", "fetching"}, NEW link \in {"no"} \cup Compilers
    PROVE  /\ o \in Objects /\ ChosenObject(o) /\ file[o] \in written[o]
           /\ [by |-> cache[Chosen(o)][o][file[o]], link |-> link] \in TreeFiles
           /\ file[o] = "o" => cache[Chosen(o)][o][file[o]] = Chosen(o)
  <1> USE OfObject, Restoring
  <1>1. o \in Objects /\ ChosenObject(o) /\ file[o] \in written[o] /\ Full(Chosen(o), o)
    BY DEF Triaging
  <1>2. cache[Chosen(o)][o][file[o]] \in CacheFiles \ {"none"}
    BY <1>1 DEF Full, Overwritten, InPlace, Compilers
  <1> QED
    BY <1>1, <1>2 DEF Full, TreeFiles

\* Where a wrapper goes that has restored a file.
LEMMA AfterRestoredFacts ==
    ASSUME IndInv, NEW o \in All, pc[o] \in {"link", "fetching"}, AfterRestored(o)
    PROVE  /\ pc' \in [All -> Steps] /\ file' \in [All -> Files]
           /\ \A p \in All \ {o} : pc'[p] = pc[p] /\ file'[p] = file[p]
           /\ pc'[o] \in {"restore", "done"}
  <1> USE OfObject DEF AfterRestored
  <1>1. CASE file[o] = "o"
    BY <1>1, GotoFacts DEF Steps
  <1>2. CASE file[o] # "o"
    <2>1. SidesAfter(o, file[o]) \subseteq {"d", "dwo"}
      BY <1>2, ConstantsAssumption DEF SidesAfter, Files
    <2> QED
      BY <1>2, <2>1, RestoreNextFacts
  <1> QED
    BY <1>1, <1>2

\* Link and EndFetch put what the chosen cache has where the wrapper is.
LEMMA RestoredStep ==
    ASSUME IndInv, NEW o \in All, pc[o] \in {"link", "fetching"},
           NEW link \in {"no"} \cup Compilers, o \notin Linked => link = "no",
           Put(o, file[o], [by |-> cache[Chosen(o)][o][file[o]], link |-> link]),
           AfterRestored(o), UNCHANGED << session, cache, list >>
    PROVE  TypeOK' /\ Alone(o) /\ ObjectInv(o)'
  <1> USE OfObject, Restoring
  <1>1. SameSession /\ list' = list /\ cache' = cache /\ UNCHANGED session
    BY DEF SameSession, session
  <1> DEFINE what == [by |-> cache[Chosen(o)][o][file[o]], link |-> link]
  <1>2. /\ o \in Objects /\ ChosenObject(o) /\ what \in TreeFiles /\ what.link = link
        /\ file[o] = "o" => what.by = Chosen(o)
    BY RestoredFacts
  <1>3. Put(o, file[o], what)
    OBVIOUS
  <1> HIDE DEF what
  <1>4. /\ tree' \in Trees /\ tree'[o][file[o]] = what
        /\ \A p \in All \ {o} : tree'[p] = tree[p]
        /\ \A g \in Files \ {file[o]} : tree'[o][g] = tree[o][g]
    BY <1>2, <1>3, PutFacts
  <1>5. /\ pc' \in [All -> Steps] /\ file' \in [All -> Files]
        /\ \A p \in All \ {o} : pc'[p] = pc[p] /\ file'[p] = file[p]
        /\ pc'[o] \in {"restore", "done"}
    BY AfterRestoredFacts
  <1>6. ChosenObject(o)'
    BY <1>1, <1>2, <1>4 DEF ChosenObject, Chosen, SameSession
  <1>7. o \notin Linked => \A f \in Files : tree'[o][f].link = "no"
    BY <1>2, <1>4 DEF Triaging
  <1>8. Triaging(o)'
    BY <1>1, <1>2, <1>5, <1>6, <1>7 DEF Triaging, SameSession
  <1> QED
    BY <1>1, <1>4, <1>5, <1>8, TriageKeeps

LEMMA LinkStep ==
    ASSUME IndInv, NEW o \in All, Link(o)
    PROVE  TypeOK' /\ Alone(o) /\ ObjectInv(o)'
  <1>1. pc[o] = "link"
    BY DEF Link
  <1>2. Chosen(o) \in {"no"} \cup Compilers
    BY <1>1, Restoring
  <1> QED
    BY <1>1, <1>2, RestoredStep DEF Link

LEMMA EndFetchStep ==
    ASSUME IndInv, NEW o \in All, EndFetch(o)
    PROVE  TypeOK' /\ Alone(o) /\ ObjectInv(o)'
  BY RestoredStep DEF EndFetch

LEMMA BeginFetchStep ==
    ASSUME IndInv, NEW o \in All, BeginFetch(o)
    PROVE  TypeOK' /\ Alone(o) /\ ObjectInv(o)'
  <1> USE OfObject, Restoring DEF BeginFetch
  <1>1. SameSession /\ list' = list /\ cache' = cache /\ UNCHANGED session
    BY DEF SameSession, session
  <1> DEFINE what == [by |-> "partial", link |-> "no"]
  <1>2. what \in TreeFiles /\ what.by = "partial" /\ what.link = "no" /\ Put(o, file[o], what)
    BY DEF TreeFiles, CacheFiles
  <1> HIDE DEF what
  <1>3. /\ tree' \in Trees /\ tree'[o][file[o]] = what
        /\ \A p \in All \ {o} : tree'[p] = tree[p]
        /\ \A g \in Files \ {file[o]} : tree'[o][g] = tree[o][g]
    BY <1>2, PutFacts
  <1>4. /\ pc' \in [All -> Steps] /\ file' \in [All -> Files]
        /\ \A p \in All \ {o} : pc'[p] = pc[p] /\ file'[p] = file[p]
        /\ pc'[o] = "fetching" /\ file'[o] = file[o]
    BY GotoFacts DEF Steps
  <1>5. o \in Objects /\ ChosenObject(o) /\ file[o] \in written[o]
    BY DEF Triaging
  <1>6. ChosenObject(o)'
    BY <1>1, <1>2, <1>3, <1>5 DEF ChosenObject, Chosen, SameSession
  <1>7. \A f \in Files : tree'[o][f].link = "no"
    BY <1>2, <1>3 DEF Triaging
  <1>8. Triaging(o)'
    BY <1>1, <1>4, <1>5, <1>6, <1>7 DEF Triaging, SameSession
  <1> QED
    BY <1>1, <1>3, <1>4, <1>8, TriageKeeps

LEMMA RerunStep ==
    ASSUME IndInv, NEW o \in All, Rerun(o)
    PROVE  TypeOK' /\ Alone(o) /\ ObjectInv(o)'
  <1> USE OfObject DEF Rerun, session
  <1>1. TypeOK' /\ Alone(o)
    BY DEF TypeOK, Alone, SameSession, Untouched, Steps
  <1>2. pc'[o] = "waiting"
    BY DEF TypeOK
  <1>3. WrittenOf(o)' /\ CacheOf(o)' /\ (PlainTree(o) => PlainTree(o)')
    BY DEF ObjectInv, WrittenOf, CacheOf, Full, Overwritten, InPlace, PlainTree
  <1>4. stage \in Compilers => Populating(o)'
    BY <1>2 DEF ObjectInv, Populating
  <1>5. stage = "triage" => Triaging(o)'
    BY <1>2 DEF ObjectInv, Triaging, ChosenObject, Chosen
  <1> QED
    BY <1>1, <1>3, <1>4, <1>5 DEF ObjectInv

LEMMA WrapperStep ==
    ASSUME IndInv, NEW o \in All, Wrapper(o) \/ Rerun(o)
    PROVE  Alone(o) /\ IndInv'
  <1>1. TypeOK' /\ Alone(o) /\ ObjectInv(o)'
    BY LaunchStep, BeginCompileStep, EndCompileStep, CompileFailsStep, BeginCopyStep, EndCopyStep, SkipCopyStep,
       ListStep, LookupStep, NotListedStep, MissingStep, RemoveCompiledStep, RemoveOldStep,
       LinkStep, BeginFetchStep, EndFetchStep, RerunStep
    DEF Wrapper
  <1> QED
    BY <1>1, AloneKeeps

-----------------------------------------------------------------------------
(* The steps of make and of the search. *)

LEMMA StopStep ==
    ASSUME IndInv, Stop
    PROVE  IndInv'
  <1> USE DEF Stop
  <1>1. TypeOK'
    <2>1. faults' \in 0 .. MaxFaults
      BY ConstantsAssumption DEF IndInv, TypeOK
    <2>2. pc' \in [All -> Steps] /\ file' \in [All -> Files]
      BY DEF Steps, Files
    <2> QED
      BY <2>1, <2>2 DEF IndInv, TypeOK
  <1>2. ASSUME NEW o \in All PROVE ObjectInv(o)'
    <2> USE OfObject
    <2>1. pc'[o] = IF pc[o] = "done" THEN "done" ELSE "waiting"
      OBVIOUS
    <2>2. WrittenOf(o)' /\ CacheOf(o)' /\ (PlainTree(o) => PlainTree(o)')
      BY DEF ObjectInv, WrittenOf, CacheOf, Full, Overwritten, InPlace, PlainTree
    <2>3. stage \in Compilers => Populating(o)'
      BY <2>1 DEF ObjectInv, Populating, Kept, KeptAndListed, Exists
    <2>4. stage = "triage" => Triaging(o)'
      BY <2>1 DEF ObjectInv, Triaging, ChosenObject, Chosen
    <2> QED
      BY <2>2, <2>3, <2>4 DEF ObjectInv
  <1> QED
    BY <1>1, <1>2 DEF IndInv

\* What a populating build leaves when make is content.
LEMMA BuiltIsFull ==
    ASSUME IndInv, NextStage, NEW o \in Objects
    PROVE  Full(stage, o)
  <1>1. o \in All
    BY DEF All
  <1>2. pc[o] = "done" /\ Exists(o, "o") /\ stage \in Compilers
    BY DEF NextStage, Built
  <1>3. KeptAndListed(o) /\ \A f \in Files : Kept(o, f)
    BY <1>1, <1>2, OfObject DEF ObjectInv, Populating
  <1> QED
    BY <1>1, <1>2, <1>3, OfObject DEF Full, InPlace, KeptAndListed, Kept, Compilers, ObjectInv, WrittenOf

LEMMA NextStageStep ==
    ASSUME IndInv, NextStage
    PROVE  IndInv'
  <1> USE DEF NextStage, Fresh
  <1>1. TypeOK'
    <2>1. rounds' \in 0 .. MaxRounds
      BY ConstantsAssumption DEF IndInv, TypeOK
    <2>2. pc' \in [All -> Steps] /\ file' \in [All -> Files] /\ tree' \in Trees
      BY DEF Steps, Files, Trees, TreeFiles, NoFile
    <2>3. stage' \in Compilers \cup {"triage"}
      BY DEF Compilers
    <2> QED
      BY <2>1, <2>2, <2>3 DEF IndInv, TypeOK
  <1>2. ASSUME NEW o \in All PROVE ObjectInv(o)'
    <2> USE OfObject
    <2>1. pc'[o] = "waiting" /\ \A f \in Files : tree'[o][f] = NoFile
      OBVIOUS
    <2>2. o \in Objects => Full(stage, o)
      BY BuiltIsFull
    <2>3. ASSUME NEW c \in Compilers, Full(c, o) PROVE Full(c, o)'
      BY <2>3 DEF Full, Overwritten, InPlace
    <2>4. WrittenOf(o)' /\ CacheOf(o)'
      BY <2>2, <2>3 DEF ObjectInv, WrittenOf, CacheOf, Compilers
    <2>5. PlainTree(o)' /\ Populating(o)'
      BY <2>1 DEF PlainTree, Populating, NoFile
    <2>6. Triaging(o)'
      BY <2>1 DEF Triaging, ChosenObject, NoFile
    <2> QED
      BY <2>4, <2>5, <2>6 DEF ObjectInv
  <1> QED
    BY <1>1, <1>2 DEF IndInv

\* The object that the search links before a build, or prunes.
LEMMA SearchTree ==
    ASSUME IndInv, Search, NEW o \in All
    PROVE  /\ tree'[o] \in [Files -> TreeFiles]
           /\ o \in Late => tree'[o] = tree[o]
           /\ o \in Objects => tree'[o]["o"].by \in {"none", Chosen(o)'}
           /\ o \notin Linked => \A f \in Files : tree'[o][f].link = "no"
  <1> USE OfObject
  <1> DEFINE from == IF o \in badSet' THEN "bad" ELSE "good"
  <1>1. PICK pruned \in SUBSET Objects :
            tree'[o] = IF o \in Late THEN tree[o]
                       ELSE [tree[o] EXCEPT !["o"] = IF o \in pruned THEN NoFile
                                 ELSE [by |-> cache[from][o]["o"], link |-> IF o \in Linked THEN from ELSE "no"]]
    BY DEF Search
  <1>2. tree[o] \in [Files -> TreeFiles]
    BY DEF TypeOK, Trees
  <1>3. CASE o \in Late
    BY <1>1, <1>2, <1>3 DEF Search, ObjectInv, Triaging
  <1>4. CASE o \in Objects
    <2>1. cache[from][o]["o"] = from /\ from \in Compilers
      BY <1>4 DEF Search, ObjectInv, CacheOf, Full, Overwritten, InPlace, WrittenOf, Compilers
    <2> DEFINE what == IF o \in pruned THEN NoFile
                       ELSE [by |-> cache[from][o]["o"], link |-> IF o \in Linked THEN from ELSE "no"]
    <2>2. what \in TreeFiles /\ what.by \in {"none", from} /\ (o \notin Linked => what.link = "no")
      BY <2>1 DEF NoFile, TreeFiles, CacheFiles, Compilers
    <2>3. tree'[o] = [tree[o] EXCEPT !["o"] = what]
      BY <1>1, <1>4
    <2> HIDE DEF what
    <2>4. /\ tree'[o] \in [Files -> TreeFiles] /\ tree'[o]["o"] = what
          /\ \A f \in Files \ {"o"} : tree'[o][f] = tree[o][f]
      BY <1>2, <2>2, <2>3
    <2>5. Chosen(o)' = from
      BY DEF Chosen
    <2>6. o \notin Linked => \A f \in Files : tree[o][f].link = "no"
      BY DEF Search, ObjectInv, Triaging
    <2> QED
      BY <1>4, <2>2, <2>4, <2>5, <2>6 DEF ChosenObject
  <1> QED
    BY <1>3, <1>4

LEMMA SearchStep ==
    ASSUME IndInv, Search
    PROVE  IndInv'
  <1> USE DEF Search, Fresh
  <1>1. TypeOK'
    <2>1. rounds' \in 0 .. MaxRounds
      BY ConstantsAssumption DEF IndInv, TypeOK
    <2>2. pc' \in [All -> Steps] /\ file' \in [All -> Files]
      BY DEF Steps, Files
    <2>3. tree' = [o \in All |-> tree'[o]]
      OBVIOUS
    <2>4. tree' \in Trees
      BY <2>3, SearchTree DEF Trees
    <2>5. badSet' \subseteq All
      BY DEF All
    <2> QED
      BY <2>1, <2>2, <2>4, <2>5 DEF IndInv, TypeOK
  <1>2. ASSUME NEW o \in All PROVE ObjectInv(o)'
    <2> USE OfObject
    <2>1. pc'[o] = "waiting"
      OBVIOUS
    <2>2. WrittenOf(o)' /\ CacheOf(o)'
      BY DEF ObjectInv, WrittenOf, CacheOf, Full, Overwritten, InPlace
    <2>3. Triaging(o)'
      <3>1. o \in Late \/ o \notin Linked => \A f \in Files : tree'[o][f].link = "no"
        <4>1. CASE o \in Late
          BY <4>1, SearchTree DEF ObjectInv, Triaging
        <4>2. CASE o \notin Linked
          BY <4>2, SearchTree
        <4> QED
          BY <4>1, <4>2
      <3>2. o \in Objects => ChosenObject(o)'
        BY SearchTree DEF ChosenObject
      <3> QED
        BY <2>1, <3>1, <3>2 DEF Triaging
    <2> QED
      BY <2>2, <2>3 DEF ObjectInv
  <1> QED
    BY <1>1, <1>2 DEF IndInv

LEMMA IndStep == IndInv /\ [Next]_vars => IndInv'
  <1> SUFFICES ASSUME IndInv, [Next]_vars PROVE IndInv'
    OBVIOUS
  <1>1. CASE Stop
    BY <1>1, StopStep
  <1>2. CASE NextStage
    BY <1>2, NextStageStep
  <1>3. CASE Search
    BY <1>3, SearchStep
  <1>4. CASE \E o \in All : Wrapper(o) \/ Rerun(o)
    BY <1>4, WrapperStep
  <1>5. CASE UNCHANGED vars
    <2>1. TypeOK'
      BY <1>5 DEF IndInv, TypeOK, vars, session
    <2>2. ASSUME NEW o \in All PROVE ObjectInv(o)'
      BY <1>5, OfObject, UntouchedKeeps DEF vars, session, SameSession, Untouched
    <2> QED
      BY <2>1, <2>2 DEF IndInv
  <1> QED
    BY <1>1, <1>2, <1>3, <1>4, <1>5 DEF Next

-----------------------------------------------------------------------------
(* The invariants of the module. *)

LEMMA Inductive == Spec => []IndInv
  BY IndInit, IndStep, PTL DEF Spec

\* The files, the caches and the wrappers always have the form the code gives them.
THEOREM TypeCorrect == Spec => []TypeOK
  <1>1. IndInv => TypeOK
    BY DEF IndInv
  <1> QED
    BY <1>1, Inductive, PTL

\* What bisect_triage looks up in a list has an object in that cache, wherever builds
\* were stopped.
THEOREM ListsAreTrue == Spec => []ListedIsCached
  <1>1. IndInv => ListedIsCached
    <2> SUFFICES ASSUME IndInv, NEW c \in Compilers, NEW o \in list[c]
                 PROVE  cache[c][o]["o"] # "none"
      BY DEF ListedIsCached
    <2>1. o \in All
      BY DEF IndInv, TypeOK
    <2> QED
      BY <2>1, OfObject DEF ObjectInv, CacheOf
  <1> QED
    BY <1>1, Inductive, PTL

\* During the whole triage both caches hold every file that the compilers of the
\* populating builds wrote, their objects unchanged, for any number of wrappers, stops and
\* failing compilations; without a link the side effects are unchanged as well.
THEOREM CachesAreWhole == Spec => []CachesStayWhole
  <1>1. IndInv => CachesStayWhole
    <2> SUFFICES ASSUME IndInv, stage = "triage", NEW c \in Compilers, NEW o \in Objects
                 PROVE  /\ cache[c][o]["o"] = c
                        /\ \A f \in InPlace(o) :
                              cache[c][o][f] = c \/ (o \in Linked /\ cache[c][o][f] \in {"partial", "new"})
      BY DEF CachesStayWhole
    <2>1. o \in All
      BY DEF All
    <2>2. Full("good", o) /\ Full("bad", o)
      BY <2>1, OfObject DEF ObjectInv, CacheOf
    <2> QED
      BY <2>2 DEF Full, Overwritten, Compilers
  <1> QED
    BY <1>1, Inductive, PTL

\* A step of the triage that changes a cache is a compilation that writes through a link,
\* and of an object only the safe mode compiles in the triage.
LEMMA RewriteStep ==
    ASSUME IndInv, [Next]_vars, stage = "triage", NEW c \in Compilers, NEW p \in All,
           NEW f \in Files, cache'[c][p][f] # cache[c][p][f]
    PROVE  safe /\ f # "o" /\ tree[p][f].link = c
  <1>1. PICK o \in All : BeginCompile(o) \/ EndCompile(o)
    <2>1. ~(\E o \in All : BeginCompile(o) \/ EndCompile(o)) => cache' = cache
      <3> SUFFICES ASSUME \A o \in All : ~BeginCompile(o) /\ ~EndCompile(o) PROVE cache' = cache
        OBVIOUS
      <3>1. CASE Stop \/ NextStage \/ Search \/ UNCHANGED vars
        BY <3>1 DEF Stop, NextStage, Search, vars
      <3>2. CASE \E o \in All : Wrapper(o) \/ Rerun(o)
        <4>1. PICK o \in All : Wrapper(o) \/ Rerun(o)
          BY <3>2
        <4>2. ~(BeginCopy(o) \/ EndCopy(o))
          BY Caching DEF BeginCopy, EndCopy
        <4> QED
          BY <4>1, <4>2 DEF Wrapper, Rerun, Launch, CompileFails, Fail, SkipCopy, List, Lookup,
             NotListed, RemoveCompiled, RemoveOld, Missing, Link, BeginFetch, EndFetch
      <3> QED
        BY <3>1, <3>2 DEF Next
    <2> QED
      BY <2>1
  <1> USE OfObject
  <1>2. "o" \in written[o] /\ pc[o] \in {"compile", "compiling"}
    BY <1>1 DEF ObjectInv, WrittenOf, BeginCompile, EndCompile
  <1>3. \E by \in CacheFiles \ {"none"}, object \in TreeFiles : Write(o, by, object)
    <2>1. CASE BeginCompile(o)
      BY <2>1 DEF BeginCompile, CacheFiles
    <2>2. CASE EndCompile(o)
      <3>1. [by |-> "new", link |-> "no"] \in TreeFiles /\ "new" \in CacheFiles
        BY DEF TreeFiles, CacheFiles
      <3> QED
        BY <2>2, <3>1 DEF EndCompile, Output
    <2> QED
      BY <1>1, <2>1, <2>2
  <1>4. p = o /\ f \in InPlace(o) /\ tree[o][f].link = c
    BY <1>2, <1>3, WriteFacts
  <1>5. o \in Objects
    BY <1>4 DEF ObjectInv, Triaging, Compilers
  <1> QED
    BY <1>2, <1>4, <1>5 DEF ObjectInv, Triaging, InPlace

\* The caches are written in the triage only by the safe mode, only in side effects and
\* only through the link that restoring left: a bisection without the safe mode ends with
\* the caches it has populated.
THEOREM SafeModeTheorem == Spec => OnlySafeModeRewrites
  <1>1. IndInv /\ [Next]_vars =>
          [stage = "triage" =>
              \A c \in Compilers, o \in All, f \in Files :
                  cache'[c][o][f] # cache[c][o][f] => safe /\ f # "o" /\ tree[o][f].link = c]_vars
    BY RewriteStep
  <1> QED
    BY <1>1, Inductive, PTL DEF Spec, OnlySafeModeRewrites

\* 'Make will now crash' only for a file that no compiler ever wrote, or for an object
\* that the populating builds did not have.
THEOREM CrashesForGoodReason == Spec => []RaisedForGoodReason
  <1>1. IndInv => RaisedForGoodReason
    BY OfObject DEF RaisedForGoodReason, ObjectInv, Populating, Triaging
  <1> QED
    BY <1>1, Inductive, PTL

-----------------------------------------------------------------------------
(* BisectDriver implements BisectSession. *)

recorded == [c \in Compilers |-> Recorded(c)]
wanted == [o \in Objects |-> Chosen(o)]
object == [o \in Objects |-> tree[o]["o"].by]
delivered == {o \in Objects : pc[o] = "done" /\ Exists(o, "o")}

\* An object of which a cache has everything is recorded.
LEMMA FullIsRecorded ==
    ASSUME IndInv, NEW c \in Compilers, NEW o \in Objects, Full(c, o)
    PROVE  o \in Recorded(c)
  <1>1. ASSUME NEW f \in written[o]
        PROVE  cache[c][o][f] \notin {"none"} \cup (IF stage = "triage" THEN {} ELSE {"partial"})
    BY DEF Full, Overwritten, InPlace, Compilers
  <1> QED
    BY <1>1 DEF Full, Recorded

\* In the triage, both caches have recorded all objects.
LEMMA TriageIsRecorded ==
    ASSUME IndInv, stage = "triage"
    PROVE  \A c \in Compilers : Recorded(c) = Objects
  <1> SUFFICES ASSUME NEW c \in Compilers, NEW o \in Objects PROVE o \in Recorded(c)
    BY DEF Recorded
  <1>1. o \in All
    BY DEF All
  <1>2. Full(c, o)
    BY <1>1, OfObject DEF ObjectInv, CacheOf, Compilers
  <1> QED
    BY <1>2, FullIsRecorded

\* A step of one wrapper changes at most whether its own object is recorded.
LEMMA OthersRecorded ==
    ASSUME IndInv, NEW o \in All, Alone(o), NEW c \in Compilers, NEW p \in Objects, p # o
    PROVE  /\ p \in Recorded(c)' <=> p \in Recorded(c)
           /\ tree'[p] = tree[p] /\ pc'[p] = pc[p]
           /\ p \in delivered' <=> p \in delivered
  <1>1. p \in All /\ written[p] \subseteq Files
    BY DEF All, IndInv, TypeOK
  <1> QED
    BY <1>1 DEF Alone, Untouched, SameSession, Recorded, delivered, Exists

\* A wrapper of the populating builds records its object, or loses it again.
LEMMA PopulateRefines ==
    ASSUME IndInv, NEW o \in Objects, Wrapper(o) \/ Rerun(o), stage \in Compilers
    PROVE  Session!Populate(o)
  <1>0. o \in All
    BY DEF All
  <1>1. Alone(o) /\ IndInv' /\ SameSession
    BY <1>0, WrapperStep DEF Alone
  <1>2. \A c \in Compilers \ {stage} : Recorded(c)' = Recorded(c)
    <2> SUFFICES ASSUME NEW c \in Compilers \ {stage}, NEW p \in Objects
                 PROVE  p \in Recorded(c)' <=> p \in Recorded(c)
      BY DEF Recorded
    <2>1. CASE p # o
      BY <1>0, <1>1, <2>1, OthersRecorded
    <2>2. CASE p = o /\ stage = "good"
      <3>1. ObjectInv(o) /\ ObjectInv(o)'
        BY <1>0, <1>1 DEF IndInv
      <3> QED
        BY <1>1, <2>2, <3>1 DEF ObjectInv, CacheOf, Recorded, SameSession, Compilers
    <2>3. CASE p = o /\ stage = "bad"
      <3>1. ObjectInv(o) /\ ObjectInv(o)'
        BY <1>0, <1>1 DEF IndInv
      <3>2. c = "good" /\ Full("good", o) /\ Full("good", o)'
        BY <1>1, <2>3, <3>1 DEF ObjectInv, CacheOf, SameSession, Compilers
      <3>3. o \in Recorded("good") /\ o \in Recorded("good")'
        BY <1>1, <3>2, FullIsRecorded DEF Compilers, IndInv, Full, Overwritten, InPlace, Recorded, SameSession
      <3> QED
        BY <2>3, <3>2, <3>3
    <2> QED
      BY <2>1, <2>2, <2>3 DEF Compilers
  <1>3. PICK c \in Compilers : c = stage
    OBVIOUS
  <1> DEFINE mine == IF o \in Recorded(c)' THEN Recorded(c) \cup {o} ELSE Recorded(c) \ {o}
  <1>4. Recorded(c)' = mine
    <2> SUFFICES ASSUME NEW p \in Objects PROVE p \in Recorded(c)' <=> p \in mine
      BY DEF Recorded
    <2> QED
      BY <1>0, <1>1, OthersRecorded
  <1>5. recorded' = [recorded EXCEPT ![stage] = mine]
    BY <1>2, <1>3, <1>4 DEF recorded
  <1>6. mine \in {recorded[stage] \cup {o}, recorded[stage] \ {o}}
    BY <1>3 DEF recorded
  <1>7. tree'[o]["o"].by \in {stage, "none"}
    BY <1>0, <1>1 DEF IndInv, ObjectInv, PlainTree, SameSession, Files
  <1>8. object' = [object EXCEPT ![o] = tree'[o]["o"].by]
    BY <1>0, <1>1, OthersRecorded DEF object
  <1>9. delivered' \in SUBSET (delivered \cup {o})
    BY <1>0, <1>1, OthersRecorded DEF delivered
  <1>10. wanted' = wanted /\ stage' = stage
    BY <1>1 DEF wanted, Chosen, SameSession
  <1> HIDE DEF mine
  <1> QED
    BY <1>5, <1>6, <1>7, <1>8, <1>9, <1>10
    DEF Session!Populate, Session!Compilers, Compilers, recorded, wanted, object, delivered

\* While a build of the search runs, the abstract variables change for its own object only,
\* and not at all when that is a late one.
LEMMA LateRefines ==
    ASSUME IndInv, NEW o \in Late, Wrapper(o) \/ Rerun(o)
    PROVE  UNCHANGED << stage, recorded, wanted, object, delivered >>
  <1>0. o \in All /\ \A p \in Objects : p # o
    BY ConstantsAssumption DEF All
  <1>1. Alone(o) /\ SameSession
    BY <1>0, WrapperStep DEF Alone
  <1>2. ASSUME NEW c \in Compilers PROVE Recorded(c)' = Recorded(c)
    <2> SUFFICES ASSUME NEW p \in Objects PROVE p \in Recorded(c)' <=> p \in Recorded(c)
      BY DEF Recorded
    <2> QED
      BY <1>0, <1>1, OthersRecorded
  <1>3. recorded' = recorded
    BY <1>2 DEF recorded
  <1>4. object' = object
    BY <1>0, <1>1, OthersRecorded DEF object, Compilers
  <1>5. delivered' = delivered
    BY <1>0, <1>1, OthersRecorded DEF delivered, Compilers
  <1>6. wanted' = wanted /\ stage' = stage
    BY <1>1 DEF wanted, Chosen, SameSession
  <1> QED
    BY <1>3, <1>4, <1>5, <1>6

\* A wrapper of the triage works on its object until it delivers the one that is wanted.
LEMMA TriageRefines ==
    ASSUME IndInv, NEW o \in Objects, Wrapper(o) \/ Rerun(o), stage = "triage"
    PROVE  Session!Work(o) \/ Session!Deliver(o)
  <1>0. o \in All /\ "o" \in Files
    BY DEF All, Files
  <1>1. Alone(o) /\ IndInv' /\ SameSession
    BY <1>0, WrapperStep DEF Alone
  <1>2. recorded' = recorded
    <2>1. ASSUME NEW c \in Compilers, NEW p \in Objects PROVE p \in Recorded(c)'
      <3>1. ObjectInv(p)' /\ stage' = "triage"
        BY <1>1 DEF IndInv, All, SameSession
      <3>2. Full(c, p)'
        BY <3>1 DEF ObjectInv, CacheOf, Compilers
      <3> QED
        BY <3>1, <3>2 DEF Full, Overwritten, InPlace, Recorded, Compilers
    <2>2. \A c \in Compilers : Recorded(c)' = Objects
      BY <2>1 DEF Recorded
    <2> QED
      BY <2>2, TriageIsRecorded DEF recorded
  <1>3. wanted' = wanted /\ stage' = stage /\ Chosen(o)' = Chosen(o) /\ wanted[o] = Chosen(o)
    BY <1>1 DEF wanted, Chosen, SameSession
  <1>4. Triaging(o)' /\ o \notin Late
    BY <1>0, <1>1, ConstantsAssumption DEF IndInv, ObjectInv, SameSession
  <1>5. object' = [object EXCEPT ![o] = tree'[o]["o"].by]
    BY <1>0, <1>1, OthersRecorded DEF object, Compilers
  <1>6. \A p \in Objects \ {o} : p \in delivered' <=> p \in delivered
    BY <1>0, <1>1, OthersRecorded DEF Compilers
  <1>7. CASE o \in delivered'
    <2>1. tree'[o]["o"].by \in {Chosen(o)} \cup Session!Torn(o)
      BY <1>3, <1>4, <1>7 DEF delivered, Exists, Triaging, ChosenObject, Session!Torn
    <2>2. delivered' = delivered \cup {o}
      BY <1>6, <1>7 DEF delivered
    <2>3. \E made \in {wanted[o]} \cup Session!Torn(o) : object' = [object EXCEPT ![o] = made]
      BY <1>3, <1>5, <2>1
    <2> QED
      BY <1>2, <1>3, <2>2, <2>3 DEF Session!Deliver, recorded, wanted, object, delivered
  <1>8. CASE o \notin delivered'
    <2>1. o \notin delivered
      BY DEF delivered, Wrapper, Rerun, Launch, BeginCompile, EndCompile, CompileFails, Fail,
             BeginCopy, EndCopy, SkipCopy, List, Lookup, NotListed, RemoveCompiled, RemoveOld,
             Missing, Link, BeginFetch, EndFetch
    <2>2. delivered' = delivered
      BY <1>6, <1>8, <2>1 DEF delivered
    <2>3. tree'[o]["o"].by \in {"none", "new", wanted[o]} \cup Session!Torn(o)
      BY <1>3, <1>4 DEF Triaging, ChosenObject, Session!Torn
    <2> QED
      BY <1>2, <1>3, <1>5, <2>1, <2>2, <2>3 DEF Session!Work, recorded, wanted, object, delivered
  <1> QED
    BY <1>7, <1>8

\* A build that is stopped changes nothing that counts.
LEMMA StopRefines ==
    ASSUME IndInv, Stop
    PROVE  UNCHANGED << stage, recorded, wanted, object, delivered >>
  <1> USE DEF Stop
  <1>1. recorded' = recorded /\ wanted' = wanted /\ object' = object
    BY DEF recorded, Recorded, wanted, Chosen, object
  <1>2. \A o \in Objects : pc'[o] = "done" <=> pc[o] = "done"
    BY DEF All
  <1>3. delivered' = delivered
    BY <1>2 DEF delivered, Exists
  <1> QED
    BY <1>1, <1>3

LEMMA NextStageRefines ==
    ASSUME IndInv, NextStage
    PROVE  Session!EndPopulate
  <1> USE DEF NextStage, Fresh
  <1>1. recorded[stage] = Objects
    <2>1. ASSUME NEW c \in Compilers, c = stage PROVE Recorded(c) = Objects
      <3>1. \A o \in Objects : o \in Recorded(c)
        BY <2>1, BuiltIsFull, FullIsRecorded
      <3> QED
        BY <3>1 DEF Recorded
    <2> QED
      BY <2>1 DEF recorded
  <1>2. recorded' = recorded
    <2>1. CASE stage = "good"
      BY <2>1 DEF recorded, Recorded
    <2>2. CASE stage = "bad"
      <3>1. ASSUME NEW c \in Compilers, NEW o \in Objects PROVE o \in Recorded(c)
        <4>1. Full("good", o)
          BY <2>2, OfObject DEF All, ObjectInv, CacheOf
        <4>2. Full("bad", o)
          BY <2>2, BuiltIsFull
        <4> QED
          BY <4>1, <4>2, FullIsRecorded DEF Compilers
      <3>2. ASSUME NEW c \in Compilers PROVE Recorded(c)' = Recorded(c)
        BY <2>2, <3>1 DEF Recorded
      <3> QED
        BY <3>2 DEF recorded
    <2> QED
      BY <2>1, <2>2 DEF Compilers
  <1>5. wanted' = wanted
    BY DEF wanted, Chosen
  <1>3. object' = [o \in Objects |-> "none"]
    BY DEF object, NoFile, All, Files
  <1>4. delivered' = {}
    BY DEF delivered, All
  <1> QED
    BY <1>1, <1>2, <1>3, <1>4, <1>5
    DEF Session!EndPopulate, Session!Compilers, Compilers, recorded, wanted, object, delivered

LEMMA SearchRefines ==
    ASSUME IndInv, Search
    PROVE  Session!Search
  <1>1. stage = "triage" /\ stage' = stage /\ recorded' = recorded
    BY DEF Search, recorded, Recorded
  <1>2. wanted' \in [Objects -> Compilers]
    BY DEF wanted, Chosen, Compilers
  <1>3. ASSUME NEW o \in Objects
        PROVE  object'[o] \in {"none", wanted'[o]} /\ object'[o] \in {"none"} \cup Compilers
    <2>1. tree'[o]["o"].by \in {"none", Chosen(o)'}
      BY SearchTree DEF All
    <2> QED
      BY <2>1 DEF Chosen, object, wanted, Compilers
  <1>4. object' \in [Objects -> {"none"} \cup Compilers]
    BY <1>3 DEF object
  <1>5. delivered' = {}
    BY DEF Search, Fresh, delivered, All
  <1> QED
    BY <1>1, <1>2, <1>3, <1>4, <1>5
    DEF Session!Search, Session!Compilers, Compilers, recorded, wanted, object, delivered

LEMMA InitRefines == Init => Session!Init
  <1> SUFFICES ASSUME Init PROVE Session!Init
    OBVIOUS
  <1>1. recorded = [c \in Compilers |-> {}]
    BY DEF Init, recorded, Recorded
  <1>2. wanted = [o \in Objects |-> "good"]
    BY DEF Init, wanted, Chosen
  <1>3. object = [o \in Objects |-> "none"]
    BY DEF Init, object, NoFile, All, Files
  <1>4. delivered = {}
    BY DEF Init, delivered, All
  <1> QED
    BY <1>1, <1>2, <1>3, <1>4
    DEF Init, Session!Init, Session!Compilers, Compilers, recorded, wanted, object, delivered

LEMMA StepRefines ==
    IndInv /\ [Next]_vars => [Session!Next]_(Session!vars)
  <1> SUFFICES ASSUME IndInv, [Next]_vars PROVE [Session!Next]_(Session!vars)
    OBVIOUS
  <1>0. UNCHANGED << stage, recorded, wanted, object, delivered >> => UNCHANGED Session!vars
    BY DEF Session!vars, recorded, wanted, object, delivered
  <1>1. CASE Stop
    BY <1>0, <1>1, StopRefines
  <1>2. CASE NextStage
    BY <1>2, NextStageRefines DEF Session!Next
  <1>3. CASE Search
    BY <1>3, SearchRefines DEF Session!Next
  <1>4. ASSUME NEW o \in All, Wrapper(o) \/ Rerun(o) PROVE [Session!Next]_(Session!vars)
    <2>1. CASE o \in Late
      BY <1>0, <1>4, <2>1, LateRefines
    <2>2. CASE o \in Objects /\ stage \in Compilers
      BY <1>4, <2>2, PopulateRefines DEF Session!Next
    <2>3. CASE o \in Objects /\ stage = "triage"
      BY <1>4, <2>3, TriageRefines DEF Session!Next
    <2> QED
      BY <2>1, <2>2, <2>3, OfObject
  <1>5. CASE UNCHANGED vars
    <2>1. UNCHANGED << stage, recorded, wanted, object, delivered >>
      BY <1>5 DEF vars, session, recorded, Recorded, wanted, Chosen, object, delivered, Exists
    <2> QED
      BY <1>0, <2>1
  <1> QED
    BY <1>1, <1>2, <1>3, <1>4, <1>5 DEF Next

\* Caches, lists, links and wrappers that run side by side and are stopped anywhere
\* implement the bisection that BisectSession describes: every delivered object is the one
\* of the chosen cache, or half of it where files cannot be linked.
THEOREM DriverImplementsSession == Spec => ImplementsSession
  <1>1. Init => Session!Init
    BY InitRefines
  <1>2. IndInv /\ [Next]_vars => [Session!Next]_(Session!vars)
    BY StepRefines
  <1> QED
    BY <1>1, <1>2, Inductive, PTL DEF Spec, ImplementsSession, Session!Spec
=============================================================================
