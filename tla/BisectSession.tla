--------------------------- MODULE BisectSession ---------------------------
(***************************************************************************)
(* What a bisection of object files promises, without caches, lists, links  *)
(* or wrappers.  Two builds record what the good and the bad compiler make   *)
(* of every object, completely; then every further build is given, object    *)
(* by object, one of the two - or half of it, where a copy was stopped.      *)
(***************************************************************************)
CONSTANTS
    Objects,
    Copied       \* those that are copied into the build tree, which can stop half-way

VARIABLES
    stage,      \* BISECT_STAGE of the build: "good" and "bad" populate
    recorded,   \* for both compilers, the objects whose compilation is kept
    wanted,     \* which compiler's object the search asks for
    object,     \* which compiler made the object in the build tree
    delivered   \* the objects the build has been told are up to date

vars == << stage, recorded, wanted, object, delivered >>

Compilers == {"good", "bad"}

Init ==
    /\ stage = "good"
    /\ recorded = [c \in Compilers |-> {}]
    /\ wanted = [o \in Objects |-> "good"]
    /\ object = [o \in Objects |-> "none"]
    /\ delivered = {}

\* A compilation, or its repetition: all its files are recorded, or it is not.
Populate(o) ==
    /\ stage \in Compilers
    /\ \E mine \in {recorded[stage] \cup {o}, recorded[stage] \ {o}} :
           recorded' = [recorded EXCEPT ![stage] = mine]
    /\ \E made \in {stage, "none"} : object' = [object EXCEPT ![o] = made]
    /\ delivered' \in SUBSET (delivered \cup {o})
    /\ UNCHANGED << stage, wanted >>

\* A populating build ends when nothing is missing.
EndPopulate ==
    /\ stage \in Compilers /\ recorded[stage] = Objects
    /\ stage' = IF stage = "good" THEN "bad" ELSE "triage"
    /\ object' = [o \in Objects |-> "none"]
    /\ delivered' = {}
    /\ UNCHANGED << recorded, wanted >>

Search ==
    /\ stage = "triage"
    /\ wanted' \in [Objects -> Compilers]
    /\ object' \in [Objects -> {"none"} \cup Compilers]
    /\ \A o \in Objects : object'[o] \in {"none", wanted'[o]}
    /\ delivered' = {}
    /\ UNCHANGED << stage, recorded >>

\* Half a copy is not told from the object.
Torn(o) == IF o \in Copied THEN {"partial"} ELSE {}

\* Before it is delivered an object may be missing or freshly compiled.
Work(o) ==
    /\ stage = "triage" /\ o \notin delivered
    /\ \E made \in {"none", "new", wanted[o]} \cup Torn(o) :
           object' = [object EXCEPT ![o] = made]
    /\ UNCHANGED << stage, recorded, wanted, delivered >>

Deliver(o) ==
    /\ stage = "triage"
    /\ \E made \in {wanted[o]} \cup Torn(o) : object' = [object EXCEPT ![o] = made]
    /\ delivered' = delivered \cup {o}
    /\ UNCHANGED << stage, recorded, wanted >>

Next == EndPopulate \/ Search \/ \E o \in Objects : Populate(o) \/ Work(o) \/ Deliver(o)

Spec == Init /\ [][Next]_vars
=============================================================================
