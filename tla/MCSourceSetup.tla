--------------------------- MODULE MCSourceSetup ---------------------------
(* Two revisions of LLVM and of the patches, on a host whose cp can clone. *)
EXTENDS SourceSetup
RevisionsMC == {"r1", "r2"}
PatchSetsMC == {"p1", "p2"}
ScriptShasMC == {"s1", "s2"}
=============================================================================
