---------------------------- MODULE MCPatchList ----------------------------
(* Two upstream commits in the order of their names, the first of them in LLVM soon. *)
EXTENDS PatchList, TLC
UntilOfMC == "u1" :> 2 @@ "u2" :> 3
=============================================================================
