-------------------------- MODULE MCCLPreparation --------------------------
(* Two builds, the revision of one of them with a letter; or one build, without. *)
EXTENDS CLPreparation, TLC
RevOfMC == "b1" :> "r498229" @@ "b2" :> "r498229b"
RevOfOneMC == "b1" :> "r498229"
TestersMC == Permutations(Testers)
=============================================================================
