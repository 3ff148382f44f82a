------------------------- MODULE MCUpdatePrebuilts -------------------------
(* A build with profiles and one without, of one revision; runs for all hosts and for
   Linux alone. *)
EXTENDS UpdatePrebuilts
HostChoicesMC == {AllHosts, << "linux-x86" >>}
=============================================================================
