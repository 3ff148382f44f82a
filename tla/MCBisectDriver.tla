--------------------------- MODULE MCBisectDriver ---------------------------
(* An object without side effects that has to be copied, one that is linked and has
   perhaps a .dwo, and one that appears after the caches were populated. *)
EXTENDS BisectDriver
SidesMC == [o \in All |-> IF o = "b" THEN {"dwo"} ELSE {}]
=============================================================================
