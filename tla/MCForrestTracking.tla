------------------------- MODULE MCForrestTracking -------------------------
(* One configuration, submitted up to twice. *)
EXTENDS ForrestTracking
CONSTANTS c1, n1, n2
OneConfig == {c1}
OneNode == {n1}
=============================================================================
