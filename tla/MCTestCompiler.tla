--------------------------- MODULE MCTestCompiler ---------------------------
(* Two devices. *)
EXTENDS TestCompiler
=============================================================================
