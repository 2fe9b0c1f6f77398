--------------------------- MODULE MCReproduction ---------------------------
(* Two findings are enough for one case to be repaired while the other has
   its verdict, and for the second review to accept one and reject one. *)
EXTENDS Reproduction
=============================================================================
