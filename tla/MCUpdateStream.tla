--------------------------- MODULE MCUpdateStream ---------------------------
(* Small instances of UpdateStream for TLC. *)
EXTENDS UpdateStream, TLC

CONSTANT c1

OneClient == {c1}
=============================================================================
