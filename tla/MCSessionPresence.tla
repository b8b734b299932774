------------------------- MODULE MCSessionPresence -------------------------
(* Small instances of SessionPresence for TLC. *)
EXTENDS SessionPresence, TLC

CONSTANTS a1, a2, n1, n2

MCAuths == {a1, a2}
MCNames == {n1, n2}
Symm == Permutations(MCAuths) \cup Permutations(MCNames)
NoNpcs == {}
NpcInTheWay == {4}
=============================================================================
