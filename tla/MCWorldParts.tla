---------------------------- MODULE MCWorldParts ----------------------------
(* Small instances of the components of WorldParts for TLC. *)
EXTENDS WorldParts

CONSTANT n1

\* The largest frame, the command with an answer of its own, one that no
\* handler knows, and the one the rate limit restricts most.
IntakeCommands ==
  {[type |-> "move", size |-> 3, readable |-> TRUE],
   [type |-> "disconnect", size |-> 1, readable |-> TRUE],
   [type |-> "unknown", size |-> 1, readable |-> TRUE],
   [type |-> "requestSnapshot", size |-> 1, readable |-> TRUE]}
=============================================================================
