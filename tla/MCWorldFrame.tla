---------------------------- MODULE MCWorldFrame ----------------------------
(* Small instances of WorldFrame for TLC. *)
EXTENDS WorldFrame, TLC

CONSTANTS s1, s2, s3, p1, p2, r1

\* s1 and s2 are two logins of p1, s3 is one of p2.
MCPlayerOf == s1 :> p1 @@ s2 :> p1 @@ s3 :> p2
MCSessions == {s1, s2, s3}
MCPlayers == {p1, p2}

\* One login of each player.
OnePlayerOf == s1 :> p1 @@ s3 :> p2
OneSessions == {s1, s3}
=============================================================================
