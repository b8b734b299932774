--------------------------- MODULE ChallengeLogin ---------------------------
(***************************************************************************)
(* Logging in with a challenge: seed_auth writes challenges into the       *)
(* database, each seed_server claims them, issues session keys, writes     *)
(* player_sessions and opens the session of its registry; keep-alive and   *)
(* logout work on the same rows.  The servers are processes that share     *)
(* nothing but the database; each is single threaded and may crash between *)
(* two transactions.                                                       *)
(*                                                                         *)
(* A key is the number of issue() calls of its process: std::rand is       *)
(* never seeded, so every process issues the same keys in the same order.  *)
(***************************************************************************)
EXTENDS Integers, Sequences, FiniteSets

CONSTANTS
  Servers,        \* seed_server processes
  Users,          \* registered users
  Idle,           \* no login in progress
  ChallengeTtl,   \* 120 seconds
  SessionTtl,     \* kSessionTtlSeconds
  MaxTime,        \* bound of the model: the clock
  MaxChallenges,  \* bound of the model: challenges issued
  MaxIssued       \* bound of the model: keys issued by a process

VARIABLES
  clock,           \* seconds, the same for every process
  challenges,      \* player_challenges: user, expiry, claimed
  playerSessions,  \* player_sessions by key: challenge and user, expiry, revoked
  login,           \* the login each server is working on
  issued,          \* calls of issue() since the process started
  gameplay,        \* sessions of the registry: challenge, user and key
  raised           \* challenges of the logins that ended in an exception

loginVars == <<clock, challenges, playerSessions, login, issued, gameplay, raised>>

Init ==
  /\ clock = 0
  /\ challenges = <<>>
  /\ playerSessions = [k \in {} |-> 0]
  /\ login = [s \in Servers |-> Idle]
  /\ issued = [s \in Servers |-> 0]
  /\ gameplay = [s \in Servers |-> <<>>]
  /\ raised = {}

-----------------------------------------------------------------------------
(* seed_auth *)

\* PlayerAuthenticationService::login has verified the password.
IssueChallenge(u) ==
  /\ Len(challenges) < MaxChallenges
  /\ challenges' = Append(challenges, [user |-> u, expires |-> clock + ChallengeTtl,
                                       claimed |-> FALSE])
  /\ UNCHANGED <<clock, playerSessions, login, issued, gameplay, raised>>

Logout(k) ==
  /\ ~playerSessions[k].revoked
  /\ playerSessions' = [playerSessions EXCEPT ![k].revoked = TRUE]
  /\ UNCHANGED <<clock, challenges, login, issued, gameplay, raised>>

-----------------------------------------------------------------------------
(* seed_server *)

stageOf(s) == IF login[s] = Idle THEN "idle" ELSE login[s].stage

\* loginWithChallenge reads the clock before it asks for the row.
BeginLogin(s, c) ==
  /\ login[s] = Idle
  /\ login' = [login EXCEPT ![s] = [stage |-> "begun", challenge |-> c, now |-> clock]]
  /\ UNCHANGED <<clock, challenges, playerSessions, issued, gameplay, raised>>

\* Mutant of claimable: claimed_at is not looked at.
claimable_again(c, now) == challenges[c].expires > now

claimable(c, now) == ~challenges[c].claimed /\ challenges[c].expires > now

\* FOR UPDATE waits for a transaction that has the row.
rowFree(s, c) == \A t \in Servers \ {s} : ~(stageOf(t) = "selected" /\ login[t].challenge = c)

\* The SELECT of claim: without a row the login is refused.
SelectChallenge(s) ==
  /\ stageOf(s) = "begun"
  /\ LET c == login[s].challenge IN
     /\ rowFree(s, c)
     /\ login' = [login EXCEPT ![s] =
          IF claimable(c, @.now) THEN [@ EXCEPT !.stage = "selected"] ELSE Idle]
  /\ UNCHANGED <<clock, challenges, playerSessions, issued, gameplay, raised>>

\* The UPDATE of claim and its commit.
ClaimChallenge(s) ==
  /\ stageOf(s) = "selected"
  /\ challenges' = [challenges EXCEPT ![login[s].challenge].claimed = TRUE]
  /\ login' = [login EXCEPT ![s].stage = "claimed"]
  /\ UNCHANGED <<clock, playerSessions, issued, gameplay, raised>>

\* The process is gone; another starts in its place.  A transaction that was
\* not committed leaves nothing.
restarted(s) ==
  /\ login' = [login EXCEPT ![s] = Idle]
  /\ issued' = [issued EXCEPT ![s] = 0]
  /\ gameplay' = [gameplay EXCEPT ![s] = <<>>]

\* Mutant of storable: INSERT ... ON CONFLICT DO UPDATE.
storable_upsert(k) == TRUE

\* session_token is the primary key of player_sessions.
storable(k) == k \notin DOMAIN playerSessions

\* issue() and create().
CreateSession(s) ==
  /\ stageOf(s) = "claimed"
  /\ issued[s] < MaxIssued
  /\ storable(issued[s] + 1)
  /\ LET key == issued[s] + 1
         c == login[s].challenge
     IN /\ playerSessions' = [k \in DOMAIN playerSessions \cup {key} |->
             IF k = key THEN [challenge |-> c, user |-> challenges[c].user,
                              expires |-> login[s].now + SessionTtl, revoked |-> FALSE]
             ELSE playerSessions[k]]
        /\ issued' = [issued EXCEPT ![s] = key]
        /\ login' = [login EXCEPT ![s].stage = "created"]
  /\ UNCHANGED <<clock, challenges, gameplay, raised>>

\* create() raises unique_violation, which nobody catches: the process ends.
CreateRaises(s) ==
  /\ stageOf(s) = "claimed"
  /\ issued[s] < MaxIssued
  /\ ~storable(issued[s] + 1)
  /\ raised' = raised \cup {login[s].challenge}
  /\ restarted(s)
  /\ UNCHANGED <<clock, challenges, playerSessions>>

\* openAuthenticated, and the result of the login.
OpenGameplay(s) ==
  /\ stageOf(s) = "created"
  /\ LET c == login[s].challenge IN
     gameplay' = [gameplay EXCEPT ![s] =
       Append(@, [challenge |-> c, user |-> challenges[c].user, key |-> issued[s]])]
  /\ login' = [login EXCEPT ![s] = Idle]
  /\ UNCHANGED <<clock, challenges, playerSessions, issued, raised>>

\* Mutant of active: a session that has run out is extended.
active_expired(k, now) == ~playerSessions[k].revoked

\* kActiveSessionPredicate.
active(k, now) == ~playerSessions[k].revoked /\ playerSessions[k].expires > now

\* The UPDATE of a keep-alive that has read the clock at now, perhaps long ago.
KeepAlive(k, now) ==
  /\ active(k, now)
  /\ playerSessions' = [playerSessions EXCEPT ![k].expires = now + SessionTtl]
  /\ UNCHANGED <<clock, challenges, login, issued, gameplay, raised>>

Crash(s) ==
  /\ restarted(s)
  /\ UNCHANGED <<clock, challenges, playerSessions, raised>>

SecondPasses ==
  /\ clock < MaxTime
  /\ clock' = clock + 1
  /\ UNCHANGED <<challenges, playerSessions, login, issued, gameplay, raised>>

Next ==
  \/ \E u \in Users : IssueChallenge(u)
  \/ \E k \in DOMAIN playerSessions : Logout(k) \/ \E now \in 0..clock : KeepAlive(k, now)
  \/ \E s \in Servers :
       \/ \E c \in DOMAIN challenges : BeginLogin(s, c)
       \/ SelectChallenge(s) \/ ClaimChallenge(s) \/ CreateSession(s) \/ CreateRaises(s)
       \/ OpenGameplay(s) \/ Crash(s)
  \/ SecondPasses

Spec == Init /\ [][Next]_loginVars

-----------------------------------------------------------------------------
(* Properties *)

\* A challenge is used once: however many servers are given it, at once, one
\* after the other or after a crash, it leads to one row of player_sessions and
\* to one gameplay session, both of the user it was issued to.
SingleUse ==
  /\ \A k, l \in DOMAIN playerSessions :
       playerSessions[k].challenge = playerSessions[l].challenge => k = l
  /\ \A s, t \in Servers : \A i \in DOMAIN gameplay[s], j \in DOMAIN gameplay[t] :
       gameplay[s][i].challenge = gameplay[t][j].challenge => s = t /\ i = j
  /\ \A k \in DOMAIN playerSessions :
       playerSessions[k].user = challenges[playerSessions[k].challenge].user

\* The session key a client has been given names the row of its own login, also
\* when another process, or the one before the restart, issued the same key.
KeysNameOwnLogin ==
  \A s \in Servers : \A i \in DOMAIN gameplay[s] :
    LET g == gameplay[s][i] IN
    g.key \in DOMAIN playerSessions /\ playerSessions[g.key].challenge = g.challenge

\* A session that was revoked is never valid again, on whichever server its
\* keep-alive comes.  One that has run out is valid again only through a keep-alive
\* that had read the clock before it did, and never for a whole lifetime from the
\* moment it ran out.
EndedStaysEnded ==
  [][\A k \in DOMAIN playerSessions :
       LET row == playerSessions[k]
           next == playerSessions'[k]
       IN (row.revoked \/ row.expires <= clock) /\ next.challenge = row.challenge =>
            \/ next.revoked \/ next.expires <= clock'
            \/ ~row.revoked /\ next.expires < row.expires + SessionTtl]_loginVars

\* A login that has claimed its challenge gets its session.
ClaimedLoginsSucceed == raised = {}
=============================================================================
