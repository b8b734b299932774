-------------------------- MODULE SessionPresence --------------------------
(***************************************************************************)
(* Sessions of the world server and their presence on the Field: what      *)
(* ServerRuntime::processFrame does to its ClientSessions, the             *)
(* SessionRegistry, the SessionLifecycle, the session <-> player maps of   *)
(* Field and the claimed names of FieldSessionPresence.                    *)
(*                                                                         *)
(* The server has one thread.  A frame accepts clients and receives from   *)
(* each ("receive"), drains the pending commands ("dispatch"), removes the *)
(* clients found closed, flushes ("flush"), removes again and is "idle".   *)
(* A command is handled in one step, as nothing else runs meanwhile; the   *)
(* order between connections is left open.  A command that is rejected     *)
(* without a state change is a stuttering step and has no action here.     *)
(***************************************************************************)
EXTENDS Integers

CONSTANTS
  MaxId,        \* numeric_limits<int64_t>::max(): no session or gameplay id reaches it
  MaxConn,      \* numeric_limits<uint64_t>::max(): no connection id reaches it
  Auths,        \* the authenticated PlayerIds the port can return
  Names,        \* non-empty trimmed player names
  NpcIds,       \* the ids of the NPCs on the Field
  NoAuth, NoName

ASSUME BoundsAssumption ==
  /\ MaxId \in Nat \ {0}
  /\ MaxConn \in Nat \ {0}

ASSUME ValuesAssumption ==
  /\ NpcIds \subseteq Nat
  /\ NoAuth \notin Auths
  /\ NoName \notin Names

Ids == 1..(MaxId - 1)
Conns == 1..(MaxConn - 1)

VARIABLES
  running,            \* ServerRuntime::running
  phase,              \* where processFrame is
  client,             \* clients: the state of each ClientSession
  nextConnectionId,
  bindings,           \* SessionLifecycle::bindings, 0 where there is none
  activeSessions,     \* SessionRegistry::activeSessions
  nextInternalId,
  sessionToPlayerId,  \* Field's two maps, 0 where there is no entry
  playerToSessionId,
  nextGameplayId,
  playerAuth,         \* Field::playerList: the auth id of the player with that id,
  playerName,         \*   NoAuth where there is no such player, and its name
  claimedName,        \* FieldSessionPresence's operatorNamesByAuthId
  account             \* history: the auth id the port returned for a session

fieldMaps == <<sessionToPlayerId, playerToSessionId>>
players == <<playerAuth, playerName>>
vars == <<running, phase, client, nextConnectionId, bindings, activeSessions,
          nextInternalId, sessionToPlayerId, playerToSessionId, nextGameplayId,
          playerAuth, playerName, claimedName, account>>

TypeOK ==
  /\ running \in BOOLEAN
  /\ phase \in {"idle", "receive", "dispatch", "flush"}
  /\ client \in [Conns -> {"none", "open", "closing", "closed"}]
  /\ nextConnectionId \in 1..MaxConn
  /\ bindings \in [Conns -> Ids \cup {0}]
  /\ activeSessions \subseteq Ids
  /\ nextInternalId \in 1..MaxId
  /\ sessionToPlayerId \in [Ids -> Ids \cup {0}]
  /\ playerToSessionId \in [Ids -> Ids \cup {0}]
  /\ nextGameplayId \in 1..MaxId
  /\ playerAuth \in [Ids -> Auths \cup {NoAuth}]
  /\ playerName \in [Ids -> Names \cup {NoName}]
  /\ claimedName \in [Auths -> Names \cup {NoName}]
  /\ account \in [Ids -> Auths \cup {NoAuth}]

Init ==
  /\ running = FALSE
  /\ phase = "idle"
  /\ client = [c \in Conns |-> "none"]
  /\ nextConnectionId = 1
  /\ bindings = [c \in Conns |-> 0]
  /\ activeSessions = {}
  /\ nextInternalId = 1
  /\ sessionToPlayerId = [s \in Ids |-> 0]
  /\ playerToSessionId = [g \in Ids |-> 0]
  /\ nextGameplayId = 1
  /\ playerAuth = [g \in Ids |-> NoAuth]
  /\ playerName = [g \in Ids |-> NoName]
  /\ claimedName = [a \in Auths |-> NoName]
  /\ account = [s \in Ids |-> NoAuth]

-----------------------------------------------------------------------------
(* Field *)

resident == {g \in Ids : playerAuth[g] # NoAuth}

\* One namespace: an id is first a gameplay id, then a session id.
resolvePlayerId(id) == IF id \in resident THEN id ELSE sessionToPlayerId[id]

\* unbindSession for each session of S; 0 stands for no session.
unbindSessions(S) ==
  /\ sessionToPlayerId' =
       [s \in Ids |-> IF s \in S THEN 0 ELSE sessionToPlayerId[s]]
  /\ playerToSessionId' =
       [g \in Ids |-> IF \E s \in S \ {0} : sessionToPlayerId[s] = g
                        THEN 0 ELSE playerToSessionId[g]]

\* Mutant of bindSession: the player's previous session is not dropped.
bindSession_keepPrevious(s, g) ==
  /\ sessionToPlayerId' = [sessionToPlayerId EXCEPT ![s] = g]
  /\ playerToSessionId' = [playerToSessionId EXCEPT ![g] = s]

\* bindSession: a session holds one player and a player one session, the
\* previous ones of both are dropped from the maps.
bindSession(s, g) ==
  /\ sessionToPlayerId' =
       [t \in Ids |-> IF t = s THEN g
                      ELSE IF t = playerToSessionId[g] THEN 0
                      ELSE sessionToPlayerId[t]]
  /\ playerToSessionId' =
       [h \in Ids |-> IF h = g THEN s
                      ELSE IF h = sessionToPlayerId[s] THEN 0
                      ELSE playerToSessionId[h]]

\* Mutants of freeGameplayIds: ids of bound sessions are not skipped; ids are
\* taken from 1 again and players are not skipped.
freeGameplayIds_boundToo ==
  {n \in Ids : n >= nextGameplayId /\ n \notin resident /\ n \notin NpcIds}
freeGameplayIds_residentToo ==
  {n \in Ids : n \notin NpcIds /\ sessionToPlayerId[n] = 0}

\* The candidates allocateGameplayId does not skip; it returns the first.
freeGameplayIds ==
  {n \in Ids : /\ n >= nextGameplayId
               /\ n \notin resident
               /\ n \notin NpcIds
               /\ sessionToPlayerId[n] = 0}

hasPlayerName(n) == \E g \in resident : playerName[g] = n
nameClaimedByOtherAuth(n, a) == \E b \in Auths \ {a} : claimedName[b] = n
nameTakenOnFieldByOther(n, a) ==
  /\ \A g \in resident : playerAuth[g] = a => playerName[g] # n
  /\ hasPlayerName(n)

-----------------------------------------------------------------------------
(* FieldSessionPresence::placeAfterLogin(s), its outcomes *)

\* The auth id already has a player on the Field: the session takes it over.
Rebind(s, a) ==
  \E g \in resident :
    /\ playerAuth[g] = a
    /\ bindSession(s, g)
    /\ UNCHANGED <<players, nextGameplayId, claimedName>>

\* The name the player is placed with: the claimed one, else the one of the
\* spawn settings, which useSpawnSettings may have replaced before any login.
displayName(a, settingsName) ==
  IF claimedName[a] # NoName THEN claimedName[a] ELSE settingsName

\* Mutant of nameIsFree: only the names on the Field count, not the claims.
nameIsFree_ignoringClaims(n, a) == n # NoName /\ ~hasPlayerName(n)

nameIsFree(n, a) ==
  /\ n # NoName
  /\ ~nameClaimedByOtherAuth(n, a)
  /\ ~hasPlayerName(n)

\* Mutant of notOnField: a player without a session is overlooked.
notOnField_boundOnly(a) ==
  \A g \in resident : playerAuth[g] = a => playerToSessionId[g] = 0

notOnField(a) == \A g \in resident : playerAuth[g] # a

Spawn(s, a, n) ==
  /\ notOnField(a)
  /\ nameIsFree(n, a)
  /\ \E g \in freeGameplayIds :
       /\ \A h \in freeGameplayIds : g <= h
       /\ nextGameplayId' = g + 1
       /\ playerAuth' = [playerAuth EXCEPT ![g] = a]
       /\ playerName' = [playerName EXCEPT ![g] = n]
       /\ claimedName' = [claimedName EXCEPT ![a] = n]
       /\ bindSession(s, g)

\* No player id from the port, no usable name, or no gameplay id left.  Then
\* the lifecycle ends the new session again.
CannotPlace(a, n) ==
  \/ /\ a = NoAuth \/ (notOnField(a) /\ ~nameIsFree(n, a))
     /\ UNCHANGED nextGameplayId
  \/ /\ a # NoAuth
     /\ notOnField(a)
     /\ nameIsFree(n, a)
     /\ freeGameplayIds = {}
     /\ nextGameplayId' = MaxId

-----------------------------------------------------------------------------
(* ServerRuntime *)

Start ==
  /\ ~running
  /\ running' = TRUE
  /\ UNCHANGED <<phase, client, nextConnectionId, bindings, activeSessions,
                 nextInternalId, fieldMaps, nextGameplayId, players,
                 claimedName, account>>

\* Mutant of Accept: no check that a connection id is left.
Accept_unchecked ==
  /\ running /\ phase = "receive"
  /\ nextConnectionId' = nextConnectionId + 1
  /\ UNCHANGED <<running, phase, client, bindings, activeSessions, nextInternalId,
                 fieldMaps, nextGameplayId, players, claimedName, account>>

\* acceptPendingClient.
Accept ==
  /\ running /\ phase = "receive"
  /\ nextConnectionId < MaxConn
  /\ client' = [client EXCEPT ![nextConnectionId] = "open"]
  /\ nextConnectionId' = nextConnectionId + 1
  /\ UNCHANGED <<running, phase, bindings, activeSessions, nextInternalId,
                 fieldMaps, nextGameplayId, players, claimedName, account>>

isOpen(c) == client[c] \in {"open", "closing"}

\* receive or flushOutbound finds the peer gone, or flushOutbound has sent the
\* last frame of a session that closes after the flush.
CloseSocket(c) ==
  /\ running /\ phase \in {"receive", "flush"}
  /\ isOpen(c)
  /\ client' = [client EXCEPT ![c] = "closed"]
  /\ UNCHANGED <<running, phase, nextConnectionId, bindings, activeSessions,
                 nextInternalId, fieldMaps, nextGameplayId, players,
                 claimedName, account>>

\* A Login whose challenge the authentication accepted, on a connection that
\* has no session yet: a new session is opened, bound to the connection and
\* placed for the auth id a the port returns.
LoginPlaced(c, a, settingsName) ==
  LET s == nextInternalId IN
  /\ running /\ phase = "dispatch"
  /\ isOpen(c)
  /\ bindings[c] = 0
  /\ s < MaxId
  /\ \/ Rebind(s, a)
     \/ Spawn(s, a, displayName(a, settingsName))
  /\ nextInternalId' = s + 1
  /\ activeSessions' = activeSessions \cup {s}
  /\ bindings' = [bindings EXCEPT ![c] = s]
  /\ account' = [account EXCEPT ![s] = a]
  /\ UNCHANGED <<running, phase, client, nextConnectionId>>

\* The same, when the session cannot be placed: it is logged out and unbound
\* in the same step, and only its id is used up.
LoginNotPlaced(c, a, settingsName) ==
  /\ running /\ phase = "dispatch"
  /\ isOpen(c)
  /\ bindings[c] = 0
  /\ nextInternalId < MaxId
  /\ CannotPlace(a, IF a = NoAuth THEN NoName ELSE displayName(a, settingsName))
  /\ nextInternalId' = nextInternalId + 1
  /\ UNCHANGED <<running, phase, client, nextConnectionId, bindings,
                 activeSessions, fieldMaps, players, claimedName, account>>

\* An accepted Disconnect naming session s: DisconnectCommandHandler ends s,
\* the runtime ends the session of the connection.  The connection closes
\* after its flush if the response fits into the outbound queue.  (The rate
\* limit of 2 is never met: the first accepted Disconnect clears the count.)
Disconnect(c, s, responseFits) ==
  /\ running /\ phase = "dispatch"
  /\ isOpen(c)
  /\ s \in activeSessions
  /\ unbindSessions({s})
  /\ activeSessions' = activeSessions \ {s, bindings[c]}
  /\ bindings' = [bindings EXCEPT ![c] = 0]
  /\ client' = [client EXCEPT ![c] = IF responseFits THEN "closing" ELSE @]
  /\ UNCHANGED <<running, phase, nextConnectionId, nextInternalId,
                 nextGameplayId, players, claimedName, account>>

\* Mutant of removeClosedClients: the client goes, its session does not.
removeClosedClients_only ==
  /\ client' = [c \in Conns |-> IF client[c] = "closed" THEN "none" ELSE client[c]]
  /\ bindings' = [c \in Conns |-> IF client[c] = "closed" THEN 0 ELSE bindings[c]]
  /\ UNCHANGED <<fieldMaps, activeSessions>>

\* removeClosedClients.
removeClosedClients ==
  LET gone == {c \in Conns : client[c] = "closed"}
      ended == {bindings[c] : c \in gone}
  IN /\ unbindSessions(ended)
     /\ activeSessions' = activeSessions \ ended
     /\ bindings' = [c \in Conns |-> IF c \in gone THEN 0 ELSE bindings[c]]
     /\ client' = [c \in Conns |-> IF c \in gone THEN "none" ELSE client[c]]

BeginFrame ==
  /\ running /\ phase = "idle"
  /\ phase' = "receive"
  /\ UNCHANGED <<running, client, nextConnectionId, bindings, activeSessions,
                 nextInternalId, fieldMaps, nextGameplayId, players,
                 claimedName, account>>

EndReceive ==
  /\ running /\ phase = "receive"
  /\ phase' = "dispatch"
  /\ UNCHANGED <<running, client, nextConnectionId, bindings, activeSessions,
                 nextInternalId, fieldMaps, nextGameplayId, players,
                 claimedName, account>>

EndDispatch ==
  /\ running /\ phase = "dispatch"
  /\ phase' = "flush"
  /\ removeClosedClients
  /\ UNCHANGED <<running, nextConnectionId, nextInternalId, nextGameplayId,
                 players, claimedName, account>>

EndFlush ==
  /\ running /\ phase = "flush"
  /\ phase' = "idle"
  /\ removeClosedClients
  /\ UNCHANGED <<running, nextConnectionId, nextInternalId, nextGameplayId,
                 players, claimedName, account>>

\* stop(registry), between two frames: releaseAfterStop takes the players of
\* the connected sessions off the Field, the lifecycle logs its sessions out.
Stop ==
  LET held == {bindings[c] : c \in {d \in Conns : client[d] # "none"}} \ {0}
      released == {sessionToPlayerId[s] : s \in held}
  IN /\ running /\ phase = "idle"
     /\ running' = FALSE
     /\ unbindSessions(held)
     /\ playerAuth' = [g \in Ids |-> IF g \in released THEN NoAuth ELSE playerAuth[g]]
     /\ playerName' = [g \in Ids |-> IF g \in released THEN NoName ELSE playerName[g]]
     /\ activeSessions' = activeSessions \ {bindings[c] : c \in Conns}
     /\ bindings' = [c \in Conns |-> 0]
     /\ client' = [c \in Conns |-> "none"]
     /\ UNCHANGED <<phase, nextConnectionId, nextInternalId, nextGameplayId,
                    claimedName, account>>

\* operatorSetPlayerName(a, n), between two frames.
OperatorSetPlayerName(a, n) ==
  /\ phase = "idle"
  /\ ~nameClaimedByOtherAuth(n, a)
  /\ ~nameTakenOnFieldByOther(n, a)
  /\ playerName' = [g \in Ids |-> IF playerAuth[g] = a THEN n ELSE playerName[g]]
  /\ claimedName' = [claimedName EXCEPT ![a] = n]
  /\ UNCHANGED <<running, phase, client, nextConnectionId, bindings,
                 activeSessions, nextInternalId, fieldMaps, nextGameplayId,
                 playerAuth, account>>

\* usePlayerIdPort(0), between two frames, forgets every claim.
UseDefaultPort ==
  /\ phase = "idle"
  /\ claimedName' = [a \in Auths |-> NoName]
  /\ UNCHANGED <<running, phase, client, nextConnectionId, bindings,
                 activeSessions, nextInternalId, fieldMaps, nextGameplayId,
                 players, account>>

Next ==
  \/ Start
  \/ Accept
  \/ BeginFrame \/ EndReceive \/ EndDispatch \/ EndFlush
  \/ Stop
  \/ UseDefaultPort
  \/ \E a \in Auths, n \in Names : OperatorSetPlayerName(a, n)
  \/ \E c \in Conns :
       \/ CloseSocket(c)
       \/ \E a \in Auths, n \in Names \cup {NoName} : LoginPlaced(c, a, n)
       \/ \E a \in Auths \cup {NoAuth}, n \in Names \cup {NoName} :
            LoginNotPlaced(c, a, n)
       \/ \E s \in Ids, fits \in BOOLEAN : Disconnect(c, s, fits)

Spec == Init /\ [][Next]_vars

\* The frame loop of ServerMain runs for as long as the server does.
FairSpec ==
  /\ Spec
  /\ WF_vars(BeginFrame) /\ WF_vars(EndReceive)
  /\ WF_vars(EndDispatch) /\ WF_vars(EndFlush)

-----------------------------------------------------------------------------
(* Properties *)

\* Field's two maps stay inverse to each other and never point to a player
\* that is off the Field, whatever the order of logins, takeovers of a player
\* by a newer session, disconnects, lost sockets and stops (Field::bindSession,
\* unbindSession, unsetPlayer).
BindingsInverse ==
  /\ \A s \in Ids : sessionToPlayerId[s] # 0 =>
       /\ sessionToPlayerId[s] \in resident
       /\ playerToSessionId[sessionToPlayerId[s]] = s
  /\ \A g \in Ids : playerToSessionId[g] # 0 =>
       sessionToPlayerId[playerToSessionId[g]] = g

\* An account has at most one player on the Field, and a session that is bound
\* to a player is a session of that player's account (placeAfterLogin looks the
\* auth id up before it spawns).
OnePlayerPerAccount ==
  /\ \A g, h \in resident : playerAuth[g] = playerAuth[h] => g = h
  /\ \A s \in Ids : sessionToPlayerId[s] # 0 =>
       playerAuth[sessionToPlayerId[s]] = account[s]

\* Names are exclusive: two players on the Field, two claims, and a player and
\* another account's claim never share one; a claim outlives its player, and
\* forgetting all claims does not let a name be used twice.
NamesExclusive ==
  /\ \A g \in resident : playerName[g] # NoName
  /\ \A g, h \in resident : playerName[g] = playerName[h] => g = h
  /\ \A a, b \in Auths : claimedName[a] # NoName /\ claimedName[a] = claimedName[b] => a = b
  /\ \A g \in resident, a \in Auths : claimedName[a] = playerName[g] => playerAuth[g] = a

\* Commands name a session and Field::resolvePlayerId looks the number up as a
\* gameplay id first: a session that is bound to a player still resolves to
\* that player and to no other one that happens to have its number.
BoundSessionNamesOwnPlayer ==
  \A s \in Ids : sessionToPlayerId[s] # 0 => resolvePlayerId(s) = sessionToPlayerId[s]

\* The same for every session whose commands the dispatcher accepts: it acts on
\* no player but its own account's.
ActiveSessionNamesOwnPlayer ==
  \A s \in activeSessions :
    LET g == resolvePlayerId(s) IN g # 0 => playerAuth[g] = account[s]

\* Every active session is held by a connection, and no session by two, although
\* a Disconnect may name the session of another connection: it ends that one and
\* its own, and leaves the other connection with a session that is over.  A
\* removed connection holds none.
SessionsHeldByConnections ==
  /\ activeSessions \subseteq {bindings[c] : c \in Conns}
  /\ \A c, d \in Conns : bindings[c] # 0 /\ bindings[c] = bindings[d] => c = d
  /\ \A c \in Conns : client[c] = "none" => bindings[c] = 0

\* A session that has ended is off the Field: its player is in no public pose.
EndedSessionsLeaveField == \A s \in Ids : sessionToPlayerId[s] # 0 => s \in activeSessions

\* A player leaves the Field only when the server stops: a disconnect, a lost
\* socket or a takeover keeps the entity, its gameplay id and its account.
EntityOutlivesSession ==
  [][\A g \in resident : playerAuth'[g] = playerAuth[g] \/ (running /\ ~running')]_vars

\* A session whose socket is lost ends: the entity is off the public poses and
\* the session inactive, although only the frame loop looks for lost sockets.
LostSocketEndsSession ==
  \A s \in Ids :
    (\E c \in Conns : client[c] = "closed" /\ bindings[c] = s)
      ~> (sessionToPlayerId[s] = 0 /\ s \notin activeSessions)
=============================================================================
