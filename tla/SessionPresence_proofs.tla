----------------------- MODULE SessionPresence_proofs -----------------------
(***************************************************************************)
(* Proofs about SessionPresence, for every bound, every set of accounts    *)
(* and names, any NPCs, and clients that name any session.                 *)
(***************************************************************************)
EXTENDS SessionPresence, TLAPS

LEMMA IdsAreNat == Ids \subseteq Nat /\ 0 \notin Ids /\ Conns \subseteq Nat
  BY BoundsAssumption DEF Ids, Conns

\* unbindSessions keeps the types of Field's two maps.
LEMMA UnbindType ==
  ASSUME TypeOK, NEW S, unbindSessions(S)
  PROVE  /\ sessionToPlayerId' \in [Ids -> Ids \cup {0}]
         /\ playerToSessionId' \in [Ids -> Ids \cup {0}]
  BY DEF TypeOK, unbindSessions

\* bindSession keeps the types of Field's two maps.
LEMMA BindType ==
  ASSUME TypeOK, NEW s \in Ids, NEW g \in Ids, bindSession(s, g)
  PROVE  /\ sessionToPlayerId' \in [Ids -> Ids \cup {0}]
         /\ playerToSessionId' \in [Ids -> Ids \cup {0}]
  BY DEF TypeOK, bindSession

\* The session id a login uses is an id.
LEMMA FreshIsId ==
  ASSUME TypeOK, nextInternalId < MaxId
  PROVE  nextInternalId \in Ids /\ nextInternalId + 1 \in 1..MaxId
  BY BoundsAssumption DEF TypeOK, Ids

\* Every variable keeps its type.
THEOREM TypeCorrect == Spec => []TypeOK
<1>1. Init => TypeOK
  <2>1. 1 \in 1..MaxId /\ 1 \in 1..MaxConn
    BY BoundsAssumption
  <2>2. QED
    BY <2>1 DEF Init, TypeOK
<1>2. TypeOK /\ [Next]_vars => TypeOK'
  <2> SUFFICES ASSUME TypeOK, [Next]_vars PROVE TypeOK'
    OBVIOUS
  <2>1. CASE Start
    BY <2>1 DEF Start, TypeOK, fieldMaps, players
  <2>2. CASE Accept
    BY <2>2, BoundsAssumption DEF Accept, TypeOK, fieldMaps, players, Conns
  <2>3. CASE BeginFrame
    BY <2>3 DEF BeginFrame, TypeOK, fieldMaps, players
  <2>4. CASE EndReceive
    BY <2>4 DEF EndReceive, TypeOK, fieldMaps, players
  <2>5. CASE EndDispatch
    BY <2>5, UnbindType DEF EndDispatch, removeClosedClients, TypeOK, players
  <2>6. CASE EndFlush
    BY <2>6, UnbindType DEF EndFlush, removeClosedClients, TypeOK, players
  <2>7. CASE Stop
    BY <2>7, UnbindType DEF Stop, TypeOK
  <2>8. CASE UseDefaultPort
    BY <2>8 DEF UseDefaultPort, TypeOK, fieldMaps, players
  <2>9. ASSUME NEW a \in Auths, NEW n \in Names, OperatorSetPlayerName(a, n)
        PROVE  TypeOK'
    BY <2>9 DEF OperatorSetPlayerName, TypeOK, fieldMaps
  <2>10. ASSUME NEW c \in Conns, CloseSocket(c)
         PROVE  TypeOK'
    BY <2>10 DEF CloseSocket, TypeOK, fieldMaps, players
  <2>11. ASSUME NEW c \in Conns, NEW a \in Auths, NEW n \in Names \cup {NoName},
                LoginPlaced(c, a, n)
         PROVE  TypeOK'
    <3> DEFINE s == nextInternalId
    <3>1. s \in Ids /\ s + 1 \in 1..MaxId
      BY <2>11, FreshIsId DEF LoginPlaced
    <3>2. CASE Rebind(s, a)
      <4>1. PICK g \in resident : bindSession(s, g)
        BY <3>2 DEF Rebind
      <4>2. g \in Ids
        BY DEF resident
      <4>3. QED
        BY <2>11, <3>1, <3>2, <4>1, <4>2, BindType
        DEF LoginPlaced, Rebind, TypeOK, players
    <3>3. CASE Spawn(s, a, displayName(a, n))
      <4>1. PICK g \in freeGameplayIds :
              /\ nextGameplayId' = g + 1
              /\ playerAuth' = [playerAuth EXCEPT ![g] = a]
              /\ playerName' = [playerName EXCEPT ![g] = displayName(a, n)]
              /\ claimedName' = [claimedName EXCEPT ![a] = displayName(a, n)]
              /\ bindSession(s, g)
        BY <3>3 DEF Spawn
      <4>2. g \in Ids /\ g + 1 \in 1..MaxId
        BY BoundsAssumption DEF freeGameplayIds, Ids
      <4>3. displayName(a, n) \in Names \cup {NoName}
        BY DEF displayName, TypeOK
      <4>4. QED
        BY <2>11, <3>1, <4>1, <4>2, <4>3, BindType DEF LoginPlaced, TypeOK
    <3>4. QED
      BY <2>11, <3>2, <3>3 DEF LoginPlaced
  <2>12. ASSUME NEW c \in Conns, NEW a \in Auths \cup {NoAuth},
                NEW n \in Names \cup {NoName}, LoginNotPlaced(c, a, n)
         PROVE  TypeOK'
    BY <2>12, FreshIsId, BoundsAssumption
    DEF LoginNotPlaced, CannotPlace, TypeOK, fieldMaps, players
  <2>13. ASSUME NEW c \in Conns, NEW s \in Ids, NEW fits \in BOOLEAN,
                Disconnect(c, s, fits)
         PROVE  TypeOK'
    BY <2>13, UnbindType DEF Disconnect, TypeOK, players
  <2>14. CASE UNCHANGED vars
    BY <2>14 DEF vars, TypeOK
  <2>15. QED
    BY <2>1, <2>2, <2>3, <2>4, <2>5, <2>6, <2>7, <2>8, <2>9, <2>10, <2>11,
       <2>12, <2>13, <2>14 DEF Next
<1>3. QED
  BY <1>1, <1>2, PTL DEF Spec

-----------------------------------------------------------------------------
(* The two maps of Field *)

\* Unbinding sessions keeps the maps inverse, as long as the players of the
\* sessions that stay bound are not taken off the Field in the same step.
LEMMA UnbindKeepsInverse ==
  ASSUME TypeOK, BindingsInverse,
         NEW S \in SUBSET (Ids \cup {0}), unbindSessions(S),
         \A s \in Ids \ S : sessionToPlayerId[s] \in resident
                              => sessionToPlayerId[s] \in resident'
  PROVE  BindingsInverse'
<1>1. ASSUME NEW s \in Ids, sessionToPlayerId'[s] # 0
      PROVE  /\ sessionToPlayerId'[s] \in resident'
             /\ playerToSessionId'[sessionToPlayerId'[s]] = s
  <2>1. s \notin S /\ sessionToPlayerId'[s] = sessionToPlayerId[s]
    BY <1>1 DEF unbindSessions
  <2>2. /\ sessionToPlayerId[s] \in Ids
        /\ sessionToPlayerId[s] \in resident
        /\ playerToSessionId[sessionToPlayerId[s]] = s
    BY <1>1, <2>1 DEF BindingsInverse, TypeOK
  <2>3. ~ \E t \in S \ {0} : sessionToPlayerId[t] = sessionToPlayerId[s]
    BY <2>1, <2>2, IdsAreNat DEF BindingsInverse
  <2>4. QED
    BY <2>1, <2>2, <2>3 DEF unbindSessions
<1>2. ASSUME NEW g \in Ids, playerToSessionId'[g] # 0
      PROVE  sessionToPlayerId'[playerToSessionId'[g]] = g
  <2>1. /\ playerToSessionId'[g] = playerToSessionId[g]
        /\ ~ \E t \in S \ {0} : sessionToPlayerId[t] = g
    BY <1>2 DEF unbindSessions
  <2>2. /\ playerToSessionId[g] \in Ids
        /\ sessionToPlayerId[playerToSessionId[g]] = g
    BY <1>2, <2>1 DEF BindingsInverse, TypeOK
  <2>3. QED
    BY <2>1, <2>2, IdsAreNat DEF unbindSessions
<1>3. QED
  BY <1>1, <1>2 DEF BindingsInverse

\* Binding a session to a player keeps the maps inverse: what either of them
\* was bound to before is dropped.  The player is on the Field afterwards.
LEMMA BindKeepsInverse ==
  ASSUME TypeOK, BindingsInverse, NEW s \in Ids, NEW g \in Ids,
         bindSession(s, g), g \in resident', resident \subseteq resident'
  PROVE  BindingsInverse'
<1>1. ASSUME NEW t \in Ids, sessionToPlayerId'[t] # 0
      PROVE  /\ sessionToPlayerId'[t] \in resident'
             /\ playerToSessionId'[sessionToPlayerId'[t]] = t
  <2>1. CASE t = s
    BY <2>1 DEF bindSession
  <2>2. CASE t # s
    <3>1. sessionToPlayerId'[t] = sessionToPlayerId[t] /\ t # playerToSessionId[g]
      BY <1>1, <2>2 DEF bindSession
    <3>2. /\ sessionToPlayerId[t] \in Ids
          /\ sessionToPlayerId[t] \in resident
          /\ playerToSessionId[sessionToPlayerId[t]] = t
      BY <1>1, <3>1 DEF BindingsInverse, TypeOK
    <3>3. sessionToPlayerId[t] # g /\ sessionToPlayerId[t] # sessionToPlayerId[s]
      BY <2>2, <3>1, <3>2, IdsAreNat DEF BindingsInverse
    <3>4. QED
      BY <3>1, <3>2, <3>3 DEF bindSession
  <2>3. QED
    BY <2>1, <2>2
<1>2. ASSUME NEW h \in Ids, playerToSessionId'[h] # 0
      PROVE  sessionToPlayerId'[playerToSessionId'[h]] = h
  <2>1. CASE h = g
    BY <2>1 DEF bindSession
  <2>2. CASE h # g
    <3>1. playerToSessionId'[h] = playerToSessionId[h] /\ h # sessionToPlayerId[s]
      BY <1>2, <2>2 DEF bindSession
    <3>2. /\ playerToSessionId[h] \in Ids
          /\ sessionToPlayerId[playerToSessionId[h]] = h
      BY <1>2, <3>1 DEF BindingsInverse, TypeOK
    <3>3. playerToSessionId[h] # s /\ playerToSessionId[h] # playerToSessionId[g]
      BY <2>2, <3>1, <3>2, IdsAreNat DEF BindingsInverse
    <3>4. QED
      BY <3>1, <3>2, <3>3 DEF bindSession
  <2>3. QED
    BY <2>1, <2>2
<1>3. QED
  BY <1>1, <1>2 DEF BindingsInverse

\* The sessions that removeClosedClients and Stop unbind are ids.
LEMMA BindingsAreIds ==
  ASSUME TypeOK, NEW C \in SUBSET Conns
  PROVE  {bindings[c] : c \in C} \in SUBSET (Ids \cup {0})
  BY DEF TypeOK

\* What a placed login does to the Field: it binds the fresh session to a
\* player that is there already, or that it adds under a free id.
LEMMA PlacedBinds ==
  ASSUME TypeOK, NEW c \in Conns, NEW a \in Auths, NEW n \in Names \cup {NoName},
         LoginPlaced(c, a, n)
  PROVE  \E g \in Ids : /\ bindSession(nextInternalId, g)
                         /\ g \in resident'
                         /\ resident' = resident \cup {g}
<1>1. CASE Rebind(nextInternalId, a)
  BY <1>1 DEF Rebind, resident, players
<1>2. CASE Spawn(nextInternalId, a, displayName(a, n))
  <2>1. PICK g \in freeGameplayIds :
          /\ playerAuth' = [playerAuth EXCEPT ![g] = a]
          /\ bindSession(nextInternalId, g)
    BY <1>2 DEF Spawn
  <2>2. g \in Ids
    BY DEF freeGameplayIds
  <2>3. resident' = resident \cup {g}
    BY <2>1, <2>2, ValuesAssumption DEF resident, TypeOK
  <2>4. QED
    BY <2>1, <2>2, <2>3
<1>3. QED
  BY <1>1, <1>2 DEF LoginPlaced

\* A step that leaves the maps and the players alone keeps them inverse.
LEMMA InverseUnchanged ==
  ASSUME BindingsInverse, UNCHANGED <<fieldMaps, playerAuth>>
  PROVE  BindingsInverse'
  BY DEF BindingsInverse, fieldMaps, resident

\* The maps of Field are inverse to each other in every reachable state.
THEOREM BindingsAreInverse == Spec => []BindingsInverse
<1>1. Init => BindingsInverse
  BY DEF Init, BindingsInverse
<1>2. TypeOK /\ BindingsInverse /\ [Next]_vars => BindingsInverse'
  <2> SUFFICES ASSUME TypeOK, BindingsInverse, [Next]_vars PROVE BindingsInverse'
    OBVIOUS
  <2>1. CASE Start \/ Accept \/ BeginFrame \/ EndReceive \/ UseDefaultPort
    BY <2>1, InverseUnchanged
    DEF Start, Accept, BeginFrame, EndReceive, UseDefaultPort, players
  <2>2. ASSUME removeClosedClients, UNCHANGED players
        PROVE  BindingsInverse'
    <3> DEFINE ended == {bindings[c] : c \in {d \in Conns : client[d] = "closed"}}
    <3>1. ended \in SUBSET (Ids \cup {0}) /\ unbindSessions(ended)
      BY <2>2, BindingsAreIds DEF removeClosedClients
    <3>2. resident' = resident
      BY <2>2 DEF players, resident
    <3> HIDE DEF ended
    <3>3. QED
      BY <3>1, <3>2, UnbindKeepsInverse
  <2>3. CASE EndDispatch \/ EndFlush
    BY <2>2, <2>3 DEF EndDispatch, EndFlush
  <2>4. CASE Stop
    <3> DEFINE held == {bindings[c] : c \in {d \in Conns : client[d] # "none"}} \ {0}
               released == {sessionToPlayerId[s] : s \in held}
    <3>1. /\ unbindSessions(held)
          /\ playerAuth' = [g \in Ids |-> IF g \in released THEN NoAuth ELSE playerAuth[g]]
      BY <2>4 DEF Stop
    <3>2. held \in SUBSET Ids
      BY BindingsAreIds
    <3> HIDE DEF held
    <3>3. ASSUME NEW s \in Ids \ held, sessionToPlayerId[s] \in resident
          PROVE  sessionToPlayerId[s] \in resident'
      <4>1. sessionToPlayerId[s] # 0 /\ sessionToPlayerId[s] \in Ids
        BY <3>3, IdsAreNat DEF resident
      <4>2. sessionToPlayerId[s] \notin released
        BY <3>2, <3>3, <4>1 DEF BindingsInverse
      <4>3. QED
        BY <3>1, <3>3, <4>1, <4>2 DEF resident
    <3>4. QED
      BY <3>1, <3>2, <3>3, UnbindKeepsInverse
  <2>5. ASSUME NEW a \in Auths, NEW n \in Names, OperatorSetPlayerName(a, n)
        PROVE  BindingsInverse'
    BY <2>5, InverseUnchanged DEF OperatorSetPlayerName
  <2>6. ASSUME NEW c \in Conns, CloseSocket(c)
        PROVE  BindingsInverse'
    BY <2>6, InverseUnchanged DEF CloseSocket, players
  <2>7. ASSUME NEW c \in Conns, NEW a \in Auths, NEW n \in Names \cup {NoName},
               LoginPlaced(c, a, n)
        PROVE  BindingsInverse'
    <3>1. nextInternalId \in Ids
      BY <2>7, FreshIsId DEF LoginPlaced
    <3>2. PICK g \in Ids : /\ bindSession(nextInternalId, g)
                           /\ g \in resident'
                           /\ resident' = resident \cup {g}
      BY <2>7, PlacedBinds
    <3>3. QED
      BY <3>1, <3>2, BindKeepsInverse
  <2>8. ASSUME NEW c \in Conns, NEW a \in Auths \cup {NoAuth},
               NEW n \in Names \cup {NoName}, LoginNotPlaced(c, a, n)
        PROVE  BindingsInverse'
    BY <2>8, InverseUnchanged DEF LoginNotPlaced, players
  <2>9. ASSUME NEW c \in Conns, NEW s \in Ids, NEW fits \in BOOLEAN,
               Disconnect(c, s, fits)
        PROVE  BindingsInverse'
    <3>1. unbindSessions({s}) /\ resident' = resident
      BY <2>9 DEF Disconnect, players, resident
    <3>2. QED
      BY <3>1, UnbindKeepsInverse
  <2>10. CASE UNCHANGED vars
    BY <2>10, InverseUnchanged DEF vars, fieldMaps
  <2>11. QED
    BY <2>1, <2>3, <2>4, <2>5, <2>6, <2>7, <2>8, <2>9, <2>10 DEF Next
<1>3. QED
  BY <1>1, <1>2, TypeCorrect, PTL DEF Spec

-----------------------------------------------------------------------------
(* Sessions and players share one number space *)

\* No NPC has a number that a session or a player can get.
NpcsOutOfReach == NpcIds \cap Ids = {}

\* Session ids are handed out at least as fast as gameplay ids, so a player's
\* number is never one that a later session gets.
NumbersInOrder ==
  /\ nextGameplayId <= nextInternalId
  /\ \A g \in resident : g < nextGameplayId
  /\ \A s \in Ids : sessionToPlayerId[s] # 0 => s < nextInternalId

NamesInv == NumbersInOrder /\ BoundSessionNamesOwnPlayer

\* A step that binds nothing and adds no player keeps the numbers in order.
LEMMA FewerBindings ==
  ASSUME TypeOK, NamesInv,
         resident' \subseteq resident,
         UNCHANGED nextGameplayId,
         nextInternalId' >= nextInternalId, nextInternalId' \in Nat,
         \A s \in Ids : sessionToPlayerId'[s] \in {0, sessionToPlayerId[s]}
  PROVE  NamesInv'
<1>1. nextGameplayId \in Nat /\ nextInternalId \in Nat
  BY DEF TypeOK
<1>2. NumbersInOrder'
  <2>1. nextGameplayId' <= nextInternalId'
    BY <1>1 DEF NamesInv, NumbersInOrder
  <2>2. \A g \in resident' : g < nextGameplayId'
    BY DEF NamesInv, NumbersInOrder
  <2>3. ASSUME NEW s \in Ids, sessionToPlayerId'[s] # 0
        PROVE  s < nextInternalId'
    <3>1. s \in Nat /\ s < nextInternalId
      BY <2>3, IdsAreNat DEF NamesInv, NumbersInOrder
    <3>2. QED
      BY <1>1, <3>1
  <2>4. QED
    BY <2>1, <2>2, <2>3 DEF NumbersInOrder
<1>3. BoundSessionNamesOwnPlayer'
  BY DEF NamesInv, BoundSessionNamesOwnPlayer, resolvePlayerId
<1>4. QED
  BY <1>2, <1>3 DEF NamesInv

\* Where no NPC is in the way, the fresh session id is itself free as a
\* gameplay id, so the id allocateGameplayId returns is not above it.
LEMMA FreshIdIsFree ==
  ASSUME TypeOK, NamesInv, NpcsOutOfReach, nextInternalId < MaxId
  PROVE  nextInternalId \in freeGameplayIds
<1>1. nextInternalId \in Ids /\ nextInternalId >= nextGameplayId
  BY FreshIsId DEF NamesInv, NumbersInOrder, TypeOK
<1>2. nextInternalId \notin resident
  BY IdsAreNat DEF NamesInv, NumbersInOrder, TypeOK, resident
<1>3. sessionToPlayerId[nextInternalId] = 0
  BY <1>1, IdsAreNat DEF NamesInv, NumbersInOrder
<1>4. QED
  BY <1>1, <1>2, <1>3 DEF freeGameplayIds, NpcsOutOfReach

\* A session that takes over a player of its account.
LEMMA RebindKeepsNames ==
  ASSUME TypeOK, NamesInv, NEW a \in Auths,
         nextInternalId < MaxId, nextInternalId' = nextInternalId + 1,
         Rebind(nextInternalId, a)
  PROVE  NamesInv'
<1>1. PICK g \in resident : bindSession(nextInternalId, g)
  BY DEF Rebind
<1>2. resident' = resident /\ UNCHANGED nextGameplayId
  BY DEF Rebind, players, resident
<1>3. nextInternalId \in Ids /\ nextInternalId \in Nat /\ nextGameplayId \in Nat
  BY FreshIsId DEF TypeOK
<1>4. nextInternalId \notin resident
  BY <1>3, IdsAreNat DEF NamesInv, NumbersInOrder, resident
<1>5. NumbersInOrder'
  BY <1>1, <1>2, <1>3, IdsAreNat DEF NamesInv, NumbersInOrder, bindSession, resident
<1>6. BoundSessionNamesOwnPlayer'
  BY <1>1, <1>2, <1>3, <1>4
  DEF NamesInv, BoundSessionNamesOwnPlayer, resolvePlayerId, bindSession
<1>7. QED
  BY <1>5, <1>6 DEF NamesInv

\* A session for which a new player is spawned.
LEMMA SpawnKeepsNames ==
  ASSUME TypeOK, BindingsInverse, NamesInv, NpcsOutOfReach, NEW a \in Auths, NEW n,
         nextInternalId < MaxId, nextInternalId' = nextInternalId + 1,
         Spawn(nextInternalId, a, n)
  PROVE  NamesInv'
<1>1. PICK g \in freeGameplayIds :
        /\ \A h \in freeGameplayIds : g <= h
        /\ nextGameplayId' = g + 1
        /\ playerAuth' = [playerAuth EXCEPT ![g] = a]
        /\ bindSession(nextInternalId, g)
  BY DEF Spawn
<1>2. /\ g \in Ids /\ g \in Nat /\ g >= nextGameplayId /\ g <= nextInternalId
      /\ g \notin resident /\ sessionToPlayerId[g] = 0
  BY <1>1, FreshIdIsFree, IdsAreNat DEF freeGameplayIds
<1>3. resident' = resident \cup {g}
  BY <1>1, <1>2, ValuesAssumption DEF resident, TypeOK
<1>4. nextInternalId \in Ids /\ nextInternalId \in Nat /\ nextGameplayId \in Nat
  BY FreshIsId DEF TypeOK
<1>5. nextInternalId \notin resident
  BY <1>4, IdsAreNat DEF NamesInv, NumbersInOrder, resident
<1>6. NumbersInOrder'
  <2>1. nextGameplayId' <= nextInternalId'
    BY <1>1, <1>2, <1>4
  <2>2. ASSUME NEW h \in resident' PROVE h < nextGameplayId'
    <3>1. h \in Nat /\ (h = g \/ h < nextGameplayId)
      BY <1>2, <1>3, IdsAreNat DEF NamesInv, NumbersInOrder, resident
    <3>2. QED
      BY <3>1, <1>1, <1>2, <1>4
  <2>3. ASSUME NEW s \in Ids, sessionToPlayerId'[s] # 0 PROVE s < nextInternalId'
    BY <2>3, <1>1, <1>2, <1>4, IdsAreNat DEF NamesInv, NumbersInOrder, bindSession
  <2>4. QED
    BY <2>1, <2>2, <2>3 DEF NumbersInOrder
<1>7. BoundSessionNamesOwnPlayer'
  <2> SUFFICES ASSUME NEW s \in Ids, sessionToPlayerId'[s] # 0, s \in resident'
               PROVE  sessionToPlayerId'[s] = s
    BY DEF BoundSessionNamesOwnPlayer, resolvePlayerId
  <2>1. CASE s = nextInternalId
    BY <2>1, <1>1, <1>3, <1>5 DEF bindSession
  <2>2. CASE s # nextInternalId
    <3>1. sessionToPlayerId'[s] = sessionToPlayerId[s] /\ sessionToPlayerId[s] # 0
      BY <2>2, <1>1 DEF bindSession
    <3>2. s \in resident
      BY <3>1, <1>2, <1>3
    <3>3. QED
      BY <3>1, <3>2 DEF NamesInv, BoundSessionNamesOwnPlayer, resolvePlayerId
  <2>3. QED
    BY <2>1, <2>2
<1>8. QED
  BY <1>6, <1>7 DEF NamesInv

\* If no NPC has a number in the way, a bound session's commands reach its own
\* player and no other, in every reachable state.
THEOREM BoundSessionsNameOwnPlayer ==
  ASSUME NpcsOutOfReach
  PROVE  Spec => []BoundSessionNamesOwnPlayer
<1>1. Init => NamesInv
  BY BoundsAssumption
  DEF Init, NamesInv, NumbersInOrder, BoundSessionNamesOwnPlayer, resident
<1>2. TypeOK /\ BindingsInverse /\ NamesInv /\ [Next]_vars => NamesInv'
  <2> SUFFICES ASSUME TypeOK, BindingsInverse, NamesInv, [Next]_vars PROVE NamesInv'
    OBVIOUS
  <2> nextInternalId \in Nat
    BY DEF TypeOK
  <2>0. ASSUME UNCHANGED <<fieldMaps, playerAuth, nextGameplayId, nextInternalId>>
        PROVE  NamesInv'
    BY <2>0, FewerBindings DEF fieldMaps, resident
  <2>1. CASE Start \/ Accept \/ BeginFrame \/ EndReceive \/ UseDefaultPort
    BY <2>0, <2>1 DEF Start, Accept, BeginFrame, EndReceive, UseDefaultPort, players
  <2>2. ASSUME NEW S, unbindSessions(S), resident' \subseteq resident,
               UNCHANGED <<nextGameplayId, nextInternalId>>
        PROVE  NamesInv'
    BY <2>2, FewerBindings DEF unbindSessions
  <2>3. CASE EndDispatch \/ EndFlush
    BY <2>2, <2>3 DEF EndDispatch, EndFlush, removeClosedClients, players, resident
  <2>4. CASE Stop
    <3>1. resident' \subseteq resident
      BY <2>4 DEF Stop, resident
    <3>2. QED
      BY <2>2, <2>4, <3>1 DEF Stop
  <2>5. ASSUME NEW a \in Auths, NEW n \in Names, OperatorSetPlayerName(a, n)
        PROVE  NamesInv'
    BY <2>0, <2>5 DEF OperatorSetPlayerName
  <2>6. ASSUME NEW c \in Conns, CloseSocket(c)
        PROVE  NamesInv'
    BY <2>0, <2>6 DEF CloseSocket, players
  <2>7. ASSUME NEW c \in Conns, NEW a \in Auths, NEW n \in Names \cup {NoName},
               LoginPlaced(c, a, n)
        PROVE  NamesInv'
    BY <2>7, RebindKeepsNames, SpawnKeepsNames DEF LoginPlaced
  <2>8. ASSUME NEW c \in Conns, NEW a \in Auths \cup {NoAuth},
               NEW n \in Names \cup {NoName}, LoginNotPlaced(c, a, n)
        PROVE  NamesInv'
    <3>1. UNCHANGED nextGameplayId
      BY <2>8, FreshIdIsFree DEF LoginNotPlaced, CannotPlace
    <3>2. QED
      BY <2>8, <3>1, FewerBindings DEF LoginNotPlaced, fieldMaps, players, resident
  <2>9. ASSUME NEW c \in Conns, NEW s \in Ids, NEW fits \in BOOLEAN,
               Disconnect(c, s, fits)
        PROVE  NamesInv'
    BY <2>2, <2>9 DEF Disconnect, players, resident
  <2>10. CASE UNCHANGED vars
    BY <2>0, <2>10 DEF vars, fieldMaps
  <2>11. QED
    BY <2>1, <2>3, <2>4, <2>5, <2>6, <2>7, <2>8, <2>9, <2>10 DEF Next
<1>3. QED
  BY <1>1, <1>2, TypeCorrect, BindingsAreInverse, PTL DEF Spec, NamesInv

-----------------------------------------------------------------------------
(* Accounts *)

\* What Stop does to the Field: the sessions of S are unbound and exactly
\* their players leave.
ReleasePlayers(S) ==
  /\ unbindSessions(S)
  /\ playerAuth' = [g \in Ids |-> IF g \in {sessionToPlayerId[s] : s \in S}
                                    THEN NoAuth ELSE playerAuth[g]]

\* Stop releases the players of sessions, and keeps the names of the others.
LEMMA StopReleases ==
  ASSUME TypeOK, Stop
  PROVE  \E S \in SUBSET Ids :
           /\ ReleasePlayers(S)
           /\ \A g \in resident' : g \in resident /\ playerName'[g] = playerName[g]
<1> DEFINE held == {bindings[c] : c \in {d \in Conns : client[d] # "none"}} \ {0}
           released == {sessionToPlayerId[s] : s \in held}
<1>1. held \in SUBSET Ids
  BY BindingsAreIds
<1>2. /\ unbindSessions(held)
      /\ playerAuth' = [g \in Ids |-> IF g \in released THEN NoAuth ELSE playerAuth[g]]
      /\ playerName' = [g \in Ids |-> IF g \in released THEN NoName ELSE playerName[g]]
  BY DEF Stop
<1>3. ReleasePlayers(held)
  BY <1>2 DEF ReleasePlayers
<1>4. ASSUME NEW g \in resident'
      PROVE  g \in resident /\ playerName'[g] = playerName[g]
  <2> HIDE DEF held
  <2>1. g \in Ids /\ g \notin released
    BY <1>2 DEF resident
  <2>2. QED
    BY <1>2, <2>1 DEF resident
<1> HIDE DEF held, released
<1>5. QED
  BY <1>1, <1>3, <1>4

\* A step that adds no player, moves no player to another account and binds
\* nothing keeps one player to an account.
LEMMA AccountsUnchanged ==
  ASSUME TypeOK, BindingsInverse, OnePlayerPerAccount, UNCHANGED <<playerAuth, account>>,
         \A s \in Ids : sessionToPlayerId'[s] \in {0, sessionToPlayerId[s]}
  PROVE  OnePlayerPerAccount'
  BY DEF OnePlayerPerAccount, resident

\* A session takes over the player of its account.
LEMMA RebindKeepsAccounts ==
  ASSUME TypeOK, BindingsInverse, OnePlayerPerAccount, NEW a \in Auths,
         NEW s \in Ids, Rebind(s, a), account' = [account EXCEPT ![s] = a]
  PROVE  OnePlayerPerAccount'
<1>1. PICK g \in resident : playerAuth[g] = a /\ bindSession(s, g)
  BY DEF Rebind
<1>2. playerAuth' = playerAuth /\ resident' = resident
  BY DEF Rebind, players, resident
<1>3. ASSUME NEW t \in Ids, sessionToPlayerId'[t] # 0
      PROVE  playerAuth'[sessionToPlayerId'[t]] = account'[t]
  BY <1>1, <1>2, <1>3 DEF bindSession, OnePlayerPerAccount, TypeOK
<1>4. QED
  BY <1>2, <1>3 DEF OnePlayerPerAccount

\* A player is spawned for an account that has none on the Field, under an id
\* that no bound session points to.
LEMMA SpawnKeepsAccounts ==
  ASSUME TypeOK, BindingsInverse, OnePlayerPerAccount, NEW a \in Auths, NEW n,
         NEW s \in Ids, Spawn(s, a, n), account' = [account EXCEPT ![s] = a]
  PROVE  OnePlayerPerAccount'
<1>1. PICK g \in freeGameplayIds :
        /\ playerAuth' = [playerAuth EXCEPT ![g] = a]
        /\ bindSession(s, g)
  BY DEF Spawn
<1>2. g \in Ids /\ g \notin resident
  BY DEF freeGameplayIds
<1>3. resident' = resident \cup {g}
  BY <1>1, <1>2, ValuesAssumption DEF resident, TypeOK
<1>4. \A h \in resident : playerAuth'[h] = playerAuth[h] /\ playerAuth[h] # a
  BY <1>1, <1>2 DEF Spawn, notOnField, resident, TypeOK
<1>5. playerAuth'[g] = a
  BY <1>1, <1>2 DEF TypeOK
<1>6. ASSUME NEW h \in resident', NEW k \in resident', playerAuth'[h] = playerAuth'[k]
      PROVE  h = k
  BY <1>3, <1>4, <1>5, <1>6 DEF OnePlayerPerAccount
<1>7. ASSUME NEW t \in Ids, sessionToPlayerId'[t] # 0
      PROVE  playerAuth'[sessionToPlayerId'[t]] = account'[t]
  <2>1. CASE t = s
    BY <1>1, <1>5, <2>1 DEF bindSession, TypeOK
  <2>2. CASE t # s
    <3>1. sessionToPlayerId'[t] = sessionToPlayerId[t] /\ sessionToPlayerId[t] # 0
      BY <1>1, <1>7, <2>2 DEF bindSession
    <3>2. sessionToPlayerId[t] \in resident
      BY <3>1 DEF BindingsInverse
    <3>3. QED
      BY <1>4, <2>2, <3>1, <3>2 DEF OnePlayerPerAccount, TypeOK
  <2>3. QED
    BY <2>1, <2>2
<1>8. QED
  BY <1>6, <1>7 DEF OnePlayerPerAccount

\* Players leave with the sessions that are bound to them.
LEMMA ReleaseKeepsAccounts ==
  ASSUME TypeOK, BindingsInverse, OnePlayerPerAccount, NEW S \in SUBSET Ids,
         ReleasePlayers(S), UNCHANGED account
  PROVE  OnePlayerPerAccount'
<1> DEFINE released == {sessionToPlayerId[s] : s \in S}
<1>1. \A h \in resident' : h \in resident /\ playerAuth'[h] = playerAuth[h]
  BY DEF ReleasePlayers, resident
<1>2. ASSUME NEW t \in Ids, sessionToPlayerId'[t] # 0
      PROVE  playerAuth'[sessionToPlayerId'[t]] = account'[t]
  <2>1. t \notin S /\ sessionToPlayerId'[t] = sessionToPlayerId[t]
    BY <1>2 DEF ReleasePlayers, unbindSessions
  <2>2. sessionToPlayerId[t] \in Ids /\ playerToSessionId[sessionToPlayerId[t]] = t
    BY <1>2, <2>1 DEF BindingsInverse, TypeOK
  <2>3. sessionToPlayerId[t] \notin released
    BY <1>2, <2>1, <2>2, IdsAreNat DEF BindingsInverse
  <2>4. playerAuth'[sessionToPlayerId[t]] = playerAuth[sessionToPlayerId[t]]
    BY <2>2, <2>3 DEF ReleasePlayers
  <2>5. QED
    BY <1>2, <2>1, <2>4 DEF OnePlayerPerAccount
<1>3. QED
  BY <1>1, <1>2 DEF OnePlayerPerAccount

\* An account never has two players on the Field, and a bound session belongs
\* to the account of its player, in every reachable state.
THEOREM AccountsHaveOnePlayer == Spec => []OnePlayerPerAccount
<1>1. Init => OnePlayerPerAccount
  BY DEF Init, OnePlayerPerAccount, resident
<1>2. TypeOK /\ BindingsInverse /\ OnePlayerPerAccount /\ [Next]_vars
        => OnePlayerPerAccount'
  <2> SUFFICES ASSUME TypeOK, BindingsInverse, OnePlayerPerAccount, [Next]_vars
               PROVE  OnePlayerPerAccount'
    OBVIOUS
  <2>1. CASE Start \/ Accept \/ BeginFrame \/ EndReceive \/ UseDefaultPort
    BY <2>1, AccountsUnchanged
    DEF Start, Accept, BeginFrame, EndReceive, UseDefaultPort, players, fieldMaps
  <2>2. CASE EndDispatch \/ EndFlush
    BY <2>2, AccountsUnchanged
    DEF EndDispatch, EndFlush, removeClosedClients, unbindSessions, players
  <2>3. CASE Stop
    BY <2>3, StopReleases, ReleaseKeepsAccounts DEF Stop
  <2>4. ASSUME NEW a \in Auths, NEW n \in Names, OperatorSetPlayerName(a, n)
        PROVE  OnePlayerPerAccount'
    BY <2>4, AccountsUnchanged DEF OperatorSetPlayerName, fieldMaps
  <2>5. ASSUME NEW c \in Conns, CloseSocket(c)
        PROVE  OnePlayerPerAccount'
    BY <2>5, AccountsUnchanged DEF CloseSocket, players, fieldMaps
  <2>6. ASSUME NEW c \in Conns, NEW a \in Auths, NEW n \in Names \cup {NoName},
               LoginPlaced(c, a, n)
        PROVE  OnePlayerPerAccount'
    BY <2>6, FreshIsId, RebindKeepsAccounts, SpawnKeepsAccounts DEF LoginPlaced
  <2>7. ASSUME NEW c \in Conns, NEW a \in Auths \cup {NoAuth},
               NEW n \in Names \cup {NoName}, LoginNotPlaced(c, a, n)
        PROVE  OnePlayerPerAccount'
    BY <2>7, AccountsUnchanged DEF LoginNotPlaced, players, fieldMaps
  <2>8. ASSUME NEW c \in Conns, NEW s \in Ids, NEW fits \in BOOLEAN,
               Disconnect(c, s, fits)
        PROVE  OnePlayerPerAccount'
    BY <2>8, AccountsUnchanged DEF Disconnect, unbindSessions, players
  <2>9. CASE UNCHANGED vars
    BY <2>9, AccountsUnchanged DEF vars
  <2>10. QED
    BY <2>1, <2>2, <2>3, <2>4, <2>5, <2>6, <2>7, <2>8, <2>9 DEF Next
<1>3. QED
  BY <1>1, <1>2, TypeCorrect, BindingsAreInverse, PTL DEF Spec

-----------------------------------------------------------------------------
(* Names *)

\* The players stay, no account is renamed and no claim is added.
LEMMA NamesUnchanged ==
  ASSUME NamesExclusive,
         \A g \in resident' : /\ g \in resident
                              /\ playerAuth'[g] = playerAuth[g]
                              /\ playerName'[g] = playerName[g],
         \A a \in Auths : claimedName'[a] \in {NoName, claimedName[a]}
  PROVE  NamesExclusive'
<1>1. /\ \A g \in resident' : playerName'[g] # NoName
      /\ \A g, h \in resident' : playerName'[g] = playerName'[h] => g = h
  BY DEF NamesExclusive
<1>2. \A a, b \in Auths :
        claimedName'[a] # NoName /\ claimedName'[a] = claimedName'[b] => a = b
  BY DEF NamesExclusive
<1>3. \A g \in resident', a \in Auths :
        claimedName'[a] = playerName'[g] => playerAuth'[g] = a
  BY DEF NamesExclusive
<1>4. QED
  BY <1>1, <1>2, <1>3 DEF NamesExclusive

\* A spawned player takes a name that is neither on the Field nor another
\* account's claim, and claims it.
LEMMA SpawnKeepsNamesExclusive ==
  ASSUME TypeOK, NamesExclusive, NEW s \in Ids, NEW a \in Auths,
         NEW n \in Names \cup {NoName}, Spawn(s, a, n)
  PROVE  NamesExclusive'
<1>1. PICK g \in freeGameplayIds :
        /\ playerAuth' = [playerAuth EXCEPT ![g] = a]
        /\ playerName' = [playerName EXCEPT ![g] = n]
        /\ claimedName' = [claimedName EXCEPT ![a] = n]
  BY DEF Spawn
<1>2. g \in Ids /\ g \notin resident
  BY DEF freeGameplayIds
<1>3. resident' = resident \cup {g}
  BY <1>1, <1>2, ValuesAssumption DEF resident, TypeOK
<1>4. /\ n # NoName
      /\ \A h \in resident : playerName[h] # n
      /\ \A b \in Auths \ {a} : claimedName[b] # n
  BY DEF Spawn, nameIsFree, hasPlayerName, nameClaimedByOtherAuth
<1>5. /\ playerAuth'[g] = a /\ playerName'[g] = n
      /\ \A h \in resident : playerAuth'[h] = playerAuth[h] /\ playerName'[h] = playerName[h]
  BY <1>1, <1>2 DEF TypeOK, resident
<1>6. claimedName'[a] = n /\ \A b \in Auths \ {a} : claimedName'[b] = claimedName[b]
  BY <1>1 DEF TypeOK
<1>7. /\ \A h \in resident' : playerName'[h] # NoName
      /\ \A h, k \in resident' : playerName'[h] = playerName'[k] => h = k
  BY <1>3, <1>4, <1>5 DEF NamesExclusive
<1>8. \A b, d \in Auths :
        claimedName'[b] # NoName /\ claimedName'[b] = claimedName'[d] => b = d
  BY <1>4, <1>6 DEF NamesExclusive
<1>9. \A h \in resident', b \in Auths :
        claimedName'[b] = playerName'[h] => playerAuth'[h] = b
  BY <1>3, <1>4, <1>5, <1>6 DEF NamesExclusive
<1>10. QED
  BY <1>7, <1>8, <1>9 DEF NamesExclusive

\* An operator renames the one player of the account, to a name that no other
\* account claims and no other player has.
LEMMA RenameKeepsNamesExclusive ==
  ASSUME TypeOK, OnePlayerPerAccount, NamesExclusive,
         NEW a \in Auths, NEW n \in Names, OperatorSetPlayerName(a, n)
  PROVE  NamesExclusive'
<1>1. /\ playerName' = [g \in Ids |-> IF playerAuth[g] = a THEN n ELSE playerName[g]]
      /\ claimedName' = [claimedName EXCEPT ![a] = n]
      /\ UNCHANGED playerAuth
  BY DEF OperatorSetPlayerName
<1>2. n # NoName
  BY ValuesAssumption
<1>3. \A b \in Auths \ {a} : claimedName[b] # n
  BY DEF OperatorSetPlayerName, nameClaimedByOtherAuth
<1>4. \A h \in resident : playerAuth[h] # a => playerName[h] # n
  BY DEF OperatorSetPlayerName, nameTakenOnFieldByOther, hasPlayerName, NamesExclusive
<1>5. resident' = resident /\ resident \subseteq Ids
  BY <1>1 DEF resident
<1>6. \A h \in resident : playerName'[h] = IF playerAuth[h] = a THEN n ELSE playerName[h]
  BY <1>1, <1>5
<1>7. claimedName'[a] = n /\ \A b \in Auths \ {a} : claimedName'[b] = claimedName[b]
  BY <1>1 DEF TypeOK
<1>8. /\ \A h \in resident' : playerName'[h] # NoName
      /\ \A h, k \in resident' : playerName'[h] = playerName'[k] => h = k
  BY <1>2, <1>4, <1>5, <1>6 DEF NamesExclusive, OnePlayerPerAccount
<1>9. \A b, d \in Auths :
        claimedName'[b] # NoName /\ claimedName'[b] = claimedName'[d] => b = d
  BY <1>3, <1>7 DEF NamesExclusive
<1>10. \A h \in resident', b \in Auths :
        claimedName'[b] = playerName'[h] => playerAuth'[h] = b
  BY <1>1, <1>3, <1>4, <1>5, <1>6, <1>7 DEF NamesExclusive
<1>11. QED
  BY <1>8, <1>9, <1>10 DEF NamesExclusive

\* Names are exclusive in every reachable state, among the players, among the
\* claims and between the two.
THEOREM NamesAreExclusive == Spec => []NamesExclusive
<1>1. Init => NamesExclusive
  BY DEF Init, NamesExclusive, resident
<1>2. TypeOK /\ OnePlayerPerAccount /\ NamesExclusive /\ [Next]_vars => NamesExclusive'
  <2> SUFFICES ASSUME TypeOK, OnePlayerPerAccount, NamesExclusive, [Next]_vars
               PROVE  NamesExclusive'
    OBVIOUS
  <2>0. ASSUME UNCHANGED <<playerAuth, playerName, claimedName>>
        PROVE  NamesExclusive'
    BY <2>0, NamesUnchanged DEF resident
  <2>1. CASE Start \/ Accept \/ BeginFrame \/ EndReceive
    BY <2>0, <2>1 DEF Start, Accept, BeginFrame, EndReceive, players
  <2>2. CASE EndDispatch \/ EndFlush
    BY <2>0, <2>2 DEF EndDispatch, EndFlush, players
  <2>3. CASE Stop
    <3>1. \A g \in resident' : g \in resident /\ playerName'[g] = playerName[g]
      BY <2>3, StopReleases
    <3>2. \A g \in resident' : playerAuth'[g] = playerAuth[g]
      BY <2>3 DEF Stop, resident
    <3>3. QED
      BY <2>3, <3>1, <3>2, NamesUnchanged DEF Stop
  <2>4. CASE UseDefaultPort
    BY <2>4, NamesUnchanged DEF UseDefaultPort, players, resident
  <2>5. ASSUME NEW a \in Auths, NEW n \in Names, OperatorSetPlayerName(a, n)
        PROVE  NamesExclusive'
    BY <2>5, RenameKeepsNamesExclusive
  <2>6. ASSUME NEW c \in Conns, CloseSocket(c)
        PROVE  NamesExclusive'
    BY <2>0, <2>6 DEF CloseSocket, players
  <2>7. ASSUME NEW c \in Conns, NEW a \in Auths, NEW n \in Names \cup {NoName},
               LoginPlaced(c, a, n)
        PROVE  NamesExclusive'
    <3>1. displayName(a, n) \in Names \cup {NoName} /\ nextInternalId \in Ids
      BY <2>7, FreshIsId DEF displayName, TypeOK, LoginPlaced
    <3>2. CASE Rebind(nextInternalId, a)
      BY <2>0, <3>2 DEF Rebind, players
    <3>3. CASE Spawn(nextInternalId, a, displayName(a, n))
      BY <3>1, <3>3, SpawnKeepsNamesExclusive
    <3>4. QED
      BY <2>7, <3>2, <3>3 DEF LoginPlaced
  <2>8. ASSUME NEW c \in Conns, NEW a \in Auths \cup {NoAuth},
               NEW n \in Names \cup {NoName}, LoginNotPlaced(c, a, n)
        PROVE  NamesExclusive'
    BY <2>0, <2>8 DEF LoginNotPlaced, players
  <2>9. ASSUME NEW c \in Conns, NEW s \in Ids, NEW fits \in BOOLEAN,
               Disconnect(c, s, fits)
        PROVE  NamesExclusive'
    BY <2>0, <2>9 DEF Disconnect, players
  <2>10. CASE UNCHANGED vars
    BY <2>0, <2>10 DEF vars
  <2>11. QED
    BY <2>1, <2>2, <2>3, <2>4, <2>5, <2>6, <2>7, <2>8, <2>9, <2>10 DEF Next
<1>3. QED
  BY <1>1, <1>2, TypeCorrect, AccountsHaveOnePlayer, PTL DEF Spec

-----------------------------------------------------------------------------
(* Connections and sessions *)

\* No connection holds a session id that has not been handed out.
HeldIdsAreUsed == \A c \in Conns : bindings[c] < nextInternalId

HeldInv == SessionsHeldByConnections /\ HeldIdsAreUsed

\* Session ids, and the ones the connections hold, are numbers.
LEMMA HeldAreNat ==
  ASSUME TypeOK
  PROVE  nextInternalId \in Nat /\ \A c \in Conns : bindings[c] \in Nat
<1>1. Ids \cup {0} \subseteq Nat
  BY IdsAreNat
<1>2. \A c \in Conns : bindings[c] \in Ids \cup {0}
  BY DEF TypeOK
<1>3. nextInternalId \in Nat
  BY DEF TypeOK
<1>4. QED
  BY <1>1, <1>2, <1>3

\* A step that leaves sessions, bindings and Field's maps alone and removes no
\* connection.
LEMMA HeldUnchanged ==
  ASSUME TypeOK, HeldInv,
         UNCHANGED <<bindings, activeSessions, sessionToPlayerId>>,
         \A c \in Conns : client'[c] = "none" => client[c] = "none",
         nextInternalId' \in {nextInternalId, nextInternalId + 1}
  PROVE  HeldInv'
<1>1. nextInternalId \in Nat /\ \A c \in Conns : bindings[c] \in Nat
  BY HeldAreNat
<1>2. HeldIdsAreUsed'
  BY <1>1 DEF HeldInv, HeldIdsAreUsed
<1>3. SessionsHeldByConnections'
  BY DEF HeldInv, SessionsHeldByConnections
<1>4. QED
  BY <1>2, <1>3 DEF HeldInv

\* The sessions of the connections in C end together, and with them others; a
\* connection has its own session or none afterwards.
EndSessionsOf(C) ==
  /\ activeSessions' \subseteq activeSessions \ {bindings[c] : c \in C}
  /\ bindings' = [c \in Conns |-> IF c \in C THEN 0 ELSE bindings[c]]
  /\ UNCHANGED nextInternalId

\* Ending the sessions of some connections leaves those of the others with the
\* connections that hold them.
LEMMA EndKeepsHeld ==
  ASSUME TypeOK, HeldInv, NEW C \in SUBSET Conns, EndSessionsOf(C),
         \A c \in Conns : client'[c] = "none" => c \in C \/ client[c] = "none"
  PROVE  HeldInv'
<1>1. \A c \in Conns : bindings'[c] = IF c \in C THEN 0 ELSE bindings[c]
  BY DEF EndSessionsOf
<1>2. nextInternalId' = nextInternalId /\ nextInternalId > 0
  BY DEF EndSessionsOf, TypeOK
<1>3. HeldIdsAreUsed'
  BY <1>1, <1>2, IdsAreNat DEF HeldInv, HeldIdsAreUsed, TypeOK
<1>4. activeSessions' \subseteq {bindings'[c] : c \in Conns}
  <2>1. ASSUME NEW s \in activeSessions'
        PROVE  s \in {bindings'[c] : c \in Conns}
    <3>1. s \in activeSessions /\ s \notin {bindings[c] : c \in C}
      BY DEF EndSessionsOf
    <3>2. PICK c \in Conns : bindings[c] = s
      BY <3>1 DEF HeldInv, SessionsHeldByConnections
    <3>3. c \notin C
      BY <3>1, <3>2
    <3>4. QED
      BY <1>1, <3>2, <3>3
  <2>2. QED
    BY <2>1
<1>5. \A c, d \in Conns : bindings'[c] # 0 /\ bindings'[c] = bindings'[d] => c = d
  BY <1>1 DEF HeldInv, SessionsHeldByConnections
<1>6. \A c \in Conns : client'[c] = "none" => bindings'[c] = 0
  BY <1>1 DEF HeldInv, SessionsHeldByConnections
<1>7. QED
  BY <1>3, <1>4, <1>5, <1>6 DEF HeldInv, SessionsHeldByConnections

\* A placed login gives the connection a session id no other one holds.
LEMMA LoginKeepsHeld ==
  ASSUME TypeOK, HeldInv, NEW c \in Conns, NEW a \in Auths,
         NEW n \in Names \cup {NoName}, LoginPlaced(c, a, n)
  PROVE  HeldInv'
<1> DEFINE s == nextInternalId
<1>1. s \in Ids /\ s \in Nat /\ s # 0 /\ \A d \in Conns : bindings[d] \in Nat
  BY FreshIsId, IdsAreNat, HeldAreNat DEF LoginPlaced
<1>2. /\ bindings[c] = 0 /\ client[c] # "none"
      /\ nextInternalId' = s + 1
      /\ activeSessions' = activeSessions \cup {s}
      /\ client' = client
  BY DEF LoginPlaced, isOpen
<1>3. \A d \in Conns : bindings'[d] = IF d = c THEN s ELSE bindings[d]
  BY DEF LoginPlaced, TypeOK
<1>4. \A d \in Conns : bindings[d] # s /\ bindings[d] < s
  BY <1>1 DEF HeldInv, HeldIdsAreUsed
<1>5. HeldIdsAreUsed'
  BY <1>1, <1>2, <1>3, <1>4 DEF HeldIdsAreUsed
<1>6. 0 \notin activeSessions
  BY IdsAreNat DEF TypeOK
<1>7. activeSessions' \subseteq {bindings'[d] : d \in Conns}
  BY <1>2, <1>3, <1>6 DEF HeldInv, SessionsHeldByConnections
<1>8. \A d, e \in Conns : bindings'[d] # 0 /\ bindings'[d] = bindings'[e] => d = e
  BY <1>3, <1>4 DEF HeldInv, SessionsHeldByConnections
<1>9. \A d \in Conns : client'[d] = "none" => bindings'[d] = 0
  BY <1>2, <1>3 DEF HeldInv, SessionsHeldByConnections
<1>10. QED
  BY <1>5, <1>7, <1>8, <1>9 DEF HeldInv, SessionsHeldByConnections

\* removeClosedClients, Stop and a Disconnect, whichever session it names, end
\* the sessions of the connections they are about.
LEMMA WhoseSessionsEnd ==
  ASSUME TypeOK
  PROVE  /\ removeClosedClients /\ UNCHANGED nextInternalId
              => /\ EndSessionsOf({c \in Conns : client[c] = "closed"})
                 /\ \A c \in Conns : client'[c] = "none" =>
                      c \in {d \in Conns : client[d] = "closed"} \/ client[c] = "none"
         /\ Stop => EndSessionsOf(Conns)
         /\ \A c \in Conns, s \in Ids, fits \in BOOLEAN :
              Disconnect(c, s, fits)
                => /\ EndSessionsOf({c})
                   /\ \A d \in Conns : client'[d] = "none" => client[d] = "none"
<1>1. ASSUME removeClosedClients, UNCHANGED nextInternalId
      PROVE  /\ EndSessionsOf({c \in Conns : client[c] = "closed"})
             /\ \A c \in Conns : client'[c] = "none" =>
                  c \in {d \in Conns : client[d] = "closed"} \/ client[c] = "none"
  BY <1>1 DEF removeClosedClients, EndSessionsOf
<1>2. ASSUME Stop PROVE EndSessionsOf(Conns)
  BY <1>2 DEF Stop, EndSessionsOf
<1>3. ASSUME NEW c \in Conns, NEW s \in Ids, NEW fits \in BOOLEAN,
             Disconnect(c, s, fits)
      PROVE  /\ EndSessionsOf({c})
             /\ \A d \in Conns : client'[d] = "none" => client[d] = "none"
  <2>1. bindings' = [d \in Conns |-> IF d \in {c} THEN 0 ELSE bindings[d]]
    BY <1>3 DEF Disconnect, TypeOK
  <2>2. \A d \in Conns : client'[d] = "none" => client[d] = "none"
    BY <1>3 DEF Disconnect, TypeOK
  <2>3. QED
    BY <1>3, <2>1, <2>2 DEF Disconnect, EndSessionsOf
<1>4. QED
  BY <1>1, <1>2, <1>3

\* Whatever sessions clients name in a Disconnect, every active session is held
\* by a connection and none by two, in every reachable state: no session is
\* left for which nobody can send and which no lost socket will end.
THEOREM ConnectionsHoldSessions == Spec => []SessionsHeldByConnections
<1>1. Init => HeldInv
  BY DEF Init, HeldInv, SessionsHeldByConnections, HeldIdsAreUsed
<1>2. TypeOK /\ HeldInv /\ [Next]_vars => HeldInv'
  <2> SUFFICES ASSUME TypeOK, HeldInv, [Next]_vars PROVE HeldInv'
    OBVIOUS
  <2>1. CASE Start \/ BeginFrame \/ EndReceive \/ UseDefaultPort
    BY <2>1, HeldUnchanged DEF Start, BeginFrame, EndReceive, UseDefaultPort, fieldMaps
  <2>2. CASE Accept
    <3>1. \A c \in Conns : client'[c] = "none" => client[c] = "none"
      BY <2>2 DEF Accept, TypeOK
    <3>2. QED
      BY <2>2, <3>1, HeldUnchanged DEF Accept, fieldMaps
  <2>3. CASE EndDispatch \/ EndFlush
    BY <2>3, WhoseSessionsEnd, EndKeepsHeld DEF EndDispatch, EndFlush
  <2>4. CASE Stop
    BY <2>4, WhoseSessionsEnd, EndKeepsHeld
  <2>5. ASSUME NEW a \in Auths, NEW n \in Names, OperatorSetPlayerName(a, n)
        PROVE  HeldInv'
    BY <2>5, HeldUnchanged DEF OperatorSetPlayerName, fieldMaps
  <2>6. ASSUME NEW c \in Conns, CloseSocket(c)
        PROVE  HeldInv'
    <3>1. \A d \in Conns : client'[d] = "none" => client[d] = "none"
      BY <2>6 DEF CloseSocket, TypeOK
    <3>2. QED
      BY <2>6, <3>1, HeldUnchanged DEF CloseSocket, fieldMaps
  <2>7. ASSUME NEW c \in Conns, NEW a \in Auths, NEW n \in Names \cup {NoName},
               LoginPlaced(c, a, n)
        PROVE  HeldInv'
    BY <2>7, LoginKeepsHeld
  <2>8. ASSUME NEW c \in Conns, NEW a \in Auths \cup {NoAuth},
               NEW n \in Names \cup {NoName}, LoginNotPlaced(c, a, n)
        PROVE  HeldInv'
    BY <2>8, HeldUnchanged DEF LoginNotPlaced, fieldMaps
  <2>9. ASSUME NEW c \in Conns, NEW s \in Ids, NEW fits \in BOOLEAN,
               Disconnect(c, s, fits)
        PROVE  HeldInv'
    BY <2>9, WhoseSessionsEnd, EndKeepsHeld
  <2>10. CASE UNCHANGED vars
    BY <2>10, HeldUnchanged DEF vars
  <2>11. QED
    BY <2>1, <2>2, <2>3, <2>4, <2>5, <2>6, <2>7, <2>8, <2>9, <2>10 DEF Next
<1>3. QED
  BY <1>1, <1>2, TypeCorrect, PTL DEF Spec, HeldInv

\* A player leaves the Field or changes its account only when the server stops,
\* in every step of every behaviour.
THEOREM EntitiesOutliveSessions == Spec => EntityOutlivesSession
<1> DEFINE Stays == \A g \in resident :
                      playerAuth'[g] = playerAuth[g] \/ (running /\ ~running')
<1>1. TypeOK /\ [Next]_vars => [Stays]_vars
  <2> SUFFICES ASSUME TypeOK, [Next]_vars PROVE Stays
    OBVIOUS
  <2>1. CASE UNCHANGED playerAuth
    BY <2>1
  <2>2. CASE Stop
    BY <2>2 DEF Stop
  <2>3. ASSUME NEW c \in Conns, NEW a \in Auths, NEW n \in Names \cup {NoName},
               LoginPlaced(c, a, n)
        PROVE  Stays
    <3>1. CASE Rebind(nextInternalId, a)
      BY <3>1 DEF Rebind, players
    <3>2. CASE Spawn(nextInternalId, a, displayName(a, n))
      <4>1. PICK g \in freeGameplayIds : playerAuth' = [playerAuth EXCEPT ![g] = a]
        BY <3>2 DEF Spawn
      <4>2. g \notin resident
        BY DEF freeGameplayIds
      <4>3. QED
        BY <4>1, <4>2 DEF resident, TypeOK
    <3>3. QED
      BY <2>3, <3>1, <3>2 DEF LoginPlaced
  <2>4. QED
    BY <2>1, <2>2, <2>3
    DEF Next, Start, Accept, BeginFrame, EndReceive, EndDispatch, EndFlush,
        UseDefaultPort, OperatorSetPlayerName, CloseSocket, LoginNotPlaced,
        Disconnect, players, vars
<1>2. QED
  BY <1>1, TypeCorrect, PTL DEF Spec, EntityOutlivesSession
=============================================================================
