--------------------------- MODULE NpcWorld_proofs ---------------------------
(***************************************************************************)
(* Proofs about NpcWorld, for any set of NPCs and queues of any length.    *)
(***************************************************************************)
EXTENDS NpcWorld, SequenceTheorems, WellFoundedInduction, TLAPS

\* The largest of some of the numbers up to n.
LEMMA MaxIsLargest ==
  ASSUME NEW n \in Nat, NEW S, S \subseteq 1..n, S # {}
  PROVE  Max(S) \in S /\ \A i \in S : i <= Max(S)
<1> DEFINE R == OpToRel(<, Nat)
           T == {n - i : i \in S}
<1>1. IsWellFoundedOn(R, Nat)
  BY NatLessThanWellFounded
<1>2. T \subseteq Nat /\ T # {}
  <2>1. \A i \in S : i \in Int /\ 1 <= i /\ i <= n /\ n - i \in Nat
    OBVIOUS
  <2>2. QED
    BY <2>1
<1>3. \E x \in T : \A y \in T : ~ (<<y, x>> \in R)
  <2> HIDE DEF R, T
  <2>1. QED
    BY <1>1, <1>2, WFMin
<1>4. PICK x \in T : \A y \in T : ~ (<<y, x>> \in R)
  BY <1>3
<1>5. \A y \in T : x <= y
  <2>1. \A y \in T : ~(y < x)
    BY <1>2, <1>4 DEF OpToRel
  <2>2. \A y \in T : y \in Nat /\ x \in Nat
    BY <1>2
  <2> HIDE DEF T
  <2>3. QED
    BY <2>1, <2>2
<1>6. PICK m \in S : x = n - m
  OBVIOUS
<1>7. \A i \in S : m >= i
  <2>1. ASSUME NEW i \in S
        PROVE  m >= i
    <3>1. x <= n - i
      BY <1>5
    <3>2. i \in 1..n /\ m \in 1..n
      OBVIOUS
    <3>3. QED
      BY <1>6, <3>1, <3>2
  <2>2. QED
    BY <2>1
<1>8. \E k \in S : \A i \in S : k >= i
  BY <1>7
<1>9. Max(S) \in S /\ \A i \in S : Max(S) >= i
  BY <1>8 DEF Max
<1>10. QED
  BY <1>9

-----------------------------------------------------------------------------
(* Types, and the moves of a frame *)

\* The player is not an NPC; the bounds are numbers.
NpcConstants == You \notin Npcs /\ MaxCoordinate \in Nat /\ MaxTick \in Nat

NpcState == [pos : Int, hp : Int]
Respawn == [at : Int, pos : Int]
Intent == [seq : Nat, delta : Int]
Decision == [seq : Nat, npc : Npcs, delta : Int]
Move == (Npcs \cup {You}) \X Int

PlayerTypes == {"on", "pos", "hp"} \subseteq DOMAIN fieldPlayer /\ fieldPlayer.pos \in Int
NpcTypes == npcs \in [Npcs -> NpcState \cup {NoNpc}]
RespawnTypes == DOMAIN respawns \subseteq Npcs /\ respawns \in [DOMAIN respawns -> Respawn]
QueueTypes ==
  /\ intents \in Seq(Intent) /\ decisions \in Seq(Decision)
  /\ numbered \in [intents : Nat, decisions : Nat, actions : Nat]
FieldTypes == PlayerTypes /\ NpcTypes /\ RespawnTypes /\ QueueTypes /\ positionQueue \in Seq(Move)

\* What moves is: first the player, once for each intent, then an NPC for each
\* decision.
LEMMA MovesOfFrame ==
  ASSUME FieldTypes, present
  PROVE  /\ moves \in Seq(Move)
         /\ Len(moves) = Len(intents) + Len(decisions)
         /\ \A i \in 1..Len(intents) : moves[i] = <<You, fieldPlayer.pos + intents[i].delta>>
         /\ \A i \in 1..Len(decisions) :
              moves[Len(intents) + i] = <<decisions[i].npc, npcs[decisions[i].npc].pos + decisions[i].delta>>
<1> DEFINE yours == [i \in DOMAIN intents |-> <<You, fieldPlayer.pos + intents[i].delta>>]
           theirs == [i \in DOMAIN decisions |->
                        <<decisions[i].npc, npcs[decisions[i].npc].pos + decisions[i].delta>>]
<1>1. /\ intents \in Seq(Intent) /\ DOMAIN intents = 1..Len(intents) /\ Len(intents) \in Nat
      /\ decisions \in Seq(Decision) /\ DOMAIN decisions = 1..Len(decisions) /\ Len(decisions) \in Nat
  BY LenProperties DEF FieldTypes, QueueTypes
<1>2. yours \in Seq(Move) /\ Len(yours) = Len(intents)
  <2>1. \A i \in 1..Len(intents) : intents[i] \in Intent
    BY <1>1, ElementOfSeq
  <2>2. \A i \in 1..Len(intents) : <<You, fieldPlayer.pos + intents[i].delta>> \in Move
    BY <2>1 DEF Intent, Move, FieldTypes, PlayerTypes
  <2>3. yours \in [1..Len(intents) -> Move]
    BY <1>1, <2>2
  <2> HIDE DEF yours
  <2>4. QED
    BY <1>1, <2>3, SeqDef, LenProperties
<1>3. theirs \in Seq(Move) /\ Len(theirs) = Len(decisions)
  <2>1. \A i \in 1..Len(decisions) : decisions[i] \in Decision
    BY <1>1, ElementOfSeq
  <2>2. \A i \in 1..Len(decisions) : npcs[decisions[i].npc] \in NpcState
    BY <1>1, <2>1 DEF present, alive, Decision, FieldTypes, NpcTypes
  <2>3. \A i \in 1..Len(decisions) :
          <<decisions[i].npc, npcs[decisions[i].npc].pos + decisions[i].delta>> \in Move
    BY <2>1, <2>2 DEF Decision, Move, NpcState
  <2>4. theirs \in [1..Len(decisions) -> Move]
    BY <1>1, <2>3
  <2> HIDE DEF theirs
  <2>5. QED
    BY <1>1, <2>4, SeqDef, LenProperties
<1>4. moves = yours \o theirs
  BY DEF moves
<1>5. /\ \A i \in 1..Len(intents) : yours[i] = <<You, fieldPlayer.pos + intents[i].delta>>
      /\ \A i \in 1..Len(decisions) :
           theirs[i] = <<decisions[i].npc, npcs[decisions[i].npc].pos + decisions[i].delta>>
  BY <1>1
<1> HIDE DEF yours, theirs
<1>6. /\ moves \in Seq(Move)
      /\ Len(moves) = Len(yours) + Len(theirs)
      /\ \A i \in 1..(Len(yours) + Len(theirs)) :
           moves[i] = IF i <= Len(yours) THEN yours[i] ELSE theirs[i - Len(yours)]
  <2>1. /\ yours \o theirs \in Seq(Move)
        /\ Len(yours \o theirs) = Len(yours) + Len(theirs)
        /\ \A i \in 1..(Len(yours) + Len(theirs)) :
             (yours \o theirs)[i] = IF i <= Len(yours) THEN yours[i] ELSE theirs[i - Len(yours)]
    BY <1>2, <1>3, ConcatProperties
  <2>2. QED
    BY ONLY <1>4, <2>1, Zenon
<1>7. \A i \in 1..Len(intents) : moves[i] = yours[i]
  BY <1>1, <1>2, <1>3, <1>6
<1>8. \A i \in 1..Len(decisions) : moves[Len(intents) + i] = theirs[i]
  <2>1. ASSUME NEW i \in 1..Len(decisions)
        PROVE  moves[Len(intents) + i] = theirs[i]
    <3>1. /\ Len(intents) + i \in 1..(Len(yours) + Len(theirs))
          /\ ~(Len(intents) + i <= Len(yours))
          /\ (Len(intents) + i) - Len(yours) = i
      BY <1>1, <1>2, <1>3
    <3>2. QED
      BY <1>6, <3>1
  <2>2. QED
    BY <2>1
<1>9. QED
  BY <1>2, <1>3, <1>5, <1>6, <1>7, <1>8

\* Behind what is left over in a queue p, the last position of who is that of
\* the moves d of the frame, if they move it.
LEMMA LastOfTheFrame ==
  ASSUME NEW p \in Seq(Move), NEW d \in Seq(Move), NEW who, NEW x,
         \E i \in 1..Len(d) : d[i][1] = who
  PROVE  \E k \in 1..Len(d) :
           /\ d[k][1] = who
           /\ \A i \in 1..Len(d) : d[i][1] = who => i <= k
           /\ lastPosition(p \o d, who, x) = d[k][2]
<1> DEFINE q == p \o d
           mine == {i \in DOMAIN q : q[i][1] = who}
           m == Max(mine)
<1>1. Len(p) \in Nat /\ Len(d) \in Nat
  BY LenProperties
<1>2. /\ q \in Seq(Move) /\ Len(q) = Len(p) + Len(d)
      /\ \A i \in 1..(Len(p) + Len(d)) : q[i] = IF i <= Len(p) THEN p[i] ELSE d[i - Len(p)]
  BY ConcatProperties
<1>3. DOMAIN q = 1..(Len(p) + Len(d))
  <2> HIDE DEF q
  <2>1. QED
    BY <1>2, LenProperties
<1>4. lastPosition(p \o d, who, x) = IF mine = {} THEN x ELSE q[m][2]
  BY DEF lastPosition
<1> HIDE DEF q, m
<1>5. \A i \in 1..Len(d) : Len(p) + i \in 1..(Len(p) + Len(d)) /\ q[Len(p) + i] = d[i]
  <2>1. ASSUME NEW i \in 1..Len(d)
        PROVE  Len(p) + i \in 1..(Len(p) + Len(d)) /\ q[Len(p) + i] = d[i]
    <3>1. /\ Len(p) + i \in 1..(Len(p) + Len(d)) /\ ~(Len(p) + i <= Len(p))
          /\ (Len(p) + i) - Len(p) = i
      BY <1>1
    <3>2. QED
      BY <1>2, <3>1
  <2>2. QED
    BY <2>1
<1>6. \A i \in 1..Len(d) : d[i][1] = who => Len(p) + i \in mine
  BY <1>3, <1>5
<1>7. mine # {} /\ mine \subseteq 1..(Len(p) + Len(d))
  BY <1>3, <1>6
<1>8. m \in mine /\ \A i \in mine : i <= m
  <2> HIDE DEF mine
  <2>1. Len(p) + Len(d) \in Nat
    BY <1>1
  <2>2. QED
    BY <1>7, <2>1, MaxIsLargest DEF m
<1>9. PICK j \in 1..Len(d) : d[j][1] = who
  OBVIOUS
<1>10. Len(p) + j <= m /\ m \in 1..(Len(p) + Len(d)) /\ q[m][1] = who
  BY <1>6, <1>7, <1>8, <1>9
<1> DEFINE k == m - Len(p)
<1>11. k \in 1..Len(d) /\ m = Len(p) + k
  BY <1>1, <1>10
<1>12. \A i \in 1..Len(d) : d[i][1] = who => i <= k
  <2>1. ASSUME NEW i \in 1..Len(d), d[i][1] = who
        PROVE  i <= k
    <3>1. Len(p) + i <= m
      BY <1>6, <1>8, <2>1
    <3>2. QED
      BY <1>1, <1>10, <3>1
  <2>2. QED
    BY <2>1
<1> HIDE DEF k
<1>13. q[m] = d[k]
  BY <1>5, <1>11
<1>14. lastPosition(p \o d, who, x) = d[k][2] /\ d[k][1] = who
  BY <1>4, <1>7, <1>10, <1>13
<1>15. QED
  BY <1>11, <1>12, <1>14

\* A position of a queue, or the one given, is a number.
LEMMA LastPositionIsNumber ==
  ASSUME NEW q \in Seq(Move), NEW who, NEW x \in Int
  PROVE  lastPosition(q, who, x) \in Int
<1> DEFINE mine == {i \in DOMAIN q : q[i][1] = who}
<1>1. Len(q) \in Nat /\ DOMAIN q = 1..Len(q)
  BY LenProperties
<1>2. CASE mine = {}
  BY <1>2 DEF lastPosition
<1>3. CASE mine # {}
  <2>1. Max(mine) \in mine
    <3>1. mine \subseteq 1..Len(q)
      BY <1>1
    <3> HIDE DEF mine
    <3>2. QED
      BY <1>1, <1>3, <3>1, MaxIsLargest
  <2>2. Max(mine) \in 1..Len(q)
    BY <1>1, <2>1
  <2>3. q[Max(mine)] \in Move
    <3> HIDE DEF mine
    <3>1. QED
      BY <2>2, ElementOfSeq
  <2>4. lastPosition(q, who, x) = q[Max(mine)][2]
    BY <1>3 DEF lastPosition
  <2>5. QED
    BY <2>3, <2>4 DEF Move
<1>4. QED
  BY <1>2, <1>3

-----------------------------------------------------------------------------
(* The inductive invariant *)

\* No intent or decision has a number that was not given out.
NumbersGiven ==
  /\ \A i \in DOMAIN intents : intents[i].seq <= numbered.intents
  /\ \A i \in DOMAIN decisions : decisions[i].seq <= numbered.decisions

\* Whoever a refused frame left a position for still has an intent or a
\* decision in the queues, since those were put back.
ordered(who) == IF who = You THEN intents # <<>> ELSE \E i \in DOMAIN decisions : decisions[i].npc = who
LeftoversAreOrdered == \A i \in DOMAIN positionQueue : ordered(positionQueue[i][1])

NpcInv == FieldTypes /\ NumbersGiven /\ QueuesKeepOrder /\ RespawnsOfTheDead /\ LeftoversAreOrdered

\* A step on the Field that leaves the queues alone.
LEMMA FieldStep ==
  ASSUME NpcInv, UNCHANGED <<intents, decisions, numbered, positionQueue>>,
         PlayerTypes', NpcTypes', RespawnTypes', RespawnsOfTheDead'
  PROVE  NpcInv'
<1>1. FieldTypes /\ NumbersGiven /\ QueuesKeepOrder /\ LeftoversAreOrdered
  BY DEF NpcInv
<1>2. FieldTypes'
  BY <1>1 DEF FieldTypes, QueueTypes
<1>3. NumbersGiven' /\ QueuesKeepOrder'
  BY <1>1 DEF NumbersGiven, QueuesKeepOrder, ascends
<1>4. LeftoversAreOrdered'
  BY <1>1 DEF LeftoversAreOrdered, ordered
<1>5. QED
  BY <1>2, <1>3, <1>4 DEF NpcInv

\* The operations on NPCs.
LEMMA NpcStep ==
  ASSUME NpcConstants, NpcInv, NEW n \in Npcs,
         \/ \E x \in {0, MaxCoordinate}, hp \in {0, 1} : SetNpc(n, x, hp)
         \/ UnsetNpc(n)
         \/ DamageNpc(n)
         \/ \E at \in 1..MaxTick : ScheduleNpcRespawn(n, at, 0)
  PROVE  NpcInv'
<1>1. PlayerTypes /\ NpcTypes /\ RespawnTypes /\ RespawnsOfTheDead
  BY DEF NpcInv, FieldTypes
<1>2. ASSUME NEW x \in {0, MaxCoordinate}, NEW hp \in {0, 1}, SetNpc(n, x, hp)
      PROVE  NpcInv'
  <2>1. NpcTypes'
    BY <1>1, <1>2 DEF SetNpc, NpcTypes, NpcState, NpcConstants
  <2>2. RespawnsOfTheDead'
    <3>1. n \notin DOMAIN respawns
      BY <1>1, <1>2 DEF SetNpc, RespawnsOfTheDead
    <3>2. \A m \in DOMAIN respawns : npcs'[m] = npcs[m]
      BY <1>1, <1>2, <3>1 DEF SetNpc, NpcTypes, RespawnTypes
    <3>3. QED
      BY <1>1, <1>2, <3>2 DEF RespawnsOfTheDead, alive, SetNpc
  <2>3. QED
    BY <1>1, <1>2, <2>1, <2>2, FieldStep DEF SetNpc, PlayerTypes, RespawnTypes
<1>3. CASE UnsetNpc(n)
  <2>1. NpcTypes'
    BY <1>1, <1>3 DEF UnsetNpc, NpcTypes
  <2>2. /\ DOMAIN respawns' = DOMAIN respawns \ {n}
        /\ \A m \in DOMAIN respawns' : respawns'[m] = respawns[m] /\ npcs'[m] = npcs[m]
    BY <1>1, <1>3 DEF UnsetNpc, withoutRespawn, NpcTypes, RespawnTypes
  <2>3. RespawnTypes'
    BY <1>1, <1>3 DEF UnsetNpc, withoutRespawn, RespawnTypes
  <2>4. RespawnsOfTheDead'
    BY <1>1, <2>2 DEF RespawnsOfTheDead, alive
  <2>5. QED
    BY <1>1, <1>3, <2>1, <2>3, <2>4, FieldStep DEF UnsetNpc, PlayerTypes
<1>4. CASE DamageNpc(n)
  <2>1. npcs[n] \in NpcState
    BY <1>1, <1>4 DEF DamageNpc, alive, NpcTypes
  <2>2. NpcTypes'
    BY <1>1, <1>4, <2>1 DEF DamageNpc, NpcTypes, NpcState
  <2>3. RespawnsOfTheDead'
    <3>1. n \notin DOMAIN respawns
      BY <1>1, <1>4 DEF DamageNpc, RespawnsOfTheDead
    <3>2. \A m \in DOMAIN respawns : npcs'[m] = npcs[m]
      BY <1>1, <1>4, <3>1 DEF DamageNpc, NpcTypes, RespawnTypes
    <3>3. QED
      BY <1>1, <1>4, <3>2 DEF RespawnsOfTheDead, alive, DamageNpc
  <2>4. QED
    BY <1>1, <1>4, <2>2, <2>3, FieldStep DEF DamageNpc, PlayerTypes, RespawnTypes
<1>5. ASSUME NEW at \in 1..MaxTick, ScheduleNpcRespawn(n, at, 0)
      PROVE  NpcInv'
  <2>1. /\ DOMAIN respawns' = DOMAIN respawns \cup {n}
        /\ respawns' \in [DOMAIN respawns \cup {n} -> Respawn]
    <3>1. [at |-> at, pos |-> 0] \in Respawn
      BY DEF Respawn, NpcConstants
    <3>2. QED
      BY <1>1, <1>5, <3>1 DEF ScheduleNpcRespawn, RespawnTypes
  <2>2. RespawnTypes'
    BY <1>1, <2>1 DEF RespawnTypes
  <2>3. RespawnsOfTheDead'
    BY <1>1, <1>5, <2>1 DEF RespawnsOfTheDead, alive, ScheduleNpcRespawn
  <2>4. QED
    BY <1>1, <1>5, <2>2, <2>3, FieldStep DEF ScheduleNpcRespawn, PlayerTypes, NpcTypes
<1>6. QED
  BY <1>2, <1>3, <1>4, <1>5

\* The player leaves or enters.
LEMMA PlayerStep ==
  ASSUME NpcInv, PlayerLeaves \/ PlayerEnters(0)
  PROVE  NpcInv'
<1>1. PlayerTypes /\ NpcTypes /\ RespawnTypes /\ RespawnsOfTheDead
  BY DEF NpcInv, FieldTypes
<1>2. PlayerTypes'
  BY <1>1 DEF PlayerLeaves, PlayerEnters, PlayerTypes
<1>3. UNCHANGED <<npcs, respawns, intents, decisions, numbered, positionQueue>>
  BY DEF PlayerLeaves, PlayerEnters
<1>4. NpcTypes' /\ RespawnTypes' /\ RespawnsOfTheDead'
  BY <1>1, <1>3 DEF NpcTypes, RespawnTypes, RespawnsOfTheDead, alive
<1>5. QED
  BY <1>2, <1>3, <1>4, FieldStep

\* An entry with the next number goes behind those that have one.
LEMMA AppendKeepsOrder ==
  ASSUME NEW S, NEW q \in Seq(S), NEW e \in S, NEW given \in Nat,
         \A r \in S : r.seq \in Nat,
         \A i \in DOMAIN q : q[i].seq <= given,
         ascends(q), e.seq = given + 1
  PROVE  /\ Append(q, e) \in Seq(S)
         /\ ascends(Append(q, e))
         /\ \A i \in DOMAIN Append(q, e) : Append(q, e)[i].seq <= given + 1
         /\ DOMAIN q \subseteq DOMAIN Append(q, e)
         /\ \A i \in DOMAIN q : Append(q, e)[i] = q[i]
         /\ Append(q, e) # <<>>
<1> DEFINE a == Append(q, e)
<1>1. /\ a \in Seq(S) /\ Len(a) = Len(q) + 1 /\ a[Len(q) + 1] = e
      /\ \A i \in 1..Len(q) : a[i] = q[i]
  BY AppendProperties
<1> HIDE DEF a
<1>2. /\ Len(q) \in Nat /\ DOMAIN q = 1..Len(q) /\ DOMAIN a = 1..(Len(q) + 1)
  BY <1>1, LenProperties
<1>3. \A i \in 1..Len(q) : a[i] = q[i] /\ q[i].seq <= given /\ q[i].seq \in Nat
  BY <1>1, <1>2, ElementOfSeq
<1>4. \A i \in DOMAIN a : a[i].seq <= given + 1
  <2>1. ASSUME NEW i \in 1..(Len(q) + 1)
        PROVE  a[i].seq <= given + 1
    <3>1. CASE i = Len(q) + 1
      BY <1>1, <3>1
    <3>2. CASE i # Len(q) + 1
      <4>1. i \in 1..Len(q)
        BY <1>2, <3>2
      <4>2. QED
        BY <1>3, <4>1
    <3>3. QED
      BY <3>1, <3>2
  <2>2. QED
    BY <1>2, <2>1
<1>5. ascends(a)
  <2>1. ASSUME NEW i \in 1..(Len(q) + 1), NEW j \in 1..(Len(q) + 1), i < j
        PROVE  a[i].seq < a[j].seq
    <3>1. i \in 1..Len(q) /\ a[i].seq = q[i].seq
      BY <1>2, <1>3, <2>1
    <3>2. CASE j = Len(q) + 1
      BY <1>1, <1>3, <3>1, <3>2
    <3>3. CASE j # Len(q) + 1
      <4>1. j \in 1..Len(q) /\ a[j].seq = q[j].seq
        BY <1>2, <1>3, <3>3
      <4>2. QED
        BY <1>2, <2>1, <3>1, <4>1 DEF ascends
    <3>4. QED
      BY <3>2, <3>3
  <2>2. QED
    BY <1>2, <2>1 DEF ascends
<1>6. a # <<>>
  BY <1>1, <1>2
<1>7. \A i \in DOMAIN q : i \in DOMAIN a /\ a[i] = q[i]
  BY <1>2, <1>3
<1>8. QED
  BY <1>1, <1>4, <1>5, <1>6, <1>7 DEF a

\* A player's intent, an AI's decision or an action is queued.
LEMMA EnqueueStep ==
  ASSUME NpcInv,
         \/ \E d \in {-1, 1} : EnqueueIntent(d)
         \/ \E n \in Npcs : EnqueueDecision(n)
         \/ \E type \in {0, 1} : SubmitAction(type)
  PROVE  NpcInv'
<1>1. /\ FieldTypes /\ NumbersGiven /\ QueuesKeepOrder /\ RespawnsOfTheDead /\ LeftoversAreOrdered
      /\ PlayerTypes /\ NpcTypes /\ RespawnTypes /\ QueueTypes /\ positionQueue \in Seq(Move)
  BY DEF NpcInv, FieldTypes
<1>2. UNCHANGED <<fieldPlayer, npcs, respawns, positionQueue>>
  BY DEF EnqueueIntent, EnqueueDecision, SubmitAction
<1>3. PlayerTypes' /\ NpcTypes' /\ RespawnTypes' /\ RespawnsOfTheDead' /\ positionQueue' \in Seq(Move)
  BY <1>1, <1>2 DEF PlayerTypes, NpcTypes, RespawnTypes, RespawnsOfTheDead, alive
<1>4. ASSUME NEW d \in {-1, 1}, EnqueueIntent(d)
      PROVE  NpcInv'
  <2> DEFINE e == [seq |-> numbered.intents + 1, delta |-> d]
  <2>1. /\ intents' = Append(intents, e) /\ UNCHANGED decisions
        /\ numbered' = [numbered EXCEPT !.intents = numbered.intents + 1]
    BY <1>4 DEF EnqueueIntent
  <2>2. e \in Intent /\ e.seq = numbered.intents + 1 /\ numbered.intents \in Nat
    BY <1>1 DEF QueueTypes, Intent
  <2>3. numbered' \in [intents : Nat, decisions : Nat, actions : Nat]
        /\ numbered'.intents = numbered.intents + 1 /\ numbered'.decisions = numbered.decisions
    <3>1. numbered \in [intents : Nat, decisions : Nat, actions : Nat] /\ numbered.intents + 1 \in Nat
      BY <1>1, <2>2 DEF QueueTypes
    <3> HIDE DEF e
    <3>2. QED
      BY <2>1, <3>1
  <2>4. \A r \in Intent : r.seq \in Nat
    BY DEF Intent
  <2> HIDE DEF e
  <2>5. /\ intents' \in Seq(Intent) /\ ascends(intents')
        /\ \A i \in DOMAIN intents' : intents'[i].seq <= numbered.intents + 1
        /\ intents' # <<>>
    <3>1. intents \in Seq(Intent) /\ ascends(intents) /\ \A i \in DOMAIN intents : intents[i].seq <= numbered.intents
      BY <1>1 DEF QueueTypes, QueuesKeepOrder, NumbersGiven
    <3>2. QED
      BY <2>1, <2>2, <2>4, <3>1, AppendKeepsOrder
  <2>6. QueueTypes'
    BY <1>1, <2>1, <2>3, <2>5 DEF QueueTypes
  <2>7. NumbersGiven' /\ QueuesKeepOrder'
    BY <1>1, <2>1, <2>3, <2>5 DEF NumbersGiven, QueuesKeepOrder, ascends
  <2>8. LeftoversAreOrdered'
    BY <1>1, <1>2, <2>1, <2>5 DEF LeftoversAreOrdered, ordered
  <2>9. QED
    BY <1>3, <2>6, <2>7, <2>8 DEF NpcInv, FieldTypes
<1>5. ASSUME NEW n \in Npcs, EnqueueDecision(n)
      PROVE  NpcInv'
  <2> DEFINE e == [seq |-> numbered.decisions + 1, npc |-> n, delta |-> plan(n)]
  <2>1. /\ decisions' = Append(decisions, e) /\ UNCHANGED intents
        /\ numbered' = [numbered EXCEPT !.decisions = numbered.decisions + 1]
    BY <1>5 DEF EnqueueDecision
  <2>2. plan(n) \in Int
    <3>1. npcs[n].pos \in Int
      BY <1>1, <1>5 DEF EnqueueDecision, alive, NpcTypes, NpcState
    <3>2. QED
      BY <1>1, <3>1 DEF plan, PlayerTypes
  <2>3. e \in Decision /\ e.seq = numbered.decisions + 1 /\ numbered.decisions \in Nat
    BY <1>1, <2>2 DEF QueueTypes, Decision
  <2>4. numbered' \in [intents : Nat, decisions : Nat, actions : Nat]
        /\ numbered'.intents = numbered.intents /\ numbered'.decisions = numbered.decisions + 1
    <3>1. numbered \in [intents : Nat, decisions : Nat, actions : Nat] /\ numbered.decisions + 1 \in Nat
      BY <1>1, <2>3 DEF QueueTypes
    <3> HIDE DEF e
    <3>2. QED
      BY <2>1, <3>1
  <2>5. \A r \in Decision : r.seq \in Nat
    BY DEF Decision
  <2> HIDE DEF e
  <2>6. /\ decisions' \in Seq(Decision) /\ ascends(decisions')
        /\ \A i \in DOMAIN decisions' : decisions'[i].seq <= numbered.decisions + 1
        /\ \A i \in DOMAIN decisions : i \in DOMAIN decisions' /\ decisions'[i] = decisions[i]
    <3>1. decisions \in Seq(Decision) /\ ascends(decisions)
          /\ \A i \in DOMAIN decisions : decisions[i].seq <= numbered.decisions
      BY <1>1 DEF QueueTypes, QueuesKeepOrder, NumbersGiven
    <3>2. QED
      BY <2>1, <2>3, <2>5, <3>1, AppendKeepsOrder
  <2>7. QueueTypes'
    BY <1>1, <2>1, <2>4, <2>6 DEF QueueTypes
  <2>8. NumbersGiven' /\ QueuesKeepOrder'
    BY <1>1, <2>1, <2>4, <2>6 DEF NumbersGiven, QueuesKeepOrder, ascends
  <2>9. LeftoversAreOrdered'
    <3>1. \A who : ordered(who) => ordered(who)'
      BY <2>1, <2>6 DEF ordered
    <3>2. QED
      BY <1>1, <1>2, <3>1 DEF LeftoversAreOrdered
  <2>10. QED
    BY <1>3, <2>7, <2>8, <2>9 DEF NpcInv, FieldTypes
<1>6. ASSUME NEW type \in {0, 1}, SubmitAction(type)
      PROVE  NpcInv'
  <2>1. /\ UNCHANGED <<intents, decisions>>
        /\ numbered' = [numbered EXCEPT !.actions = numbered.actions + 1]
    BY <1>6 DEF SubmitAction
  <2>2. numbered' \in [intents : Nat, decisions : Nat, actions : Nat]
        /\ numbered'.intents = numbered.intents /\ numbered'.decisions = numbered.decisions
    BY <1>1, <2>1 DEF QueueTypes
  <2>3. QueueTypes' /\ NumbersGiven' /\ QueuesKeepOrder'
    BY <1>1, <2>1, <2>2 DEF QueueTypes, NumbersGiven, QueuesKeepOrder, ascends
  <2>4. LeftoversAreOrdered'
    BY <1>1, <1>2, <2>1 DEF LeftoversAreOrdered, ordered
  <2>5. QED
    BY <1>3, <2>3, <2>4 DEF NpcInv, FieldTypes
<1>7. QED
  BY <1>4, <1>5, <1>6

\* The moves of a frame are those of its intents and decisions.
LEMMA MovesAreOrdered ==
  ASSUME NpcConstants, FieldTypes, present
  PROVE  \A i \in 1..Len(moves) : ordered(moves[i][1])
<1>1. /\ intents \in Seq(Intent) /\ Len(intents) \in Nat
      /\ decisions \in Seq(Decision) /\ Len(decisions) \in Nat /\ DOMAIN decisions = 1..Len(decisions)
      /\ Len(<<>>) = 0
  BY LenProperties, EmptySeq DEF FieldTypes, QueueTypes
<1>2. /\ Len(moves) = Len(intents) + Len(decisions)
      /\ \A i \in 1..Len(intents) : moves[i] = <<You, fieldPlayer.pos + intents[i].delta>>
      /\ \A i \in 1..Len(decisions) :
           moves[Len(intents) + i] = <<decisions[i].npc, npcs[decisions[i].npc].pos + decisions[i].delta>>
  BY MovesOfFrame
<1>3. ASSUME NEW i \in 1..Len(moves)
      PROVE  ordered(moves[i][1])
  <2>1. CASE i <= Len(intents)
    <3>1. moves[i][1] = You /\ intents # <<>>
      BY <1>1, <1>2, <2>1
    <3>2. QED
      BY <3>1 DEF ordered
  <2>2. CASE ~(i <= Len(intents))
    <3> DEFINE j == i - Len(intents)
    <3>1. j \in 1..Len(decisions) /\ i = Len(intents) + j
      BY <1>1, <1>2, <2>2
    <3> HIDE DEF j
    <3>2. decisions[j] \in Decision
      BY <1>1, <3>1, ElementOfSeq
    <3>3. moves[i][1] = decisions[j].npc
      BY <1>2, <3>1
    <3>4. moves[i][1] # You
      BY <3>2, <3>3 DEF Decision, NpcConstants
    <3>5. QED
      BY <1>1, <3>1, <3>3, <3>4 DEF ordered
  <2>3. QED
    BY <2>1, <2>2
<1>4. QED
  BY <1>3

\* The smallest of some natural numbers.
LEMMA MinIsOne ==
  ASSUME NEW S, S \subseteq Nat, S # {}
  PROVE  Min(S) \in S
<1> DEFINE R == OpToRel(<, Nat)
<1>1. IsWellFoundedOn(R, Nat)
  BY NatLessThanWellFounded
<1>2. PICK x \in S : \A y \in S : ~ (<<y, x>> \in R)
  <2> HIDE DEF R
  <2>1. QED
    BY <1>1, WFMin
<1>3. \A y \in S : ~(y < x)
  BY <1>2 DEF OpToRel
<1>4. \A y \in S : y \in Nat /\ x \in Nat
  OBVIOUS
<1>5. \A y \in S : x =< y
  BY <1>3, <1>4
<1>6. \E k \in S : \A y \in S : k =< y
  BY <1>5
<1>7. QED
  BY <1>6 DEF Min

\* A refused frame: the queues are as they were, and Field has the moves
\* before the first that is outside.
LEMMA RefuseStep ==
  ASSUME NpcConstants, NpcInv, RefuseFrame
  PROVE  NpcInv'
<1>1. /\ FieldTypes /\ NumbersGiven /\ QueuesKeepOrder /\ RespawnsOfTheDead /\ LeftoversAreOrdered
      /\ PlayerTypes /\ NpcTypes /\ RespawnTypes /\ QueueTypes /\ positionQueue \in Seq(Move)
  BY DEF NpcInv, FieldTypes
<1>2. UNCHANGED <<fieldPlayer, npcs, respawns, intents, decisions, numbered>>
  BY DEF RefuseFrame, restored
<1>3. PlayerTypes' /\ NpcTypes' /\ RespawnTypes' /\ QueueTypes' /\ RespawnsOfTheDead'
  BY <1>1, <1>2 DEF PlayerTypes, NpcTypes, RespawnTypes, QueueTypes, RespawnsOfTheDead, alive
<1>4. NumbersGiven' /\ QueuesKeepOrder'
  BY <1>1, <1>2 DEF NumbersGiven, QueuesKeepOrder, ascends
<1>5. \A who : ordered(who)' <=> ordered(who)
  BY <1>2 DEF ordered
<1>6. CASE ~present
  <2>1. positionQueue' = positionQueue
    BY <1>6 DEF RefuseFrame
  <2>2. LeftoversAreOrdered'
    BY <1>1, <1>5, <2>1 DEF LeftoversAreOrdered
  <2>3. QED
    BY <1>1, <1>3, <1>4, <2>1, <2>2 DEF NpcInv, FieldTypes
<1>7. CASE present
  <2> DEFINE outside == {i \in DOMAIN moves : moves[i][2] \notin Coordinates}
             last == Min(outside) - 1
             rest == SubSeq(moves, 1, last)
  <2>1. moves \in Seq(Move) /\ Len(moves) \in Nat /\ DOMAIN moves = 1..Len(moves)
    BY <1>1, <1>7, MovesOfFrame, LenProperties
  <2>2. Min(outside) \in 1..Len(moves)
    <3>1. outside # {} /\ outside \subseteq 1..Len(moves)
      BY <1>7, <2>1 DEF RefuseFrame, inWorld
    <3>2. outside \subseteq Nat
      BY <3>1
    <3> HIDE DEF outside
    <3>3. QED
      BY <3>1, <3>2, MinIsOne
  <2>3. positionQueue' = positionQueue \o rest
    BY <1>7 DEF RefuseFrame, beforeFirstOutside
  <2> HIDE DEF outside
  <2>4. last \in Nat /\ last < Len(moves)
    BY <2>1, <2>2
  <2> HIDE DEF last
  <2>5. \A i \in 1..last : i \in 1..Len(moves) /\ moves[i] \in Move /\ ordered(moves[i][1])
    <3>1. \A i \in 1..last : i \in 1..Len(moves)
      BY <2>1, <2>4
    <3>2. QED
      BY <1>1, <1>7, <2>1, <3>1, ElementOfSeq, MovesAreOrdered
  <2>6. /\ rest \in Seq(Move) /\ Len(rest) = last
        /\ \A i \in 1..last : rest[i] = moves[i]
    <3>1. /\ rest \in Seq(Move) /\ Len(rest) = IF 1 <= last THEN last - 1 + 1 ELSE 0
          /\ \A i \in 1 .. last - 1 + 1 : rest[i] = moves[1 + i - 1]
      BY <2>4, <2>5, SubSeqProperties
    <3> HIDE DEF rest
    <3>2. QED
      BY <2>4, <3>1
  <2> HIDE DEF rest
  <2>7. /\ positionQueue' \in Seq(Move) /\ Len(positionQueue') = Len(positionQueue) + last
        /\ \A i \in 1 .. (Len(positionQueue) + last) :
             positionQueue'[i] = IF i <= Len(positionQueue) THEN positionQueue[i] ELSE rest[i - Len(positionQueue)]
    <3>1. /\ positionQueue \o rest \in Seq(Move)
          /\ Len(positionQueue \o rest) = Len(positionQueue) + Len(rest)
          /\ \A i \in 1 .. (Len(positionQueue) + Len(rest)) :
               (positionQueue \o rest)[i] =
                 IF i <= Len(positionQueue) THEN positionQueue[i] ELSE rest[i - Len(positionQueue)]
      BY <1>1, <2>6, ConcatProperties
    <3>2. Len(rest) = last
      BY <2>6
    <3>3. QED
      BY ONLY <2>3, <3>1, <3>2, Zenon
  <2>8. /\ Len(positionQueue) \in Nat /\ DOMAIN positionQueue = 1..Len(positionQueue)
        /\ DOMAIN positionQueue' = 1..(Len(positionQueue) + last)
    BY <1>1, <2>7, LenProperties
  <2>9. ASSUME NEW i \in DOMAIN positionQueue'
        PROVE  ordered(positionQueue'[i][1])
    <3>1. CASE i <= Len(positionQueue)
      <4>1. i \in DOMAIN positionQueue /\ positionQueue'[i] = positionQueue[i]
        BY <2>7, <2>8, <2>9, <3>1
      <4>2. QED
        BY <1>1, <4>1 DEF LeftoversAreOrdered
    <3>2. CASE ~(i <= Len(positionQueue))
      <4>1. i - Len(positionQueue) \in 1..last
        BY <2>4, <2>8, <2>9, <3>2
      <4>2. positionQueue'[i] = moves[i - Len(positionQueue)]
        BY <2>6, <2>7, <2>8, <2>9, <3>2, <4>1
      <4>3. QED
        BY <2>5, <4>1, <4>2
    <3>3. QED
      BY <3>1, <3>2
  <2>10. LeftoversAreOrdered'
    BY <1>5, <2>9 DEF LeftoversAreOrdered
  <2>11. QED
    BY <1>3, <1>4, <2>7, <2>10 DEF NpcInv, FieldTypes
<1>8. QED
  BY <1>6, <1>7

\* A frame that is applied moves the player by the last of its intents and an
\* NPC that is alive by its last decision; what was left over is not seen.
LEMMA FrameMoves ==
  ASSUME NpcConstants, NpcInv, ApplyFrame
  PROVE  /\ movedByLast(intents, DOMAIN intents, fieldPlayer.pos, fieldPlayer'.pos)
         /\ \A n \in Npcs : alive(n) =>
              movedByLast(decisions, {i \in DOMAIN decisions : decisions[i].npc = n},
                          npcs[n].pos, npcs'[n].pos)
<1> DEFINE q == positionQueue \o moves
<1>1. /\ FieldTypes /\ LeftoversAreOrdered
      /\ PlayerTypes /\ NpcTypes /\ positionQueue \in Seq(Move)
      /\ intents \in Seq(Intent) /\ decisions \in Seq(Decision)
  BY DEF NpcInv, FieldTypes, QueueTypes
<1>2. present
  BY DEF ApplyFrame
<1>3. /\ Len(intents) \in Nat /\ DOMAIN intents = 1..Len(intents)
      /\ Len(decisions) \in Nat /\ DOMAIN decisions = 1..Len(decisions)
      /\ Len(positionQueue) \in Nat /\ DOMAIN positionQueue = 1..Len(positionQueue)
  BY <1>1, LenProperties
<1>4. /\ moves \in Seq(Move)
      /\ Len(moves) = Len(intents) + Len(decisions)
      /\ \A i \in 1..Len(intents) : moves[i] = <<You, fieldPlayer.pos + intents[i].delta>>
      /\ \A i \in 1..Len(decisions) :
           moves[Len(intents) + i] = <<decisions[i].npc, npcs[decisions[i].npc].pos + decisions[i].delta>>
  BY <1>1, <1>2, MovesOfFrame
<1>5. \A i \in 1..Len(decisions) : decisions[i].npc \in Npcs /\ decisions[i].npc # You
  <2>1. \A i \in 1..Len(decisions) : decisions[i] \in Decision
    BY <1>1, ElementOfSeq
  <2>2. QED
    BY <2>1 DEF Decision, NpcConstants
<1>6. \A i \in 1..Len(moves) :
        \/ i \in 1..Len(intents) /\ moves[i][1] = You
        \/ i - Len(intents) \in 1..Len(decisions) /\ moves[i][1] = decisions[i - Len(intents)].npc
  <2>1. ASSUME NEW i \in 1..Len(moves), ~(i <= Len(intents))
        PROVE  i - Len(intents) \in 1..Len(decisions) /\ moves[i][1] = decisions[i - Len(intents)].npc
    <3>1. i - Len(intents) \in 1..Len(decisions) /\ Len(intents) + (i - Len(intents)) = i
      BY <1>3, <1>4, <2>1
    <3>2. QED
      BY <1>4, <3>1
  <2>2. ASSUME NEW i \in 1..Len(moves), i <= Len(intents)
        PROVE  i \in 1..Len(intents) /\ moves[i][1] = You
    BY <1>3, <1>4, <2>2
  <2>3. QED
    BY <2>1, <2>2
<1>7. ASSUME NEW who, NEW x, ~ordered(who)
      PROVE  lastPosition(q, who, x) = x
  <2>1. /\ q \in Seq(Move) /\ Len(q) = Len(positionQueue) + Len(moves)
        /\ \A i \in 1..(Len(positionQueue) + Len(moves)) :
             q[i] = IF i <= Len(positionQueue) THEN positionQueue[i] ELSE moves[i - Len(positionQueue)]
    <3>1. positionQueue \in Seq(Move) /\ moves \in Seq(Move)
      BY <1>1, <1>4
    <3>2. QED
      BY <3>1, ConcatProperties
  <2>2. Len(moves) \in Nat
    BY <1>3, <1>4
  <2> HIDE DEF q
  <2>3. DOMAIN q = 1..(Len(positionQueue) + Len(moves))
    BY <2>1, LenProperties
  <2>4. ASSUME NEW i \in DOMAIN q
        PROVE  q[i][1] # who
    <3>1. CASE i <= Len(positionQueue)
      <4>1. i \in DOMAIN positionQueue /\ q[i] = positionQueue[i]
        BY <1>3, <2>1, <2>3, <2>4, <3>1
      <4>2. QED
        BY <1>1, <1>7, <4>1 DEF LeftoversAreOrdered
    <3>2. CASE ~(i <= Len(positionQueue))
      <4>1. i - Len(positionQueue) \in 1..Len(moves) /\ q[i] = moves[i - Len(positionQueue)]
        BY <1>3, <2>1, <2>2, <2>3, <2>4, <3>2
      <4>2. QED
        BY <1>1, <1>2, <1>7, <4>1, MovesAreOrdered
    <3>3. QED
      BY <3>1, <3>2
  <2>5. {i \in DOMAIN q : q[i][1] = who} = {}
    BY <2>4
  <2>6. QED
    BY <2>5 DEF lastPosition
<1>8. movedByLast(intents, DOMAIN intents, fieldPlayer.pos, fieldPlayer'.pos)
  <2>1. CASE intents = <<>>
    <3>1. ~ordered(You) /\ DOMAIN intents = {}
      BY <2>1 DEF ordered
    <3>2. lastPosition(q, You, fieldPlayer.pos) = fieldPlayer.pos
      BY <1>7, <3>1
    <3>3. fieldPlayer'.pos = fieldPlayer.pos
      BY <1>1, <3>2 DEF ApplyFrame, PlayerTypes
    <3>4. QED
      BY <3>1, <3>3 DEF movedByLast
  <2>2. CASE intents # <<>>
    <3>1. Len(intents) \in 1..Len(intents)
      BY <1>1, <1>3, <2>2, EmptySeq
    <3>2. Len(intents) \in 1..Len(moves) /\ moves[Len(intents)][1] = You
      BY <1>3, <1>4, <3>1
    <3>3. PICK k \in 1..Len(moves) :
            /\ moves[k][1] = You
            /\ \A i \in 1..Len(moves) : moves[i][1] = You => i <= k
            /\ lastPosition(q, You, fieldPlayer.pos) = moves[k][2]
      <4>1. /\ positionQueue \in Seq(Move) /\ moves \in Seq(Move)
            /\ \E i \in 1..Len(moves) : moves[i][1] = You
        BY <1>1, <1>4, <3>2
      <4>2. \E k \in 1..Len(moves) :
              /\ moves[k][1] = You
              /\ \A i \in 1..Len(moves) : moves[i][1] = You => i <= k
              /\ lastPosition(positionQueue \o moves, You, fieldPlayer.pos) = moves[k][2]
        BY <4>1, LastOfTheFrame
      <4>3. QED
        BY <4>2
    <3>4. k \in 1..Len(intents)
      BY <1>5, <1>6, <3>3
    <3>5. k = Len(intents)
      <4>1. Len(intents) <= k
        BY <3>2, <3>3
      <4>2. k \in Int /\ k <= Len(intents) /\ Len(intents) \in Int
        BY <1>3, <3>4
      <4>3. QED
        BY <4>1, <4>2
    <3>6. moves[k][2] = fieldPlayer.pos + intents[k].delta
      BY <1>4, <3>4
    <3>7. fieldPlayer'.pos = lastPosition(q, You, fieldPlayer.pos)
      <4>1. fieldPlayer.on
        BY <1>2, <2>2 DEF present
      <4>2. fieldPlayer' = [fieldPlayer EXCEPT !.pos = lastPosition(q, You, fieldPlayer.pos),
                                               !.hp = fieldPlayer.hp + gained({1, 3})]
        BY <4>1 DEF ApplyFrame
      <4> HIDE DEF q
      <4>3. QED
        BY <1>1, <4>2 DEF PlayerTypes
    <3>8. k \in DOMAIN intents /\ \A j \in DOMAIN intents : j <= k
      BY <1>3, <3>4, <3>5
    <3>9. QED
      BY <3>3, <3>6, <3>7, <3>8 DEF movedByLast
  <2>3. QED
    BY <2>1, <2>2
<1>9. ASSUME NEW n \in Npcs, alive(n)
      PROVE  movedByLast(decisions, {i \in DOMAIN decisions : decisions[i].npc = n}, npcs[n].pos, npcs'[n].pos)
  <2> DEFINE mine == {i \in DOMAIN decisions : decisions[i].npc = n}
  <2>1. npcs[n] \in NpcState /\ npcs[n] # NoNpc /\ n # You
    BY <1>1, <1>9 DEF alive, NpcTypes, NpcConstants
  <2>2. npcs'[n].pos = lastPosition(q, n, npcs[n].pos)
    <3>1. npcs'[n] = npcAfter(q, n, worldTick + 1)
      BY DEF ApplyFrame
    <3>2. npcAfter(q, n, worldTick + 1) = [npcs[n] EXCEPT !.pos = lastPosition(q, n, npcs[n].pos)]
      BY <1>9, <2>1 DEF npcAfter
    <3> HIDE DEF q
    <3>3. QED
      BY <2>1, <3>1, <3>2 DEF NpcState
  <2>3. CASE mine = {}
    <3>1. ~ordered(n)
      BY <2>1, <2>3 DEF ordered
    <3>2. QED
      BY <1>7, <2>2, <2>3, <3>1 DEF movedByLast
  <2>4. CASE mine # {}
    <3>1. PICK j \in 1..Len(decisions) : decisions[j].npc = n
      BY <1>3, <2>4
    <3>2. Len(intents) + j \in 1..Len(moves) /\ moves[Len(intents) + j][1] = n
      BY <1>3, <1>4, <3>1
    <3>3. PICK k \in 1..Len(moves) :
            /\ moves[k][1] = n
            /\ \A i \in 1..Len(moves) : moves[i][1] = n => i <= k
            /\ lastPosition(q, n, npcs[n].pos) = moves[k][2]
      <4>1. /\ positionQueue \in Seq(Move) /\ moves \in Seq(Move)
            /\ \E i \in 1..Len(moves) : moves[i][1] = n
        BY <1>1, <1>4, <3>2
      <4>2. \E k \in 1..Len(moves) :
              /\ moves[k][1] = n
              /\ \A i \in 1..Len(moves) : moves[i][1] = n => i <= k
              /\ lastPosition(positionQueue \o moves, n, npcs[n].pos) = moves[k][2]
        <5> DEFINE x == npcs[n].pos
        <5> HIDE DEF x, mine, q
        <5>1. \E k \in 1..Len(moves) :
                /\ moves[k][1] = n
                /\ \A i \in 1..Len(moves) : moves[i][1] = n => i <= k
                /\ lastPosition(positionQueue \o moves, n, x) = moves[k][2]
          BY <4>1, LastOfTheFrame
        <5>2. QED
          BY <5>1 DEF x
      <4>3. QED
        BY <4>2
    <3> DEFINE d == k - Len(intents)
    <3>4. d \in 1..Len(decisions) /\ decisions[d].npc = n
      BY <1>6, <2>1, <3>3
    <3>5. Len(intents) + d = k
      BY <1>3, <1>4
    <3>6. \A i \in mine : i <= d
      <4>1. ASSUME NEW i \in 1..Len(decisions), decisions[i].npc = n
            PROVE  i <= d
        <5>1. Len(intents) + i \in 1..Len(moves) /\ moves[Len(intents) + i][1] = n
          BY <1>3, <1>4, <4>1
        <5>2. Len(intents) + i <= k
          BY <3>3, <5>1
        <5>3. QED
          BY <1>3, <1>4, <5>2
      <4>2. QED
        BY <1>3, <4>1
    <3> HIDE DEF d
    <3>7. moves[k][2] = npcs[n].pos + decisions[d].delta
      BY <1>4, <3>4, <3>5
    <3>8. d \in mine /\ npcs'[n].pos = npcs[n].pos + decisions[d].delta
      BY <1>3, <2>2, <3>3, <3>4, <3>7
    <3> HIDE DEF mine
    <3>9. QED
      BY <3>6, <3>8 DEF movedByLast, mine
  <2>5. QED
    BY <2>3, <2>4
<1>10. QED
  BY <1>8, <1>9

\* What an applied frame makes of an NPC.
LEMMA NpcAfterFrame ==
  ASSUME NpcInv, ApplyFrame, NEW n \in Npcs
  PROVE  /\ npcs'[n] \in NpcState \cup {NoNpc}
         /\ npcs[n] # NoNpc /\ ~alive(n) =>
              \/ npcs'[n] = npcs[n]
              \/ /\ n \in DOMAIN respawns /\ respawns[n].at <= worldTick'
                 /\ npcs'[n].pos = respawns[n].pos
         /\ n \in DOMAIN respawns' => npcs'[n] = npcs[n] /\ n \in DOMAIN respawns
<1> DEFINE q == positionQueue \o moves
           tick == worldTick + 1
<1>1. NpcTypes /\ RespawnTypes /\ positionQueue \in Seq(Move) /\ FieldTypes /\ RespawnsOfTheDead
  BY DEF NpcInv, FieldTypes
<1>2. /\ npcs'[n] = npcAfter(q, n, tick) /\ worldTick' = tick /\ present
      /\ DOMAIN respawns' = DOMAIN respawns \ due(tick)
  BY DEF ApplyFrame
<1>3. q \in Seq(Move)
  <2>1. moves \in Seq(Move)
    BY <1>1, <1>2, MovesOfFrame
  <2>2. QED
    BY <1>1, <2>1, ConcatProperties
<1> HIDE DEF q, tick
<1>4. CASE npcs[n] = NoNpc
  <2>1. npcs'[n] = NoNpc
    BY <1>2, <1>4 DEF npcAfter
  <2>2. n \notin DOMAIN respawns
    BY <1>1, <1>4 DEF RespawnsOfTheDead
  <2>3. QED
    BY <1>2, <1>4, <2>1, <2>2
<1>5. CASE npcs[n] # NoNpc /\ alive(n)
  <2>1. npcs'[n] = [npcs[n] EXCEPT !.pos = lastPosition(q, n, npcs[n].pos)]
    BY <1>2, <1>5 DEF npcAfter
  <2>2. npcs[n] \in NpcState
    BY <1>1, <1>5 DEF NpcTypes
  <2>3. lastPosition(q, n, npcs[n].pos) \in Int
    BY <1>3, <2>2, LastPositionIsNumber DEF NpcState
  <2>4. n \notin DOMAIN respawns
    BY <1>1, <1>5 DEF RespawnsOfTheDead
  <2>5. npcs'[n] \in NpcState
    BY <2>1, <2>2, <2>3 DEF NpcState
  <2>6. QED
    BY <1>2, <1>5, <2>4, <2>5
<1>6. CASE npcs[n] # NoNpc /\ ~alive(n)
  <2>1. npcs'[n] = IF n \in due(tick) THEN [pos |-> respawns[n].pos, hp |-> 1] ELSE npcs[n]
    BY <1>2, <1>6 DEF npcAfter
  <2>2. CASE n \in due(tick)
    <3>1. n \in DOMAIN respawns /\ respawns[n].at <= tick /\ respawns[n] \in Respawn
      BY <1>1, <2>2 DEF due, RespawnTypes
    <3>2. npcs'[n] \in NpcState /\ npcs'[n].pos = respawns[n].pos
      BY <2>1, <2>2, <3>1 DEF NpcState, Respawn
    <3>3. QED
      BY <1>2, <2>2, <3>1, <3>2
  <2>3. CASE n \notin due(tick)
    BY <1>1, <1>2, <2>1, <2>3 DEF NpcTypes
  <2>4. QED
    BY <2>2, <2>3
<1>7. QED
  BY <1>4, <1>5, <1>6

\* An applied frame empties the queues.
LEMMA ApplyStep ==
  ASSUME NpcConstants, NpcInv, ApplyFrame
  PROVE  NpcInv'
<1> DEFINE q == positionQueue \o moves
<1>1. /\ PlayerTypes /\ NpcTypes /\ RespawnTypes /\ QueueTypes /\ positionQueue \in Seq(Move)
      /\ FieldTypes /\ RespawnsOfTheDead
  BY DEF NpcInv, FieldTypes
<1>2. PlayerTypes'
  <2>1. moves \in Seq(Move)
    BY <1>1, MovesOfFrame DEF ApplyFrame
  <2>2. q \in Seq(Move)
    BY <1>1, <2>1, ConcatProperties
  <2>3. lastPosition(q, You, fieldPlayer.pos) \in Int
    <3> HIDE DEF q
    <3>1. QED
      BY <1>1, <2>2, LastPositionIsNumber DEF PlayerTypes
  <2>4. \/ fieldPlayer' = fieldPlayer
        \/ fieldPlayer' = [fieldPlayer EXCEPT !.pos = lastPosition(q, You, fieldPlayer.pos),
                                              !.hp = fieldPlayer.hp + gained({1, 3})]
    BY DEF ApplyFrame
  <2> HIDE DEF q
  <2>5. QED
    BY <1>1, <2>3, <2>4 DEF PlayerTypes
<1>3. /\ DOMAIN npcs' = Npcs
      /\ npcs' = [n \in Npcs |-> npcAfter(q, n, worldTick + 1)]
      /\ respawns' = [n \in DOMAIN respawns \ due(worldTick + 1) |-> respawns[n]]
      /\ intents' = <<>> /\ decisions' = <<>> /\ positionQueue' = <<>> /\ numbered' = numbered
  BY DEF ApplyFrame
<1> HIDE DEF q
<1>4. NpcTypes'
  <2>1. \A n \in Npcs : npcs'[n] \in NpcState \cup {NoNpc}
    BY NpcAfterFrame
  <2>2. QED
    BY <1>3, <2>1 DEF NpcTypes
<1>5. RespawnTypes'
  BY <1>1, <1>3 DEF RespawnTypes
<1>6. RespawnsOfTheDead'
  <2>1. ASSUME NEW n \in DOMAIN respawns'
        PROVE  npcs'[n] = npcs[n] /\ n \in DOMAIN respawns /\ n \in Npcs
    <3>1. n \in Npcs
      BY <1>5, <2>1 DEF RespawnTypes
    <3>2. QED
      BY <2>1, <3>1, NpcAfterFrame
  <2>2. QED
    BY <1>1, <2>1 DEF RespawnsOfTheDead, alive
<1>7. QueueTypes' /\ positionQueue' \in Seq(Move)
  <2>1. <<>> \in Seq(Intent) /\ <<>> \in Seq(Decision) /\ <<>> \in Seq(Move)
    BY EmptySeq
  <2>2. QED
    BY <1>1, <1>3, <2>1 DEF QueueTypes
<1>8. NumbersGiven' /\ QueuesKeepOrder' /\ LeftoversAreOrdered'
  <2>1. DOMAIN <<>> = {}
    OBVIOUS
  <2>2. QED
    BY <1>3, <2>1 DEF NumbersGiven, QueuesKeepOrder, ascends, LeftoversAreOrdered
<1>9. QED
  BY <1>2, <1>4, <1>5, <1>6, <1>7, <1>8 DEF NpcInv, FieldTypes

-----------------------------------------------------------------------------
(* The specification *)

\* NpcInv is inductive.
LEMMA NpcInvHolds ==
  ASSUME NpcConstants
  PROVE  Spec => []NpcInv
<1>1. ASSUME Init
      PROVE  NpcInv
  <2>1. <<>> \in Seq(Intent) /\ <<>> \in Seq(Decision) /\ <<>> \in Seq(Move)
    BY EmptySeq
  <2>2. DOMAIN <<>> = {}
    OBVIOUS
  <2>3. PlayerTypes /\ NpcTypes /\ RespawnTypes /\ RespawnsOfTheDead
    BY <1>1 DEF Init, PlayerTypes, NpcTypes, RespawnTypes, RespawnsOfTheDead
  <2>4. QueueTypes /\ positionQueue \in Seq(Move)
    BY <1>1, <2>1 DEF Init, QueueTypes
  <2>5. NumbersGiven /\ QueuesKeepOrder /\ LeftoversAreOrdered
    BY <1>1, <2>2 DEF Init, NumbersGiven, QueuesKeepOrder, ascends, LeftoversAreOrdered
  <2>6. QED
    BY <2>3, <2>4, <2>5 DEF NpcInv, FieldTypes
<1>2. ASSUME NpcInv, [Next]_npcVars
      PROVE  NpcInv'
  <2>1. CASE UNCHANGED npcVars
    <3>1. UNCHANGED <<fieldPlayer, npcs, respawns, intents, decisions, numbered, positionQueue>>
      BY <2>1 DEF npcVars
    <3>2. PlayerTypes /\ NpcTypes /\ RespawnTypes /\ RespawnsOfTheDead
      BY <1>2 DEF NpcInv, FieldTypes
    <3>3. PlayerTypes' /\ NpcTypes' /\ RespawnTypes' /\ RespawnsOfTheDead'
      BY <3>1, <3>2 DEF PlayerTypes, NpcTypes, RespawnTypes, RespawnsOfTheDead, alive
    <3>4. QED
      BY <1>2, <3>1, <3>3, FieldStep
  <2>2. ASSUME NEW n \in Npcs,
               \/ \E x \in {0, MaxCoordinate}, hp \in {0, 1} : SetNpc(n, x, hp)
               \/ UnsetNpc(n) \/ DamageNpc(n) \/ EnqueueDecision(n)
               \/ \E at \in 1..MaxTick : ScheduleNpcRespawn(n, at, 0)
        PROVE  NpcInv'
    BY <1>2, <2>2, NpcStep, EnqueueStep
  <2>3. CASE \/ PlayerLeaves \/ PlayerEnters(0)
             \/ \E d \in {-1, 1} : EnqueueIntent(d)
             \/ \E type \in {0, 1} : SubmitAction(type)
             \/ RefuseFrame \/ ApplyFrame
    BY <1>2, <2>3, PlayerStep, EnqueueStep, RefuseStep, ApplyStep
  <2>4. QED
    BY <1>2, <2>1, <2>2, <2>3 DEF Next
<1>3. QED
  BY <1>1, <1>2, PTL DEF Spec

\* However often a frame is refused and put back, intents and decisions stay in
\* the order of their numbers, none of them twice.
THEOREM QueuesStayInOrder ==
  ASSUME NpcConstants
  PROVE  Spec => []QueuesKeepOrder
<1>1. NpcInv => QueuesKeepOrder
  BY DEF NpcInv
<1>2. QED
  BY <1>1, NpcInvHolds, PTL

\* A respawn is pending only for an NPC that is on the Field and dead.
THEOREM RespawnsAreOfTheDead ==
  ASSUME NpcConstants
  PROVE  Spec => []RespawnsOfTheDead
<1>1. NpcInv => RespawnsOfTheDead
  BY DEF NpcInv
<1>2. QED
  BY <1>1, NpcInvHolds, PTL

\* What refused frames left in Field's position queue is never seen: an applied
\* frame moves everybody by their last intent or decision in it.
THEOREM LeftoversAreNotSeen ==
  ASSUME NpcConstants
  PROVE  Spec => MovesAreThisFrames
<1> DEFINE Moved ==
      ApplyFrame =>
       /\ movedByLast(intents, DOMAIN intents, fieldPlayer.pos, fieldPlayer'.pos)
       /\ \A n \in Npcs : alive(n) =>
            movedByLast(decisions, {i \in DOMAIN decisions : decisions[i].npc = n},
                        npcs[n].pos, npcs'[n].pos)
<1>1. NpcInv => Moved
  BY FrameMoves
<1>2. NpcInv /\ [Next]_npcVars => [Moved]_npcVars
  BY <1>1
<1>3. QED
  BY <1>2, NpcInvHolds, PTL DEF Spec, MovesAreThisFrames

\* A dead NPC comes back only by a respawn that is due, where that says.
THEOREM TheDeadStayDead ==
  ASSUME NpcConstants
  PROVE  Spec => DeadUntilRespawn
<1> DEFINE Stays ==
      \A n \in Npcs : npcs[n] # NoNpc /\ ~alive(n) /\ npcs'[n] # NoNpc =>
       \/ npcs'[n] = npcs[n]
       \/ /\ n \in DOMAIN respawns /\ respawns[n].at <= worldTick'
          /\ npcs'[n].pos = respawns[n].pos
<1>1. ASSUME NpcInv, [Next]_npcVars
      PROVE  Stays
  <2> SUFFICES ASSUME NEW n \in Npcs, npcs[n] # NoNpc, ~alive(n), npcs'[n] # NoNpc
               PROVE  \/ npcs'[n] = npcs[n]
                      \/ /\ n \in DOMAIN respawns /\ respawns[n].at <= worldTick'
                         /\ npcs'[n].pos = respawns[n].pos
    OBVIOUS
  <2>1. NpcTypes
    BY <1>1 DEF NpcInv, FieldTypes
  <2>2. ASSUME NEW m \in Npcs, NEW x, NEW hp, SetNpc(m, x, hp)
        PROVE  npcs'[n] = npcs[n]
    BY <2>1, <2>2 DEF SetNpc, NpcTypes
  <2>3. ASSUME NEW m \in Npcs, UnsetNpc(m)
        PROVE  npcs'[n] = npcs[n]
    BY <2>1, <2>3 DEF UnsetNpc, NpcTypes
  <2>4. ASSUME NEW m \in Npcs, DamageNpc(m)
        PROVE  npcs'[n] = npcs[n]
    BY <2>1, <2>4 DEF DamageNpc, NpcTypes
  <2>5. CASE ApplyFrame
    BY <1>1, <2>5, NpcAfterFrame
  <2>6. CASE UNCHANGED npcs
    BY <2>6
  <2>7. QED
    BY <1>1, <2>2, <2>3, <2>4, <2>5, <2>6
    DEF Next, npcVars, EnqueueDecision, ScheduleNpcRespawn, PlayerLeaves, PlayerEnters,
        EnqueueIntent, SubmitAction, RefuseFrame
<1>2. NpcInv /\ [Next]_npcVars => [Stays]_npcVars
  BY <1>1
<1>3. QED
  BY <1>2, NpcInvHolds, PTL DEF Spec, DeadUntilRespawn
=============================================================================
