------------------------------ MODULE NpcWorld ------------------------------
(***************************************************************************)
(* NPCs on the Field and the frame of actions: placing and removing NPCs,  *)
(* damage, scheduled respawns, the AI planner with its queue, the movement *)
(* intents of a player, and WorldFrameApplier::apply(FrameActions), which  *)
(* refuses a frame and puts back what it took, or fills Field's position   *)
(* and action queues and runs Field::processFrame.                         *)
(*                                                                         *)
(* There is one player, bound to one session, and everybody stands on a    *)
(* line.  The queues are those of one thread.  An NPC has few hit points,  *)
(* and is alive while it has any (applyDamage keeps alive in step).        *)
(***************************************************************************)
EXTENDS Integers, SequencesExt, FiniteSetsExt

CONSTANTS
  Npcs,          \* NPC ids
  NoNpc, You,    \* no NPC with this id; the player
  MaxCoordinate, \* MAX_WORLD_COORDINATE
  MaxQueue,      \* MAX_PENDING_INTENTS, and MAX_PENDING_INPUTS of the AI
  MaxTick,       \* bound of the model: frames
  MaxMoves,      \* bound of the model: intents, and AI decisions, of a behaviour
  MaxActions     \* bound of the model: actions of a behaviour

VARIABLES
  fieldPlayer,    \* the player: on the Field, position, hit points gained
  fieldStatus,    \* hit points gained by the Field itself
  npcs,           \* the NPCs: position and hit points, or NoNpc
  respawns,       \* npcRespawns: the tick and the position of each
  intents,        \* MovementIntentQueue
  decisions,      \* NpcAiInputQueue
  numbered,       \* numbers given: to intents, to decisions, to actions
  actions,        \* ActionQueue: the action types
  positionQueue,  \* Field's queue of <<who, position>>
  worldTick,      \* ServerTick
  lastProcessed   \* lastProcessedBySession

npcVars == <<fieldPlayer, fieldStatus, npcs, respawns, intents, decisions, numbered, actions,
             positionQueue, worldTick, lastProcessed>>

Coordinates == -MaxCoordinate..MaxCoordinate
alive(n) == npcs[n] # NoNpc /\ npcs[n].hp > 0

Init ==
  /\ fieldPlayer = [on |-> TRUE, pos |-> 0, hp |-> 0] /\ fieldStatus = 0
  /\ npcs = [n \in Npcs |-> NoNpc]
  /\ respawns = [n \in {} |-> 0]
  /\ intents = <<>> /\ decisions = <<>> /\ actions = <<>> /\ positionQueue = <<>>
  /\ numbered = [intents |-> 0, decisions |-> 0, actions |-> 0]
  /\ worldTick = 0 /\ lastProcessed = 0

-----------------------------------------------------------------------------
(* The Field *)

SetNpc(n, x, hp) ==
  /\ npcs[n] = NoNpc
  /\ npcs' = [npcs EXCEPT ![n] = [pos |-> x, hp |-> hp]]
  /\ UNCHANGED <<fieldPlayer, fieldStatus, respawns, intents, decisions, numbered, actions,
                 positionQueue, worldTick, lastProcessed>>

\* Mutant of withoutRespawn: a respawn outlives its NPC.
withoutRespawn_kept(n) == respawns

withoutRespawn(n) == [m \in DOMAIN respawns \ {n} |-> respawns[m]]

UnsetNpc(n) ==
  /\ npcs[n] # NoNpc
  /\ npcs' = [npcs EXCEPT ![n] = NoNpc]
  /\ respawns' = withoutRespawn(n)
  /\ UNCHANGED <<fieldPlayer, fieldStatus, intents, decisions, numbered, actions,
                 positionQueue, worldTick, lastProcessed>>

\* applyDamageToTarget, for an attack or a spell on an NPC.
DamageNpc(n) ==
  /\ alive(n)
  /\ npcs' = [npcs EXCEPT ![n].hp = @ - 1]
  /\ UNCHANGED <<fieldPlayer, fieldStatus, respawns, intents, decisions, numbered, actions,
                 positionQueue, worldTick, lastProcessed>>

ScheduleNpcRespawn(n, at, x) ==
  /\ npcs[n] # NoNpc /\ ~alive(n) /\ n \notin DOMAIN respawns
  /\ at > 0
  /\ respawns' = [m \in DOMAIN respawns \cup {n} |->
                    IF m = n THEN [at |-> at, pos |-> x] ELSE respawns[m]]
  /\ UNCHANGED <<fieldPlayer, fieldStatus, npcs, intents, decisions, numbered, actions,
                 positionQueue, worldTick, lastProcessed>>

\* unsetPlayer, and a placement of the player at x.
PlayerLeaves ==
  /\ fieldPlayer.on
  /\ fieldPlayer' = [fieldPlayer EXCEPT !.on = FALSE]
  /\ UNCHANGED <<fieldStatus, npcs, respawns, intents, decisions, numbered, actions,
                 positionQueue, worldTick, lastProcessed>>

PlayerEnters(x) ==
  /\ ~fieldPlayer.on
  /\ fieldPlayer' = [on |-> TRUE, pos |-> x, hp |-> 0]
  /\ UNCHANGED <<fieldStatus, npcs, respawns, intents, decisions, numbered, actions,
                 positionQueue, worldTick, lastProcessed>>

-----------------------------------------------------------------------------
(* The queues *)

EnqueueIntent(d) ==
  /\ Len(intents) < MaxQueue /\ numbered.intents < MaxMoves
  /\ intents' = Append(intents, [seq |-> numbered.intents + 1, delta |-> d])
  /\ numbered' = [numbered EXCEPT !.intents = @ + 1]
  /\ UNCHANGED <<fieldPlayer, fieldStatus, npcs, respawns, decisions, actions,
                 positionQueue, worldTick, lastProcessed>>

\* NpcAiPlanner::plan, for an NPC that is observed alive: a step towards the
\* player, none if they stand together; then the queue.
plan(n) == CASE fieldPlayer.pos > npcs[n].pos -> 1
             [] fieldPlayer.pos < npcs[n].pos -> -1
             [] OTHER -> 0
EnqueueDecision(n) ==
  /\ alive(n)
  /\ Len(decisions) < MaxQueue /\ numbered.decisions < MaxMoves
  /\ decisions' = Append(decisions, [seq |-> numbered.decisions + 1, npc |-> n, delta |-> plan(n)])
  /\ numbered' = [numbered EXCEPT !.decisions = @ + 1]
  /\ UNCHANGED <<fieldPlayer, fieldStatus, npcs, respawns, intents, actions,
                 positionQueue, worldTick, lastProcessed>>

\* An action on the Field (0) or on the player (1 and 3).
SubmitAction(type) ==
  /\ numbered.actions < MaxActions
  /\ actions' = Append(actions, type)
  /\ numbered' = [numbered EXCEPT !.actions = @ + 1]
  /\ UNCHANGED <<fieldPlayer, fieldStatus, npcs, respawns, intents, decisions, positionQueue,
                 worldTick, lastProcessed>>

-----------------------------------------------------------------------------
(* apply(FrameActions) *)

\* Every intent has its player on the Field, every decision an NPC alive.
present ==
  /\ intents # <<>> => fieldPlayer.on
  /\ \A i \in DOMAIN decisions : alive(decisions[i].npc)

\* The positions that queueMovement and queueNpcMovement compute, in their
\* order, each from where the mover stands before the frame.
moves ==
  [i \in DOMAIN intents |-> <<You, fieldPlayer.pos + intents[i].delta>>]
    \o [i \in DOMAIN decisions |->
          <<decisions[i].npc, npcs[decisions[i].npc].pos + decisions[i].delta>>]
inWorld == \A i \in DOMAIN moves : moves[i][2] \in Coordinates
beforeFirstOutside ==
  SubSeq(moves, 1, Min({i \in DOMAIN moves : moves[i][2] \notin Coordinates}) - 1)

\* Mutants of restored: the frame comes back in reverse, or does not.
restored_reversed(queue) == Reverse(queue)
restored_none(queue) == <<>>

\* restoreFrame, on the queue that takeFrame has emptied.
restored(queue) == queue

\* The frame is refused.  The moves before the one that fails stay in Field's
\* position queue; the actions are gone.
RefuseFrame ==
  /\ worldTick < MaxTick
  /\ worldTick' = worldTick + 1
  /\ ~(present /\ inWorld)
  /\ intents' = restored(intents)
  /\ decisions' = IF intents # <<>> /\ ~fieldPlayer.on THEN decisions ELSE restored(decisions)
  /\ positionQueue' = IF present THEN positionQueue \o beforeFirstOutside ELSE positionQueue
  /\ actions' = <<>>
  /\ UNCHANGED <<fieldPlayer, fieldStatus, npcs, respawns, numbered, lastProcessed>>

\* The last position in the queue q for who, or x if there is none.
lastPosition(q, who, x) ==
  LET mine == {i \in DOMAIN q : q[i][1] = who} IN IF mine = {} THEN x ELSE q[Max(mine)][2]

due(tick) == {n \in DOMAIN respawns : respawns[n].at <= tick}
gained(types) == Len(SelectSeq(actions, LAMBDA a : a \in types))

\* Mutant of npcAfter: a dead NPC is moved as well, and respawns where it is.
npcAfter_moved(q, n, tick) ==
  IF npcs[n] = NoNpc THEN NoNpc
  ELSE [pos |-> lastPosition(q, n, npcs[n].pos),
        hp |-> IF n \in due(tick) THEN 1 ELSE npcs[n].hp]

\* An NPC after a frame: a dead one is not moved, and respawns when it is due.
npcAfter(q, n, tick) ==
  CASE npcs[n] = NoNpc -> NoNpc
    [] npcs[n] # NoNpc /\ alive(n) -> [npcs[n] EXCEPT !.pos = lastPosition(q, n, @)]
    [] npcs[n] # NoNpc /\ ~alive(n) -> IF n \in due(tick) THEN [pos |-> respawns[n].pos, hp |-> 1]
                                       ELSE npcs[n]

\* The frame is applied: positions, actions, respawns, then the ack.
ApplyFrame ==
  LET tick == worldTick + 1
      q == positionQueue \o moves
      you == IF fieldPlayer.on
               THEN [fieldPlayer EXCEPT !.pos = lastPosition(q, You, @), !.hp = @ + gained({1, 3})]
               ELSE fieldPlayer
  IN
  /\ worldTick < MaxTick
  /\ worldTick' = tick
  /\ present /\ inWorld
  /\ fieldPlayer' = you
  /\ fieldStatus' = fieldStatus + gained({0})
  /\ npcs' = [n \in Npcs |-> npcAfter(q, n, tick)]
  /\ respawns' = [n \in DOMAIN respawns \ due(tick) |-> respawns[n]]
  /\ lastProcessed' = Max({lastProcessed} \cup {intents[i].seq : i \in DOMAIN intents})
  /\ intents' = <<>> /\ decisions' = <<>> /\ actions' = <<>> /\ positionQueue' = <<>>
  /\ UNCHANGED numbered

Next ==
  \/ \E n \in Npcs :
       \/ \E x \in {0, MaxCoordinate}, hp \in {0, 1} : SetNpc(n, x, hp)
       \/ UnsetNpc(n) \/ DamageNpc(n) \/ EnqueueDecision(n)
       \/ \E at \in 1..MaxTick : ScheduleNpcRespawn(n, at, 0)
  \/ PlayerLeaves \/ PlayerEnters(0)
  \/ \E d \in {-1, 1} : EnqueueIntent(d)
  \/ \E type \in {0, 1} : SubmitAction(type)
  \/ RefuseFrame \/ ApplyFrame

Spec == Init /\ [][Next]_npcVars

-----------------------------------------------------------------------------
(* Properties *)

\* What a refused frame left in Field's position queue is never seen: a frame
\* that is applied moves the player by the last of its intents and an NPC that
\* was alive by its last decision, from where they stood, and nobody else.
movedByLast(queue, mine, from, to) ==
  \/ mine = {} /\ to = from
  \/ \E i \in mine : (\A j \in mine : j <= i) /\ to = from + queue[i].delta
MovesAreThisFrames ==
  [][ApplyFrame =>
       /\ movedByLast(intents, DOMAIN intents, fieldPlayer.pos, fieldPlayer'.pos)
       /\ \A n \in Npcs : alive(n) =>
            movedByLast(decisions, {i \in DOMAIN decisions : decisions[i].npc = n},
                        npcs[n].pos, npcs'[n].pos)]_npcVars

\* However often a frame is refused and put back, intents and decisions are
\* taken in the order in which they were numbered, none of them twice.
ascends(queue) == \A i, j \in DOMAIN queue : i < j => queue[i].seq < queue[j].seq
QueuesKeepOrder == ascends(intents) /\ ascends(decisions)

\* A respawn is pending only for an NPC that is on the Field and dead: none
\* outlives its NPC and none strikes one that is alive.
RespawnsOfTheDead == \A n \in DOMAIN respawns : npcs[n] # NoNpc /\ ~alive(n)

\* A dead NPC comes back only when a respawn that was scheduled for it is due,
\* at the place of the respawn, whatever was planned for it in its last life.
DeadUntilRespawn ==
  [][\A n \in Npcs : npcs[n] # NoNpc /\ ~alive(n) /\ npcs'[n] # NoNpc =>
       \/ npcs'[n] = npcs[n]
       \/ /\ n \in DOMAIN respawns /\ respawns[n].at <= worldTick'
          /\ npcs'[n].pos = respawns[n].pos]_npcVars
=============================================================================
