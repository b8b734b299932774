----------------------------- MODULE WorldParts -----------------------------
(***************************************************************************)
(* The components around the world frame that are checked together: the    *)
(* intake of commands, challenge login, NPCs with the frame of actions,    *)
(* the text of a Snapshot, and the client's prediction.  They meet in      *)
(* commands, sessions and updates, which each models for itself, and none  *)
(* reads the state of another: a behaviour is one of one component, named  *)
(* by part, and the others stay as they are.                               *)
(***************************************************************************)
EXTENDS Integers, Sequences

CONSTANTS
  Connections, Commands, ReadBuffer, MaxFrame, MaxPending, MaxPerConnection, MaxQueuedInputs,
  MoveLimit, ActionLimit, MaxSent,
  Servers, Users, Idle, ChallengeTtl, SessionTtl, MaxTime, MaxChallenges, MaxIssued,
  Npcs, NoNpc, You, MaxCoordinate, MaxQueue, MaxTick, MaxMoves, MaxActions,
  PlayerIds, Places, Precision, MaxHazard, MaxEntries,
  MaxPayload, HeadSize, SmallestEntry, LargestEntry, LargestLocal,
  MaxPredictions, MaxAhead, SnapDistance, MaxInputs, MaxOtherMoves, MaxSessions, MaxDown, Steps

\* What the proofs about the components need.  The limits, sizes and times to
\* live are numbers in the code, a frame has at least its header, gameplay ids
\* are positive, the player's id is none of the NPCs', and
\* MAX_PENDING_PREDICTION_INPUTS is within MAX_CLIENT_INPUT_AHEAD (both are 64).
\* A read has 4096 bytes and the accumulator a header more, and validateCommand
\* lets no client send a longer frame.
ASSUME PartsAssumption ==
  /\ Connections \in Nat /\ MaxPending \in Nat /\ MaxPerConnection \in Nat
  /\ ReadBuffer \in Nat /\ MaxFrame \in Nat /\ ReadBuffer <= MaxFrame
  /\ \A k \in Commands : k.size \in Nat /\ k.size > 0 /\ k.size <= MaxFrame
  /\ ChallengeTtl \in Nat /\ SessionTtl \in Nat
  /\ You \notin Npcs /\ MaxCoordinate \in Nat /\ MaxTick \in Nat
  /\ PlayerIds \subseteq Nat \ {0} /\ Places \subseteq Int /\ Precision \in Nat \ {0}
  /\ MaxHazard \in Nat /\ MaxEntries \in Nat
  /\ MaxPredictions \in Nat /\ MaxAhead \in Nat /\ MaxPredictions <= MaxAhead
  /\ Steps \subseteq Int

\* The sizes of a Snapshot's text are numbers, and the 256 entries that a client
\* refuses, of at least 79 bytes each, exceed MAX_UPDATE_PAYLOAD, which is 16384.
ASSUME SizesAssumption ==
  /\ MaxPayload \in Nat /\ HeadSize \in Nat /\ LargestLocal \in Nat
  /\ SmallestEntry \in Nat /\ LargestEntry \in Nat
  /\ SmallestEntry * MaxEntries > MaxPayload

VARIABLES
  part,
  \* CommandIntake
  sent, wire, client, eof, active, turn, pendingCommands, counts, snapshotRequests, queued,
  dispatched, refused, denied,
  \* ChallengeLogin
  clock, challenges, playerSessions, login, issued, gameplay, raised,
  \* NpcWorld
  fieldPlayer, fieldStatus, npcs, respawns, intents, decisions, numbered, actions,
  positionQueue, worldTick, lastProcessed,
  \* SnapshotText
  roster, beasts, hazardLevel, text, shot, environment,
  \* ClientPrediction
  own, other, inputs, wanted, missed, up, down, predictor, remotes, synced

intakeVars == <<sent, wire, client, eof, active, turn, pendingCommands, counts,
                snapshotRequests, queued, dispatched, refused, denied>>
loginVars == <<clock, challenges, playerSessions, login, issued, gameplay, raised>>
npcVars == <<fieldPlayer, fieldStatus, npcs, respawns, intents, decisions, numbered, actions,
             positionQueue, worldTick, lastProcessed>>
textVars == <<roster, beasts, hazardLevel, text, shot, environment>>
predictionVars == <<own, other, inputs, wanted, missed, up, down, predictor, remotes, synced>>

Intake == INSTANCE CommandIntake WITH MaxInputs <- MaxQueuedInputs
Login == INSTANCE ChallengeLogin
Npc == INSTANCE NpcWorld
Text == INSTANCE SnapshotText
Prediction == INSTANCE ClientPrediction

Init ==
  /\ part \in {"intake", "login", "npc", "text", "prediction"}
  /\ Intake!Init /\ Login!Init /\ Npc!Init /\ Text!Init /\ Prediction!Init

IntakeStep ==
  part = "intake" /\ Intake!Next
  /\ UNCHANGED <<part, loginVars, npcVars, textVars, predictionVars>>
LoginStep ==
  part = "login" /\ Login!Next
  /\ UNCHANGED <<part, intakeVars, npcVars, textVars, predictionVars>>
NpcStep ==
  part = "npc" /\ Npc!Next
  /\ UNCHANGED <<part, intakeVars, loginVars, textVars, predictionVars>>
TextStep ==
  part = "text" /\ Text!Next
  /\ UNCHANGED <<part, intakeVars, loginVars, npcVars, predictionVars>>
PredictionStep ==
  part = "prediction" /\ Prediction!Next
  /\ UNCHANGED <<part, intakeVars, loginVars, npcVars, textVars>>

Next == IntakeStep \/ LoginStep \/ NpcStep \/ TextStep \/ PredictionStep

partsVars == <<part, intakeVars, loginVars, npcVars, textVars, predictionVars>>
Spec == Init /\ [][Next]_partsVars

-----------------------------------------------------------------------------
(* Properties *)

\* However the stream is cut into reads, the commands of a client are dispatched
\* in the order it sent them, each once, and none is lost but with a read that
\* was refused.
CommandsInOrder == Intake!CommandsInOrder

\* No client has its commands refused for what others send.
RefusedForOwnRead == Intake!RefusedForOwnRead

\* A RequestSnapshot that the rate limit denies is not needed: the tick has
\* accepted one, and the Snapshot it makes goes to every session.
DeniedRequestIsServed == Intake!DeniedRequestIsServed

\* The accumulator ends a connection only at a read that goes on with one frame
\* and brings the beginning of a later one: a command that arrives alone fits.
OneFrameFits == Intake!OneFrameFits

\* A challenge leads to one row of player_sessions and to one gameplay session,
\* both of its user, on whichever servers it is presented.
SingleUse == Login!SingleUse

\* The session key a client has been given names the row of its own login.
KeysNameOwnLogin == Login!KeysNameOwnLogin

\* A session that was revoked is never valid again, and one that has run out only
\* for less than a lifetime, through a keep-alive that was already under way.
EndedStaysEnded == Login!EndedStaysEnded

\* However often a frame is refused and put back, intents and decisions are
\* taken in the order in which they were numbered, none of them twice.
QueuesKeepOrder == Npc!QueuesKeepOrder

\* A respawn is pending only for an NPC that is on the Field and dead.
RespawnsOfTheDead == Npc!RespawnsOfTheDead

\* What a refused frame left in Field's position queue is never seen.
MovesAreThisFrames == Npc!MovesAreThisFrames

\* A dead NPC comes back only when a respawn that was scheduled for it is due.
DeadUntilRespawn == Npc!DeadUntilRespawn

\* A Field whose text is within the size of an update is sent, and what is sent
\* is accepted by the client.
SnapshotsAreAccepted == Text!SnapshotsAreAccepted

\* A Snapshot that is applied gives the client what the Field showed.
SnapshotsAreExact == Text!SnapshotsAreExact

\* A client that has heard all there is predicts exactly the authoritative pose
\* plus its inputs that the session has not processed.
PredictionExact == Prediction!PredictionExact

\* The buffer of unacknowledged inputs keeps a client within the numbers the
\* server admits.
WithinAdmission == Prediction!WithinAdmission

\* What is drawn differs from what is predicted only while it is corrected.
RenderedAgrees == Prediction!RenderedAgrees

\* A client that has heard all there is knows every player that is on the Field
\* with its authoritative pose.
RemotesExact == Prediction!RemotesExact
=============================================================================
