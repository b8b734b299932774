-------------------------- MODULE ClientPrediction --------------------------
(***************************************************************************)
(* Client-side prediction: LocalMovementPredictor with its buffer of       *)
(* unacknowledged inputs and RemotePlayerPoseStore, fed by the owner acks, *)
(* public poses and Snapshots that the server attaches to its updates      *)
(* (WorldFrameApplier, copyWorldUpdateForSession), while inputs, frames    *)
(* and updates are refused or lost on the way.                             *)
(*                                                                         *)
(* The own player and one other player stand on a line.  The application   *)
(* numbers its inputs one after the other, as the protocol asks, and may   *)
(* also send Moves without a number, which it does not predict.  Update    *)
(* numbers are in UpdateStream: here an update knows whether one before it *)
(* was lost.  No coordinate comes near the edge of the world.              *)
(***************************************************************************)
EXTENDS Integers, SequencesExt, FiniteSetsExt

CONSTANTS
  MaxPredictions,  \* MAX_PENDING_PREDICTION_INPUTS
  MaxAhead,        \* MAX_CLIENT_INPUT_AHEAD
  SnapDistance,    \* PREDICTION_SNAP_DISTANCE
  MaxInputs,       \* bound of the model: inputs of a behaviour
  MaxOtherMoves,   \* bound of the model: moves of the other player
  MaxSessions,     \* bound of the model: sessions of both players
  MaxDown,         \* bound of the model: updates on the way
  Steps            \* bound of the model: how far a Move goes

VARIABLES
  \* Server
  own,        \* position and session of the own player, what the session has
              \* accepted and processed
  other,      \* position and session of the other player, 0 for none; its moves
  inputs,     \* the own player's inputs for the next frame
  wanted,     \* a Snapshot is due
  missed,     \* an update was lost, and none has been sent since
  \* On the way
  up,         \* Moves to the server
  down,       \* updates to the client
  \* Client
  predictor,  \* LocalMovementPredictor, and the application's last input number
  remotes,    \* RemotePlayerPoseStore: positions by session
  synced      \* the receiver needs no Snapshot

predictionVars == <<own, other, inputs, wanted, missed, up, down, predictor, remotes, synced>>

Input(q, d) == [seq |-> q, delta |-> d]
total(seq) ==
  LET upTo[n \in 0..Len(seq)] == IF n = 0 THEN 0 ELSE upTo[n - 1] + seq[n].delta
  IN upTo[Len(seq)]

NewPredictor ==
  [predicted |-> 0, rendered |-> 0, pending |-> <<>>, lastAcked |-> 0,
   correcting |-> FALSE, lastInput |-> 0]

Init ==
  /\ own = [pos |-> 0, session |-> 1, accepted |-> 0, processed |-> 0]
  /\ other = [pos |-> 0, session |-> 0, sessions |-> 0, moves |-> 0]
  /\ inputs = <<>> /\ wanted = TRUE /\ missed = FALSE
  /\ up = <<>> /\ down = <<>>
  /\ predictor = NewPredictor
  /\ remotes = [s \in {} |-> 0]
  /\ synced = FALSE

-----------------------------------------------------------------------------
(* LocalMovementPredictor *)

\* Mutant of canPush: one input more than the buffer is meant to hold.
canPush_one(p) == Len(p.pending) <= MaxPredictions

\* PendingInputBuffer::push, for a number above the last one.
canPush(p) == Len(p.pending) < MaxPredictions

predict(p, i) ==
  [p EXCEPT !.predicted = @ + i.delta, !.rendered = @ + i.delta,
            !.pending = Append(@, i), !.lastInput = i.seq]

\* Mutant of acknowledgeUpTo: the acknowledged input itself stays.
acknowledgeUpTo_below(pending, q) == SelectSeq(pending, LAMBDA i : i.seq >= q)

\* PendingInputBuffer::acknowledgeUpTo: the first ones leave, as long as they
\* are acknowledged.
acknowledgeUpTo(pending, q) ==
  LET acked == CHOOSE n \in 0..Len(pending) :
                 /\ \A k \in 1..n : pending[k].seq <= q
                 /\ n < Len(pending) => pending[n + 1].seq > q
  IN SubSeq(pending, acked + 1, Len(pending))

\* The authoritative pose, with the inputs replayed that it does not include.
rebased(p, x, q) ==
  LET rest == acknowledgeUpTo(p.pending, q) IN
  [p EXCEPT !.pending = rest, !.predicted = x + total(rest), !.lastAcked = q]

\* Mutant of correctRender: a large error is left to the next correction.
correctRender_noSnap(p) ==
  IF p.rendered - p.predicted \in (1 - SnapDistance)..(SnapDistance - 1) \ {0}
    THEN [p EXCEPT !.correcting = TRUE] ELSE [p EXCEPT !.correcting = FALSE]

\* correctRender: a large error snaps, a small one is corrected over time.
correctRender(p) ==
  LET error == IF p.rendered < p.predicted THEN p.predicted - p.rendered
               ELSE p.rendered - p.predicted
  IN IF error = 0 \/ error >= SnapDistance
       THEN [p EXCEPT !.rendered = p.predicted, !.correcting = FALSE]
       ELSE [p EXCEPT !.correcting = TRUE]

reconcile(p, x, q) == correctRender(rebased(p, x, q))

applySnapshotBaseline(p, x, q) ==
  LET r == rebased(p, x, q) IN [r EXCEPT !.rendered = r.predicted, !.correcting = FALSE]

-----------------------------------------------------------------------------
(* The application *)

\* A predicted Move is sent with its number.
PredictMove(d) ==
  LET i == Input(predictor.lastInput + 1, d) IN
  /\ i.seq <= MaxInputs
  /\ canPush(predictor)
  /\ predictor' = predict(predictor, i)
  /\ up' = Append(up, i)
  /\ UNCHANGED <<own, other, inputs, wanted, missed, down, remotes, synced>>

\* A Move without a number, the only one under way, back to where the player
\* began (which bounds the model).
LegacyMove(d) ==
  /\ up = <<>> /\ inputs = <<>> /\ down = <<>>
  /\ own.pos + d >= 0
  /\ up' = <<Input(0, d)>>
  /\ UNCHANGED <<own, other, inputs, wanted, missed, down, predictor, remotes, synced>>

\* stepRender, on the way of a correction or at its end.
between(a, b) == (a + 1)..(b - 1) \cup (b + 1)..(a - 1)
StepRender ==
  /\ predictor.correcting
  /\ \E x \in between(predictor.rendered, predictor.predicted) \cup {predictor.predicted} :
       predictor' = [predictor EXCEPT !.rendered = x, !.correcting = x # predictor.predicted]
  /\ UNCHANGED <<own, other, inputs, wanted, missed, up, down, remotes, synced>>

\* A new connection and session.  The receiver keeps its predictor and the
\* remote players; the application may reset the predictor and number anew.
\* What the old session had queued drops with its frame.
Reconnect(resets) ==
  /\ own.session + other.sessions < MaxSessions
  /\ own' = [own EXCEPT !.session = @ + 1, !.accepted = 0, !.processed = 0]
  /\ predictor' = IF resets THEN NewPredictor ELSE predictor
  /\ inputs' = <<>> /\ up' = <<>> /\ down' = <<>>
  /\ synced' = FALSE /\ wanted' = TRUE /\ missed' = FALSE
  /\ UNCHANGED <<other, remotes>>

-----------------------------------------------------------------------------
(* Server *)

\* enqueueSequencedMovement.
admits(q) == q = 0 \/ (q > own.accepted /\ q - own.accepted <= MaxAhead)

ReceiveMove ==
  /\ up # <<>>
  /\ up' = Tail(up)
  /\ LET i == Head(up) IN
     IF admits(i.seq)
       THEN /\ inputs' = Append(inputs, i)
            /\ own' = IF i.seq = 0 THEN own ELSE [own EXCEPT !.accepted = i.seq]
       ELSE UNCHANGED <<inputs, own>>
  /\ UNCHANGED <<other, wanted, missed, down, predictor, remotes, synced>>

\* The rate limit, a full queue or a batch that is refused loses a Move.
LoseMove ==
  /\ up # <<>>
  /\ up' = Tail(up)
  /\ UNCHANGED <<own, other, inputs, wanted, missed, down, predictor, remotes, synced>>

highest(seq, n) == Max({n} \cup {seq[k].seq : k \in 1..Len(seq)})

\* The number that the events of a frame acknowledge: the highest of the frame,
\* or of the session if the tick has a Snapshot (publishAcks).
frameAck(o, frame, withSnapshot) == IF withSnapshot THEN o.processed ELSE highest(frame, 0)

\* The events of a frame, one for each Move, all with the poses after it; then
\* the Snapshot, if one is due.
ownEvent(o, q) == [kind |-> "own", session |-> o.session, pos |-> o.pos, ack |-> q]
otherEvent(t) == [kind |-> "other", session |-> t.session, pos |-> t.pos, ack |-> 0]
publicPoses(t) == IF t.session = 0 THEN [s \in {} |-> 0] ELSE [s \in {t.session} |-> t.pos]
snapshot(o, t) == [kind |-> "snapshot", session |-> o.session, pos |-> o.pos,
                   ack |-> o.processed, players |-> publicPoses(t)]
eventsOf(frame, o, t, otherMoves) ==
  [k \in 1..Len(frame) |-> ownEvent(o, frameAck(o, frame, wanted))]
    \o (IF otherMoves THEN <<otherEvent(t)>> ELSE <<>>)

\* A tick: the frame is applied, or refused as a whole.
Tick(d, applied) ==
  LET frame == IF applied THEN inputs ELSE <<>>
      o == [own EXCEPT !.pos = @ + total(frame), !.processed = highest(frame, @)]
      moves == d # 0 /\ applied
      t == IF moves THEN [other EXCEPT !.pos = @ + d, !.moves = @ + 1] ELSE other
  IN
  /\ applied \/ inputs # <<>>
  /\ inputs # <<>> \/ d # 0 \/ wanted
  /\ d # 0 => other.session # 0 /\ other.moves < MaxOtherMoves
  /\ Len(down) < MaxDown
  /\ own' = o /\ other' = t
  /\ inputs' = <<>> /\ wanted' = FALSE
  /\ LET sent == eventsOf(frame, o, t, moves) \o (IF wanted THEN <<snapshot(o, t)>> ELSE <<>>)
     IN /\ down' = down \o [k \in 1..Len(sent) |->
                              [update |-> sent[k], gap |-> k = 1 /\ missed]]
        /\ missed' = (missed /\ sent = <<>>)
  /\ UNCHANGED <<up, predictor, remotes, synced>>

\* A full outbound queue loses the latest update, a Snapshot too.
LoseUpdate ==
  /\ down # <<>>
  /\ down' = Front(down)
  /\ missed' = TRUE
  /\ UNCHANGED <<own, other, inputs, wanted, up, predictor, remotes, synced>>

\* The other player logs in, which makes a Snapshot due, or out, which no
\* update tells of.
OtherLogin ==
  /\ other.session = 0 /\ own.session + other.sessions < MaxSessions
  /\ other' = [other EXCEPT !.session = 101 + other.sessions, !.sessions = @ + 1]
  /\ wanted' = TRUE
  /\ UNCHANGED <<own, inputs, missed, up, down, predictor, remotes, synced>>

OtherLogout ==
  /\ other.session # 0
  /\ other' = [other EXCEPT !.session = 0]
  /\ UNCHANGED <<own, inputs, wanted, missed, up, down, predictor, remotes, synced>>

-----------------------------------------------------------------------------
(* ClientWorldUpdateReceiver *)

\* RemotePlayerPoseStore::applyAuthoritative: only a session that a Snapshot
\* has told of.
applyAuthoritative(rs, s, x) ==
  IF s \in DOMAIN rs THEN [rs EXCEPT ![s] = x] ELSE rs

\* Mutant of replaceFromSnapshot: the players it does not list stay, and those
\* that are known keep their poses.
replaceFromSnapshot_merge(rs, players) ==
  [s \in DOMAIN rs \cup DOMAIN players |-> IF s \in DOMAIN rs THEN rs[s] ELSE players[s]]

\* All remote players are those of the Snapshot.
replaceFromSnapshot(rs, players) == players

ReceiveSnapshot(u) ==
  /\ u.kind = "snapshot"
  /\ predictor' = applySnapshotBaseline(predictor, u.pos, u.ack)
  /\ remotes' = replaceFromSnapshot(remotes, u.players)
  /\ synced' = TRUE
  /\ UNCHANGED wanted

ReceiveEvent(u, gap) ==
  /\ u.kind # "snapshot" /\ synced /\ ~gap
  /\ predictor' = IF u.kind = "own" THEN reconcile(predictor, u.pos, u.ack) ELSE predictor
  /\ remotes' = IF u.kind = "other" THEN applyAuthoritative(remotes, u.session, u.pos)
                ELSE remotes
  /\ UNCHANGED <<synced, wanted>>

\* An Event is skipped while a Snapshot is needed; after a gap one is, and the
\* request for it reaches the server.
SkipUpdate(u, gap) ==
  /\ u.kind # "snapshot" /\ (~synced \/ gap)
  /\ synced' = FALSE /\ wanted' = TRUE
  /\ UNCHANGED <<predictor, remotes>>

Receive ==
  /\ down # <<>>
  /\ down' = Tail(down)
  /\ LET u == Head(down).update
         gap == Head(down).gap
     IN \/ ReceiveSnapshot(u) \/ ReceiveEvent(u, gap) \/ SkipUpdate(u, gap)
  /\ UNCHANGED <<own, other, inputs, missed, up>>

Next ==
  \/ \E d \in Steps : PredictMove(d) \/ LegacyMove(-d)
  \/ StepRender
  \/ \E resets \in BOOLEAN : Reconnect(resets)
  \/ ReceiveMove \/ LoseMove
  \/ \E d \in Steps \cup {0}, applied \in BOOLEAN : Tick(d, applied)
  \/ LoseUpdate \/ OtherLogin \/ OtherLogout
  \/ Receive

Spec == Init /\ [][Next]_predictionVars

-----------------------------------------------------------------------------
(* Properties *)

\* A client that has heard all there is predicts exactly the authoritative pose
\* plus its inputs that the session has not processed: none is replayed that the
\* session has already applied to the pose and none on its way is forgotten,
\* whichever inputs and updates were refused or lost, and although an ack may
\* carry 0.
PredictionExact ==
  (synced /\ down = <<>> /\ ~missed) =>
    /\ predictor.predicted = own.pos + total(predictor.pending)
    /\ \A i \in ToSet(predictor.pending) : i.seq > own.processed
    /\ \A i \in ToSet(up \o inputs) : i.seq # 0 => i \in ToSet(predictor.pending)

\* The buffer of unacknowledged inputs keeps a client within the numbers the
\* server admits: as long as its numbers are those of this session, no Move is
\* too far ahead, whatever was lost before it.
WithinAdmission ==
  (up # <<>> /\ own.session = 1) => Head(up).seq - own.accepted <= MaxAhead

\* What is drawn differs from what is predicted only while it is corrected.
RenderedAgrees == predictor.correcting \/ predictor.rendered = predictor.predicted

\* A client that has heard all there is knows every player that is on the Field
\* with its authoritative pose.  (One that has left stays until a Snapshot.)
RemotesExact ==
  (synced /\ down = <<>> /\ ~missed /\ ~wanted /\ other.session # 0) =>
    /\ other.session \in DOMAIN remotes
    /\ remotes[other.session] = other.pos
=============================================================================
