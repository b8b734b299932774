---------------------------- MODULE UpdateStream ----------------------------
(***************************************************************************)
(* The stream of world updates: WorldFrameUpdateBuilder numbers them, one  *)
(* number space for Snapshots and Events, ServerRuntime::publishWorldUpdates*)
(* puts them into the bounded queue of each session, one frame per tick    *)
(* goes onto the wire, and ClientTransportShell::pump with its             *)
(* ClientWorldUpdateReceiver applies them, notices gaps and asks for a     *)
(* Snapshot.                                                               *)
(*                                                                         *)
(* A tick of the server is one step: it shares nothing with a client but   *)
(* the sockets.  A pump of a client is a step per frame it has read.       *)
(* Frames are whole here, a client's other commands are left out, and a    *)
(* Login that arrives is accepted.  An update stands for what it tells:    *)
(* the events a Snapshot covers, or the one event.                         *)
(***************************************************************************)
EXTENDS Integers, Sequences

CONSTANTS
  Clients,
  MaxOutbound,    \* MAX_OUTBOUND_FRAMES
  MaxEffects,     \* MAX_HAZARD_EFFECTS
  MaxWire,        \* frames that the socket buffers hold
  HasClock,       \* setClock and a snapshotWaitMs above 0
  MaxInputs,      \* bound of the model: events of the inputs of a frame
  MaxEventId,     \* bound of the model: events built in a behaviour
  MaxConnections  \* bound of the model: connections in a behaviour

ASSUME StreamAssumption ==
  /\ HasClock \in BOOLEAN
  /\ \A n \in {MaxOutbound, MaxWire} : n \in Nat \ {0}
  /\ \A n \in {MaxEffects, MaxInputs, MaxEventId, MaxConnections} : n \in Nat

VARIABLES
  \* Server
  updateSequence, eventId,
  effects,                \* history: the events whose frame was applied
  nextConnectionId,
  connection,             \* the client's connection id, 0 for none
  hasSession,             \* SessionLifecycle::hasSession of that connection
  outbound,               \* its OutboundFrameQueue
  wire,                   \* frames sent and not read yet
  request,                \* a RequestSnapshot is on its way to the server
  \* Client
  link,                   \* link and auth state of the shell
  left,                   \* frames of the current read not handled, -1 between pumps
  hasSequence, expected,  \* WorldUpdateSequenceTracker
  needsSnapshot,
  snapshotCommandQueued,
  deadline,               \* snapshotWaitDeadline is armed
  hazards,                \* size of the hazard effect queue; nothing drains it
  view                    \* history: the events the client's state tells of

serverVars == <<updateSequence, eventId, effects>>
connectionVars == <<nextConnectionId, connection, hasSession, outbound>>
trackerVars == <<hasSequence, expected, needsSnapshot, hazards, view>>
shellVars == <<snapshotCommandQueued, deadline>>
vars == <<updateSequence, eventId, effects, nextConnectionId, connection, hasSession,
          outbound, wire, request, link, left, hasSequence, expected, needsSnapshot,
          snapshotCommandQueued, deadline, hazards, view>>

Login == [kind |-> "login", seq |-> 0, tells |-> {}]
Event(n) == [kind |-> "event", seq |-> n, tells |-> {n}]
Hazard(n) == [kind |-> "hazard", seq |-> n, tells |-> {n}]
Snapshot(n, told) == [kind |-> "snapshot", seq |-> n, tells |-> told]
Frame == [kind : {"login", "event", "hazard", "snapshot"}, seq : Nat, tells : SUBSET Nat]

TypeOK ==
  /\ updateSequence \in Nat \ {0} /\ eventId \in 1..(MaxEventId + 1)
  /\ effects \subseteq 1..(updateSequence - 1)
  /\ nextConnectionId \in 1..(MaxConnections + 1)
  /\ connection \in [Clients -> 0..MaxConnections]
  /\ hasSession \in [Clients -> BOOLEAN] /\ request \in [Clients -> BOOLEAN]
  /\ outbound \in [Clients -> Seq(Frame)] /\ wire \in [Clients -> Seq(Frame)]
  /\ \A c \in Clients : Len(outbound[c]) <= MaxOutbound /\ Len(wire[c]) <= MaxWire
  /\ link \in [Clients -> {"disconnected", "failed", "anonymous", "loggedIn"}]
  /\ left \in [Clients -> -1..MaxWire]
  /\ hasSequence \in [Clients -> BOOLEAN] /\ expected \in [Clients -> Nat \ {0}]
  /\ needsSnapshot \in [Clients -> BOOLEAN]
  /\ snapshotCommandQueued \in [Clients -> BOOLEAN] /\ deadline \in [Clients -> BOOLEAN]
  /\ hazards \in [Clients -> 0..MaxEffects]
  /\ view \in [Clients -> SUBSET Nat]

Init ==
  /\ updateSequence = 1 /\ eventId = 1 /\ effects = {}
  /\ nextConnectionId = 1
  /\ connection = [c \in Clients |-> 0]
  /\ hasSession = [c \in Clients |-> FALSE]
  /\ outbound = [c \in Clients |-> <<>>]
  /\ wire = [c \in Clients |-> <<>>]
  /\ request = [c \in Clients |-> FALSE]
  /\ link = [c \in Clients |-> "disconnected"]
  /\ left = [c \in Clients |-> -1]
  /\ hasSequence = [c \in Clients |-> FALSE]
  /\ expected = [c \in Clients |-> 1]
  /\ needsSnapshot = [c \in Clients |-> FALSE]
  /\ snapshotCommandQueued = [c \in Clients |-> FALSE]
  /\ deadline = [c \in Clients |-> FALSE]
  /\ hazards = [c \in Clients |-> 0]
  /\ view = [c \in Clients |-> {}]

-----------------------------------------------------------------------------
(* Server *)

isUp(c) == link[c] \in {"anonymous", "loggedIn"}

\* The Logins and RequestSnapshots that have arrived at this tick.
loggingIn == {c \in Clients : isUp(c) /\ ~hasSession[c]}
snapshotTriggers == loggingIn \cup {c \in Clients : request[c] /\ hasSession[c]}

\* The queue of c when the LoginResponses are in it, and after flushOutbound
\* has sent one frame, unless the socket takes none.
answered(c) == IF c \in loggingIn THEN Append(outbound[c], Login) ELSE outbound[c]
canSend(c) == answered(c) # <<>> /\ Len(wire[c]) < MaxWire

flushed(c) == IF canSend(c) THEN Tail(answered(c)) ELSE answered(c)

recipients == {c \in Clients : hasSession[c] \/ c \in loggingIn}

\* Mutant of published: nobody looks at the size of a queue.
published_unbounded(c, k) == TRUE

\* publishWorldUpdates goes through the updates and, for each, through the
\* connections in the order of their ids, and returns at the first queue that
\* is full.  So c gets the k-th update if all queues had room for the ones
\* before and the queues up to its own have room for this one.
room(c) == MaxOutbound - Len(flushed(c))
published(c, k) ==
  \A d \in recipients :
    /\ room(d) >= k - 1
    /\ connection[d] <= connection[c] => room(d) >= k

\* Mutant of sequenceAfter: a hazard does not take a number of its own.
sequenceAfter_sharedHazard(n, hazard) == updateSequence + n

\* The updates of a tick: n events of inputs, which the Field applies or, if
\* it refuses the frame, which are forgotten with their numbers; a hazard after
\* an applied frame; and a Snapshot, last, if anybody wants one.
sequenceAfter(n, hazard) == updateSequence + n + (IF hazard THEN 1 ELSE 0)
built(n, hazard) ==
  [i \in 1..n |-> Event(updateSequence + i - 1)]
    \o (IF hazard THEN <<Hazard(sequenceAfter(n, hazard) - 1)>> ELSE <<>>)
effectsAfter(n, hazard, applied) ==
  IF applied THEN effects \cup (updateSequence..(sequenceAfter(n, hazard) - 1)) ELSE effects
updates(n, hazard, applied) ==
  (IF applied THEN built(n, hazard) ELSE <<>>)
    \o (IF snapshotTriggers = {} THEN <<>>
        ELSE <<Snapshot(sequenceAfter(n, hazard), effectsAfter(n, hazard, applied))>>)

\* publishWorldUpdates(u).
publish(u) ==
  \E share \in [Clients -> 0..Len(u)] :
    /\ \A c \in recipients, k \in 1..Len(u) : k <= share[c] <=> published(c, k)
    /\ \A c \in Clients \ recipients : share[c] = 0
    /\ outbound' = [c \in Clients |-> flushed(c) \o SubSeq(u, 1, share[c])]

\* One pass of the loop in ServerMain.
Tick(n, hazard, applied) ==
  LET events == sequenceAfter(n, hazard) - updateSequence IN
  /\ hazard => applied
  /\ eventId + events <= MaxEventId + 1
  /\ eventId' = eventId + events
  /\ updateSequence' =
       sequenceAfter(n, hazard) + (IF snapshotTriggers = {} THEN 0 ELSE 1)
  /\ effects' = effectsAfter(n, hazard, applied)
  /\ hasSession' = [c \in Clients |-> c \in recipients]
  /\ request' = [c \in Clients |-> FALSE]
  /\ wire' = [c \in Clients |->
                IF canSend(c) THEN Append(wire[c], Head(answered(c))) ELSE wire[c]]
  /\ publish(updates(n, hazard, applied))
  /\ UNCHANGED <<nextConnectionId, connection, link, left, trackerVars, shellVars>>

-----------------------------------------------------------------------------
(* ClientTransportShell: connections *)

\* The socket is gone; the server drops the connection before it publishes.
dropConnection(c) ==
  /\ connection' = [connection EXCEPT ![c] = 0]
  /\ hasSession' = [hasSession EXCEPT ![c] = FALSE]
  /\ outbound' = [outbound EXCEPT ![c] = <<>>]
  /\ wire' = [wire EXCEPT ![c] = <<>>]
  /\ request' = [request EXCEPT ![c] = FALSE]
  /\ left' = [left EXCEPT ![c] = -1]
  /\ UNCHANGED nextConnectionId

\* connectTcp and enqueueLogin, after a beginReconnect unless it is the first.
Connect(c) ==
  /\ ~isUp(c)
  /\ nextConnectionId <= MaxConnections
  /\ connection' = [connection EXCEPT ![c] = nextConnectionId]
  /\ nextConnectionId' = nextConnectionId + 1
  /\ link' = [link EXCEPT ![c] = "anonymous"]
  /\ \/ /\ ~hasSequence[c] /\ ~needsSnapshot[c]
        /\ UNCHANGED <<needsSnapshot, snapshotCommandQueued, deadline>>
     \/ /\ needsSnapshot' = [needsSnapshot EXCEPT ![c] = TRUE]
        /\ snapshotCommandQueued' = [snapshotCommandQueued EXCEPT ![c] = FALSE]
        /\ deadline' = [deadline EXCEPT ![c] = FALSE]
  /\ UNCHANGED <<serverVars, hasSession, outbound, wire, request, left, hasSequence,
                 expected, hazards, view>>

\* The peer is found closed, or the application closes the transport.
Close(c) ==
  /\ isUp(c) /\ left[c] = -1
  /\ link' = [link EXCEPT ![c] = "disconnected"]
  /\ dropConnection(c)
  /\ UNCHANGED <<serverVars, trackerVars, shellVars>>

\* checkDeadlines finds the wait for a Snapshot expired.
SnapshotWaitTimeout(c) ==
  /\ link[c] = "loggedIn" /\ left[c] \in {-1, 0}
  /\ deadline[c] /\ needsSnapshot[c]
  /\ link' = [link EXCEPT ![c] = "failed"]
  /\ deadline' = [deadline EXCEPT ![c] = FALSE]
  /\ dropConnection(c)
  /\ UNCHANGED <<serverVars, trackerVars, snapshotCommandQueued>>

-----------------------------------------------------------------------------
(* ClientTransportShell::pump *)

\* recv returns the first n frames.
Read(c, n) ==
  /\ isUp(c) /\ left[c] = -1
  /\ left' = [left EXCEPT ![c] = n]
  /\ UNCHANGED <<serverVars, connectionVars, wire, request, link, trackerVars, shellVars>>

\* The next frame of the read is f.
handles(c, f) ==
  /\ left[c] > 0
  /\ f = Head(wire[c])

consume(c) ==
  /\ wire' = [wire EXCEPT ![c] = Tail(wire[c])]
  /\ left' = [left EXCEPT ![c] = left[c] - 1]

LoginResponse(c, f) ==
  /\ handles(c, f) /\ f.kind = "login"
  /\ consume(c)
  /\ link' = [link EXCEPT ![c] = "loggedIn"]
  /\ deadline' = [deadline EXCEPT ![c] = HasClock /\ needsSnapshot[c]]
  /\ UNCHANGED <<serverVars, connectionVars, request, trackerVars, snapshotCommandQueued>>

\* A Snapshot replaces the state, whatever its number.
ApplySnapshot(c, f) ==
  /\ handles(c, f) /\ f.kind = "snapshot"
  /\ consume(c)
  /\ hasSequence' = [hasSequence EXCEPT ![c] = TRUE]
  /\ expected' = [expected EXCEPT ![c] = f.seq + 1]
  /\ needsSnapshot' = [needsSnapshot EXCEPT ![c] = FALSE]
  /\ view' = [view EXCEPT ![c] = f.tells]
  /\ UNCHANGED <<serverVars, connectionVars, request, link, shellVars, hazards>>

isEvent(f) == f.kind \in {"event", "hazard"}

SkipEvent(c, f) ==
  /\ handles(c, f) /\ isEvent(f)
  /\ needsSnapshot[c]
  /\ consume(c)
  /\ UNCHANGED <<serverVars, connectionVars, request, link, shellVars, trackerVars>>

\* Mutant of accept: an Event that comes too early is applied as well.
accept_orLater(c, f) == f.seq >= expected[c]

\* WorldUpdateSequenceTracker::accept, for an Event.  (No Event is below the
\* expected number: the wire keeps the order.)
accept(c, f) == f.seq = expected[c]
gap(c, f) == f.seq > expected[c]

ApplyEvent(c, f) ==
  /\ handles(c, f) /\ isEvent(f)
  /\ ~needsSnapshot[c] /\ accept(c, f)
  /\ f.kind = "hazard" => hazards[c] < MaxEffects
  /\ consume(c)
  /\ hasSequence' = [hasSequence EXCEPT ![c] = TRUE]
  /\ expected' = [expected EXCEPT ![c] = f.seq + 1]
  /\ hazards' = [hazards EXCEPT ![c] = IF f.kind = "hazard" THEN @ + 1 ELSE @]
  /\ view' = [view EXCEPT ![c] = @ \cup f.tells]
  /\ UNCHANGED <<serverVars, connectionVars, request, link, shellVars, needsSnapshot>>

\* A gap ends the receive: the rest of the read is dropped, a Snapshot in it too.
Gap(c, f) ==
  /\ handles(c, f) /\ isEvent(f)
  /\ ~needsSnapshot[c] /\ gap(c, f)
  /\ wire' = [wire EXCEPT ![c] = SubSeq(wire[c], left[c] + 1, Len(wire[c]))]
  /\ left' = [left EXCEPT ![c] = 0]
  /\ needsSnapshot' = [needsSnapshot EXCEPT ![c] = TRUE]
  /\ UNCHANGED <<serverVars, connectionVars, request, link, shellVars, hasSequence,
                 expected, hazards, view>>

\* A hazard that the full effect queue does not take fails the transport.
Backpressure(c, f) ==
  /\ handles(c, f) /\ f.kind = "hazard"
  /\ ~needsSnapshot[c] /\ accept(c, f)
  /\ hazards[c] = MaxEffects
  /\ hasSequence' = [hasSequence EXCEPT ![c] = TRUE]
  /\ expected' = [expected EXCEPT ![c] = f.seq + 1]
  /\ link' = [link EXCEPT ![c] = "failed"]
  /\ deadline' = [deadline EXCEPT ![c] = FALSE]
  /\ dropConnection(c)
  /\ UNCHANGED <<serverVars, needsSnapshot, hazards, view, snapshotCommandQueued>>

\* Mutant of EndRead: the wait for the Snapshot has no deadline.
EndRead_noDeadline(c) ==
  /\ left[c] = 0
  /\ left' = [left EXCEPT ![c] = -1]
  /\ LET asks == needsSnapshot[c] /\ ~snapshotCommandQueued[c] /\ link[c] = "loggedIn" IN
     /\ snapshotCommandQueued' =
          [snapshotCommandQueued EXCEPT ![c] = needsSnapshot[c] /\ (@ \/ asks)]
     /\ request' = [request EXCEPT ![c] = @ \/ asks]
     /\ deadline' = [deadline EXCEPT ![c] = needsSnapshot[c] /\ @]
  /\ UNCHANGED <<serverVars, connectionVars, wire, link, trackerVars>>

\* The end of pump: with no Snapshot wanted the flags are reset, otherwise a
\* RequestSnapshot is sent unless one is thought to be on its way.
EndRead(c) ==
  /\ left[c] = 0
  /\ left' = [left EXCEPT ![c] = -1]
  /\ LET asks == needsSnapshot[c] /\ ~snapshotCommandQueued[c] /\ link[c] = "loggedIn" IN
     /\ snapshotCommandQueued' =
          [snapshotCommandQueued EXCEPT ![c] = needsSnapshot[c] /\ (@ \/ asks)]
     /\ request' = [request EXCEPT ![c] = @ \/ asks]
     /\ deadline' = [deadline EXCEPT ![c] = IF asks THEN HasClock ELSE needsSnapshot[c] /\ @]
  /\ UNCHANGED <<serverVars, connectionVars, wire, link, trackerVars>>

Handle(c) ==
  \E f \in {wire[c][i] : i \in 1..Len(wire[c])} :
    \/ LoginResponse(c, f) \/ ApplySnapshot(c, f) \/ SkipEvent(c, f)
    \/ ApplyEvent(c, f) \/ Gap(c, f) \/ Backpressure(c, f)

ServerTick ==
  \E n \in 0..MaxInputs, hazard \in BOOLEAN, applied \in BOOLEAN : Tick(n, hazard, applied)

Next ==
  \/ ServerTick
  \/ \E c \in Clients :
       \/ Connect(c) \/ Close(c) \/ SnapshotWaitTimeout(c)
       \/ \E n \in 1..Len(wire[c]) : Read(c, n)
       \/ Handle(c)
       \/ EndRead(c)

Spec == Init /\ [][Next]_vars

\* The server ticks for as long as it runs, a client that is connected pumps
\* for as long as it is, and an armed deadline expires.
FairSpec ==
  /\ Spec
  /\ WF_vars(ServerTick)
  /\ \A c \in Clients :
       /\ WF_vars(\E n \in 1..Len(wire[c]) : Read(c, n))
       /\ WF_vars(Handle(c))
       /\ WF_vars(EndRead(c))
       /\ WF_vars(SnapshotWaitTimeout(c))

-----------------------------------------------------------------------------
(* Properties *)

\* A client that does not ask for a Snapshot has the whole state up to the
\* update it expects next: whatever frames were refused after their numbers
\* were used, whichever queue was full, wherever a read was cut, its state tells
\* of every applied event below the expected number and of no other.
ViewComplete ==
  \A c \in Clients :
    (link[c] = "loggedIn" /\ ~needsSnapshot[c])
      => view[c] = {e \in effects : e < expected[c]}

\* The numbers on the way to a client ascend, from the next one it expects: no
\* update is sent twice or overtaken, so a client never meets an old one.
StreamAscends ==
  \A c \in Clients :
    LET coming == wire[c] \o outbound[c]
        numbered == {i \in 1..Len(coming) : coming[i].kind # "login"}
    IN /\ \A i, j \in numbered : i < j => coming[i].seq < coming[j].seq
       /\ \A i \in numbered : expected[c] <= coming[i].seq /\ coming[i].seq < updateSequence

\* A client that waits for a Snapshot does not wait for ever: it gets one, or
\* the deadline of its wait fails the transport, although the request is sent
\* once only and the Snapshot may fall victim to a full queue or to a gap in
\* the same read.
ResyncEnds ==
  \A c \in Clients :
    (link[c] = "loggedIn" /\ needsSnapshot[c])
      ~> (~needsSnapshot[c] \/ link[c] # "loggedIn")

\* A gap requests a Snapshot: between two pumps a client that wants one has a
\* request or a Snapshot on the way.
GapRequestsSnapshot ==
  \A c \in Clients :
    (link[c] = "loggedIn" /\ needsSnapshot[c] /\ left[c] = -1)
      => \/ request[c]
         \/ \E i \in 1..Len(wire[c]) : wire[c][i].kind = "snapshot"
         \/ \E i \in 1..Len(outbound[c]) : outbound[c][i].kind = "snapshot"

\* What the server sends never fails the transport of a client that reads it.
StreamNeverFails == \A c \in Clients : link[c] # "failed"
=============================================================================
