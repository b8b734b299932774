--------------------------- MODULE TransportShell ---------------------------
(***************************************************************************)
(* ClientTransportShell with its demultiplexer, its deadlines and the      *)
(* connection it has to a server: connecting, Login and Disconnect with    *)
(* their responses, reads that cut the stream at any place, reconnects,    *)
(* lost connections and refused or late answers.                           *)
(*                                                                         *)
(* The shell is one record and the operators on it are the methods of the  *)
(* class.  The stream is a sequence of units: the first unit of a frame is *)
(* the frame itself (its header), the others are its body.  World updates  *)
(* are Snapshots, Events in sequence and Events after a gap: their numbers *)
(* are in UpdateStream.  The application sends a Login only while it is    *)
(* anonymous, and after a connection has ended it calls beginReconnect     *)
(* before it connects again.                                               *)
(***************************************************************************)
EXTENDS Integers, SequencesExt

CONSTANTS
  MaxOutbound,     \* MAX_OUTBOUND_FRAMES
  ReadBuffer,      \* READ_BUFFER_SIZE, in units
  MaxUpdateFrame,  \* WORLD_UPDATE_FRAME_HEADER_SIZE + MAX_UPDATE_PAYLOAD, in units
  SnapshotSize,    \* size of a Snapshot frame, in units
  MaxConnections,  \* bound of the model: connections in a behaviour
  MaxWire          \* bound of the model: units or commands the socket buffers hold

\* Sizes and limits are numbers in the code; a Snapshot has at least its header.
ASSUME ShellAssumption ==
  /\ MaxOutbound \in Nat /\ ReadBuffer \in Nat /\ MaxUpdateFrame \in Nat
  /\ SnapshotSize \in Nat \ {0}
  /\ MaxConnections \in Nat

VARIABLES
  shell,        \* the ClientTransportShell
  ready,        \* the application may connect: new, or beginReconnect was called
  connection,   \* number of the latest connection, and of the session it may get
  peer,         \* the server's side of the connection
  stream        \* units sent by the server and not read yet

shellVars == <<shell, ready, connection, peer, stream>>

Command(type, s) == [type |-> type, session |-> s]
Frame(kind, s) == [kind |-> kind, session |-> s]
Body == [kind |-> "body", session |-> 0]

\* The size of a frame; no response and no Event reaches two units.
frameSize(f) == IF f.kind = "snapshot" THEN SnapshotSize ELSE 1
units(f) == <<f>> \o [i \in 1..(frameSize(f) - 1) |-> Body]

isWorldUpdate(f) == f.kind \in {"snapshot", "event", "gap"}

NoPeer == [open |-> FALSE, session |-> FALSE, closing |-> FALSE, wanted |-> FALSE,
           out |-> <<>>, commands |-> <<>>]

Init ==
  /\ shell = [link |-> "disconnected", open |-> FALSE, auth |-> "anonymous", session |-> 0,
              snapshotQueued |-> FALSE, disconnectQueued |-> FALSE, out |-> <<>>,
              inbound |-> <<>>, inboundFailed |-> FALSE, error |-> "None", reconnects |-> 0,
              pending |-> FALSE, loginDeadline |-> FALSE, snapshotDeadline |-> FALSE,
              needsSnapshot |-> FALSE]
  /\ ready = TRUE /\ connection = 0 /\ peer = NoPeer /\ stream = <<>>

Reasons == {"None", "ConnectTimeout", "LoginResponseTimeout", "SnapshotWaitTimeout",
            "PeerClosed", "ReadFailed", "WriteFailed", "ProtocolError", "LoginRejected"}

-----------------------------------------------------------------------------
(* The methods of the shell *)

markFailed(sh, reason) ==
  [sh EXCEPT !.open = FALSE, !.link = "failed", !.auth = "anonymous", !.error = reason,
             !.disconnectQueued = FALSE, !.loginDeadline = FALSE, !.snapshotDeadline = FALSE]

\* A failed link stays failed.
closeShell(sh) ==
  [sh EXCEPT !.open = FALSE,
             !.auth = IF sh.open THEN "anonymous" ELSE @,
             !.link = IF @ = "failed" THEN @ ELSE "disconnected"]

\* Mutants of beginReconnect: what the last connection left in the
\* demultiplexer, or in the outbound queue, is kept.
beginReconnect_keepOutbound(sh) ==
  [closeShell(sh) EXCEPT
     !.inbound = <<>>, !.inboundFailed = FALSE, !.auth = "anonymous",
     !.session = 0, !.snapshotQueued = FALSE, !.disconnectQueued = FALSE,
     !.loginDeadline = FALSE, !.snapshotDeadline = FALSE, !.pending = TRUE,
     !.needsSnapshot = TRUE]
beginReconnect_keepInbound(sh) ==
  [closeShell(sh) EXCEPT
     !.out = <<>>, !.auth = "anonymous", !.session = 0, !.inboundFailed = FALSE,
     !.snapshotQueued = FALSE, !.disconnectQueued = FALSE, !.loginDeadline = FALSE,
     !.snapshotDeadline = FALSE, !.pending = TRUE, !.needsSnapshot = TRUE]

beginReconnect(sh) ==
  [closeShell(sh) EXCEPT
     !.inbound = <<>>, !.inboundFailed = FALSE, !.out = <<>>, !.auth = "anonymous",
     !.session = 0, !.snapshotQueued = FALSE, !.disconnectQueued = FALSE,
     !.loginDeadline = FALSE, !.snapshotDeadline = FALSE, !.pending = TRUE,
     !.needsSnapshot = TRUE]

\* connectTcp has a socket, or attachConnectedSocket is given one.  Only the
\* Login of a reconnect has a deadline.
connected(sh) ==
  [sh EXCEPT !.open = TRUE, !.link = "connected",
             !.loginDeadline = sh.pending /\ sh.auth = "anonymous"]

\* Mutant of hasRoom: the queue takes one frame too many.
hasRoom_oneMore(sh) == sh.open /\ Len(sh.out) <= MaxOutbound

\* enqueueCommand, on an open socket; a command that the queue has no room for
\* is refused.
hasRoom(sh) == sh.open /\ Len(sh.out) < MaxOutbound
enqueueCommand(sh, c) == [sh EXCEPT !.out = Append(@, c)]

\* noteReconnectCompletedIfReady.
noteReconnect(sh) ==
  IF sh.pending /\ sh.auth = "loggedIn" /\ ~sh.needsSnapshot
    THEN [sh EXCEPT !.reconnects = @ + 1, !.pending = FALSE, !.error = "None"]
    ELSE sh

\* Mutant of loginResponse: the wait for the Snapshot starts only with the
\* request.
loginResponse_unarmed(sh, f) ==
  IF f.kind = "loginRejected" THEN markFailed(sh, "LoginRejected")
  ELSE [sh EXCEPT !.session = f.session, !.auth = "loggedIn", !.loginDeadline = FALSE]

\* handleLoginResponseFrame.
loginResponse(sh, f) ==
  IF f.kind = "loginRejected" THEN markFailed(sh, "LoginRejected")
  ELSE [sh EXCEPT !.session = f.session, !.auth = "loggedIn", !.loginDeadline = FALSE,
                  !.snapshotDeadline = sh.needsSnapshot]

\* handleDisconnectResponseFrame and applyDisconnectResponse.
disconnectResponse(sh, f) ==
  IF ~sh.disconnectQueued THEN sh
  ELSE IF f.kind = "disconnectRejected" THEN [sh EXCEPT !.disconnectQueued = FALSE]
  ELSE IF f.session # sh.session THEN sh
  ELSE beginReconnect(sh)

\* ClientInboundDemux::append: complete frames come out, the rest waits.  The
\* units of a frame are counted, whatever they are; what stands where a frame
\* should begin has to be one.
demuxUnit(d, u) ==
  LET rest == Append(d.rest, u) IN
  IF d.failed THEN d
  ELSE IF Head(rest).kind = "body" THEN [d EXCEPT !.failed = TRUE]
  ELSE IF Len(rest) < frameSize(Head(rest)) THEN [d EXCEPT !.rest = rest]
  ELSE [d EXCEPT !.frames = Append(@, Head(rest)), !.rest = <<>>]
demux(units_) ==
  LET after[n \in 0..Len(units_)] ==
        IF n = 0 THEN [frames |-> <<>>, rest |-> <<>>, failed |-> FALSE]
        ELSE demuxUnit(after[n - 1], units_[n])
  IN after[Len(units_)]

\* One frame of the loop of handleInboundFrames.  After an error the loop ends.
handleFrame(h, f) ==
  IF h.failed THEN h
  ELSE IF isWorldUpdate(f) THEN [h EXCEPT !.world = Append(@, f), !.worldBytes = @ + frameSize(f)]
  ELSE IF f.kind \in {"loginAccepted", "loginRejected"}
    THEN [h EXCEPT !.sh = loginResponse(h.sh, f), !.failed = f.kind = "loginRejected"]
  ELSE LET sh == disconnectResponse(h.sh, f) IN
       [h EXCEPT !.sh = sh, !.disconnected = @ \/ sh.pending]

\* ClientWorldUpdateReceiver::receive of all updates of a read at once: the
\* accumulator takes no more than the largest frame.  A Snapshot ends the need
\* for one, a gap begins it and ends the handling of the read.
receiveUpdate(r, f) ==
  CASE r.gap -> r
    [] ~r.gap /\ f.kind = "snapshot" -> [r EXCEPT !.needs = FALSE]
    [] ~r.gap /\ f.kind = "gap" /\ ~r.needs -> [needs |-> TRUE, gap |-> TRUE]
    [] OTHER -> r
needsAfter(sh, fs) ==
  FoldLeft(receiveUpdate, [needs |-> sh.needsSnapshot, gap |-> FALSE], fs).needs
receiveWorld(sh, fs, size) ==
  IF size > MaxUpdateFrame THEN markFailed(sh, "ProtocolError")
  ELSE IF needsAfter(sh, fs) THEN [sh EXCEPT !.needsSnapshot = TRUE]
  ELSE noteReconnect([sh EXCEPT !.needsSnapshot = FALSE, !.snapshotQueued = FALSE,
                                !.snapshotDeadline = FALSE])

handleInboundFrames(sh, frames) ==
  LET after[n \in 0..Len(frames)] ==
        IF n = 0 THEN [sh |-> sh, world |-> <<>>, worldBytes |-> 0, failed |-> FALSE,
                       disconnected |-> FALSE]
        ELSE handleFrame(after[n - 1], frames[n])
      h == after[Len(frames)]
  IN IF h.failed \/ h.disconnected \/ h.world = <<>> THEN h.sh
     ELSE receiveWorld(h.sh, h.world, h.worldBytes)

\* The demultiplexer and the handling of what recv returned.
received(sh, read) ==
  LET d == demux(sh.inbound \o read) IN
  IF d.failed THEN [markFailed(sh, "ProtocolError") EXCEPT !.inboundFailed = TRUE]
  ELSE handleInboundFrames([sh EXCEPT !.inbound = d.rest], d.frames)

\* enqueueRequestSnapshotIfNeeded, noteSnapshotRequestQueued.
requestSnapshot(sh) ==
  IF ~(sh.auth = "loggedIn" /\ sh.needsSnapshot /\ ~sh.snapshotQueued) THEN sh
  ELSE [enqueueCommand(sh, Command("requestSnapshot", sh.session)) EXCEPT
          !.snapshotQueued = TRUE, !.snapshotDeadline = TRUE]

\* A deadline is armed and what it is for has not come.
expires(sh) ==
  sh.loginDeadline \/ (sh.snapshotDeadline /\ sh.auth = "loggedIn" /\ sh.needsSnapshot)

\* checkDeadlines finds a deadline expired.
timedOut(sh) ==
  markFailed(sh, IF sh.loginDeadline THEN "LoginResponseTimeout" ELSE "SnapshotWaitTimeout")

-----------------------------------------------------------------------------
(* The application and the shell *)

\* What the server's side is when the shell has become sh.
peerOf(sh) == IF sh.open THEN peer ELSE NoPeer
dropped(sh) ==
  /\ shell' = sh
  /\ peer' = peerOf(sh)
  /\ stream' = IF sh.open THEN stream ELSE <<>>

Connect ==
  /\ ready /\ ~shell.open
  /\ connection < MaxConnections
  /\ connection' = connection + 1
  /\ ready' = FALSE
  /\ shell' = connected(shell)
  /\ peer' = [NoPeer EXCEPT !.open = TRUE]
  /\ UNCHANGED stream

\* A connect that times out is recorded; one that is refused only fails the link.
ConnectFails ==
  /\ ready /\ ~shell.open
  /\ connection < MaxConnections
  /\ \/ shell' = markFailed(shell, "ConnectTimeout")
     \/ shell' = [shell EXCEPT !.link = "failed"]
  /\ UNCHANGED <<ready, connection, peer, stream>>

BeginReconnect ==
  /\ connection > 0
  /\ dropped(beginReconnect(shell))
  /\ ready' = TRUE
  /\ UNCHANGED connection

EnqueueLogin ==
  /\ hasRoom(shell) /\ shell.auth = "anonymous"
  /\ shell' = enqueueCommand(shell, Command("login", 0))
  /\ UNCHANGED <<ready, connection, peer, stream>>

\* Any other command of the application.
EnqueueCommand ==
  /\ hasRoom(shell) /\ shell.auth = "loggedIn"
  /\ shell' = enqueueCommand(shell, Command("other", shell.session))
  /\ UNCHANGED <<ready, connection, peer, stream>>

EnqueueDisconnect ==
  /\ hasRoom(shell) /\ shell.auth = "loggedIn"
  /\ shell' = [enqueueCommand(shell, Command("disconnect", shell.session)) EXCEPT
                 !.disconnectQueued = TRUE]
  /\ UNCHANGED <<ready, connection, peer, stream>>

CloseTransport ==
  /\ shell.open
  /\ dropped(closeShell(shell))
  /\ UNCHANGED <<ready, connection>>

-----------------------------------------------------------------------------
(* pump *)

canPump == shell.open /\ ~shell.inboundFailed /\ shell.link # "failed"

\* The first check of the deadlines finds one expired.
PumpTimeout ==
  /\ canPump
  /\ expires(shell)
  /\ dropped(timedOut(shell))
  /\ UNCHANGED <<ready, connection>>

\* recv finds the connection closed by the peer or reset, or fails.
PumpClosed ==
  /\ canPump
  /\ ~peer.open /\ stream = <<>>
  /\ \/ dropped([closeShell(shell) EXCEPT !.error = "PeerClosed"])
     \/ dropped(markFailed(shell, "ReadFailed"))
  /\ UNCHANGED <<ready, connection>>

\* recv returns n units, none if there is nothing to read; the second check may
\* find a deadline expired; the socket takes what is queued or, with blocked,
\* nothing.  A RequestSnapshot that the queue has no room for ends the pump.
Pump(n, late, blocked) ==
  LET sh == IF n = 0 THEN shell ELSE received(shell, SubSeq(stream, 1, n))
      stale == late /\ expires(sh)
      asked == requestSnapshot(sh)
      over == Len(asked.out) > MaxOutbound
      sent == IF blocked THEN <<>> ELSE asked.out
  IN
  /\ canPump
  /\ n = 0 => peer.open /\ ~late
  /\ blocked => asked.out # <<>>
  /\ blocked \/ over \/ Len(peer.commands) + Len(asked.out) <= MaxWire
  /\ IF ~sh.open \/ stale
       THEN dropped(IF ~sh.open THEN sh ELSE timedOut(sh))
       ELSE /\ stream' = SubSeq(stream, n + 1, Len(stream))
            /\ IF over THEN shell' = sh /\ peer' = peer
               ELSE /\ shell' = noteReconnect([asked EXCEPT !.out = IF blocked THEN @ ELSE <<>>])
                    /\ peer' = [peer EXCEPT !.commands = IF peer.open THEN @ \o sent ELSE @]
  /\ ready' = (ready \/ (~shell'.open /\ shell'.pending /\ shell'.link = "disconnected"))
  /\ UNCHANGED connection

\* What was read is handled and the next send finds the connection gone: it was
\* closed by the peer, or the write fails.
PumpWriteFails(n) ==
  LET sh == IF n = 0 THEN shell ELSE received(shell, SubSeq(stream, 1, n))
      asked == requestSnapshot(sh)
  IN
  /\ canPump /\ ~peer.open
  /\ sh.open /\ asked.out # <<>> /\ Len(asked.out) <= MaxOutbound
  /\ \/ dropped([closeShell(asked) EXCEPT !.error = "PeerClosed"])
     \/ dropped(markFailed(asked, "WriteFailed"))
  /\ UNCHANGED <<ready, connection>>

-----------------------------------------------------------------------------
(* The server's side of the connection *)

\* enqueueLoginResponse and the like: no room, no frame.
respond(p, f) == IF Len(p.out) < MaxOutbound THEN [p EXCEPT !.out = Append(@, f)] ELSE p

\* The Login of a connection without a session is accepted, and a Snapshot is
\* due, or it is refused; any other Login is refused.
handleLogin(p, accepts) ==
  IF accepts /\ ~p.session
    THEN respond([p EXCEPT !.session = TRUE, !.wanted = TRUE], Frame("loginAccepted", connection))
    ELSE respond(p, Frame("loginRejected", 0))

\* A Disconnect is accepted while the session it names is active.  The
\* connection is closed after the answer only if there was room for it.
handleDisconnect(p, s) ==
  IF p.session /\ s = connection
    THEN LET q == respond([p EXCEPT !.session = FALSE, !.wanted = FALSE],
                          Frame("disconnectAccepted", s))
         IN [q EXCEPT !.closing = @ \/ Len(p.out) < MaxOutbound]
    ELSE respond(p, Frame("disconnectRejected", s))

ServerCommand(accepts) ==
  /\ peer.open /\ peer.commands # <<>>
  /\ LET c == Head(peer.commands)
         p == [peer EXCEPT !.commands = Tail(@)]
     IN peer' = CASE c.type = "login" -> handleLogin(p, accepts)
                  [] c.type = "disconnect" -> handleDisconnect(p, c.session)
                  [] c.type = "requestSnapshot" -> [p EXCEPT !.wanted = @ \/ p.session]
                  [] c.type = "other" -> p
  /\ UNCHANGED <<shell, ready, connection, stream>>

\* flushOutbound: one frame; the last one closes a connection that is to end.
ServerFlush ==
  /\ peer.open /\ peer.out # <<>>
  /\ Len(stream) + frameSize(Head(peer.out)) <= MaxWire
  /\ stream' = stream \o units(Head(peer.out))
  /\ peer' = [peer EXCEPT !.out = Tail(@), !.open = ~(peer.closing /\ Len(peer.out) = 1)]
  /\ UNCHANGED <<shell, ready, connection>>

\* publishWorldUpdates: an Event, or the Snapshot that is due; a full queue
\* loses it.  An Event comes after a gap if updates were lost or refused.
ServerPublish(kind) ==
  /\ peer.open /\ peer.session
  /\ kind = "snapshot" => peer.wanted
  /\ peer' = respond([peer EXCEPT !.wanted = @ /\ kind # "snapshot"], Frame(kind, 0))
  /\ UNCHANGED <<shell, ready, connection, stream>>

\* The network or the server ends the connection; what was on the way may be lost.
ConnectionLost ==
  /\ peer.open
  /\ peer' = NoPeer
  /\ \E n \in 0..Len(stream) : stream' = SubSeq(stream, 1, n)
  /\ UNCHANGED <<shell, ready, connection>>

Reads == 0..(IF Len(stream) < ReadBuffer THEN Len(stream) ELSE ReadBuffer)

PumpSteps ==
  \/ PumpTimeout \/ PumpClosed
  \/ \E n \in Reads, late \in BOOLEAN, blocked \in BOOLEAN : Pump(n, late, blocked)
  \/ \E n \in Reads : PumpWriteFails(n)

Next ==
  \/ Connect \/ ConnectFails \/ BeginReconnect \/ EnqueueLogin \/ EnqueueCommand
  \/ EnqueueDisconnect \/ CloseTransport
  \/ PumpSteps
  \/ \E accepts \in BOOLEAN : ServerCommand(accepts)
  \/ ServerFlush
  \/ \E kind \in {"event", "gap", "snapshot"} : ServerPublish(kind)
  \/ ConnectionLost

Spec == Init /\ [][Next]_shellVars

\* A client that is connected pumps, and its clock goes on.
FairSpec == Spec /\ WF_shellVars(PumpTimeout)

-----------------------------------------------------------------------------
(* Properties *)

TypeOK ==
  /\ shell.link \in {"disconnected", "connected", "failed"}
  /\ shell.auth \in {"anonymous", "loggedIn"}
  /\ shell.session \in 0..connection /\ shell.reconnects \in 0..connection
  /\ shell.error \in Reasons
  /\ Len(shell.out) <= MaxOutbound /\ Len(peer.out) <= MaxOutbound
  /\ Len(shell.inbound) < SnapshotSize
  /\ connection \in 0..MaxConnections

\* Frames follow each other from the first unit on; the last may be cut off.
wholeFrames(u) ==
  \A i \in 1..Len(u) :
    u[i].kind = "body" <=> \E j \in 1..(i - 1) : j + frameSize(u[j]) > i /\ u[j].kind # "body"

\* However the stream is cut into reads, and whatever the connection before it
\* left behind, the client takes the frames the server sent on this one: what
\* is buffered and what is still to come are whole frames from the first unit
\* on, and a protocol error needs a frame so large that the rest of its last
\* read overflows the bound of the accumulator.
StreamUnderstood ==
  /\ shell.open => wholeFrames(shell.inbound \o stream)
  /\ SnapshotSize + ReadBuffer - 1 <= MaxUpdateFrame => shell.error # "ProtocolError"

\* Every command on its way to the server names the session that this very
\* connection was given: nothing queued for an earlier connection is sent on a
\* later one.
CommandsNameOwnSession ==
  shell.open => \A c \in ToSet(shell.out \o peer.commands) :
                  c.type # "login" => c.session = connection

\* A reconnect that has a connection does not hang: the Login and the Snapshot
\* it needs arrive, or the transport fails or is closed.  It holds although a
\* Snapshot may be dropped with the read that brings a DisconnectResponse, or
\* be lost to a full queue.
ReconnectEnds == (shell.open /\ shell.pending) ~> ~(shell.open /\ shell.pending)
=============================================================================
