--------------------------- MODULE CommandIntake ---------------------------
(***************************************************************************)
(* Commands from the sockets to the world input queue: ClientSession's     *)
(* reads with its FrameAccumulator, ServerRuntime's queue of pending       *)
(* commands with its limits, the ServerCommandDispatcher with the          *)
(* CommandRateLimiter, and the handlers of Chat, Attack, CastSpell and     *)
(* Move, as processFrame runs them for every world tick.                   *)
(*                                                                         *)
(* The connections are 1..Connections, in the order of the client map, and *)
(* each has logged in to the session of the same number: Login is in       *)
(* SessionPresence and TransportShell.  A command is its place in what its *)
(* client has sent; a unit of the stream is <<place, part>>.  Input        *)
(* sequences and request ids, which the queue also checks, are in          *)
(* WorldFrame.                                                             *)
(***************************************************************************)
EXTENDS Integers, SequencesExt, FiniteSetsExt

CONSTANTS
  Connections,      \* number of connections
  Commands,         \* the commands that clients send: type, frame size in units and
                    \* whether the handler can read the payload
  ReadBuffer,       \* READ_BUFFER_SIZE, in units
  MaxFrame,         \* FRAME_HEADER_SIZE + MAX_COMMAND_PAYLOAD, in units
  MaxPending,       \* MAX_PENDING_COMMANDS
  MaxPerConnection, \* MAX_PENDING_COMMANDS_PER_CONNECTION
  MaxInputs,        \* MAX_PENDING_INPUTS
  MoveLimit,        \* 20 in the code
  ActionLimit,      \* 4 in the code
  MaxSent           \* bound of the model: commands of all clients

VARIABLES
  sent,             \* the commands of each client, in the order it sent them
  wire,             \* units sent and not read
  client,           \* the ClientSession: open, or why it is not; units it buffers
  eof,              \* the clients that have closed their end
  active,           \* the sessions the registry has
  turn,             \* 0 between ticks; the connection to read; then dispatch
  pendingCommands,  \* <<connection, place>> of each
  counts,           \* the CommandRateLimiter
  snapshotRequests, \* accepted in this tick
  queued,           \* the world input queue: <<connection, place>> of each
  dispatched,       \* history: places dispatched, by connection
  refused,          \* history: the reads that enqueueCommands refused
  denied            \* history: sessions whose RequestSnapshot was denied in this tick

intakeVars == <<sent, wire, client, eof, active, turn, pendingCommands, counts,
                snapshotRequests, queued, dispatched, refused, denied>>

Conns == 1..Connections
Types == {command.type : command \in Commands}

\* The commands of a session in one tick.
limitFor(type) == CASE type = "move" -> MoveLimit
                    [] type \in {"chat", "attack", "castSpell"} -> ActionLimit
                    [] type = "disconnect" -> 2
                    [] type = "requestSnapshot" -> 1
                    [] OTHER -> 0

Init ==
  /\ sent = [c \in Conns |-> <<>>] /\ wire = [c \in Conns |-> <<>>]
  /\ client = [c \in Conns |-> [state |-> "open", buffered |-> <<>>]]
  /\ eof = {} /\ active = Conns /\ turn = 0
  /\ pendingCommands = <<>> /\ queued = <<>>
  /\ counts = [c \in Conns |-> [t \in Types |-> 0]] /\ snapshotRequests = 0
  /\ dispatched = [c \in Conns |-> <<>>] /\ refused = {} /\ denied = {}

-----------------------------------------------------------------------------
(* Clients *)

\* The bound of the model.
moreToSend ==
  LET upTo[c \in 0..Connections] == IF c = 0 THEN 0 ELSE upTo[c - 1] + Len(sent[c])
  IN upTo[Connections] < MaxSent

\* Clients act between ticks: as a read returns any part of what was sent, what
\* arrives during a tick makes no difference.
Send(c, command) ==
  /\ turn = 0
  /\ client[c].state = "open" /\ c \notin eof
  /\ moreToSend
  /\ sent' = [sent EXCEPT ![c] = Append(@, command)]
  /\ wire' = [wire EXCEPT ![c] = @ \o [k \in 1..command.size |-> <<Len(sent[c]) + 1, k>>]]
  /\ UNCHANGED <<client, eof, active, turn, pendingCommands, counts, snapshotRequests,
                 queued, dispatched, refused, denied>>

\* The client closes its end, or the network does and loses what is on the way.
Hangup(c) ==
  /\ turn = 0
  /\ client[c].state = "open" /\ c \notin eof
  /\ eof' = eof \cup {c}
  /\ \/ UNCHANGED wire
     \/ wire' = [wire EXCEPT ![c] = <<>>] /\ wire[c] # <<>>
  /\ UNCHANGED <<sent, client, active, turn, pendingCommands, counts, snapshotRequests,
                 queued, dispatched, refused, denied>>

-----------------------------------------------------------------------------
(* ClientSession::receive *)

\* Mutant of accumulate: the last unit of a frame stays in the buffer.
accumulate_keep(c, a, u) ==
  LET rest == Append(a.rest, u) IN
  IF Len(rest) < sent[c][Head(rest)[1]].size THEN [a EXCEPT !.rest = rest]
  ELSE [ready |-> Append(a.ready, Head(rest)[1]), rest |-> <<u>>]

\* A unit is added to what is left of those before it: the length in the header
\* says where a frame ends.
accumulate(c, a, u) ==
  LET rest == Append(a.rest, u) IN
  IF Len(rest) < sent[c][Head(rest)[1]].size THEN [a EXCEPT !.rest = rest]
  ELSE [ready |-> Append(a.ready, Head(rest)[1]), rest |-> <<>>]

\* FrameAccumulator::append and the codec: the complete frames, and what is
\* left of the units.
frames(c, units) ==
  LET after[n \in 0..Len(units)] ==
        IF n = 0 THEN [ready |-> <<>>, rest |-> <<>>] ELSE accumulate(c, after[n - 1], units[n])
  IN after[Len(units)]

\* decodeFrame refuses a command that validateCommand does not know.
decodes(c, places) == \A i \in ToSet(places) : sent[c][i].type # "unknown"

closed(c, why) == client' = [client EXCEPT ![c] = [state |-> why, buffered |-> <<>>]]

\* Mutant of fits: the pending commands of the other connections count too.
fits_all(c, n) == n <= MaxPerConnection - Len(pendingCommands)

\* The limits of enqueueCommands.
fits(c, n) ==
  /\ n <= MaxPending - Len(pendingCommands)
  /\ n <= MaxPerConnection - Cardinality({i \in DOMAIN pendingCommands : pendingCommands[i][1] = c})

\* enqueueCommands: all the commands of a read, or none of them.
enqueueCommands(c, places) ==
  IF fits(c, Len(places))
    THEN /\ pendingCommands' = pendingCommands \o [i \in DOMAIN places |-> <<c, places[i]>>]
         /\ UNCHANGED refused
    ELSE refused' = refused \cup {<<c, places>>} /\ UNCHANGED pendingCommands

\* Mutant of overfull: a buffer that is just full is refused too.
overfull_exact(c, n) == n >= MaxFrame - Len(client[c].buffered)

\* The bound of the accumulator is that of one frame.
overfull(c, n) == n > MaxFrame - Len(client[c].buffered)

ReadUnits(c, n) ==
  LET a == frames(c, client[c].buffered \o SubSeq(wire[c], 1, n)) IN
  /\ wire' = [wire EXCEPT ![c] = SubSeq(@, n + 1, Len(@))]
  /\ IF overfull(c, n)
       THEN closed(c, "overfull") /\ UNCHANGED <<pendingCommands, refused>>
     ELSE IF ~decodes(c, a.ready)
       THEN closed(c, "invalid") /\ UNCHANGED <<pendingCommands, refused>>
     ELSE /\ client' = [client EXCEPT ![c].buffered = a.rest]
          /\ enqueueCommands(c, a.ready)

\* The read of connection c, in the order of the client map.  recv returns what
\* has arrived, which may be any part of what was sent.
Receive(c) ==
  /\ turn = c
  /\ turn' = turn + 1
  /\ \/ /\ client[c].state = "open" /\ wire[c] # <<>>
        /\ \E n \in 1..Min({Len(wire[c]), ReadBuffer}) : ReadUnits(c, n)
     \/ /\ client[c].state = "open" /\ wire[c] = <<>> /\ c \in eof
        /\ closed(c, "closed")
        /\ UNCHANGED <<wire, pendingCommands, refused>>
     \/ /\ client[c].state = "open" => wire[c] = <<>> /\ c \notin eof
        /\ UNCHANGED <<wire, client, pendingCommands, refused>>
  /\ UNCHANGED <<sent, eof, active, counts, snapshotRequests, queued, dispatched, denied>>

-----------------------------------------------------------------------------
(* ServerCommandDispatcher *)

allow(c, type) == counts[c][type] < limitFor(type)

\* The handler of a command that becomes a world input, and the queue.
handlerAccepts(command) == command.readable /\ Len(queued) < MaxInputs

\* dispatch: a session that is active, within its limit; the limit also counts
\* a command that its handler refuses.
dispatch(c, i, command) ==
  LET allowed == c \in active /\ allow(c, command.type) IN
  /\ counts' = CASE ~allowed -> counts
                 [] allowed /\ command.type = "disconnect" ->
                      [counts EXCEPT ![c] = [t \in Types |-> 0]]
                 [] OTHER -> [counts EXCEPT ![c][command.type] = @ + 1]
  /\ active' = IF allowed /\ command.type = "disconnect" THEN active \ {c} ELSE active
  /\ snapshotRequests' = IF allowed /\ command.type = "requestSnapshot"
                           THEN snapshotRequests + 1 ELSE snapshotRequests
  /\ denied' = IF c \in active /\ ~allowed /\ command.type = "requestSnapshot"
                 THEN denied \cup {c} ELSE denied
  /\ queued' = IF allowed /\ command.type \in {"chat", "attack", "castSpell", "move"}
                  /\ handlerAccepts(command)
                 THEN Append(queued, <<c, i>>) ELSE queued

Dispatch ==
  /\ turn > Connections /\ pendingCommands # <<>>
  /\ LET c == Head(pendingCommands)[1]
         i == Head(pendingCommands)[2]
     IN /\ dispatch(c, i, sent[c][i])
        /\ dispatched' = [dispatched EXCEPT ![c] = Append(@, i)]
  /\ pendingCommands' = Tail(pendingCommands)
  /\ UNCHANGED <<sent, wire, client, eof, turn, refused>>

-----------------------------------------------------------------------------
(* The tick *)

\* Mutant of beginFrame: the counts are those of the last tick.
beginFrame_counted == counts

\* CommandRateLimiter::beginFrame, for a new tick.
beginFrame == [c \in Conns |-> [t \in Types |-> 0]]

BeginFrame ==
  /\ turn = 0
  /\ turn' = 1
  /\ counts' = beginFrame /\ snapshotRequests' = 0 /\ denied' = {}
  /\ UNCHANGED <<sent, wire, client, eof, active, pendingCommands, queued, dispatched, refused>>

\* removeClosedClients: the sessions of closed connections end.  An accepted
\* Disconnect closes its connection once its answer is flushed.  Then takeFrame.
EndFrame ==
  LET ended == {c \in Conns : client[c].state # "open" \/ c \notin active} IN
  /\ turn > Connections /\ pendingCommands = <<>>
  /\ turn' = 0
  /\ active' = active \ ended
  /\ client' = [c \in Conns |-> IF c \in ended /\ client[c].state = "open"
                                  THEN [state |-> "closed", buffered |-> <<>>] ELSE client[c]]
  /\ queued' = <<>>
  /\ UNCHANGED <<sent, wire, eof, pendingCommands, counts, snapshotRequests, dispatched,
                 refused, denied>>

Next ==
  \/ \E c \in Conns : (\E command \in Commands : Send(c, command)) \/ Hangup(c) \/ Receive(c)
  \/ Dispatch \/ BeginFrame \/ EndFrame

Spec == Init /\ [][Next]_intakeVars

-----------------------------------------------------------------------------
(* Properties *)

\* However the stream is cut into reads, the commands of a client are dispatched
\* in the order it sent them, each once: what has been dispatched, what is
\* pending, and the frames that begin in the buffer and on the wire ascend, each
\* as <<stage, index, place>>, and as long as the connection is open it has
\* every command that was sent except those of a read that was refused.
underway(c) ==
  LET coming == client[c].buffered \o wire[c] IN
  {<<1, i, dispatched[c][i]>> : i \in DOMAIN dispatched[c]}
    \cup {<<2, i, pendingCommands[i][2]>> :
            i \in {j \in DOMAIN pendingCommands : pendingCommands[j][1] = c}}
    \cup {<<3, i, coming[i][1]>> : i \in {j \in DOMAIN coming : coming[j][2] = 1}}
CommandsInOrder ==
  \A c \in Conns :
    LET kept == {a[3] : a \in underway(c)}
        lost == UNION {ToSet(r[2]) : r \in {q \in refused : q[1] = c}}
    IN /\ \A a, b \in underway(c) : a[1] < b[1] \/ (a[1] = b[1] /\ a[2] < b[2]) => a[3] < b[3]
       /\ client[c].state = "open" /\ c \notin eof =>
            kept \cup lost = 1..Len(sent[c]) /\ kept \cap lost = {}

\* No client has its commands refused for what others send: where the queue has
\* room for the limit of every connection, a read is refused only if it holds
\* more commands than a connection may have pending.
RefusedForOwnRead ==
  Connections * MaxPerConnection <= MaxPending =>
    \A r \in refused : Len(r[2]) > MaxPerConnection

\* A RequestSnapshot that the rate limit denies is not needed: the tick has
\* accepted one, and the Snapshot it makes goes to every session.
DeniedRequestIsServed == denied # {} => snapshotRequests > 0

\* A command that arrives alone always fits, however long it is and however it is
\* cut: the accumulator ends a connection only at a read that goes on with the
\* frame begun in its buffer and also brings the beginning of a later one.
OneFrameFits ==
  [][\A c \in Conns : client[c].state = "open" /\ client'[c].state = "overfull" =>
       /\ client[c].buffered # <<>>
       /\ \E i \in 1..(Len(wire[c]) - Len(wire'[c])) : wire[c][i][2] = 1]_intakeVars
=============================================================================
