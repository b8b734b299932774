# TLA+ models of the SEED world server and its client transport

This directory holds the TLA+ specifications of `seed-origin`: the world server
(`src/*.cpp` with `include/seed/*.h` of the repository), the client side of the
connection, and the login that the services around them share. TLC checks
the models on small instances, TLAPS proves the most important properties for
every value of the constants.

    tlc -workers 2 -config Session.cfg MCSessionPresence
    tlapm SessionPresence_proofs.tla

`PROJECT.json` lists components, runs, mutants, the map from definitions to
source lines, findings, hazards and theorems.

## 1. Inventory

### The server

`ServerMain` runs one thread, a loop of 20 passes per second. A pass is
`ServerRuntime::processFrame` (accept, receive, dispatch, flush, take the inputs
of the tick), `WorldFrameApplier::apply` (the tick's inputs onto the `Field`),
`capturePublicSnapshotIfNewSessions` and `publishWorldUpdates`. Nothing else
touches the state of the server, so the hard part on the server is not
preemption but *what a pass finds changed since an earlier one*: commands that
were accepted for a session that is gone when they are applied, sockets found
closed in the middle of a pass, queues that fill up half-way through publishing.

| Component | State | Operations | What makes it correct |
|---|---|---|---|
| ServerRuntime, SessionLifecycle, SessionRegistry | clients, connection → session, active sessions, id counters | accept, receive, Login, Disconnect, removeClosedClients, stop | active sessions are the ones a connection holds; a lost socket ends its session |
| Field (presence), FieldSessionPresence | players, session ↔ player maps, gameplay ids, claimed names | placeAfterLogin, bind/unbind, removeAfterLogout, releaseAfterStop, operatorSetPlayerName | the maps are inverse, one player per account, names exclusive, a session acts on its own player |
| WorldInputQueue, ClientInputSequence | pending inputs, last accepted sequence, accepted request ids | enqueue…, takeFrame | moves in order and once, requests once |
| WorldFrameApplier, Field::processInputs | world tick, players, ether, cooldowns, last processed sequence | two passes, rollback, acks | a frame takes effect as a whole or not at all |
| WorldFrameUpdateBuilder, publishWorldUpdates, OutboundFrameQueue | update sequence, a bounded queue per session | build, appendHazard, appendSnapshot, publish, flush | numbers ascend on the way to a client |
| CommandRateLimiter, chat, dispatcher | counts per session | admit | limits are per session and are cleared when it ends |
| NPCs and AI, legacy queues | NPC state, respawn, queues | decide, respawn, drain | a dead NPC comes back once; queues keep order |
| EnvironmentEther, Status | ether per attribute, HP/MP/level | add, resolveSpell, decay, gain… | values stay in their ranges |
| Challenge login, session store, seed-auth | challenges, session rows, failures | register, login, claim, keepAlive | a challenge is used once; expiry |
| Admin process, alias store, progression store | admins, lockouts, aliases, rows | login, lock, register | lockout ends; aliases unique |

### The client

`ClientTransportShell::pump` reads what is there, splits it into LoginResponse,
DisconnectResponse and world bytes (`ClientInboundDemux`), gives the world bytes
to `ClientWorldUpdateReceiver` and asks for a Snapshot when the receiver wants
one. The receiver applies Snapshots, feeds the sequence tracker and the bounded
hazard effect queue, the predictor and the remote poses. It interacts with the
server only through the socket: frames in order, cut anywhere, until the
connection is lost.

| Component | State | Operations | What makes it correct |
|---|---|---|---|
| ClientTransportShell | link and auth state, deadlines, outbound bytes, the flag that a Snapshot request is queued | connect, login, pump, close, beginReconnect | a wait ends; a gap leads to a Snapshot |
| ClientWorldUpdateReceiver, sequence tracker, hazard queue | expected number, needsSnapshot, effects | receive, applyEvent, drain | the client's state is complete up to the expected number |
| LocalMovementPredictor, PendingInputBuffer, RemotePlayerPoseStore | pending inputs, poses | predict, reconcile, applyAuthoritative | after an ack the prediction replays exactly what is pending |
| Accumulators, demultiplexer, codecs | buffered bytes | append | every legal stream is split the same way wherever it is cut |

### What is hard here

The hazards are listed in `PROJECT.json` at their lines. In short: session ids
and gameplay ids share one number space; a frame is all or nothing, across
sessions; numbers are used up by frames that are refused; publishing stops at
the first full queue; a Snapshot request is sent once per wait and its flag can
be stale; the hazard queue is bounded and nobody but the application drains it;
bounds of one frame are applied to whole reads; a connection may find what the
one before it left behind; a challenge and its session are two transactions of
several processes; refused frames of actions are put back and leave traces; and
a client replays inputs on top of poses whose acks may have gone back to 0.

## 2. Modules

| Module | Models | Kind |
|---|---|---|
| `SessionPresence` | ServerRuntime's clients and sessions, SessionLifecycle, SessionRegistry, Field's players and bindings, FieldSessionPresence | component |
| `SessionPresence_proofs` | its 7 theorems | proofs |
| `MCSessionPresence` | instances | model checking |
| `WorldInputs` | inputs of a frame and the effect of one on the world | operators |
| `AtomicWorld` | what a tick promises | abstract specification |
| `WorldFrame` | WorldInputQueue, WorldInputTick, WorldFrameApplier, Field::processInputs | component; implements `AtomicWorld` |
| `WorldFrame_proofs` | its 4 theorems, the refinement among them | proofs |
| `MCWorldFrame` | instances | model checking |
| `UpdateStream` | update builder, publishing, outbound queues, the wire, transport shell and receiver | composition of server and clients |
| `UpdateStream_proofs` | its 3 theorems | proofs |
| `MCUpdateStream` | instances | model checking |
| `TransportShell` | ClientTransportShell, its demultiplexer, deadlines and queue, and the server's side of one connection | composition of a client and a connection; its own instance |
| `TransportShell_proofs` | its 3 theorems | proofs |
| `CommandIntake` | ClientSession's reads, FrameAccumulator, the pending commands of ServerRuntime, dispatcher and rate limiter, handlers up to the input queue | component |
| `ChallengeLogin` | seed-auth's challenges, ChallengeSessionLoginService, the session store and key issuer of several servers | component with its database |
| `NpcWorld` | NPCs, respawns, planner, movement and action queues, the frame of actions, Field::processFrame | component |
| `SnapshotText` | public views of the Field, WorldSnapshotBuilder, local fields, ClientWorldSnapshotApplier | component |
| `ClientPrediction` | LocalMovementPredictor, PendingInputBuffer, RemotePlayerPoseStore with the acks and poses of the server | composition of client and server |
| `WorldParts` | the last five, one to a behaviour | the instance they are checked in |
| `CommandIntake_proofs`, `NpcWorld_proofs`, `ClientPrediction_proofs` | the theorems of three of the components, under hypotheses on their constants | proofs |
| `WorldParts_proofs` | the same theorems for WorldParts, and those of ChallengeLogin and SnapshotText | proofs |
| `MCWorldParts` | its values | model checking |

### SessionPresence

`phase` is where `processFrame` is; `client[c]` is the state of a
`ClientSession`; `bindings`, `activeSessions`, `sessionToPlayerId`,
`playerToSessionId` and the three counters are the fields of the same names.
`playerAuth[g]` and `playerName[g]` are the players of `Field::playerList`,
`claimedName` is `operatorNamesByAuthId`. `account` is a history variable: the
auth id the port returned for a session.

A command is one step, because the thread does nothing else meanwhile. `LoginPlaced`
is a Login from `openAuthenticatedSession` through `SessionLifecycle::bind` to
`placeAfterLogin`; `LoginNotPlaced` is the same with `bind` failing, which logs the
new session out again and uses its id up. `Disconnect(c, s, fits)` may name any active
session: it ends and unbinds that one and ends the one of the connection. `removeClosedClients` happens at
the end of the dispatch and again after the flush, as in the code. The order of
commands of different connections within a pass is left open. Commands that are
refused without a change of state are stuttering steps.

Left out: `submit` and `receive` with connection id 0, which only tests use; the
`stop()` without a registry; a Login on a `ClientSession` that has closed within
the same dispatch, which the single thread does not reach.

### WorldInputs, WorldFrame and AtomicWorld

`world` is what `processInputs` copies and restores (players, ether, cooldowns).
`TakeFrame` is `advanceFrame` with the checks of `apply` and the first pass of
`processInputs`; `ApplyInput` is one input of the second pass, `Rollback` its failure
and `Commit` its end with the decay of the ether and the acks. `Login` and
`Logout` are what `SessionPresence` does to a session, as far as inputs can
tell: bound, evicted (active, but off the Field) or ended. The data is small: a
position on a line, powers in hundredths, and spells of one element, so that the
ether is one level (in thousandths) instead of four. The arithmetic of damage,
MP cost, conductivity, ether cap and decay is that of the code, in integers.

Left out: the rate limiter, chat, `Action` inputs, NPC targets, hits without a
request id (the code does not look for repetitions of those) and targets that
are not on the Field.

`AtomicWorld` has two steps: a tick opens a frame or drops it, and an open frame
is settled by doing nothing or by applying all its inputs in order and letting
the ether decay. `afterInputs` gives the worlds after the first inputs of a frame as
a recursive function, which the proofs can reason about. `ImplementsAtomicWorld`
is the refinement, with `before` for
the abstract world, and says that `world` and `before` agree between frames.

### UpdateStream

A pass of the server is one step, `Tick`: Logins and Snapshot requests that have
arrived, the flush of one frame per connection, `n` events of inputs, perhaps a
hazard, perhaps a refused frame whose numbers are gone, a Snapshot if anybody
wants one, and `publishWorldUpdates` with its early return. A pump of a client
is `Read`, a `Handle` step per frame and `EndRead`. An update stands for what it
tells: the set of events a Snapshot covers, or its own number. `effects` and
`view` are history variables: the events whose frame was applied, and those the
state of a client reflects.

Left out: frames cut by a read, commands other than Login and RequestSnapshot,
rejected Logins, Disconnect and its response, a restart of the server process.
The branch for a duplicate Event is not reachable: the socket keeps the order. The client application is
assumed to call `beginReconnect` before it connects again, as the shell requires.

### TransportShell

`shell` is the `ClientTransportShell`: `link`, `auth` and `session` are the link
and auth states and the local session id, `out` the outbound queue, `inbound`
what the demultiplexer holds, `pending` is `reconnectPending`, and a deadline is
armed or not. Its methods are operators on the record and are composed as in the
code: `Pump` is the whole of `pump`, with the second look at the deadlines, the
request for a Snapshot and the flush. `peer` is the server's side (a
`ClientSession` and what the runtime does with its commands), `stream` the bytes
on their way, as units: the first unit of a frame is its header. `late` says
that a deadline has passed by the second check, `blocked` that the socket takes
nothing. `PumpWriteFails` is the pump whose flush finds the peer gone or the write
failing, after everything that was read has been handled. The numbers of updates are in UpdateStream; here an Event has a gap
before it or not.

`demux` and the loop of `handleInboundFrames` are recursive functions over the
units and the frames of a read, one step a unit (`demuxUnit`) or a frame
(`handleFrame`), so that they can be proved about. The demultiplexer of the
code looks at its whole buffer; it finds the same frames, because only the header says
where a frame ends.

Left out: a connected socket that `fcntl` does not make non-blocking, which closes
the shell as a failed connect does.

### CommandIntake

One step is a read, in the order of the client map, or the dispatch of one
command; clients send between the ticks. A command is its place in what its
client sent, so that order and loss can be told. The limits of a Move and of
Chat, Attack and CastSpell are constants (20 and 4 in the code), the others are
those of the code. Logins are in the other modules:
every connection has its session. `frames` splits a buffer by adding its units
one at a time (`accumulate`). The loop of `FrameAccumulator` looks at the whole
buffer instead and finds the same frames, because a header and its length are
the only thing that says where a frame ends. `moreToSend` is a bound.

### ChallengeLogin

A login is the steps between which a process can fail or another can come in:
the clock is read (`BeginLogin`), the row is locked (`SelectChallenge`), claimed and
committed (`ClaimChallenge`), the session row is inserted (`CreateSession`, or
`CreateRaises` when the key is stored already), and the registry opens the
gameplay session. A key is the number of `issue()` calls of its process, because
nothing seeds `std::rand`. Postgres is modelled from the statements the code
sends: `FOR UPDATE` waits for the row, the primary key refuses a second row.
`KeepAlive` reads its clock before its UPDATE, and other steps come between the
two: its `now` is any time up to the clock.

### NpcWorld

`RefuseFrame` and `ApplyFrame` are `apply(FrameActions)` as a whole. What a refused
frame leaves in the Field's position queue is kept, and is part of the next frame that is applied, as in the code. One player, a line, few hit points.

Left out: the branch of `apply` in which the update builder fails, where the
movement intents are put back and the decisions are not. `build` fails only when
its 64-bit numbers run out: the size of a frame of actions is checked before.

### SnapshotText

A text is the set of its fields: kind, index, name and value. The builder writes
no field twice, and the applier puts what it reads into maps by the index, so the
order of the fields tells it nothing. Names are representatives of what the three
checks on their way tell apart (plain, blank, padded, with a separator). Numbers
lose what a stream does not print. `ascending` is the order in which a `std::map`
is iterated. The parser reads the fields back and checks
what the code checks before the state is replaced as a whole.

How many characters a value prints is not followed. The size of a text is any
that its entries allow, between `SmallestEntry` and `LargestEntry` each, and a text
beyond `MaxPayload` (`MAX_UPDATE_PAYLOAD`) is refused by `validateWorldUpdate`: for
everybody when the common part is too long, for the one recipient and those after
it when its own fields are. UpdateStream and TransportShell have only Snapshots
that are within the payload.

### ClientPrediction

The client's predictor and remote poses, the own player's inputs on their way,
the frames of the server with the ack they carry, and the updates on their way.
A tick that is refused drops its inputs; a Move can be lost to limits, an update
to a full queue. `missed` marks that the next update has a gap before it.
`acknowledgeUpTo` pops from the front of the buffer as long as the first input is
acknowledged, as the loop over the deque does. `Steps`, a bound, are the lengths
a Move can have. Poses pass exactly here. The code prints them with six digits,
so that a reconciled pose is the authoritative one to that precision; SnapshotText
has the printing.

### WorldParts

The five modules share no state, so a run of each would ask the same as one run
of all: `part` names the component that a behaviour belongs to, and the others
stay where they began. The properties are those of the components.

## 3. Runs

| Run | Instance | Checks | Result |
|---|---|---|---|
| `Session` | 2 accounts, 2 names, 3 connections, ids 1..5, an NPC with id 4; a Disconnect may name any session; fairness | `TypeOK`, `BindingsInverse`, `OnePlayerPerAccount`, `NamesExclusive`, `BoundSessionNamesOwnPlayer`, `SessionsHeldByConnections`, `EntityOutlivesSession`, `LostSocketEndsSession` | hold |
| `Session_left` | 3 connections, ids 1..4, no NPC; a Disconnect may name any session | `EndedSessionsLeaveField` | violated, see below |
| `Session_evicted` | 4 connections, ids 1..6, no NPC | `ActiveSessionNamesOwnPlayer` | violated |
| `Frame_moves` | 3 sessions of 2 players, sequences 1..2, 2 ticks | `TypeOK`, `MovesInOrder` | hold |
| `Frame_combat` | 2 players, 3 inputs a frame, powers 0.99 (no damage unless the ether conducts) and 11, 2 ticks | `RequestsOnce`, `ImplementsAtomicWorld` | hold |
| `Frame_accepted` | as `Frame_moves` | `AcceptedMovesApplied` | violated |
| `Stream_one` | 1 client with a clock, 2 connections, queues of 2, 3 events; fairness | `TypeOK`, `ViewComplete`, `StreamAscends`, `ResyncEnds` | hold |
| `Stream_gap` | 1 client, queues of 4 | `GapRequestsSnapshot` | violated |
| `Stream_hazard` | 1 client, room for one effect | `StreamNeverFails` | violated |
| `Shell` | 2 connections, queues of 1, Snapshots of 2 units, reads of up to 2, 2 units on the wire; fairness | `TypeOK`, `StreamUnderstood`, `CommandsNameOwnSession`, `ReconnectEnds` | hold |
| `Parts` | CommandIntake: 2 clients, 4 commands of 1 unit or of 3, the size of the longest frame, reads of up to 3 | `CommandsInOrder`, `RefusedForOwnRead`, `DeniedRequestIsServed`, `OneFrameFits` | hold |
| | ChallengeLogin: 2 servers, 2 users, 2 challenges, 2 keys a process, 2 seconds | `SingleUse`, `KeysNameOwnLogin`, `EndedStaysEnded` | hold |
| | NpcWorld: 1 NPC, 2 intents and decisions, 3 frames | `QueuesKeepOrder`, `RespawnsOfTheDead`, `MovesAreThisFrames`, `DeadUntilRespawn` | hold |
| | SnapshotText: 2 players, up to 3 NPCs where fewer than 3 are accepted, entries of 3 or 4 where a payload is at most 8 | `SnapshotsAreAccepted`, `SnapshotsAreExact` | hold |
| | ClientPrediction: 3 inputs, Moves by 2, a buffer of 2, 2 sessions, 1 tick on its way | `PredictionExact`, `WithinAdmission`, `RenderedAgrees`, `RemotesExact` | hold |
| `Login_claimed` | 2 servers, 2 challenges | `ClaimedLoginsSucceed` | violated |

**Why the bounds are enough to meet the cases.** Two connections and two accounts
are enough for a takeover of a player by a newer session of the same account
while another account logs in; three are needed for an evicted session whose
number is given away. Five ids let the counters reach
their limits, and gameplay ids skip the number of an NPC. Two ticks
let an input accepted for one tick meet a frame that was dropped or rolled back
before; three inputs in a frame are a move out of reach, a kill and a second
hit. A queue of one or two frames makes every tick a tick at the limit, and two
connections of one client give a reconnect. A Snapshot of two units and reads of
up to two cut the stream before, in and behind it; two connections let one find
what the other left. Two challenges and two servers give a claim that races
another, a restart and a repeated key; two seconds are longer than a challenge
lives and as long as a session does. Three frames let one be refused, its rest be applied and a
respawn become due. Three inputs and a buffer of two fill the buffer, and an
input can be lost before, between and after those that arrive.

A single client is enough for `StreamAscends`, whose numbers are the server's.
That views stay complete with several clients, where one full queue cuts the
others off, is `ViewIsComplete` below, for any number of them.

**Sizes.** The accumulator of a connection is bounded by one frame, but a read is
appended to it before frames are taken out. With the code's 4096 bytes a read and
a bound of 16 + 4096, a read that ends a frame of any real length and brings more
legal frames can be too much, and then the connection is closed.
`docs/issues/LISS-0075-stream-frame-accumulator.md:18` asks that all frames of a read be
returned, and the same document asks that input beyond the maximum frame length be
refused, so that the overflow is a limit of the design. What holds, for frames up
to the longest, is `OneFrameFits`: a command that comes alone is never refused,
however it is cut. Only a read that goes on with a frame already begun and brings
the beginning of a later one closes a connection.
`StreamUnderstood` has a premise: a read and the rest of the longest frame fit the
bound of the client's demultiplexer. It is about where the stream is split; the
overflow itself is a listed hazard. `RefusedForOwnRead` asks that the pending queue have
room for the limit of every connection; with more connections than that, the
commands of others do count.

A Snapshot has two limits, and the smaller one decides: the client takes fewer
than 256 players and fewer than 256 NPCs, but the server sends no payload above
16384 bytes, and a player prints as some 80 to 150 of them. From somewhere
between 100 and 200 players on, depending on what they print, a Field gives no Snapshot to
anybody, and just below that none to a recipient whose own fields no longer fit,
nor to those after it.
`SnapshotsAreAccepted` says that this is the only reason: a text is refused by the
server only when the entries can exceed the payload, and whatever it sends is
taken by the client, because a text within the payload never reaches the client's
limits.

**What the violated properties show.**

- `Session_left`: a Disconnect may name any active session. The handler ends and
  unbinds the one it names; the runtime then ends the session of the connection,
  and leaves it bound. If they are two, the player of the connection is still
  shown although its session is over. The documents say that a Disconnect unbinds the
  session and takes the entity out of the public poses.
- `Session_evicted`: `Field::resolvePlayerId` takes a number as a gameplay id
  before it takes it as a session id, and the two counters only avoid each other
  in part. A session that was evicted and is still active can act on the player
  of another account. The documents treat the two as separate namespaces.
  A bound session does not meet this in `Session`: its one NPC has a number that
  gameplay ids reach last. With NPCs 2 and 3 gameplay ids overtake session ids and
  `BoundSessionNamesOwnPlayer` fails, which is why its theorem has the premise
  `NpcsOutOfReach`. No code outside the tests places an NPC.
- `Frame_accepted`: `WorldFrameApplier::apply` refuses the frame of everybody for the
  input of one session that has left the Field.
- `Stream_gap`: the flag `snapshotCommandQueued` survives a read that brought
  the Snapshot and a new gap; no new request is sent. With a clock the deadline
  ends this (`ResyncEnds`), as a failed transport.
- `Stream_hazard`: a full effect queue fails the transport.
- `Login_claimed`: the challenge is claimed and its session stored in two
  transactions, and a key can be one that is stored already; the second
  transaction then raises and the login is lost with its challenge.

**Fairness.** `SessionPresence!FairSpec`: each step of the frame loop is weakly
fair, because `ServerMain` runs it until the server stops; receiving and
commands are not fair. `UpdateStream!FairSpec`: the server ticks, a connected
client that has something to read pumps, handles and ends its read, and an armed
deadline expires. `TransportShell!FairSpec`: `PumpTimeout` is weakly fair, because a
client that is connected pumps and its clock goes on, so that an armed deadline
is found expired; nothing is asked of the server or of the network. Nothing says that a client ever connects, or that a socket is
never full.

**Deadlock** is checked in the `Session`, `Session_*` and `Stream_*` runs. The others stop at
a bound of the model: frames, connections, sent commands, the clock, inputs.

**Symmetry** is used for accounts and names in `Session_left` and `Session_evicted`,
never in a run with a liveness property.

## 4. Proofs

34 theorems, listed in `PROJECT.json`, state 34 of the 37 properties for every
value of the constants within the named assumptions: `BoundsAssumption` and
`ValuesAssumption` (SessionPresence), `InputsAssumption` and `FrameAssumption`
(WorldFrame), `StreamAssumption` (UpdateStream), `ShellAssumption` (TransportShell),
`PartsAssumption` and `SizesAssumption` (WorldParts).
They say that limits, sizes and bounds are numbers, that markers such as
`NoAuth` and ids such as `You` are none of the values they stand beside, that a
command and a Snapshot have at least one unit, that neither a read nor a command is
longer than the accumulator's bound, that as many entries as a client refuses
exceed the payload (256 of at least 79 bytes are 20224, above 16384), that gameplay ids are positive and
places are numbers kept to some precision, and that `MAX_PENDING_PREDICTION_INPUTS` is at most
`MAX_CLIENT_INPUT_AHEAD` (both are 64). TLC evaluates them in every run.

Each safety theorem follows the same argument: an invariant that is inductive
and implies the property, one lemma per action (or group of actions), one
temporal step at the end. `StreamInv` and `PredictionInv`, the ones with most to get
wrong, were invariants of a TLC run before they were proved.

### SessionPresence

- `TypeCorrect`, and `BindingsAreInverse`, which is inductive together with
  `TypeOK`. Two lemmas carry it: unbinding a set of sessions and binding a
  session to a player on the Field each keep the maps inverse; every action does
  one of these or leaves the maps alone.
- `BoundSessionsNameOwnPlayer`: if no NPC has an id in the range
  (`NpcsOutOfReach`). The property is not inductive: nothing in it stops a fresh
  session id from being the number of a player. `NamesInv` adds that gameplay ids
  never overtake session ids, which is what NPC ids break.
- `AccountsHaveOnePlayer` and `NamesAreExclusive` are inductive with the two above: a player is
  spawned only for an account that has none, and a name is given only where no
  other player or claim has it.
- `ConnectionsHoldSessions`: whatever sessions the Disconnects name. `HeldInv` adds that no connection
  holds an id that has not been handed out, so that a new session is nobody's.
- `EntitiesOutliveSessions`: an action property, from `TypeOK`.

### UpdateStream

- `ViewIsComplete`: `StreamInv` adds that every frame in a queue or on the wire
  is true (a Snapshot tells exactly the applied events below its number, an
  event was applied), that only a connected client is in a read, that nobody
  expects a number beyond the server's, and that the view is complete whenever
  the client needs no Snapshot and has a sequence.
- `StreamTypeCorrect` and `StreamIsAscending`: `QueueInv` adds that the numbers
  ascend over the wire and the queue together, between the one the client
  expects and the server's next, and that a read lies within the wire. Publishing
  appends the updates of a tick up to the first full queue, which is a prefix.

### WorldFrame

- `FrameTypeCorrect`, `MovesTakeEffectInOrder` and `RequestsTakeEffectOnce`: `FrameInv` says of the queue
  and of the rest of the open frame that their moves ascend above those that
  took effect and that their requests are accepted, each once and without effect
  so far; and of `before`, to which a rollback returns, the same as of `world`.
- `FramesAreAtomic`: the refinement of `AtomicWorld`. `RunInv` says that in the
  second pass `world` is `afterInputs(before, taken, tick)` at the number of
  inputs applied; `TakeFrame` is the abstract `Tick`, `Commit` and `Rollback` are
  `Settle`, `ApplyInput` stutters.

### TransportShell

`ShellTypeOK`, `StreamIsUnderstood` and `CommandsAreOfThisSession`, from `ShellInv`. What
the two ends of a connection have sent and not yet taken is one pipeline of
answers (demultiplexer, wire, the server's queue) and one of commands (wire, the
shell's queue), and the invariant says what may stand where in it:

- `Answers`: demultiplexer and wire together are whole frames from the first unit
  on, and end with a frame unless the server is gone. Cutting the front off at a
  frame and appending a frame keep that, so that the buffer may be cut by reads of any length.
  After an accepted Disconnect no accepted Login follows.
- `Requests`: Logins come before all other commands, and those name the session
  of this connection. `CommandsNameOwnSession` alone is not inductive: a second
  Login answered after an accepted Disconnect would log a shell in that has just
  begun to reconnect, and take the ended session over into the next connection.
  `Sessions` excludes it: where a Disconnect has been accepted no Login is on its
  way, and an anonymous shell has sent only Logins.
- `Fresh` and `Closed`: the application connects with a shell in which no half frame and no
  command is left. This is what `beginReconnect` and `close` have to do.

`DemuxParses` says what the demultiplexer makes of any units that are whole
frames: their headers in order, and less than a frame left.

### CommandIntake

`CommandsKeepOrder`, `OwnReadsAreRefused`, `DeniedRequestsAreServed` and `OneFrameHasRoom`, from `IntakeInv`:

- `StreamInv`: what a connection has buffered and what is on its wire are
  consecutive units of what the client sent, up to the end unless the connection
  was cut, and the buffer starts with a header. So every frame that `frames` finds is a command in its place,
  and what is left is again less than a frame.
- `PlacesInv`: the places that are dispatched, pending or refused come before
  those on the way; dispatched and pending ones ascend together, and if the
  stream is whole every place is one of them.
- `TurnInv`: in a tick the connections before `turn` have put in at most their limit
  each, which is why a queue with room for every limit refuses nobody for what
  others sent. `ServedInv`: a counted RequestSnapshot was accepted in this tick.
- `OneFrameHasRoom`: an action property. A read within one frame adds up to at most
  that frame, which the bound admits; so a read that is too much goes past the end of a frame
  and, as a read is no longer than the bound, finds something in the buffer.

### ChallengeLogin

`ChallengesAreUsedOnce`, `KeysNameTheirLogin` and `EndedSessionsStayEnded`. `LoginInv` says what the
transactions guarantee between them: one server at a time has selected a
challenge, and it is unclaimed then (`OneSelects`); a claimed challenge is in at
most one login, which has no gameplay session yet and a row only once it has
created it (`OneOwns`); rows are of claimed challenges (`RowsAreClaimed`). A crash
takes a login out of the count and never puts one in. `EndedSessionsStayEnded` is an
action property: a revoked row never comes back, and one that ran out comes back only
through a keep-alive that read the clock before, so within a lifetime of its end.

### NpcWorld

`QueuesStayInOrder`, `RespawnsAreOfTheDead`, `LeftoversAreNotSeen` and `TheDeadStayDead`. The invariant adds
that numbers in the queues have been given out, and `LeftoversAreOrdered`: whoever
a refused frame left a position for still has an intent or a decision in the
queues, because those were put back. This is why the leftovers are always
overridden in the next frame that is applied.

### SnapshotText

- `SnapshotsAreTaken`: `TextInv` says that the Field has only names that are stored
  and ids that are positive, and that a text on its way is what was printed of
  `shot` for its recipient. From the set of fields follows what the parser finds:
  each value it asks for is in exactly one field (`ValueFound`), the counts are the
  lengths (`CountsAre`), as many indexes as entries (`IndexesAreCounted`), and so every
  check passes but the two limits (`TextIsTaken`). A text within a payload is within
  these (`SizeBoundsEntries`).
- `AppliedSnapshotsAreExact`: an action property. The entries the parser puts
  together are those of `shot` (`AppliedIsShown`), because no two entries share an index
  and a stored name is the same when it is trimmed again; a printed place is less than
  `Precision` away (`PrintIsNear`).

### ClientPrediction

`PredictionIsExact`, `StaysWithinAdmission`, `RenderingAgrees` and `RemotesAreExact`, from `PredictionInv`:

- `BufferInv` and `NumbersInv`: the buffer ascends; every numbered input on its
  way or waiting for a frame is in the buffer and above what is processed.
- `PoseInv`: if no update is missing after it, the latest pose on its way is the
  authoritative one; without one, the client has predicted from it. `RemoteInv` is
  the same for the other player, unless a Snapshot is due.
- `AckInv`: no ack is ahead of the session, and a client that is in step, or will
  be with a Snapshot on its way, is still to hear an ack of all that is processed
  or has nothing in its buffer that is. An ack that carries 0 does no harm,
  because the one before it has been heard or is still on its way.
- `AheadInv`: in the first session the buffer has all numbers from at most the next
  to be processed on, so its size bounds how far a Move is ahead.

### WorldParts

The component modules have their hypotheses as definitions (`IntakeConstants`,
`TtlsAreNumbers`, `NpcConstants`, `PredictionConstants`), and their theorems the form
ASSUME hypotheses PROVE `Spec => ...`. `WorldParts_proofs` instantiates them, and proves those
of ChallengeLogin and SnapshotText about the instances `Login` and `Text`: a step of
WorldParts is a step of a component or leaves its variables as they are, its
initial states are theirs, and `PartsAssumption` gives the hypotheses.

### How recursion is treated

The provers cannot instantiate the induction theorems of the library. Where a
sum or a fold is involved, the proofs use that a set of numbers that is not empty
has a smallest element (`SmallestNumber`, from the well-foundedness of `<`): the
set of lengths for which a statement fails has none, so it is empty. In this way
the recursive functions `total`, `frames`, `afterInputs`, `demux` and the loop of
`handleInboundFrames` are shown to exist and to satisfy their equations. `ascending`
is a CHOOSE: that every finite set of numbers can be listed is shown by leaving the
smallest element out of a smallest set that cannot (`ListExists`).

### Only model-checked

- Liveness: `LostSocketEndsSession`, `ResyncEnds` and `ReconnectEnds`. Fairness is out of
  the prover's reach.
- The disagreements of the six violation runs: counterexamples, not theorems.
- Which Snapshots end the need for one in TransportShell: `needsAfter` is a fold,
  and the proofs use only that it is true or false. `ReconnectEnds` and the runs of
  UpdateStream are about that.

## 5. Plan

Every safety and action property that a run checks is proved. What could be added:

1. A composition of TransportShell and UpdateStream, so that frames cut by reads and
   update numbers meet in one state, for one client and few updates;
   the two invariants, `Pipeline` and `StreamInv`, would be conjuncts of its own.
2. The hazards that no property covers, each listed in `PROJECT.json` with the reason.

## 6. Not modelled

- The admin process, its lockout and its sessions: handlers on the threads of the
  HTTP library share maps and one database connection without a lock. One store
  by itself is a few lines; what is hard is a data race on library containers,
  whose outcomes a model would have to invent. The failure counts of seed-auth
  are shared in the same way.
- The identity alias store and the player progression store: single statements,
  and nothing outside the tests writes an alias or calls the progression store.
- Registration with seed-auth: the UNIQUE constraint of the table decides it.
- The layout of headers and the wording of errors; combat event payloads; the
  opposition of ether attributes, buffs and level arithmetic (floating point);
  interpolation of remote poses over time.
- Start-up wiring and the legacy data file classes: input and output without
  control of their own.
- A Disconnect whose answer finds the outbound queue full: `TransportShell` has
  the case (the session ends, the connection stays, the client is not told), but
  no deadline of the client covers it and no property is stated.
