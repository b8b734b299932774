----------------------------- MODULE WorldFrame -----------------------------
(***************************************************************************)
(* From an accepted command to the world: the WorldInputQueue with its     *)
(* client input sequences and request ids, the frame that WorldInputTick   *)
(* takes from it, WorldFrameApplier::apply and Field::processInputs with   *)
(* its two passes and its rollback.                                        *)
(*                                                                         *)
(* Sessions come and go as in SessionPresence: a session is bound to its   *)
(* player, is evicted by a newer one of the same player (it stays active   *)
(* but is not on the Field), or has ended.                                 *)
(***************************************************************************)
EXTENDS WorldInputs, SequencesExt, FiniteSetsExt

CONSTANTS
  MaxAhead,     \* MAX_CLIENT_INPUT_AHEAD
  MaxPending,   \* MAX_PENDING_INPUTS
  MaxTick       \* bound of the model: the number of frames

ASSUME FrameAssumption == MaxAhead \in Nat /\ MaxPending \in Nat /\ MaxTick \in Nat

VARIABLES
  session,            \* "new", "bound", "evicted" or "ended"
  lastAccepted,       \* ClientInputSequenceTracker::lastAccepted, 0 for none
  acceptedRequests,   \* acceptedCombatRequests
  pending,            \* the queued inputs
  tick,               \* WorldInputTick's world tick
  stage,              \* "collect" commands, or "apply" the second pass
  frame,              \* the inputs still to be applied in the second pass
  world,              \* players, ether and cooldowns
  before,             \* the copies processInputs restores; between frames, world
  taken,              \* the whole frame the second pass works on
  lastProcessed       \* WorldFrameApplier::lastProcessedBySession

sessionVars == <<session>>
queueVars == <<lastAccepted, acceptedRequests, pending>>
passVars == <<tick, stage, frame, world, before, taken, lastProcessed>>
vars == <<session, lastAccepted, acceptedRequests, pending, tick, stage, frame,
          world, before, taken, lastProcessed>>

TypeOK ==
  /\ session \in [Sessions -> {"new", "bound", "evicted", "ended"}]
  /\ lastAccepted \in [Sessions -> 0..MaxSeq]
  /\ acceptedRequests \subseteq Sessions \X Requests
  /\ pending \in Seq(Input) /\ Len(pending) <= MaxPending
  /\ tick \in 0..MaxTick
  /\ stage \in {"collect", "apply"}
  /\ frame \in Seq(Input) /\ taken \in Seq(Input)
  /\ world \in World /\ before \in World
  /\ lastProcessed \in [Sessions -> 0..MaxSeq]

Init ==
  /\ session = [s \in Sessions |-> "new"]
  /\ lastAccepted = [s \in Sessions |-> 0]
  /\ acceptedRequests = {}
  /\ pending = <<>>
  /\ tick = 0
  /\ stage = "collect"
  /\ frame = <<>> /\ taken = <<>>
  /\ world = InitialWorld /\ before = InitialWorld
  /\ lastProcessed = [s \in Sessions |-> 0]

-----------------------------------------------------------------------------
(* Sessions *)

\* The registry accepts the commands of an active session.
isActive(s) == session[s] \in {"bound", "evicted"}

\* Field::hasPlayer for a session id.
hasPlayer(s) == session[s] = "bound"

Login(s) ==
  /\ stage = "collect"
  /\ session[s] = "new"
  /\ session' = [t \in Sessions |->
                   CASE t = s -> "bound"
                     [] t # s /\ PlayerOf[t] = PlayerOf[s] /\ session[t] = "bound" -> "evicted"
                     [] OTHER -> session[t]]
  /\ UNCHANGED <<queueVars, passVars>>

\* A Disconnect, or the removal of a closed client: what the session has
\* queued stays in the queue.
Logout(s) ==
  /\ stage = "collect"
  /\ isActive(s)
  /\ session' = [session EXCEPT ![s] = "ended"]
  /\ UNCHANGED <<queueVars, passVars>>

-----------------------------------------------------------------------------
(* WorldInputQueue *)

\* Mutant of admit: only the latest sequence counts as repeated.
admit_notLatest(s, q) == q # lastAccepted[s] /\ q - lastAccepted[s] <= MaxAhead

\* ClientInputSequenceTracker::admit.
admit(s, q) == q > lastAccepted[s] /\ q - lastAccepted[s] <= MaxAhead

\* Mutant of Move: the size of the queue is not checked.
Move_unbounded(s, q, d) ==
  /\ stage = "collect"
  /\ isActive(s)
  /\ q # 0 => admit(s, q)
  /\ pending' = Append(pending, [kind |-> "move", session |-> s, seq |-> q, delta |-> d])
  /\ lastAccepted' = IF q = 0 THEN lastAccepted ELSE [lastAccepted EXCEPT ![s] = q]
  /\ UNCHANGED <<sessionVars, acceptedRequests, passVars>>

\* An accepted Move; 0 stands for a Move without a client input sequence.
Move(s, q, d) ==
  /\ stage = "collect"
  /\ isActive(s)
  /\ q # 0 => admit(s, q)
  /\ Len(pending) < MaxPending
  /\ pending' = Append(pending, [kind |-> "move", session |-> s, seq |-> q, delta |-> d])
  /\ lastAccepted' = IF q = 0 THEN lastAccepted ELSE [lastAccepted EXCEPT ![s] = q]
  /\ UNCHANGED <<sessionVars, acceptedRequests, passVars>>

\* Mutant of Hit: a request id is looked for among the pending inputs only.
Hit_amongPending(kind, s, target, r, power) ==
  /\ stage = "collect"
  /\ isActive(s)
  /\ Len(pending) < MaxPending
  /\ \A n \in 1..Len(pending) :
       pending[n].kind # "move" => <<pending[n].session, pending[n].request>> # <<s, r>>
  /\ pending' = Append(pending, [kind |-> kind, session |-> s, target |-> target,
                                 request |-> r, power |-> power])
  /\ UNCHANGED <<sessionVars, lastAccepted, acceptedRequests, passVars>>

\* An accepted Attack or CastSpell.
Hit(kind, s, target, r, power) ==
  /\ stage = "collect"
  /\ isActive(s)
  /\ Len(pending) < MaxPending
  /\ <<s, r>> \notin acceptedRequests
  /\ pending' = Append(pending, [kind |-> kind, session |-> s, target |-> target,
                                 request |-> r, power |-> power])
  /\ acceptedRequests' = acceptedRequests \cup {<<s, r>>}
  /\ UNCHANGED <<sessionVars, lastAccepted, passVars>>

-----------------------------------------------------------------------------
(* WorldFrameApplier::apply and Field::processInputs *)

earlier(f, n, kind) ==
  {m \in 1..(n - 1) : f[m].kind = kind /\ f[m].session = f[n].session}

\* The position the first pass projects for the player of the n-th input.
projectedPosition(f, n) ==
  world.pos[PlayerOf[f[n].session]] + MapThenSumSet(LAMBDA m : f[m].delta, earlier(f, n, "move"))

\* The first pass, over the world as it is before the frame: only moves,
\* cooldowns and MP are projected.
validInput(f, n, now) ==
  LET i == f[n] IN
  /\ hasPlayer(i.session)
  /\ i.kind = "move" => integrateMovement(projectedPosition(f, n), i.delta)
  /\ i.kind # "move" => validateCombat(world, i)
  /\ i.kind = "attack" => /\ now >= world.nextAttackTick[i.session]
                          /\ earlier(f, n, "attack") = {}
  /\ i.kind = "spell" => /\ now >= world.nextSpellTick[i.session]
                         /\ earlier(f, n, "spell") = {}
                         /\ world.mp[PlayerOf[i.session]] >= spellMpCost(i.power)

validFrame(f, now) == \A n \in 1..Len(f) : validInput(f, n, now)

\* advanceFrame and the first pass.  A frame with an invalid input is dropped
\* as a whole.
TakeFrame ==
  /\ stage = "collect"
  /\ tick < MaxTick
  /\ tick' = tick + 1
  /\ pending' = <<>>
  /\ IF validFrame(pending, tick + 1)
       THEN stage' = "apply" /\ frame' = pending /\ taken' = pending /\ before' = world
       ELSE UNCHANGED <<stage, frame, taken, before>>
  /\ UNCHANGED <<sessionVars, lastAccepted, acceptedRequests, world, lastProcessed>>

\* The second pass, one input.
ApplyInput ==
  /\ stage = "apply"
  /\ frame # <<>>
  /\ canApply(world, Head(frame))
  /\ world' = applyInput(world, Head(frame), tick)
  /\ frame' = Tail(frame)
  /\ UNCHANGED <<sessionVars, queueVars, tick, stage, before, taken, lastProcessed>>

\* Mutant of Rollback: the cooldowns are not restored.
Rollback_keepCooldowns ==
  /\ stage = "apply"
  /\ frame # <<>>
  /\ ~canApply(world, Head(frame))
  /\ world' = [before EXCEPT !.nextAttackTick = world.nextAttackTick,
                             !.nextSpellTick = world.nextSpellTick]
  /\ stage' = "collect"
  /\ frame' = <<>> /\ taken' = <<>>
  /\ UNCHANGED <<sessionVars, queueVars, tick, before, lastProcessed>>

\* An input fails although the first pass let it through: the target has died,
\* somebody has moved out of reach or the damage is below one.
Rollback ==
  /\ stage = "apply"
  /\ frame # <<>>
  /\ ~canApply(world, Head(frame))
  /\ world' = before
  /\ stage' = "collect"
  /\ frame' = <<>> /\ taken' = <<>>
  /\ UNCHANGED <<sessionVars, queueVars, tick, before, lastProcessed>>

\* The highest client input sequence of s in the frame, at least n.
highest(f, s, n) ==
  Max({n} \cup {f[m].seq : m \in {k \in 1..Len(f) : f[k].kind = "move" /\ f[k].session = s}})

\* The whole frame is applied: the ether decays and the acks are recorded.
Commit ==
  /\ stage = "apply"
  /\ frame = <<>>
  /\ world' = decay(world) /\ before' = decay(world)
  /\ lastProcessed' = [s \in Sessions |-> highest(taken, s, lastProcessed[s])]
  /\ stage' = "collect"
  /\ taken' = <<>>
  /\ UNCHANGED <<sessionVars, queueVars, tick, frame>>

Next ==
  \/ TakeFrame \/ ApplyInput \/ Rollback \/ Commit
  \/ \E s \in Sessions :
       \/ Login(s) \/ Logout(s)
       \/ \E q \in 0..MaxSeq, d \in {-1, 1} : Move(s, q, d)
       \/ \E kind \in {"attack", "spell"}, p \in Targets, r \in Requests, power \in Powers :
            Hit(kind, s, p, r, power)

Spec == Init /\ [][Next]_vars

-----------------------------------------------------------------------------
(* Properties *)

\* The detailed frame implements the atomic one: whatever fails in which pass,
\* the world is that of the frame before or that of all inputs applied in order.
Atomic == INSTANCE AtomicWorld
            WITH world <- before, open <- stage = "apply", inputs <- taken
ImplementsAtomicWorld == Atomic!Spec /\ [](stage = "collect" => world = before)

\* A client input sequence takes effect at most once and in order, however the
\* client repeats, reorders or skips it and whichever frames are dropped; and
\* between frames the server has acknowledged exactly the latest that did.
MovesInOrder ==
  \A s \in Sessions :
    LET m == world.moves[s] IN
    /\ \A i, j \in 1..Len(m) : i < j => m[i] < m[j]
    /\ stage = "collect" => lastProcessed[s] = (IF m = <<>> THEN 0 ELSE Last(m))
    /\ lastProcessed[s] <= lastAccepted[s]

\* An attack or spell request takes effect at most once, also when the client
\* repeats it after a frame that was dropped or rolled back.
RequestsOnce ==
  \A s \in Sessions, r \in Requests : world.hits[<<s, r>>] <= 1

\* A sequenced Move that the server accepted from a session that is still on
\* the Field is applied on the world tick that follows.
AcceptedMovesApplied ==
  (stage = "collect" /\ pending = <<>>) =>
    \A s \in Sessions : hasPlayer(s) => lastProcessed[s] = lastAccepted[s]
=============================================================================
