---------------------------- MODULE WorldInputs ----------------------------
(***************************************************************************)
(* The inputs of a world frame and what Field::processInputs makes of one. *)
(* Positions are on a line.  Powers are counted in hundredths; a damage is *)
(* a power cut to an integer.  All spells are of one element, so the ether *)
(* is one level, in thousandths.                                           *)
(***************************************************************************)
EXTENDS Integers, Sequences

CONSTANTS
  Sessions, Players,
  PlayerOf,         \* the player that a login of the session binds it to
  Requests,         \* request ids of attacks and spells
  Powers,           \* the powers of attacks and spells, in hundredths
  Targets,          \* the players that are attacked
  MaxSeq,           \* the largest client input sequence a client sends
  MaxCoordinate,    \* MAX_WORLD_COORDINATE
  MaxRange,         \* the reach of attacks and spells
  MaxHp, MaxMp,     \* what a player is placed with
  MaxEther          \* MAX_ETHER_VALUE, in thousandths

ASSUME InputsAssumption ==
  /\ PlayerOf \in [Sessions -> Players]
  /\ Targets \subseteq Players
  /\ Powers \subseteq Nat \ {0}
  /\ \A n \in {MaxSeq, MaxCoordinate, MaxRange, MaxHp, MaxMp, MaxEther} : n \in Nat

kAttackCooldownTicks == 1
kSpellCooldownTicks == 2
spellMpCost(power) == (power + 999) \div 1000    \* a tenth, rounded up

MoveInput == [kind : {"move"}, session : Sessions, seq : 0..MaxSeq, delta : {-1, 1}]
HitInput == [kind : {"attack", "spell"}, session : Sessions, target : Targets,
             request : Requests, power : Powers]
Input == MoveInput \cup HitInput

\* What processInputs saves and restores.  moves and hits are history: the
\* client input sequences and the requests whose effect is in this state.
World == [pos : [Players -> -MaxCoordinate..MaxCoordinate],
          hp : [Players -> 0..MaxHp],
          mp : [Players -> 0..MaxMp],
          nextAttackTick : [Sessions -> Nat],
          nextSpellTick : [Sessions -> Nat],
          ether : 0..MaxEther,
          moves : [Sessions -> Seq(0..MaxSeq)],
          hits : [Sessions \X Requests -> Nat]]

InitialWorld ==
  [pos |-> [p \in Players |-> 0], hp |-> [p \in Players |-> MaxHp],
   mp |-> [p \in Players |-> MaxMp],
   nextAttackTick |-> [s \in Sessions |-> 0], nextSpellTick |-> [s \in Sessions |-> 0],
   ether |-> 0, moves |-> [s \in Sessions |-> <<>>],
   hits |-> [sr \in Sessions \X Requests |-> 0]]

integrateMovement(x, d) == x + d \in -MaxCoordinate..MaxCoordinate

\* 1 + min(ether / 100, 1), in hundredths of a thousandth.
conductivity(w) == 100000 + (IF w.ether < 100000 THEN w.ether ELSE 100000)
damage(w, i) ==
  IF i.kind = "spell" THEN (i.power * conductivity(w)) \div 10000000 ELSE i.power \div 100

inReach(w, p, q) == w.pos[p] - w.pos[q] \in -MaxRange..MaxRange

\* validateCombat and validateSpell, for an attacker on the Field.
validateCombat(w, i) ==
  /\ w.hp[i.target] > 0
  /\ inReach(w, PlayerOf[i.session], i.target)

\* Whether processInputs can apply i to w in its second pass.
canApply(w, i) ==
  IF i.kind = "move" THEN integrateMovement(w.pos[PlayerOf[i.session]], i.delta)
  ELSE validateCombat(w, i) /\ damage(w, i) > 0

lowered(n, by) == IF n < by THEN 0 ELSE n - by

applyMovement(w, i) ==
  [w EXCEPT !.pos[PlayerOf[i.session]] = @ + i.delta,
            !.moves[i.session] = IF i.seq = 0 THEN @ ELSE Append(@, i.seq)]

applyCombat(w, i, tick) ==
  [w EXCEPT !.hp[i.target] = lowered(@, damage(w, i)),
            !.nextAttackTick[i.session] = tick + kAttackCooldownTicks,
            !.hits[<<i.session, i.request>>] = @ + 1]

\* A tenth of the power goes into the ether, after it has told the damage.
applySpell(w, i, tick) ==
  [w EXCEPT !.hp[i.target] = lowered(@, damage(w, i)),
            !.mp[PlayerOf[i.session]] = lowered(@, spellMpCost(i.power)),
            !.nextSpellTick[i.session] = tick + kSpellCooldownTicks,
            !.ether = IF @ + i.power > MaxEther THEN MaxEther ELSE @ + i.power,
            !.hits[<<i.session, i.request>>] = @ + 1]

applyInput(w, i, tick) ==
  CASE i.kind = "move" -> applyMovement(w, i)
    [] i.kind = "attack" -> applyCombat(w, i, tick)
    [] i.kind = "spell" -> applySpell(w, i, tick)

\* The ether decays at the end of a frame that was applied.
decay(w) == [w EXCEPT !.ether = (@ * 98) \div 100]
=============================================================================
