-------------------------- MODULE WorldFrame_proofs --------------------------
(***************************************************************************)
(* Proofs about WorldFrame, for any sessions, players, requests and powers *)
(* and queues and frames of any length.                                    *)
(***************************************************************************)
EXTENDS WorldFrame, SequenceTheorems, WellFoundedInduction, TLAPS

-----------------------------------------------------------------------------
(* What applying one input does to the world *)

\* The kinds of inputs and their fields.
LEMMA InputFields ==
  ASSUME NEW i \in Input
  PROVE  /\ i.kind \in {"move", "attack", "spell"}
         /\ i.session \in Sessions /\ PlayerOf[i.session] \in Players
         /\ i.kind = "move" => i.seq \in 0..MaxSeq /\ i.delta \in {-1, 1}
         /\ i.kind # "move" => /\ i.target \in Players /\ i.request \in Requests
                               /\ i.power \in Nat /\ i.power > 0
<1>1. CASE i \in MoveInput
  <2>1. i.kind = "move" /\ i.session \in Sessions /\ i.seq \in 0..MaxSeq /\ i.delta \in {-1, 1}
    BY <1>1 DEF MoveInput
  <2>2. QED
    BY <2>1, InputsAssumption
<1>2. CASE i \in HitInput
  <2>1. /\ i.kind \in {"attack", "spell"} /\ i.session \in Sessions /\ i.target \in Targets
        /\ i.request \in Requests /\ i.power \in Powers
    BY <1>2 DEF HitInput
  <2>2. i.target \in Players /\ i.power \in Nat /\ i.power > 0 /\ PlayerOf[i.session] \in Players
    <3>1. Powers \subseteq Nat \ {0} /\ Targets \subseteq Players /\ PlayerOf \in [Sessions -> Players]
      BY InputsAssumption
    <3>2. i.power \in Nat /\ i.power # 0
      BY <2>1, <3>1
    <3>3. QED
      BY <2>1, <3>1, <3>2
  <2>3. QED
    BY <2>1, <2>2
<1>3. QED
  BY <1>1, <1>2 DEF Input

\* A world by its fields.
LEMMA WorldFields ==
  ASSUME NEW w \in World
  PROVE  /\ w.pos \in [Players -> -MaxCoordinate..MaxCoordinate]
         /\ w.hp \in [Players -> 0..MaxHp] /\ w.mp \in [Players -> 0..MaxMp]
         /\ w.nextAttackTick \in [Sessions -> Nat] /\ w.nextSpellTick \in [Sessions -> Nat]
         /\ w.ether \in 0..MaxEther
         /\ w.moves \in [Sessions -> Seq(0..MaxSeq)]
         /\ w.hits \in [Sessions \X Requests -> Nat]
  BY DEF World

\* Lowering a value by a natural number keeps it within its bound.
LEMMA LoweredInRange ==
  ASSUME NEW high \in Nat, NEW n \in 0..high, NEW by \in Nat
  PROVE  lowered(n, by) \in 0..high
  BY DEF lowered

\* The damage of a hit and the cost of a spell are natural numbers.
LEMMA DamageIsNatural ==
  ASSUME NEW w \in World, NEW i \in Input, i.kind # "move"
  PROVE  damage(w, i) \in Nat /\ spellMpCost(i.power) \in Nat
<1>1. i.power \in Nat /\ w.ether \in Nat
  BY InputFields, WorldFields, InputsAssumption
<1>2. spellMpCost(i.power) \in Nat
  <2>1. i.power + 999 \in Nat
    BY <1>1
  <2>2. QED
    BY <2>1 DEF spellMpCost
<1>3. conductivity(w) \in Nat
  BY <1>1 DEF conductivity
<1>4. i.power * conductivity(w) \in Nat
  BY <1>1, <1>3
<1>5. (i.power * conductivity(w)) \div 10000000 \in Nat /\ i.power \div 100 \in Nat
  <2> DEFINE n == i.power * conductivity(w)
             p == i.power
  <2>1. n \in Nat /\ p \in Nat
    BY <1>1, <1>4
  <2> HIDE DEF n, p
  <2>2. n \div 10000000 \in Nat /\ p \div 100 \in Nat
    BY <2>1
  <2>3. QED
    BY <2>2 DEF n, p
<1>6. QED
  BY <1>2, <1>5 DEF damage

\* A move changes a position and the history of moves.
LEMMA MoveEffect ==
  ASSUME NEW w \in World, NEW i \in Input, NEW now, i.kind = "move", canApply(w, i)
  PROVE  LET v == applyInput(w, i, now) IN
         /\ v \in World
         /\ v.moves = [w.moves EXCEPT ![i.session] = IF i.seq = 0 THEN @ ELSE Append(@, i.seq)]
         /\ v.hits = w.hits
<1> DEFINE s == i.session
           p == PlayerOf[s]
           pos == [w.pos EXCEPT ![p] = @ + i.delta]
           moves == [w.moves EXCEPT ![s] = IF i.seq = 0 THEN @ ELSE Append(@, i.seq)]
<1>1. s \in Sessions /\ p \in Players /\ i.seq \in 0..MaxSeq
  BY InputFields
<1>2. pos \in [Players -> -MaxCoordinate..MaxCoordinate]
  <2>1. w.pos[p] + i.delta \in -MaxCoordinate..MaxCoordinate
    BY DEF canApply, integrateMovement
  <2>2. QED
    BY <1>1, <2>1, WorldFields
<1>3. moves \in [Sessions -> Seq(0..MaxSeq)]
  <2>1. w.moves[s] \in Seq(0..MaxSeq) /\ w.moves \in [Sessions -> Seq(0..MaxSeq)]
    BY <1>1, WorldFields
  <2>2. Append(w.moves[s], i.seq) \in Seq(0..MaxSeq)
    BY <1>1, <2>1, AppendProperties
  <2>3. QED
    BY <2>1, <2>2
<1>4. applyInput(w, i, now) = [w EXCEPT !.pos = pos, !.moves = moves]
  <2>1. applyInput(w, i, now) = applyMovement(w, i)
    BY DEF applyInput
  <2>2. QED
    BY <2>1 DEF applyMovement
<1> HIDE DEF pos, moves
<1>5. [w EXCEPT !.pos = pos, !.moves = moves] \in World
  BY <1>2, <1>3 DEF World
<1>6. [w EXCEPT !.pos = pos, !.moves = moves].moves = moves /\ [w EXCEPT !.pos = pos, !.moves = moves].hits = w.hits
  BY DEF World
<1>7. QED
  BY <1>4, <1>5, <1>6 DEF moves

\* An attack or a spell is added to the history of hits.
LEMMA HitEffect ==
  ASSUME NEW w \in World, NEW i \in Input, NEW now \in Nat, i.kind # "move"
  PROVE  LET v == applyInput(w, i, now) IN
         /\ v \in World
         /\ v.moves = w.moves
         /\ v.hits = [w.hits EXCEPT ![<<i.session, i.request>>] = @ + 1]
<1> DEFINE s == i.session
           sr == <<s, i.request>>
           hp == [w.hp EXCEPT ![i.target] = lowered(@, damage(w, i))]
           hits == [w.hits EXCEPT ![sr] = @ + 1]
<1>1. /\ s \in Sessions /\ PlayerOf[s] \in Players /\ i.target \in Players /\ sr \in Sessions \X Requests
      /\ i.power \in Nat /\ i.kind \in {"attack", "spell"}
      /\ damage(w, i) \in Nat /\ spellMpCost(i.power) \in Nat
  BY InputFields, DamageIsNatural
<1>2. MaxHp \in Nat /\ MaxMp \in Nat /\ MaxEther \in Nat
  BY InputsAssumption
<1>3. hp \in [Players -> 0..MaxHp]
  <2>1. lowered(w.hp[i.target], damage(w, i)) \in 0..MaxHp /\ w.hp \in [Players -> 0..MaxHp]
    BY <1>1, <1>2, WorldFields, LoweredInRange
  <2>2. QED
    BY <2>1
<1>4. hits \in [Sessions \X Requests -> Nat]
  <2>1. w.hits \in [Sessions \X Requests -> Nat]
    BY WorldFields
  <2>2. w.hits[sr] + 1 \in Nat
    BY <1>1, <2>1
  <2>3. QED
    BY <2>1, <2>2
<1>5. CASE i.kind = "attack"
  <2> DEFINE next == [w.nextAttackTick EXCEPT ![s] = now + kAttackCooldownTicks]
             v == [w EXCEPT !.hp = hp, !.nextAttackTick = next, !.hits = hits]
  <2>1. next \in [Sessions -> Nat]
    BY <1>1, WorldFields DEF kAttackCooldownTicks
  <2>2. applyInput(w, i, now) = v
    <3>1. applyInput(w, i, now) = applyCombat(w, i, now)
      BY <1>5 DEF applyInput
    <3>2. QED
      BY <3>1 DEF applyCombat
  <2> HIDE DEF hp, hits, next
  <2>3. v \in World
    BY <1>3, <1>4, <2>1 DEF World
  <2>4. v.moves = w.moves /\ v.hits = hits
    BY DEF World
  <2>5. QED
    BY <2>2, <2>3, <2>4 DEF hits
<1>6. CASE i.kind = "spell"
  <2> DEFINE mp == [w.mp EXCEPT ![PlayerOf[s]] = lowered(@, spellMpCost(i.power))]
             next == [w.nextSpellTick EXCEPT ![s] = now + kSpellCooldownTicks]
             ether == IF w.ether + i.power > MaxEther THEN MaxEther ELSE w.ether + i.power
             v == [w EXCEPT !.hp = hp, !.mp = mp, !.nextSpellTick = next, !.ether = ether, !.hits = hits]
  <2>1. next \in [Sessions -> Nat]
    BY <1>1, WorldFields DEF kSpellCooldownTicks
  <2>2. mp \in [Players -> 0..MaxMp]
    <3>1. lowered(w.mp[PlayerOf[s]], spellMpCost(i.power)) \in 0..MaxMp /\ w.mp \in [Players -> 0..MaxMp]
      BY <1>1, <1>2, WorldFields, LoweredInRange
    <3>2. QED
      BY <3>1
  <2>3. ether \in 0..MaxEther
    <3>1. w.ether \in 0..MaxEther
      BY WorldFields
    <3>2. QED
      BY <1>1, <1>2, <3>1
  <2>4. applyInput(w, i, now) = v
    <3>1. applyInput(w, i, now) = applySpell(w, i, now)
      BY <1>6 DEF applyInput
    <3>2. QED
      BY <3>1 DEF applySpell
  <2> HIDE DEF hp, hits, next, mp, ether
  <2>5. v \in World
    BY <1>3, <1>4, <2>1, <2>2, <2>3 DEF World
  <2>6. v.moves = w.moves /\ v.hits = hits
    BY DEF World
  <2>7. QED
    BY <2>4, <2>5, <2>6 DEF hits
<1>7. QED
  BY <1>1, <1>5, <1>6

\* Decay changes the ether only.
LEMMA DecayEffect ==
  ASSUME NEW w \in World
  PROVE  decay(w) \in World /\ decay(w).moves = w.moves /\ decay(w).hits = w.hits
<1> DEFINE e == (w.ether * 98) \div 100
<1>1. e \in 0..MaxEther
  <2>1. w.ether \in 0..MaxEther /\ MaxEther \in Nat
    BY WorldFields, InputsAssumption
  <2>2. QED
    BY <2>1
<1>2. decay(w) = [w EXCEPT !.ether = e]
  BY DEF decay
<1> HIDE DEF e
<1>3. QED
  BY <1>1, <1>2 DEF World

-----------------------------------------------------------------------------
(* The inductive invariant *)

\* The inputs that can still take effect.
queue == IF stage = "collect" THEN pending ELSE frame

\* Between frames nothing is left of the last one; during a frame nothing is
\* pending, and the inputs still to be applied are the end of those taken.
FrameShape ==
  /\ stage = "collect" => frame = <<>> /\ taken = <<>> /\ world = before
  /\ stage = "apply" => pending = <<>>
  /\ Len(frame) <= Len(taken)
  /\ \A i \in 1..Len(frame) : frame[i] = taken[(Len(taken) - Len(frame)) + i]

lastOf(m) == IF m = <<>> THEN 0 ELSE Last(m)
ascending(m) == \A i, j \in 1..Len(m) : i < j => m[i] < m[j]
sequenced(i, s) == i.kind = "move" /\ i.session = s /\ i.seq # 0

\* The sequenced moves of s in q come after those in m, in order, up to high.
MovesWait(q, m, s, high) ==
  /\ \A i \in 1..Len(q) : sequenced(q[i], s) => lastOf(m) < q[i].seq /\ q[i].seq <= high
  /\ \A i, j \in 1..Len(q) : sequenced(q[i], s) /\ sequenced(q[j], s) /\ i < j => q[i].seq < q[j].seq

\* The sequences of s that the frame has applied so far, and the last ack.
appliedOf(s) ==
  {lastProcessed[s]} \cup
    {taken[k].seq : k \in {n \in 1..(Len(taken) - Len(frame)) : taken[n].kind = "move" /\ taken[n].session = s}}

MovesInv ==
  \A s \in Sessions :
    /\ MovesWait(queue, world.moves[s], s, lastAccepted[s])
    /\ ascending(world.moves[s]) /\ ascending(before.moves[s])
    /\ lastOf(before.moves[s]) = lastProcessed[s] /\ lastProcessed[s] <= lastAccepted[s]
    /\ lastOf(world.moves[s]) <= lastAccepted[s]
    /\ lastOf(world.moves[s]) \in appliedOf(s)
    /\ \A q \in appliedOf(s) : q <= lastOf(world.moves[s])

requestOf(i) == <<i.session, i.request>>

\* The hits in q are of accepted requests, each once and without effect so far.
HitsWait(q, hits, accepted) ==
  \A i \in 1..Len(q) : q[i].kind # "move" =>
    /\ requestOf(q[i]) \in accepted /\ hits[requestOf(q[i])] = 0
    /\ \A j \in 1..Len(q) : q[j].kind # "move" /\ requestOf(q[j]) = requestOf(q[i]) => i = j

\* An effect is of an accepted request, and the only one.
HitOnce(hits, accepted) ==
  \A sr \in Sessions \X Requests : hits[sr] <= 1 /\ (hits[sr] > 0 => sr \in accepted)

HitsInv ==
  /\ HitsWait(queue, world.hits, acceptedRequests)
  /\ HitOnce(world.hits, acceptedRequests) /\ HitOnce(before.hits, acceptedRequests)

FrameInv == TypeOK /\ FrameShape /\ MovesInv /\ HitsInv

-----------------------------------------------------------------------------
(* Sequences of moves and inputs *)

\* The last of a history of moves is a sequence number.
LEMMA LastOfMoves ==
  ASSUME NEW m \in Seq(0..MaxSeq)
  PROVE  /\ lastOf(m) \in 0..MaxSeq
         /\ \A i \in 1..Len(m) : ascending(m) => m[i] <= lastOf(m)
<1>1. Len(m) \in Nat /\ MaxSeq \in Nat
  BY LenProperties, InputsAssumption
<1>2. CASE m = <<>>
  BY <1>1, <1>2 DEF lastOf
<1>3. CASE m # <<>>
  <2>1. Len(m) \in 1..Len(m) /\ lastOf(m) = m[Len(m)]
    BY <1>1, <1>3, EmptySeq DEF lastOf, Last
  <2>2. lastOf(m) \in 0..MaxSeq
    BY <2>1, ElementOfSeq
  <2>3. ASSUME NEW i \in 1..Len(m), ascending(m)
        PROVE  m[i] <= lastOf(m)
    <3>1. CASE i = Len(m)
      BY <2>1, <2>2, <3>1
    <3>2. CASE i # Len(m)
      <4>1. i < Len(m)
        BY <1>1, <3>2
      <4>2. m[i] < m[Len(m)] /\ m[i] \in 0..MaxSeq
        BY <2>1, <2>3, <4>1, ElementOfSeq DEF ascending
      <4>3. QED
        BY <1>1, <2>1, <2>2, <4>2
    <3>3. QED
      BY <3>1, <3>2
  <2>4. QED
    BY <2>2, <2>3
<1>4. QED
  BY <1>2, <1>3

\* A larger sequence number goes behind a history of moves.
LEMMA AppendMove ==
  ASSUME NEW m \in Seq(0..MaxSeq), NEW q \in 0..MaxSeq, ascending(m), lastOf(m) < q
  PROVE  ascending(Append(m, q)) /\ lastOf(Append(m, q)) = q
<1> DEFINE a == Append(m, q)
<1>1. /\ a \in Seq(0..MaxSeq) /\ Len(a) = Len(m) + 1 /\ a[Len(m) + 1] = q
      /\ \A i \in 1..Len(m) : a[i] = m[i]
  BY AppendProperties
<1>2. Len(m) \in Nat /\ MaxSeq \in Nat
  BY LenProperties, InputsAssumption
<1> HIDE DEF a
<1>3. lastOf(a) = q
  <2>1. a # <<>>
    BY <1>1, <1>2
  <2>2. QED
    BY <1>1, <2>1 DEF lastOf, Last
<1>4. ASSUME NEW i \in 1..Len(a), NEW j \in 1..Len(a), i < j
      PROVE  a[i] < a[j]
  <2>1. i \in 1..Len(m) /\ a[i] = m[i] /\ m[i] <= lastOf(m)
    <3>1. i \in 1..Len(m)
      BY <1>1, <1>2, <1>4
    <3>2. QED
      BY <1>1, <3>1, LastOfMoves
  <2>2. m[i] \in 0..MaxSeq /\ lastOf(m) \in 0..MaxSeq
    BY <2>1, ElementOfSeq, LastOfMoves
  <2>3. CASE j = Len(m) + 1
    BY <1>1, <1>2, <2>1, <2>2, <2>3
  <2>4. CASE j # Len(m) + 1
    <3>1. j \in 1..Len(m) /\ a[j] = m[j]
      BY <1>1, <1>2, <2>4
    <3>2. QED
      BY <1>4, <2>1, <3>1 DEF ascending
  <2>5. QED
    BY <2>3, <2>4
<1>5. QED
  BY <1>3, <1>4 DEF ascending, a

\* Queueing an input.
LEMMA AppendInput ==
  ASSUME NEW q \in Seq(Input), NEW e \in Input
  PROVE  LET a == Append(q, e) IN
         /\ a \in Seq(Input) /\ Len(a) = Len(q) + 1 /\ Len(q) \in Nat
         /\ a[Len(q) + 1] = e
         /\ \A i \in 1..Len(q) : i \in 1..Len(a) /\ a[i] = q[i]
         /\ \A i \in 1..Len(a) : i \in 1..Len(q) \/ i = Len(q) + 1
<1>1. Len(q) \in Nat
  BY LenProperties
<1>2. QED
  BY <1>1, AppendProperties

\* Taking the first input.
LEMMA TailInput ==
  ASSUME NEW q \in Seq(Input), q # <<>>
  PROVE  LET t == Tail(q) IN
         /\ t \in Seq(Input) /\ Len(t) = Len(q) - 1 /\ Len(q) \in Nat /\ Len(q) > 0
         /\ Head(q) = q[1] /\ Head(q) \in Input /\ 1 \in 1..Len(q)
         /\ \A i \in 1..Len(t) : i + 1 \in 1..Len(q) /\ t[i] = q[i + 1] /\ t[i] \in Input
<1>1. Len(q) \in Nat /\ Len(q) # 0
  BY LenProperties, EmptySeq
<1>2. /\ Head(q) \in Input /\ Tail(q) \in Seq(Input) /\ Len(Tail(q)) = Len(q) - 1
      /\ \A i \in 1..Len(Tail(q)) : Tail(q)[i] = q[i + 1]
  BY HeadTailProperties
<1>3. Head(q) = q[1]
  OBVIOUS
<1>4. \A i \in 1..Len(Tail(q)) : i + 1 \in 1..Len(q) /\ Tail(q)[i] \in Input
  BY <1>1, <1>2, ElementOfSeq
<1>5. QED
  BY <1>1, <1>2, <1>3, <1>4

-----------------------------------------------------------------------------
(* Queueing and applying keep the order of moves *)

LEMMA AppendKeepsMoves ==
  ASSUME NEW q \in Seq(Input), NEW e \in Input, NEW s \in Sessions, NEW m \in Seq(0..MaxSeq),
         NEW high \in 0..MaxSeq, NEW higher \in 0..MaxSeq, high <= higher,
         MovesWait(q, m, s, high), lastOf(m) <= high,
         sequenced(e, s) => high < e.seq /\ e.seq <= higher
  PROVE  MovesWait(Append(q, e), m, s, higher)
<1> DEFINE a == Append(q, e)
<1>1. /\ Len(a) = Len(q) + 1 /\ Len(q) \in Nat /\ a[Len(q) + 1] = e
      /\ \A i \in 1..Len(q) : a[i] = q[i]
      /\ \A i \in 1..Len(a) : i \in 1..Len(q) \/ i = Len(q) + 1
  BY AppendInput
<1>2. lastOf(m) \in 0..MaxSeq /\ MaxSeq \in Nat
  BY LastOfMoves, InputsAssumption
<1>3. \A i \in 1..Len(q) : q[i] \in Input /\ (sequenced(q[i], s) => q[i].seq \in 0..MaxSeq)
  BY ElementOfSeq, InputFields DEF sequenced
<1>4. sequenced(e, s) => e.seq \in 0..MaxSeq
  BY InputFields DEF sequenced
<1> HIDE DEF a
<1>5. ASSUME NEW i \in 1..Len(a), sequenced(a[i], s)
      PROVE  lastOf(m) < a[i].seq /\ a[i].seq <= higher
  <2>1. CASE i \in 1..Len(q)
    <3>1. lastOf(m) < q[i].seq /\ q[i].seq <= high /\ q[i].seq \in 0..MaxSeq /\ a[i] = q[i]
      BY <1>1, <1>3, <1>5, <2>1 DEF MovesWait
    <3>2. QED
      BY <1>2, <3>1
  <2>2. CASE i = Len(q) + 1
    BY <1>1, <1>2, <1>4, <1>5, <2>2
  <2>3. QED
    BY <1>1, <2>1, <2>2
<1>6. ASSUME NEW i \in 1..Len(a), NEW j \in 1..Len(a), sequenced(a[i], s), sequenced(a[j], s), i < j
      PROVE  a[i].seq < a[j].seq
  <2>1. i \in 1..Len(q) /\ a[i] = q[i]
    BY <1>1, <1>6
  <2>2. CASE j \in 1..Len(q)
    BY <1>1, <1>6, <2>1, <2>2 DEF MovesWait
  <2>3. CASE j = Len(q) + 1
    <3>1. q[i].seq <= high /\ q[i].seq \in 0..MaxSeq
      BY <1>3, <1>6, <2>1 DEF MovesWait
    <3>2. QED
      BY <1>1, <1>2, <1>4, <1>6, <2>1, <2>3, <3>1
  <2>4. QED
    BY <1>1, <2>2, <2>3
<1>7. QED
  BY <1>5, <1>6 DEF MovesWait, a

LEMMA TailKeepsMoves ==
  ASSUME NEW q \in Seq(Input), q # <<>>, NEW s \in Sessions, NEW m \in Seq(0..MaxSeq),
         NEW high, MovesWait(q, m, s, high),
         NEW n, n = m \/ (sequenced(Head(q), s) /\ lastOf(n) = Head(q).seq)
  PROVE  MovesWait(Tail(q), n, s, high)
<1> DEFINE t == Tail(q)
<1>1. /\ Len(q) \in Nat /\ Head(q) = q[1] /\ 1 \in 1..Len(q)
      /\ \A i \in 1..Len(t) : i + 1 \in 1..Len(q) /\ t[i] = q[i + 1]
  BY TailInput
<1> HIDE DEF t
<1>2. ASSUME NEW i \in 1..Len(t), sequenced(t[i], s)
      PROVE  lastOf(n) < t[i].seq /\ t[i].seq <= high
  <2>1. i + 1 \in 1..Len(q) /\ t[i] = q[i + 1] /\ 1 < i + 1
    BY <1>1
  <2>2. lastOf(m) < t[i].seq /\ t[i].seq <= high
    BY <1>2, <2>1 DEF MovesWait
  <2>3. CASE sequenced(Head(q), s) /\ lastOf(n) = Head(q).seq
    BY <1>1, <1>2, <2>1, <2>2, <2>3 DEF MovesWait
  <2>4. QED
    BY <2>2, <2>3
<1>3. ASSUME NEW i \in 1..Len(t), NEW j \in 1..Len(t), sequenced(t[i], s), sequenced(t[j], s), i < j
      PROVE  t[i].seq < t[j].seq
  <2>1. i + 1 \in 1..Len(q) /\ t[i] = q[i + 1] /\ j + 1 \in 1..Len(q) /\ t[j] = q[j + 1] /\ i + 1 < j + 1
    BY <1>1, <1>3
  <2>2. QED
    BY <1>3, <2>1 DEF MovesWait
<1>4. QED
  BY <1>2, <1>3 DEF MovesWait, t

-----------------------------------------------------------------------------
(* Queueing and applying keep requests apart *)

LEMMA AppendKeepsHits ==
  ASSUME NEW q \in Seq(Input), NEW e \in Input, NEW hits, NEW accepted, NEW more,
         HitsWait(q, hits, accepted), accepted \subseteq more,
         e.kind # "move" => /\ requestOf(e) \notin accepted /\ requestOf(e) \in more
                            /\ hits[requestOf(e)] = 0
  PROVE  HitsWait(Append(q, e), hits, more)
<1> DEFINE a == Append(q, e)
<1>1. /\ Len(a) = Len(q) + 1 /\ Len(q) \in Nat /\ a[Len(q) + 1] = e
      /\ \A i \in 1..Len(q) : a[i] = q[i]
      /\ \A i \in 1..Len(a) : i \in 1..Len(q) \/ i = Len(q) + 1
  BY AppendInput
<1> HIDE DEF a
<1>2. ASSUME NEW i \in 1..Len(a), a[i].kind # "move"
      PROVE  /\ requestOf(a[i]) \in more /\ hits[requestOf(a[i])] = 0
             /\ i \in 1..Len(q) => requestOf(a[i]) \in accepted
  <2>1. CASE i \in 1..Len(q)
    BY <1>1, <1>2, <2>1 DEF HitsWait
  <2>2. CASE i = Len(q) + 1
    <3>1. a[i] = e /\ i \notin 1..Len(q)
      BY <1>1, <2>2
    <3>2. QED
      BY <1>2, <3>1
  <2>3. QED
    BY <1>1, <2>1, <2>2
<1>3. ASSUME NEW i \in 1..Len(a), NEW j \in 1..Len(a), a[i].kind # "move", a[j].kind # "move",
             requestOf(a[j]) = requestOf(a[i])
      PROVE  i = j
  <2>1. CASE i \in 1..Len(q) /\ j \in 1..Len(q)
    BY <1>1, <1>3, <2>1 DEF HitsWait
  <2>2. CASE i \in 1..Len(q) /\ j = Len(q) + 1
    BY <1>1, <1>2, <1>3, <2>2
  <2>3. CASE j \in 1..Len(q) /\ i = Len(q) + 1
    BY <1>1, <1>2, <1>3, <2>3
  <2>4. QED
    BY <1>1, <2>1, <2>2, <2>3
<1>4. QED
  BY <1>2, <1>3 DEF HitsWait, a

LEMMA TailKeepsHits ==
  ASSUME NEW q \in Seq(Input), q # <<>>, NEW hits, NEW accepted, HitsWait(q, hits, accepted),
         NEW after,
         \A i \in 1..Len(Tail(q)) : Tail(q)[i].kind # "move"
           /\ (Head(q).kind # "move" => requestOf(Tail(q)[i]) # requestOf(Head(q)))
             => after[requestOf(Tail(q)[i])] = hits[requestOf(Tail(q)[i])]
  PROVE  HitsWait(Tail(q), after, accepted)
<1> DEFINE t == Tail(q)
<1>1. /\ Len(q) \in Nat /\ Head(q) = q[1] /\ 1 \in 1..Len(q)
      /\ \A i \in 1..Len(t) : i + 1 \in 1..Len(q) /\ t[i] = q[i + 1]
  BY TailInput
<1>2. ASSUME NEW i \in 1..Len(t), t[i].kind # "move"
      PROVE  requestOf(t[i]) \in accepted /\ after[requestOf(t[i])] = 0
  <2> HIDE DEF t
  <2>1. i + 1 \in 1..Len(q) /\ t[i] = q[i + 1] /\ i + 1 # 1
    BY <1>1
  <2>2. requestOf(t[i]) \in accepted /\ hits[requestOf(t[i])] = 0
    BY <1>2, <2>1 DEF HitsWait
  <2>3. Head(q).kind # "move" => requestOf(t[i]) # requestOf(Head(q))
    BY <1>1, <1>2, <2>1 DEF HitsWait
  <2>4. after[requestOf(t[i])] = hits[requestOf(t[i])]
    BY <1>2, <2>3 DEF t
  <2>5. QED
    BY <2>2, <2>4
<1> HIDE DEF t
<1>3. ASSUME NEW i \in 1..Len(t), NEW j \in 1..Len(t), t[i].kind # "move", t[j].kind # "move",
             requestOf(t[j]) = requestOf(t[i])
      PROVE  i = j
  <2>1. i + 1 \in 1..Len(q) /\ t[i] = q[i + 1] /\ j + 1 \in 1..Len(q) /\ t[j] = q[j + 1]
    BY <1>1
  <2>2. i + 1 = j + 1
    BY <1>3, <2>1 DEF HitsWait
  <2>3. QED
    BY <2>2
<1>4. QED
  BY <1>2, <1>3 DEF HitsWait, t

-----------------------------------------------------------------------------
(* One lemma for each action *)

\* The parts of the invariant that speak of the world stay when it does.
LEMMA WorldUnchanged ==
  ASSUME FrameInv, UNCHANGED <<world, before, lastProcessed>>,
         \A s \in Sessions : lastAccepted[s] <= lastAccepted'[s],
         lastAccepted' \in [Sessions -> 0..MaxSeq],
         acceptedRequests \subseteq acceptedRequests',
         \A s \in Sessions : appliedOf(s)' = appliedOf(s),
         \A s \in Sessions : MovesWait(queue, world.moves[s], s, lastAccepted[s])',
         HitsWait(queue, world.hits, acceptedRequests)'
  PROVE  MovesInv' /\ HitsInv'
<1>1. TypeOK /\ MovesInv /\ HitsInv
  BY DEF FrameInv
<1>2. ASSUME NEW s \in Sessions
      PROVE  /\ lastProcessed'[s] <= lastAccepted'[s]
             /\ lastOf(world'.moves[s]) <= lastAccepted'[s]
  <2>1. /\ lastProcessed[s] <= lastAccepted[s] /\ lastOf(world.moves[s]) <= lastAccepted[s]
        /\ lastAccepted[s] <= lastAccepted'[s]
    BY <1>1 DEF MovesInv
  <2>2. /\ lastProcessed[s] \in 0..MaxSeq /\ lastAccepted[s] \in 0..MaxSeq
        /\ lastAccepted'[s] \in 0..MaxSeq /\ MaxSeq \in Nat
    BY <1>1, InputsAssumption DEF TypeOK
  <2>3. lastOf(world.moves[s]) \in 0..MaxSeq
    <3>1. world.moves[s] \in Seq(0..MaxSeq)
      BY <1>1, WorldFields DEF TypeOK
    <3>2. QED
      BY <3>1, LastOfMoves
  <2>4. QED
    BY <2>1, <2>2, <2>3
<1>3. ASSUME NEW s \in Sessions
      PROVE  /\ ascending(world'.moves[s]) /\ ascending(before'.moves[s])
             /\ lastOf(before'.moves[s]) = lastProcessed'[s]
             /\ lastOf(world'.moves[s]) \in appliedOf(s)'
             /\ \A q \in appliedOf(s)' : q <= lastOf(world'.moves[s])
  BY <1>1 DEF MovesInv
<1>4. MovesInv'
  BY <1>2, <1>3 DEF MovesInv
<1>5. HitOnce(world.hits, acceptedRequests)' /\ HitOnce(before.hits, acceptedRequests)'
  BY <1>1 DEF HitsInv, HitOnce
<1>6. QED
  BY <1>4, <1>5 DEF HitsInv

\* A step that changes sessions only, or nothing.
LEMMA SessionStep ==
  ASSUME FrameInv, session' \in [Sessions -> {"new", "bound", "evicted", "ended"}],
         UNCHANGED <<queueVars, passVars>>
  PROVE  FrameInv'
<1>1. TypeOK /\ FrameShape /\ MovesInv /\ HitsInv
  BY DEF FrameInv
<1>2. UNCHANGED <<lastAccepted, acceptedRequests, pending, tick, stage, frame, world, before, taken, lastProcessed>>
  BY DEF queueVars, passVars
<1>3. TypeOK'
  BY <1>1, <1>2 DEF TypeOK
<1>4. FrameShape'
  BY <1>1, <1>2 DEF FrameShape
<1>5. queue' = queue /\ \A s \in Sessions : appliedOf(s)' = appliedOf(s)
  BY <1>2 DEF queue, appliedOf
<1>6. MovesInv'
  BY <1>1, <1>2, <1>5 DEF MovesInv
<1>7. HitsInv'
  BY <1>1, <1>2, <1>5 DEF HitsInv
<1>8. QED
  BY <1>3, <1>4, <1>6, <1>7 DEF FrameInv

\* An accepted input is queued.
LEMMA QueueStep ==
  ASSUME FrameInv, stage = "collect", Len(pending) < MaxPending, NEW e \in Input,
         pending' = Append(pending, e),
         UNCHANGED <<sessionVars, passVars>>,
         lastAccepted' \in [Sessions -> 0..MaxSeq],
         \A s \in Sessions : lastAccepted[s] <= lastAccepted'[s],
         \A s \in Sessions : sequenced(e, s) => lastAccepted[s] < e.seq /\ e.seq <= lastAccepted'[s],
         acceptedRequests \subseteq acceptedRequests', acceptedRequests' \subseteq Sessions \X Requests,
         e.kind # "move" => requestOf(e) \notin acceptedRequests /\ requestOf(e) \in acceptedRequests'
  PROVE  FrameInv'
<1>1. TypeOK /\ FrameShape /\ MovesInv /\ HitsInv
  BY DEF FrameInv
<1>2. UNCHANGED <<session, tick, stage, frame, world, before, taken, lastProcessed>>
  BY DEF sessionVars, passVars
<1>3. pending \in Seq(Input) /\ pending' \in Seq(Input) /\ Len(pending') <= MaxPending
  <2>1. pending \in Seq(Input)
    BY <1>1 DEF TypeOK
  <2>2. pending' \in Seq(Input) /\ Len(pending') = Len(pending) + 1 /\ Len(pending) \in Nat
    BY <2>1, AppendInput
  <2>3. QED
    BY <2>1, <2>2, FrameAssumption
<1>4. TypeOK'
  BY <1>1, <1>2, <1>3 DEF TypeOK
<1>5. FrameShape'
  BY <1>1, <1>2 DEF FrameShape
<1>6. queue = pending /\ queue' = pending'
  BY <1>2 DEF queue
<1>7. \A s \in Sessions : appliedOf(s)' = appliedOf(s)
  BY <1>2 DEF appliedOf
<1>8. ASSUME NEW s \in Sessions
      PROVE  MovesWait(queue, world.moves[s], s, lastAccepted[s])'
  <2>1. MovesWait(pending, world.moves[s], s, lastAccepted[s]) /\ lastOf(world.moves[s]) <= lastAccepted[s]
    BY <1>1, <1>6 DEF MovesInv
  <2>2. world.moves[s] \in Seq(0..MaxSeq) /\ lastAccepted[s] \in 0..MaxSeq /\ lastAccepted'[s] \in 0..MaxSeq
    BY <1>1, WorldFields DEF TypeOK
  <2>3. sequenced(e, s) => lastAccepted[s] < e.seq /\ e.seq <= lastAccepted'[s]
    OBVIOUS
  <2>4. MovesWait(Append(pending, e), world.moves[s], s, lastAccepted'[s])
    BY <1>3, <2>1, <2>2, <2>3, AppendKeepsMoves
  <2>5. QED
    BY <1>2, <1>6, <2>4
<1>9. HitsWait(queue, world.hits, acceptedRequests)'
  <2>1. HitsWait(pending, world.hits, acceptedRequests)
    BY <1>1, <1>6 DEF HitsInv
  <2>2. e.kind # "move" => world.hits[requestOf(e)] = 0
    <3>1. e.kind # "move" => requestOf(e) \in Sessions \X Requests
      BY InputFields DEF requestOf
    <3>2. ASSUME NEW sr \in Sessions \X Requests, sr \notin acceptedRequests
          PROVE  world.hits[sr] = 0
      <4>1. ~(world.hits[sr] > 0)
        BY <1>1, <3>2 DEF HitsInv, HitOnce
      <4>2. world.hits[sr] \in Nat
        BY <1>1, WorldFields DEF TypeOK
      <4>3. QED
        BY <4>1, <4>2
    <3>3. QED
      BY <3>1, <3>2
  <2>3. HitsWait(Append(pending, e), world.hits, acceptedRequests')
    BY <1>3, <2>1, <2>2, AppendKeepsHits
  <2>4. QED
    BY <1>2, <1>6, <2>3
<1>10. MovesInv' /\ HitsInv'
  BY <1>2, <1>7, <1>8, <1>9, WorldUnchanged
<1>11. QED
  BY <1>4, <1>5, <1>10 DEF FrameInv

\* An empty queue waits for nothing.
LEMMA NothingWaits ==
  ASSUME NEW m, NEW s, NEW high, NEW hits, NEW accepted
  PROVE  MovesWait(<<>>, m, s, high) /\ HitsWait(<<>>, hits, accepted)
<1>1. Len(<<>>) = 0 /\ 1..0 = {}
  OBVIOUS
<1>2. QED
  BY <1>1 DEF MovesWait, HitsWait

\* The queue becomes the frame, or is dropped.
LEMMA TakeStep ==
  ASSUME FrameInv, TakeFrame
  PROVE  FrameInv'
<1>1. TypeOK /\ FrameShape /\ MovesInv /\ HitsInv
  BY DEF FrameInv
<1>2. /\ stage = "collect" /\ tick < MaxTick /\ tick' = tick + 1 /\ pending' = <<>>
      /\ frame = <<>> /\ taken = <<>> /\ world = before
      /\ UNCHANGED <<session, lastAccepted, acceptedRequests, world, lastProcessed>>
  BY <1>1 DEF TakeFrame, FrameShape, sessionVars
<1>3. /\ \/ stage' = "apply" /\ frame' = pending /\ taken' = pending /\ before' = world
         \/ UNCHANGED <<stage, frame, taken, before>>
  BY DEF TakeFrame
<1>4. before' = before /\ Len(<<>>) = 0 /\ <<>> \in Seq(Input) /\ Len(pending) \in Nat
  BY <1>1, <1>2, <1>3, EmptySeq, LenProperties DEF TypeOK
<1>5. TypeOK'
  <2>1. tick' \in 0..MaxTick
    BY <1>1, <1>2, FrameAssumption DEF TypeOK
  <2>2. Len(pending') <= MaxPending /\ pending' \in Seq(Input)
    BY <1>2, <1>4, FrameAssumption
  <2>3. stage' \in {"collect", "apply"} /\ frame' \in Seq(Input) /\ taken' \in Seq(Input)
    BY <1>1, <1>2, <1>3 DEF TypeOK
  <2>4. QED
    BY <1>1, <1>2, <1>4, <2>1, <2>2, <2>3 DEF TypeOK
<1>6. Len(frame') = Len(taken') /\ Len(taken') - Len(frame') = 0 /\ frame' = taken'
  BY <1>2, <1>3, <1>4
<1>7. FrameShape'
  <2>1. Len(frame') \in Nat
    BY <1>2, <1>3, <1>4
  <2>2. \A i \in 1..Len(frame') : frame'[i] = taken'[(Len(taken') - Len(frame')) + i]
    BY <1>6, <2>1
  <2>3. stage' = "collect" => frame' = <<>> /\ taken' = <<>> /\ world' = before'
    BY <1>2, <1>3, <1>4
  <2>4. QED
    BY <1>2, <1>6, <2>1, <2>2, <2>3 DEF FrameShape
<1>8. \A s \in Sessions : appliedOf(s)' = appliedOf(s)
  <2>1. Len(taken) - Len(frame) = 0 /\ 1..0 = {}
    BY <1>2, <1>4
  <2>2. ASSUME NEW s \in Sessions
        PROVE  appliedOf(s) = {lastProcessed[s]} /\ appliedOf(s)' = {lastProcessed[s]}
    BY <1>2, <1>6, <2>1 DEF appliedOf
  <2>3. QED
    BY <2>2
<1>9. queue' = queue \/ queue' = <<>>
  BY <1>2, <1>3 DEF queue
<1>10. ASSUME NEW s \in Sessions
       PROVE  MovesWait(queue, world.moves[s], s, lastAccepted[s])'
  <2>1. MovesWait(queue, world.moves[s], s, lastAccepted[s])
    BY <1>1 DEF MovesInv
  <2>2. MovesWait(<<>>, world.moves[s], s, lastAccepted[s])
    BY NothingWaits
  <2>3. QED
    BY <1>2, <1>9, <2>1, <2>2
<1>11. HitsWait(queue, world.hits, acceptedRequests)'
  <2>1. HitsWait(queue, world.hits, acceptedRequests)
    BY <1>1 DEF HitsInv
  <2>2. HitsWait(<<>>, world.hits, acceptedRequests)
    BY NothingWaits
  <2>3. QED
    BY <1>2, <1>9, <2>1, <2>2
<1>12. MovesInv' /\ HitsInv'
  <2>1. /\ lastAccepted' \in [Sessions -> 0..MaxSeq] /\ acceptedRequests \subseteq acceptedRequests'
        /\ \A s \in Sessions : lastAccepted[s] <= lastAccepted'[s]
    BY <1>1, <1>2, InputsAssumption DEF TypeOK
  <2>2. QED
    BY <1>2, <1>4, <1>8, <1>10, <1>11, <2>1, WorldUnchanged
<1>13. QED
  BY <1>5, <1>7, <1>12 DEF FrameInv

\* Nothing of a frame that is rolled back stays.
LEMMA RollbackStep ==
  ASSUME FrameInv, Rollback
  PROVE  FrameInv'
<1>1. TypeOK /\ FrameShape /\ MovesInv /\ HitsInv
  BY DEF FrameInv
<1>2. /\ stage = "apply" /\ world' = before /\ stage' = "collect" /\ frame' = <<>> /\ taken' = <<>>
      /\ UNCHANGED <<session, lastAccepted, acceptedRequests, pending, tick, before, lastProcessed>>
      /\ pending = <<>>
  BY <1>1 DEF Rollback, FrameShape, sessionVars, queueVars
<1>3. Len(<<>>) = 0 /\ <<>> \in Seq(Input) /\ 1..0 = {}
  BY EmptySeq
<1>4. TypeOK'
  BY <1>1, <1>2, <1>3 DEF TypeOK
<1>5. FrameShape'
  BY <1>2, <1>3 DEF FrameShape
<1>6. queue' = <<>>
  BY <1>2 DEF queue
<1>7. ASSUME NEW s \in Sessions
      PROVE  appliedOf(s)' = {lastProcessed[s]}
  BY <1>2, <1>3 DEF appliedOf
<1>8. MovesInv'
  <2>1. ASSUME NEW s \in Sessions
        PROVE  /\ MovesWait(queue', world'.moves[s], s, lastAccepted'[s])
               /\ ascending(world'.moves[s]) /\ ascending(before'.moves[s])
               /\ lastOf(before'.moves[s]) = lastProcessed'[s] /\ lastProcessed'[s] <= lastAccepted'[s]
               /\ lastOf(world'.moves[s]) <= lastAccepted'[s]
               /\ lastOf(world'.moves[s]) \in appliedOf(s)'
               /\ \A q \in appliedOf(s)' : q <= lastOf(world'.moves[s])
    <3>1. /\ ascending(before.moves[s])
          /\ lastOf(before.moves[s]) = lastProcessed[s] /\ lastProcessed[s] <= lastAccepted[s]
      BY <1>1 DEF MovesInv
    <3>2. MovesWait(<<>>, world'.moves[s], s, lastAccepted'[s])
      BY NothingWaits
    <3>3. lastProcessed[s] \in 0..MaxSeq /\ MaxSeq \in Nat
      BY <1>1, InputsAssumption DEF TypeOK
    <3>4. \A q \in appliedOf(s)' : q <= lastOf(before.moves[s])
      BY <1>7, <3>1, <3>3
    <3>5. QED
      BY <1>2, <1>6, <1>7, <3>1, <3>2, <3>4
  <2>2. QED
    BY <2>1 DEF MovesInv
<1>9. HitsInv'
  <2>1. HitsWait(<<>>, world'.hits, acceptedRequests')
    BY NothingWaits
  <2>2. HitOnce(before.hits, acceptedRequests)
    BY <1>1 DEF HitsInv
  <2>3. QED
    BY <1>2, <1>6, <2>1, <2>2 DEF HitsInv
<1>10. QED
  BY <1>4, <1>5, <1>8, <1>9 DEF FrameInv

\* The highest number of a set, when it is known.
LEMMA MaxKnown ==
  ASSUME NEW S, NEW m \in S, S \subseteq Int, \A q \in S : q <= m
  PROVE  Max(S) = m
<1>1. \A y \in S : m >= y
  OBVIOUS
<1>2. Max(S) \in S /\ \A y \in S : Max(S) >= y
  BY <1>1 DEF Max
<1>3. Max(S) \in Int /\ m \in Int /\ Max(S) >= m /\ Max(S) <= m
  BY <1>2
<1>4. QED
  BY <1>3

\* The acks of a frame that is applied are the last sequences of its moves.
LEMMA CommitStep ==
  ASSUME FrameInv, Commit
  PROVE  FrameInv'
<1>1. TypeOK /\ FrameShape /\ MovesInv /\ HitsInv
  BY DEF FrameInv
<1>2. /\ stage = "apply" /\ frame = <<>> /\ frame' = <<>> /\ stage' = "collect" /\ taken' = <<>>
      /\ UNCHANGED <<session, lastAccepted, acceptedRequests, pending, tick>>
      /\ pending = <<>> /\ world' = decay(world) /\ before' = decay(world)
      /\ lastProcessed' = [s \in Sessions |-> highest(taken, s, lastProcessed[s])]
  BY <1>1 DEF Commit, FrameShape, sessionVars, queueVars
<1>3. Len(<<>>) = 0 /\ <<>> \in Seq(Input) /\ 1..0 = {} /\ taken \in Seq(Input) /\ Len(taken) \in Nat
  BY <1>1, EmptySeq, LenProperties DEF TypeOK
<1>4. world \in World /\ world' \in World /\ before' \in World
      /\ world'.moves = world.moves /\ world'.hits = world.hits
      /\ before'.moves = world.moves /\ before'.hits = world.hits
  BY <1>1, <1>2, DecayEffect DEF TypeOK
<1>5. ASSUME NEW s \in Sessions
      PROVE  lastProcessed'[s] = lastOf(world.moves[s]) /\ lastOf(world.moves[s]) \in 0..MaxSeq
  <2>1. lastOf(world.moves[s]) \in 0..MaxSeq
    <3>1. world.moves[s] \in Seq(0..MaxSeq)
      BY <1>4, WorldFields
    <3>2. QED
      BY <3>1, LastOfMoves
  <2>2. appliedOf(s) \subseteq Int
    <3>1. lastProcessed[s] \in Int
      BY <1>1, InputsAssumption DEF TypeOK
    <3>2. \A n \in 1..Len(taken) : taken[n].kind = "move" => taken[n].seq \in Int
      BY <1>3, ElementOfSeq, InputFields, InputsAssumption
    <3>3. Len(taken) - Len(frame) = Len(taken)
      BY <1>2, <1>3
    <3>4. QED
      BY <3>1, <3>2, <3>3 DEF appliedOf
  <2>3. Max(appliedOf(s)) = lastOf(world.moves[s])
    BY <1>1, <2>2, MaxKnown DEF MovesInv
  <2>4. highest(taken, s, lastProcessed[s]) = Max(appliedOf(s))
    <3>1. Len(taken) - Len(frame) = Len(taken)
      BY <1>2, <1>3
    <3>2. appliedOf(s) = {lastProcessed[s]} \cup
            {taken[k].seq : k \in {n \in 1..Len(taken) : taken[n].kind = "move" /\ taken[n].session = s}}
      BY <3>1 DEF appliedOf
    <3>3. QED
      BY <3>2 DEF highest
  <2>5. QED
    BY <1>2, <2>1, <2>3, <2>4
<1>6. TypeOK'
  <2>1. lastProcessed' \in [Sessions -> 0..MaxSeq]
    BY <1>2, <1>5
  <2>2. QED
    BY <1>1, <1>2, <1>3, <1>4, <2>1 DEF TypeOK
<1>7. FrameShape'
  BY <1>2, <1>3 DEF FrameShape
<1>8. queue' = <<>>
  BY <1>2 DEF queue
<1>9. ASSUME NEW s \in Sessions
      PROVE  appliedOf(s)' = {lastProcessed'[s]}
  BY <1>2, <1>3 DEF appliedOf
<1>10. MovesInv'
  <2>1. ASSUME NEW s \in Sessions
        PROVE  /\ MovesWait(queue', world'.moves[s], s, lastAccepted'[s])
               /\ ascending(world'.moves[s]) /\ ascending(before'.moves[s])
               /\ lastOf(before'.moves[s]) = lastProcessed'[s] /\ lastProcessed'[s] <= lastAccepted'[s]
               /\ lastOf(world'.moves[s]) <= lastAccepted'[s]
               /\ lastOf(world'.moves[s]) \in appliedOf(s)'
               /\ \A q \in appliedOf(s)' : q <= lastOf(world'.moves[s])
    <3>1. ascending(world.moves[s]) /\ lastOf(world.moves[s]) <= lastAccepted[s]
      BY <1>1 DEF MovesInv
    <3>2. MovesWait(<<>>, world'.moves[s], s, lastAccepted'[s])
      BY NothingWaits
    <3>3. \A q \in appliedOf(s)' : q <= lastOf(world.moves[s])
      BY <1>5, <1>9, InputsAssumption
    <3>4. QED
      BY <1>2, <1>4, <1>5, <1>8, <1>9, <3>1, <3>2, <3>3
  <2>2. QED
    BY <2>1 DEF MovesInv
<1>11. HitsInv'
  <2>1. HitsWait(<<>>, world'.hits, acceptedRequests')
    BY NothingWaits
  <2>2. HitOnce(world.hits, acceptedRequests)
    BY <1>1 DEF HitsInv
  <2>3. QED
    BY <1>2, <1>4, <1>8, <2>1, <2>2 DEF HitsInv
<1>12. QED
  BY <1>6, <1>7, <1>10, <1>11 DEF FrameInv

\* One more input of the frame is counted as applied.
LEMMA AppliedOneMore ==
  ASSUME TypeOK, FrameShape, frame # <<>>, frame' = Tail(frame), UNCHANGED <<taken, lastProcessed>>,
         NEW s \in Sessions
  PROVE  appliedOf(s)' = appliedOf(s) \cup
           (IF Head(frame).kind = "move" /\ Head(frame).session = s THEN {Head(frame).seq} ELSE {})
<1> DEFINE k == Len(taken) - Len(frame)
           ofS(n) == taken[n].kind = "move" /\ taken[n].session = s
           e == Head(frame)
<1>1. /\ Len(frame) \in Nat /\ Len(frame) > 0 /\ Len(taken) \in Nat /\ Len(frame) <= Len(taken)
      /\ Len(frame') = Len(frame) - 1 /\ e = frame[1] /\ 1 \in 1..Len(frame)
  <2>1. frame \in Seq(Input) /\ taken \in Seq(Input)
    BY DEF TypeOK
  <2>2. Len(taken) \in Nat
    BY <2>1, LenProperties
  <2>3. QED
    BY <2>1, <2>2, TailInput DEF FrameShape
<1>2. k \in Nat /\ Len(taken) - Len(frame') = k + 1
  BY <1>1
<1>3. e = taken[k + 1]
  BY <1>1 DEF FrameShape
<1>4. /\ appliedOf(s) = {lastProcessed[s]} \cup {taken[m].seq : m \in {n \in 1..k : ofS(n)}}
      /\ appliedOf(s)' = {lastProcessed[s]} \cup {taken[m].seq : m \in {n \in 1..(Len(taken) - Len(frame')) : ofS(n)}}
  BY DEF appliedOf
<1> HIDE DEF e, k
<1>5. 1..(k + 1) = 1..k \cup {k + 1}
  BY <1>2
<1>6. {n \in 1..(k + 1) : ofS(n)} = {n \in 1..k : ofS(n)} \cup (IF ofS(k + 1) THEN {k + 1} ELSE {})
  <2> HIDE DEF ofS
  <2>1. QED
    BY <1>5
<1>7. ofS(k + 1) <=> e.kind = "move" /\ e.session = s
  BY <1>3
<1> HIDE DEF ofS
<1>8. appliedOf(s)' = {lastProcessed[s]} \cup {taken[m].seq : m \in {n \in 1..k : ofS(n)} \cup (IF ofS(k + 1) THEN {k + 1} ELSE {})}
  BY <1>2, <1>4, <1>6
<1>9. CASE ofS(k + 1)
  <2>1. appliedOf(s)' = {lastProcessed[s]} \cup {taken[m].seq : m \in {n \in 1..k : ofS(n)} \cup {k + 1}}
    BY <1>8, <1>9
  <2>2. appliedOf(s)' = appliedOf(s) \cup {taken[k + 1].seq}
    BY <1>4, <2>1
  <2>3. QED
    BY <1>3, <1>7, <1>9, <2>2 DEF e
<1>10. CASE ~ofS(k + 1)
  <2>1. appliedOf(s)' = appliedOf(s)
    BY <1>4, <1>8, <1>10
  <2>2. QED
    BY <1>7, <1>10, <2>1 DEF e
<1>11. QED
  BY <1>9, <1>10

\* The first input of the rest of the frame is applied.
LEMMA ApplyStep ==
  ASSUME FrameInv, ApplyInput
  PROVE  FrameInv'
<1> DEFINE e == Head(frame)
           v == applyInput(world, e, tick)
<1>1. TypeOK /\ FrameShape /\ MovesInv /\ HitsInv
  BY DEF FrameInv
<1>2. /\ stage = "apply" /\ frame # <<>> /\ canApply(world, e)
      /\ world' = v /\ frame' = Tail(frame)
      /\ UNCHANGED <<session, lastAccepted, acceptedRequests, pending, tick, stage, before, taken, lastProcessed>>
  BY DEF ApplyInput, sessionVars, queueVars
<1>3. /\ frame \in Seq(Input) /\ frame' \in Seq(Input) /\ Len(frame') = Len(frame) - 1
      /\ Len(frame) \in Nat /\ Len(frame) > 0 /\ e \in Input /\ e = frame[1] /\ 1 \in 1..Len(frame)
      /\ \A i \in 1..Len(frame') : i + 1 \in 1..Len(frame) /\ frame'[i] = frame[i + 1] /\ frame'[i] \in Input
  <2>1. frame \in Seq(Input)
    BY <1>1 DEF TypeOK
  <2>2. QED
    BY <1>2, <2>1, TailInput
<1>4. world \in World /\ tick \in Nat
  BY <1>1 DEF TypeOK
<1> HIDE DEF e
<1>5. /\ v \in World
      /\ e.kind = "move" => /\ v.hits = world.hits
                            /\ v.moves = [world.moves EXCEPT ![e.session] = IF e.seq = 0 THEN @ ELSE Append(@, e.seq)]
      /\ e.kind # "move" => /\ v.moves = world.moves
                            /\ v.hits = [world.hits EXCEPT ![<<e.session, e.request>>] = @ + 1]
  <2>1. CASE e.kind = "move"
    <3>1. v \in World /\ v.hits = world.hits
      BY <1>2, <1>3, <1>4, <2>1, MoveEffect
    <3>2. v.moves = [world.moves EXCEPT ![e.session] = IF e.seq = 0 THEN @ ELSE Append(@, e.seq)]
      <4>1. world \in World /\ e \in Input /\ e.kind = "move" /\ canApply(world, e)
        BY <1>2, <1>3, <1>4, <2>1
      <4>2. QED
        BY <4>1, MoveEffect, Zenon
    <3>3. QED
      BY ONLY <2>1, <3>1, <3>2
  <2>2. CASE e.kind # "move"
    <3>1. v \in World /\ v.moves = world.moves
      BY <1>3, <1>4, <2>2, HitEffect
    <3>2. v.hits = [world.hits EXCEPT ![<<e.session, e.request>>] = @ + 1]
      BY <1>3, <1>4, <2>2, HitEffect
    <3>3. QED
      BY ONLY <2>2, <3>1, <3>2
  <2>3. QED
    BY <2>1, <2>2
<1> HIDE DEF v
<1>6. queue = frame /\ queue' = frame'
  BY <1>2 DEF queue
<1>7. TypeOK'
  BY <1>1, <1>2, <1>3, <1>5 DEF TypeOK
<1>8. FrameShape'
  <2>1. Len(taken) \in Nat
    BY <1>1, LenProperties DEF TypeOK
  <2>2. Len(frame) <= Len(taken) /\ \A i \in 1..Len(frame) : frame[i] = taken[(Len(taken) - Len(frame)) + i]
    BY <1>1 DEF FrameShape
  <2>3. ASSUME NEW i \in 1..Len(frame')
        PROVE  frame'[i] = taken[(Len(taken) - Len(frame')) + i]
    <3>1. frame'[i] = taken[(Len(taken) - Len(frame)) + (i + 1)]
      BY <1>3, <2>2
    <3>2. (Len(taken) - Len(frame)) + (i + 1) = (Len(taken) - Len(frame')) + i
      BY <1>3, <2>1
    <3>3. QED
      BY <3>1, <3>2
  <2>4. Len(frame') <= Len(taken)
    BY <1>3, <2>1, <2>2
  <2>5. QED
    BY <1>1, <1>2, <2>3, <2>4 DEF FrameShape
<1>9. MovesInv'
  <2>1. ASSUME NEW s \in Sessions
        PROVE  /\ MovesWait(queue', world'.moves[s], s, lastAccepted'[s])
               /\ ascending(world'.moves[s]) /\ ascending(before'.moves[s])
               /\ lastOf(before'.moves[s]) = lastProcessed'[s] /\ lastProcessed'[s] <= lastAccepted'[s]
               /\ lastOf(world'.moves[s]) <= lastAccepted'[s]
               /\ lastOf(world'.moves[s]) \in appliedOf(s)'
               /\ \A q \in appliedOf(s)' : q <= lastOf(world'.moves[s])
    <3> DEFINE m == world.moves[s]
               n == world'.moves[s]
    <3>1. /\ MovesWait(frame, m, s, lastAccepted[s])
          /\ ascending(m) /\ ascending(before.moves[s])
          /\ lastOf(before.moves[s]) = lastProcessed[s] /\ lastProcessed[s] <= lastAccepted[s]
          /\ lastOf(m) <= lastAccepted[s]
          /\ lastOf(m) \in appliedOf(s)
          /\ \A q \in appliedOf(s) : q <= lastOf(m)
      BY <1>1, <1>6 DEF MovesInv
    <3>2. m \in Seq(0..MaxSeq) /\ lastOf(m) \in 0..MaxSeq /\ MaxSeq \in Nat
      BY <1>4, WorldFields, LastOfMoves, InputsAssumption
    <3>3. appliedOf(s)' = appliedOf(s) \cup (IF e.kind = "move" /\ e.session = s THEN {e.seq} ELSE {})
      BY <1>1, <1>2, AppliedOneMore DEF e
    <3>4. CASE sequenced(e, s)
      <4>1. n = Append(m, e.seq) /\ e.seq \in 0..MaxSeq
        BY <1>2, <1>3, <1>4, <1>5, <3>4, WorldFields, InputFields DEF sequenced
      <4>2. lastOf(m) < e.seq /\ e.seq <= lastAccepted[s]
        BY <1>3, <3>1, <3>4 DEF MovesWait
      <4>3. ascending(n) /\ lastOf(n) = e.seq
        BY <3>1, <3>2, <4>1, <4>2, AppendMove
      <4>4. MovesWait(Tail(frame), n, s, lastAccepted[s])
        <5> HIDE DEF m, n
        <5>1. QED
          BY <1>2, <1>3, <3>1, <3>2, <3>4, <4>3, TailKeepsMoves DEF e
      <4>5. appliedOf(s)' = appliedOf(s) \cup {e.seq}
        BY <3>3, <3>4 DEF sequenced
      <4>6. \A q \in appliedOf(s) : q <= e.seq
        <5>1. ASSUME NEW q \in appliedOf(s)
              PROVE  q <= e.seq
          <6>1. q <= lastOf(m)
            BY <3>1
          <6>2. q \in Int
            <7>1. lastProcessed[s] \in Int
              BY <1>1, InputsAssumption DEF TypeOK
            <7>2. \A j \in 1..Len(taken) : taken[j].kind = "move" => taken[j].seq \in Int
              BY <1>1, ElementOfSeq, InputFields, InputsAssumption DEF TypeOK
            <7>3. \A j \in 1..(Len(taken) - Len(frame)) : j \in 1..Len(taken)
              BY <1>1, <1>3, LenProperties DEF TypeOK
            <7>4. QED
              BY <7>1, <7>2, <7>3 DEF appliedOf
          <6>3. QED
            BY <3>2, <4>1, <4>2, <6>1, <6>2
        <5>2. QED
          BY <5>1
      <4>7. e.seq <= e.seq
        BY <3>2, <4>1
      <4>8. QED
        BY <1>2, <1>6, <3>1, <4>2, <4>3, <4>4, <4>5, <4>6, <4>7
    <3>5. CASE ~sequenced(e, s)
      <4>1. n = m
        <5>1. CASE e.kind = "move"
          BY <1>2, <1>3, <1>4, <1>5, <3>5, <5>1, WorldFields, InputFields DEF sequenced
        <5>2. CASE e.kind # "move"
          BY <1>2, <1>5, <5>2
        <5>3. QED
          BY <5>1, <5>2
      <4>2. MovesWait(Tail(frame), m, s, lastAccepted[s])
        <5> HIDE DEF m, n
        <5>1. QED
          BY <1>2, <1>3, <3>1, <3>2, TailKeepsMoves
      <4>3. \A q \in appliedOf(s)' : q \in appliedOf(s) \/ q = 0
        BY <3>3, <3>5 DEF sequenced
      <4>4. \A q \in appliedOf(s)' : q <= lastOf(m)
        BY <3>1, <3>2, <4>3
      <4>5. QED
        BY <1>2, <1>6, <3>1, <3>3, <4>1, <4>2, <4>4
    <3>6. QED
      BY <3>4, <3>5
  <2>2. QED
    BY <2>1 DEF MovesInv
<1>10. HitsInv'
  <2>1. /\ HitsWait(frame, world.hits, acceptedRequests)
        /\ HitOnce(world.hits, acceptedRequests) /\ HitOnce(before.hits, acceptedRequests)
    BY <1>1, <1>6 DEF HitsInv
  <2>2. world.hits \in [Sessions \X Requests -> Nat]
    BY <1>4, WorldFields
  <2>3. e.kind # "move" =>
          /\ requestOf(e) \in Sessions \X Requests /\ requestOf(e) \in acceptedRequests
          /\ world.hits[requestOf(e)] = 0
    BY <1>3, <2>1, InputFields DEF HitsWait, requestOf
  <2>4. \A sr \in Sessions \X Requests :
          v.hits[sr] = IF e.kind # "move" /\ sr = requestOf(e) THEN 1 ELSE world.hits[sr]
    BY <1>5, <2>2, <2>3 DEF requestOf
  <2>5. HitOnce(v.hits, acceptedRequests)
    <3>1. ASSUME NEW sr \in Sessions \X Requests
          PROVE  v.hits[sr] <= 1 /\ (v.hits[sr] > 0 => sr \in acceptedRequests)
      <4>1. CASE e.kind # "move" /\ sr = requestOf(e)
        BY <2>3, <2>4, <4>1
      <4>2. CASE ~(e.kind # "move" /\ sr = requestOf(e))
        BY <2>1, <2>4, <4>2 DEF HitOnce
      <4>3. QED
        BY <4>1, <4>2
    <3>2. QED
      BY <3>1 DEF HitOnce
  <2>6. \A i \in 1..Len(frame') : frame'[i].kind # "move" => requestOf(frame'[i]) \in Sessions \X Requests
    BY <1>3, InputFields DEF requestOf
  <2>7. \A i \in 1..Len(frame') : frame'[i].kind # "move"
          /\ (e.kind # "move" => requestOf(frame'[i]) # requestOf(e))
            => v.hits[requestOf(frame'[i])] = world.hits[requestOf(frame'[i])]
    BY <2>4, <2>6
  <2>8. HitsWait(Tail(frame), v.hits, acceptedRequests)
    BY <1>2, <1>3, <2>1, <2>7, TailKeepsHits DEF e
  <2>9. QED
    BY <1>2, <1>6, <2>1, <2>5, <2>8 DEF HitsInv
<1>11. QED
  BY <1>7, <1>8, <1>9, <1>10 DEF FrameInv

-----------------------------------------------------------------------------
(* The specification *)

LEMMA FrameInvInit ==
  ASSUME Init
  PROVE  FrameInv
<1>1. /\ <<>> \in Seq(Input) /\ <<>> \in Seq(0..MaxSeq) /\ Len(<<>>) = 0 /\ 1..0 = {}
  BY EmptySeq
<1>2. /\ MaxSeq \in Nat /\ MaxCoordinate \in Nat /\ MaxHp \in Nat /\ MaxMp \in Nat /\ MaxEther \in Nat
      /\ MaxTick \in Nat /\ MaxPending \in Nat
  BY InputsAssumption, FrameAssumption
<1>3. InitialWorld \in World
  <2>1. [s \in Sessions |-> <<>>] \in [Sessions -> Seq(0..MaxSeq)]
    BY <1>1
  <2>2. QED
    BY <1>2, <2>1 DEF InitialWorld, World
<1>4. TypeOK
  BY <1>1, <1>2, <1>3 DEF Init, TypeOK
<1>5. FrameShape
  BY <1>1 DEF Init, FrameShape
<1>6. queue = <<>>
  BY DEF Init, queue
<1>7. ASSUME NEW s \in Sessions
      PROVE  /\ MovesWait(queue, world.moves[s], s, lastAccepted[s])
             /\ ascending(world.moves[s]) /\ ascending(before.moves[s])
             /\ lastOf(before.moves[s]) = lastProcessed[s] /\ lastProcessed[s] <= lastAccepted[s]
             /\ lastOf(world.moves[s]) <= lastAccepted[s]
             /\ lastOf(world.moves[s]) \in appliedOf(s)
             /\ \A q \in appliedOf(s) : q <= lastOf(world.moves[s])
  <2>1. world.moves[s] = <<>> /\ before.moves[s] = <<>> /\ lastProcessed[s] = 0 /\ lastAccepted[s] = 0
    BY DEF Init, InitialWorld
  <2>2. appliedOf(s) = {0}
    BY <1>1, <2>1 DEF Init, appliedOf
  <2>3. MovesWait(queue, world.moves[s], s, lastAccepted[s])
    BY <1>6, NothingWaits
  <2>4. lastOf(<<>>) = 0 /\ ascending(<<>>)
    BY <1>1 DEF lastOf, ascending
  <2>5. QED
    BY <2>1, <2>2, <2>3, <2>4
<1>8. HitsInv
  <2>1. HitsWait(queue, world.hits, acceptedRequests)
    BY <1>6, NothingWaits
  <2>2. HitOnce(world.hits, acceptedRequests) /\ HitOnce(before.hits, acceptedRequests)
    BY DEF Init, InitialWorld, HitOnce
  <2>3. QED
    BY <2>1, <2>2 DEF HitsInv
<1>9. QED
  BY <1>4, <1>5, <1>7, <1>8 DEF FrameInv, MovesInv

LEMMA FrameInvStep ==
  ASSUME FrameInv, [Next]_vars
  PROVE  FrameInv'
<1>1. TypeOK
  BY DEF FrameInv
<1>2. ASSUME NEW s \in Sessions, Login(s) \/ Logout(s)
      PROVE  FrameInv'
  <2>1. session' \in [Sessions -> {"new", "bound", "evicted", "ended"}]
    BY <1>1, <1>2 DEF Login, Logout, TypeOK
  <2>2. UNCHANGED <<queueVars, passVars>>
    BY <1>2 DEF Login, Logout
  <2>3. QED
    BY <2>1, <2>2, SessionStep
<1>3. ASSUME NEW s \in Sessions, NEW q \in 0..MaxSeq, NEW d \in {-1, 1}, Move(s, q, d)
      PROVE  FrameInv'
  <2> DEFINE e == [kind |-> "move", session |-> s, seq |-> q, delta |-> d]
  <2>1. /\ stage = "collect" /\ Len(pending) < MaxPending /\ pending' = Append(pending, e)
        /\ UNCHANGED <<sessionVars, passVars>> /\ UNCHANGED acceptedRequests
        /\ q # 0 => admit(s, q)
        /\ lastAccepted' = IF q = 0 THEN lastAccepted ELSE [lastAccepted EXCEPT ![s] = q]
    BY <1>3 DEF Move
  <2>2. e \in Input /\ e.kind = "move" /\ e.seq = q /\ e.session = s
    BY DEF Input, MoveInput
  <2>3. MaxSeq \in Nat /\ lastAccepted \in [Sessions -> 0..MaxSeq]
    BY <1>1, InputsAssumption DEF TypeOK
  <2>4. /\ lastAccepted' \in [Sessions -> 0..MaxSeq]
        /\ q # 0 => lastAccepted[s] < q /\ lastAccepted'[s] = q
        /\ \A t \in Sessions : lastAccepted[t] <= lastAccepted'[t]
    <3> HIDE DEF e
    <3>1. lastAccepted' \in [Sessions -> 0..MaxSeq]
      BY <2>1, <2>3
    <3>2. q # 0 => lastAccepted[s] < q /\ lastAccepted'[s] = q
      BY <2>1, <2>3 DEF admit
    <3>3. ASSUME NEW t \in Sessions
          PROVE  lastAccepted[t] <= lastAccepted'[t]
      <4>1. CASE q = 0
        BY <2>1, <2>3, <4>1
      <4>2. CASE q # 0 /\ t = s
        BY <2>3, <3>2, <4>2
      <4>3. CASE q # 0 /\ t # s
        BY <2>1, <2>3, <4>3
      <4>4. QED
        BY <4>1, <4>2, <4>3
    <3>4. QED
      BY <3>1, <3>2, <3>3
  <2> HIDE DEF e
  <2>5. \A t \in Sessions : sequenced(e, t) => lastAccepted[t] < e.seq /\ e.seq <= lastAccepted'[t]
    BY <2>2, <2>3, <2>4 DEF sequenced
  <2>6. acceptedRequests' \subseteq Sessions \X Requests
    BY <1>1, <2>1 DEF TypeOK
  <2>7. QED
    BY <2>1, <2>2, <2>4, <2>5, <2>6, QueueStep
<1>4. ASSUME NEW kind \in {"attack", "spell"}, NEW s \in Sessions, NEW p \in Targets, NEW r \in Requests,
             NEW power \in Powers, Hit(kind, s, p, r, power)
      PROVE  FrameInv'
  <2> DEFINE e == [kind |-> kind, session |-> s, target |-> p, request |-> r, power |-> power]
  <2>1. /\ stage = "collect" /\ Len(pending) < MaxPending /\ pending' = Append(pending, e)
        /\ UNCHANGED <<sessionVars, passVars>> /\ UNCHANGED lastAccepted
        /\ <<s, r>> \notin acceptedRequests /\ acceptedRequests' = acceptedRequests \cup {<<s, r>>}
    BY <1>4 DEF Hit
  <2>2. e \in Input /\ e.kind # "move" /\ requestOf(e) = <<s, r>>
    BY DEF Input, HitInput, requestOf
  <2>3. \A t \in Sessions : ~sequenced(e, t)
    BY DEF sequenced
  <2> HIDE DEF e
  <2>4. MaxSeq \in Nat /\ lastAccepted \in [Sessions -> 0..MaxSeq]
    BY <1>1, InputsAssumption DEF TypeOK
  <2>5. \A t \in Sessions : lastAccepted[t] <= lastAccepted'[t]
    BY <2>1, <2>4
  <2>6. acceptedRequests' \subseteq Sessions \X Requests
    BY <1>1, <2>1 DEF TypeOK
  <2>7. QED
    BY <2>1, <2>2, <2>3, <2>4, <2>5, <2>6, QueueStep
<1>5. CASE UNCHANGED vars
  <2>1. session' \in [Sessions -> {"new", "bound", "evicted", "ended"}]
    BY <1>1, <1>5 DEF TypeOK, vars
  <2>2. UNCHANGED <<queueVars, passVars>>
    BY <1>5 DEF vars, queueVars, passVars
  <2>3. QED
    BY <2>1, <2>2, SessionStep
<1>6. CASE TakeFrame \/ ApplyInput \/ Rollback \/ Commit
  BY <1>6, TakeStep, ApplyStep, RollbackStep, CommitStep
<1>7. QED
  BY <1>2, <1>3, <1>4, <1>5, <1>6 DEF Next

\* FrameInv is inductive.
LEMMA FrameInvHolds == Spec => []FrameInv
<1>1. FrameInv /\ [Next]_vars => FrameInv'
  BY FrameInvStep
<1>2. Init => FrameInv
  BY FrameInvInit
<1>3. QED
  BY <1>1, <1>2, PTL DEF Spec

\* The world stays within its bounds, also in the middle of a frame.
THEOREM FrameTypeCorrect == Spec => []TypeOK
<1>1. FrameInv => TypeOK
  BY DEF FrameInv
<1>2. QED
  BY <1>1, FrameInvHolds, PTL

\* Client input sequences take effect once and in order, and the acks between
\* frames are exactly the latest that did, for any number of sessions, however
\* they repeat or skip and whichever frames are dropped or rolled back.
THEOREM MovesTakeEffectInOrder == Spec => []MovesInOrder
<1>1. ASSUME FrameInv
      PROVE  MovesInOrder
  <2>1. FrameShape /\ MovesInv
    BY <1>1 DEF FrameInv
  <2>2. QED
    BY <2>1 DEF MovesInOrder, MovesInv, FrameShape, ascending, lastOf
<1>2. QED
  BY <1>1, FrameInvHolds, PTL

\* A request takes effect at most once, also in the middle of a frame.
THEOREM RequestsTakeEffectOnce == Spec => []RequestsOnce
<1>1. ASSUME FrameInv
      PROVE  RequestsOnce
  <2>1. HitOnce(world.hits, acceptedRequests)
    BY <1>1 DEF FrameInv, HitsInv
  <2>2. QED
    BY <2>1 DEF HitOnce, RequestsOnce
<1>2. QED
  BY <1>1, FrameInvHolds, PTL

-----------------------------------------------------------------------------
(* The refinement of AtomicWorld *)

\* AtomicWorld speaks of the same inputs and of the same effects.
LEMMA SameInputs ==
  /\ Atomic!Input = Input /\ Atomic!InitialWorld = InitialWorld
  /\ \A w, i, now : Atomic!applyInput(w, i, now) = applyInput(w, i, now)
  /\ \A w : Atomic!decay(w) = decay(w)
  BY DEF Atomic!Input, Atomic!MoveInput, Atomic!HitInput, Input, MoveInput, HitInput,
         Atomic!InitialWorld, InitialWorld, Atomic!decay, decay,
         Atomic!applyInput, Atomic!applyMovement, Atomic!applyCombat, Atomic!applySpell,
         applyInput, applyMovement, applyCombat, applySpell,
         Atomic!lowered, lowered, Atomic!damage, damage, Atomic!conductivity, conductivity,
         Atomic!kAttackCooldownTicks, kAttackCooldownTicks, Atomic!kSpellCooldownTicks,
         kSpellCooldownTicks, Atomic!spellMpCost, spellMpCost

\* g gives the world after each of the first len inputs of f.
WorldsOf(g, w, f, now, len) ==
  g = [n \in 0..len |-> IF n = 0 THEN w ELSE Atomic!applyInput(g[n - 1], f[n], now)]

\* The worlds after each input of a frame exist as a function: for a smallest
\* length without one, it would be that of the length before with one more.
LEMMA WorldsExist ==
  ASSUME NEW w, NEW f, NEW now, NEW len \in Nat
  PROVE  \E g : WorldsOf(g, w, f, now, len)
<1> USE DEF WorldsOf
<1> DEFINE Is(g, l) == g = [n \in 0..l |-> IF n = 0 THEN w ELSE Atomic!applyInput(g[n - 1], f[n], now)]
           T == {l \in Nat : ~\E g : Is(g, l)}
           R == OpToRel(<, Nat)
<1>1. SUFFICES ASSUME T # {} PROVE FALSE
  OBVIOUS
<1>2. IsWellFoundedOn(R, Nat)
  BY NatLessThanWellFounded
<1>3. PICK l \in T : \A m \in T : ~ (<<m, l>> \in R)
  <2>1. T \subseteq Nat
    OBVIOUS
  <2> HIDE DEF T, R
  <2>2. QED
    BY <1>1, <1>2, <2>1, WFMin
<1>4. l \in Nat
  OBVIOUS
<1>5. ~\E g : Is(g, l)
  OBVIOUS
<1>6. CASE l = 0
  <2> DEFINE g == [n \in 0..0 |-> w]
  <2>1. Is(g, 0)
    OBVIOUS
  <2>2. QED
    BY <1>5, <1>6, <2>1
<1>7. CASE l # 0
  <2>1. l - 1 \in Nat /\ <<l - 1, l>> \in R
    BY <1>4, <1>7 DEF OpToRel
  <2>2. PICK g : Is(g, l - 1)
    BY <1>3, <2>1
  <2> DEFINE h == [n \in 0..l |-> IF n = l THEN Atomic!applyInput(g[l - 1], f[l], now) ELSE g[n]]
  <2>3. ASSUME NEW n \in 0..l
        PROVE  h[n] = IF n = 0 THEN w ELSE Atomic!applyInput(h[n - 1], f[n], now)
    <3>0. n \in Nat /\ n <= l
      <4> HIDE DEF T, R, Is, h
      <4>1. QED
        BY <1>4
    <3>1. CASE n = 0
      <4>1. 0 \in 0..(l - 1) /\ 0 # l
        <5> HIDE DEF T, R, Is, h
        <5>1. QED
          BY <1>7, <2>1
      <4>2. g[0] = w
        BY <2>2, <4>1
      <4>3. h[0] = g[0]
        BY <3>1, <4>1
      <4>4. QED
        BY <3>1, <4>2, <4>3
    <3>2. CASE n # 0 /\ n = l
      <4>1. n - 1 \in 0..l /\ n - 1 # l
        <5> HIDE DEF T, R, Is, h
        <5>1. QED
          BY <1>4, <3>0, <3>2
      <4>2. h[n - 1] = g[l - 1]
        BY <3>2, <4>1
      <4>3. h[n] = Atomic!applyInput(g[l - 1], f[l], now)
        BY <3>2
      <4>4. QED
        BY <3>2, <4>2, <4>3
    <3>3. CASE n # 0 /\ n # l
      <4>1. n \in 0..(l - 1) /\ n - 1 \in 0..l /\ n - 1 # l
        <5> HIDE DEF T, R, Is, h
        <5>1. QED
          BY <1>4, <3>0, <3>3
      <4>2. g[n] = Atomic!applyInput(g[n - 1], f[n], now)
        BY <2>2, <3>3, <4>1
      <4>3. h[n] = g[n] /\ h[n - 1] = g[n - 1]
        BY <3>3, <4>1
      <4>4. QED
        BY <3>3, <4>2, <4>3
    <3>4. QED
      BY <3>1, <3>2, <3>3
  <2>4. h = [n \in 0..l |-> h[n]]
    OBVIOUS
  <2> HIDE DEF h
  <2>5. Is(h, l)
    BY <2>3, <2>4
  <2>6. QED
    BY <1>5, <2>5
<1>8. QED
  BY <1>6, <1>7

\* What afterInputs tells about its frame.
LEMMA AfterInputs ==
  ASSUME NEW w, NEW f \in Seq(Input), NEW now
  PROVE  LET g == Atomic!afterInputs(w, f, now) IN
         /\ g[0] = w
         /\ \A n \in 1..Len(f) : g[n] = applyInput(g[n - 1], f[n], now)
<1> DEFINE g == Atomic!afterInputs(w, f, now)
           len == Len(f)
<1>1. len \in Nat
  BY LenProperties
<1>2. g = CHOOSE h : h = [n \in 0..len |-> IF n = 0 THEN w ELSE Atomic!applyInput(h[n - 1], f[n], now)]
  BY DEF Atomic!afterInputs
<1> HIDE DEF g, len
<1>3. \E h : h = [n \in 0..len |-> IF n = 0 THEN w ELSE Atomic!applyInput(h[n - 1], f[n], now)]
  <2>1. \E h : WorldsOf(h, w, f, now, len)
    BY <1>1, WorldsExist
  <2>2. QED
    BY <2>1 DEF WorldsOf
<1>4. g = [n \in 0..len |-> IF n = 0 THEN w ELSE Atomic!applyInput(g[n - 1], f[n], now)]
  BY <1>2, <1>3
<1>5. \A n \in 1..len : n \in 0..len /\ n # 0
  BY <1>1
<1>6. 0 \in 0..len
  BY <1>1
<1>7. g[0] = w /\ \A n \in 1..len : g[n] = Atomic!applyInput(g[n - 1], f[n], now)
  BY <1>4, <1>5, <1>6
<1>8. QED
  BY <1>7, SameInputs DEF g, len

\* w is the world after the first k inputs of f.
WorldAfter(w, start, f, now, k) == w = Atomic!afterInputs(start, f, now)[k]

\* During the second pass the world is that of the inputs applied so far.
RunInv == stage = "apply" => WorldAfter(world, before, taken, tick, Len(taken) - Len(frame))

\* A frame that is taken starts with the world as it is.
LEMMA NoneApplied ==
  ASSUME NEW w, NEW f \in Seq(Input), NEW now
  PROVE  WorldAfter(w, w, f, now, 0)
  BY AfterInputs DEF WorldAfter

\* One more input is applied.
LEMMA OneMoreApplied ==
  ASSUME NEW w, NEW start, NEW f \in Seq(Input), NEW now, NEW k \in Nat, k < Len(f),
         WorldAfter(w, start, f, now, k)
  PROVE  WorldAfter(applyInput(w, f[k + 1], now), start, f, now, k + 1)
<1> DEFINE g == Atomic!afterInputs(start, f, now)
<1>1. \A n \in 1..Len(f) : g[n] = applyInput(g[n - 1], f[n], now)
  BY AfterInputs
<1>2. w = g[k]
  BY DEF WorldAfter
<1> HIDE DEF g
<1>3. Len(f) \in Nat
  BY LenProperties
<1>4. k + 1 \in 1..Len(f) /\ (k + 1) - 1 = k
  BY <1>3
<1>5. g[k + 1] = applyInput(g[(k + 1) - 1], f[k + 1], now)
  BY <1>1, <1>4, Zenon
<1>6. g[k + 1] = applyInput(w, f[k + 1], now)
  BY ONLY <1>2, <1>4, <1>5, Zenon
<1>7. QED
  BY <1>6 DEF g, WorldAfter

\* The steps that are part of a frame, and those that are not.
LEMMA OtherSteps ==
  ASSUME [Next]_vars, ~TakeFrame, ~ApplyInput, ~Rollback, ~Commit
  PROVE  UNCHANGED passVars
<1>1. CASE UNCHANGED vars
  BY <1>1 DEF vars, passVars
<1>2. ASSUME NEW s \in Sessions, Login(s) \/ Logout(s)
      PROVE  UNCHANGED passVars
  BY <1>2 DEF Login, Logout
<1>3. ASSUME NEW s \in Sessions, NEW q \in 0..MaxSeq, NEW d \in {-1, 1}, Move(s, q, d)
      PROVE  UNCHANGED passVars
  BY <1>3 DEF Move
<1>4. ASSUME NEW kind \in {"attack", "spell"}, NEW s \in Sessions, NEW p \in Targets, NEW r \in Requests,
             NEW power \in Powers, Hit(kind, s, p, r, power)
      PROVE  UNCHANGED passVars
  BY <1>4 DEF Hit
<1>5. QED
  BY <1>1, <1>2, <1>3, <1>4 DEF Next

LEMMA RunInvStep ==
  ASSUME FrameInv, RunInv, [Next]_vars
  PROVE  RunInv'
<1>1. TypeOK /\ FrameShape
  BY DEF FrameInv
<1>2. pending \in Seq(Input) /\ taken \in Seq(Input) /\ frame \in Seq(Input)
  BY <1>1 DEF TypeOK
<1>3. CASE TakeFrame
  <2>1. CASE stage' = "apply"
    <3>1. frame' = pending /\ taken' = pending /\ before' = world /\ world' = world
      BY <1>3, <2>1 DEF TakeFrame
    <3>2. Len(taken') - Len(frame') = 0
      <4>1. Len(pending) \in Nat
        BY <1>2, LenProperties
      <4>2. QED
        BY <3>1, <4>1
    <3>3. WorldAfter(world, world, pending, tick', 0)
      BY <1>2, NoneApplied
    <3>4. WorldAfter(world', before', taken', tick', Len(taken') - Len(frame'))
      BY ONLY <3>1, <3>2, <3>3, Zenon
    <3>5. QED
      BY <3>4 DEF RunInv
  <2>2. QED
    BY <2>1 DEF RunInv
<1>4. CASE ApplyInput
  <2>1. /\ stage = "apply" /\ frame # <<>> /\ world' = applyInput(world, Head(frame), tick)
        /\ frame' = Tail(frame) /\ UNCHANGED <<tick, before, taken>>
    BY <1>4 DEF ApplyInput
  <2> DEFINE k == Len(taken) - Len(frame)
  <2>2. /\ Len(frame) \in Nat /\ Len(frame) > 0 /\ 1 \in 1..Len(frame) /\ Head(frame) = frame[1]
        /\ Len(Tail(frame)) = Len(frame) - 1
    BY <1>2, <2>1, TailInput
  <2>3. Len(taken) \in Nat /\ Len(frame) <= Len(taken)
    BY <1>1, <1>2, LenProperties DEF FrameShape
  <2>4. k \in Nat /\ k < Len(taken) /\ Len(taken) - Len(Tail(frame)) = k + 1
    <3> DEFINE t == Len(taken)
               f == Len(frame)
               r == Len(Tail(frame))
    <3>1. f \in Nat /\ f > 0 /\ r = f - 1 /\ t \in Nat /\ f <= t
      BY <2>2, <2>3
    <3> HIDE DEF t, f, r
    <3>2. t - f \in Nat /\ t - f < t /\ t - r = (t - f) + 1
      BY <3>1
    <3>3. QED
      BY ONLY <3>2 DEF t, f, r
  <2>5. Head(frame) = taken[k + 1]
    BY <1>1, <2>2 DEF FrameShape
  <2>6. WorldAfter(world, before, taken, tick, k)
    BY <2>1 DEF RunInv
  <2> HIDE DEF k
  <2>7. WorldAfter(applyInput(world, taken[k + 1], tick), before, taken, tick, k + 1)
    BY <1>2, <2>4, <2>6, OneMoreApplied
  <2>8. WorldAfter(world', before', taken', tick', Len(taken') - Len(frame'))
    BY ONLY <2>1, <2>4, <2>5, <2>7, Zenon
  <2>9. QED
    BY <2>8 DEF RunInv
<1>5. CASE Rollback \/ Commit
  BY <1>5 DEF Rollback, Commit, RunInv
<1>6. CASE UNCHANGED passVars
  <2>1. UNCHANGED <<stage, world, before, taken, tick, frame>>
    BY <1>6 DEF passVars
  <2>2. QED
    BY <2>1 DEF RunInv
<1>7. QED
  BY <1>3, <1>4, <1>5, <1>6, OtherSteps

\* Every step is one of the atomic world's, or none.
LEMMA AtomicStep ==
  ASSUME FrameInv, RunInv, [Next]_vars
  PROVE  [Atomic!Tick \/ Atomic!Settle]_<<before, tick, stage = "apply", taken>>
<1>1. TypeOK /\ FrameShape
  BY DEF FrameInv
<1>2. pending \in Seq(Input) /\ Atomic!Input = Input
  BY <1>1, SameInputs DEF TypeOK
<1>3. CASE TakeFrame
  <2>1. stage = "collect" /\ taken = <<>> /\ world = before /\ tick' = tick + 1
    BY <1>1, <1>3 DEF TakeFrame, FrameShape
  <2>2. CASE validFrame(pending, tick + 1)
    <3>1. stage' = "apply" /\ taken' = pending /\ before' = before
      BY <1>3, <2>1, <2>2 DEF TakeFrame
    <3>2. QED
      BY <1>2, <2>1, <3>1 DEF Atomic!Tick
  <2>3. CASE ~validFrame(pending, tick + 1)
    <3>1. stage' = "collect" /\ taken' = <<>> /\ before' = before
      BY <1>3, <2>1, <2>3 DEF TakeFrame
    <3>2. QED
      BY <2>1, <3>1 DEF Atomic!Tick
  <2>4. QED
    BY <2>2, <2>3
<1>4. CASE ApplyInput
  BY <1>4 DEF ApplyInput
<1>5. CASE Rollback
  <2>1. stage = "apply" /\ stage' = "collect" /\ taken' = <<>> /\ UNCHANGED <<tick, before>>
    BY <1>5 DEF Rollback
  <2>2. QED
    BY <2>1 DEF Atomic!Settle
<1>6. CASE Commit
  <2>1. /\ stage = "apply" /\ stage' = "collect" /\ taken' = <<>> /\ frame = <<>> /\ UNCHANGED tick
        /\ before' = decay(world)
    BY <1>6 DEF Commit
  <2>2. Len(taken) - Len(frame) = Len(taken)
    <3>1. Len(taken) \in Nat /\ Len(frame) = 0
      BY <1>1, <2>1, LenProperties DEF TypeOK
    <3>2. QED
      BY <3>1
  <2>3. world = Atomic!afterInputs(before, taken, tick)[Len(taken)]
    BY <2>1, <2>2 DEF RunInv, WorldAfter
  <2>4. before' = Atomic!afterFrame(before, taken, tick)
    <3>1. before' = Atomic!decay(world)
      BY <2>1, SameInputs
    <3>2. QED
      BY <2>3, <3>1, Zenon DEF Atomic!afterFrame
  <2>5. QED
    BY <2>1, <2>4 DEF Atomic!Settle
<1>7. CASE UNCHANGED passVars
  BY <1>7 DEF passVars
<1>8. QED
  BY <1>3, <1>4, <1>5, <1>6, <1>7, OtherSteps

\* WorldFrame implements AtomicWorld: the copies that processInputs keeps change
\* by whole frames, each applied in full and in order or not at all, and between
\* frames the world is what they are.
THEOREM FramesAreAtomic == Spec => ImplementsAtomicWorld
<1>1. Init => Atomic!Init /\ RunInv
  BY SameInputs DEF Init, Atomic!Init, RunInv
<1>2. FrameInv /\ RunInv /\ [Next]_vars => RunInv'
  BY RunInvStep
<1>3. FrameInv /\ RunInv /\ [Next]_vars
        => [Atomic!Tick \/ Atomic!Settle]_<<before, tick, stage = "apply", taken>>
  BY AtomicStep
<1>4. FrameInv => (stage = "collect" => world = before)
  BY DEF FrameInv, FrameShape
<1>5. QED
  BY <1>1, <1>2, <1>3, <1>4, FrameInvHolds, PTL DEF Spec, Atomic!Spec, ImplementsAtomicWorld
=============================================================================
