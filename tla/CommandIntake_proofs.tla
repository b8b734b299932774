------------------------ MODULE CommandIntake_proofs ------------------------
(***************************************************************************)
(* Proofs about CommandIntake, for any number of connections and commands, *)
(* frames of any size and any limits.                                      *)
(***************************************************************************)
EXTENDS CommandIntake, SequenceTheorems, FiniteSetTheorems, WellFoundedInduction, TLAPS

\* The limits are numbers, no frame is empty or longer than the accumulator takes,
\* and a read is not longer than the longest frame.
IntakeConstants ==
  /\ Connections \in Nat /\ MaxPending \in Nat /\ MaxPerConnection \in Nat
  /\ ReadBuffer \in Nat /\ MaxFrame \in Nat /\ ReadBuffer <= MaxFrame
  /\ \A k \in Commands : k.size \in Nat /\ k.size > 0 /\ k.size <= MaxFrame

-----------------------------------------------------------------------------
(* Streams of units *)

\* The units of the commands cs, and the one that comes after u.
UnitsOf(cs) == {u \in (1..Len(cs)) \X Nat : u[2] > 0 /\ u[2] <= cs[u[1]].size}
nextUnit(cs, u) == IF u[2] < cs[u[1]].size THEN <<u[1], u[2] + 1>> ELSE <<u[1] + 1, 1>>

\* A part of the stream of cs without a gap.
Chain(cs, s) ==
  /\ s \in Seq(UnitsOf(cs))
  /\ \A i \in 1..Len(s) : i + 1 <= Len(s) => s[i + 1] = nextUnit(cs, s[i])

\* A unit has two numbers.
LEMMA UnitFields ==
  ASSUME NEW cs \in Seq(Commands), NEW u \in UnitsOf(cs), IntakeConstants
  PROVE  /\ u[1] \in 1..Len(cs) /\ u[1] \in Nat /\ u[2] \in Nat /\ u[2] > 0 /\ u = <<u[1], u[2]>>
         /\ cs[u[1]] \in Commands /\ cs[u[1]].size \in Nat /\ u[2] <= cs[u[1]].size
<1>1. u \in (1..Len(cs)) \X Nat /\ u[2] > 0 /\ u[2] <= cs[u[1]].size
  BY DEF UnitsOf
<1>2. u[1] \in 1..Len(cs) /\ u[2] \in Nat /\ u = <<u[1], u[2]>>
  BY <1>1
<1>3. Len(cs) \in Nat
  BY LenProperties
<1>4. u[1] \in Nat
  BY <1>2, <1>3
<1>5. cs[u[1]] \in Commands
  BY <1>2, ElementOfSeq
<1>6. cs[u[1]].size \in Nat
  BY <1>5 DEF IntakeConstants
<1>7. QED
  BY <1>1, <1>2, <1>4, <1>5, <1>6

\* What is cut out of a chain is one.
LEMMA ChainPart ==
  ASSUME NEW cs, NEW s, Chain(cs, s), NEW S, NEW t \in Seq(S), NEW k \in Nat, k + Len(t) <= Len(s),
         \A i \in 1..Len(t) : t[i] = s[k + i]
  PROVE  Chain(cs, t)
<1>1. s \in Seq(UnitsOf(cs)) /\ \A i \in 1..Len(s) : i + 1 <= Len(s) => s[i + 1] = nextUnit(cs, s[i])
  BY DEF Chain
<1>2. Len(t) \in Nat /\ Len(s) \in Nat
  BY <1>1, LenProperties
<1>3. \A i \in 1..Len(t) : k + i \in 1..Len(s)
  BY <1>2
<1>4. \A i \in 1..Len(t) : t[i] \in UnitsOf(cs)
  BY <1>1, <1>3, ElementOfSeq
<1>5. t \in Seq(UnitsOf(cs))
  <2>1. t = [i \in 1..Len(t) |-> t[i]]
    BY LenProperties
  <2> DEFINE l == Len(t)
  <2> HIDE DEF l
  <2>2. l \in Nat /\ (\A i \in 1..l : t[i] \in UnitsOf(cs)) /\ t = [i \in 1..l |-> t[i]]
    BY <1>2, <1>4, <2>1 DEF l
  <2>3. t \in [1..l -> UnitsOf(cs)]
    BY <2>2
  <2>4. QED
    BY <2>2, <2>3, SeqDef
<1>6. ASSUME NEW i \in 1..Len(t), i + 1 <= Len(t)
      PROVE  t[i + 1] = nextUnit(cs, t[i])
  <2>1. i + 1 \in 1..Len(t) /\ k + i \in 1..Len(s) /\ (k + i) + 1 <= Len(s) /\ k + (i + 1) = (k + i) + 1
    BY <1>2, <1>6
  <2>2. t[i] = s[k + i] /\ t[i + 1] = s[k + (i + 1)]
    BY <2>1
  <2>3. s[(k + i) + 1] = nextUnit(cs, s[k + i])
    BY <1>1, <2>1
  <2>4. QED
    BY ONLY <2>1, <2>2, <2>3, Zenon
<1>7. QED
  BY <1>5, <1>6 DEF Chain

\* Along a chain the places do not descend, and a header begins a new place.
LEMMA ChainAscends ==
  ASSUME IntakeConstants, NEW cs \in Seq(Commands), NEW s, Chain(cs, s),
         NEW i \in 1..Len(s), NEW j \in 1..Len(s), i <= j
  PROVE  s[i][1] <= s[j][1] /\ (i < j /\ s[j][2] = 1 => s[i][1] < s[j][1])
<1> DEFINE Up(m) == s[i][1] <= s[m][1] /\ (i < m /\ s[m][2] = 1 => s[i][1] < s[m][1])
           T == {m \in Nat : m \in i..Len(s) /\ ~Up(m)}
           R == OpToRel(<, Nat)
<1>0. /\ s \in Seq(UnitsOf(cs)) /\ Len(s) \in Nat
      /\ \A n \in 1..Len(s) : n + 1 <= Len(s) => s[n + 1] = nextUnit(cs, s[n])
  BY LenProperties DEF Chain
<1>1. SUFFICES ASSUME T # {} PROVE FALSE
  BY <1>0
<1>2. IsWellFoundedOn(R, Nat)
  BY NatLessThanWellFounded
<1>3. PICK m \in T : \A n \in T : ~ (<<n, m>> \in R)
  <2>1. T \subseteq Nat
    OBVIOUS
  <2> HIDE DEF T, R
  <2>2. QED
    BY <1>1, <1>2, <2>1, WFMin
<1>4. m \in Nat /\ m \in i..Len(s) /\ ~Up(m)
  OBVIOUS
<1>5. \A n \in 1..Len(s) : s[n] \in UnitsOf(cs)
  BY <1>0, ElementOfSeq
<1>6. s[i][1] \in Nat
  BY <1>5, UnitFields
<1>7. CASE m = i
  BY <1>4, <1>6, <1>7
<1>8. CASE m # i
  <2>1. /\ m - 1 \in Nat /\ m - 1 \in 1..Len(s) /\ (m - 1) + 1 = m /\ (m - 1) + 1 <= Len(s)
        /\ m - 1 \in i..Len(s) /\ m \in 1..Len(s) /\ i < m /\ m - 1 < m
    <3> HIDE DEF T, R, Up
    <3>1. QED
      BY <1>0, <1>4, <1>8
  <2>2. <<m - 1, m>> \in R
    <3> HIDE DEF T, Up
    <3>1. QED
      BY <1>4, <2>1 DEF OpToRel
  <2>3. Up(m - 1)
    BY <1>3, <2>1, <2>2
  <2> DEFINE u == s[m - 1]
             v == s[m]
  <2>4. v = nextUnit(cs, u)
    <3> HIDE DEF T, R, Up
    <3>1. s[(m - 1) + 1] = nextUnit(cs, s[m - 1])
      BY <1>0, <2>1
    <3>2. QED
      BY ONLY <2>1, <3>1, Zenon
  <2>5. s[i][1] <= u[1]
    BY <2>3
  <2>6. u \in UnitsOf(cs) /\ v \in UnitsOf(cs)
    BY <1>5, <2>1
  <2> HIDE DEF u, v, Up, T, R
  <2>7. u[1] \in Nat /\ u[2] \in Nat /\ u[2] > 0
    BY <2>6, UnitFields
  <2>8. u[1] <= v[1] /\ (v[2] = 1 => u[1] < v[1])
    <3>1. CASE u[2] < cs[u[1]].size
      <4>1. v[1] = u[1] /\ v[2] = u[2] + 1
        BY <2>4, <3>1 DEF nextUnit
      <4>2. QED
        BY <2>7, <4>1
    <3>2. CASE ~(u[2] < cs[u[1]].size)
      <4>1. v[1] = u[1] + 1
        BY <2>4, <3>2 DEF nextUnit
      <4>2. QED
        BY <2>7, <4>1
    <3>3. QED
      BY <3>1, <3>2
  <2>9. v[1] \in Nat
    BY <2>6, UnitFields
  <2>10. s[i][1] <= v[1] /\ (v[2] = 1 => s[i][1] < v[1])
    BY <1>6, <2>5, <2>7, <2>8, <2>9
  <2>11. QED
    BY <1>4, <2>10 DEF Up, v
<1>9. QED
  BY <1>7, <1>8

-----------------------------------------------------------------------------
(* The accumulator *)

\* a holds the frames of the first k units of the stream u, which begins with a
\* header, and what is left of them.
Parsed(cs, u, k, a) ==
  LET r == Len(a.rest)
      next == u[1][1] + Len(a.ready)
  IN
  /\ a \in [ready : Seq(Nat), rest : Seq(Nat \X Nat)] /\ r <= k
  /\ \A i \in 1..Len(a.ready) : a.ready[i] = u[1][1] + (i - 1)
  /\ \A i \in 1..r : a.rest[i] = u[(k - r) + i]
  /\ r > 0 => a.rest[1] = <<next, 1>> /\ a.rest[r] = <<next, r>> /\ r < cs[next].size
  /\ r = 0 /\ k < Len(u) => u[k + 1] = <<next, 1>>
  /\ r = 0 /\ k = Len(u) => u[k][1] = next - 1

\* At the beginning nothing is parsed.
LEMMA ParsedFirst ==
  ASSUME NEW cs \in Seq(Commands), IntakeConstants, NEW u, Chain(cs, u), u # <<>>, u[1][2] = 1
  PROVE  Parsed(cs, u, 0, [ready |-> <<>>, rest |-> <<>>])
<1> DEFINE a == [ready |-> <<>>, rest |-> <<>>]
<1>1. u \in Seq(UnitsOf(cs)) /\ Len(u) \in Nat /\ Len(u) # 0
  BY LenProperties, EmptySeq DEF Chain
<1>2. 1 \in 1..Len(u)
  BY <1>1
<1>3. u[1] \in UnitsOf(cs)
  BY <1>1, <1>2, ElementOfSeq
<1>4. u[1] = <<u[1][1], 1>> /\ u[1][1] \in Nat
  BY <1>3, UnitFields
<1>5. a.ready = <<>> /\ a.rest = <<>> /\ Len(<<>>) = 0 /\ a \in [ready : Seq(Nat), rest : Seq(Nat \X Nat)]
  BY EmptySeq
<1>6. u[1][1] + 0 = u[1][1]
  BY <1>4
<1> HIDE DEF a
<1>7. Len(a.rest) = 0 /\ Len(a.ready) = 0 /\ u[1][1] + Len(a.ready) = u[1][1]
  BY <1>5, <1>6
<1>8. QED
  BY <1>1, <1>4, <1>5, <1>7 DEF Parsed, a

\* The unit that comes next is the next part of the frame that is left.
LEMMA ParsedUnit ==
  ASSUME NEW cs \in Seq(Commands), IntakeConstants, NEW u, Chain(cs, u), u # <<>>,
         NEW k \in Nat, k < Len(u), NEW a, Parsed(cs, u, k, a)
  PROVE  LET next == u[1][1] + Len(a.ready) IN
         /\ next \in Nat /\ Len(a.rest) \in Nat /\ Len(a.ready) \in Nat
         /\ u[k + 1] = <<next, Len(a.rest) + 1>>
         /\ u[k + 1] \in UnitsOf(cs) /\ u[k + 1] \in Nat \X Nat
         /\ cs[next].size \in Nat /\ Len(a.rest) + 1 <= cs[next].size
         /\ Len(a.rest) > 0 => a.rest[1] = <<next, 1>>
<1> DEFINE r == Len(a.rest)
           next == u[1][1] + Len(a.ready)
           v == u[k + 1]
<1>1. /\ a.ready \in Seq(Nat) /\ a.rest \in Seq(Nat \X Nat) /\ r <= k
      /\ \A i \in 1..r : a.rest[i] = u[(k - r) + i]
      /\ r > 0 => a.rest[1] = <<next, 1>> /\ a.rest[r] = <<next, r>> /\ r < cs[next].size
      /\ r = 0 /\ k < Len(u) => u[k + 1] = <<next, 1>>
  BY DEF Parsed
<1>2. /\ u \in Seq(UnitsOf(cs)) /\ Len(u) \in Nat /\ r \in Nat /\ Len(a.ready) \in Nat
      /\ \A i \in 1..Len(u) : i + 1 <= Len(u) => u[i + 1] = nextUnit(cs, u[i])
  BY <1>1, LenProperties DEF Chain
<1>3. 1 \in 1..Len(u) /\ k + 1 \in 1..Len(u)
  BY <1>2
<1>4. u[1] \in UnitsOf(cs) /\ v \in UnitsOf(cs)
  BY <1>2, <1>3, ElementOfSeq
<1>5. next \in Nat
  <2>1. u[1][1] \in Nat
    BY <1>4, UnitFields
  <2>2. QED
    BY <1>2, <2>1
<1> HIDE DEF r, next
<1>6. v = <<next, r + 1>>
  <2>1. CASE r = 0
    <3>1. v = <<next, 1>>
      BY <1>1, <2>1
    <3>2. r + 1 = 1
      BY <2>1
    <3>3. QED
      BY ONLY <3>1, <3>2, Zenon
  <2>2. CASE r # 0
    <3>1. r > 0 /\ r \in 1..r /\ (k - r) + r = k /\ k \in 1..Len(u) /\ k + 1 <= Len(u)
      BY <1>1, <1>2, <2>2
    <3>2. a.rest[r] = u[(k - r) + r]
      BY <1>1, <3>1, Zenon
    <3>3. u[k] = <<next, r>> /\ r < cs[next].size
      BY ONLY <1>1, <3>1, <3>2, Zenon
    <3>4. v = nextUnit(cs, u[k])
      BY <1>2, <3>1
    <3>5. QED
      BY <3>3, <3>4 DEF nextUnit
  <2>3. QED
    BY <2>1, <2>2
<1> HIDE DEF v
<1>7. v[1] = next /\ v[2] = r + 1
  BY <1>6
<1>8. cs[v[1]].size \in Nat /\ v[2] <= cs[v[1]].size
  BY <1>4, UnitFields
<1>9. cs[next].size \in Nat /\ r + 1 <= cs[next].size
  BY ONLY <1>7, <1>8, Zenon
<1>10. v \in Nat \X Nat
  BY <1>2, <1>5, <1>6
<1>11. r > 0 => a.rest[1] = <<next, 1>>
  BY <1>1
<1>12. QED
  BY <1>2, <1>4, <1>5, <1>6, <1>9, <1>10, <1>11, Zenon DEF r, next, v

\* One unit more is parsed.
LEMMA ParsedNext ==
  ASSUME NEW c \in Conns, sent[c] \in Seq(Commands), IntakeConstants,
         NEW u, Chain(sent[c], u), u # <<>>,
         NEW k \in Nat, k < Len(u), NEW a, Parsed(sent[c], u, k, a)
  PROVE  Parsed(sent[c], u, k + 1, accumulate(c, a, u[k + 1]))
<1> DEFINE cs == sent[c]
           r == Len(a.rest)
           q == Len(a.ready)
           N == u[1][1]
           next == u[1][1] + Len(a.ready)
           v == u[k + 1]
           rest == Append(a.rest, v)
           b == accumulate(c, a, v)
<1>1. /\ a \in [ready : Seq(Nat), rest : Seq(Nat \X Nat)] /\ r <= k
      /\ \A i \in 1..q : a.ready[i] = N + (i - 1)
      /\ \A i \in 1..r : a.rest[i] = u[(k - r) + i]
  BY DEF Parsed
<1>2. /\ next \in Nat /\ r \in Nat /\ q \in Nat
      /\ v = <<next, r + 1>> /\ v \in UnitsOf(cs) /\ v \in Nat \X Nat
      /\ cs[next].size \in Nat /\ r + 1 <= cs[next].size
      /\ r > 0 => a.rest[1] = <<next, 1>>
  BY ParsedUnit
<1>3. /\ Len(u) \in Nat /\ k + 1 \in 1..Len(u)
      /\ (k + 1) + 1 <= Len(u) => u[(k + 1) + 1] = nextUnit(cs, v)
  <2>1. Len(u) \in Nat /\ \A i \in 1..Len(u) : i + 1 <= Len(u) => u[i + 1] = nextUnit(cs, u[i])
    BY LenProperties DEF Chain
  <2>2. k + 1 \in 1..Len(u)
    BY <2>1
  <2>3. QED
    BY <2>1, <2>2
<1>4. a.rest \in Seq(Nat \X Nat) /\ a.ready \in Seq(Nat)
  BY <1>1
<1>5. N \in Nat /\ next = N + q
  <2>1. u[1] \in UnitsOf(cs)
    <3>1. u \in Seq(UnitsOf(cs)) /\ 1 \in 1..Len(u)
      BY <1>3 DEF Chain
    <3>2. QED
      BY <3>1, ElementOfSeq
  <2>2. N \in Nat
    BY <2>1, UnitFields
  <2>3. QED
    BY <2>2
<1> HIDE DEF v, cs, next, r, q, N
<1>6. /\ rest \in Seq(Nat \X Nat) /\ Len(rest) = r + 1 /\ rest[r + 1] = v
      /\ \A i \in 1..r : rest[i] = a.rest[i]
  BY <1>2, <1>4, AppendProperties DEF r
<1>7. rest[1] = <<next, 1>>
  <2>1. CASE r = 0
    <3>1. r + 1 = 1
      BY <2>1
    <3>2. QED
      BY ONLY <1>2, <1>6, <3>1, Zenon
  <2>2. CASE r # 0
    <3>1. r > 0 /\ 1 \in 1..r
      BY <1>2, <2>2
    <3>2. QED
      BY <1>2, <1>6, <3>1
  <2>3. QED
    BY <2>1, <2>2
<1>8. Head(rest) = <<next, 1>>
  <2>1. Head(rest) = rest[1]
    <3> HIDE DEF rest
    <3>1. rest # <<>>
      BY <1>2, <1>6, EmptySeq
    <3>2. QED
      BY <1>6, <3>1, HeadTailProperties
  <2>2. QED
    BY <1>7, <2>1
<1>9. \A i \in 1..(r + 1) : rest[i] = u[((k + 1) - (r + 1)) + i]
  <2> SUFFICES ASSUME NEW i \in 1..(r + 1)
               PROVE  rest[i] = u[((k + 1) - (r + 1)) + i]
    OBVIOUS
  <2> HIDE DEF rest
  <2>1. CASE i = r + 1
    <3>1. ((k + 1) - (r + 1)) + i = k + 1
      BY <1>2, <2>1
    <3>2. QED
      BY ONLY <1>6, <2>1, <3>1, Zenon DEF v
  <2>2. CASE i # r + 1
    <3>1. i \in 1..r /\ ((k + 1) - (r + 1)) + i = (k - r) + i
      BY <1>2, <2>2
    <3>2. rest[i] = a.rest[i] /\ a.rest[i] = u[(k - r) + i]
      BY <1>1, <1>6, <3>1
    <3>3. QED
      BY ONLY <3>1, <3>2, Zenon
  <2>3. QED
    BY <2>1, <2>2
<1>10. Head(rest)[1] = next
  BY <1>8
<1>11. r + 1 <= k + 1 /\ r + 1 > 0
  BY <1>1, <1>2
<1>12. b = IF r + 1 < cs[next].size THEN [a EXCEPT !.rest = rest]
           ELSE [ready |-> Append(a.ready, next), rest |-> <<>>]
  <2>1. b = IF Len(rest) < sent[c][Head(rest)[1]].size THEN [a EXCEPT !.rest = rest]
            ELSE [ready |-> Append(a.ready, Head(rest)[1]), rest |-> <<>>]
    BY DEF accumulate
  <2> HIDE DEF b, rest
  <2>2. QED
    BY ONLY <1>6, <1>10, <2>1, Zenon DEF cs
<1> HIDE DEF rest, b
<1>13. CASE r + 1 < cs[next].size
  <2>1. b \in [ready : Seq(Nat), rest : Seq(Nat \X Nat)] /\ b.ready = a.ready /\ b.rest = rest
    BY <1>1, <1>6, <1>12, <1>13
  <2>2. Len(b.rest) = r + 1 /\ Len(b.ready) = q /\ N + Len(b.ready) = next
    BY <1>5, <1>6, <2>1 DEF q
  <2>3. b.rest[1] = <<next, 1>> /\ b.rest[r + 1] = <<next, r + 1>>
    BY <1>2, <1>6, <1>7, <2>1
  <2>4. \A i \in 1..q : b.ready[i] = N + (i - 1)
    BY <1>1, <2>1
  <2>5. \A i \in 1..(r + 1) : b.rest[i] = u[((k + 1) - (r + 1)) + i]
    BY <1>9, <2>1
  <2>6. r + 1 # 0
    BY <1>2
  <2>7. Parsed(cs, u, k + 1, b)
    BY <1>11, <1>13, <2>1, <2>2, <2>3, <2>4, <2>5, <2>6, Zenon DEF Parsed, N
  <2>8. QED
    BY <2>7 DEF b, cs, v
<1>14. CASE ~(r + 1 < cs[next].size)
  <2>1. b = [ready |-> Append(a.ready, next), rest |-> <<>>]
    BY <1>12, <1>14
  <2>2. /\ Append(a.ready, next) \in Seq(Nat) /\ Len(Append(a.ready, next)) = q + 1
        /\ Append(a.ready, next)[q + 1] = next
        /\ \A i \in 1..q : Append(a.ready, next)[i] = a.ready[i]
    BY <1>2, <1>4, AppendProperties DEF q
  <2>3. /\ b \in [ready : Seq(Nat), rest : Seq(Nat \X Nat)]
        /\ b.ready = Append(a.ready, next) /\ b.rest = <<>>
    BY <2>1, <2>2, EmptySeq
  <2>4. Len(b.rest) = 0 /\ Len(b.ready) = q + 1 /\ N + Len(b.ready) = next + 1
    <3>1. N + (q + 1) = next + 1
      BY <1>2, <1>5
    <3>2. Len(<<>>) = 0
      BY EmptySeq
    <3>3. QED
      BY ONLY <2>2, <2>3, <3>1, <3>2, Zenon
  <2>5. \A i \in 1..(q + 1) : b.ready[i] = N + (i - 1)
    <3> SUFFICES ASSUME NEW i \in 1..(q + 1)
                 PROVE  b.ready[i] = N + (i - 1)
      OBVIOUS
    <3>1. CASE i = q + 1
      <4>1. N + (i - 1) = next
        BY <1>2, <1>5, <3>1
      <4>2. QED
        BY ONLY <2>2, <2>3, <3>1, <4>1, Zenon
    <3>2. CASE i # q + 1
      <4>1. i \in 1..q
        BY <1>2, <3>2
      <4>2. QED
        BY <1>1, <2>2, <2>3, <4>1
    <3>3. QED
      BY <3>1, <3>2
  <2>6. r + 1 = cs[next].size
    BY <1>2, <1>14
  <2>7. k + 1 < Len(u) => u[(k + 1) + 1] = <<next + 1, 1>>
    <3>1. k + 1 < Len(u) => (k + 1) + 1 <= Len(u)
      BY <1>3
    <3>2. v[1] = next /\ v[2] = r + 1
      BY <1>2
    <3>3. ~(v[2] < cs[v[1]].size)
      BY <1>14, <3>2
    <3>4. nextUnit(cs, v) = <<next + 1, 1>>
      BY <3>2, <3>3 DEF nextUnit
    <3>5. QED
      BY <1>3, <3>1, <3>4
  <2>8. u[k + 1][1] = (next + 1) - 1
    BY <1>2 DEF v
  <2>9. 0 <= k + 1 /\ ~(0 > 0) /\ 1..0 = {}
    OBVIOUS
  <2>10. Parsed(cs, u, k + 1, b)
    BY <2>3, <2>4, <2>5, <2>7, <2>8, <2>9, Zenon DEF Parsed, N
  <2>11. QED
    BY <2>10 DEF b, cs, v
<1>15. QED
  BY <1>13, <1>14

\* g gives what is accumulated after each of the first len units of s.
AccumulatedOf(g, c, s, len) ==
  g = [n \in 0..len |->
         IF n = 0 THEN [ready |-> <<>>, rest |-> <<>>] ELSE accumulate(c, g[n - 1], s[n])]

\* It exists as a function: for a smallest length without one, it would be that
\* of the length before with one more.
LEMMA AccumulatedExists ==
  ASSUME NEW c, NEW s, NEW len \in Nat
  PROVE  \E g : AccumulatedOf(g, c, s, len)
<1> DEFINE T == {l \in Nat : ~\E g : AccumulatedOf(g, c, s, l)}
           R == OpToRel(<, Nat)
           empty == [ready |-> <<>>, rest |-> <<>>]
<1>1. SUFFICES ASSUME T # {} PROVE FALSE
  OBVIOUS
<1>2. IsWellFoundedOn(R, Nat)
  BY NatLessThanWellFounded
<1>3. PICK l \in T : \A m \in T : ~ (<<m, l>> \in R)
  <2>1. T \subseteq Nat
    OBVIOUS
  <2> HIDE DEF T, R
  <2>2. QED
    BY <1>1, <1>2, <2>1, WFMin
<1>4. l \in Nat
  OBVIOUS
<1>5. ~\E g : AccumulatedOf(g, c, s, l)
  OBVIOUS
<1>6. CASE l = 0
  <2> DEFINE g == [n \in 0..0 |-> empty]
  <2>1. AccumulatedOf(g, c, s, 0)
    BY DEF AccumulatedOf
  <2>2. QED
    BY <1>5, <1>6, <2>1
<1>7. CASE l # 0
  <2>1. l - 1 \in Nat /\ <<l - 1, l>> \in R
    BY <1>4, <1>7 DEF OpToRel
  <2>2. PICK g : AccumulatedOf(g, c, s, l - 1)
    BY <1>3, <2>1
  <2> DEFINE h == [n \in 0..l |-> IF n = l THEN accumulate(c, g[l - 1], s[l]) ELSE g[n]]
  <2>3. ASSUME NEW n \in 0..l
        PROVE  h[n] = IF n = 0 THEN empty ELSE accumulate(c, h[n - 1], s[n])
    <3>0. n \in Nat /\ n <= l
      <4> HIDE DEF T, R, h, empty
      <4>1. QED
        BY <1>4
    <3>1. CASE n = 0
      <4>1. 0 \in 0..(l - 1) /\ 0 # l
        <5> HIDE DEF T, R, h, empty
        <5>1. QED
          BY <1>7, <2>1
      <4>2. g[0] = empty
        BY <2>2, <4>1 DEF AccumulatedOf
      <4>3. h[0] = g[0]
        BY <3>1, <4>1
      <4>4. QED
        BY <3>1, <4>2, <4>3
    <3>2. CASE n # 0 /\ n = l
      <4>1. n - 1 \in 0..l /\ n - 1 # l
        <5> HIDE DEF T, R, h, empty
        <5>1. QED
          BY <1>4, <3>0, <3>2
      <4>2. h[n - 1] = g[l - 1]
        BY <3>2, <4>1
      <4>3. h[n] = accumulate(c, g[l - 1], s[l])
        BY <3>2
      <4> HIDE DEF h
      <4>4. QED
        BY <3>2, <4>2, <4>3, Zenon
    <3>3. CASE n # 0 /\ n # l
      <4>1. n \in 0..(l - 1) /\ n - 1 \in 0..l /\ n - 1 # l
        <5> HIDE DEF T, R, h, empty
        <5>1. QED
          BY <1>4, <3>0, <3>3
      <4>2. g[n] = accumulate(c, g[n - 1], s[n])
        BY <2>2, <3>3, <4>1 DEF AccumulatedOf
      <4>3. h[n] = g[n] /\ h[n - 1] = g[n - 1]
        BY <3>3, <4>1
      <4> HIDE DEF h
      <4>4. QED
        BY <3>3, <4>2, <4>3, Zenon
    <3>4. QED
      BY <3>1, <3>2, <3>3
  <2>4. h = [n \in 0..l |-> h[n]]
    OBVIOUS
  <2> HIDE DEF h
  <2>5. AccumulatedOf(h, c, s, l)
    BY <2>3, <2>4 DEF AccumulatedOf
  <2>6. QED
    BY <1>5, <2>5
<1>8. QED
  BY <1>6, <1>7

\* frames parses what is read of a stream that begins with a header.
LEMMA FramesParsed ==
  ASSUME NEW c \in Conns, sent[c] \in Seq(Commands), IntakeConstants,
         NEW u, Chain(sent[c], u), u # <<>>, u[1][2] = 1,
         NEW S, NEW s \in Seq(S), Len(s) <= Len(u), \A i \in 1..Len(s) : s[i] = u[i]
  PROVE  Parsed(sent[c], u, Len(s), frames(c, s))
<1> DEFINE len == Len(s)
           g == CHOOSE h : AccumulatedOf(h, c, s, len)
           T == {k \in Nat : k <= len /\ ~Parsed(sent[c], u, k, g[k])}
           R == OpToRel(<, Nat)
<1>1. len \in Nat /\ Len(u) \in Nat
  BY LenProperties DEF Chain
<1>2. frames(c, s) = g[len]
  BY DEF frames, AccumulatedOf
<1>3. AccumulatedOf(g, c, s, len)
  <2>1. \E h : AccumulatedOf(h, c, s, len)
    BY <1>1, AccumulatedExists
  <2>2. QED
    BY <2>1, Zenon
<1> HIDE DEF g
<1>4. SUFFICES ASSUME T # {} PROVE FALSE
  BY <1>1, <1>2
<1>5. IsWellFoundedOn(R, Nat)
  BY NatLessThanWellFounded
<1>6. PICK k \in T : \A m \in T : ~ (<<m, k>> \in R)
  <2>1. T \subseteq Nat
    OBVIOUS
  <2> HIDE DEF T, R
  <2>2. QED
    BY <1>4, <1>5, <2>1, WFMin
<1>7. k \in Nat /\ k <= len /\ ~Parsed(sent[c], u, k, g[k])
  OBVIOUS
<1>8. k \in 0..len /\ g[k] = IF k = 0 THEN [ready |-> <<>>, rest |-> <<>>] ELSE accumulate(c, g[k - 1], s[k])
  <2>1. k \in 0..len
    BY <1>1, <1>7
  <2>2. QED
    BY <1>3, <2>1 DEF AccumulatedOf
<1>9. CASE k = 0
  BY <1>7, <1>8, <1>9, ParsedFirst
<1>10. CASE k # 0
  <2> DEFINE j == k - 1
  <2>1. j \in Nat /\ j <= len /\ j < k /\ j + 1 = k /\ j < Len(u) /\ k \in 1..len
    BY <1>1, <1>7, <1>10
  <2>2. <<j, k>> \in R
    BY <1>7, <2>1 DEF OpToRel
  <2>3. Parsed(sent[c], u, j, g[j])
    BY <1>6, <2>1, <2>2
  <2>4. Parsed(sent[c], u, j + 1, accumulate(c, g[j], u[j + 1]))
    <3> HIDE DEF j
    <3>1. QED
      BY <2>1, <2>3, ParsedNext
  <2>5. g[k] = accumulate(c, g[j], s[k]) /\ s[k] = u[k]
    BY <1>8, <1>10, <2>1
  <2> HIDE DEF j
  <2>6. Parsed(sent[c], u, k, g[k])
    BY ONLY <2>1, <2>4, <2>5, Zenon
  <2>7. QED
    BY <1>7, <2>6
<1>11. QED
  BY <1>9, <1>10

-----------------------------------------------------------------------------
(* The inductive invariant *)

ClientStates == {"open", "overfull", "invalid", "closed"}

IntakeTypes ==
  /\ sent \in [Conns -> Seq(Commands)]
  /\ wire \in [Conns -> Seq(Nat \X Nat)]
  /\ client \in [Conns -> [state : ClientStates, buffered : Seq(Nat \X Nat)]]
  /\ turn \in 0..(Connections + 1)
  /\ pendingCommands \in Seq(Conns \X Nat)
  /\ counts \in [Conns -> [Types -> Nat]]
  /\ snapshotRequests \in Nat
  /\ dispatched \in [Conns -> Seq(Nat)]
  /\ refused \subseteq Conns \X Seq(Nat)

\* The first place of a part u of the stream of cs.
firstOf(cs, u) == IF u = <<>> THEN Len(cs) + 1 ELSE u[1][1]

\* The buffer and the wire are a part of the stream without a gap.  On an open
\* connection it begins with a header; as long as the client has not closed its
\* end, it reaches to what was sent last.
StreamOk(cs, cl, w, whole) ==
  LET b == cl.buffered
      u == b \o w
  IN
  /\ Chain(cs, u)
  /\ cl.state = "open" /\ u # <<>> => u[1][2] = 1
  /\ cl.state = "open" /\ whole /\ u # <<>> => u[Len(u)] = <<Len(cs), cs[Len(cs)].size>>
  /\ b # <<>> => Len(b) < cs[b[1][1]].size

StreamInv == \A c \in Conns : StreamOk(sent[c], client[c], wire[c], c \notin eof)

\* The places in a sequence of them, and those of c that are pending, or in a
\* read that was refused.
placesIn(s) == {s[i] : i \in 1..Len(s)}
pendingOf(pend, c) == {pend[i][2] : i \in {j \in 1..Len(pend) : pend[j][1] = c}}
lostOf(ref, c) == UNION {placesIn(r[2]) : r \in {q \in ref : q[1] = c}}

\* The places that are dispatched, pending or lost come before what is on its
\* way, those lost are no others, and the others are in order; if the stream is
\* whole none is missing.
PlacesOk(c, cs, u, whole, disp, pend, ref) ==
  /\ \A p \in placesIn(disp) \cup pendingOf(pend, c) \cup lostOf(ref, c) :
       p \in 1..Len(cs) /\ p < firstOf(cs, u)
  /\ \A i, j \in 1..Len(disp) : i < j => disp[i] < disp[j]
  /\ \A i, j \in 1..Len(pend) : pend[i][1] = c /\ pend[j][1] = c /\ i < j => pend[i][2] < pend[j][2]
  /\ \A p \in placesIn(disp), q \in pendingOf(pend, c) : p < q
  /\ lostOf(ref, c) \cap (placesIn(disp) \cup pendingOf(pend, c)) = {}
  /\ whole => \A p \in 1..Len(cs) :
                p < firstOf(cs, u) => p \in placesIn(disp) \cup pendingOf(pend, c) \cup lostOf(ref, c)

PlacesInv ==
  \A c \in Conns :
    PlacesOk(c, sent[c], client[c].buffered \o wire[c], client[c].state = "open" /\ c \notin eof,
             dispatched[c], pendingCommands, refused)

\* The connections are read in their order, each once in a tick, after all
\* commands of the tick before are dispatched.
TurnInv ==
  /\ turn = 0 => pendingCommands = <<>>
  /\ turn > 0 =>
       /\ \A i \in 1..Len(pendingCommands) : pendingCommands[i][1] < turn
       /\ Len(pendingCommands) <= (turn - 1) * MaxPerConnection

\* A RequestSnapshot that was counted was accepted in this tick.
ServedInv ==
  \A c \in Conns : "requestSnapshot" \in Types /\ counts[c]["requestSnapshot"] > 0 => snapshotRequests > 0

IntakeInv ==
  /\ IntakeTypes /\ StreamInv /\ PlacesInv /\ TurnInv /\ ServedInv
  /\ RefusedForOwnRead /\ DeniedRequestIsServed

-----------------------------------------------------------------------------
(* Reads *)

\* The first n elements of a sequence, and the others.
LEMMA PrefixElements ==
  ASSUME NEW S, NEW w \in Seq(S), NEW n \in Nat, n <= Len(w)
  PROVE  /\ SubSeq(w, 1, n) \in Seq(S) /\ Len(SubSeq(w, 1, n)) = n
         /\ \A i \in 1..n : SubSeq(w, 1, n)[i] = w[i]
<1> DEFINE p == SubSeq(w, 1, n)
<1>1. Len(w) \in Nat
  BY LenProperties
<1>2. \A i \in 1..n : w[i] \in S
  <2>1. \A i \in 1..n : i \in 1..Len(w)
    BY <1>1
  <2>2. QED
    BY <2>1, ElementOfSeq
<1>3. /\ p \in Seq(S) /\ Len(p) = IF 1 <= n THEN n - 1 + 1 ELSE 0
      /\ \A i \in 1..(n - 1 + 1) : p[i] = w[1 + i - 1]
  BY <1>2, SubSeqProperties
<1> HIDE DEF p
<1>4. (IF 1 <= n THEN n - 1 + 1 ELSE 0) = n /\ n - 1 + 1 = n /\ \A i \in 1..n : 1 + i - 1 = i
  OBVIOUS
<1>5. QED
  BY <1>3, <1>4 DEF p

LEMMA SuffixElements ==
  ASSUME NEW S, NEW w \in Seq(S), NEW n \in Nat, n <= Len(w)
  PROVE  LET t == SubSeq(w, n + 1, Len(w)) IN
         /\ t \in Seq(S) /\ Len(t) = Len(w) - n
         /\ \A i \in 1..Len(t) : t[i] = w[n + i]
<1> DEFINE lw == Len(w)
           t == SubSeq(w, n + 1, lw)
           lt == Len(t)
<1>1. lw \in Nat
  BY LenProperties
<1>2. \A i \in (n + 1)..lw : w[i] \in S
  <2>1. \A i \in (n + 1)..lw : i \in 1..Len(w)
    BY <1>1
  <2>2. QED
    BY <2>1, ElementOfSeq
<1>3. n <= lw
  OBVIOUS
<1> HIDE DEF lw
<1>4. /\ t \in Seq(S) /\ lt = IF n + 1 <= lw THEN lw - (n + 1) + 1 ELSE 0
      /\ \A i \in 1..(lw - (n + 1) + 1) : t[i] = w[(n + 1) + i - 1]
  BY <1>1, <1>2, SubSeqProperties
<1> HIDE DEF t, lt
<1>5. lt = lw - n
  BY <1>1, <1>3, <1>4
<1>6. \A i \in 1..lt : i \in 1..(lw - (n + 1) + 1) /\ (n + 1) + i - 1 = n + i
  BY <1>1, <1>5
<1>7. \A i \in 1..lt : t[i] = w[n + i]
  BY <1>4, <1>6
<1>8. QED
  BY <1>4, <1>5, <1>7 DEF lw, t, lt

\* Two sequences, one after the other.
LEMMA ConcatElements ==
  ASSUME NEW S, NEW s \in Seq(S), NEW t \in Seq(S)
  PROVE  /\ s \o t \in Seq(S) /\ Len(s \o t) = Len(s) + Len(t) /\ Len(s) \in Nat /\ Len(t) \in Nat
         /\ \A i \in 1..Len(s) : i \in 1..Len(s \o t) /\ (s \o t)[i] = s[i]
         /\ \A i \in 1..Len(t) : Len(s) + i \in 1..Len(s \o t) /\ (s \o t)[Len(s) + i] = t[i]
         /\ \A i \in 1..Len(s \o t) : i \in 1..Len(s) \/ i - Len(s) \in 1..Len(t)
<1> DEFINE c == s \o t
           ls == Len(s)
           lt == Len(t)
<1>1. /\ c \in Seq(S) /\ Len(c) = ls + lt
      /\ \A i \in 1..(ls + lt) : c[i] = IF i <= ls THEN s[i] ELSE t[i - ls]
  BY ConcatProperties
<1>2. ls \in Nat /\ lt \in Nat
  BY LenProperties
<1> HIDE DEF c, ls, lt
<1>3. \A i \in 1..ls : i \in 1..(ls + lt) /\ i <= ls
  BY <1>2
<1>4. \A i \in 1..lt : ls + i \in 1..(ls + lt) /\ ~(ls + i <= ls) /\ (ls + i) - ls = i
  BY <1>2
<1>5. \A i \in 1..(ls + lt) : i \in 1..ls \/ i - ls \in 1..lt
  BY <1>2
<1>6. \A i \in 1..ls : c[i] = s[i]
  BY <1>1, <1>3
<1>7. \A i \in 1..lt : c[ls + i] = t[i]
  <2> SUFFICES ASSUME NEW i \in 1..lt
               PROVE  c[ls + i] = t[i]
    OBVIOUS
  <2>1. c[ls + i] = t[(ls + i) - ls]
    BY <1>1, <1>4
  <2>2. QED
    BY ONLY <1>4, <2>1, Zenon
<1>8. QED
  BY <1>1, <1>2, <1>3, <1>4, <1>5, <1>6, <1>7, Zenon DEF c, ls, lt

\* A read of the stream of cs, which begins with place f, has the frames a.ready
\* and leaves a.rest before t: the stream goes on where what is left begins.
ReadDone(cs, f, a, t, whole) ==
  LET v == a.rest \o t
      next == f + Len(a.ready)
  IN
  /\ a \in [ready : Seq(Nat), rest : Seq(Nat \X Nat)]
  /\ Chain(cs, v)
  /\ v # <<>> => v[1][2] = 1
  /\ whole /\ v # <<>> => v[Len(v)] = <<Len(cs), cs[Len(cs)].size>>
  /\ a.rest # <<>> => Len(a.rest) < cs[a.rest[1][1]].size
  /\ \A i \in 1..Len(a.ready) : a.ready[i] = f + (i - 1)
  /\ next <= Len(cs) + 1 /\ next <= firstOf(cs, v)
  /\ whole => next >= firstOf(cs, v)

\* It takes n units of the wire w after those in the buffer.
LEMMA ReadStream ==
  ASSUME NEW c \in Conns, sent[c] \in Seq(Commands), IntakeConstants,
         NEW cl, cl.buffered \in Seq(Nat \X Nat), cl.state = "open", NEW w \in Seq(Nat \X Nat),
         NEW whole \in BOOLEAN, StreamOk(sent[c], cl, w, whole), NEW n \in 1..Len(w)
  PROVE  ReadDone(sent[c], firstOf(sent[c], cl.buffered \o w),
                  frames(c, cl.buffered \o SubSeq(w, 1, n)), SubSeq(w, n + 1, Len(w)), whole)
<1> DEFINE cs == sent[c]
           b == cl.buffered
           u == b \o w
           s == b \o SubSeq(w, 1, n)
           a == frames(c, s)
           t == SubSeq(w, n + 1, Len(w))
           v == a.rest \o t
           r == Len(a.rest)
           m == Len(s)
           N == u[1][1]
           next == N + Len(a.ready)
<1>1. Len(b) \in Nat /\ Len(w) \in Nat /\ n \in Nat /\ n <= Len(w) /\ n > 0
  BY LenProperties
<1>2. /\ SubSeq(w, 1, n) \in Seq(Nat \X Nat) /\ Len(SubSeq(w, 1, n)) = n
      /\ \A i \in 1..n : SubSeq(w, 1, n)[i] = w[i]
  BY <1>1, PrefixElements
<1>3. t \in Seq(Nat \X Nat) /\ Len(t) = Len(w) - n /\ \A i \in 1..Len(t) : t[i] = w[n + i]
  BY <1>1, SuffixElements
<1>4. /\ u \in Seq(Nat \X Nat) /\ Len(u) = Len(b) + Len(w)
      /\ \A i \in 1..Len(b) : u[i] = b[i]
      /\ \A i \in 1..Len(w) : u[Len(b) + i] = w[i]
  BY ConcatElements
<1>5. s \in Seq(Nat \X Nat) /\ m = Len(b) + n /\ \A i \in 1..m : s[i] = u[i]
  <2> DEFINE pre == SubSeq(w, 1, n)
             lb == Len(b)
  <2>1. /\ b \o pre \in Seq(Nat \X Nat) /\ Len(b \o pre) = lb + Len(pre)
        /\ \A i \in 1..lb : (b \o pre)[i] = b[i]
        /\ \A i \in 1..Len(pre) : (b \o pre)[lb + i] = pre[i]
        /\ \A i \in 1..Len(b \o pre) : i \in 1..lb \/ i - lb \in 1..Len(pre)
    BY <1>2, ConcatElements
  <2>2. s = b \o pre /\ Len(pre) = n
    BY <1>2
  <2>3. ASSUME NEW i \in 1..m
        PROVE  s[i] = u[i]
    <3>1. CASE i \in 1..lb
      BY <1>4, <2>1, <3>1
    <3>2. CASE i - lb \in 1..n
      <4> DEFINE j == i - lb
      <4>1. i = lb + j /\ j \in 1..n /\ j \in 1..Len(w)
        BY <1>1, <3>2
      <4> HIDE DEF j, s, u, pre, lb
      <4>2. s[lb + j] = pre[j] /\ pre[j] = w[j] /\ u[lb + j] = w[j]
        BY <1>2, <1>4, <2>1, <2>2, <4>1 DEF pre, lb
      <4>3. QED
        BY ONLY <4>1, <4>2, Zenon
    <3>3. QED
      BY <2>1, <2>2, <3>1, <3>2
  <2>4. QED
    BY <2>1, <2>2, <2>3
<1> HIDE DEF s, u, t, b
<1>6. /\ m <= Len(u) /\ Len(u) \in Nat /\ m \in Nat /\ m > 0 /\ u # <<>>
      /\ Len(u) - m = Len(w) - n
  <2>1. Len(u) # 0
    BY <1>1, <1>4
  <2>2. u # <<>>
    BY <2>1, EmptySeq
  <2>3. QED
    BY <1>1, <1>4, <1>5, <2>2
<1>7. /\ Chain(cs, u) /\ u[1][2] = 1
      /\ whole => u[Len(u)] = <<Len(cs), cs[Len(cs)].size>>
  BY <1>6 DEF StreamOk, u, b
<1>8. Parsed(cs, u, m, a)
  BY <1>5, <1>6, <1>7, FramesParsed
<1> HIDE DEF a
<1>9. /\ a \in [ready : Seq(Nat), rest : Seq(Nat \X Nat)] /\ r <= m
      /\ \A i \in 1..Len(a.ready) : a.ready[i] = N + (i - 1)
      /\ \A i \in 1..r : a.rest[i] = u[(m - r) + i]
      /\ r > 0 => a.rest[1] = <<next, 1>> /\ r < cs[next].size
      /\ r = 0 /\ m < Len(u) => u[m + 1] = <<next, 1>>
      /\ r = 0 /\ m = Len(u) => u[m][1] = next - 1
  BY <1>8 DEF Parsed
<1>10. a.rest \in Seq(Nat \X Nat) /\ r \in Nat /\ Len(a.ready) \in Nat
  BY <1>9, LenProperties
<1>11. \A i \in 1..Len(u) : u[i] \in UnitsOf(cs)
  BY <1>7, ElementOfSeq DEF Chain
<1>12. N \in Nat /\ next \in Nat
  <2>1. 1 \in 1..Len(u)
    BY <1>6
  <2>2. N \in Nat
    BY <1>11, <2>1, UnitFields
  <2>3. QED
    BY <1>10, <2>2
<1> HIDE DEF m, N, next, r
<1>13. v \in Seq(Nat \X Nat) /\ Len(v) = Len(u) - (m - r) /\ \A i \in 1..Len(v) : v[i] = u[(m - r) + i]
  <2>1. /\ v \in Seq(Nat \X Nat) /\ Len(v) = r + Len(t)
        /\ \A i \in 1..r : v[i] = a.rest[i]
        /\ \A i \in 1..Len(t) : v[r + i] = t[i]
        /\ \A i \in 1..Len(v) : i \in 1..r \/ i - r \in 1..Len(t)
    <3> DEFINE rest == a.rest
    <3>1. rest \in Seq(Nat \X Nat) /\ t \in Seq(Nat \X Nat)
      BY <1>3, <1>10
    <3> DEFINE S == Nat \X Nat
               x == t
    <3> HIDE DEF rest, S, x
    <3>2. rest \in Seq(S) /\ x \in Seq(S)
      BY <3>1 DEF S, x
    <3>3. /\ rest \o x \in Seq(S) /\ Len(rest \o x) = Len(rest) + Len(x)
          /\ \A i \in 1..Len(rest) : i \in 1..Len(rest \o x) /\ (rest \o x)[i] = rest[i]
          /\ \A i \in 1..Len(x) : Len(rest) + i \in 1..Len(rest \o x) /\ (rest \o x)[Len(rest) + i] = x[i]
          /\ \A i \in 1..Len(rest \o x) : i \in 1..Len(rest) \/ i - Len(rest) \in 1..Len(x)
      BY ONLY <3>2, ConcatElements
    <3>4. QED
      BY ONLY <3>3, Zenon DEF rest, r, v, S, x
  <2> HIDE DEF v
  <2>2. Len(v) = Len(u) - (m - r)
    <3> DEFINE lt == Len(t)
               lu == Len(u)
               lw == Len(w)
               lv == Len(v)
    <3>1. lv = r + lt /\ lt = lw - n /\ lu - m = lw - n /\ lu \in Nat /\ m \in Nat /\ lw \in Nat /\ r \in Nat
      BY <1>1, <1>3, <1>6, <1>10, <2>1
    <3> HIDE DEF lt, lu, lw, lv
    <3>2. lv = lu - (m - r)
      BY <3>1
    <3>3. QED
      BY <3>2 DEF lu, lv
  <2>3. ASSUME NEW i \in 1..Len(v)
        PROVE  v[i] = u[(m - r) + i]
    <3>1. CASE i \in 1..r
      BY <1>9, <2>1, <3>1
    <3>2. CASE i - r \in 1..Len(t)
      <4> DEFINE j == i - r
      <4>1. j \in Nat /\ i \in Int
        BY <1>10, <3>2
      <4>2. i = r + j /\ (m - r) + i = m + j /\ m + j = Len(b) + (n + j) /\ n + j \in 1..Len(w)
        <5> DEFINE lt == Len(t)
                   lw == Len(w)
                   lb == Len(b)
        <5>1. /\ lt = lw - n /\ m = lb + n /\ lb \in Nat /\ lw \in Nat /\ n \in Nat /\ r \in Nat
              /\ m \in Nat /\ i - r \in 1..lt /\ i \in Int
          BY <1>1, <1>3, <1>5, <1>6, <1>10, <3>2, <4>1
        <5> HIDE DEF lt, lw, lb
        <5>2. i = r + j /\ (m - r) + i = m + j /\ m + j = lb + (n + j) /\ n + j \in 1..lw
          BY <5>1
        <5>3. QED
          BY <5>2 DEF lw, lb
      <4>3. j \in 1..Len(t)
        BY <3>2
      <4> HIDE DEF j
      <4>4. v[r + j] = t[j] /\ t[j] = w[n + j] /\ u[Len(b) + (n + j)] = w[n + j]
        BY <1>3, <1>4, <2>1, <4>2, <4>3
      <4>5. QED
        BY ONLY <4>2, <4>4, Zenon
    <3>3. QED
      BY <2>1, <3>1, <3>2
  <2>4. QED
    BY <2>1, <2>2, <2>3
<1>14. Chain(cs, v)
  <2> HIDE DEF v
  <2>1. m - r \in Nat /\ (m - r) + Len(v) <= Len(u)
    BY <1>6, <1>9, <1>10, <1>13
  <2>2. QED
    BY <1>7, <1>13, <2>1, ChainPart
<1>15. a.rest # <<>> => Len(a.rest) < cs[a.rest[1][1]].size
  <2>1. a.rest # <<>> => r > 0
    BY <1>10, EmptySeq DEF r
  <2>2. ASSUME r > 0
        PROVE  r < cs[a.rest[1][1]].size
    <3>1. a.rest[1] = <<next, 1>> /\ r < cs[next].size
      BY <1>9, <2>2
    <3>2. a.rest[1][1] = next
      BY <3>1
    <3>3. QED
      BY ONLY <3>1, <3>2, Zenon
  <2>3. QED
    BY <2>1, <2>2 DEF r
<1>16. firstOf(cs, u) = N
  BY <1>6 DEF firstOf, N
<1>17. CASE v # <<>>
  <2> HIDE DEF v
  <2>1. Len(v) > 0 /\ Len(v) \in Nat /\ 1 \in 1..Len(v) /\ Len(v) \in 1..Len(v)
    <3>1. Len(v) \in Nat /\ Len(v) # 0
      BY <1>13, <1>17, EmptySeq, LenProperties
    <3>2. QED
      BY <3>1
  <2>2. v[1] = <<next, 1>>
    <3>1. v[1] = u[(m - r) + 1]
      BY <1>13, <2>1
    <3>2. CASE r > 0
      <4>1. 1 \in 1..r
        BY <1>10, <3>2
      <4>2. QED
        BY <1>9, <3>1, <3>2, <4>1
    <3>3. CASE ~(r > 0)
      <4>1. r = 0 /\ (m - r) + 1 = m + 1 /\ m < Len(u)
        BY <1>6, <1>10, <1>13, <2>1, <3>3
      <4>2. u[m + 1] = <<next, 1>>
        BY <1>9, <4>1
      <4>3. QED
        BY ONLY <3>1, <4>1, <4>2, Zenon
    <3>4. QED
      BY <3>2, <3>3
  <2>3. v[Len(v)] = u[Len(u)]
    <3>1. (m - r) + Len(v) = Len(u)
      BY <1>6, <1>10, <1>13
    <3>2. v[Len(v)] = u[(m - r) + Len(v)]
      BY <1>13, <2>1
    <3>3. QED
      BY ONLY <3>1, <3>2, Zenon
  <2>4. firstOf(cs, v) = next
    BY <1>17, <2>2 DEF firstOf
  <2>5. next <= Len(cs)
    <3>1. v[1] \in UnitsOf(cs)
      BY <1>14, <2>1, ElementOfSeq DEF Chain
    <3>2. v[1][1] \in 1..Len(cs)
      BY <3>1, UnitFields
    <3>3. QED
      BY <2>2, <3>2, LenProperties
  <2>6. v[1][2] = 1 /\ next <= Len(cs) + 1
    BY <2>2, <2>5, <1>12, LenProperties
  <2>7. QED
    <3>1. next <= firstOf(cs, v) /\ (whole => next >= firstOf(cs, v))
      BY <1>12, <2>4
    <3>2. whole => v[Len(v)] = <<Len(cs), cs[Len(cs)].size>>
      BY <1>7, <2>3
    <3>3. QED
      BY <1>9, <1>12, <1>14, <1>15, <1>16, <2>6, <3>1, <3>2, Zenon
      DEF ReadDone, v, a, s, t, u, b, next
<1>18. CASE v = <<>>
  <2>1. r = 0 /\ m = Len(u)
    <3>1. Len(v) = 0
      BY <1>18, EmptySeq
    <3> HIDE DEF v
    <3>2. QED
      BY <1>6, <1>9, <1>10, <1>13, <3>1
  <2> HIDE DEF v
  <2>2. u[Len(u)][1] = next - 1
    BY <1>9, <2>1
  <2>3. u[Len(u)][1] \in 1..Len(cs) /\ Len(cs) \in Nat
    <3>1. Len(u) \in 1..Len(u)
      BY <1>6, <2>1
    <3>2. QED
      BY <1>11, <3>1, UnitFields, LenProperties
  <2>4. next <= Len(cs) + 1
    BY <1>12, <2>2, <2>3
  <2>5. whole => next = Len(cs) + 1
    <3>1. whole => u[Len(u)][1] = Len(cs)
      BY <1>7
    <3>2. QED
      BY <1>12, <2>2, <2>3, <3>1
  <2>6. firstOf(cs, v) = Len(cs) + 1
    BY <1>18 DEF firstOf
  <2>7. next <= firstOf(cs, v) /\ (whole => next >= firstOf(cs, v))
    BY <1>12, <2>3, <2>4, <2>5, <2>6
  <2>8. QED
    BY <1>9, <1>14, <1>15, <1>16, <1>18, <2>4, <2>7, Zenon DEF ReadDone, v, a, s, t, u, b, next
<1>19. QED
  BY <1>17, <1>18

-----------------------------------------------------------------------------
(* Places *)

\* The first place of a part of the stream.
LEMMA FirstInRange ==
  ASSUME IntakeConstants, NEW cs \in Seq(Commands), NEW u, Chain(cs, u)
  PROVE  firstOf(cs, u) \in Nat /\ firstOf(cs, u) > 0 /\ firstOf(cs, u) <= Len(cs) + 1 /\ Len(cs) \in Nat
<1>1. Len(cs) \in Nat /\ u \in Seq(UnitsOf(cs)) /\ Len(u) \in Nat
  BY LenProperties DEF Chain
<1>2. CASE u = <<>>
  <2>1. firstOf(cs, u) = Len(cs) + 1
    BY <1>2 DEF firstOf
  <2>2. QED
    BY <1>1, <2>1
<1>3. CASE u # <<>>
  <2>1. 1 \in 1..Len(u)
    <3>1. Len(u) # 0
      BY <1>1, <1>3, EmptySeq
    <3>2. QED
      BY <1>1, <3>1
  <2>2. u[1][1] \in 1..Len(cs)
    <3>1. u[1] \in UnitsOf(cs)
      BY <1>1, <2>1, ElementOfSeq
    <3>2. QED
      BY <3>1, UnitFields
  <2>3. firstOf(cs, u) = u[1][1]
    BY <1>3 DEF firstOf
  <2>4. QED
    BY <1>1, <2>2, <2>3
<1>4. QED
  BY <1>2, <1>3

\* The stream goes on, and nothing else changes.
LEMMA PlacesLater ==
  ASSUME NEW c, NEW cs, NEW cs2, NEW u, NEW u2, NEW whole, NEW whole2, NEW disp, NEW pend, NEW ref,
         PlacesOk(c, cs, u, whole, disp, pend, ref),
         Len(cs) \in Nat, Len(cs2) \in Nat, Len(cs) <= Len(cs2),
         firstOf(cs, u) \in Nat, firstOf(cs2, u2) \in Nat, firstOf(cs, u) <= firstOf(cs2, u2),
         whole2 => whole /\ firstOf(cs2, u2) = firstOf(cs, u) /\ firstOf(cs, u) <= Len(cs) + 1
  PROVE  PlacesOk(c, cs2, u2, whole2, disp, pend, ref)
<1> DEFINE known == placesIn(disp) \cup pendingOf(pend, c) \cup lostOf(ref, c)
           f == firstOf(cs, u)
           f2 == firstOf(cs2, u2)
           l == Len(cs)
           l2 == Len(cs2)
<1>1. /\ \A p \in known : p \in 1..l /\ p < f
      /\ whole => \A p \in 1..l : p < f => p \in known
  BY DEF PlacesOk
<1>2. l \in Nat /\ l2 \in Nat /\ l <= l2 /\ f \in Nat /\ f2 \in Nat /\ f <= f2
  OBVIOUS
<1>3. whole2 => whole /\ f2 = f /\ f <= l + 1
  OBVIOUS
<1> HIDE DEF known, f, f2, l, l2
<1>4. \A p \in known : p \in 1..l2 /\ p < f2
  BY <1>1, <1>2
<1>5. ASSUME whole2, NEW p \in 1..l2, p < f2
      PROVE  p \in known
  <2>1. p \in 1..l /\ p < f
    BY <1>2, <1>3, <1>5
  <2>2. QED
    BY <1>1, <1>3, <1>5, <2>1
<1>6. (\A p \in known : p \in 1..l2 /\ p < f2) /\ (whole2 => \A p \in 1..l2 : p < f2 => p \in known)
  BY <1>4, <1>5
<1>7. QED
  BY <1>6, Zenon DEF PlacesOk, known, f2, l2

\* The pending commands with those of a read of c.
withRead(pend, c, ready) == pend \o [i \in DOMAIN ready |-> <<c, ready[i]>>]

LEMMA PendingWith ==
  ASSUME NEW c \in Conns, NEW pend \in Seq(Conns \X Nat), NEW ready \in Seq(Nat)
  PROVE  LET more == withRead(pend, c, ready) IN
         /\ more \in Seq(Conns \X Nat) /\ Len(more) = Len(pend) + Len(ready)
         /\ Len(pend) \in Nat /\ Len(ready) \in Nat
         /\ \A i \in 1..Len(pend) : i \in 1..Len(more) /\ more[i] = pend[i]
         /\ \A i \in 1..Len(ready) : Len(pend) + i \in 1..Len(more) /\ more[Len(pend) + i] = <<c, ready[i]>>
         /\ \A i \in 1..Len(more) : i \in 1..Len(pend) \/ i - Len(pend) \in 1..Len(ready)
<1> DEFINE add == [i \in DOMAIN ready |-> <<c, ready[i]>>]
           len == Len(ready)
           S == Conns \X Nat
<1>1. DOMAIN ready = 1..len /\ len \in Nat
  BY LenProperties
<1>2. \A i \in 1..len : ready[i] \in Nat
  BY ElementOfSeq
<1>3. add = [i \in 1..len |-> <<c, ready[i]>>]
  BY <1>1
<1>4. add \in [1..len -> S]
  BY <1>2, <1>3
<1>5. add \in Seq(S) /\ Len(add) = len /\ \A i \in 1..len : add[i] = <<c, ready[i]>>
  <2> HIDE DEF len, S
  <2>1. add \in Seq(S)
    <3> HIDE DEF add
    <3>1. QED
      BY <1>1, <1>4, SeqDef
  <2>2. DOMAIN add = 1..len /\ \A i \in 1..len : add[i] = <<c, ready[i]>>
    BY <1>3
  <2>3. Len(add) = len
    <3> HIDE DEF add
    <3>1. Len(add) \in Nat /\ DOMAIN add = 1..Len(add)
      BY <2>1, LenProperties
    <3>2. QED
      BY <1>1, <2>2, <3>1
  <2>4. QED
    BY <2>1, <2>2, <2>3
<1> HIDE DEF add, len, S
<1>6. pend \in Seq(S)
  BY DEF S
<1>7. /\ pend \o add \in Seq(S) /\ Len(pend \o add) = Len(pend) + Len(add) /\ Len(pend) \in Nat
      /\ \A i \in 1..Len(pend) : i \in 1..Len(pend \o add) /\ (pend \o add)[i] = pend[i]
      /\ \A i \in 1..Len(add) : Len(pend) + i \in 1..Len(pend \o add) /\ (pend \o add)[Len(pend) + i] = add[i]
      /\ \A i \in 1..Len(pend \o add) : i \in 1..Len(pend) \/ i - Len(pend) \in 1..Len(add)
  <2>1. add \in Seq(S) /\ pend \in Seq(S)
    BY <1>5, <1>6
  <2>2. QED
    BY ONLY <2>1, ConcatElements
<1>8. QED
  BY ONLY <1>1, <1>5, <1>7, Zenon DEF add, len, S, withRead

\* The places of c that are then pending, and those of the others.
LEMMA PendingPlaces ==
  ASSUME NEW c \in Conns, NEW pend \in Seq(Conns \X Nat), NEW ready \in Seq(Nat), NEW d, NEW p
  PROVE  p \in pendingOf(withRead(pend, c, ready), d) <=>
           p \in pendingOf(pend, d) \/ (d = c /\ p \in placesIn(ready))
<1> DEFINE more == withRead(pend, c, ready)
           lp == Len(pend)
           lr == Len(ready)
           lm == Len(more)
<1>1. /\ lm = lp + lr /\ lp \in Nat /\ lr \in Nat
      /\ \A i \in 1..lp : i \in 1..lm /\ more[i] = pend[i]
      /\ \A i \in 1..lr : lp + i \in 1..lm /\ more[lp + i] = <<c, ready[i]>>
      /\ \A i \in 1..lm : i \in 1..lp \/ i - lp \in 1..lr
  BY PendingWith
<1> HIDE DEF more, lp, lr, lm
<1>2. \A i \in 1..lm : \/ i \in 1..lp /\ more[i] = pend[i]
                       \/ \E j \in 1..lr : i = lp + j /\ more[i] = <<c, ready[j]>>
  <2> SUFFICES ASSUME NEW i \in 1..lm, i \notin 1..lp
               PROVE  \E j \in 1..lr : i = lp + j /\ more[i] = <<c, ready[j]>>
    BY <1>1
  <2>1. i - lp \in 1..lr /\ i = lp + (i - lp)
    BY <1>1
  <2>2. QED
    BY <1>1, <2>1
<1>3. p \in pendingOf(more, d) <=> p \in pendingOf(pend, d) \/ (d = c /\ p \in placesIn(ready))
  <2>1. p \in pendingOf(more, d) <=> \E i \in 1..lm : more[i][1] = d /\ more[i][2] = p
    BY DEF pendingOf, lm
  <2>2. p \in pendingOf(pend, d) <=> \E i \in 1..lp : pend[i][1] = d /\ pend[i][2] = p
    BY DEF pendingOf, lp
  <2>3. p \in placesIn(ready) <=> \E i \in 1..lr : ready[i] = p
    BY DEF placesIn, lr
  <2>4. ASSUME p \in pendingOf(more, d)
        PROVE  p \in pendingOf(pend, d) \/ (d = c /\ p \in placesIn(ready))
    <3>1. PICK i \in 1..lm : more[i][1] = d /\ more[i][2] = p
      BY <2>1, <2>4
    <3>2. CASE i \in 1..lp /\ more[i] = pend[i]
      BY <2>2, <3>1, <3>2
    <3>3. CASE \E j \in 1..lr : i = lp + j /\ more[i] = <<c, ready[j]>>
      BY <2>3, <3>1, <3>3
    <3>4. QED
      BY <1>2, <3>2, <3>3
  <2>5. ASSUME p \in pendingOf(pend, d)
        PROVE  p \in pendingOf(more, d)
    BY <1>1, <2>1, <2>2, <2>5
  <2>6. ASSUME d = c, p \in placesIn(ready)
        PROVE  p \in pendingOf(more, d)
    <3>1. PICK i \in 1..lr : ready[i] = p
      BY <2>3, <2>6
    <3>2. lp + i \in 1..lm /\ more[lp + i] = <<c, p>>
      BY <1>1, <3>1
    <3> DEFINE k == lp + i
    <3>3. k \in 1..lm /\ more[k] = <<c, p>>
      BY <3>2
    <3> HIDE DEF k
    <3>4. more[k][1] = d /\ more[k][2] = p
      BY <2>6, <3>3
    <3>5. QED
      BY <2>1, <3>3, <3>4
  <2>7. QED
    BY <2>4, <2>5, <2>6
<1>4. QED
  BY <1>3 DEF more

\* The places of a read that is refused are lost to its connection.
LEMMA LostPlaces ==
  ASSUME NEW c, NEW ready, NEW ref, NEW d, NEW p
  PROVE  p \in lostOf(ref \cup {<<c, ready>>}, d) <=>
           p \in lostOf(ref, d) \/ (d = c /\ p \in placesIn(ready))
<1>1. ASSUME NEW rf
      PROVE  p \in lostOf(rf, d) <=> \E r \in rf : r[1] = d /\ p \in placesIn(r[2])
  BY DEF lostOf
<1>2. p \in lostOf(ref \cup {<<c, ready>>}, d) <=>
        p \in lostOf(ref, d) \/ (d = c /\ p \in placesIn(ready))
  <2> DEFINE q == <<c, ready>>
             more == ref \cup {q}
  <2>1. q[1] = c /\ q[2] = ready
    OBVIOUS
  <2>2. \A r : r \in more <=> r \in ref \/ r = q
    OBVIOUS
  <2> HIDE DEF q, more
  <2>3. /\ p \in lostOf(more, d) <=> \E r \in more : r[1] = d /\ p \in placesIn(r[2])
        /\ p \in lostOf(ref, d) <=> \E r \in ref : r[1] = d /\ p \in placesIn(r[2])
    BY <1>1
  <2>4. p \in lostOf(more, d) <=> p \in lostOf(ref, d) \/ (d = c /\ p \in placesIn(ready))
    BY ONLY <2>1, <2>2, <2>3
  <2>5. QED
    BY <2>4 DEF q, more
<1>3. QED
  BY <1>2

\* What a read takes from the stream are the places from its first on.
LEMMA ReadPlaces ==
  ASSUME NEW ready \in Seq(Nat), NEW f \in Nat, \A i \in 1..Len(ready) : ready[i] = f + (i - 1)
  PROVE  placesIn(ready) = {p \in Nat : f <= p /\ p < f + Len(ready)} /\ Len(ready) \in Nat
<1> DEFINE l == Len(ready)
<1>1. l \in Nat /\ \A i \in 1..l : ready[i] = f + (i - 1)
  BY LenProperties
<1> HIDE DEF l
<1>2. ASSUME NEW p \in Nat, f <= p, p < f + l
      PROVE  \E i \in 1..l : ready[i] = p
  <2>1. (p - f) + 1 \in 1..l /\ f + (((p - f) + 1) - 1) = p
    BY <1>1, <1>2
  <2>2. QED
    BY <1>1, <2>1
<1>3. ASSUME NEW i \in 1..l
      PROVE  ready[i] \in Nat /\ f <= ready[i] /\ ready[i] < f + l
  BY <1>1
<1>4. QED
  BY <1>1, <1>2, <1>3 DEF placesIn, l

\* The pending commands of x stay in order, if those of the read come later.
LEMMA PendingOrder ==
  ASSUME NEW c \in Conns, NEW pend \in Seq(Conns \X Nat), NEW ready \in Seq(Nat), NEW x,
         \A i, j \in 1..Len(pend) : pend[i][1] = x /\ pend[j][1] = x /\ i < j => pend[i][2] < pend[j][2],
         x = c => \A p \in pendingOf(pend, c), q \in placesIn(ready) : p < q,
         \A i, j \in 1..Len(ready) : i < j => ready[i] < ready[j]
  PROVE  LET more == withRead(pend, c, ready) IN
         \A i, j \in 1..Len(more) : more[i][1] = x /\ more[j][1] = x /\ i < j => more[i][2] < more[j][2]
<1> DEFINE more == withRead(pend, c, ready)
           lp == Len(pend)
           lr == Len(ready)
           lm == Len(more)
<1>1. /\ lm = lp + lr /\ lp \in Nat /\ lr \in Nat
      /\ \A i \in 1..lp : i \in 1..lm /\ more[i] = pend[i]
      /\ \A i \in 1..lr : lp + i \in 1..lm /\ more[lp + i] = <<c, ready[i]>>
      /\ \A i \in 1..lm : i \in 1..lp \/ i - lp \in 1..lr
  BY PendingWith
<1>2. /\ \A i, j \in 1..lp : pend[i][1] = x /\ pend[j][1] = x /\ i < j => pend[i][2] < pend[j][2]
      /\ \A i, j \in 1..lr : i < j => ready[i] < ready[j]
  OBVIOUS
<1>3. /\ \A i \in 1..lp : pend[i][1] = c => pend[i][2] \in pendingOf(pend, c)
      /\ \A i \in 1..lr : ready[i] \in placesIn(ready)
  BY DEF pendingOf, placesIn
<1> HIDE DEF more, lp, lr, lm
<1>4. SUFFICES ASSUME NEW i \in 1..lm, NEW j \in 1..lm, more[i][1] = x, more[j][1] = x, i < j
               PROVE  more[i][2] < more[j][2]
  BY DEF lm, more
<1>5. CASE j \in 1..lp
  <2>1. i \in 1..lp
    BY <1>1, <1>4, <1>5
  <2>2. more[i] = pend[i] /\ more[j] = pend[j]
    BY <1>1, <1>5, <2>1
  <2>3. QED
    BY <1>2, <1>4, <1>5, <2>1, <2>2
<1>6. CASE j - lp \in 1..lr
  <2> DEFINE k == j - lp
  <2>1. k \in 1..lr /\ lp + k = j
    BY <1>1, <1>6
  <2> HIDE DEF k
  <2>2. more[j] = <<c, ready[k]>>
    BY ONLY <1>1, <2>1, Zenon
  <2>3. x = c /\ more[j][2] = ready[k]
    BY <1>4, <2>2
  <2>4. CASE i \in 1..lp
    <3>1. more[i] = pend[i]
      BY <1>1, <2>4
    <3>2. pend[i][2] \in pendingOf(pend, c) /\ ready[k] \in placesIn(ready)
      BY <1>3, <1>4, <2>1, <2>3, <2>4, <3>1
    <3>3. QED
      BY <2>3, <3>1, <3>2
  <2>5. CASE i - lp \in 1..lr
    <3> DEFINE h == i - lp
    <3>1. h \in 1..lr /\ lp + h = i /\ h < k
      BY <1>1, <1>4, <2>1, <2>5
    <3> HIDE DEF h
    <3>2. more[i] = <<c, ready[h]>>
      BY ONLY <1>1, <3>1, Zenon
    <3>3. ready[h] < ready[k]
      BY <1>2, <2>1, <3>1
    <3>4. QED
      BY <2>3, <3>2, <3>3
  <2>6. QED
    BY <1>1, <2>4, <2>5
<1>7. QED
  BY <1>1, <1>5, <1>6

\* The commands of a read become pending.
LEMMA PlacesRead ==
  ASSUME NEW c \in Conns, NEW cs, NEW u, NEW v, NEW whole, NEW whole2, NEW disp, NEW ref,
         NEW pend \in Seq(Conns \X Nat), NEW ready \in Seq(Nat),
         PlacesOk(c, cs, u, whole, disp, pend, ref), Len(cs) \in Nat,
         firstOf(cs, u) \in Nat, firstOf(cs, u) > 0, firstOf(cs, v) \in Nat,
         \A i \in 1..Len(ready) : ready[i] = firstOf(cs, u) + (i - 1),
         firstOf(cs, u) + Len(ready) <= Len(cs) + 1, firstOf(cs, u) + Len(ready) <= firstOf(cs, v),
         whole2 => whole /\ firstOf(cs, u) + Len(ready) = firstOf(cs, v)
  PROVE  /\ PlacesOk(c, cs, v, whole2, disp, withRead(pend, c, ready), ref)
         /\ PlacesOk(c, cs, v, whole2, disp, pend, ref \cup {<<c, ready>>})
<1> DEFINE D == placesIn(disp)
           P == pendingOf(pend, c)
           L == lostOf(ref, c)
           R == placesIn(ready)
           f == firstOf(cs, u)
           g == firstOf(cs, v)
           l == Len(cs)
           n == Len(ready)
           more == withRead(pend, c, ready)
           ref2 == ref \cup {<<c, ready>>}
<1>1. /\ \A p \in D \cup P \cup L : p \in 1..l /\ p < f
      /\ \A p \in D, q \in P : p < q
      /\ L \cap (D \cup P) = {}
      /\ whole => \A p \in 1..l : p < f => p \in D \cup P \cup L
      /\ \A i, j \in 1..Len(disp) : i < j => disp[i] < disp[j]
      /\ \A i, j \in 1..Len(pend) : pend[i][1] = c /\ pend[j][1] = c /\ i < j => pend[i][2] < pend[j][2]
  BY DEF PlacesOk
<1>2. R = {p \in Nat : f <= p /\ p < f + n} /\ n \in Nat
  BY ReadPlaces
<1>3. pendingOf(more, c) = P \cup R /\ lostOf(ref2, c) = L \cup R
  <2>0. c \in Conns /\ pend \in Seq(Conns \X Nat) /\ ready \in Seq(Nat)
    OBVIOUS
  <2>1. \A p : p \in pendingOf(more, c) <=> p \in P \/ (c = c /\ p \in R)
    BY ONLY <2>0, PendingPlaces
  <2>2. \A p : p \in lostOf(ref2, c) <=> p \in L \/ (c = c /\ p \in R)
    BY ONLY LostPlaces
  <2> HIDE DEF P, R, L, more, ref2
  <2>3. QED
    BY ONLY <2>1, <2>2
<1>4. \A i, j \in 1..n : i < j => ready[i] < ready[j]
  <2>1. \A i \in 1..n : ready[i] = f + (i - 1)
    OBVIOUS
  <2>2. QED
    BY <1>2, <2>1
<1>5. l \in Nat /\ f \in Nat /\ f > 0 /\ g \in Nat /\ f + n <= l + 1 /\ f + n <= g /\ (whole2 => whole /\ f + n = g)
  OBVIOUS
<1> HIDE DEF D, P, L, R, f, g, l, n, more, ref2
<1>6. \A p \in P, q \in R : p < q
  BY <1>1, <1>2, <1>5
<1>7. \A i, j \in 1..Len(more) : more[i][1] = c /\ more[j][1] = c /\ i < j => more[i][2] < more[j][2]
  BY <1>1, <1>4, <1>6, PendingOrder DEF P, R, n, more
<1>8. \A p \in D \cup P \cup L \cup R : p \in 1..l /\ p < g
  BY <1>1, <1>2, <1>5
<1>9. \A p \in D, q \in P \cup R : p < q
  BY <1>1, <1>2, <1>5
<1>10. R \cap (D \cup P \cup L) = {}
  BY <1>1, <1>2, <1>5
<1>11. ASSUME whole2, NEW p \in 1..l, p < g
       PROVE  p \in D \cup P \cup L \cup R
  <2>1. CASE p < f
    BY <1>1, <1>5, <1>11, <2>1
  <2>2. CASE ~(p < f)
    <3>1. p \in Nat /\ f <= p /\ p < f + n
      BY <1>2, <1>5, <1>11, <2>2
    <3>2. QED
      BY <1>2, <3>1
  <2>3. QED
    BY <2>1, <2>2
<1>12. PlacesOk(c, cs, v, whole2, disp, more, ref)
  <2>1. /\ \A p \in D \cup (P \cup R) \cup L : p \in 1..l /\ p < g
        /\ \A p \in D, q \in P \cup R : p < q
        /\ L \cap (D \cup (P \cup R)) = {}
        /\ whole2 => \A p \in 1..l : p < g => p \in D \cup (P \cup R) \cup L
    BY <1>1, <1>8, <1>9, <1>10, <1>11
  <2>2. QED
    BY <1>1, <1>3, <1>7, <2>1, Zenon DEF PlacesOk, D, L, l, g
<1>13. PlacesOk(c, cs, v, whole2, disp, pend, ref2)
  <2>1. /\ \A p \in D \cup P \cup (L \cup R) : p \in 1..l /\ p < g
        /\ (L \cup R) \cap (D \cup P) = {}
        /\ whole2 => \A p \in 1..l : p < g => p \in D \cup P \cup (L \cup R)
    BY <1>1, <1>8, <1>10, <1>11
  <2>2. QED
    BY <1>1, <1>3, <2>1, Zenon DEF PlacesOk, D, P, l, g
<1>14. QED
  BY <1>12, <1>13 DEF more, ref2

\* For the other connections nothing changes.
LEMMA PlacesOther ==
  ASSUME NEW c \in Conns, NEW d, d # c, NEW cs, NEW u, NEW whole, NEW disp, NEW ref,
         NEW pend \in Seq(Conns \X Nat), NEW ready \in Seq(Nat),
         \A i, j \in 1..Len(ready) : i < j => ready[i] < ready[j],
         PlacesOk(d, cs, u, whole, disp, pend, ref)
  PROVE  /\ PlacesOk(d, cs, u, whole, disp, withRead(pend, c, ready), ref)
         /\ PlacesOk(d, cs, u, whole, disp, pend, ref \cup {<<c, ready>>})
<1> DEFINE more == withRead(pend, c, ready)
           ref2 == ref \cup {<<c, ready>>}
<1>1. pendingOf(more, d) = pendingOf(pend, d) /\ lostOf(ref2, d) = lostOf(ref, d)
  <2>0. c \in Conns /\ pend \in Seq(Conns \X Nat) /\ ready \in Seq(Nat) /\ d # c
    OBVIOUS
  <2>1. \A p : p \in pendingOf(more, d) <=> p \in pendingOf(pend, d) \/ (d = c /\ p \in placesIn(ready))
    BY ONLY <2>0, PendingPlaces
  <2>2. \A p : p \in lostOf(ref2, d) <=> p \in lostOf(ref, d) \/ (d = c /\ p \in placesIn(ready))
    BY ONLY LostPlaces
  <2> HIDE DEF more, ref2
  <2>3. QED
    BY ONLY <2>0, <2>1, <2>2
<1>2. \A i, j \in 1..Len(pend) : pend[i][1] = d /\ pend[j][1] = d /\ i < j => pend[i][2] < pend[j][2]
  BY DEF PlacesOk
<1>3. \A i, j \in 1..Len(more) : more[i][1] = d /\ more[j][1] = d /\ i < j => more[i][2] < more[j][2]
  <2> HIDE DEF ref2
  <2>1. d = c => \A p \in pendingOf(pend, c), q \in placesIn(ready) : p < q
    OBVIOUS
  <2>2. QED
    BY <1>2, <2>1, PendingOrder
<1> HIDE DEF more, ref2
<1>4. PlacesOk(d, cs, u, whole, disp, more, ref) /\ PlacesOk(d, cs, u, whole, disp, pend, ref2)
  BY <1>1, <1>3, Zenon DEF PlacesOk
<1>5. QED
  BY <1>4 DEF more, ref2

\* The commands that are pending after the first.
LEMMA TailPlaces ==
  ASSUME NEW pend \in Seq(Conns \X Nat), pend # <<>>
  PROVE  LET rest == Tail(pend) IN
         /\ rest \in Seq(Conns \X Nat) /\ Len(rest) \in Nat /\ Len(pend) \in Nat /\ Len(pend) = Len(rest) + 1
         /\ Head(pend) = pend[1] /\ Head(pend) \in Conns \X Nat
         /\ \A k \in 1..Len(rest) : k + 1 \in 1..Len(pend) /\ rest[k] = pend[k + 1]
         /\ \A k \in 1..Len(pend) : k = 1 \/ k - 1 \in 1..Len(rest)
<1> DEFINE rest == Tail(pend)
           S == Conns \X Nat
<1>1. pend \in Seq(S)
  OBVIOUS
<1>2. Len(pend) \in Nat /\ Len(pend) # 0
  BY LenProperties, EmptySeq
<1>3. 1 \in 1..Len(pend)
  BY <1>2
<1>4. pend[1] \in S
  BY <1>3, ElementOfSeq
<1> HIDE DEF S
<1>5. /\ Head(pend) \in S /\ rest \in Seq(S) /\ Len(rest) = Len(pend) - 1
      /\ \A k \in 1..Len(rest) : rest[k] = pend[k + 1]
  BY <1>1, HeadTailProperties
<1>6. Head(pend) = pend[1]
  BY <1>1, HeadTailProperties
<1> DEFINE l == Len(pend)
           m == Len(rest)
<1> HIDE DEF rest, l, m
<1>7. l \in Nat /\ l # 0 /\ m = l - 1
  BY <1>2, <1>5 DEF l, m
<1>8. m \in Nat /\ l = m + 1 /\ (\A k \in 1..m : k + 1 \in 1..l) /\ (\A k \in 1..l : k = 1 \/ k - 1 \in 1..m)
  BY <1>7
<1>9. QED
  BY <1>5, <1>6, <1>7, <1>8, Zenon DEF l, m, rest, S

\* The first pending command is dispatched.
LEMMA PlacesDispatched ==
  ASSUME NEW pend \in Seq(Conns \X Nat), pend # <<>>, NEW d, NEW cs, NEW u, NEW whole,
         NEW disp \in Seq(Nat), NEW ref, PlacesOk(d, cs, u, whole, disp, pend, ref)
  PROVE  LET h == Head(pend) IN
         PlacesOk(d, cs, u, whole, IF d = h[1] THEN Append(disp, h[2]) ELSE disp, Tail(pend), ref)
<1> DEFINE h == Head(pend)
           rest == Tail(pend)
           i == h[2]
           disp2 == IF d = h[1] THEN Append(disp, i) ELSE disp
           D == placesIn(disp)
           P == pendingOf(pend, d)
           Q == pendingOf(rest, d)
           L == lostOf(ref, d)
           l == Len(pend)
           m == Len(rest)
           I == IF d = h[1] THEN {i} ELSE {}
<1>1. /\ rest \in Seq(Conns \X Nat) /\ m \in Nat /\ l \in Nat /\ l = m + 1 /\ h = pend[1] /\ h \in Conns \X Nat
      /\ \A k \in 1..m : k + 1 \in 1..l /\ rest[k] = pend[k + 1]
      /\ \A k \in 1..l : k = 1 \/ k - 1 \in 1..m
  BY TailPlaces
<1>2. /\ \A p \in D \cup P \cup L : p \in 1..Len(cs) /\ p < firstOf(cs, u)
      /\ \A k, j \in 1..Len(disp) : k < j => disp[k] < disp[j]
      /\ \A k, j \in 1..l : pend[k][1] = d /\ pend[j][1] = d /\ k < j => pend[k][2] < pend[j][2]
      /\ \A p \in D, q \in P : p < q
      /\ L \cap (D \cup P) = {}
      /\ whole => \A p \in 1..Len(cs) : p < firstOf(cs, u) => p \in D \cup P \cup L
  BY DEF PlacesOk
<1>3. \A p : p \in P <=> \E k \in 1..l : pend[k][1] = d /\ pend[k][2] = p
  BY DEF pendingOf
<1>4. \A p : p \in Q <=> \E k \in 1..m : rest[k][1] = d /\ rest[k][2] = p
  BY DEF pendingOf
<1>5. \A p : p \in D <=> \E k \in 1..Len(disp) : disp[k] = p
  BY DEF placesIn
<1>6. i \in Nat
  BY <1>1
<1> HIDE DEF h, rest, i, D, P, Q, L, l, m
<1>7. P = Q \cup I
  <2>1. ASSUME NEW p \in P
        PROVE  p \in Q \/ p \in I
    <3>1. PICK k \in 1..l : pend[k][1] = d /\ pend[k][2] = p
      BY <1>3
    <3>2. CASE k = 1
      BY <1>1, <3>1, <3>2 DEF i
    <3>3. CASE k - 1 \in 1..m
      <4> DEFINE j == k - 1
      <4>1. j \in 1..m /\ j + 1 = k
        BY <1>1, <3>3
      <4> HIDE DEF j
      <4>2. rest[j] = pend[k]
        BY ONLY <1>1, <4>1, Zenon
      <4>3. QED
        BY <1>4, <3>1, <4>1, <4>2
    <3>4. QED
      BY <1>1, <3>2, <3>3
  <2>2. ASSUME NEW p \in Q
        PROVE  p \in P
    <3>1. PICK k \in 1..m : rest[k][1] = d /\ rest[k][2] = p
      BY <1>4
    <3> DEFINE j == k + 1
    <3>2. j \in 1..l /\ rest[k] = pend[j]
      BY <1>1
    <3> HIDE DEF j
    <3>3. QED
      BY <1>3, <3>1, <3>2
  <2>3. ASSUME d = h[1]
        PROVE  i \in P
    <3>1. 1 \in 1..l
      BY <1>1
    <3>2. QED
      BY <1>1, <1>3, <2>3, <3>1 DEF i
  <2>4. QED
    BY <2>1, <2>2, <2>3
<1>8. \A k, j \in 1..m : rest[k][1] = d /\ rest[j][1] = d /\ k < j => rest[k][2] < rest[j][2]
  <2> SUFFICES ASSUME NEW k \in 1..m, NEW j \in 1..m, rest[k][1] = d, rest[j][1] = d, k < j
               PROVE  rest[k][2] < rest[j][2]
    OBVIOUS
  <2> DEFINE k1 == k + 1
             j1 == j + 1
  <2>1. k1 \in 1..l /\ j1 \in 1..l /\ rest[k] = pend[k1] /\ rest[j] = pend[j1]
    BY <1>1
  <2>2. k1 < j1
    BY <1>1
  <2> HIDE DEF k1, j1
  <2>3. QED
    BY <1>2, <2>1, <2>2
<1>9. ASSUME d = h[1], NEW q \in Q
      PROVE  i < q
  <2>1. PICK k \in 1..m : rest[k][1] = d /\ rest[k][2] = q
    BY <1>4
  <2> DEFINE j == k + 1
  <2>2. j \in 1..l /\ rest[k] = pend[j] /\ 1 < j /\ 1 \in 1..l
    BY <1>1
  <2> HIDE DEF j
  <2>3. pend[1][1] = d /\ pend[1][2] = i /\ pend[j][1] = d /\ pend[j][2] = q
    BY <1>1, <1>9, <2>1, <2>2 DEF i
  <2>4. QED
    BY <1>2, <2>2, <2>3
<1>10. CASE d # h[1]
  <2>1. I = {} /\ P = Q
    BY <1>7, <1>10
  <2>2. PlacesOk(d, cs, u, whole, disp, rest, ref)
    BY <1>2, <1>8, <2>1, Zenon DEF PlacesOk, D, Q, L, m
  <2>3. QED
    BY <1>10, <2>2 DEF rest, h
<1>11. CASE d = h[1]
  <2> DEFINE E == placesIn(Append(disp, i))
             n == Len(disp)
             app == Append(disp, i)
  <2>1. P = Q \cup {i} /\ i \in P
    BY <1>7, <1>11
  <2>2. /\ app \in Seq(Nat) /\ Len(app) = n + 1 /\ app[n + 1] = i /\ n \in Nat
        /\ \A k \in 1..n : app[k] = disp[k]
    <3>1. n \in Nat
      BY LenProperties
    <3>2. QED
      BY <1>6, <3>1, AppendProperties
  <2> HIDE DEF n, app
  <2>3. \A k \in 1..(n + 1) : k \in 1..n \/ k = n + 1
    BY <2>2
  <2>4. \A k \in 1..n : k \in 1..(n + 1)
    BY <2>2
  <2>5. n + 1 \in 1..(n + 1)
    BY <2>2
  <2>6. \A p : p \in E <=> \E k \in 1..(n + 1) : app[k] = p
    BY <2>2 DEF placesIn, app
  <2> HIDE DEF E
  <2>7. E = D \cup {i}
    BY <1>5, <2>2, <2>3, <2>4, <2>5, <2>6 DEF n
  <2>8. \A k, j \in 1..Len(app) : k < j => app[k] < app[j]
    <3> SUFFICES ASSUME NEW k \in 1..(n + 1), NEW j \in 1..(n + 1), k < j
                 PROVE  app[k] < app[j]
      BY <2>2
    <3>1. k \in 1..n
      BY <2>2
    <3>2. disp[k] \in D
      BY <1>5, <3>1 DEF n
    <3>3. CASE j = n + 1
      BY <1>2, <2>1, <2>2, <3>1, <3>2, <3>3
    <3>4. CASE j \in 1..n
      BY <1>2, <2>2, <3>1, <3>4 DEF n
    <3>5. QED
      BY <2>3, <3>3, <3>4
  <2>9. /\ \A p \in E \cup Q \cup L : p \in 1..Len(cs) /\ p < firstOf(cs, u)
        /\ L \cap (E \cup Q) = {}
        /\ whole => \A p \in 1..Len(cs) : p < firstOf(cs, u) => p \in E \cup Q \cup L
    <3>1. E \cup Q = D \cup P
      BY <2>1, <2>7
    <3>2. QED
      BY <1>2, <3>1, Zenon
  <2>10. \A p \in E, q \in Q : p < q
    BY <1>2, <1>9, <1>11, <2>1, <2>7
  <2>11. PlacesOk(d, cs, u, whole, app, rest, ref)
    BY <1>8, <2>8, <2>9, <2>10, Zenon DEF PlacesOk, E, Q, L, m, app
  <2>12. QED
    BY <1>11, <2>11 DEF rest, h, app, i
<1>12. QED
  BY <1>10, <1>11

-----------------------------------------------------------------------------
(* Streams that grow and that are cut *)

\* The units of a command more.
LEMMA UnitsGrow ==
  ASSUME IntakeConstants, NEW cs \in Seq(Commands), NEW k \in Commands
  PROVE  LET cs2 == Append(cs, k) IN
         /\ cs2 \in Seq(Commands) /\ Len(cs) \in Nat /\ Len(cs2) = Len(cs) + 1 /\ cs2[Len(cs) + 1] = k
         /\ \A u \in UnitsOf(cs) : u \in UnitsOf(cs2) /\ cs2[u[1]] = cs[u[1]]
         /\ \A i \in 1..k.size : <<Len(cs) + 1, i>> \in UnitsOf(cs2)
<1> DEFINE cs2 == Append(cs, k)
           l == Len(cs)
<1>1. /\ cs2 \in Seq(Commands) /\ Len(cs2) = l + 1 /\ cs2[l + 1] = k
      /\ \A i \in 1..l : cs2[i] = cs[i]
  BY AppendProperties
<1>2. l \in Nat
  BY LenProperties
<1>3. ASSUME NEW u \in UnitsOf(cs)
      PROVE  u \in UnitsOf(cs2) /\ cs2[u[1]] = cs[u[1]]
  <2>1. u[1] \in 1..l /\ u[2] \in Nat /\ u[2] > 0 /\ u = <<u[1], u[2]>> /\ u[2] <= cs[u[1]].size
    BY UnitFields
  <2> HIDE DEF cs2, l
  <2>2. cs2[u[1]] = cs[u[1]] /\ u[1] \in 1..(l + 1)
    BY <1>1, <1>2, <2>1
  <2>3. u \in (1..Len(cs2)) \X Nat
    BY <1>1, <2>1, <2>2
  <2>4. QED
    BY <2>1, <2>2, <2>3 DEF UnitsOf
<1>4. ASSUME NEW i \in 1..k.size
      PROVE  <<l + 1, i>> \in UnitsOf(cs2)
  <2>1. i \in Nat /\ i > 0 /\ i <= k.size
    BY DEF IntakeConstants
  <2> HIDE DEF cs2, l
  <2>2. l + 1 \in 1..(l + 1)
    BY <1>2
  <2> DEFINE x == <<l + 1, i>>
  <2>3. x \in (1..Len(cs2)) \X Nat /\ x[1] = l + 1 /\ x[2] = i
    BY <1>1, <2>1, <2>2
  <2> HIDE DEF x
  <2>4. x \in UnitsOf(cs2)
    BY <1>1, <2>1, <2>3 DEF UnitsOf
  <2>5. QED
    BY <2>4 DEF x
<1>5. QED
  BY <1>1, <1>2, <1>3, <1>4

\* The units of the frame of k, sent after l commands.
frameOf(l, k) == [i \in 1..k.size |-> <<l + 1, i>>]

\* The frame of a command is added at the end of the wire.
LEMMA StreamSent ==
  ASSUME IntakeConstants, NEW cs \in Seq(Commands), NEW k \in Commands,
         NEW cl, cl.buffered \in Seq(Nat \X Nat), cl.state = "open", NEW w \in Seq(Nat \X Nat),
         StreamOk(cs, cl, w, TRUE)
  PROVE  LET new == frameOf(Len(cs), k)
             cs2 == Append(cs, k)
         IN
         /\ w \o new \in Seq(Nat \X Nat)
         /\ StreamOk(cs2, cl, w \o new, TRUE)
         /\ firstOf(cs2, cl.buffered \o (w \o new)) <= firstOf(cs, cl.buffered \o w)
         /\ firstOf(cs2, cl.buffered \o (w \o new)) >= firstOf(cs, cl.buffered \o w)
         /\ firstOf(cs2, cl.buffered \o (w \o new)) \in Nat
<1> DEFINE new == [i \in 1..k.size |-> <<Len(cs) + 1, i>>]
           cs2 == Append(cs, k)
           b == cl.buffered
           u == b \o w
           w2 == w \o new
           u2 == b \o w2
           l == Len(cs)
           n == k.size
           S == Nat \X Nat
<1>1. n \in Nat /\ n > 0
  BY DEF IntakeConstants
<1>2. /\ cs2 \in Seq(Commands) /\ l \in Nat /\ Len(cs2) = l + 1 /\ cs2[l + 1] = k
      /\ \A x \in UnitsOf(cs) : x \in UnitsOf(cs2) /\ cs2[x[1]] = cs[x[1]]
      /\ \A i \in 1..n : <<l + 1, i>> \in UnitsOf(cs2)
  BY UnitsGrow
<1>3. new \in Seq(S) /\ Len(new) = n /\ \A i \in 1..n : new[i] = <<l + 1, i>>
  <2> HIDE DEF l, n
  <2>1. DOMAIN new = 1..n /\ \A i \in 1..n : new[i] = <<l + 1, i>>
    BY DEF l, n
  <2>2. new \in [1..n -> S]
    BY <1>1, <1>2 DEF l, n
  <2> HIDE DEF new, S
  <2>3. new \in Seq(S)
    BY <1>1, <2>2, SeqDef
  <2>4. Len(new) \in Nat /\ DOMAIN new = 1..Len(new)
    BY <2>3, LenProperties
  <2>5. Len(new) = n
    BY <1>1, <2>1, <2>4
  <2>6. QED
    BY <2>1, <2>3, <2>5
<1>4. b \in Seq(S) /\ w \in Seq(S)
  OBVIOUS
<1>5. /\ Chain(cs, u) /\ (u # <<>> => u[1][2] = 1)
      /\ u # <<>> => u[Len(u)] = <<l, cs[l].size>>
      /\ b # <<>> => Len(b) < cs[b[1][1]].size
  BY DEF StreamOk
<1> HIDE DEF new, cs2, b, S, l, n
<1>6. u \in Seq(S)
  BY <1>4, ConcatElements
<1>7. w2 \in Seq(S) /\ Len(w2) \in Nat
  <2>1. w \in Seq(S) /\ new \in Seq(S)
    BY <1>3, <1>4
  <2>2. w \o new \in Seq(S)
    BY ONLY <2>1, ConcatElements
  <2>3. QED
    BY <2>2, LenProperties
<1>8. u2 = u \o new
  <2>1. b \in Seq(S) /\ w \in Seq(S) /\ new \in Seq(S)
    BY <1>3, <1>4
  <2>2. (b \o w) \o new = b \o (w \o new)
    BY ONLY <2>1, ConcatAssociative
  <2>3. QED
    BY <2>2
<1>9. /\ u \o new \in Seq(S) /\ Len(u \o new) = Len(u) + Len(new) /\ Len(u) \in Nat /\ Len(new) \in Nat
      /\ \A i \in 1..Len(u) : i \in 1..Len(u \o new) /\ (u \o new)[i] = u[i]
      /\ \A i \in 1..Len(new) : Len(u) + i \in 1..Len(u \o new) /\ (u \o new)[Len(u) + i] = new[i]
      /\ \A i \in 1..Len(u \o new) : i \in 1..Len(u) \/ i - Len(u) \in 1..Len(new)
  <2>1. u \in Seq(S) /\ new \in Seq(S)
    BY <1>3, <1>6
  <2> HIDE DEF u
  <2>2. QED
    BY ONLY <2>1, ConcatElements
<1> DEFINE lu == Len(u)
           lv == Len(u2)
<1> HIDE DEF u2, lu, lv, w2
<1>10. /\ u2 \in Seq(S) /\ lv = lu + n /\ lu \in Nat
       /\ \A i \in 1..lu : i \in 1..lv /\ u2[i] = u[i]
       /\ \A i \in 1..n : lu + i \in 1..lv /\ u2[lu + i] = new[i]
       /\ \A i \in 1..lv : i \in 1..lu \/ i - lu \in 1..n
  BY <1>3, <1>8, <1>9, Zenon DEF lu, lv
<1> HIDE DEF u
<1>11. /\ u \in Seq(UnitsOf(cs))
       /\ \A i \in 1..lu : i + 1 <= lu => u[i + 1] = nextUnit(cs, u[i])
  BY <1>5 DEF Chain, lu
<1>12. \A i \in 1..lu : u[i] \in UnitsOf(cs)
  BY <1>11, ElementOfSeq DEF lu
<1>13. \A i \in 1..lv : \/ i \in 1..lu /\ u2[i] = u[i]
                        \/ i \notin 1..lu /\ \E j \in 1..n : i = lu + j /\ u2[i] = <<l + 1, j>>
  <2> SUFFICES ASSUME NEW i \in 1..lv, i \notin 1..lu
               PROVE  \E j \in 1..n : i = lu + j /\ u2[i] = <<l + 1, j>>
    BY <1>10
  <2> DEFINE j == i - lu
  <2>1. j \in 1..n /\ lu + j = i
    BY <1>1, <1>10
  <2> HIDE DEF j
  <2>2. u2[lu + j] = new[j] /\ new[j] = <<l + 1, j>>
    BY <1>3, <1>10, <2>1
  <2>3. u2[i] = <<l + 1, j>>
    BY ONLY <2>1, <2>2, Zenon
  <2>4. QED
    BY <2>1, <2>3
<1>14. u2 \in Seq(UnitsOf(cs2))
  <2>1. \A i \in 1..lv : u2[i] \in UnitsOf(cs2)
    BY <1>2, <1>12, <1>13
  <2>2. lv \in Nat /\ u2 = [i \in 1..lv |-> u2[i]]
    BY <1>10, LenProperties DEF lv
  <2>3. u2 \in [1..lv -> UnitsOf(cs2)]
    BY <2>1, <2>2
  <2>4. QED
    BY <2>2, <2>3, SeqDef
<1>15. ASSUME NEW i \in 1..lv, i + 1 <= lv
       PROVE  u2[i + 1] = nextUnit(cs2, u2[i])
  <2>0. i + 1 \in 1..lv /\ i \in Nat
    BY <1>1, <1>10, <1>15
  <2>1. CASE i \in 1..lu /\ i + 1 \in 1..lu
    <3>1. u2[i] = u[i] /\ u2[i + 1] = u[i + 1] /\ u[i + 1] = nextUnit(cs, u[i]) /\ u[i] \in UnitsOf(cs)
      BY <1>10, <1>11, <1>12, <2>1
    <3>2. cs2[u[i][1]] = cs[u[i][1]]
      BY <1>2, <3>1
    <3>3. nextUnit(cs2, u[i]) = nextUnit(cs, u[i])
      BY <3>2, Zenon DEF nextUnit
    <3>4. QED
      BY ONLY <3>1, <3>3, Zenon
  <2>2. CASE i \in 1..lu /\ i + 1 \notin 1..lu
    <3>1. i = lu /\ 1 \in 1..n /\ i + 1 = lu + 1
      BY <1>1, <1>10, <2>2
    <3>2. u2[lu + 1] = new[1] /\ new[1] = <<l + 1, 1>>
      BY <1>3, <1>10, <3>1
    <3>3. u # <<>>
      BY <1>10, <2>2, EmptySeq DEF lu
    <3>4. u2[i] = u[i] /\ u[i] \in UnitsOf(cs) /\ u[i] = <<l, cs[l].size>>
      BY <1>5, <1>10, <1>12, <2>2, <3>1, <3>3 DEF lu
    <3> DEFINE x == u[i]
    <3> HIDE DEF x
    <3>5. x[1] = l /\ x[2] = cs[l].size /\ cs2[x[1]] = cs[x[1]] /\ x \in UnitsOf(cs)
      <4>1. x = <<l, cs[l].size>> /\ x \in UnitsOf(cs)
        BY ONLY <3>4, Zenon DEF x
      <4>2. x[1] = l /\ x[2] = cs[l].size
        BY ONLY <4>1
      <4>3. cs2[x[1]] = cs[x[1]]
        BY ONLY <1>2, <4>1, Zenon
      <4>4. QED
        BY <4>1, <4>2, <4>3
    <3>6. cs[x[1]].size \in Nat
      BY <3>5, UnitFields
    <3>7. ~(x[2] < cs2[x[1]].size)
      BY <3>5, <3>6
    <3>8. nextUnit(cs2, x) = <<l + 1, 1>>
      BY <3>5, <3>7 DEF nextUnit
    <3>9. QED
      BY ONLY <3>1, <3>2, <3>4, <3>8, Zenon DEF x
  <2>3. CASE i \notin 1..lu
    <3>1. PICK j \in 1..n : i = lu + j /\ u2[i] = <<l + 1, j>>
      BY <1>13, <2>3
    <3>2. j + 1 \in 1..n /\ i + 1 = lu + (j + 1) /\ j < n /\ j \in Nat
      BY <1>1, <1>10, <1>15, <3>1
    <3>3. u2[lu + (j + 1)] = new[j + 1] /\ new[j + 1] = <<l + 1, j + 1>>
      BY <1>3, <1>10, <3>2
    <3> DEFINE x == u2[i]
    <3>4. x[1] = l + 1 /\ x[2] = j
      BY <3>1
    <3> HIDE DEF x
    <3>5. x[2] < cs2[x[1]].size
      BY <1>2, <3>2, <3>4 DEF n
    <3>6. nextUnit(cs2, x) = <<l + 1, j + 1>>
      BY <3>4, <3>5 DEF nextUnit
    <3>7. QED
      BY ONLY <3>2, <3>3, <3>6, Zenon DEF x
  <2>4. QED
    BY <2>1, <2>2, <2>3
<1>16. Chain(cs2, u2)
  BY <1>14, <1>15 DEF Chain, lv
<1>17. u2[lv] = <<l + 1, n>> /\ u2 # <<>> /\ lv > 0
  <2>1. n \in 1..n /\ lu + n = lv /\ lv # 0 /\ lv > 0
    BY <1>1, <1>10
  <2>2. u2[lu + n] = new[n] /\ new[n] = <<l + 1, n>>
    BY <1>3, <1>10, <2>1
  <2>3. u2[lv] = <<l + 1, n>>
    BY ONLY <2>1, <2>2, Zenon
  <2>4. u2 # <<>>
    BY <2>1, EmptySeq DEF lv
  <2>5. QED
    BY <2>1, <2>3, <2>4
<1>18. u2[1][2] = 1 /\ firstOf(cs2, u2) = firstOf(cs, u)
  <2>1. CASE u = <<>>
    <3>1. lu = 0 /\ 1 \in 1..n /\ lu + 1 = 1
      BY <1>1, <2>1, EmptySeq DEF lu
    <3>2. u2[lu + 1] = new[1] /\ new[1] = <<l + 1, 1>>
      BY <1>3, <1>10, <3>1
    <3>3. u2[1] = <<l + 1, 1>>
      BY ONLY <3>1, <3>2, Zenon
    <3>4. firstOf(cs, u) = l + 1
      BY <2>1 DEF firstOf, l
    <3>5. QED
      BY <1>17, <3>3, <3>4 DEF firstOf
  <2>2. CASE u # <<>>
    <3>1. lu # 0
      BY <1>6, <2>2, EmptySeq DEF lu
    <3>2. 1 \in 1..lu
      BY <1>10, <3>1
    <3>3. u2[1] = u[1]
      BY <1>10, <3>2
    <3>4. QED
      BY <1>5, <1>17, <2>2, <3>3 DEF firstOf
  <2>3. QED
    BY <2>1, <2>2
<1>19. b # <<>> => Len(b) < cs2[b[1][1]].size
  <2> SUFFICES ASSUME b # <<>>
               PROVE  Len(b) < cs2[b[1][1]].size
    OBVIOUS
  <2>1. Len(b) \in Nat /\ Len(b) # 0
    BY <1>4, EmptySeq, LenProperties
  <2>2. 1 \in 1..Len(b)
    BY <2>1
  <2>3. 1 \in 1..lu /\ u[1] = b[1]
    <3>1. b \in Seq(S) /\ w \in Seq(S)
      BY <1>4
    <3>2. \A i \in 1..Len(b) : i \in 1..Len(b \o w) /\ (b \o w)[i] = b[i]
      BY ONLY <3>1, ConcatElements
    <3>3. QED
      BY <2>2, <3>2 DEF u, lu
  <2>4. b[1] \in UnitsOf(cs)
    BY <1>12, <2>3
  <2>5. QED
    BY <1>2, <1>5, <2>4
<1>20. StreamOk(cs2, cl, w2, TRUE)
  <2>1. cs2[Len(cs2)].size = n /\ Len(cs2) = l + 1
    BY <1>2 DEF n
  <2>2. u2[Len(u2)] = <<Len(cs2), cs2[Len(cs2)].size>>
    BY ONLY <1>17, <2>1, Zenon DEF lv
  <2>3. QED
    BY <1>16, <1>18, <1>19, <2>2, Zenon DEF StreamOk, b, u2
<1>21. firstOf(cs2, u2) <= firstOf(cs, u) /\ firstOf(cs2, u2) >= firstOf(cs, u) /\ firstOf(cs2, u2) \in Nat
  <2> DEFINE f == firstOf(cs, u)
             f2 == firstOf(cs2, u2)
  <2>1. f \in Nat /\ f2 = f
    BY <1>5, <1>18, FirstInRange
  <2> HIDE DEF f, f2
  <2>2. f2 <= f /\ f2 >= f /\ f2 \in Nat
    BY <2>1
  <2>3. QED
    BY <2>2 DEF f, f2
<1>22. QED
  BY <1>7, <1>20, <1>21, Zenon DEF w2, u2, u, new, cs2, b, S, frameOf

\* Of a stream that is cut only what comes later is left.
LEMMA StreamCut ==
  ASSUME IntakeConstants, NEW cs \in Seq(Commands), NEW u, Chain(cs, u),
         NEW S, NEW t \in Seq(S), NEW k \in Nat, k + Len(t) <= Len(u),
         \A i \in 1..Len(t) : t[i] = u[k + i]
  PROVE  /\ Chain(cs, t) /\ firstOf(cs, u) <= firstOf(cs, t)
         /\ firstOf(cs, u) \in Nat /\ firstOf(cs, t) \in Nat /\ Len(cs) \in Nat
<1>1. Chain(cs, t)
  BY ChainPart
<1>2. /\ firstOf(cs, u) \in Nat /\ firstOf(cs, u) <= Len(cs) + 1 /\ Len(cs) \in Nat
      /\ firstOf(cs, t) \in Nat
  BY <1>1, FirstInRange
<1>3. CASE t = <<>>
  <2>1. firstOf(cs, t) = Len(cs) + 1
    BY <1>3 DEF firstOf
  <2>2. QED
    BY <1>1, <1>2, <2>1
<1>4. CASE t # <<>>
  <2>1. Len(t) \in Nat /\ Len(t) # 0 /\ Len(u) \in Nat
    BY <1>4, EmptySeq, LenProperties DEF Chain
  <2>2. 1 \in 1..Len(t) /\ 1 \in 1..Len(u) /\ k + 1 \in 1..Len(u) /\ 1 <= k + 1 /\ Len(u) # 0
    BY <2>1
  <2>3. t[1] = u[k + 1]
    BY <2>2
  <2>4. u[1][1] <= u[k + 1][1]
    BY <2>2, ChainAscends
  <2>5. u # <<>>
    BY <2>2, EmptySeq
  <2>6. firstOf(cs, t) = u[k + 1][1] /\ firstOf(cs, u) = u[1][1]
    BY <1>4, <2>3, <2>5 DEF firstOf
  <2>7. QED
    BY <1>1, <1>2, <2>4, <2>6
<1>5. QED
  BY <1>3, <1>4

\* What is left of w after n units.
RestOf(w, n, t) ==
  /\ t \in Seq(Nat \X Nat) /\ n \in Nat /\ n <= Len(w) /\ Len(t) = Len(w) - n
  /\ \A i \in 1..Len(t) : t[i] = w[n + i]

\* A connection that is closed forgets its buffer; n units may have been read.
LEMMA StreamClosed ==
  ASSUME IntakeConstants, NEW cs \in Seq(Commands),
         NEW cl, cl.buffered \in Seq(Nat \X Nat), NEW w \in Seq(Nat \X Nat),
         NEW whole, StreamOk(cs, cl, w, whole), NEW n, NEW w2, RestOf(w, n, w2),
         NEW cl2, cl2.state # "open", cl2.buffered = <<>>, NEW whole2
  PROVE  /\ StreamOk(cs, cl2, w2, whole2)
         /\ firstOf(cs, cl.buffered \o w) <= firstOf(cs, <<>> \o w2)
         /\ firstOf(cs, cl.buffered \o w) \in Nat /\ firstOf(cs, <<>> \o w2) \in Nat /\ Len(cs) \in Nat
<1> DEFINE S == Nat \X Nat
           b == cl.buffered
           u == b \o w
           lb == Len(b)
           lw == Len(w)
           lt == Len(w2)
           lu == Len(u)
<1>1. b \in Seq(S) /\ w \in Seq(S) /\ w2 \in Seq(S) /\ Chain(cs, u)
  BY DEF StreamOk, RestOf
<1> HIDE DEF S, b
<1>2. /\ lb \in Nat /\ lw \in Nat /\ lu = lb + lw
      /\ \A i \in 1..lw : lb + i \in 1..lu /\ u[lb + i] = w[i]
  <2>1. b \in Seq(S) /\ w \in Seq(S)
    BY <1>1
  <2>2. /\ b \o w \in Seq(S) /\ Len(b \o w) = Len(b) + Len(w) /\ Len(b) \in Nat /\ Len(w) \in Nat
        /\ \A i \in 1..Len(b) : i \in 1..Len(b \o w) /\ (b \o w)[i] = b[i]
        /\ \A i \in 1..Len(w) : Len(b) + i \in 1..Len(b \o w) /\ (b \o w)[Len(b) + i] = w[i]
        /\ \A i \in 1..Len(b \o w) : i \in 1..Len(b) \/ i - Len(b) \in 1..Len(w)
    BY ONLY <2>1, ConcatElements
  <2>3. QED
    BY ONLY <2>2, Zenon DEF lb, lw, lu, u
<1>3. <<>> \o w2 = w2
  BY <1>1, ConcatEmptySeq
<1>4. lt = lw - n /\ n \in Nat /\ n <= lw /\ \A i \in 1..lt : w2[i] = w[n + i]
  BY DEF RestOf
<1> HIDE DEF u, lb, lw, lt, lu
<1>5. lb + n \in Nat /\ (lb + n) + lt <= lu
  BY <1>2, <1>4
<1>6. ASSUME NEW i \in 1..lt
      PROVE  w2[i] = u[(lb + n) + i]
  <2>1. (lb + n) + i = lb + (n + i) /\ n + i \in 1..lw
    BY <1>2, <1>4
  <2>2. u[lb + (n + i)] = w[n + i] /\ w2[i] = w[n + i]
    BY <1>2, <1>4, <2>1
  <2>3. QED
    BY ONLY <2>1, <2>2, Zenon
<1> DEFINE k == lb + n
<1> HIDE DEF k
<1>7. k \in Nat /\ k + Len(w2) <= Len(u) /\ \A i \in 1..Len(w2) : w2[i] = u[k + i]
  BY <1>5, <1>6 DEF k, lt, lu
<1>8. /\ Chain(cs, w2) /\ firstOf(cs, u) <= firstOf(cs, w2)
      /\ firstOf(cs, u) \in Nat /\ firstOf(cs, w2) \in Nat /\ Len(cs) \in Nat
  BY <1>1, <1>7, StreamCut
<1>9. StreamOk(cs, cl2, w2, whole2)
  BY <1>3, <1>8, Zenon DEF StreamOk
<1>10. QED
  BY <1>3, <1>8, <1>9, Zenon DEF u, b

\* The network loses what is on the way.
LEMMA StreamLost ==
  ASSUME IntakeConstants, NEW cs \in Seq(Commands),
         NEW cl, cl.buffered \in Seq(Nat \X Nat), NEW w \in Seq(Nat \X Nat),
         NEW whole, StreamOk(cs, cl, w, whole)
  PROVE  /\ StreamOk(cs, cl, <<>>, FALSE)
         /\ firstOf(cs, cl.buffered \o w) <= firstOf(cs, cl.buffered \o <<>>)
         /\ firstOf(cs, cl.buffered \o w) \in Nat /\ firstOf(cs, cl.buffered \o <<>>) \in Nat
         /\ Len(cs) \in Nat
<1> DEFINE S == Nat \X Nat
           b == cl.buffered
           u == b \o w
           lb == Len(b)
           lw == Len(w)
           lu == Len(u)
<1>1. /\ b \in Seq(S) /\ w \in Seq(S) /\ Chain(cs, u)
      /\ cl.state = "open" /\ u # <<>> => u[1][2] = 1
      /\ b # <<>> => Len(b) < cs[b[1][1]].size
  BY DEF StreamOk
<1> HIDE DEF S, b
<1>2. /\ lb \in Nat /\ lw \in Nat /\ lu = lb + lw
      /\ \A i \in 1..lb : i \in 1..lu /\ u[i] = b[i]
  <2>1. b \in Seq(S) /\ w \in Seq(S)
    BY <1>1
  <2>2. QED
    BY ONLY <2>1, ConcatElements
<1>3. b \o <<>> = b
  BY <1>1, ConcatEmptySeq
<1> HIDE DEF u, lb, lw, lu
<1>4. 0 + lb <= lu /\ \A i \in 1..lb : b[i] = u[0 + i]
  <2>1. \A i \in 1..lb : 0 + i = i
    BY <1>2
  <2>2. QED
    BY <1>2, <2>1
<1>5. /\ Chain(cs, b) /\ firstOf(cs, u) <= firstOf(cs, b)
      /\ firstOf(cs, u) \in Nat /\ firstOf(cs, b) \in Nat /\ Len(cs) \in Nat
  BY <1>1, <1>4, StreamCut DEF lb, lu
<1>6. ASSUME cl.state = "open", b # <<>>
      PROVE  b[1][2] = 1
  <2>1. lb # 0
    BY <1>1, <1>6, EmptySeq DEF lb
  <2>2. 1 \in 1..lb /\ lu # 0
    BY <1>2, <2>1
  <2>3. u # <<>>
    BY <2>2, EmptySeq DEF lu
  <2>4. QED
    BY <1>1, <1>2, <1>6, <2>2, <2>3
<1>7. StreamOk(cs, cl, <<>>, FALSE)
  BY <1>1, <1>3, <1>5, <1>6, Zenon DEF StreamOk, b
<1>8. QED
  BY <1>3, <1>5, <1>7, Zenon DEF u, b

-----------------------------------------------------------------------------
(* The steps of clients *)

\* The parts of the invariant that are about one connection.
LEMMA OneConnection ==
  ASSUME IntakeConstants, IntakeInv, NEW c \in Conns
  PROVE  /\ sent[c] \in Seq(Commands) /\ wire[c] \in Seq(Nat \X Nat)
         /\ client[c] \in [state : ClientStates, buffered : Seq(Nat \X Nat)]
         /\ client[c].buffered \in Seq(Nat \X Nat) /\ dispatched[c] \in Seq(Nat)
         /\ StreamOk(sent[c], client[c], wire[c], c \notin eof)
         /\ PlacesOk(c, sent[c], client[c].buffered \o wire[c], client[c].state = "open" /\ c \notin eof,
                     dispatched[c], pendingCommands, refused)
         /\ Chain(sent[c], client[c].buffered \o wire[c])
         /\ Len(sent[c]) \in Nat /\ firstOf(sent[c], client[c].buffered \o wire[c]) \in Nat
         /\ firstOf(sent[c], client[c].buffered \o wire[c]) > 0
         /\ firstOf(sent[c], client[c].buffered \o wire[c]) <= Len(sent[c]) + 1
<1>1. /\ sent[c] \in Seq(Commands) /\ wire[c] \in Seq(Nat \X Nat)
      /\ client[c] \in [state : ClientStates, buffered : Seq(Nat \X Nat)] /\ dispatched[c] \in Seq(Nat)
  BY DEF IntakeInv, IntakeTypes
<1>2. client[c].buffered \in Seq(Nat \X Nat)
  BY <1>1
<1>3. StreamOk(sent[c], client[c], wire[c], c \notin eof)
  BY DEF IntakeInv, StreamInv
<1>4. PlacesOk(c, sent[c], client[c].buffered \o wire[c], client[c].state = "open" /\ c \notin eof,
               dispatched[c], pendingCommands, refused)
  BY DEF IntakeInv, PlacesInv
<1>5. Chain(sent[c], client[c].buffered \o wire[c])
  BY <1>3 DEF StreamOk
<1>6. /\ Len(sent[c]) \in Nat /\ firstOf(sent[c], client[c].buffered \o wire[c]) \in Nat
      /\ firstOf(sent[c], client[c].buffered \o wire[c]) > 0
      /\ firstOf(sent[c], client[c].buffered \o wire[c]) <= Len(sent[c]) + 1
  BY <1>1, <1>5, FirstInRange
<1>7. QED
  BY <1>1, <1>2, <1>3, <1>4, <1>5, <1>6

LEMMA StepSend ==
  ASSUME IntakeConstants, IntakeInv, NEW c \in Conns, NEW k \in Commands, Send(c, k)
  PROVE  IntakeInv'
<1> DEFINE new == [i \in 1..k.size |-> <<Len(sent[c]) + 1, i>>]
           cs2 == Append(sent[c], k)
           w2 == wire[c] \o new
           b == client[c].buffered
<1>1. /\ client[c].state = "open" /\ c \notin eof /\ turn = 0
      /\ sent' = [sent EXCEPT ![c] = cs2] /\ wire' = [wire EXCEPT ![c] = w2]
      /\ UNCHANGED <<client, eof, turn, pendingCommands, counts, snapshotRequests, dispatched, refused, denied>>
  BY DEF Send
<1>2. IntakeTypes /\ TurnInv /\ ServedInv /\ RefusedForOwnRead /\ DeniedRequestIsServed
  BY DEF IntakeInv
<1>3. /\ sent[c] \in Seq(Commands) /\ wire[c] \in Seq(Nat \X Nat) /\ b \in Seq(Nat \X Nat)
      /\ StreamOk(sent[c], client[c], wire[c], c \notin eof)
      /\ PlacesOk(c, sent[c], b \o wire[c], client[c].state = "open" /\ c \notin eof,
                  dispatched[c], pendingCommands, refused)
      /\ Len(sent[c]) \in Nat /\ firstOf(sent[c], b \o wire[c]) \in Nat
      /\ firstOf(sent[c], b \o wire[c]) <= Len(sent[c]) + 1
  BY OneConnection
<1>4. StreamOk(sent[c], client[c], wire[c], TRUE)
  BY <1>1, <1>3, Zenon DEF StreamOk
<1>5. /\ w2 \in Seq(Nat \X Nat) /\ StreamOk(cs2, client[c], w2, TRUE)
      /\ firstOf(cs2, b \o w2) <= firstOf(sent[c], b \o wire[c])
      /\ firstOf(cs2, b \o w2) >= firstOf(sent[c], b \o wire[c])
      /\ firstOf(cs2, b \o w2) \in Nat
  <2> DEFINE cs == sent[c]
             cl == client[c]
             w == wire[c]
             S == Nat \X Nat
  <2>1. cs \in Seq(Commands) /\ cl.buffered \in Seq(S) /\ cl.state = "open" /\ w \in Seq(S)
    BY <1>1, <1>3
  <2>2. StreamOk(cs, cl, w, TRUE)
    BY <1>4
  <2> HIDE DEF cs, cl, w
  <2>3. /\ w \o frameOf(Len(cs), k) \in Seq(S)
        /\ StreamOk(Append(cs, k), cl, w \o frameOf(Len(cs), k), TRUE)
        /\ firstOf(Append(cs, k), cl.buffered \o (w \o frameOf(Len(cs), k))) <= firstOf(cs, cl.buffered \o w)
        /\ firstOf(Append(cs, k), cl.buffered \o (w \o frameOf(Len(cs), k))) >= firstOf(cs, cl.buffered \o w)
        /\ firstOf(Append(cs, k), cl.buffered \o (w \o frameOf(Len(cs), k))) \in Nat
    <3>1. cs \in Seq(Commands) /\ k \in Commands /\ IntakeConstants
      BY <2>1
    <3>2. cl.buffered \in Seq(Nat \X Nat) /\ w \in Seq(Nat \X Nat) /\ cl.state = "open"
      BY <2>1
    <3>3. QED
      BY ONLY <2>2, <3>1, <3>2, StreamSent
  <2>4. QED
    BY <2>3, Zenon DEF cs, cl, w, frameOf
<1>6. cs2 \in Seq(Commands) /\ Len(cs2) = Len(sent[c]) + 1
  BY <1>3, AppendProperties
<1> HIDE DEF cs2, w2
<1>7. /\ sent'[c] = cs2 /\ wire'[c] = w2
      /\ \A d \in Conns : d # c => sent'[d] = sent[d] /\ wire'[d] = wire[d]
  BY <1>1, <1>2 DEF IntakeTypes
<1>8. PlacesOk(c, cs2, b \o w2, client[c].state = "open" /\ c \notin eof,
               dispatched[c], pendingCommands, refused)
  <2> DEFINE whole == client[c].state = "open" /\ c \notin eof
             u == b \o wire[c]
             u2 == b \o w2
             cs == sent[c]
  <2>1. /\ PlacesOk(c, cs, u, whole, dispatched[c], pendingCommands, refused)
        /\ Len(cs) \in Nat /\ Len(cs2) \in Nat /\ Len(cs) <= Len(cs2)
        /\ firstOf(cs, u) \in Nat /\ firstOf(cs, u) <= Len(cs) + 1
        /\ firstOf(cs2, u2) \in Nat /\ firstOf(cs2, u2) <= firstOf(cs, u) /\ firstOf(cs2, u2) >= firstOf(cs, u)
    BY <1>3, <1>5, <1>6
  <2> HIDE DEF u, u2, cs, whole
  <2>2. firstOf(cs, u) <= firstOf(cs2, u2) /\ firstOf(cs2, u2) = firstOf(cs, u)
    BY <2>1
  <2>3. PlacesOk(c, cs2, u2, whole, dispatched[c], pendingCommands, refused)
    BY <2>1, <2>2, PlacesLater
  <2>4. QED
    BY <2>3 DEF whole, u2
<1>9. StreamInv'
  <2>1. ASSUME NEW d \in Conns
        PROVE  StreamOk(sent'[d], client[d], wire'[d], d \notin eof)
    <3>1. CASE d = c
      <4>1. StreamOk(cs2, client[c], w2, c \notin eof)
        BY <1>1, <1>5, Zenon DEF StreamOk
      <4>2. QED
        BY <1>7, <3>1, <4>1, Zenon
    <3>2. CASE d # c
      <4>1. StreamOk(sent[d], client[d], wire[d], d \notin eof)
        BY OneConnection
      <4>2. QED
        BY <1>7, <3>2, <4>1, Zenon
    <3>3. QED
      BY <3>1, <3>2
  <2>2. QED
    BY <1>1, <2>1, Zenon DEF StreamInv
<1>10. PlacesInv'
  <2>1. ASSUME NEW d \in Conns
        PROVE  PlacesOk(d, sent'[d], client[d].buffered \o wire'[d], client[d].state = "open" /\ d \notin eof,
                        dispatched[d], pendingCommands, refused)
    <3>1. CASE d = c
      BY <1>7, <1>8, <3>1, Zenon
    <3>2. CASE d # c
      <4>1. PlacesOk(d, sent[d], client[d].buffered \o wire[d], client[d].state = "open" /\ d \notin eof,
                     dispatched[d], pendingCommands, refused)
        BY OneConnection
      <4>2. QED
        BY <1>7, <3>2, <4>1, Zenon
    <3>3. QED
      BY <3>1, <3>2
  <2>2. QED
    BY <1>1, <2>1, Zenon DEF PlacesInv
<1>11. IntakeTypes'
  BY <1>1, <1>2, <1>5, <1>6 DEF IntakeTypes
<1>12. TurnInv' /\ ServedInv' /\ RefusedForOwnRead' /\ DeniedRequestIsServed'
  BY <1>1, <1>2, Zenon
  DEF TurnInv, ServedInv, RefusedForOwnRead, DeniedRequestIsServed
<1>13. QED
  BY <1>9, <1>10, <1>11, <1>12 DEF IntakeInv

LEMMA StepHangup ==
  ASSUME IntakeConstants, IntakeInv, NEW c \in Conns, Hangup(c)
  PROVE  IntakeInv'
<1> DEFINE b == client[c].buffered
           w2 == wire'[c]
<1>1. /\ client[c].state = "open" /\ c \notin eof /\ eof' = eof \cup {c}
      /\ wire' = wire \/ wire' = [wire EXCEPT ![c] = <<>>]
      /\ UNCHANGED <<sent, client, turn, pendingCommands, counts, snapshotRequests, dispatched, refused, denied>>
  BY DEF Hangup
<1>2. IntakeTypes /\ TurnInv /\ ServedInv /\ RefusedForOwnRead /\ DeniedRequestIsServed
  BY DEF IntakeInv
<1>3. /\ sent[c] \in Seq(Commands) /\ wire[c] \in Seq(Nat \X Nat) /\ b \in Seq(Nat \X Nat)
      /\ StreamOk(sent[c], client[c], wire[c], c \notin eof)
      /\ PlacesOk(c, sent[c], b \o wire[c], client[c].state = "open" /\ c \notin eof,
                  dispatched[c], pendingCommands, refused)
      /\ Len(sent[c]) \in Nat /\ firstOf(sent[c], b \o wire[c]) \in Nat
  BY OneConnection
<1>4. \A d \in Conns : d # c => wire'[d] = wire[d] /\ (d \in eof' <=> d \in eof)
  BY <1>1, <1>2 DEF IntakeTypes
<1>5. w2 = wire[c] \/ w2 = <<>>
  BY <1>1, <1>2 DEF IntakeTypes
<1>6. /\ StreamOk(sent[c], client[c], w2, FALSE) /\ firstOf(sent[c], b \o wire[c]) <= firstOf(sent[c], b \o w2)
      /\ firstOf(sent[c], b \o w2) \in Nat
  <2>1. CASE w2 = wire[c]
    <3>1. StreamOk(sent[c], client[c], wire[c], FALSE)
      BY <1>3, Zenon DEF StreamOk
    <3>2. firstOf(sent[c], b \o wire[c]) <= firstOf(sent[c], b \o wire[c])
      <4> DEFINE f == firstOf(sent[c], b \o wire[c])
      <4>1. f \in Nat
        BY <1>3
      <4> HIDE DEF f
      <4>2. f <= f
        BY <4>1
      <4>3. QED
        BY <4>2 DEF f
    <3>3. QED
      BY ONLY <1>3, <2>1, <3>1, <3>2, Zenon
  <2>2. CASE w2 = <<>>
    <3>1. /\ StreamOk(sent[c], client[c], <<>>, FALSE)
          /\ firstOf(sent[c], b \o wire[c]) <= firstOf(sent[c], b \o <<>>)
          /\ firstOf(sent[c], b \o <<>>) \in Nat
      BY <1>3, StreamLost
    <3>2. QED
      BY ONLY <2>2, <3>1, Zenon
  <2>3. QED
    BY <1>5, <2>1, <2>2
<1> HIDE DEF w2
<1>7. PlacesOk(c, sent[c], b \o w2, FALSE, dispatched[c], pendingCommands, refused)
  <2> DEFINE whole == client[c].state = "open" /\ c \notin eof
             u == b \o wire[c]
             u2 == b \o w2
             cs == sent[c]
  <2>1. /\ PlacesOk(c, cs, u, whole, dispatched[c], pendingCommands, refused)
        /\ Len(cs) \in Nat
        /\ firstOf(cs, u) \in Nat /\ firstOf(cs, u2) \in Nat /\ firstOf(cs, u) <= firstOf(cs, u2)
    BY <1>3, <1>6
  <2> HIDE DEF u, u2, cs, whole
  <2>2. Len(cs) <= Len(cs)
    BY <2>1
  <2>3. PlacesOk(c, cs, u2, FALSE, dispatched[c], pendingCommands, refused)
    BY <2>1, <2>2, PlacesLater
  <2>4. QED
    BY <2>3 DEF cs, u2
<1>8. StreamInv'
  <2>1. ASSUME NEW d \in Conns
        PROVE  StreamOk(sent[d], client[d], wire'[d], d \notin eof')
    <3>1. CASE d = c
      <4>1. StreamOk(sent[c], client[c], w2, c \notin eof')
        <5>1. c \in eof'
          BY <1>1
        <5>2. QED
          BY <1>6, <5>1, Zenon DEF StreamOk
      <4>2. QED
        BY <3>1, <4>1, Zenon DEF w2
    <3>2. CASE d # c
      <4>1. StreamOk(sent[d], client[d], wire[d], d \notin eof)
        BY OneConnection
      <4>2. QED
        BY <1>4, <3>2, <4>1, Zenon DEF StreamOk
    <3>3. QED
      BY <3>1, <3>2
  <2>2. QED
    BY <1>1, <2>1, Zenon DEF StreamInv
<1>9. PlacesInv'
  <2>1. ASSUME NEW d \in Conns
        PROVE  PlacesOk(d, sent[d], client[d].buffered \o wire'[d], client[d].state = "open" /\ d \notin eof',
                        dispatched[d], pendingCommands, refused)
    <3>1. CASE d = c
      <4>1. c \in eof'
        BY <1>1
      <4>2. PlacesOk(c, sent[c], b \o w2, client[c].state = "open" /\ c \notin eof',
                     dispatched[c], pendingCommands, refused)
        BY <1>7, <4>1, Zenon DEF PlacesOk
      <4>3. QED
        BY <3>1, <4>2, Zenon DEF w2
    <3>2. CASE d # c
      <4>1. PlacesOk(d, sent[d], client[d].buffered \o wire[d], client[d].state = "open" /\ d \notin eof,
                     dispatched[d], pendingCommands, refused)
        BY OneConnection
      <4>2. QED
        BY <1>4, <3>2, <4>1, Zenon DEF PlacesOk
    <3>3. QED
      BY <3>1, <3>2
  <2>2. QED
    BY <1>1, <2>1, Zenon DEF PlacesInv
<1>10. IntakeTypes'
  <2>1. <<>> \in Seq(Nat \X Nat)
    BY EmptySeq
  <2>2. wire' \in [Conns -> Seq(Nat \X Nat)]
    BY <1>1, <1>2, <2>1 DEF IntakeTypes
  <2>3. QED
    BY <1>1, <1>2, <2>2, Zenon DEF IntakeTypes
<1>11. TurnInv' /\ ServedInv' /\ RefusedForOwnRead' /\ DeniedRequestIsServed'
  BY <1>1, <1>2, Zenon
  DEF TurnInv, ServedInv, RefusedForOwnRead, DeniedRequestIsServed
<1>12. QED
  BY <1>8, <1>9, <1>10, <1>11 DEF IntakeInv

-----------------------------------------------------------------------------
(* The read of a connection *)

\* A read that the limits admit, and one that they refuse: no command of the
\* connection is pending at its turn, and those before it have had theirs.
LEMMA ReadLimits ==
  ASSUME IntakeConstants, IntakeInv, NEW c \in Conns, turn = c, NEW n \in Nat
  PROVE  /\ Len(pendingCommands) \in Nat /\ Len(pendingCommands) <= c * MaxPerConnection
         /\ fits(c, n) => Len(pendingCommands) + n <= c * MaxPerConnection
         /\ ~fits(c, n) /\ Connections * MaxPerConnection <= MaxPending => n > MaxPerConnection
<1> DEFINE l == Len(pendingCommands)
           M == MaxPerConnection
           mine == {i \in DOMAIN pendingCommands : pendingCommands[i][1] = c}
<1>1. /\ c \in Nat /\ c > 0 /\ c <= Connections /\ Connections \in Nat /\ M \in Nat /\ MaxPending \in Nat
  BY DEF Conns, IntakeConstants
<1>2. pendingCommands \in Seq(Conns \X Nat) /\ l \in Nat /\ DOMAIN pendingCommands = 1..l
  BY LenProperties DEF IntakeInv, IntakeTypes
<1>3. l <= (c - 1) * M /\ \A i \in 1..l : pendingCommands[i][1] < c
  BY <1>1 DEF IntakeInv, TurnInv
<1>4. \A i \in 1..l : pendingCommands[i][1] \in Nat
  <2>1. \A i \in 1..l : pendingCommands[i] \in Conns \X Nat
    BY <1>2, ElementOfSeq
  <2>2. \A i \in 1..l : pendingCommands[i][1] \in Conns
    BY <2>1
  <2>3. QED
    BY <1>1, <2>2 DEF Conns
<1>5. mine = {}
  BY <1>1, <1>2, <1>3, <1>4
<1>6. Cardinality(mine) = 0
  BY <1>5, FS_EmptySet
<1>7. fits(c, n) <=> n <= MaxPending - l /\ n <= M - 0
  BY <1>6 DEF fits
<1> DEFINE a == (c - 1) * M
           b == c * M
           t == Connections * M
<1>8. a \in Nat /\ b \in Nat /\ t \in Nat /\ a + M = b /\ b <= t
  <2>1. a + M = b
    BY <1>1
  <2>2. c - 1 \in Nat /\ Connections - c \in Nat
    BY <1>1
  <2>3. a \in Nat /\ b \in Nat /\ t \in Nat
    BY <1>1, <2>2
  <2> DEFINE e == Connections - c
             x == e * M
  <2>4. e \in Nat /\ Connections = c + e
    BY <1>1
  <2> HIDE DEF e
  <2>5. x \in Nat
    BY <1>1, <2>4
  <2>6. t = b + x
    BY <1>1, <2>4
  <2> HIDE DEF b, t, x
  <2>7. b <= t
    BY <2>3, <2>5, <2>6
  <2>8. QED
    BY <2>1, <2>3, <2>7
<1> HIDE DEF l, M, a, b, t
<1>9. l <= a
  BY <1>3 DEF a
<1>10. /\ l <= b
       /\ n <= MaxPending - l /\ n <= M - 0 => l + n <= b
       /\ ~(n <= MaxPending - l /\ n <= M - 0) /\ t <= MaxPending => n > M
  BY <1>1, <1>2, <1>8, <1>9
<1>11. QED
  BY <1>2, <1>7, <1>10 DEF l, M, b, t

\* After the step of c the invariant holds if it does for c, the queue and the
\* reads that were refused.
LEMMA ConnectionStep ==
  ASSUME IntakeConstants, IntakeInv, NEW c \in Conns, turn = c, turn' = turn + 1,
         UNCHANGED <<sent, eof, counts, snapshotRequests, dispatched, denied>>,
         NEW cl2 \in [state : ClientStates, buffered : Seq(Nat \X Nat)], NEW w2 \in Seq(Nat \X Nat),
         client' = [client EXCEPT ![c] = cl2], wire' = [wire EXCEPT ![c] = w2],
         StreamOk(sent[c], cl2, w2, c \notin eof),
         pendingCommands' \in Seq(Conns \X Nat), refused' \subseteq Conns \X Seq(Nat),
         PlacesOk(c, sent[c], cl2.buffered \o w2, cl2.state = "open" /\ c \notin eof,
                  dispatched[c], pendingCommands', refused'),
         \A d \in Conns : d # c =>
           PlacesOk(d, sent[d], client[d].buffered \o wire[d], client[d].state = "open" /\ d \notin eof,
                    dispatched[d], pendingCommands', refused'),
         \A i \in 1..Len(pendingCommands') : pendingCommands'[i][1] < c + 1,
         Len(pendingCommands') <= c * MaxPerConnection,
         RefusedForOwnRead'
  PROVE  IntakeInv'
<1>1. IntakeTypes /\ ServedInv /\ DeniedRequestIsServed
  BY DEF IntakeInv
<1>2. c \in Nat /\ c > 0 /\ c <= Connections /\ Connections \in Nat
  BY DEF Conns, IntakeConstants
<1>3. /\ client'[c] = cl2 /\ wire'[c] = w2
      /\ \A d \in Conns : d # c => client'[d] = client[d] /\ wire'[d] = wire[d]
      /\ client' \in [Conns -> [state : ClientStates, buffered : Seq(Nat \X Nat)]]
      /\ wire' \in [Conns -> Seq(Nat \X Nat)]
  BY <1>1 DEF IntakeTypes
<1>4. StreamInv'
  <2>1. ASSUME NEW d \in Conns
        PROVE  StreamOk(sent[d], client'[d], wire'[d], d \notin eof)
    <3>1. CASE d = c
      BY <1>3, <3>1, Zenon
    <3>2. CASE d # c
      <4>1. StreamOk(sent[d], client[d], wire[d], d \notin eof)
        BY OneConnection
      <4>2. QED
        BY <1>3, <3>2, <4>1, Zenon
    <3>3. QED
      BY <3>1, <3>2
  <2>2. QED
    BY <2>1, Zenon DEF StreamInv
<1>5. PlacesInv'
  <2>1. ASSUME NEW d \in Conns
        PROVE  PlacesOk(d, sent[d], client'[d].buffered \o wire'[d], client'[d].state = "open" /\ d \notin eof,
                        dispatched[d], pendingCommands', refused')
    <3>1. CASE d = c
      BY <1>3, <3>1, Zenon
    <3>2. CASE d # c
      BY <1>3, <3>2, Zenon
    <3>3. QED
      BY <3>1, <3>2
  <2>2. QED
    BY <2>1, Zenon DEF PlacesInv
<1>6. turn' = c + 1 /\ turn' \in 0..(Connections + 1) /\ turn' # 0 /\ turn' - 1 = c
  BY <1>2
<1>7. IntakeTypes'
  BY <1>1, <1>3, <1>6, Zenon DEF IntakeTypes
<1>8. TurnInv'
  BY <1>6, Zenon DEF TurnInv
<1>9. ServedInv' /\ DeniedRequestIsServed'
  BY <1>1, Zenon DEF ServedInv, DeniedRequestIsServed
<1>10. QED
  BY <1>4, <1>5, <1>7, <1>8, <1>9 DEF IntakeInv

\* Where nothing becomes pending or is refused, the queue is as it may be after
\* the turn of c.
LEMMA QueueKept ==
  ASSUME IntakeConstants, IntakeInv, NEW c \in Conns, turn = c, UNCHANGED <<pendingCommands, refused>>
  PROVE  /\ pendingCommands' \in Seq(Conns \X Nat) /\ refused' \subseteq Conns \X Seq(Nat)
         /\ \A i \in 1..Len(pendingCommands') : pendingCommands'[i][1] < c + 1
         /\ Len(pendingCommands') <= c * MaxPerConnection /\ RefusedForOwnRead'
         /\ \A d \in Conns :
              PlacesOk(d, sent[d], client[d].buffered \o wire[d], client[d].state = "open" /\ d \notin eof,
                       dispatched[d], pendingCommands', refused')
<1>1. pendingCommands \in Seq(Conns \X Nat) /\ refused \subseteq Conns \X Seq(Nat) /\ RefusedForOwnRead
  BY DEF IntakeInv, IntakeTypes
<1>2. c \in Nat /\ c > 0 /\ Conns \subseteq Nat
  BY DEF Conns, IntakeConstants
<1>3. \A i \in 1..Len(pendingCommands) : pendingCommands[i][1] < c
  BY <1>2 DEF IntakeInv, TurnInv
<1>4. \A i \in 1..Len(pendingCommands) : pendingCommands[i][1] \in Nat
  <2>1. \A i \in 1..Len(pendingCommands) : pendingCommands[i] \in Conns \X Nat
    BY <1>1, ElementOfSeq
  <2>2. QED
    BY <1>2, <2>1
<1>5. \A i \in 1..Len(pendingCommands) : pendingCommands[i][1] < c + 1
  BY <1>2, <1>3, <1>4
<1>6. Len(pendingCommands) <= c * MaxPerConnection
  <2>1. 0 \in Nat
    OBVIOUS
  <2>2. QED
    BY <2>1, ReadLimits
<1>7. RefusedForOwnRead'
  BY <1>1, Zenon DEF RefusedForOwnRead
<1>8. \A d \in Conns :
        PlacesOk(d, sent[d], client[d].buffered \o wire[d], client[d].state = "open" /\ d \notin eof,
                 dispatched[d], pendingCommands, refused)
  BY OneConnection
<1>9. QED
  BY <1>1, <1>5, <1>6, <1>7, <1>8, Zenon

\* The read closes the connection.
LEMMA StepClose ==
  ASSUME IntakeConstants, IntakeInv, NEW c \in Conns, turn = c, turn' = turn + 1,
         UNCHANGED <<sent, eof, counts, snapshotRequests, dispatched, denied, pendingCommands, refused>>,
         NEW n, NEW w2, RestOf(wire[c], n, w2), wire' = [wire EXCEPT ![c] = w2],
         NEW why \in ClientStates, why # "open", closed(c, why)
  PROVE  IntakeInv'
<1> DEFINE cl2 == [state |-> why, buffered |-> <<>>]
           cs == sent[c]
           u == client[c].buffered \o wire[c]
           u2 == <<>> \o w2
           whole == client[c].state = "open" /\ c \notin eof
<1>1. client' = [client EXCEPT ![c] = cl2]
  BY DEF closed
<1>2. cl2 \in [state : ClientStates, buffered : Seq(Nat \X Nat)] /\ cl2.state = why /\ cl2.buffered = <<>>
  BY EmptySeq
<1>3. /\ cs \in Seq(Commands) /\ wire[c] \in Seq(Nat \X Nat) /\ client[c].buffered \in Seq(Nat \X Nat)
      /\ StreamOk(cs, client[c], wire[c], c \notin eof)
      /\ PlacesOk(c, cs, u, whole, dispatched[c], pendingCommands, refused)
  BY OneConnection
<1>4. /\ StreamOk(cs, cl2, w2, c \notin eof)
      /\ firstOf(cs, u) <= firstOf(cs, u2) /\ firstOf(cs, u) \in Nat /\ firstOf(cs, u2) \in Nat /\ Len(cs) \in Nat
  <2> DEFINE cl == client[c]
             w == wire[c]
             all == c \notin eof
  <2>1. cs \in Seq(Commands) /\ cl.buffered \in Seq(Nat \X Nat) /\ w \in Seq(Nat \X Nat)
    BY <1>3
  <2>2. StreamOk(cs, cl, w, all)
    BY <1>3
  <2>3. RestOf(w, n, w2)
    OBVIOUS
  <2>4. cl2.state # "open" /\ cl2.buffered = <<>>
    BY <1>2
  <2> HIDE DEF cs, cl, w, all, whole, cl2
  <2>5. /\ StreamOk(cs, cl2, w2, all)
        /\ firstOf(cs, cl.buffered \o w) <= firstOf(cs, <<>> \o w2)
        /\ firstOf(cs, cl.buffered \o w) \in Nat /\ firstOf(cs, <<>> \o w2) \in Nat /\ Len(cs) \in Nat
    BY <2>1, <2>2, <2>3, <2>4, StreamClosed
  <2>6. QED
    BY <2>5, Zenon DEF cl, w, all
<1> HIDE DEF cl2, cs, u, u2, whole
<1>5. PlacesOk(c, cs, u2, FALSE, dispatched[c], pendingCommands, refused)
  <2>1. Len(cs) <= Len(cs)
    BY <1>4
  <2>2. QED
    BY <1>3, <1>4, <2>1, PlacesLater
<1>6. PlacesOk(c, sent[c], cl2.buffered \o w2, cl2.state = "open" /\ c \notin eof,
               dispatched[c], pendingCommands', refused')
  <2>1. ~(cl2.state = "open" /\ c \notin eof)
    BY <1>2
  <2>2. PlacesOk(c, cs, u2, cl2.state = "open" /\ c \notin eof, dispatched[c], pendingCommands, refused)
    BY <1>5, <2>1, Zenon DEF PlacesOk
  <2>3. QED
    BY <1>2, <2>2, Zenon DEF cs, u2
<1>7. /\ pendingCommands' \in Seq(Conns \X Nat) /\ refused' \subseteq Conns \X Seq(Nat)
      /\ \A i \in 1..Len(pendingCommands') : pendingCommands'[i][1] < c + 1
      /\ Len(pendingCommands') <= c * MaxPerConnection /\ RefusedForOwnRead'
      /\ \A d \in Conns :
           PlacesOk(d, sent[d], client[d].buffered \o wire[d], client[d].state = "open" /\ d \notin eof,
                    dispatched[d], pendingCommands', refused')
  BY QueueKept
<1>8. StreamOk(sent[c], cl2, w2, c \notin eof)
  BY <1>4 DEF cs
<1>9. w2 \in Seq(Nat \X Nat)
  BY DEF RestOf
<1>10. QED
  BY <1>1, <1>2, <1>6, <1>7, <1>8, <1>9, ConnectionStep

\* What the stream of c, its read of n units and the queue are after it.
LEMMA ReadOf ==
  ASSUME IntakeConstants, IntakeInv, NEW c \in Conns, client[c].state = "open", NEW n \in 1..Len(wire[c])
  PROVE  LET a == frames(c, client[c].buffered \o SubSeq(wire[c], 1, n))
             t == SubSeq(wire[c], n + 1, Len(wire[c]))
             cl2 == [client[c] EXCEPT !.buffered = a.rest]
             open == cl2.state = "open" /\ c \notin eof
         IN
         /\ a \in [ready : Seq(Nat), rest : Seq(Nat \X Nat)] /\ a.ready \in Seq(Nat)
         /\ cl2 \in [state : ClientStates, buffered : Seq(Nat \X Nat)] /\ cl2.state = "open"
         /\ t \in Seq(Nat \X Nat) /\ StreamOk(sent[c], cl2, t, c \notin eof)
         /\ \A i, j \in 1..Len(a.ready) : i < j => a.ready[i] < a.ready[j]
         /\ PlacesOk(c, sent[c], cl2.buffered \o t, open, dispatched[c],
                     withRead(pendingCommands, c, a.ready), refused)
         /\ PlacesOk(c, sent[c], cl2.buffered \o t, open, dispatched[c],
                     pendingCommands, refused \cup {<<c, a.ready>>})
<1> DEFINE cs == sent[c]
           cl == client[c]
           w == wire[c]
           all == c \notin eof
           whole == cl.state = "open" /\ c \notin eof
           u == cl.buffered \o w
           a == frames(c, cl.buffered \o SubSeq(w, 1, n))
           t == SubSeq(w, n + 1, Len(w))
           v == a.rest \o t
           cl2 == [cl EXCEPT !.buffered = a.rest]
           open == cl2.state = "open" /\ c \notin eof
           ready == a.ready
           f == firstOf(cs, u)
           g == firstOf(cs, v)
<1>1. /\ cs \in Seq(Commands) /\ w \in Seq(Nat \X Nat)
      /\ cl \in [state : ClientStates, buffered : Seq(Nat \X Nat)]
      /\ cl.buffered \in Seq(Nat \X Nat) /\ StreamOk(cs, cl, w, all)
      /\ PlacesOk(c, cs, u, whole, dispatched[c], pendingCommands, refused)
      /\ Len(cs) \in Nat /\ f \in Nat /\ f > 0
  BY OneConnection
<1>2. /\ a \in [ready : Seq(Nat), rest : Seq(Nat \X Nat)]
      /\ Chain(cs, v)
      /\ v # <<>> => v[1][2] = 1
      /\ all /\ v # <<>> => v[Len(v)] = <<Len(cs), cs[Len(cs)].size>>
      /\ a.rest # <<>> => Len(a.rest) < cs[a.rest[1][1]].size
      /\ \A i \in 1..Len(ready) : ready[i] = f + (i - 1)
      /\ f + Len(ready) <= Len(cs) + 1 /\ f + Len(ready) <= g
      /\ all => f + Len(ready) >= g
  <2>1. all \in BOOLEAN
    OBVIOUS
  <2>2. cl.state = "open"
    OBVIOUS
  <2>3. sent[c] \in Seq(Commands) /\ n \in 1..Len(w) /\ StreamOk(sent[c], cl, w, all)
    BY <1>1
  <2>4. cl.buffered \in Seq(Nat \X Nat) /\ w \in Seq(Nat \X Nat)
    BY <1>1
  <2> HIDE DEF cl, w, all
  <2>5. QED
    <3>1. ReadDone(sent[c], firstOf(sent[c], cl.buffered \o w),
                   frames(c, cl.buffered \o SubSeq(w, 1, n)), SubSeq(w, n + 1, Len(w)), all)
      BY <2>1, <2>2, <2>3, <2>4, ReadStream
    <3>2. QED
      BY ONLY <3>1, Zenon DEF ReadDone
<1>3. ready \in Seq(Nat) /\ a.rest \in Seq(Nat \X Nat)
  BY <1>2
<1> HIDE DEF a
<1>4. cl2 \in [state : ClientStates, buffered : Seq(Nat \X Nat)] /\ cl2.state = "open" /\ cl2.buffered = a.rest
  BY <1>1, <1>3
<1>5. t \in Seq(Nat \X Nat)
  <2>1. n \in Nat /\ n <= Len(w)
    BY <1>1, LenProperties
  <2>2. QED
    BY <1>1, <2>1, SuffixElements
<1> HIDE DEF t, cl2, cs, u
<1>6. StreamOk(cs, cl2, t, all)
  BY <1>2, <1>4, Zenon DEF StreamOk
<1>7. g \in Nat
  BY <1>1, <1>2, FirstInRange
<1> HIDE DEF v, cl, all, f, g, ready
<1>8. Len(ready) \in Nat /\ \A i, j \in 1..Len(ready) : i < j => ready[i] < ready[j]
  <2>1. Len(ready) \in Nat
    BY <1>3, LenProperties
  <2>2. QED
    BY <1>1, <1>2, <2>1
<1>9. /\ PlacesOk(c, cs, v, open, dispatched[c], withRead(pendingCommands, c, ready), refused)
      /\ PlacesOk(c, cs, v, open, dispatched[c], pendingCommands, refused \cup {<<c, ready>>})
  <2>1. pendingCommands \in Seq(Conns \X Nat)
    BY DEF IntakeInv, IntakeTypes
  <2>2. open => whole /\ all
    BY DEF all, cl
  <2> HIDE DEF open, whole
  <2>3. open => whole /\ firstOf(cs, u) + Len(ready) = firstOf(cs, v)
    <3> DEFINE q == Len(ready)
    <3>1. f \in Nat /\ g \in Nat /\ q \in Nat /\ f + q <= g /\ (all => f + q >= g)
      BY <1>1, <1>2, <1>7, <1>8
    <3> HIDE DEF q
    <3>2. all => f + q = g
      BY <3>1
    <3>3. QED
      BY <2>2, <3>2 DEF f, g, q
  <2>4. /\ firstOf(cs, u) \in Nat /\ firstOf(cs, u) > 0 /\ firstOf(cs, v) \in Nat /\ Len(cs) \in Nat
        /\ \A i \in 1..Len(ready) : ready[i] = firstOf(cs, u) + (i - 1)
        /\ firstOf(cs, u) + Len(ready) <= Len(cs) + 1 /\ firstOf(cs, u) + Len(ready) <= firstOf(cs, v)
    BY <1>1, <1>2, <1>7 DEF f, g
  <2>5. QED
    BY <1>1, <1>3, <2>1, <2>3, <2>4, PlacesRead
<1>10. QED
  BY <1>2, <1>3, <1>4, <1>5, <1>6, <1>8, <1>9, Zenon DEF a, t, cl2, cs, u, v, cl, all, ready

\* The commands of the read become pending, or all of them are refused.
LEMMA StepAccept ==
  ASSUME IntakeConstants, IntakeInv, NEW c \in Conns, turn = c, turn' = turn + 1,
         UNCHANGED <<sent, eof, counts, snapshotRequests, dispatched, denied>>,
         client[c].state = "open", NEW n \in 1..Len(wire[c]),
         wire' = [wire EXCEPT ![c] = SubSeq(@, n + 1, Len(@))],
         client' = [client EXCEPT ![c].buffered = frames(c, client[c].buffered \o SubSeq(wire[c], 1, n)).rest],
         enqueueCommands(c, frames(c, client[c].buffered \o SubSeq(wire[c], 1, n)).ready)
  PROVE  IntakeInv'
<1> DEFINE a == frames(c, client[c].buffered \o SubSeq(wire[c], 1, n))
           t == SubSeq(wire[c], n + 1, Len(wire[c]))
           cl2 == [client[c] EXCEPT !.buffered = a.rest]
           open == cl2.state = "open" /\ c \notin eof
           ready == a.ready
<1>1. /\ ready \in Seq(Nat)
      /\ cl2 \in [state : ClientStates, buffered : Seq(Nat \X Nat)] /\ cl2.state = "open"
      /\ t \in Seq(Nat \X Nat) /\ StreamOk(sent[c], cl2, t, c \notin eof)
      /\ \A i, j \in 1..Len(ready) : i < j => ready[i] < ready[j]
      /\ PlacesOk(c, sent[c], cl2.buffered \o t, open, dispatched[c],
                  withRead(pendingCommands, c, ready), refused)
      /\ PlacesOk(c, sent[c], cl2.buffered \o t, open, dispatched[c],
                  pendingCommands, refused \cup {<<c, ready>>})
  BY ReadOf
<1>2. client' = [client EXCEPT ![c] = cl2] /\ wire' = [wire EXCEPT ![c] = t]
  OBVIOUS
<1>3. \/ fits(c, Len(ready)) /\ pendingCommands' = withRead(pendingCommands, c, ready) /\ refused' = refused
      \/ ~fits(c, Len(ready)) /\ refused' = refused \cup {<<c, ready>>} /\ pendingCommands' = pendingCommands
  BY DEF enqueueCommands, withRead
<1> HIDE DEF a, t, cl2, ready
<1>4. Len(ready) \in Nat
  BY <1>1, LenProperties
<1>5. /\ pendingCommands \in Seq(Conns \X Nat) /\ refused \subseteq Conns \X Seq(Nat) /\ RefusedForOwnRead
      /\ Connections \in Nat /\ MaxPerConnection \in Nat /\ MaxPending \in Nat
  BY DEF IntakeInv, IntakeTypes, IntakeConstants
<1>6. /\ fits(c, Len(ready)) => Len(pendingCommands) + Len(ready) <= c * MaxPerConnection
      /\ ~fits(c, Len(ready)) /\ Connections * MaxPerConnection <= MaxPending => Len(ready) > MaxPerConnection
      /\ Len(pendingCommands) <= c * MaxPerConnection
  BY <1>4, ReadLimits
<1>7. c \in Nat /\ c > 0 /\ Conns \subseteq Nat
  BY DEF Conns, IntakeConstants
<1>8. \A i \in 1..Len(pendingCommands) : pendingCommands[i][1] < c + 1
  <2>1. \A i \in 1..Len(pendingCommands) : pendingCommands[i][1] < c
    BY <1>7 DEF IntakeInv, TurnInv
  <2>2. \A i \in 1..Len(pendingCommands) : pendingCommands[i] \in Conns \X Nat
    BY <1>5, ElementOfSeq
  <2>3. \A i \in 1..Len(pendingCommands) : pendingCommands[i][1] \in Nat
    BY <1>7, <2>2
  <2>4. QED
    BY <1>7, <2>1, <2>3
<1>9. ASSUME NEW d \in Conns, d # c
      PROVE  LET u == client[d].buffered \o wire[d]
                 whole == client[d].state = "open" /\ d \notin eof
             IN
             /\ PlacesOk(d, sent[d], u, whole, dispatched[d], withRead(pendingCommands, c, ready), refused)
             /\ PlacesOk(d, sent[d], u, whole, dispatched[d], pendingCommands, refused \cup {<<c, ready>>})
  <2> DEFINE u == client[d].buffered \o wire[d]
             whole == client[d].state = "open" /\ d \notin eof
  <2>1. PlacesOk(d, sent[d], u, whole, dispatched[d], pendingCommands, refused)
    BY OneConnection
  <2> HIDE DEF u, whole
  <2>2. /\ PlacesOk(d, sent[d], u, whole, dispatched[d], withRead(pendingCommands, c, ready), refused)
        /\ PlacesOk(d, sent[d], u, whole, dispatched[d], pendingCommands, refused \cup {<<c, ready>>})
    BY <1>1, <1>5, <1>9, <2>1, PlacesOther
  <2>3. QED
    BY <2>2 DEF u, whole
<1>10. /\ pendingCommands' \in Seq(Conns \X Nat) /\ refused' \subseteq Conns \X Seq(Nat)
       /\ \A i \in 1..Len(pendingCommands') : pendingCommands'[i][1] < c + 1
       /\ Len(pendingCommands') <= c * MaxPerConnection
       /\ RefusedForOwnRead'
       /\ PlacesOk(c, sent[c], cl2.buffered \o t, open, dispatched[c], pendingCommands', refused')
       /\ \A d \in Conns : d # c =>
            PlacesOk(d, sent[d], client[d].buffered \o wire[d], client[d].state = "open" /\ d \notin eof,
                     dispatched[d], pendingCommands', refused')
  <2>1. CASE fits(c, Len(ready)) /\ pendingCommands' = withRead(pendingCommands, c, ready) /\ refused' = refused
    <3> DEFINE more == withRead(pendingCommands, c, ready)
               lp == Len(pendingCommands)
               lr == Len(ready)
               lm == Len(more)
    <3>1. /\ more \in Seq(Conns \X Nat) /\ lm = lp + lr /\ lp \in Nat /\ lr \in Nat
          /\ \A i \in 1..lp : i \in 1..lm /\ more[i] = pendingCommands[i]
          /\ \A i \in 1..lr : lp + i \in 1..lm /\ more[lp + i] = <<c, ready[i]>>
          /\ \A i \in 1..lm : i \in 1..lp \/ i - lp \in 1..lr
      BY <1>1, <1>5, PendingWith
    <3> HIDE DEF more, lp, lr, lm
    <3>2. ASSUME NEW i \in 1..lm
          PROVE  more[i][1] < c + 1
      <4>1. CASE i \in 1..lp
        BY <1>8, <3>1, <4>1 DEF lp
      <4>2. CASE i - lp \in 1..lr
        <5> DEFINE j == i - lp
        <5>1. j \in 1..lr /\ lp + j = i
          BY <3>1, <4>2
        <5> HIDE DEF j
        <5>2. more[i] = <<c, ready[j]>>
          BY ONLY <3>1, <5>1, Zenon
        <5>3. more[i][1] = c
          BY <5>2
        <5>4. QED
          BY <1>7, <5>3
      <4>3. QED
        BY <3>1, <4>1, <4>2
    <3>3. lm <= c * MaxPerConnection
      BY <1>6, <2>1, <3>1 DEF lp, lr
    <3>4. RefusedForOwnRead'
      BY <1>5, <2>1, Zenon DEF RefusedForOwnRead
    <3>5. pendingCommands' = more
      BY <2>1 DEF more
    <3>6. more \in Seq(Conns \X Nat) /\ Len(more) <= c * MaxPerConnection /\ \A i \in 1..Len(more) : more[i][1] < c + 1
      BY <3>1, <3>2, <3>3 DEF lm
    <3>7. QED
      BY <1>1, <1>5, <1>9, <2>1, <3>4, <3>5, <3>6, Zenon DEF more
  <2>2. CASE ~fits(c, Len(ready)) /\ refused' = refused \cup {<<c, ready>>} /\ pendingCommands' = pendingCommands
    <3>1. refused' \subseteq Conns \X Seq(Nat)
      BY <1>1, <1>5, <2>2
    <3>2. RefusedForOwnRead'
      <4> SUFFICES ASSUME Connections * MaxPerConnection <= MaxPending, NEW r \in refused'
                   PROVE  Len(r[2]) > MaxPerConnection
        BY DEF RefusedForOwnRead
      <4>1. CASE r \in refused
        BY <1>5, <4>1 DEF RefusedForOwnRead
      <4>2. CASE r = <<c, ready>>
        <5>1. r[2] = ready
          BY <4>2
        <5>2. QED
          BY <1>6, <2>2, <5>1
      <4>3. QED
        BY <2>2, <4>1, <4>2
    <3>3. QED
      BY <1>1, <1>5, <1>6, <1>8, <1>9, <2>2, <3>1, <3>2, Zenon
  <2>3. QED
    BY <1>3, <2>1, <2>2
<1>11. /\ IntakeConstants /\ IntakeInv /\ c \in Conns /\ turn = c /\ turn' = turn + 1
       /\ UNCHANGED <<sent, eof, counts, snapshotRequests, dispatched, denied>>
  OBVIOUS
<1>12. /\ cl2 \in [state : ClientStates, buffered : Seq(Nat \X Nat)] /\ t \in Seq(Nat \X Nat)
       /\ StreamOk(sent[c], cl2, t, c \notin eof)
  BY <1>1
<1>13. QED
  BY ONLY <1>2, <1>10, <1>11, <1>12, ConnectionStep

\* The turn of connection c.
LEMMA StepReceive ==
  ASSUME IntakeConstants, IntakeInv, NEW c \in Conns, Receive(c)
  PROVE  IntakeInv'
<1> DEFINE w == wire[c]
<1>1. /\ turn = c /\ turn' = turn + 1
      /\ UNCHANGED <<sent, eof, counts, snapshotRequests, dispatched, denied>>
  BY DEF Receive
<1>2. /\ client[c] \in [state : ClientStates, buffered : Seq(Nat \X Nat)] /\ w \in Seq(Nat \X Nat)
      /\ sent[c] \in Seq(Commands) /\ Chain(sent[c], client[c].buffered \o w)
      /\ client[c].buffered \in Seq(Nat \X Nat) /\ StreamOk(sent[c], client[c], w, c \notin eof)
  BY OneConnection
<1>3. Len(w) \in Nat /\ ReadBuffer \in Nat
  BY <1>2, LenProperties DEF IntakeConstants
<1>4. CASE /\ client[c].state = "open" /\ wire[c] # <<>>
           /\ \E n \in 1..Min({Len(wire[c]), ReadBuffer}) : ReadUnits(c, n)
  <2>1. PICK n \in 1..Min({Len(w), ReadBuffer}) : ReadUnits(c, n)
    BY <1>4
  <2>2. n \in 1..Len(w) /\ n \in Nat /\ n <= Len(w) /\ n <= ReadBuffer
    <3> DEFINE l == Len(w)
               B == ReadBuffer
    <3> HIDE DEF l, B
    <3>1. l \in Nat /\ B \in Nat /\ n \in 1..Min({l, B})
      BY <1>3, <2>1 DEF l, B
    <3>2. \E x \in {l, B} : \A y \in {l, B} : x <= y
      BY <3>1
    <3>3. Min({l, B}) \in {l, B} /\ \A y \in {l, B} : Min({l, B}) <= y
      BY <3>2, Zenon DEF Min
    <3> DEFINE m == Min({l, B})
    <3> HIDE DEF m
    <3>4. m \in Nat /\ m <= l /\ m <= B /\ n \in 1..m
      BY <3>1, <3>3 DEF m
    <3>5. n \in 1..l /\ n \in Nat /\ n <= l /\ n <= B
      BY <3>1, <3>4
    <3>6. QED
      BY <3>5 DEF l, B
  <2> DEFINE a == frames(c, client[c].buffered \o SubSeq(wire[c], 1, n))
             t == SubSeq(w, n + 1, Len(w))
  <2>3. wire' = [wire EXCEPT ![c] = SubSeq(@, n + 1, Len(@))]
    BY <2>1 DEF ReadUnits
  <2>4. wire' = [wire EXCEPT ![c] = t]
    BY <2>3
  <2>5. RestOf(wire[c], n, t)
    BY <1>2, <2>2, SuffixElements DEF RestOf
  <2>6. CASE closed(c, "overfull") /\ overfull(c, n) /\ UNCHANGED <<pendingCommands, refused>>
    <3> HIDE DEF t
    <3> DEFINE why == "overfull"
    <3>1. closed(c, why) /\ why \in ClientStates /\ why # "open"
      <4>1. why \in ClientStates /\ why # "open"
        BY DEF ClientStates
      <4>2. closed(c, why)
        BY ONLY <2>6, Zenon
      <4>3. QED
        BY <4>1, <4>2
    <3> HIDE DEF why
    <3>2. QED
      BY <1>1, <2>4, <2>5, <2>6, <3>1, StepClose
  <2>7. CASE closed(c, "invalid") /\ UNCHANGED <<pendingCommands, refused>>
    <3> DEFINE why == "invalid"
    <3>1. closed(c, why) /\ why \in ClientStates /\ why # "open"
      <4>1. why \in ClientStates /\ why # "open"
        BY DEF ClientStates
      <4>2. closed(c, why)
        BY ONLY <2>7, Zenon
      <4>3. QED
        BY <4>1, <4>2
    <3> HIDE DEF t, why
    <3>2. QED
      BY <1>1, <2>4, <2>5, <2>7, <3>1, StepClose
  <2>8. CASE client' = [client EXCEPT ![c].buffered = a.rest] /\ enqueueCommands(c, a.ready)
    BY <1>1, <1>4, <2>2, <2>3, <2>8, StepAccept
  <2>9. QED
    BY <2>1, <2>6, <2>7, <2>8 DEF ReadUnits
<1>5. CASE /\ client[c].state = "open" /\ wire[c] = <<>> /\ c \in eof
           /\ closed(c, "closed")
           /\ UNCHANGED <<wire, pendingCommands, refused>>
  <2>1. wire' = [wire EXCEPT ![c] = w]
    BY <1>5 DEF IntakeInv, IntakeTypes
  <2>2. RestOf(wire[c], 0, w)
    <3>1. Len(w) = Len(w) - 0 /\ 0 <= Len(w) /\ \A i \in 1..Len(w) : 0 + i = i
      BY <1>3
    <3>2. QED
      BY <1>2, <3>1 DEF RestOf
  <2> DEFINE why == "closed"
  <2>3. closed(c, why) /\ why \in ClientStates /\ why # "open"
    <3>1. why \in ClientStates /\ why # "open"
      BY DEF ClientStates
    <3>2. closed(c, why)
      BY ONLY <1>5, Zenon
    <3>3. QED
      BY <3>1, <3>2
  <2> HIDE DEF why
  <2>4. QED
    BY <1>1, <1>5, <2>1, <2>2, <2>3, StepClose
<1>6. CASE UNCHANGED <<wire, client, pendingCommands, refused>>
  <2> DEFINE cl2 == client[c]
  <2>1. wire' = [wire EXCEPT ![c] = w] /\ client' = [client EXCEPT ![c] = cl2]
    BY <1>6 DEF IntakeInv, IntakeTypes
  <2>2. /\ pendingCommands' \in Seq(Conns \X Nat) /\ refused' \subseteq Conns \X Seq(Nat)
        /\ \A i \in 1..Len(pendingCommands') : pendingCommands'[i][1] < c + 1
        /\ Len(pendingCommands') <= c * MaxPerConnection /\ RefusedForOwnRead'
        /\ \A d \in Conns :
             PlacesOk(d, sent[d], client[d].buffered \o wire[d], client[d].state = "open" /\ d \notin eof,
                      dispatched[d], pendingCommands', refused')
    BY <1>1, <1>6, QueueKept
  <2>3. PlacesOk(c, sent[c], cl2.buffered \o w, cl2.state = "open" /\ c \notin eof,
                 dispatched[c], pendingCommands', refused')
    BY <2>2, Zenon
  <2>4. StreamOk(sent[c], cl2, w, c \notin eof) /\ cl2 \in [state : ClientStates, buffered : Seq(Nat \X Nat)]
    BY <1>2
  <2> HIDE DEF cl2, w
  <2>5. QED
    BY <1>1, <1>2, <2>1, <2>2, <2>3, <2>4, ConnectionStep
<1>7. QED
  BY <1>4, <1>5, <1>6 DEF Receive

-----------------------------------------------------------------------------
(* The dispatcher and the tick *)

LEMMA StepDispatch ==
  ASSUME IntakeConstants, IntakeInv, Dispatch
  PROVE  IntakeInv'
<1> DEFINE h == Head(pendingCommands)
           c == h[1]
           i == h[2]
           command == sent[c][i]
           type == command.type
           rest == Tail(pendingCommands)
<1>1. /\ turn > Connections /\ pendingCommands # <<>> /\ dispatch(c, i, command)
      /\ dispatched' = [dispatched EXCEPT ![c] = Append(@, i)] /\ pendingCommands' = rest
      /\ UNCHANGED <<sent, wire, client, eof, turn, refused>>
  BY DEF Dispatch
<1>2. IntakeTypes /\ TurnInv /\ ServedInv /\ RefusedForOwnRead /\ DeniedRequestIsServed
  BY DEF IntakeInv
<1>3. pendingCommands \in Seq(Conns \X Nat) /\ Connections \in Nat
  BY <1>2 DEF IntakeTypes, IntakeConstants
<1>4. /\ rest \in Seq(Conns \X Nat) /\ Len(rest) \in Nat /\ Len(pendingCommands) \in Nat
      /\ Len(pendingCommands) = Len(rest) + 1 /\ h = pendingCommands[1] /\ h \in Conns \X Nat
      /\ \A k \in 1..Len(rest) : k + 1 \in 1..Len(pendingCommands) /\ rest[k] = pendingCommands[k + 1]
  BY <1>1, <1>3, TailPlaces
<1>5. c \in Conns /\ i \in Nat
  BY <1>4
<1>6. command \in Commands /\ type \in Types
  <2>1. 1 \in 1..Len(pendingCommands)
    BY <1>4
  <2>2. i \in pendingOf(pendingCommands, c)
    BY <1>4, <2>1 DEF pendingOf
  <2>3. sent[c] \in Seq(Commands) /\ PlacesOk(c, sent[c], client[c].buffered \o wire[c],
          client[c].state = "open" /\ c \notin eof, dispatched[c], pendingCommands, refused)
    BY <1>5, OneConnection
  <2>4. i \in 1..Len(sent[c])
    BY <2>2, <2>3 DEF PlacesOk
  <2>5. command \in Commands
    BY <2>3, <2>4, ElementOfSeq
  <2>6. QED
    BY <2>5 DEF Types
<1> HIDE DEF c, i, command, h, rest
<1>7. PlacesInv'
  <2>1. ASSUME NEW d \in Conns
        PROVE  PlacesOk(d, sent[d], client[d].buffered \o wire[d], client[d].state = "open" /\ d \notin eof,
                        dispatched'[d], rest, refused)
    <3> DEFINE u == client[d].buffered \o wire[d]
               whole == client[d].state = "open" /\ d \notin eof
               disp == dispatched[d]
               hd == Head(pendingCommands)
    <3>1. disp \in Seq(Nat) /\ PlacesOk(d, sent[d], u, whole, disp, pendingCommands, refused)
      BY OneConnection
    <3>2. dispatched'[d] = IF d = c THEN Append(disp, i) ELSE disp
      BY <1>1, <1>2, <1>5 DEF IntakeTypes
    <3> HIDE DEF u, whole, disp
    <3>3. PlacesOk(d, sent[d], u, whole, IF d = hd[1] THEN Append(disp, hd[2]) ELSE disp,
                   Tail(pendingCommands), refused)
      BY <1>1, <1>3, <3>1, PlacesDispatched
    <3>4. QED
      BY <3>2, <3>3, Zenon DEF u, whole, disp, c, i, h, rest
  <2>2. QED
    BY <1>1, <2>1, Zenon DEF PlacesInv
<1>8. StreamInv'
  <2>1. StreamInv
    BY DEF IntakeInv
  <2>2. QED
    BY <1>1, <2>1, Zenon DEF StreamInv
<1> DEFINE allowed == c \in active /\ allow(c, type)
<1>9. /\ counts' = CASE ~allowed -> counts
                     [] allowed /\ type = "disconnect" -> [counts EXCEPT ![c] = [t \in Types |-> 0]]
                     [] OTHER -> [counts EXCEPT ![c][type] = @ + 1]
      /\ snapshotRequests' = IF allowed /\ type = "requestSnapshot"
                               THEN snapshotRequests + 1 ELSE snapshotRequests
      /\ denied' = IF c \in active /\ ~allowed /\ type = "requestSnapshot" THEN denied \cup {c} ELSE denied
  BY <1>1 DEF dispatch
<1>10. counts \in [Conns -> [Types -> Nat]] /\ snapshotRequests \in Nat
  BY <1>2 DEF IntakeTypes
<1>11. snapshotRequests' \in Nat /\ snapshotRequests' >= snapshotRequests
  BY <1>9, <1>10
<1>12. \/ counts' = counts
       \/ counts' = [counts EXCEPT ![c] = [t \in Types |-> 0]]
       \/ allowed /\ type # "disconnect" /\ counts' = [counts EXCEPT ![c][type] = @ + 1]
  BY <1>9
<1>13. counts' \in [Conns -> [Types -> Nat]]
  BY <1>5, <1>6, <1>10, <1>12
<1>14. IntakeTypes'
  <2>1. dispatched' \in [Conns -> Seq(Nat)]
    <3>1. dispatched[c] \in Seq(Nat)
      BY <1>2, <1>5 DEF IntakeTypes
    <3>2. Append(dispatched[c], i) \in Seq(Nat)
      BY <1>5, <3>1, AppendProperties
    <3>3. QED
      BY <1>1, <1>2, <1>5, <3>2 DEF IntakeTypes
  <2>2. QED
    BY <1>1, <1>2, <1>4, <1>11, <1>13, <2>1, Zenon DEF IntakeTypes
<1>15. ServedInv'
  <2> SUFFICES ASSUME NEW d \in Conns, "requestSnapshot" \in Types, counts'[d]["requestSnapshot"] > 0
               PROVE  snapshotRequests' > 0
    BY DEF ServedInv
  <2>1. counts[d]["requestSnapshot"] > 0 => snapshotRequests' > 0
    BY <1>2, <1>10, <1>11 DEF ServedInv
  <2>2. CASE counts' = counts
    BY <2>1, <2>2
  <2>3. CASE counts' = [counts EXCEPT ![c] = [t \in Types |-> 0]]
    <3>1. d # c /\ counts'[d] = counts[d]
      BY <1>5, <1>10, <2>3
    <3>2. QED
      BY <2>1, <3>1
  <2>4. CASE allowed /\ type # "disconnect" /\ counts' = [counts EXCEPT ![c][type] = @ + 1]
    <3>1. CASE type = "requestSnapshot"
      <4>1. snapshotRequests' = snapshotRequests + 1
        BY <1>9, <2>4, <3>1
      <4>2. QED
        BY <1>10, <4>1
    <3>2. CASE type # "requestSnapshot"
      <4>1. counts'[d]["requestSnapshot"] = counts[d]["requestSnapshot"]
        BY <1>5, <1>6, <1>10, <2>4, <3>2
      <4>2. QED
        BY <2>1, <4>1
    <3>3. QED
      BY <3>1, <3>2
  <2>5. QED
    BY <1>12, <2>2, <2>3, <2>4
<1>16. DeniedRequestIsServed'
  <2> SUFFICES ASSUME denied' # {}
               PROVE  snapshotRequests' > 0
    BY DEF DeniedRequestIsServed
  <2>1. CASE denied # {}
    BY <1>2, <1>10, <1>11, <2>1 DEF DeniedRequestIsServed
  <2>2. CASE c \in active /\ ~allowed /\ type = "requestSnapshot"
    <3>1. limitFor("requestSnapshot") = 1
      BY DEF limitFor
    <3>2. ~(counts[c]["requestSnapshot"] < 1)
      BY <2>2, <3>1 DEF allow
    <3>3. counts[c]["requestSnapshot"] \in Nat
      BY <1>5, <1>6, <1>10, <2>2
    <3>4. counts[c]["requestSnapshot"] > 0
      BY <3>2, <3>3
    <3>5. snapshotRequests > 0
      BY <1>2, <1>5, <1>6, <2>2, <3>4 DEF ServedInv
    <3>6. QED
      BY <1>10, <1>11, <3>5
  <2>3. QED
    BY <1>9, <2>1, <2>2
<1>17. TurnInv'
  <2>1. turn \in Nat /\ turn > 0
    BY <1>1, <1>2, <1>3 DEF IntakeTypes
  <2>2. /\ \A k \in 1..Len(pendingCommands) : pendingCommands[k][1] < turn
        /\ Len(pendingCommands) <= (turn - 1) * MaxPerConnection
    BY <1>2, <2>1 DEF TurnInv
  <2>3. \A k \in 1..Len(rest) : rest[k][1] < turn
    BY <1>4, <2>2
  <2>4. Len(rest) <= (turn - 1) * MaxPerConnection
    <3> DEFINE x == (turn - 1) * MaxPerConnection
               l == Len(rest)
               m == Len(pendingCommands)
    <3>1. l \in Nat /\ m = l + 1 /\ m <= x
      BY <1>4, <2>2
    <3>2. x \in Int
      <4>1. turn - 1 \in Int /\ MaxPerConnection \in Int
        BY <2>1 DEF IntakeConstants
      <4>2. QED
        BY <4>1
    <3> HIDE DEF x, l, m
    <3>3. l <= x
      BY <3>1, <3>2
    <3>4. QED
      BY <3>3 DEF l, x
  <2>5. turn' = turn /\ pendingCommands' = rest /\ turn # 0
    BY <1>1, <2>1
  <2>6. QED
    BY <2>3, <2>4, <2>5, Zenon DEF TurnInv
<1>18. RefusedForOwnRead'
  BY <1>1, <1>2, Zenon DEF RefusedForOwnRead
<1>19. QED
  BY <1>7, <1>8, <1>14, <1>15, <1>16, <1>17, <1>18 DEF IntakeInv

LEMMA StepBeginFrame ==
  ASSUME IntakeConstants, IntakeInv, BeginFrame
  PROVE  IntakeInv'
<1>1. /\ turn = 0 /\ turn' = 1 /\ counts' = [c \in Conns |-> [t \in Types |-> 0]]
      /\ snapshotRequests' = 0 /\ denied' = {}
      /\ UNCHANGED <<sent, wire, client, eof, pendingCommands, dispatched, refused>>
  BY DEF BeginFrame, beginFrame
<1>2. /\ IntakeTypes /\ StreamInv /\ PlacesInv /\ TurnInv /\ RefusedForOwnRead
  BY DEF IntakeInv
<1>3. StreamInv' /\ PlacesInv' /\ RefusedForOwnRead'
  BY <1>1, <1>2, Zenon DEF StreamInv, PlacesInv, RefusedForOwnRead
<1>4. counts' \in [Conns -> [Types -> Nat]] /\ \A c \in Conns : \A t \in Types : counts'[c][t] = 0
  BY <1>1
<1>5. IntakeTypes'
  <2>1. 1 \in 0..(Connections + 1) /\ 0 \in Nat
    BY DEF IntakeConstants
  <2>2. QED
    BY <1>1, <1>2, <1>4, <2>1, Zenon DEF IntakeTypes
<1>6. ServedInv' /\ DeniedRequestIsServed'
  BY <1>1, <1>4 DEF ServedInv, DeniedRequestIsServed
<1>7. TurnInv'
  <2>1. pendingCommands' = <<>>
    BY <1>1, <1>2 DEF TurnInv
  <2>2. Len(<<>>) = 0 /\ 1..0 = {} /\ 0 <= (1 - 1) * MaxPerConnection
    BY EmptySeq DEF IntakeConstants
  <2>3. 1 # 0
    OBVIOUS
  <2>4. QED
    BY <1>1, <2>1, <2>2, <2>3 DEF TurnInv
<1>8. QED
  BY <1>3, <1>5, <1>6, <1>7 DEF IntakeInv

LEMMA StepEndFrame ==
  ASSUME IntakeConstants, IntakeInv, EndFrame
  PROVE  IntakeInv'
<1> DEFINE ended == {c \in Conns : client[c].state # "open" \/ c \notin active}
           gone == [state |-> "closed", buffered |-> <<>>]
<1>1. /\ pendingCommands = <<>> /\ turn' = 0
      /\ client' = [c \in Conns |-> IF c \in ended /\ client[c].state = "open" THEN gone ELSE client[c]]
      /\ UNCHANGED <<sent, wire, eof, pendingCommands, counts, snapshotRequests, dispatched, refused, denied>>
  BY DEF EndFrame
<1>2. IntakeTypes /\ ServedInv /\ RefusedForOwnRead /\ DeniedRequestIsServed
  BY DEF IntakeInv
<1>3. gone \in [state : ClientStates, buffered : Seq(Nat \X Nat)] /\ gone.state = "closed" /\ gone.buffered = <<>>
  BY EmptySeq DEF ClientStates
<1> HIDE DEF ended, gone
<1>4. \A d \in Conns : client'[d] = client[d] \/ client'[d] = gone
  BY <1>1
<1>5. ASSUME NEW d \in Conns
      PROVE  /\ StreamOk(sent[d], client'[d], wire[d], d \notin eof)
             /\ PlacesOk(d, sent[d], client'[d].buffered \o wire[d], client'[d].state = "open" /\ d \notin eof,
                         dispatched[d], pendingCommands, refused)
  <2> DEFINE cs == sent[d]
             cl == client[d]
             w == wire[d]
             all == d \notin eof
             u == cl.buffered \o w
             u2 == <<>> \o w
             whole == cl.state = "open" /\ d \notin eof
  <2>1. /\ cs \in Seq(Commands) /\ w \in Seq(Nat \X Nat) /\ cl.buffered \in Seq(Nat \X Nat)
        /\ StreamOk(cs, cl, w, all)
        /\ PlacesOk(d, cs, u, whole, dispatched[d], pendingCommands, refused)
    BY OneConnection
  <2>2. CASE client'[d] = client[d]
    BY <2>1, <2>2, Zenon
  <2>3. CASE client'[d] = gone
    <3>1. RestOf(w, 0, w)
      <4>1. Len(w) \in Nat
        BY <2>1, LenProperties
      <4>2. Len(w) = Len(w) - 0 /\ 0 <= Len(w) /\ \A i \in 1..Len(w) : 0 + i = i
        BY <4>1
      <4>3. QED
        BY <2>1, <4>2 DEF RestOf
    <3>2. gone.state # "open"
      BY <1>3
    <3> HIDE DEF cs, cl, w, all, whole
    <3>3. /\ StreamOk(cs, gone, w, all)
          /\ firstOf(cs, cl.buffered \o w) <= firstOf(cs, <<>> \o w)
          /\ firstOf(cs, cl.buffered \o w) \in Nat /\ firstOf(cs, <<>> \o w) \in Nat /\ Len(cs) \in Nat
      BY <1>3, <2>1, <3>1, <3>2, StreamClosed
    <3> HIDE DEF u, u2
    <3>4. /\ firstOf(cs, u) <= firstOf(cs, u2) /\ firstOf(cs, u) \in Nat /\ firstOf(cs, u2) \in Nat
          /\ Len(cs) \in Nat /\ Len(cs) <= Len(cs)
      BY <3>3 DEF u, u2
    <3>5. PlacesOk(d, cs, u2, FALSE, dispatched[d], pendingCommands, refused)
      BY <2>1, <3>4, PlacesLater
    <3>6. PlacesOk(d, cs, u2, gone.state = "open" /\ d \notin eof, dispatched[d], pendingCommands, refused)
      BY <3>2, <3>5, Zenon DEF PlacesOk
    <3>7. QED
      BY <1>3, <2>3, <3>3, <3>6, Zenon DEF cs, w, u2, all
  <2>4. QED
    BY <1>4, <2>2, <2>3
<1>6. StreamInv' /\ PlacesInv'
  BY <1>1, <1>5, Zenon DEF StreamInv, PlacesInv
<1>7. IntakeTypes'
  <2>1. client' \in [Conns -> [state : ClientStates, buffered : Seq(Nat \X Nat)]]
    BY <1>1, <1>2, <1>3 DEF IntakeTypes
  <2>2. 0 \in 0..(Connections + 1)
    BY DEF IntakeConstants
  <2>3. QED
    BY <1>1, <1>2, <2>1, <2>2, Zenon DEF IntakeTypes
<1>8. TurnInv'
  BY <1>1 DEF TurnInv
<1>9. ServedInv' /\ RefusedForOwnRead' /\ DeniedRequestIsServed'
  BY <1>1, <1>2, Zenon DEF ServedInv, RefusedForOwnRead, DeniedRequestIsServed
<1>10. QED
  BY <1>6, <1>7, <1>8, <1>9 DEF IntakeInv

LEMMA IntakeInitial ==
  ASSUME IntakeConstants, Init
  PROVE  IntakeInv
<1> DEFINE first == [state |-> "open", buffered |-> <<>>]
<1>1. /\ sent = [c \in Conns |-> <<>>] /\ wire = [c \in Conns |-> <<>>]
      /\ client = [c \in Conns |-> first] /\ turn = 0 /\ pendingCommands = <<>>
      /\ counts = [c \in Conns |-> [t \in Types |-> 0]] /\ snapshotRequests = 0
      /\ dispatched = [c \in Conns |-> <<>>] /\ refused = {} /\ denied = {}
  BY DEF Init
<1>2. \A S : <<>> \in Seq(S)
  BY EmptySeq
<1>3. Len(<<>>) = 0 /\ <<>> \o <<>> = <<>>
  <2>1. <<>> \in Seq(Nat)
    BY <1>2
  <2>2. QED
    BY <2>1, EmptySeq, ConcatEmptySeq
<1>4. IntakeTypes
  <2>1. first \in [state : ClientStates, buffered : Seq(Nat \X Nat)]
    BY <1>2 DEF ClientStates
  <2> HIDE DEF first
  <2>2. turn \in 0..(Connections + 1)
    BY <1>1 DEF IntakeConstants
  <2>3. QED
    BY <1>1, <1>2, <2>1, <2>2 DEF IntakeTypes
<1>5. first.state = "open" /\ first.buffered = <<>>
  OBVIOUS
<1> HIDE DEF first
<1>6. ASSUME NEW c \in Conns
      PROVE  /\ sent[c] = <<>> /\ wire[c] = <<>> /\ client[c] = first /\ dispatched[c] = <<>>
             /\ client[c].buffered \o wire[c] = <<>>
  BY <1>1, <1>3, <1>5
<1>7. 1..0 = {}
  OBVIOUS
<1>8. StreamInv
  <2> SUFFICES ASSUME NEW c \in Conns
               PROVE  StreamOk(sent[c], client[c], wire[c], c \notin eof)
    BY DEF StreamInv
  <2>1. Chain(<<>>, <<>>)
    BY <1>2, <1>3, <1>7 DEF Chain
  <2>2. client[c].buffered = <<>>
    BY <1>5, <1>6
  <2>3. QED
    BY <1>6, <2>1, <2>2, Zenon DEF StreamOk
<1>9. PlacesInv
  <2> SUFFICES ASSUME NEW c \in Conns
               PROVE  PlacesOk(c, sent[c], client[c].buffered \o wire[c],
                               client[c].state = "open" /\ c \notin eof,
                               dispatched[c], pendingCommands, refused)
    BY DEF PlacesInv
  <2>1. placesIn(<<>>) = {} /\ pendingOf(<<>>, c) = {} /\ lostOf({}, c) = {}
    BY <1>3, <1>7 DEF placesIn, pendingOf, lostOf
  <2>2. \A whole : PlacesOk(c, <<>>, <<>>, whole, <<>>, <<>>, {})
    BY <1>3, <1>7, <2>1 DEF PlacesOk
  <2>3. QED
    BY <1>1, <1>6, <2>2, Zenon
<1>10. TurnInv
  BY <1>1 DEF TurnInv
<1>11. ServedInv
  BY <1>1 DEF ServedInv
<1>12. RefusedForOwnRead /\ DeniedRequestIsServed
  BY <1>1 DEF RefusedForOwnRead, DeniedRequestIsServed
<1>13. QED
  BY <1>4, <1>8, <1>9, <1>10, <1>11, <1>12 DEF IntakeInv

-----------------------------------------------------------------------------
(* The properties *)

\* A stream that begins with a header has that of every place up to its last.
LEMMA ChainHeaders ==
  ASSUME IntakeConstants, NEW cs \in Seq(Commands), NEW u, Chain(cs, u), u # <<>>, u[1][2] = 1,
         NEW p \in Nat, u[1][1] <= p, p <= u[Len(u)][1]
  PROVE  \E i \in 1..Len(u) : u[i][2] = 1 /\ u[i][1] = p
<1> DEFINE l == Len(u)
           T == {i \in Nat : i \in 1..l /\ u[i][1] >= p}
           R == OpToRel(<, Nat)
<1>1. /\ u \in Seq(UnitsOf(cs)) /\ l \in Nat /\ l # 0
      /\ \A i \in 1..l : i + 1 <= l => u[i + 1] = nextUnit(cs, u[i])
  BY LenProperties, EmptySeq DEF Chain
<1>2. \A i \in 1..l : u[i] \in UnitsOf(cs)
  BY <1>1, ElementOfSeq
<1>3. \A i \in 1..l : u[i][1] \in Nat /\ u[i][2] \in Nat
  BY <1>2, UnitFields
<1>4. T # {} /\ T \subseteq Nat
  <2>1. l \in 1..l
    BY <1>1
  <2>2. u[l][1] >= p
    BY <1>3, <2>1
  <2>3. l \in T
    BY <1>1, <2>1, <2>2
  <2>4. QED
    BY <2>3
<1>5. IsWellFoundedOn(R, Nat)
  BY NatLessThanWellFounded
<1>6. PICK i \in T : \A j \in T : ~ (<<j, i>> \in R)
  <2> HIDE DEF T, R
  <2>1. QED
    BY <1>4, <1>5, WFMin
<1>7. i \in Nat /\ i \in 1..l /\ u[i][1] >= p
  OBVIOUS
<1>8. CASE i = 1
  <2>1. u[1][1] = p
    BY <1>3, <1>7, <1>8
  <2>2. QED
    BY <1>7, <1>8, <2>1
<1>9. CASE i # 1
  <2> DEFINE j == i - 1
             x == u[j]
             y == u[i]
  <2>1. j \in Nat /\ j \in 1..l /\ j + 1 = i /\ j + 1 <= l /\ j < i
    <3> HIDE DEF T, R, l
    <3>1. QED
      BY <1>1, <1>7, <1>9
  <2>2. <<j, i>> \in R
    <3> HIDE DEF T, j
    <3>1. QED
      BY <1>7, <2>1 DEF OpToRel
  <2> HIDE DEF j, R
  <2>3. j \notin T
    BY <1>6, <2>2
  <2>4. x[1] < p
    BY <1>3, <2>1, <2>3
  <2>5. u[j + 1] = nextUnit(cs, u[j])
    BY <1>1, <2>1
  <2>6. y = nextUnit(cs, x)
    BY ONLY <2>1, <2>5, Zenon
  <2>7. x[1] \in Nat /\ y[1] >= p /\ y[1] \in Nat
    BY <1>3, <1>7, <2>1
  <2> HIDE DEF x, y
  <2>8. CASE x[2] < cs[x[1]].size
    <3>1. y[1] = x[1]
      BY <2>6, <2>8 DEF nextUnit
    <3>2. QED
      BY <2>4, <2>7, <3>1
  <2>9. CASE ~(x[2] < cs[x[1]].size)
    <3>1. y[1] = x[1] + 1 /\ y[2] = 1
      BY <2>6, <2>9 DEF nextUnit
    <3>2. y[1] = p
      BY <2>4, <2>7, <3>1
    <3>3. QED
      BY <1>7, <3>1, <3>2 DEF y
  <2>10. QED
    BY <2>8, <2>9
<1>10. QED
  BY <1>8, <1>9

\* What is underway of the commands of c, by its stage.
LEMMA UnderwayStages ==
  ASSUME IntakeConstants, IntakeInv, NEW c \in Conns
  PROVE  LET u == client[c].buffered \o wire[c] IN
         \A a : a \in underway(c) <=>
           \/ \E i \in 1..Len(dispatched[c]) : a = <<1, i, dispatched[c][i]>>
           \/ \E i \in 1..Len(pendingCommands) :
                pendingCommands[i][1] = c /\ a = <<2, i, pendingCommands[i][2]>>
           \/ \E i \in 1..Len(u) : u[i][2] = 1 /\ a = <<3, i, u[i][1]>>
<1> DEFINE u == client[c].buffered \o wire[c]
<1>1. DOMAIN dispatched[c] = 1..Len(dispatched[c])
  BY OneConnection, LenProperties
<1>2. DOMAIN pendingCommands = 1..Len(pendingCommands)
  BY LenProperties DEF IntakeInv, IntakeTypes
<1>3. DOMAIN u = 1..Len(u)
  <2>1. u \in Seq(UnitsOf(sent[c]))
    BY OneConnection DEF Chain
  <2>2. QED
    BY <2>1, LenProperties
<1> HIDE DEF u
<1>4. underway(c) =
        {<<1, i, dispatched[c][i]>> : i \in 1..Len(dispatched[c])}
          \cup {<<2, i, pendingCommands[i][2]>> :
                  i \in {j \in 1..Len(pendingCommands) : pendingCommands[j][1] = c}}
          \cup {<<3, i, u[i][1]>> : i \in {j \in 1..Len(u) : u[j][2] = 1}}
  BY <1>1, <1>2, <1>3, Zenon DEF underway, u
<1>5. QED
  BY <1>4 DEF u

\* The invariant says that the commands are in order.
LEMMA IntakeOrdered ==
  ASSUME IntakeConstants, IntakeInv
  PROVE  CommandsInOrder
<1> SUFFICES ASSUME NEW c \in Conns
             PROVE  LET kept == {a[3] : a \in underway(c)}
                        lost == UNION {ToSet(r[2]) : r \in {q \in refused : q[1] = c}}
                    IN /\ \A a, b \in underway(c) :
                            a[1] < b[1] \/ (a[1] = b[1] /\ a[2] < b[2]) => a[3] < b[3]
                       /\ client[c].state = "open" /\ c \notin eof =>
                            kept \cup lost = 1..Len(sent[c]) /\ kept \cap lost = {}
  BY DEF CommandsInOrder
<1> DEFINE cs == sent[c]
           u == client[c].buffered \o wire[c]
           disp == dispatched[c]
           pend == pendingCommands
           D == placesIn(disp)
           P == pendingOf(pend, c)
           L == lostOf(refused, c)
           H == {u[i][1] : i \in {j \in 1..Len(u) : u[j][2] = 1}}
           f == firstOf(cs, u)
           l == Len(cs)
           lu == Len(u)
           whole == client[c].state = "open" /\ c \notin eof
           kept == {a[3] : a \in underway(c)}
           lost == UNION {ToSet(r[2]) : r \in {q \in refused : q[1] = c}}
<1>1. /\ cs \in Seq(Commands) /\ Chain(cs, u) /\ StreamOk(cs, client[c], wire[c], c \notin eof)
      /\ PlacesOk(c, cs, u, whole, disp, pend, refused)
      /\ l \in Nat /\ f \in Nat /\ f > 0 /\ f <= l + 1
  BY OneConnection
<1>2. /\ \A p \in D \cup P \cup L : p \in 1..l /\ p < f
      /\ \A i, j \in 1..Len(disp) : i < j => disp[i] < disp[j]
      /\ \A i, j \in 1..Len(pend) : pend[i][1] = c /\ pend[j][1] = c /\ i < j => pend[i][2] < pend[j][2]
      /\ \A p \in D, q \in P : p < q
      /\ L \cap (D \cup P) = {}
      /\ whole => \A p \in 1..l : p < f => p \in D \cup P \cup L
  BY <1>1 DEF PlacesOk
<1>3. u \in Seq(UnitsOf(cs)) /\ lu \in Nat /\ \A i \in 1..lu : u[i] \in UnitsOf(cs)
  BY <1>1, ElementOfSeq, LenProperties DEF Chain
<1>4. \A i \in 1..lu : u[i][1] \in 1..l /\ u[i][1] \in Nat
  BY <1>1, <1>3, UnitFields
<1>5. \A a : a \in underway(c) <=>
        \/ \E i \in 1..Len(disp) : a = <<1, i, disp[i]>>
        \/ \E i \in 1..Len(pend) : pend[i][1] = c /\ a = <<2, i, pend[i][2]>>
        \/ \E i \in 1..lu : u[i][2] = 1 /\ a = <<3, i, u[i][1]>>
  BY UnderwayStages
<1>6. /\ \A i \in 1..Len(disp) : disp[i] \in D
      /\ \A i \in 1..Len(pend) : pend[i][1] = c => pend[i][2] \in P
      /\ \A i \in 1..lu : u[i][2] = 1 => u[i][1] \in H
      /\ \A p \in D : \E i \in 1..Len(disp) : p = disp[i]
      /\ \A p \in P : \E i \in 1..Len(pend) : pend[i][1] = c /\ p = pend[i][2]
      /\ \A p \in H : \E i \in 1..lu : u[i][2] = 1 /\ p = u[i][1]
  BY DEF placesIn, pendingOf
<1>7. \A i \in 1..lu : f <= u[i][1]
  <2> SUFFICES ASSUME NEW i \in 1..lu
               PROVE  f <= u[i][1]
    OBVIOUS
  <2>1. 1 \in 1..lu /\ 1 <= i /\ lu # 0
    <3> HIDE DEF lu
    <3>1. QED
      BY <1>3
  <2>2. u[1][1] <= u[i][1]
    BY <1>1, <2>1, ChainAscends
  <2>3. u # <<>>
    BY <2>1, EmptySeq
  <2>4. QED
    BY <2>2, <2>3 DEF firstOf
<1>8. \A i, j \in 1..lu : i < j /\ u[j][2] = 1 => u[i][1] < u[j][1]
  <2> SUFFICES ASSUME NEW i \in 1..lu, NEW j \in 1..lu, i < j, u[j][2] = 1
               PROVE  u[i][1] < u[j][1]
    OBVIOUS
  <2>1. i <= j
    <3> HIDE DEF lu
    <3>1. QED
      BY <1>3
  <2>2. cs \in Seq(Commands) /\ Chain(cs, u) /\ IntakeConstants /\ i \in 1..Len(u) /\ j \in 1..Len(u)
    BY <1>1
  <2>3. i < j /\ u[j][2] = 1
    OBVIOUS
  <2> HIDE DEF cs, u
  <2>4. QED
    BY ONLY <2>1, <2>2, <2>3, ChainAscends
<1>9. lost = L
  <2>1. \A r \in refused : ToSet(r[2]) = placesIn(r[2])
    <3> SUFFICES ASSUME NEW r \in refused
                 PROVE  ToSet(r[2]) = placesIn(r[2])
      OBVIOUS
    <3> DEFINE s == r[2]
    <3>1. s \in Seq(Nat)
      BY DEF IntakeInv, IntakeTypes
    <3> HIDE DEF s
    <3>2. DOMAIN s = 1..Len(s)
      BY <3>1, LenProperties
    <3>3. ToSet(s) = placesIn(s)
      BY <3>2 DEF ToSet, placesIn
    <3>4. QED
      BY <3>3 DEF s
  <2>2. QED
    BY <2>1 DEF lostOf
<1> HIDE DEF cs, u, disp, pend, D, P, L, H, f, l, lu, whole, lost
<1>10. ASSUME NEW a \in underway(c), NEW b \in underway(c),
              a[1] < b[1] \/ (a[1] = b[1] /\ a[2] < b[2])
       PROVE  a[3] < b[3]
  <2>1. CASE \E i \in 1..Len(disp) : a = <<1, i, disp[i]>>
    <3>1. PICK i \in 1..Len(disp) : a = <<1, i, disp[i]>>
      BY <2>1
    <3>2. a[1] = 1 /\ a[2] = i /\ a[3] = disp[i] /\ disp[i] \in D
      BY <1>6, <3>1
    <3>3. CASE \E j \in 1..Len(disp) : b = <<1, j, disp[j]>>
      <4>1. PICK j \in 1..Len(disp) : b = <<1, j, disp[j]>>
        BY <3>3
      <4>2. i < j /\ b[3] = disp[j]
        BY <1>10, <3>2, <4>1
      <4>3. QED
        BY <1>2, <3>2, <4>2
    <3>4. CASE \E j \in 1..Len(pend) : pend[j][1] = c /\ b = <<2, j, pend[j][2]>>
      BY <1>2, <1>6, <3>2, <3>4
    <3>5. CASE \E j \in 1..lu : u[j][2] = 1 /\ b = <<3, j, u[j][1]>>
      <4>1. PICK j \in 1..lu : u[j][2] = 1 /\ b = <<3, j, u[j][1]>>
        BY <3>5
      <4>2. b[3] = u[j][1] /\ f <= u[j][1] /\ u[j][1] \in Nat
        BY <1>4, <1>7, <4>1
      <4>3. a[3] \in 1..l /\ a[3] < f
        BY <1>2, <3>2
      <4>4. QED
        BY <1>1, <4>2, <4>3
    <3>6. QED
      BY <1>5, <3>3, <3>4, <3>5
  <2>2. CASE \E i \in 1..Len(pend) : pend[i][1] = c /\ a = <<2, i, pend[i][2]>>
    <3>1. PICK i \in 1..Len(pend) : pend[i][1] = c /\ a = <<2, i, pend[i][2]>>
      BY <2>2
    <3>2. a[1] = 2 /\ a[2] = i /\ a[3] = pend[i][2] /\ pend[i][2] \in P
      BY <1>6, <3>1
    <3>3. CASE \E j \in 1..Len(disp) : b = <<1, j, disp[j]>>
      <4>1. b[1] = 1
        BY <3>3
      <4>2. QED
        BY <1>10, <3>2, <4>1
    <3>4. CASE \E j \in 1..Len(pend) : pend[j][1] = c /\ b = <<2, j, pend[j][2]>>
      <4>1. PICK j \in 1..Len(pend) : pend[j][1] = c /\ b = <<2, j, pend[j][2]>>
        BY <3>4
      <4>2. i < j /\ b[3] = pend[j][2]
        BY <1>10, <3>2, <4>1
      <4>3. QED
        BY <1>2, <3>1, <3>2, <4>1, <4>2
    <3>5. CASE \E j \in 1..lu : u[j][2] = 1 /\ b = <<3, j, u[j][1]>>
      <4>1. PICK j \in 1..lu : u[j][2] = 1 /\ b = <<3, j, u[j][1]>>
        BY <3>5
      <4>2. b[3] = u[j][1] /\ f <= u[j][1] /\ u[j][1] \in Nat
        BY <1>4, <1>7, <4>1
      <4>3. a[3] \in 1..l /\ a[3] < f
        BY <1>2, <3>2
      <4>4. QED
        BY <1>1, <4>2, <4>3
    <3>6. QED
      BY <1>5, <3>3, <3>4, <3>5
  <2>3. CASE \E i \in 1..lu : u[i][2] = 1 /\ a = <<3, i, u[i][1]>>
    <3>1. PICK i \in 1..lu : u[i][2] = 1 /\ a = <<3, i, u[i][1]>>
      BY <2>3
    <3>2. a[1] = 3 /\ a[2] = i /\ a[3] = u[i][1]
      BY <3>1
    <3>3. CASE \E j \in 1..Len(disp) : b = <<1, j, disp[j]>>
      <4>1. b[1] = 1
        BY <3>3
      <4>2. QED
        BY <1>10, <3>2, <4>1
    <3>4. CASE \E j \in 1..Len(pend) : pend[j][1] = c /\ b = <<2, j, pend[j][2]>>
      <4>1. b[1] = 2
        BY <3>4
      <4>2. QED
        BY <1>10, <3>2, <4>1
    <3>5. CASE \E j \in 1..lu : u[j][2] = 1 /\ b = <<3, j, u[j][1]>>
      <4>1. PICK j \in 1..lu : u[j][2] = 1 /\ b = <<3, j, u[j][1]>>
        BY <3>5
      <4>2. i < j /\ b[3] = u[j][1]
        BY <1>10, <3>2, <4>1
      <4>3. QED
        BY <1>8, <3>2, <4>1, <4>2
    <3>6. QED
      BY <1>5, <3>3, <3>4, <3>5
  <2>4. QED
    BY <1>5, <2>1, <2>2, <2>3
<1>11. kept = D \cup P \cup H
  <2>1. ASSUME NEW a \in underway(c)
        PROVE  a[3] \in D \cup P \cup H
    <3>1. CASE \E i \in 1..Len(disp) : a = <<1, i, disp[i]>>
      BY <1>6, <3>1
    <3>2. CASE \E i \in 1..Len(pend) : pend[i][1] = c /\ a = <<2, i, pend[i][2]>>
      BY <1>6, <3>2
    <3>3. CASE \E i \in 1..lu : u[i][2] = 1 /\ a = <<3, i, u[i][1]>>
      BY <1>6, <3>3
    <3>4. QED
      BY <1>5, <3>1, <3>2, <3>3
  <2>2. ASSUME NEW p \in D \cup P \cup H
        PROVE  \E a \in underway(c) : a[3] = p
    <3>1. CASE p \in D
      <4>1. PICK i \in 1..Len(disp) : p = disp[i]
        BY <1>6, <3>1
      <4>2. <<1, i, disp[i]>> \in underway(c) /\ <<1, i, disp[i]>>[3] = p
        BY <1>5, <4>1
      <4>3. QED
        BY <4>2
    <3>2. CASE p \in P
      <4>1. PICK i \in 1..Len(pend) : pend[i][1] = c /\ p = pend[i][2]
        BY <1>6, <3>2
      <4>2. <<2, i, pend[i][2]>> \in underway(c) /\ <<2, i, pend[i][2]>>[3] = p
        BY <1>5, <4>1
      <4>3. QED
        BY <4>2
    <3>3. CASE p \in H
      <4>1. PICK i \in 1..lu : u[i][2] = 1 /\ p = u[i][1]
        BY <1>6, <3>3
      <4>2. <<3, i, u[i][1]>> \in underway(c) /\ <<3, i, u[i][1]>>[3] = p
        BY <1>5, <4>1
      <4>3. QED
        BY <4>2
    <3>4. QED
      BY <3>1, <3>2, <3>3
  <2>3. QED
    BY <2>1, <2>2
<1> HIDE DEF kept
<1>12. \A p \in H : p \in 1..l /\ f <= p /\ p \in Nat
  BY <1>4, <1>6, <1>7
<1>13. ASSUME whole
       PROVE  kept \cup lost = 1..l /\ kept \cap lost = {}
  <2>1. ASSUME NEW p \in 1..l, ~(p < f)
        PROVE  p \in H
    <3>1. u # <<>>
      <4> SUFFICES ASSUME u = <<>>
                   PROVE  FALSE
        OBVIOUS
      <4>1. f = l + 1
        BY DEF f, firstOf, l
      <4>2. QED
        BY <1>1, <2>1, <4>1
    <3>2. u[1][2] = 1 /\ u[Len(u)] = <<Len(cs), cs[Len(cs)].size>>
      BY <1>1, <1>13, <3>1 DEF StreamOk, whole, u
    <3>3. u[Len(u)][1] = l
      BY <3>2 DEF l
    <3>4. p \in Nat /\ u[1][1] <= p /\ p <= u[Len(u)][1]
      <4>1. f = u[1][1]
        BY <3>1 DEF f, firstOf
      <4>2. p \in Nat /\ f <= p /\ p <= l
        BY <1>1, <2>1
      <4>3. QED
        BY <3>3, <4>1, <4>2
    <3>5. \E i \in 1..Len(u) : u[i][2] = 1 /\ u[i][1] = p
      BY <1>1, <3>1, <3>2, <3>4, ChainHeaders
    <3>6. QED
      BY <1>6, <3>5 DEF lu
  <2>2. \A p \in 1..l : p \in D \cup P \cup H \cup L
    BY <1>2, <1>13, <2>1
  <2>3. \A p \in D \cup P \cup H \cup L : p \in 1..l
    BY <1>2, <1>12
  <2>4. L \cap H = {}
    <3>1. \A p \in L : p < f /\ p \in 1..l
      BY <1>2
    <3>2. QED
      BY <1>1, <1>12, <3>1
  <2>5. QED
    BY <1>2, <1>9, <1>11, <2>2, <2>3, <2>4
<1>14. QED
  BY <1>10, <1>13 DEF kept, lost, l, cs, whole

-----------------------------------------------------------------------------
(* Theorems *)

LEMMA IntakeStep == IntakeConstants /\ IntakeInv /\ [Next]_intakeVars => IntakeInv'
<1> SUFFICES ASSUME IntakeConstants, IntakeInv, [Next]_intakeVars
             PROVE  IntakeInv'
  OBVIOUS
<1>1. ASSUME NEW c \in Conns, NEW k \in Commands, Send(c, k)
      PROVE  IntakeInv'
  BY <1>1, StepSend
<1>2. ASSUME NEW c \in Conns, Hangup(c)
      PROVE  IntakeInv'
  BY <1>2, StepHangup
<1>3. ASSUME NEW c \in Conns, Receive(c)
      PROVE  IntakeInv'
  BY <1>3, StepReceive
<1>4. CASE Dispatch
  BY <1>4, StepDispatch
<1>5. CASE BeginFrame
  BY <1>5, StepBeginFrame
<1>6. CASE EndFrame
  BY <1>6, StepEndFrame
<1>7. CASE UNCHANGED intakeVars
  <2>1. UNCHANGED <<sent, wire, client, eof, turn, pendingCommands, counts, snapshotRequests,
                    dispatched, refused, denied>>
    BY <1>7 DEF intakeVars
  <2>2. QED
    BY <2>1, Zenon
    DEF IntakeInv, IntakeTypes, StreamInv, PlacesInv, TurnInv, ServedInv, RefusedForOwnRead,
       DeniedRequestIsServed
<1>8. QED
  BY <1>1, <1>2, <1>3, <1>4, <1>5, <1>6, <1>7 DEF Next

LEMMA IntakeInvariant ==
  ASSUME IntakeConstants
  PROVE  Spec => []IntakeInv
<1>1. Init => IntakeInv
  BY IntakeInitial
<1>2. IntakeInv /\ [Next]_intakeVars => IntakeInv'
  BY IntakeStep
<1>3. QED
  BY <1>1, <1>2, PTL DEF Spec

\* However the stream of a client is cut into reads, its commands are dispatched
\* in the order in which it sent them, each once, and none is missing but those
\* of a read that enqueueCommands refused.
THEOREM CommandsKeepOrder ==
  ASSUME IntakeConstants
  PROVE  Spec => []CommandsInOrder
<1>1. IntakeInv => CommandsInOrder
  BY IntakeOrdered
<1>2. QED
  BY <1>1, IntakeInvariant, PTL

\* Where the queue has room for the limit of every connection, enqueueCommands
\* refuses a read only for its own length.
THEOREM OwnReadsAreRefused ==
  ASSUME IntakeConstants
  PROVE  Spec => []RefusedForOwnRead
<1>1. IntakeInv => RefusedForOwnRead
  BY DEF IntakeInv
<1>2. QED
  BY <1>1, IntakeInvariant, PTL

\* The rate limit denies a RequestSnapshot only in a tick that has accepted one.
THEOREM DeniedRequestsAreServed ==
  ASSUME IntakeConstants
  PROVE  Spec => []DeniedRequestIsServed
<1>1. IntakeInv => DeniedRequestIsServed
  BY DEF IntakeInv
<1>2. QED
  BY <1>1, IntakeInvariant, PTL

\* A stream that begins with a header is of one frame up to the next header, if
\* that does not come among the first units, which are less than a frame.
LEMMA OneFrame ==
  ASSUME IntakeConstants, NEW cs \in Seq(Commands), NEW s, Chain(cs, s),
         NEW k \in 1..Len(s), s[1][2] = 1, NEW b \in Nat, b < cs[s[1][1]].size,
         \A i \in 1..k : i > b => s[i][2] # 1
  PROVE  \A m \in 1..k : s[m] = <<s[1][1], m>>
<1> DEFINE p == s[1][1]
           size == cs[p].size
           T == {m \in 1..k : s[m] # <<p, m>>}
           R == OpToRel(<, Nat)
<1>1. /\ s \in Seq(UnitsOf(cs)) /\ Len(s) \in Nat /\ k \in Nat /\ k <= Len(s)
      /\ \A i \in 1..Len(s) : i + 1 <= Len(s) => s[i + 1] = nextUnit(cs, s[i])
  BY LenProperties DEF Chain
<1>2. s[1] \in UnitsOf(cs)
  <2>1. 1 \in 1..Len(s)
    BY <1>1
  <2>2. QED
    BY <1>1, <2>1, ElementOfSeq
<1>3. s[1] = <<p, 1>> /\ size \in Nat
  BY <1>2, UnitFields
<1> HIDE DEF p, size
<1>4. SUFFICES ASSUME T # {} PROVE FALSE
  OBVIOUS
<1>5. IsWellFoundedOn(R, Nat)
  BY NatLessThanWellFounded
<1>6. PICK m \in T : \A n \in T : ~ (<<n, m>> \in R)
  <2>1. T \subseteq Nat
    BY <1>1
  <2> HIDE DEF T, R
  <2>2. QED
    BY <1>4, <1>5, <2>1, WFMin
<1>7. m \in Nat /\ m >= 1 /\ m <= k /\ s[m] # <<p, m>>
  BY <1>1
<1>8. m # 1
  BY <1>3, <1>7
<1> DEFINE n == m - 1
<1>9. n \in Nat /\ n \in 1..k /\ n \in 1..Len(s) /\ n + 1 = m /\ n + 1 <= Len(s) /\ n < m
  BY <1>1, <1>7, <1>8
<1>10. <<n, m>> \in R
  BY <1>7, <1>9 DEF OpToRel
<1> HIDE DEF n, R
<1>11. s[n] = <<p, n>>
  BY <1>6, <1>9, <1>10
<1>12. s[m] = nextUnit(cs, <<p, n>>)
  <2>1. s[n + 1] = nextUnit(cs, s[n])
    BY <1>1, <1>9
  <2>2. QED
    BY ONLY <1>9, <1>11, <2>1, Zenon
<1>13. CASE n < size
  BY <1>7, <1>9, <1>12, <1>13 DEF nextUnit, size
<1>14. CASE ~(n < size)
  <2>1. s[m] = <<p + 1, 1>>
    BY <1>12, <1>14 DEF nextUnit, size
  <2>2. b < size
    BY DEF size, p
  <2>3. m > b /\ m \in 1..k
    BY <1>3, <1>7, <1>9, <1>14, <2>2
  <2>4. QED
    BY <2>1, <2>3
<1>15. QED
  BY <1>13, <1>14

\* A read that does not fit goes on with a frame and has the header of another.
LEMMA OverfullRead ==
  ASSUME IntakeConstants, IntakeInv, NEW c \in Conns, client[c].state = "open",
         NEW n \in 1..Len(wire[c]), n <= ReadBuffer, overfull(c, n)
  PROVE  client[c].buffered # <<>> /\ \E i \in 1..n : wire[c][i][2] = 1
<1> DEFINE b == client[c].buffered
           w == wire[c]
           cs == sent[c]
           u == b \o w
           S == Nat \X Nat
           lb == Len(b)
           lw == Len(w)
           lu == Len(u)
<1>1. /\ cs \in Seq(Commands) /\ w \in Seq(S) /\ b \in Seq(S)
      /\ StreamOk(cs, client[c], w, c \notin eof)
      /\ Chain(cs, u)
  BY OneConnection
<1>2. /\ u # <<>> => u[1][2] = 1
      /\ b # <<>> => lb < cs[b[1][1]].size
  BY <1>1 DEF StreamOk
<1>3. /\ lb \in Nat /\ lw \in Nat /\ (lb = 0 => b = <<>>) /\ (b = <<>> => lb = 0)
      /\ ReadBuffer \in Nat /\ MaxFrame \in Nat /\ ReadBuffer <= MaxFrame
  BY <1>1, EmptySeq, LenProperties DEF IntakeConstants
<1>4. n > MaxFrame - lb /\ n \in 1..lw /\ n <= ReadBuffer
  BY DEF overfull
<1> HIDE DEF b, w, cs, S
<1>5. /\ lu = lb + lw
      /\ \A i \in 1..lb : i \in 1..lu /\ u[i] = b[i]
      /\ \A i \in 1..lw : lb + i \in 1..lu /\ u[lb + i] = w[i]
  BY <1>1, ConcatElements
<1>6. u \in Seq(UnitsOf(cs))
  BY <1>1 DEF Chain
<1> HIDE DEF lb, lw, lu, u
<1>7. lb > 0 /\ n \in Nat /\ n > 0 /\ n <= lw /\ lu \in Nat
  BY <1>3, <1>4, <1>5
<1>8. b # <<>> /\ u # <<>> /\ u[1] = b[1]
  <2>1. 1 \in 1..lb /\ 1 \in 1..lu
    BY <1>3, <1>5, <1>7
  <2>2. b # <<>>
    BY <1>3, <1>7
  <2>3. u # <<>>
    BY <2>1, EmptySeq DEF lu
  <2>4. QED
    BY <1>5, <2>1, <2>2, <2>3
<1>9. ASSUME \A i \in 1..n : w[i][2] # 1
      PROVE  FALSE
  <2> DEFINE k == lb + n
  <2>1. k \in Nat /\ k \in 1..lu
    BY <1>3, <1>5, <1>7
  <2>2. ASSUME NEW i \in 1..k, i > lb
        PROVE  u[i][2] # 1
    <3> DEFINE j == i - lb
    <3>1. j \in 1..n /\ j \in 1..lw /\ lb + j = i
      BY <1>3, <1>7, <2>2
    <3> HIDE DEF j
    <3>2. u[lb + j] = w[j] /\ w[j][2] # 1
      BY <1>5, <1>9, <3>1
    <3>3. QED
      BY <3>1, <3>2
  <2> HIDE DEF k
  <2>3. lb < cs[u[1][1]].size
    BY <1>2, <1>8
  <2>4. u[k] = <<u[1][1], k>>
    <3>1. u[1][2] = 1 /\ k \in 1..Len(u)
      BY <1>2, <1>8, <2>1 DEF lu
    <3>2. k \in 1..k
      BY <2>1
    <3>3. QED
      BY <1>1, <1>3, <2>2, <2>3, <3>1, <3>2, OneFrame
  <2>5. u[k] \in UnitsOf(cs)
    <3>1. k \in 1..Len(u)
      BY <2>1 DEF lu
    <3>2. QED
      BY <1>6, <3>1, ElementOfSeq
  <2>6. k <= cs[u[1][1]].size /\ cs[u[1][1]] \in Commands
    BY <1>1, <2>4, <2>5, UnitFields
  <2>7. cs[u[1][1]].size \in Nat /\ cs[u[1][1]].size <= MaxFrame
    BY <2>6 DEF IntakeConstants
  <2>8. k <= MaxFrame
    BY <1>3, <2>1, <2>6, <2>7
  <2>9. QED
    BY <1>3, <1>4, <1>7, <2>8 DEF k
<1>10. QED
  BY <1>8, <1>9 DEF b, w

\* In any step but a read that does not fit, no connection becomes overfull.
LEMMA OverfullStep ==
  ASSUME IntakeConstants, IntakeInv, Next, NEW c \in Conns,
         client[c].state = "open", client'[c].state = "overfull"
  PROVE  \E n \in 1..Len(wire[c]) :
           /\ n <= ReadBuffer /\ overfull(c, n)
           /\ Len(wire[c]) - Len(wire'[c]) = n
<1>1. client \in [Conns -> [state : ClientStates, buffered : Seq(Nat \X Nat)]]
  BY DEF IntakeInv, IntakeTypes
<1>2. client' # client
  BY Zenon
<1>3. ~EndFrame
  <2> SUFFICES ASSUME EndFrame PROVE FALSE
    OBVIOUS
  <2>1. client'[c] = [state |-> "closed", buffered |-> <<>>] \/ client'[c] = client[c]
    BY DEF EndFrame
  <2>2. QED
    BY <2>1
<1>4. PICK d \in Conns : Receive(d) /\ client' # client
  BY <1>2, <1>3 DEF Next, Send, Hangup, Dispatch, BeginFrame
<1>5. wire \in [Conns -> Seq(Nat \X Nat)] /\ Len(wire[d]) \in Nat /\ ReadBuffer \in Nat
  BY LenProperties DEF IntakeInv, IntakeTypes, IntakeConstants
<1>6. CASE \E n \in 1..Min({Len(wire[d]), ReadBuffer}) : ReadUnits(d, n)
  <2>1. PICK n \in 1..Min({Len(wire[d]), ReadBuffer}) : ReadUnits(d, n)
    BY <1>6
  <2>2. n \in 1..Len(wire[d]) /\ n \in Nat /\ n <= Len(wire[d]) /\ n <= ReadBuffer
    <3> DEFINE l == Len(wire[d])
               B == ReadBuffer
    <3> HIDE DEF l, B
    <3>1. l \in Nat /\ B \in Nat /\ n \in 1..Min({l, B})
      BY <1>5, <2>1 DEF l, B
    <3>2. \E x \in {l, B} : \A y \in {l, B} : x <= y
      BY <3>1
    <3>3. Min({l, B}) \in {l, B} /\ \A y \in {l, B} : Min({l, B}) <= y
      BY <3>2, Zenon DEF Min
    <3> DEFINE m == Min({l, B})
    <3> HIDE DEF m
    <3>4. m \in Nat /\ m <= l /\ m <= B /\ n \in 1..m
      BY <3>1, <3>3 DEF m
    <3>5. n \in 1..l /\ n \in Nat /\ n <= l /\ n <= B
      BY <3>1, <3>4
    <3>6. QED
      BY <3>5 DEF l, B
  <2>3. overfull(d, n) /\ d = c
    <3> DEFINE a == frames(d, client[d].buffered \o SubSeq(wire[d], 1, n))
    <3>1. CASE overfull(d, n) /\ closed(d, "overfull")
      BY <1>1, <3>1 DEF closed
    <3>2. CASE closed(d, "invalid")
      BY <1>1, <3>2 DEF closed
    <3>3. CASE client' = [client EXCEPT ![d].buffered = a.rest]
      <4> HIDE DEF a
      <4>1. client'[c].state = client[c].state
        BY <1>1, <3>3
      <4>2. QED
        BY <4>1
    <3>4. QED
      BY <2>1, <3>1, <3>2, <3>3 DEF ReadUnits
  <2>4. wire'[c] = SubSeq(wire[c], n + 1, Len(wire[c]))
    BY <1>5, <2>1, <2>3 DEF ReadUnits
  <2>5. Len(wire'[c]) = Len(wire[c]) - n
    <3>1. wire[c] \in Seq(Nat \X Nat)
      BY <1>5
    <3>2. QED
      BY <2>2, <2>3, <2>4, <3>1, SuffixElements
  <2> DEFINE lw == Len(wire[c])
  <2>6. lw - (lw - n) = n
    <3>1. lw \in Nat
      BY <1>5, <2>3
    <3> HIDE DEF lw
    <3>2. QED
      BY <2>2, <3>1
  <2>7. QED
    BY <2>2, <2>3, <2>5, <2>6
<1>7. CASE closed(d, "closed")
  BY <1>1, <1>7 DEF closed
<1>8. QED
  BY <1>4, <1>6, <1>7 DEF Receive

\* A command that arrives alone is never too much for the FrameAccumulator, of
\* whatever legal length it is and however the reads cut it: only a read that
\* ends one frame and begins another is refused.
THEOREM OneFrameHasRoom ==
  ASSUME IntakeConstants
  PROVE  Spec => OneFrameFits
<1> DEFINE Fits == \A c \in Conns : client[c].state = "open" /\ client'[c].state = "overfull" =>
                     /\ client[c].buffered # <<>>
                     /\ \E i \in 1..(Len(wire[c]) - Len(wire'[c])) : wire[c][i][2] = 1
<1>1. IntakeInv /\ [Next]_intakeVars => [Fits]_intakeVars
  <2> SUFFICES ASSUME IntakeInv, Next, NEW c \in Conns,
                      client[c].state = "open", client'[c].state = "overfull"
               PROVE  /\ client[c].buffered # <<>>
                      /\ \E i \in 1..(Len(wire[c]) - Len(wire'[c])) : wire[c][i][2] = 1
    OBVIOUS
  <2>1. PICK n \in 1..Len(wire[c]) : /\ n <= ReadBuffer /\ overfull(c, n)
                                     /\ Len(wire[c]) - Len(wire'[c]) = n
    BY OverfullStep
  <2>2. client[c].buffered # <<>> /\ \E i \in 1..n : wire[c][i][2] = 1
    BY <2>1, OverfullRead
  <2>3. QED
    BY <2>1, <2>2
<1>2. QED
  BY <1>1, IntakeInvariant, PTL DEF Spec, OneFrameFits
=============================================================================
