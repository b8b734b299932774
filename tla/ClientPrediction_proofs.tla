----------------------- MODULE ClientPrediction_proofs -----------------------
(***************************************************************************)
(* Proofs about ClientPrediction, for any bounds and any lengths of Moves. *)
(***************************************************************************)
EXTENDS ClientPrediction, SequenceTheorems, WellFoundedInduction, TLAPS

\* What the proofs need of the constants.
PredictionConstants ==
  /\ MaxPredictions \in Nat /\ MaxAhead \in Nat /\ MaxPredictions <= MaxAhead
  /\ Steps \subseteq Int

-----------------------------------------------------------------------------
(* The inductive invariant *)

Move == [seq : Nat, delta : Int]
Poses == UNION {[S -> Int] : S \in SUBSET Nat}
EventUpdate == [kind : {"own", "other"}, session : Nat, pos : Int, ack : Nat]
SnapshotUpdate == [kind : {"snapshot"}, session : Nat, pos : Int, ack : Nat, players : Poses]
Sent == [update : EventUpdate \cup SnapshotUpdate, gap : BOOLEAN]
Predictor ==
  [predicted : Int, rendered : Int, pending : Seq(Move), lastAcked : Nat,
   correcting : BOOLEAN, lastInput : Nat]

OwnPlayer == [pos : Int, session : Nat \ {0}, accepted : Nat, processed : Nat]
OtherPlayer == [pos : Int, session : Nat, sessions : Nat, moves : Nat]

ServerTypes ==
  /\ own \in OwnPlayer
  /\ other \in OtherPlayer
  /\ inputs \in Seq(Move) /\ wanted \in BOOLEAN /\ missed \in BOOLEAN
WayTypes == up \in Seq(Move) /\ down \in Seq(Sent)
ClientTypes == predictor \in Predictor /\ synced \in BOOLEAN
PredictionTypes == ServerTypes /\ WayTypes /\ ClientTypes

\* The numbers of the inputs in the buffer ascend up to the last one given.
BufferInv ==
  LET pending == predictor.pending IN
  /\ Len(pending) <= MaxPredictions
  /\ \A k \in 1..Len(pending) : pending[k].seq <= predictor.lastInput
  /\ \A j, k \in 1..Len(pending) : j < k => pending[j].seq < pending[k].seq

\* An input that is on its way to the server, or waits for the next frame, is
\* beyond what the session has processed, and in the buffer.
NumbersInv ==
  /\ own.processed <= own.accepted /\ own.accepted <= predictor.lastInput
  /\ \A k \in 1..Len(inputs) :
       inputs[k].seq # 0 =>
         /\ own.processed < inputs[k].seq
         /\ \E j \in 1..Len(predictor.pending) : predictor.pending[j] = inputs[k]
  /\ \A k \in 1..Len(inputs) : inputs[k].seq <= own.accepted
  /\ \A k \in 1..Len(up) :
       up[k].seq # 0 =>
         /\ own.accepted < up[k].seq
         /\ \E j \in 1..Len(predictor.pending) : predictor.pending[j] = up[k]
  /\ \A j, k \in 1..Len(up) : j < k /\ up[j].seq # 0 /\ up[k].seq # 0 => up[j].seq < up[k].seq

\* In the first session the buffer has all numbers from one that is not above
\* the next to be processed.
AheadInv ==
  own.session = 1 =>
    LET first == predictor.lastInput - Len(predictor.pending) IN
    /\ first <= own.processed
    /\ \A k \in 1..Len(predictor.pending) : predictor.pending[k].seq = first + k

\* An update that has the pose of the own player.
HasPose(k) == down[k].update.kind # "other"
NoPoseAfter(k) == \A l \in (k + 1)..Len(down) : ~HasPose(l)
\* No update is missing after update k, the latest included.
WholeAfter(k) == ~missed /\ \A l \in (k + 1)..Len(down) : ~down[l].gap

\* The latest pose on its way is the authoritative one; without one, the client
\* has predicted from it.
LatestPose ==
  \A k \in 1..Len(down) :
    WholeAfter(k) /\ HasPose(k) /\ NoPoseAfter(k) => down[k].update.pos = own.pos
KnownPose ==
  synced /\ WholeAfter(0) /\ NoPoseAfter(0) =>
    predictor.predicted = own.pos + total(predictor.pending)
PoseInv == LatestPose /\ KnownPose

\* An update from k on acknowledges all that the session has processed.
AcksAll(k) == HasPose(k) /\ down[k].update.ack >= own.processed
AckedFrom(k) == \E l \in k..Len(down) : AcksAll(l)
IsSnapshot(k) == down[k].update.kind = "snapshot"
PendingBeyond ==
  \A j \in 1..Len(predictor.pending) : predictor.pending[j].seq > own.processed

\* No ack is ahead of the session.  A client that is in step, or will be with a
\* Snapshot, hears of all that is processed.
AcksProcessed == \A k \in 1..Len(down) : HasPose(k) => down[k].update.ack <= own.processed
LatestAck == \A k \in 1..Len(down) : WholeAfter(k) /\ IsSnapshot(k) => AckedFrom(k)
KnownAck == synced /\ WholeAfter(0) => AckedFrom(1) \/ PendingBeyond
AckInv == AcksProcessed /\ LatestAck /\ KnownAck

NoSnapshotAfter(k) == \A l \in (k + 1)..Len(down) : ~IsSnapshot(l)
\* An update that has the pose of the other player, or shows it is not there.
TellsOther(k) ==
  IsSnapshot(k) \/ (down[k].update.kind = "other" /\ down[k].update.session = other.session)
NoneTellsAfter(k) == \A l \in (k + 1)..Len(down) : ~TellsOther(l)

\* The same for the pose of the other player, unless a Snapshot is still due.
LatestRemote ==
  \A k \in 1..Len(down) :
    WholeAfter(k) /\ TellsOther(k) /\ NoneTellsAfter(k) =>
      IF IsSnapshot(k) THEN down[k].update.players[other.session] = other.pos
      ELSE down[k].update.pos = other.pos
LatestPlayers ==
  \A k \in 1..Len(down) :
    WholeAfter(k) /\ IsSnapshot(k) /\ NoSnapshotAfter(k) =>
      other.session \in DOMAIN down[k].update.players
KnownPlayer == synced /\ WholeAfter(0) /\ NoSnapshotAfter(0) => other.session \in DOMAIN remotes
KnownRemote ==
  synced /\ WholeAfter(0) /\ NoneTellsAfter(0) => remotes[other.session] = other.pos
RemoteInv ==
  ~wanted /\ other.session # 0 => LatestRemote /\ LatestPlayers /\ KnownPlayer /\ KnownRemote

PredictionInv ==
  /\ PredictionTypes /\ RenderedAgrees /\ BufferInv /\ NumbersInv /\ AheadInv
  /\ PoseInv /\ AckInv /\ RemoteInv

-----------------------------------------------------------------------------
(* Sums *)

\* g gives the sums of the first deltas of s, up to len of them.
SumsOf(g, s, len) == g = [n \in 0..len |-> IF n = 0 THEN 0 ELSE g[n - 1] + s[n].delta]

\* A set of numbers that is not empty has a smallest one.
LEMMA SmallestNumber ==
  ASSUME NEW T, T \subseteq Nat, T # {}
  PROVE  \E n \in T : \A m \in T : n <= m
<1> DEFINE R == OpToRel(<, Nat)
<1>1. IsWellFoundedOn(R, Nat)
  BY NatLessThanWellFounded
<1>2. \E n \in T : \A m \in T : ~ (<<m, n>> \in R)
  <2> HIDE DEF R
  <2>1. QED
    BY <1>1, WFMin
<1>3. PICK n \in T : \A m \in T : ~ (<<m, n>> \in R)
  BY <1>2
<1>4. ASSUME NEW m \in T
      PROVE  n <= m
  <2>1. ~(m < n)
    BY <1>3 DEF OpToRel
  <2> HIDE DEF R
  <2>2. m \in Nat /\ n \in Nat
    OBVIOUS
  <2>3. QED
    BY <2>1, <2>2
<1>5. QED
  BY <1>4

\* The sums exist as a function: for a smallest length without one, it would be
\* that of the length before with one more.
LEMMA SumsExist ==
  ASSUME NEW s, NEW len \in Nat
  PROVE  \E g : SumsOf(g, s, len)
<1> DEFINE T == {l \in Nat : ~\E g : SumsOf(g, s, l)}
<1>1. SUFFICES ASSUME T # {} PROVE FALSE
  OBVIOUS
<1>2. PICK l \in T : \A m \in T : l <= m
  <2>1. T \subseteq Nat
    OBVIOUS
  <2> HIDE DEF T
  <2>2. QED
    BY <1>1, <2>1, SmallestNumber
<1>3. l \in Nat /\ ~\E g : SumsOf(g, s, l)
  OBVIOUS
<1>4. CASE l = 0
  <2>1. SumsOf([n \in 0..0 |-> 0], s, 0)
    BY DEF SumsOf
  <2>2. QED
    BY <1>3, <1>4, <2>1
<1>5. CASE l # 0
  <2>1. l - 1 \in Nat /\ ~(l <= l - 1)
    BY <1>3, <1>5
  <2>2. PICK g : SumsOf(g, s, l - 1)
    BY <1>2, <2>1
  <2> DEFINE h == [n \in 0..l |-> IF n = l THEN g[l - 1] + s[l].delta ELSE g[n]]
  <2> HIDE DEF T
  <2>3. ASSUME NEW n \in 0..l
        PROVE  h[n] = IF n = 0 THEN 0 ELSE h[n - 1] + s[n].delta
    <3>1. CASE n = 0
      <4>1. 0 \in 0..(l - 1) /\ 0 # l
        BY <1>5, <2>1
      <4>2. g[0] = 0
        BY <2>2, <4>1 DEF SumsOf
      <4>3. QED
        BY <3>1, <4>1, <4>2
    <3>2. CASE n # 0 /\ n = l
      <4>1. n - 1 \in 0..l /\ n - 1 # l
        BY <1>3, <3>2
      <4>2. h[n - 1] = g[l - 1]
        BY <3>2, <4>1
      <4>3. h[n] = g[l - 1] + s[l].delta
        BY <3>2
      <4>4. QED
        BY <3>2, <4>2, <4>3
    <3>3. CASE n # 0 /\ n # l
      <4>1. n \in 0..(l - 1) /\ n - 1 \in 0..l /\ n - 1 # l
        BY <1>3, <3>3
      <4>2. g[n] = g[n - 1] + s[n].delta
        BY <2>2, <3>3, <4>1 DEF SumsOf
      <4>3. h[n] = g[n] /\ h[n - 1] = g[n - 1]
        BY <3>3, <4>1
      <4>4. QED
        BY <3>3, <4>2, <4>3
    <3>4. QED
      BY <3>1, <3>2, <3>3
  <2>4. h = [n \in 0..l |-> h[n]]
    OBVIOUS
  <2> HIDE DEF h
  <2>5. SumsOf(h, s, l)
    BY <2>3, <2>4 DEF SumsOf
  <2>6. QED
    BY <1>3, <2>5
<1>6. QED
  BY <1>4, <1>5

\* What the sums are, one after the other.
LEMMA SumSteps ==
  ASSUME NEW g, NEW s, NEW len \in Nat, SumsOf(g, s, len)
  PROVE  g[0] = 0 /\ \A n \in 1..len : g[n] = g[n - 1] + s[n].delta
<1>1. 0 \in 0..len /\ \A n \in 1..len : n \in 0..len /\ n # 0
  OBVIOUS
<1>2. QED
  BY <1>1 DEF SumsOf

\* They are numbers.
LEMMA SumsAreNumbers ==
  ASSUME NEW g, NEW len \in Nat, NEW s, \A n \in 1..len : s[n] \in Move, SumsOf(g, s, len)
  PROVE  \A n \in 0..len : g[n] \in Int
<1> DEFINE T == {n \in 0..len : g[n] \notin Int}
<1>1. SUFFICES ASSUME T # {} PROVE FALSE
  OBVIOUS
<1>2. PICK n \in T : \A m \in T : n <= m
  <2>1. T \subseteq Nat
    OBVIOUS
  <2> HIDE DEF T
  <2>2. QED
    BY <1>1, <2>1, SmallestNumber
<1>3. n \in 0..len /\ g[n] \notin Int
  OBVIOUS
<1>4. g[0] = 0 /\ \A k \in 1..len : g[k] = g[k - 1] + s[k].delta
  BY SumSteps
<1>5. n # 0
  BY <1>3, <1>4
<1>6. n \in 1..len /\ n - 1 \in 0..len /\ ~(n <= n - 1)
  BY <1>3, <1>5
<1>7. g[n - 1] \in Int
  BY <1>2, <1>6
<1>8. s[n].delta \in Int
  BY <1>6 DEF Move
<1>9. QED
  BY <1>3, <1>4, <1>6, <1>7, <1>8

\* The sums of sequences that begin alike.
LEMMA SumsAgree ==
  ASSUME NEW g, NEW h, NEW s, NEW t, NEW len \in Nat, NEW more \in Nat, len <= more,
         SumsOf(g, s, len), SumsOf(h, t, more), \A n \in 1..len : t[n] = s[n]
  PROVE  \A n \in 0..len : h[n] = g[n]
<1> DEFINE T == {n \in 0..len : h[n] # g[n]}
<1>1. SUFFICES ASSUME T # {} PROVE FALSE
  OBVIOUS
<1>2. PICK n \in T : \A m \in T : n <= m
  <2>1. T \subseteq Nat
    OBVIOUS
  <2> HIDE DEF T
  <2>2. QED
    BY <1>1, <2>1, SmallestNumber
<1>3. n \in 0..len /\ h[n] # g[n]
  OBVIOUS
<1>4. g[0] = 0 /\ \A k \in 1..len : g[k] = g[k - 1] + s[k].delta
  BY SumSteps
<1>5. h[0] = 0 /\ \A k \in 1..more : h[k] = h[k - 1] + t[k].delta
  BY SumSteps
<1>6. n # 0
  BY <1>3, <1>4, <1>5
<1>7. n \in 1..len /\ n \in 1..more /\ n - 1 \in 0..len /\ ~(n <= n - 1)
  BY <1>3, <1>6
<1>8. h[n - 1] = g[n - 1]
  BY <1>2, <1>7
<1>9. QED
  BY <1>3, <1>4, <1>5, <1>7, <1>8

\* The total of a sequence is the last of its sums.
LEMMA TotalIsSum ==
  ASSUME NEW s \in Seq(Move)
  PROVE  \E g : SumsOf(g, s, Len(s)) /\ total(s) = g[Len(s)]
<1> DEFINE len == Len(s)
           g == CHOOSE h : h = [n \in 0..len |-> IF n = 0 THEN 0 ELSE h[n - 1] + s[n].delta]
<1>1. total(s) = g[len]
  BY DEF total
<1>2. len \in Nat
  BY LenProperties
<1> HIDE DEF len
<1>3. \E h : h = [n \in 0..len |-> IF n = 0 THEN 0 ELSE h[n - 1] + s[n].delta]
  <2>1. \E h : SumsOf(h, s, len)
    BY <1>2, SumsExist
  <2>2. QED
    BY <2>1 DEF SumsOf
<1>4. g = [n \in 0..len |-> IF n = 0 THEN 0 ELSE g[n - 1] + s[n].delta]
  BY <1>3
<1> HIDE DEF g
<1>5. SumsOf(g, s, len)
  BY <1>4 DEF SumsOf
<1>6. QED
  BY <1>1, <1>5 DEF len

LEMMA TotalIsNumber ==
  ASSUME NEW s \in Seq(Move)
  PROVE  total(s) \in Int
<1>1. PICK g : SumsOf(g, s, Len(s)) /\ total(s) = g[Len(s)]
  BY TotalIsSum
<1>2. Len(s) \in Nat /\ Len(s) \in 0..Len(s) /\ \A n \in 1..Len(s) : s[n] \in Move
  BY LenProperties, ElementOfSeq
<1>3. QED
  BY <1>1, <1>2, SumsAreNumbers

LEMMA TotalOfNone == total(<<>>) = 0
<1>1. <<>> \in Seq(Move) /\ Len(<<>>) = 0
  BY EmptySeq
<1>2. PICK g : SumsOf(g, <<>>, 0) /\ total(<<>>) = g[0]
  BY <1>1, TotalIsSum
<1>3. QED
  BY <1>2, SumSteps

LEMMA TotalOfAppend ==
  ASSUME NEW s \in Seq(Move), NEW i \in Move
  PROVE  total(Append(s, i)) = total(s) + i.delta
<1> DEFINE t == Append(s, i)
           len == Len(s)
<1>1. t \in Seq(Move) /\ len \in Nat /\ Len(t) = len + 1
      /\ t[len + 1] = i /\ \A n \in 1..len : t[n] = s[n]
  BY AppendProperties, LenProperties
<1>2. PICK g : SumsOf(g, s, len) /\ total(s) = g[len]
  BY TotalIsSum
<1>3. PICK h : SumsOf(h, t, len + 1) /\ total(t) = h[len + 1]
  <2> HIDE DEF t, len
  <2>1. QED
    BY <1>1, TotalIsSum
<1> HIDE DEF t, len
<1>4. len + 1 \in Nat /\ len <= len + 1 /\ len \in 0..len /\ len + 1 \in 1..(len + 1)
      /\ (len + 1) - 1 = len
  BY <1>1
<1>5. h[len] = g[len]
  BY <1>1, <1>2, <1>3, <1>4, SumsAgree
<1>6. h[len + 1] = h[(len + 1) - 1] + t[len + 1].delta
  BY <1>3, <1>4, SumSteps
<1>7. h[len + 1] = g[len] + i.delta
  BY ONLY <1>1, <1>4, <1>5, <1>6
<1>8. QED
  BY <1>2, <1>3, <1>7 DEF t

-----------------------------------------------------------------------------
(* The buffer of unacknowledged inputs *)

LEMMA MoveFields ==
  ASSUME NEW s \in Seq(Move), NEW k \in 1..Len(s)
  PROVE  s[k] \in Move /\ s[k].seq \in Nat /\ s[k].delta \in Int
<1>1. s[k] \in Move
  BY ElementOfSeq
<1>2. QED
  BY <1>1 DEF Move

\* The first n inputs of a buffer are acknowledged, and the others are left.
Leaves(pending, rest, q, n) ==
  /\ n \in 0..Len(pending)
  /\ \A k \in 1..n : pending[k].seq <= q
  /\ n < Len(pending) => pending[n + 1].seq > q
  /\ rest \in Seq(Move) /\ Len(rest) = Len(pending) - n
  /\ \A k \in 1..Len(rest) : rest[k] = pending[n + k]

\* There is a first input that is not acknowledged, or all are.
LEMMA FirstUnacked ==
  ASSUME NEW pending \in Seq(Move), NEW q \in Nat
  PROVE  \E n \in 0..Len(pending) :
           /\ \A k \in 1..n : pending[k].seq <= q
           /\ n < Len(pending) => pending[n + 1].seq > q
<1> DEFINE len == Len(pending)
           T == {n \in 0..len : n < len => pending[n + 1].seq > q}
<1>1. len \in Nat
  BY LenProperties
<1>2. \A k \in 1..len : pending[k].seq \in Nat
  <2>1. \A k \in 1..len : pending[k] \in Move
    BY ElementOfSeq
  <2>2. QED
    BY <2>1 DEF Move
<1> HIDE DEF len
<1>3. len \in T /\ T \subseteq Nat
  BY <1>1
<1>4. PICK n \in T : \A m \in T : n <= m
  <2> HIDE DEF T
  <2>1. QED
    BY <1>3, SmallestNumber
<1>5. n \in 0..len /\ (n < len => pending[n + 1].seq > q)
  OBVIOUS
<1>6. ASSUME NEW k \in 1..n
      PROVE  pending[k].seq <= q
  <2>1. k - 1 \in 0..len /\ k - 1 < len /\ (k - 1) + 1 = k /\ ~(n <= k - 1) /\ k \in 1..len
    BY <1>1, <1>5
  <2>2. k - 1 \notin T
    <3> HIDE DEF T
    <3>1. QED
      BY <1>4, <2>1
  <2>3. ~(pending[k].seq > q)
    BY <2>1, <2>2
  <2>4. QED
    BY <1>2, <2>1, <2>3
<1>7. QED
  BY <1>5, <1>6 DEF len

LEMMA AcknowledgedLeave ==
  ASSUME NEW pending \in Seq(Move), NEW q \in Nat
  PROVE  \E n : Leaves(pending, acknowledgeUpTo(pending, q), q, n)
<1> DEFINE len == Len(pending)
           Acked(n) == /\ \A k \in 1..n : pending[k].seq <= q
                       /\ n < len => pending[n + 1].seq > q
           n == CHOOSE m \in 0..len : Acked(m)
           rest == SubSeq(pending, n + 1, len)
<1>1. rest = acknowledgeUpTo(pending, q)
  BY DEF acknowledgeUpTo
<1>2. \E m \in 0..len : Acked(m)
  BY FirstUnacked
<1>3. n \in 0..len /\ Acked(n)
  <2> HIDE DEF Acked
  <2>1. QED
    BY <1>2
<1>4. len \in Nat
  BY LenProperties
<1> HIDE DEF n
<1>5. \A i \in (n + 1)..len : pending[i] \in Move
  <2>1. \A i \in (n + 1)..len : i \in 1..Len(pending)
    BY <1>3, <1>4
  <2>2. QED
    BY <2>1, ElementOfSeq
<1>6. n + 1 \in Int /\ len \in Int
  BY <1>3, <1>4
<1>7. /\ rest \in Seq(Move)
      /\ Len(rest) = IF n + 1 <= len THEN len - (n + 1) + 1 ELSE 0
      /\ \A i \in 1..(len - (n + 1) + 1) : rest[i] = pending[(n + 1) + i - 1]
  <2> HIDE DEF len
  <2>1. QED
    BY <1>5, <1>6, SubSeqProperties
<1> HIDE DEF rest, len
<1>8. Len(rest) = len - n
  BY <1>3, <1>4, <1>7
<1>9. \A i \in 1..Len(rest) : i \in 1..(len - (n + 1) + 1) /\ (n + 1) + i - 1 = n + i
  BY <1>3, <1>4, <1>8
<1>10. \A i \in 1..Len(rest) : rest[i] = pending[n + i]
  BY <1>7, <1>9
<1>11. Leaves(pending, rest, q, n)
  BY <1>3, <1>7, <1>8, <1>10 DEF Leaves, len
<1>12. QED
  BY <1>1, <1>11

\* What an ack q with pose x makes of the predictor.
Corrected(p, r, x, q) ==
  /\ r \in Predictor /\ r.lastInput = p.lastInput
  /\ r.predicted = x + total(r.pending)
  /\ r.correcting \/ r.rendered = r.predicted
  /\ \E n : Leaves(p.pending, r.pending, q, n)

LEMMA AfterAck ==
  ASSUME NEW p \in Predictor, NEW x \in Int, NEW q \in Nat, NEW r,
         r = reconcile(p, x, q) \/ r = applySnapshotBaseline(p, x, q)
  PROVE  Corrected(p, r, x, q)
<1> DEFINE rest == acknowledgeUpTo(p.pending, q)
           b == rebased(p, x, q)
<1>1. p.pending \in Seq(Move)
  BY DEF Predictor
<1>2. PICK n : Leaves(p.pending, rest, q, n)
  BY <1>1, AcknowledgedLeave
<1>3. rest \in Seq(Move)
  BY <1>2 DEF Leaves
<1>4. total(rest) \in Int
  BY <1>3, TotalIsNumber
<1>5. b = [p EXCEPT !.pending = rest, !.predicted = x + total(rest), !.lastAcked = q]
  BY DEF rebased
<1> HIDE DEF rest, b
<1>6. x + total(rest) \in Int
  BY <1>4
<1>7. /\ b \in Predictor /\ b.pending = rest /\ b.predicted = x + total(rest)
      /\ b.lastInput = p.lastInput
  BY <1>3, <1>5, <1>6 DEF Predictor
<1>8. \/ r = [b EXCEPT !.rendered = b.predicted, !.correcting = FALSE]
      \/ r = [b EXCEPT !.correcting = TRUE]
  BY DEF b, reconcile, applySnapshotBaseline, correctRender
<1>9. /\ r \in Predictor /\ r.pending = b.pending /\ r.predicted = b.predicted
      /\ r.lastInput = b.lastInput
      /\ r.correcting \/ r.rendered = r.predicted
  BY <1>7, <1>8 DEF Predictor
<1>10. r.predicted = x + total(r.pending)
  BY <1>7, <1>9
<1>11. Leaves(p.pending, r.pending, q, n)
  BY <1>2, <1>7, <1>9
<1>12. QED
  BY <1>7, <1>9, <1>10, <1>11 DEF Corrected

\* What an ack leaves in the buffer are the inputs above it.
LEMMA LeftInBuffer ==
  ASSUME NEW pending \in Seq(Move), NEW q \in Nat, NEW rest, NEW n, Leaves(pending, rest, q, n),
         \A j, k \in 1..Len(pending) : j < k => pending[j].seq < pending[k].seq
  PROVE  /\ \A k \in 1..Len(rest) : \E j \in 1..Len(pending) : pending[j] = rest[k]
         /\ \A k \in 1..Len(rest) : rest[k].seq > q
         /\ \A j, k \in 1..Len(rest) : j < k => rest[j].seq < rest[k].seq
         /\ \A j \in 1..Len(pending) :
              pending[j].seq > q => \E k \in 1..Len(rest) : rest[k] = pending[j]
<1>1. Len(pending) \in Nat
  BY LenProperties
<1>2. \A k \in 1..Len(pending) : pending[k].seq \in Nat
  <2>1. \A k \in 1..Len(pending) : pending[k] \in Move
    BY ElementOfSeq
  <2>2. QED
    BY <2>1 DEF Move
<1> DEFINE len == Len(pending)
           left == Len(rest)
<1>3. /\ n \in 0..len /\ left = len - n
      /\ \A k \in 1..n : pending[k].seq <= q
      /\ n < len => pending[n + 1].seq > q
      /\ \A k \in 1..left : rest[k] = pending[n + k]
  BY DEF Leaves
<1>4. len \in Nat /\ \A k \in 1..len : pending[k].seq \in Nat
  BY <1>1, <1>2
<1>5. \A j, k \in 1..len : j < k => pending[j].seq < pending[k].seq
  OBVIOUS
<1> HIDE DEF len, left
<1>6. \A k \in 1..left : n + k \in 1..len
  BY <1>3, <1>4
<1>7. \A k \in 1..left : \E j \in 1..len : pending[j] = rest[k]
  BY <1>3, <1>6
<1>8. ASSUME NEW k \in 1..left
      PROVE  rest[k].seq > q
  <2>1. n < len /\ n + 1 \in 1..len /\ n + k \in 1..len
    BY <1>3, <1>4
  <2>2. pending[n + 1].seq > q
    BY <1>3, <2>1
  <2>3. k = 1 \/ n + 1 < n + k
    BY <1>3, <1>4
  <2>4. k = 1 \/ pending[n + 1].seq < pending[n + k].seq
    BY <1>5, <2>1, <2>3
  <2>5. rest[k] = pending[n + k]
    BY <1>3
  <2> DEFINE a == pending[n + 1].seq
             b == pending[n + k].seq
  <2>6. a \in Nat /\ b \in Nat
    BY <1>4, <2>1
  <2>7. k = 1 => b = a
    OBVIOUS
  <2> HIDE DEF a, b
  <2>8. b > q
    BY <2>2, <2>4, <2>6, <2>7 DEF a, b
  <2>9. QED
    BY <2>5, <2>8 DEF b
<1>9. ASSUME NEW j \in 1..left, NEW k \in 1..left, j < k
      PROVE  rest[j].seq < rest[k].seq
  <2>1. n + j \in 1..len /\ n + k \in 1..len /\ n + j < n + k
    BY <1>3, <1>4, <1>9
  <2>2. pending[n + j].seq < pending[n + k].seq
    BY <1>5, <2>1
  <2>3. QED
    BY <1>3, <2>2
<1>10. ASSUME NEW j \in 1..len, pending[j].seq > q
       PROVE  \E k \in 1..left : rest[k] = pending[j]
  <2>1. pending[j].seq \in Nat
    BY <1>4
  <2>2. j \notin 1..n
    BY <1>3, <1>10, <2>1
  <2>3. j - n \in 1..left /\ n + (j - n) = j
    BY <1>3, <1>4, <2>2
  <2>4. rest[j - n] = pending[n + (j - n)]
    BY <1>3, <2>3
  <2>5. QED
    BY <2>3, <2>4
<1>11. QED
  BY <1>7, <1>8, <1>9, <1>10 DEF len, left

-----------------------------------------------------------------------------
(* The application *)

\* The parts of the invariant that speak of updates, while those on their way,
\* the server's poses and acks, and the client's stay as they are.
LEMMA UpdatesKept ==
  ASSUME PoseInv, AckInv, RemoteInv,
         UNCHANGED <<other, wanted, missed, down, remotes, synced>>,
         own'.pos = own.pos, own'.processed = own.processed,
         predictor'.predicted = predictor.predicted, predictor'.pending = predictor.pending
  PROVE  PoseInv' /\ AckInv' /\ RemoteInv'
<1>1. PoseInv'
  BY DEF PoseInv, LatestPose, KnownPose, HasPose, WholeAfter, NoPoseAfter
<1>2. AckInv'
  BY DEF AckInv, AcksProcessed, LatestAck, KnownAck, AcksAll, AckedFrom, PendingBeyond,
      IsSnapshot, HasPose, WholeAfter
<1>3. RemoteInv'
  BY DEF RemoteInv, LatestRemote, LatestPlayers, KnownPlayer, KnownRemote, IsSnapshot,
      TellsOther, WholeAfter, NoSnapshotAfter,
         NoneTellsAfter
<1>4. QED
  BY <1>1, <1>2, <1>3

LEMMA StepRenders ==
  ASSUME PredictionInv, StepRender
  PROVE  PredictionInv'
<1> USE DEF PredictionInv, PredictionTypes
<1>1. PICK x \in between(predictor.rendered, predictor.predicted) \cup {predictor.predicted} :
        predictor' = [predictor EXCEPT !.rendered = x, !.correcting = x # predictor.predicted]
  BY DEF StepRender
<1>2. predictor \in Predictor
  BY DEF ClientTypes
<1>3. x \in Int
  BY <1>2 DEF Predictor, between
<1>4. /\ predictor' \in Predictor /\ predictor'.predicted = predictor.predicted
      /\ predictor'.pending = predictor.pending /\ predictor'.lastInput = predictor.lastInput
      /\ predictor'.rendered = x /\ predictor'.correcting = (x # predictor.predicted)
  BY <1>1, <1>2, <1>3 DEF Predictor
<1>5. UNCHANGED <<own, other, inputs, wanted, missed, up, down, remotes, synced>>
  BY DEF StepRender
<1>6. PredictionTypes'
  BY <1>4, <1>5 DEF ServerTypes, WayTypes, ClientTypes
<1>7. RenderedAgrees'
  BY <1>4 DEF RenderedAgrees
<1>8. BufferInv' /\ NumbersInv' /\ AheadInv'
  BY <1>4, <1>5 DEF BufferInv, NumbersInv, AheadInv
<1>9. PoseInv' /\ AckInv' /\ RemoteInv'
  BY <1>4, <1>5, UpdatesKept
<1>10. QED
  BY <1>6, <1>7, <1>8, <1>9

\* The inputs in the buffer and the updates, while only Moves on their way or
\* the accepted number change.
LEMMA MovesOnly ==
  ASSUME PredictionInv,
         UNCHANGED <<other, wanted, missed, down, predictor, remotes, synced>>,
         own'.pos = own.pos, own'.processed = own.processed, own'.session = own.session,
         ServerTypes', up' \in Seq(Move), NumbersInv'
  PROVE  PredictionInv'
<1> USE DEF PredictionInv, PredictionTypes
<1>1. PredictionTypes' /\ RenderedAgrees' /\ BufferInv' /\ AheadInv'
  BY DEF WayTypes, ClientTypes, RenderedAgrees, BufferInv, AheadInv
<1>2. PoseInv' /\ AckInv' /\ RemoteInv'
  BY UpdatesKept
<1>3. QED
  BY <1>1, <1>2

LEMMA StepLegacyMove ==
  ASSUME PredictionConstants, PredictionInv, NEW d \in Int, LegacyMove(d)
  PROVE  PredictionInv'
<1>1. up' = <<Input(0, d)>> /\ UNCHANGED <<own, other, inputs, wanted, missed, down, predictor,
                                           remotes, synced>>
  BY DEF LegacyMove
<1>2. Input(0, d) \in Move /\ Input(0, d).seq = 0
  BY DEF Input, Move
<1> HIDE DEF Input
<1>3. up' \in Seq(Move) /\ Len(up') = 1 /\ up'[1].seq = 0
  BY <1>1, <1>2
<1>4. \A k \in 1..Len(up') : up'[k].seq = 0
  BY <1>3
<1>5. ServerTypes'
  BY <1>1 DEF PredictionInv, PredictionTypes, ServerTypes
<1>6. NumbersInv'
  <2>1. NumbersInv
    BY DEF PredictionInv
  <2>2. QED
    BY <1>1, <1>4, <2>1 DEF NumbersInv
<1>7. QED
  BY <1>1, <1>3, <1>5, <1>6, MovesOnly

\* The first Move leaves up.
LEMMA TailOfUp ==
  ASSUME up \in Seq(Move), up # <<>>, up' = Tail(up)
  PROVE  /\ Len(up) \in Nat /\ Len(up) > 0 /\ Head(up) = up[1] /\ up[1] \in Move
         /\ up' \in Seq(Move) /\ Len(up') = Len(up) - 1
         /\ \A k \in 1..Len(up') : k + 1 \in 1..Len(up) /\ up'[k] = up[k + 1]
<1>1. Len(up) \in Nat /\ Len(up) > 0
  BY LenProperties, EmptySeq
<1>2. up' \in Seq(Move) /\ Len(up') = Len(up) - 1 /\ \A k \in 1..Len(up') : up'[k] = up[k + 1]
  BY HeadTailProperties
<1>3. Head(up) = up[1] /\ up[1] \in Move
  <2>1. 1 \in 1..Len(up)
    BY <1>1
  <2>2. up[1] \in Move
    BY <2>1, ElementOfSeq
  <2>3. QED
    BY <2>2
<1>4. \A k \in 1..Len(up') : k + 1 \in 1..Len(up)
  BY <1>1, <1>2
<1>5. QED
  BY <1>1, <1>2, <1>3, <1>4

UpAscends ==
  \A j, k \in 1..Len(up) : j < k /\ up[j].seq # 0 /\ up[k].seq # 0 => up[j].seq < up[k].seq

\* What is left ascends.
LEMMA TailAscends ==
  ASSUME up \in Seq(Move), up # <<>>, up' = Tail(up), UpAscends
  PROVE  UpAscends'
<1>1. /\ up' \in Seq(Move) /\ Len(up') = Len(up) - 1 /\ Len(up) \in Nat
      /\ \A k \in 1..Len(up') : k + 1 \in 1..Len(up) /\ up'[k] = up[k + 1]
  BY TailOfUp
<1>2. ASSUME NEW j \in 1..Len(up'), NEW k \in 1..Len(up'), j < k, up'[j].seq # 0, up'[k].seq # 0
      PROVE  up'[j].seq < up'[k].seq
  <2>1. j + 1 < k + 1
    BY <1>1, <1>2
  <2>2. /\ j + 1 \in 1..Len(up) /\ up'[j] = up[j + 1]
        /\ k + 1 \in 1..Len(up) /\ up'[k] = up[k + 1]
    BY <1>1
  <2>3. up[j + 1].seq < up[k + 1].seq
    BY <1>2, <2>1, <2>2 DEF UpAscends
  <2>4. QED
    BY <2>2, <2>3
<1>3. QED
  BY <1>2 DEF UpAscends

LEMMA StepLoseMove ==
  ASSUME PredictionInv, LoseMove
  PROVE  PredictionInv'
<1>1. up # <<>> /\ up' = Tail(up) /\ UNCHANGED <<own, other, inputs, wanted, missed, down,
                                                 predictor, remotes, synced>>
  BY DEF LoseMove
<1>2. up \in Seq(Move)
  BY DEF PredictionInv, PredictionTypes, WayTypes
<1>3. /\ up' \in Seq(Move) /\ Len(up') = Len(up) - 1 /\ Len(up) \in Nat
      /\ \A k \in 1..Len(up') : k + 1 \in 1..Len(up) /\ up'[k] = up[k + 1]
  BY <1>1, <1>2, TailOfUp
<1>4. NumbersInv'
  <2>1. NumbersInv
    BY DEF PredictionInv
  <2>2. UpAscends
    BY <2>1 DEF NumbersInv, UpAscends
  <2>3. UpAscends'
    BY <1>1, <1>2, <2>2, TailAscends
  <2>4. \A k \in 1..Len(up') :
           up'[k].seq # 0 =>
             /\ own.accepted < up'[k].seq
             /\ \E j \in 1..Len(predictor.pending) : predictor.pending[j] = up'[k]
    BY <1>3, <2>1 DEF NumbersInv
  <2>5. QED
    BY <1>1, <2>1, <2>3, <2>4 DEF NumbersInv, UpAscends
<1>5. ServerTypes'
  BY <1>1 DEF PredictionInv, PredictionTypes, ServerTypes
<1>6. QED
  BY <1>1, <1>3, <1>4, <1>5, MovesOnly

LEMMA StepReceiveMove ==
  ASSUME PredictionInv, ReceiveMove
  PROVE  PredictionInv'
<1> DEFINE i == Head(up)
<1>1. /\ up # <<>> /\ up' = Tail(up)
      /\ UNCHANGED <<other, wanted, missed, down, predictor, remotes, synced>>
  BY DEF ReceiveMove
<1>2. /\ up \in Seq(Move) /\ inputs \in Seq(Move) /\ NumbersInv
      /\ own \in OwnPlayer
  BY DEF PredictionInv, PredictionTypes, WayTypes, ServerTypes
<1>3. /\ up' \in Seq(Move) /\ Len(up') = Len(up) - 1 /\ Len(up) \in Nat /\ Len(up) > 0
      /\ i = up[1] /\ i \in Move /\ 1 \in 1..Len(up)
      /\ \A k \in 1..Len(up') : k + 1 \in 1..Len(up) /\ up'[k] = up[k + 1]
  BY <1>1, <1>2, TailOfUp
<1> HIDE DEF i
<1>4. i.seq \in Nat
  BY <1>3 DEF Move
<1>5. UpAscends'
  <2>1. UpAscends
    BY <1>2 DEF NumbersInv, UpAscends
  <2>2. QED
    BY <1>1, <1>2, <2>1, TailAscends
<1>6. i.seq # 0 => /\ own.accepted < i.seq
                   /\ \E j \in 1..Len(predictor.pending) : predictor.pending[j] = i
  BY <1>2, <1>3 DEF NumbersInv
<1>7. i.seq <= predictor.lastInput
  <2>1. BufferInv /\ predictor.lastInput \in Nat
    BY DEF PredictionInv, PredictionTypes, ClientTypes, Predictor
  <2>2. CASE i.seq = 0
    BY <2>1, <2>2
  <2>3. CASE i.seq # 0
    BY <1>6, <2>1, <2>3 DEF BufferInv
  <2>4. QED
    BY <2>2, <2>3
<1>8. ASSUME NEW k \in 1..Len(up'), up'[k].seq # 0
      PROVE  /\ own.accepted < up'[k].seq
             /\ i.seq < up'[k].seq
             /\ \E j \in 1..Len(predictor.pending) : predictor.pending[j] = up'[k]
  <2>1. k + 1 \in 1..Len(up) /\ up'[k] = up[k + 1] /\ 1 < k + 1
    BY <1>3
  <2>2. own.accepted < up'[k].seq
        /\ \E j \in 1..Len(predictor.pending) : predictor.pending[j] = up'[k]
    BY <1>2, <1>8, <2>1 DEF NumbersInv
  <2>3. i.seq # 0 => i.seq < up'[k].seq
    BY <1>2, <1>3, <1>8, <2>1 DEF NumbersInv
  <2>4. i.seq = 0 => i.seq < up'[k].seq
    <3>1. up'[k].seq \in Nat
      BY <1>3, MoveFields
    <3>2. QED
      BY <1>8, <3>1
  <2>5. QED
    BY <2>2, <2>3, <2>4
<1>9. CASE inputs' = inputs /\ own' = own
  <2>1. ServerTypes'
    BY <1>1, <1>9 DEF PredictionInv, PredictionTypes, ServerTypes
  <2>2. NumbersInv'
    BY <1>1, <1>2, <1>5, <1>8, <1>9 DEF NumbersInv, UpAscends
  <2>3. QED
    BY <1>1, <1>3, <1>9, <2>1, <2>2, MovesOnly
<1>10. CASE /\ inputs' = Append(inputs, i)
            /\ own' = IF i.seq = 0 THEN own ELSE [own EXCEPT !.accepted = i.seq]
  <2>1. /\ inputs' \in Seq(Move) /\ Len(inputs') = Len(inputs) + 1 /\ Len(inputs) \in Nat
        /\ inputs'[Len(inputs) + 1] = i
        /\ \A k \in 1..Len(inputs) : inputs'[k] = inputs[k]
    BY <1>2, <1>3, <1>10, AppendProperties, LenProperties
  <2>2. /\ own' \in OwnPlayer
        /\ own'.pos = own.pos /\ own'.session = own.session /\ own'.processed = own.processed
        /\ own'.accepted = IF i.seq = 0 THEN own.accepted ELSE i.seq
    BY <1>2, <1>4, <1>10 DEF OwnPlayer
  <2>3. ServerTypes'
    BY <1>1, <2>1, <2>2 DEF PredictionInv, PredictionTypes, ServerTypes
  <2>4. own.processed <= own.accepted /\ own.accepted <= predictor.lastInput
        /\ own.processed \in Nat /\ own.accepted \in Nat /\ own'.accepted \in Nat
    BY <1>2, <2>2 DEF NumbersInv, OwnPlayer
  <2>5. own.accepted <= own'.accepted /\ own'.accepted <= predictor.lastInput
        /\ i.seq <= own'.accepted
    BY <1>4, <1>6, <1>7, <2>2, <2>4
  <2>6. ASSUME NEW k \in 1..Len(inputs')
        PROVE  /\ inputs'[k].seq <= own'.accepted
               /\ inputs'[k].seq # 0 =>
                    /\ own'.processed < inputs'[k].seq
                    /\ \E j \in 1..Len(predictor.pending) : predictor.pending[j] = inputs'[k]
    <3>1. CASE k \in 1..Len(inputs)
      <4>1. inputs'[k] = inputs[k] /\ inputs[k].seq \in Nat
        BY <1>2, <2>1, <3>1, MoveFields
      <4>2. inputs[k].seq <= own.accepted
        BY <1>2, <3>1 DEF NumbersInv
      <4>3. inputs[k].seq <= own'.accepted
        BY <2>4, <2>5, <4>1, <4>2
      <4>4. QED
        BY <1>2, <2>2, <3>1, <4>1, <4>3 DEF NumbersInv
    <3>2. CASE k = Len(inputs) + 1
      <4>1. inputs'[k] = i
        BY <2>1, <3>2
      <4>2. i.seq # 0 => own'.processed < i.seq
        BY <1>4, <1>6, <2>2, <2>4
      <4>3. QED
        BY <1>6, <2>5, <4>1, <4>2
    <3>3. QED
      BY <2>1, <3>1, <3>2
  <2>7. \A k \in 1..Len(up') :
          up'[k].seq # 0 =>
            /\ own'.accepted < up'[k].seq
            /\ \E j \in 1..Len(predictor.pending) : predictor.pending[j] = up'[k]
    BY <1>8, <2>2
  <2>8. NumbersInv'
    BY <1>1, <1>5, <2>2, <2>4, <2>5, <2>6, <2>7 DEF NumbersInv, UpAscends
  <2>9. QED
    BY <1>1, <1>3, <2>2, <2>3, <2>8, MovesOnly
<1>11. QED
  BY <1>9, <1>10 DEF ReceiveMove, i

LEMMA StepPredictMove ==
  ASSUME PredictionConstants, PredictionInv, NEW d \in Int, PredictMove(d)
  PROVE  PredictionInv'
<1> DEFINE i == Input(predictor.lastInput + 1, d)
           last == predictor.lastInput
           pending == predictor.pending
           len == Len(pending)
<1>1. /\ Len(predictor.pending) < MaxPredictions
      /\ predictor' = predict(predictor, i) /\ up' = Append(up, i)
      /\ UNCHANGED <<own, other, inputs, wanted, missed, down, remotes, synced>>
  BY DEF PredictMove, canPush
<1>2. predictor \in Predictor /\ up \in Seq(Move) /\ ServerTypes /\ down \in Seq(Sent)
  BY DEF PredictionInv, PredictionTypes, ClientTypes, WayTypes
<1>3. last \in Nat /\ pending \in Seq(Move) /\ predictor.predicted \in Int
  BY <1>2 DEF Predictor
<1>4. i \in Move /\ i.seq = last + 1 /\ i.delta = d
  BY <1>3 DEF Input, Move
<1>5. len \in Nat
  BY <1>3, LenProperties
<1>6. /\ Append(pending, i) \in Seq(Move) /\ Len(Append(pending, i)) = len + 1
      /\ Append(pending, i)[len + 1] = i
      /\ \A k \in 1..len : Append(pending, i)[k] = pending[k]
  BY <1>3, <1>4, AppendProperties
<1>7. /\ predictor' \in Predictor /\ predictor'.pending = Append(pending, i)
      /\ predictor'.predicted = predictor.predicted + d
      /\ predictor'.rendered = predictor.rendered + d
      /\ predictor'.correcting = predictor.correcting
      /\ predictor'.lastInput = last + 1
  <2> DEFINE a == predictor.predicted + d
             b == predictor.rendered + d
             more == Append(pending, i)
             next == last + 1
  <2> HIDE DEF i
  <2>1. a \in Int /\ b \in Int /\ more \in Seq(Move) /\ next \in Nat
    BY <1>2, <1>3, <1>6 DEF Predictor
  <2>2. predictor' = [predictor EXCEPT !.predicted = a, !.rendered = b, !.pending = more,
                                       !.lastInput = next]
    BY <1>1, <1>2, <1>4 DEF predict, Predictor
  <2> HIDE DEF a, b, more, next
  <2>3. /\ predictor' \in Predictor /\ predictor'.pending = more
        /\ predictor'.predicted = a /\ predictor'.rendered = b
        /\ predictor'.correcting = predictor.correcting /\ predictor'.lastInput = next
    BY <1>2, <2>1, <2>2 DEF Predictor
  <2>4. QED
    BY <2>3 DEF a, b, more, next
<1>8. total(predictor'.pending) = total(pending) + d /\ total(pending) \in Int
  BY <1>3, <1>4, <1>7, TotalOfAppend, TotalIsNumber
<1> DEFINE pending2 == predictor'.pending
<1>9. /\ pending2 \in Seq(Move) /\ Len(pending2) = len + 1 /\ pending2[len + 1] = i
      /\ \A k \in 1..len : pending2[k] = pending[k]
  BY <1>6, <1>7
<1>10. /\ up' \in Seq(Move) /\ Len(up') = Len(up) + 1 /\ Len(up) \in Nat
       /\ up'[Len(up) + 1] = i /\ \A k \in 1..Len(up) : up'[k] = up[k]
  <2> HIDE DEF i
  <2>1. QED
    BY <1>1, <1>2, <1>4, AppendProperties, LenProperties
<1>11. PredictionTypes'
  BY <1>1, <1>2, <1>7, <1>10
  DEF PredictionInv, PredictionTypes, ServerTypes, WayTypes, ClientTypes
<1>12. RenderedAgrees'
  BY <1>7 DEF PredictionInv, RenderedAgrees
<1>13. \A k \in 1..len : pending[k].seq \in Nat /\ pending[k].seq <= last
  BY <1>3, MoveFields DEF PredictionInv, BufferInv
<1>14. \A k \in 1..(len + 1) : k \in 1..len \/ k = len + 1
  BY <1>5
<1>15. \A j, k \in 1..len : j < k => pending[j].seq < pending[k].seq
  BY DEF PredictionInv, BufferInv
<1>16. Len(up) \in Nat /\ \A k \in 1..Len(up') : k \in 1..Len(up) \/ k = Len(up) + 1
  BY <1>10
<1>17. \A k \in 1..Len(up) : up[k].seq \in Nat /\ up[k].seq <= last
  <2>1. \A k \in 1..Len(up) : up[k].seq \in Nat
    BY <1>2, MoveFields
  <2>2. \A k \in 1..Len(up) : up[k].seq # 0 => \E j \in 1..len : pending[j] = up[k]
    BY DEF PredictionInv, NumbersInv
  <2> HIDE DEF pending, len, last
  <2>3. ASSUME NEW k \in 1..Len(up)
        PROVE  up[k].seq <= last
    <3>1. CASE up[k].seq = 0
      BY <1>3, <3>1
    <3>2. CASE up[k].seq # 0
      BY <1>13, <2>2, <3>2
    <3>3. QED
      BY <3>1, <3>2
  <2>4. QED
    BY <2>1, <2>3
<1>18. Len(pending2) <= MaxPredictions
  <2>1. MaxPredictions \in Nat /\ len < MaxPredictions
    BY <1>1 DEF PredictionConstants
  <2> HIDE DEF len, pending2
  <2>2. QED
    BY <1>5, <1>9, <2>1
<1>19. ASSUME NEW j \in 1..(len + 1), NEW k \in 1..(len + 1), j < k
       PROVE  pending2[j].seq < pending2[k].seq
  <2> HIDE DEF i, last, pending, len, pending2
  <2>1. j \in 1..len
    BY <1>5, <1>19
  <2>2. CASE k \in 1..len
    BY <1>9, <1>15, <1>19, <2>1, <2>2
  <2>3. CASE k = len + 1
    <3>1. pending[j].seq < last + 1
      BY <1>3, <1>13, <2>1
    <3>2. QED
      BY <1>4, <1>9, <2>1, <2>3, <3>1
  <2>4. QED
    BY <1>14, <2>2, <2>3
<1>20. \A k \in 1..(len + 1) : pending2[k].seq <= last + 1
  <2> HIDE DEF i, last, pending, len, pending2
  <2>1. \A k \in 1..len : pending[k].seq <= last + 1
    BY <1>3, <1>13
  <2>2. last + 1 <= last + 1
    BY <1>3
  <2>3. QED
    BY <1>4, <1>9, <1>14, <2>1, <2>2
<1>21. BufferInv'
  BY <1>7, <1>9, <1>18, <1>19, <1>20 DEF BufferInv
<1>22. \A m : (\E j \in 1..len : pending[j] = m) => (\E j \in 1..(len + 1) : pending2[j] = m)
  <2> HIDE DEF i, last, pending, len, pending2
  <2>1. \A k \in 1..len : k \in 1..(len + 1)
    BY <1>5
  <2>2. QED
    BY <1>9, <2>1
<1>23. len + 1 \in 1..(len + 1)
  BY <1>5
<1>24. NumbersInv'
  <2>1. own.processed <= own.accepted /\ own.accepted <= last /\ own.accepted \in Nat
    BY <1>2 DEF PredictionInv, NumbersInv, ServerTypes, OwnPlayer
  <2>2. /\ \A k \in 1..Len(inputs) :
             inputs[k].seq # 0 =>
               own.processed < inputs[k].seq /\ \E j \in 1..len : pending[j] = inputs[k]
        /\ \A k \in 1..Len(inputs) : inputs[k].seq <= own.accepted
        /\ \A k \in 1..Len(up) :
             up[k].seq # 0 => own.accepted < up[k].seq /\ \E j \in 1..len : pending[j] = up[k]
        /\ \A j, k \in 1..Len(up) :
             j < k /\ up[j].seq # 0 /\ up[k].seq # 0 => up[j].seq < up[k].seq
    BY DEF PredictionInv, NumbersInv
  <2> HIDE DEF i, last, pending, len, pending2
  <2>3. own.accepted <= last + 1 /\ own.accepted < last + 1
    BY <1>3, <2>1
  <2>4. ASSUME NEW k \in 1..Len(up'), up'[k].seq # 0
        PROVE  own.accepted < up'[k].seq /\ \E j \in 1..(len + 1) : pending2[j] = up'[k]
    <3>1. CASE k \in 1..Len(up)
      BY <1>10, <1>22, <2>2, <2>4, <3>1
    <3>2. CASE k = Len(up) + 1
      BY <1>4, <1>9, <1>10, <1>23, <2>3, <3>2
    <3>3. QED
      BY <1>16, <3>1, <3>2
  <2>5. ASSUME NEW j \in 1..Len(up'), NEW k \in 1..Len(up'), j < k, up'[j].seq # 0,
               up'[k].seq # 0
        PROVE  up'[j].seq < up'[k].seq
    <3>1. j \in 1..Len(up)
      BY <1>10, <2>5
    <3>2. CASE k \in 1..Len(up)
      BY <1>10, <2>2, <2>5, <3>1, <3>2
    <3>3. CASE k = Len(up) + 1
      <4>1. up[j].seq < last + 1
        BY <1>3, <1>17, <3>1
      <4>2. QED
        BY <1>4, <1>10, <3>1, <3>3, <4>1
    <3>4. QED
      BY <1>16, <3>2, <3>3
  <2>6. \A k \in 1..Len(inputs) :
          inputs[k].seq # 0 =>
            own.processed < inputs[k].seq /\ \E j \in 1..(len + 1) : pending2[j] = inputs[k]
    BY <1>22, <2>2
  <2>7. predictor'.pending = pending2 /\ Len(pending2) = len + 1 /\ predictor'.lastInput = last + 1
    BY <1>7, <1>9 DEF pending2
  <2>8. QED
    BY <1>1, <2>1, <2>2, <2>3, <2>4, <2>5, <2>6, <2>7 DEF NumbersInv
<1>25. AheadInv'
  <2>1. SUFFICES ASSUME own.session = 1
                 PROVE  /\ (last + 1) - (len + 1) <= own.processed
                        /\ \A k \in 1..(len + 1) :
                             pending2[k].seq = ((last + 1) - (len + 1)) + k
    BY <1>1, <1>7, <1>9 DEF AheadInv
  <2>2. last - len <= own.processed /\ \A k \in 1..len : pending[k].seq = (last - len) + k
    BY <2>1 DEF PredictionInv, AheadInv
  <2> HIDE DEF i, last, pending, len, pending2
  <2>3. (last + 1) - (len + 1) = last - len /\ (last - len) + (len + 1) = last + 1
    BY <1>3, <1>5
  <2>4. QED
    BY <1>4, <1>9, <1>14, <2>2, <2>3
<1>26. own.pos \in Int
  BY <1>2 DEF ServerTypes, OwnPlayer
<1>27. PoseInv'
  <2>1. predictor.predicted = own.pos + total(pending) =>
          predictor'.predicted = own.pos + total(pending2)
    <3> DEFINE a == predictor.predicted
               b == predictor'.predicted
               s == total(pending)
               t == total(pending2)
    <3>1. a \in Int /\ s \in Int /\ b = a + d /\ t = s + d
      BY <1>3, <1>7, <1>8
    <3> HIDE DEF a, b, s, t
    <3>2. a = own.pos + s => b = own.pos + t
      BY <1>26, <3>1
    <3>3. QED
      BY <3>2 DEF a, b, s, t
  <2>2. PoseInv
    BY DEF PredictionInv
  <2>3. QED
    BY <1>1, <2>1, <2>2 DEF PoseInv, LatestPose, KnownPose, HasPose, WholeAfter, NoPoseAfter
<1>28. AckInv'
  <2>1. AckInv
    BY DEF PredictionInv
  <2>2. own.processed < last + 1
    <3>1. own.processed <= own.accepted /\ own.accepted <= last /\ own.accepted \in Nat
          /\ own.processed \in Nat
      BY <1>2 DEF PredictionInv, NumbersInv, ServerTypes, OwnPlayer
    <3> HIDE DEF last
    <3>2. QED
      BY <1>3, <3>1
  <2>3. (\A j \in 1..len : pending[j].seq > own.processed) =>
          \A j \in 1..Len(pending2) : pending2[j].seq > own.processed
    <3> HIDE DEF i, last, pending, len, pending2
    <3>1. i.seq > own.processed
      BY <1>4, <2>2
    <3>2. QED
      BY <1>9, <1>14, <3>1
  <2>4. QED
    BY <1>1, <2>1, <2>3
    DEF AckInv, AcksProcessed, LatestAck, KnownAck, AcksAll, AckedFrom, PendingBeyond,
        IsSnapshot, HasPose, WholeAfter
<1>29. RemoteInv'
  BY <1>1
  DEF PredictionInv, RemoteInv, LatestRemote, LatestPlayers, KnownPlayer, KnownRemote,
      IsSnapshot, TellsOther, WholeAfter, NoSnapshotAfter,
         NoneTellsAfter
<1>30. QED
  BY <1>11, <1>12, <1>21, <1>24, <1>25, <1>27, <1>28, <1>29 DEF PredictionInv

\* After a reconnect nothing is under way and a Snapshot is needed.
LEMMA StepReconnect ==
  ASSUME PredictionConstants, PredictionInv, NEW resets \in BOOLEAN, Reconnect(resets)
  PROVE  PredictionInv'
<1>1. /\ own' = [own EXCEPT !.session = @ + 1, !.accepted = 0, !.processed = 0]
      /\ predictor' = NewPredictor \/ predictor' = predictor
      /\ inputs' = <<>> /\ up' = <<>> /\ down' = <<>>
      /\ synced' = FALSE /\ wanted' = TRUE /\ missed' = FALSE
      /\ UNCHANGED <<other, remotes>>
  BY DEF Reconnect
<1>2. own \in OwnPlayer /\ other \in OtherPlayer /\ predictor \in Predictor
  BY DEF PredictionInv, PredictionTypes, ServerTypes, ClientTypes
<1>3. own' \in OwnPlayer /\ own'.session # 1 /\ own'.accepted = 0 /\ own'.processed = 0
  <2> DEFINE s == own.session + 1
  <2>1. s \in Nat \ {0} /\ s # 1
    BY <1>2 DEF OwnPlayer
  <2>2. own' = [own EXCEPT !.session = s, !.accepted = 0, !.processed = 0]
    BY <1>1
  <2> HIDE DEF s
  <2>3. QED
    BY <1>2, <2>1, <2>2 DEF OwnPlayer
<1>4. /\ <<>> \in Seq(Move) /\ <<>> \in Seq(Sent)
      /\ Len(inputs') = 0 /\ Len(up') = 0 /\ Len(down') = 0
  BY <1>1, EmptySeq
<1>5. /\ NewPredictor \in Predictor /\ Len(NewPredictor.pending) = 0 /\ NewPredictor.lastInput = 0
      /\ NewPredictor.rendered = NewPredictor.predicted
  BY <1>4 DEF NewPredictor, Predictor
<1>6. predictor' \in Predictor /\ predictor'.lastInput \in Nat
  BY <1>1, <1>2, <1>5 DEF Predictor
<1>7. PredictionTypes'
  BY <1>1, <1>2, <1>3, <1>4, <1>6 DEF PredictionTypes, ServerTypes, WayTypes, ClientTypes
<1>8. RenderedAgrees'
  BY <1>1, <1>5 DEF PredictionInv, RenderedAgrees
<1>9. BufferInv'
  <2>1. CASE predictor' = NewPredictor
    <3>1. Len(predictor'.pending) = 0 /\ 0 <= MaxPredictions
      BY <1>5, <2>1 DEF PredictionConstants
    <3>2. QED
      BY <3>1 DEF BufferInv
  <2>2. CASE predictor' = predictor
    BY <2>2 DEF PredictionInv, BufferInv
  <2>3. QED
    BY <1>1, <2>1, <2>2
<1>10. NumbersInv'
  BY <1>3, <1>4, <1>6 DEF NumbersInv
<1>11. AheadInv'
  BY <1>3 DEF AheadInv
<1>12. PoseInv' /\ AckInv' /\ RemoteInv'
  BY <1>1, <1>4
  DEF PoseInv, LatestPose, KnownPose, AckInv, AcksProcessed, LatestAck, KnownAck, RemoteInv
<1>13. QED
  BY <1>7, <1>8, <1>9, <1>10, <1>11, <1>12 DEF PredictionInv

-----------------------------------------------------------------------------
(* The server *)

\* The buffer and the Moves, while the other player or the updates change.
LEMMA BufferKept ==
  ASSUME PredictionInv, UNCHANGED <<own, inputs, up, predictor, synced>>,
         other' \in OtherPlayer, wanted' \in BOOLEAN, missed' \in BOOLEAN, down' \in Seq(Sent),
         PoseInv', AckInv', RemoteInv'
  PROVE  PredictionInv'
<1>1. PredictionTypes'
  BY DEF PredictionInv, PredictionTypes, ServerTypes, WayTypes, ClientTypes
<1>2. RenderedAgrees' /\ BufferInv' /\ NumbersInv' /\ AheadInv'
  BY DEF PredictionInv, RenderedAgrees, BufferInv, NumbersInv, AheadInv
<1>3. QED
  BY <1>1, <1>2 DEF PredictionInv

LEMMA StepLoseUpdate ==
  ASSUME PredictionInv, LoseUpdate
  PROVE  PredictionInv'
<1>1. /\ down # <<>> /\ down' = Front(down) /\ missed' = TRUE
      /\ UNCHANGED <<own, other, inputs, wanted, up, predictor, remotes, synced>>
  BY DEF LoseUpdate
<1>2. down \in Seq(Sent) /\ other \in OtherPlayer /\ wanted \in BOOLEAN
  BY DEF PredictionInv, PredictionTypes, ServerTypes, WayTypes
<1> DEFINE len == Len(down)
<1>3. len \in Nat /\ len > 0
  BY <1>1, <1>2, LenProperties, EmptySeq
<1>4. \A k \in 1..(len - 1) : down[k] \in Sent /\ k \in 1..len
  <2>1. \A k \in 1..(len - 1) : k \in 1..Len(down)
    BY <1>3
  <2>2. QED
    BY <1>2, <2>1, ElementOfSeq
<1>5. down' = SubSeq(down, 1, len - 1)
  BY <1>1 DEF Front
<1> HIDE DEF len
<1>6. /\ down' \in Seq(Sent) /\ Len(down') = IF 1 <= len - 1 THEN (len - 1) - 1 + 1 ELSE 0
      /\ \A k \in 1..((len - 1) - 1 + 1) : down'[k] = down[1 + k - 1]
  <2>1. 1 \in Int /\ len - 1 \in Int
    BY <1>3
  <2>2. QED
    BY <1>4, <1>5, <2>1, SubSeqProperties
<1>7. Len(down') = len - 1 /\ \A k \in 1..(len - 1) : down'[k] = down[k]
  <2>1. (len - 1) - 1 + 1 = len - 1 /\ \A k \in 1..(len - 1) : 1 + k - 1 = k
    BY <1>3
  <2>2. Len(down') = len - 1
    BY <1>3, <1>6
  <2>3. ASSUME NEW k \in 1..(len - 1)
        PROVE  down'[k] = down[k]
    <3>1. down'[k] = down[1 + k - 1]
      BY <1>6, <2>1
    <3>2. 1 + k - 1 = k
      BY <2>1
    <3>3. QED
      BY ONLY <3>1, <3>2, Zenon
  <2>4. QED
    BY <2>2, <2>3
<1>8. PoseInv' /\ RemoteInv'
  BY <1>1
  DEF PoseInv, LatestPose, KnownPose, RemoteInv, LatestRemote, LatestPlayers, KnownPlayer,
      KnownRemote, WholeAfter
<1>9. AckInv'
  <2>1. \A k \in 1..len : HasPose(k) => down[k].update.ack <= own.processed
    BY DEF PredictionInv, AckInv, AcksProcessed, len
  <2>2. \A k \in 1..Len(down') : HasPose(k)' => down'[k].update.ack <= own'.processed
    BY <1>1, <1>4, <1>7, <2>1 DEF HasPose
  <2>3. QED
    BY <1>1, <2>2 DEF AckInv, AcksProcessed, LatestAck, KnownAck, WholeAfter
<1>10. QED
  BY <1>1, <1>2, <1>6, <1>8, <1>9, BufferKept

LEMMA StepOther ==
  ASSUME PredictionInv, OtherLogin \/ OtherLogout
  PROVE  PredictionInv'
<1>1. UNCHANGED <<own, inputs, missed, up, down, predictor, remotes, synced>>
  BY DEF OtherLogin, OtherLogout
<1>2. other \in OtherPlayer /\ wanted \in BOOLEAN /\ missed \in BOOLEAN /\ down \in Seq(Sent)
  BY DEF PredictionInv, PredictionTypes, ServerTypes, WayTypes
<1>3. other' \in OtherPlayer /\ wanted' \in BOOLEAN /\ (wanted' \/ other'.session = 0)
  <2> DEFINE s == 101 + other.sessions
             n == other.sessions + 1
  <2>1. s \in Nat /\ n \in Nat
    BY <1>2 DEF OtherPlayer
  <2>2. \/ other' = [other EXCEPT !.session = s, !.sessions = n] /\ wanted' = TRUE
        \/ other' = [other EXCEPT !.session = 0] /\ wanted' = wanted
    BY DEF OtherLogin, OtherLogout
  <2> HIDE DEF s, n
  <2>3. other' \in OtherPlayer /\ (wanted' = TRUE \/ other'.session = 0)
    <3>1. [other EXCEPT !.session = s, !.sessions = n] \in OtherPlayer
      BY <1>2, <2>1 DEF OtherPlayer
    <3>2. [other EXCEPT !.session = 0] \in OtherPlayer /\ [other EXCEPT !.session = 0].session = 0
      BY <1>2 DEF OtherPlayer
    <3>3. QED
      BY <2>2, <3>1, <3>2, Zenon
  <2>4. wanted' \in BOOLEAN
    BY <1>2, <2>2
  <2>5. QED
    BY <2>3, <2>4, Zenon
<1>4. RemoteInv'
  BY <1>3 DEF RemoteInv
<1>5. PoseInv' /\ AckInv'
  BY <1>1
  DEF PredictionInv, PoseInv, LatestPose, KnownPose, AckInv, AcksProcessed, LatestAck,
      KnownAck, AcksAll, AckedFrom, PendingBeyond, IsSnapshot, HasPose,
      WholeAfter, NoPoseAfter
<1>6. QED
  BY <1>1, <1>2, <1>3, <1>4, <1>5, BufferKept

-----------------------------------------------------------------------------
(* The client receives an update *)

LEMMA SentFields ==
  ASSUME NEW s \in Sent
  PROVE  /\ s.gap \in BOOLEAN /\ s.update.kind \in {"own", "other", "snapshot"}
         /\ s.update.session \in Nat /\ s.update.pos \in Int /\ s.update.ack \in Nat
<1>1. s.gap \in BOOLEAN /\ s.update \in EventUpdate \cup SnapshotUpdate
  BY DEF Sent
<1>2. QED
  BY <1>1 DEF EventUpdate, SnapshotUpdate

\* The first update leaves: the others move up by one.
LEMMA DownShifts ==
  ASSUME down \in Seq(Sent), down # <<>>, down' = Tail(down)
  PROVE  /\ Len(down) \in Nat /\ Len(down) > 0 /\ Head(down) = down[1] /\ down[1] \in Sent
         /\ 1 \in 1..Len(down)
         /\ down' \in Seq(Sent) /\ Len(down') = Len(down) - 1 /\ Len(down') \in Nat
         /\ \A k \in 1..Len(down') : k + 1 \in 1..Len(down) /\ down'[k] = down[k + 1]
<1>1. Len(down) \in Nat /\ Len(down) > 0
  BY LenProperties, EmptySeq
<1>2. down' \in Seq(Sent) /\ Len(down') = Len(down) - 1
      /\ \A k \in 1..Len(down') : down'[k] = down[k + 1]
  BY HeadTailProperties
<1>3. Head(down) = down[1] /\ down[1] \in Sent /\ 1 \in 1..Len(down)
  <2>1. 1 \in 1..Len(down)
    BY <1>1
  <2>2. down[1] \in Sent
    BY <2>1, ElementOfSeq
  <2>3. QED
    BY <2>1, <2>2
<1>4. \A k \in 1..Len(down') : k + 1 \in 1..Len(down)
  BY <1>1, <1>2
<1>5. QED
  BY <1>1, <1>2, <1>3, <1>4

LEMMA AfterShifts ==
  ASSUME down \in Seq(Sent), down # <<>>, down' = Tail(down), UNCHANGED <<missed, own, other>>,
         NEW k \in 0..Len(down')
  PROVE  /\ WholeAfter(k)' <=> WholeAfter(k + 1)
         /\ NoPoseAfter(k)' <=> NoPoseAfter(k + 1)
         /\ NoSnapshotAfter(k)' <=> NoSnapshotAfter(k + 1)
         /\ NoneTellsAfter(k)' <=> NoneTellsAfter(k + 1)
         /\ AckedFrom(k + 1)' <=> AckedFrom(k + 2)
<1> DEFINE len == Len(down)
           left == Len(down')
<1>1. /\ len \in Nat /\ left = len - 1 /\ left \in Nat
      /\ \A l \in 1..left : down'[l] = down[l + 1]
  BY DownShifts
<1>2. k \in Nat
  OBVIOUS
<1> HIDE DEF len, left
<1>3. ASSUME NEW l \in (k + 1)..left
      PROVE  l + 1 \in (k + 2)..len /\ down'[l] = down[l + 1]
  <2>1. l + 1 \in (k + 2)..len /\ l \in 1..left
    BY <1>1, <1>2
  <2>2. QED
    BY <1>1, <2>1
<1>4. ASSUME NEW l \in (k + 2)..len
      PROVE  l - 1 \in (k + 1)..left /\ down'[l - 1] = down[l]
  <2>1. l - 1 \in (k + 1)..left /\ l - 1 \in 1..left /\ (l - 1) + 1 = l
    BY <1>1, <1>2
  <2>2. down'[l - 1] = down[(l - 1) + 1]
    BY <1>1, <2>1
  <2>3. QED
    BY <2>1, <2>2
<1>5. ((k + 1) + 1)..len = (k + 2)..len
  BY <1>1, <1>2
<1>6. WholeAfter(k)' <=> WholeAfter(k + 1)
  BY <1>3, <1>4, <1>5 DEF WholeAfter, len, left
<1>7. NoPoseAfter(k)' <=> NoPoseAfter(k + 1)
  <2>1. \A l \in (k + 1)..left : l + 1 \in (k + 2)..len /\ (HasPose(l)' <=> HasPose(l + 1))
    BY <1>3 DEF HasPose
  <2>2. \A l \in (k + 2)..len : l - 1 \in (k + 1)..left /\ (HasPose(l - 1)' <=> HasPose(l))
    BY <1>4 DEF HasPose
  <2>3. QED
    BY <1>5, <2>1, <2>2 DEF NoPoseAfter, len, left
<1>8. NoSnapshotAfter(k)' <=> NoSnapshotAfter(k + 1)
  <2>1. \A l \in (k + 1)..left : l + 1 \in (k + 2)..len /\ (IsSnapshot(l)' <=> IsSnapshot(l + 1))
    BY <1>3 DEF IsSnapshot
  <2>2. \A l \in (k + 2)..len : l - 1 \in (k + 1)..left /\ (IsSnapshot(l - 1)' <=> IsSnapshot(l))
    BY <1>4 DEF IsSnapshot
  <2>3. QED
    BY <1>5, <2>1, <2>2 DEF NoSnapshotAfter, len, left
<1>9. NoneTellsAfter(k)' <=> NoneTellsAfter(k + 1)
  <2>1. \A l \in (k + 1)..left : l + 1 \in (k + 2)..len /\ (TellsOther(l)' <=> TellsOther(l + 1))
    BY <1>3 DEF TellsOther, IsSnapshot
  <2>2. \A l \in (k + 2)..len : l - 1 \in (k + 1)..left /\ (TellsOther(l - 1)' <=> TellsOther(l))
    BY <1>4 DEF TellsOther, IsSnapshot
  <2>3. QED
    BY <1>5, <2>1, <2>2 DEF NoneTellsAfter, len, left
<1>10. AckedFrom(k + 1)' <=> AckedFrom(k + 2)
  <2>1. \A l \in (k + 1)..left : l + 1 \in (k + 2)..len /\ (AcksAll(l)' <=> AcksAll(l + 1))
    BY <1>3 DEF AcksAll, HasPose
  <2>2. \A l \in (k + 2)..len : l - 1 \in (k + 1)..left /\ (AcksAll(l - 1)' <=> AcksAll(l))
    BY <1>4 DEF AcksAll, HasPose
  <2>3. QED
    BY <1>5, <2>1, <2>2 DEF AckedFrom, len, left
<1>11. QED
  BY <1>6, <1>7, <1>8, <1>9, <1>10

\* What holds of all updates holds of the first and of those after it.
LEMMA AfterFirst ==
  ASSUME Len(down) \in Nat, Len(down) > 0
  PROVE  /\ WholeAfter(0) <=> ~down[1].gap /\ WholeAfter(1)
         /\ NoPoseAfter(0) <=> ~HasPose(1) /\ NoPoseAfter(1)
         /\ NoSnapshotAfter(0) <=> ~IsSnapshot(1) /\ NoSnapshotAfter(1)
         /\ NoneTellsAfter(0) <=> ~TellsOther(1) /\ NoneTellsAfter(1)
         /\ AckedFrom(1) <=> AcksAll(1) \/ AckedFrom(2)
<1> DEFINE len == Len(down)
<1> HIDE DEF len
<1>1. \A l \in 1..len : l = 1 \/ l \in 2..len
  BY DEF len
<1>2. 1 \in 1..len /\ \A l \in 2..len : l \in 1..len
  BY DEF len
<1>3. (0 + 1)..len = 1..len /\ (1 + 1)..len = 2..len
  BY DEF len
<1>4. WholeAfter(0) <=> ~down[1].gap /\ WholeAfter(1)
  BY <1>1, <1>2, <1>3 DEF WholeAfter, len
<1>5. NoPoseAfter(0) <=> ~HasPose(1) /\ NoPoseAfter(1)
  BY <1>1, <1>2, <1>3 DEF NoPoseAfter, len
<1>6. NoSnapshotAfter(0) <=> ~IsSnapshot(1) /\ NoSnapshotAfter(1)
  BY <1>1, <1>2, <1>3 DEF NoSnapshotAfter, len
<1>7. NoneTellsAfter(0) <=> ~TellsOther(1) /\ NoneTellsAfter(1)
  BY <1>1, <1>2, <1>3 DEF NoneTellsAfter, len
<1>8. AckedFrom(1) <=> AcksAll(1) \/ AckedFrom(2)
  BY <1>1, <1>2, <1>3 DEF AckedFrom, len
<1>9. QED
  BY <1>4, <1>5, <1>6, <1>7, <1>8

\* The buffer after an ack that is not ahead of the session.
LEMMA BufferCorrected ==
  ASSUME PredictionConstants, PredictionInv, UNCHANGED <<own, inputs, up>>, NEW x \in Int, NEW q \in Nat,
         q <= own.processed, Corrected(predictor, predictor', x, q)
  PROVE  /\ predictor' \in Predictor
         /\ RenderedAgrees' /\ BufferInv' /\ NumbersInv' /\ AheadInv'
         /\ predictor'.predicted = x + total(predictor'.pending)
         /\ PendingBeyond \/ q >= own.processed => PendingBeyond'
<1> DEFINE pending == predictor.pending
           rest == predictor'.pending
           last == predictor.lastInput
           len == Len(pending)
           left == Len(rest)
<1>1. /\ predictor' \in Predictor /\ predictor'.lastInput = last
      /\ predictor'.predicted = x + total(rest)
      /\ predictor'.correcting \/ predictor'.rendered = predictor'.predicted
  BY DEF Corrected
<1>2. PICK n : Leaves(pending, rest, q, n)
  BY DEF Corrected
<1>3. predictor \in Predictor /\ own \in OwnPlayer /\ inputs \in Seq(Move) /\ up \in Seq(Move)
  BY DEF PredictionInv, PredictionTypes, ServerTypes, ClientTypes, WayTypes
<1>4. pending \in Seq(Move) /\ last \in Nat /\ own.processed \in Nat /\ own.accepted \in Nat
  BY <1>3 DEF Predictor, OwnPlayer
<1>5. \A j, k \in 1..len : j < k => pending[j].seq < pending[k].seq
  BY DEF PredictionInv, BufferInv
<1>6. /\ \A k \in 1..left : \E j \in 1..len : pending[j] = rest[k]
      /\ \A k \in 1..left : rest[k].seq > q
      /\ \A j, k \in 1..left : j < k => rest[j].seq < rest[k].seq
      /\ \A j \in 1..len : pending[j].seq > q => \E k \in 1..left : rest[k] = pending[j]
  <2> HIDE DEF pending, rest
  <2>1. QED
    BY <1>2, <1>4, <1>5, LeftInBuffer
<1>7. /\ n \in 0..len /\ left = len - n /\ \A k \in 1..n : pending[k].seq <= q
      /\ \A k \in 1..left : rest[k] = pending[n + k]
  BY <1>2 DEF Leaves
<1>8. len \in Nat
  BY <1>4, LenProperties
<1>9. RenderedAgrees'
  BY <1>1 DEF RenderedAgrees
<1>10. BufferInv'
  <2>1. len <= MaxPredictions /\ \A k \in 1..len : pending[k].seq <= last
    BY DEF PredictionInv, BufferInv
  <2> HIDE DEF pending, rest, last, len, left
  <2>2. left <= len
    BY <1>7, <1>8
  <2>3. \A k \in 1..left : rest[k].seq <= last
    BY <1>6, <2>1
  <2>4. Len(predictor'.pending) <= MaxPredictions
    <3>1. left <= MaxPredictions
      BY <1>7, <1>8, <2>1, <2>2 DEF PredictionConstants
    <3>2. QED
      BY <3>1 DEF left, rest
  <2>5. QED
    BY <1>1, <1>6, <2>3, <2>4 DEF BufferInv, left, rest, last
<1>11. ASSUME NEW s, \A k \in 1..Len(s) : s[k].seq \in Nat,
              \A k \in 1..Len(s) :
                s[k].seq # 0 => own.processed < s[k].seq /\ \E j \in 1..len : pending[j] = s[k]
       PROVE  \A k \in 1..Len(s) : s[k].seq # 0 => \E j \in 1..left : rest[j] = s[k]
  <2> HIDE DEF pending, rest, last, len, left
  <2>1. SUFFICES ASSUME NEW k \in 1..Len(s), s[k].seq # 0
                 PROVE  \E j \in 1..left : rest[j] = s[k]
    OBVIOUS
  <2>2. PICK j \in 1..len : pending[j] = s[k]
    BY <1>11, <2>1
  <2>3. own.processed < s[k].seq /\ s[k].seq \in Nat
    BY <1>11, <2>1
  <2>4. pending[j].seq > q
    BY <1>4, <2>2, <2>3
  <2>5. QED
    BY <1>6, <2>2, <2>4
<1>12. NumbersInv'
  <2>1. NumbersInv
    BY DEF PredictionInv
  <2>2. \A k \in 1..Len(inputs) : inputs[k].seq # 0 => \E j \in 1..left : rest[j] = inputs[k]
    <3>1. \A k \in 1..Len(inputs) : inputs[k].seq \in Nat
      BY <1>3, MoveFields
    <3>2. \A k \in 1..Len(inputs) : inputs[k].seq # 0 =>
            own.processed < inputs[k].seq /\ \E j \in 1..len : pending[j] = inputs[k]
      BY <2>1 DEF NumbersInv
    <3> HIDE DEF pending, rest, last, len, left
    <3>3. QED
      BY <1>11, <3>1, <3>2
  <2>3. \A k \in 1..Len(up) : up[k].seq # 0 => \E j \in 1..left : rest[j] = up[k]
    <3>1. \A k \in 1..Len(up) : up[k].seq \in Nat
      BY <1>3, MoveFields
    <3>2. \A k \in 1..Len(up) : up[k].seq # 0 =>
            own.accepted < up[k].seq /\ \E j \in 1..len : pending[j] = up[k]
      BY <2>1 DEF NumbersInv
    <3>3. own.processed <= own.accepted
      BY <2>1 DEF NumbersInv
    <3> HIDE DEF pending, rest, last, len, left
    <3>4. \A k \in 1..Len(up) : up[k].seq # 0 => own.processed < up[k].seq
      BY <1>4, <3>1, <3>2, <3>3
    <3>5. QED
      BY <1>11, <3>1, <3>2, <3>4
  <2>4. QED
    BY <1>1, <2>1, <2>2, <2>3 DEF NumbersInv
<1>13. AheadInv'
  <2>1. SUFFICES ASSUME own.session = 1
                 PROVE  /\ last - left <= own.processed
                        /\ \A k \in 1..left : rest[k].seq = (last - left) + k
    BY <1>1 DEF AheadInv
  <2>2. last - len <= own.processed /\ \A k \in 1..len : pending[k].seq = (last - len) + k
    BY <2>1 DEF PredictionInv, AheadInv
  <2> HIDE DEF pending, rest, last, len, left
  <2>3. last - left = (last - len) + n
    BY <1>4, <1>7, <1>8
  <2>4. last - left <= own.processed
    <3>1. CASE n = 0
      BY <1>4, <1>8, <2>2, <2>3, <3>1
    <3>2. CASE n # 0
      <4>1. n \in 1..n /\ n \in 1..len
        BY <1>7, <1>8, <3>2
      <4>2. pending[n].seq <= q /\ pending[n].seq = (last - len) + n
        BY <1>7, <2>2, <4>1
      <4>3. (last - len) + n <= q /\ (last - len) + n \in Int
        BY <1>4, <1>7, <1>8, <4>2
      <4>4. QED
        BY <1>4, <2>3, <4>3
    <3>3. QED
      BY <3>1, <3>2
  <2>5. ASSUME NEW k \in 1..left
        PROVE  rest[k].seq = (last - left) + k
    <3>1. n + k \in 1..len /\ rest[k] = pending[n + k]
      BY <1>7, <1>8
    <3>2. pending[n + k].seq = (last - len) + (n + k)
      BY <2>2, <3>1
    <3>3. (last - len) + (n + k) = (last - left) + k
      BY <1>4, <1>7, <1>8
    <3>4. QED
      BY <3>1, <3>2, <3>3
  <2>6. QED
    BY <2>4, <2>5
<1>14. ASSUME PendingBeyond \/ q >= own.processed
       PROVE  PendingBeyond'
  <2>1. rest \in Seq(Move)
    BY <1>2 DEF Leaves
  <2>2. \A k \in 1..left : rest[k].seq \in Nat
    BY <2>1, MoveFields
  <2>3. PendingBeyond => \A j \in 1..len : pending[j].seq > own.processed
    BY DEF PendingBeyond
  <2> HIDE DEF pending, rest, last, len, left
  <2>4. \A k \in 1..left : rest[k].seq > own.processed
    <3>1. CASE PendingBeyond
      BY <1>6, <2>3, <3>1
    <3>2. CASE q >= own.processed
      BY <1>4, <1>6, <2>2, <3>2
    <3>3. QED
      BY <1>14, <3>1, <3>2
  <2>5. QED
    BY <2>4 DEF PendingBeyond, left, rest
<1>15. QED
  BY <1>1, <1>9, <1>10, <1>12, <1>13, <1>14

\* What holds of the updates on their way holds of those that are left.
LEMMA LatestShift ==
  ASSUME down \in Seq(Sent), down # <<>>, down' = Tail(down), UNCHANGED <<missed, own, other>>
  PROVE  /\ LatestPose => LatestPose'
         /\ AcksProcessed => AcksProcessed'
         /\ LatestAck => LatestAck'
         /\ LatestRemote => LatestRemote'
         /\ LatestPlayers => LatestPlayers'
<1>1. Len(down') \in Nat /\ \A k \in 1..Len(down') : k + 1 \in 1..Len(down) /\ down'[k] = down[k + 1]
  BY DownShifts
<1>2. \A k \in 1..Len(down') : k \in 0..Len(down')
  BY <1>1
<1>3. ASSUME NEW k \in 1..Len(down')
      PROVE  /\ HasPose(k)' <=> HasPose(k + 1)
             /\ IsSnapshot(k)' <=> IsSnapshot(k + 1)
             /\ TellsOther(k)' <=> TellsOther(k + 1)
             /\ WholeAfter(k)' <=> WholeAfter(k + 1)
             /\ NoPoseAfter(k)' <=> NoPoseAfter(k + 1)
             /\ NoSnapshotAfter(k)' <=> NoSnapshotAfter(k + 1)
             /\ NoneTellsAfter(k)' <=> NoneTellsAfter(k + 1)
             /\ AckedFrom(k)' <=> AckedFrom(k + 1)
  <2>1. k \in 0..Len(down') /\ k - 1 \in 0..Len(down') /\ (k - 1) + 1 = k /\ (k - 1) + 2 = k + 1
    BY <1>1
  <2>2. AckedFrom((k - 1) + 1)' <=> AckedFrom((k - 1) + 2)
    BY <2>1, AfterShifts
  <2>3. AckedFrom(k)' <=> AckedFrom(k + 1)
    BY <2>1, <2>2
  <2>4. /\ WholeAfter(k)' <=> WholeAfter(k + 1)
        /\ NoPoseAfter(k)' <=> NoPoseAfter(k + 1)
        /\ NoSnapshotAfter(k)' <=> NoSnapshotAfter(k + 1)
        /\ NoneTellsAfter(k)' <=> NoneTellsAfter(k + 1)
    BY <2>1, AfterShifts
  <2>5. /\ HasPose(k)' <=> HasPose(k + 1)
        /\ IsSnapshot(k)' <=> IsSnapshot(k + 1)
        /\ TellsOther(k)' <=> TellsOther(k + 1)
    BY <1>1 DEF HasPose, IsSnapshot, TellsOther
  <2>6. QED
    BY <2>3, <2>4, <2>5
<1>4. LatestPose => LatestPose'
  BY <1>1, <1>3 DEF LatestPose
<1>5. AcksProcessed => AcksProcessed'
  BY <1>1, <1>3 DEF AcksProcessed
<1>6. LatestAck => LatestAck'
  BY <1>1, <1>3 DEF LatestAck
<1>7. LatestRemote => LatestRemote'
  BY <1>1, <1>3 DEF LatestRemote
<1>8. LatestPlayers => LatestPlayers'
  BY <1>1, <1>3 DEF LatestPlayers
<1>9. QED
  BY <1>4, <1>5, <1>6, <1>7, <1>8

\* What a step that receives an update does to the updates that are left.
LEMMA FirstReceived ==
  ASSUME PredictionInv, down # <<>>, down' = Tail(down), UNCHANGED <<missed, own, other>>
  PROVE  /\ 1 \in 1..Len(down) /\ Head(down) = down[1] /\ down[1] \in Sent /\ down' \in Seq(Sent)
         /\ LatestPose' /\ AcksProcessed' /\ LatestAck'
         /\ ~wanted /\ other.session # 0 => LatestRemote' /\ LatestPlayers'
         /\ WholeAfter(0)' <=> WholeAfter(1)
         /\ NoPoseAfter(0)' <=> NoPoseAfter(1)
         /\ NoSnapshotAfter(0)' <=> NoSnapshotAfter(1)
         /\ NoneTellsAfter(0)' <=> NoneTellsAfter(1)
         /\ AckedFrom(1)' <=> AckedFrom(2)
         /\ WholeAfter(0) <=> ~down[1].gap /\ WholeAfter(1)
         /\ NoPoseAfter(0) <=> ~HasPose(1) /\ NoPoseAfter(1)
         /\ NoSnapshotAfter(0) <=> ~IsSnapshot(1) /\ NoSnapshotAfter(1)
         /\ NoneTellsAfter(0) <=> ~TellsOther(1) /\ NoneTellsAfter(1)
         /\ AckedFrom(1) <=> AcksAll(1) \/ AckedFrom(2)
<1>1. down \in Seq(Sent)
  BY DEF PredictionInv, PredictionTypes, WayTypes
<1>2. /\ 1 \in 1..Len(down) /\ Head(down) = down[1] /\ down[1] \in Sent /\ down' \in Seq(Sent)
      /\ Len(down) \in Nat /\ Len(down) > 0 /\ Len(down') \in Nat
  BY <1>1, DownShifts
<1>3. LatestPose' /\ AcksProcessed' /\ LatestAck'
  BY <1>1, LatestShift DEF PredictionInv, PoseInv, AckInv
<1>4. ~wanted /\ other.session # 0 => LatestRemote' /\ LatestPlayers'
  BY <1>1, LatestShift DEF PredictionInv, RemoteInv
<1>5. /\ WholeAfter(0)' <=> WholeAfter(0 + 1)
      /\ NoPoseAfter(0)' <=> NoPoseAfter(0 + 1)
      /\ NoSnapshotAfter(0)' <=> NoSnapshotAfter(0 + 1)
      /\ NoneTellsAfter(0)' <=> NoneTellsAfter(0 + 1)
      /\ AckedFrom(0 + 1)' <=> AckedFrom(0 + 2)
  <2>1. 0 \in 0..Len(down')
    BY <1>2
  <2>2. QED
    BY <1>1, <2>1, AfterShifts
<1>6. 0 + 1 = 1 /\ 0 + 2 = 2
  OBVIOUS
<1>7. /\ WholeAfter(0)' <=> WholeAfter(1)
      /\ NoPoseAfter(0)' <=> NoPoseAfter(1)
      /\ NoSnapshotAfter(0)' <=> NoSnapshotAfter(1)
      /\ NoneTellsAfter(0)' <=> NoneTellsAfter(1)
      /\ AckedFrom(1)' <=> AckedFrom(2)
  BY <1>5, <1>6
<1>8. QED
  BY <1>2, <1>3, <1>4, <1>7, AfterFirst

LEMMA StepReceive ==
  ASSUME PredictionConstants, PredictionInv, Receive
  PROVE  PredictionInv'
<1> DEFINE u == down[1].update
<1>1. /\ down # <<>> /\ down' = Tail(down) /\ UNCHANGED <<missed, own, other, inputs, up>>
  BY DEF Receive
<1>2. /\ 1 \in 1..Len(down) /\ Head(down) = down[1] /\ down[1] \in Sent /\ down' \in Seq(Sent)
      /\ LatestPose' /\ AcksProcessed' /\ LatestAck'
      /\ ~wanted /\ other.session # 0 => LatestRemote' /\ LatestPlayers'
      /\ WholeAfter(0)' <=> WholeAfter(1)
      /\ NoPoseAfter(0)' <=> NoPoseAfter(1)
      /\ NoSnapshotAfter(0)' <=> NoSnapshotAfter(1)
      /\ NoneTellsAfter(0)' <=> NoneTellsAfter(1)
      /\ AckedFrom(1)' <=> AckedFrom(2)
      /\ WholeAfter(0) <=> ~down[1].gap /\ WholeAfter(1)
      /\ NoPoseAfter(0) <=> ~HasPose(1) /\ NoPoseAfter(1)
      /\ NoSnapshotAfter(0) <=> ~IsSnapshot(1) /\ NoSnapshotAfter(1)
      /\ NoneTellsAfter(0) <=> ~TellsOther(1) /\ NoneTellsAfter(1)
      /\ AckedFrom(1) <=> AcksAll(1) \/ AckedFrom(2)
  BY <1>1, FirstReceived
<1>3. u.kind \in {"own", "other", "snapshot"} /\ u.pos \in Int /\ u.ack \in Nat
      /\ down[1].gap \in BOOLEAN
  BY <1>2, SentFields
<1>4. /\ PoseInv /\ AckInv /\ RemoteInv /\ predictor \in Predictor /\ synced \in BOOLEAN
      /\ ServerTypes /\ up \in Seq(Move)
      /\ RenderedAgrees /\ BufferInv /\ NumbersInv /\ AheadInv
  BY DEF PredictionInv, PredictionTypes, ClientTypes, WayTypes
<1>5. ServerTypes /\ wanted' \in BOOLEAN => ServerTypes'
  BY <1>1 DEF ServerTypes
<1>6. HasPose(1) => u.ack <= own.processed
  BY <1>2, <1>4 DEF AckInv, AcksProcessed
<1>7. HasPose(1) /\ WholeAfter(1) /\ NoPoseAfter(1) => u.pos = own.pos
  BY <1>2, <1>4 DEF PoseInv, LatestPose
<1>8. ASSUME RenderedAgrees', BufferInv', NumbersInv', AheadInv', predictor' \in Predictor,
             synced' \in BOOLEAN, wanted' \in BOOLEAN, wanted => wanted',
             KnownPose', KnownAck', ~wanted' /\ other.session # 0 => KnownPlayer' /\ KnownRemote'
      PROVE  PredictionInv'
  <2>1. PredictionTypes'
    BY <1>1, <1>2, <1>4, <1>5, <1>8 DEF PredictionTypes, WayTypes, ClientTypes
  <2>2. PoseInv' /\ AckInv'
    BY <1>2, <1>8 DEF PoseInv, AckInv
  <2>3. RemoteInv'
    BY <1>1, <1>2, <1>8 DEF RemoteInv
  <2>4. QED
    BY <1>8, <2>1, <2>2, <2>3 DEF PredictionInv
<1>9. wanted \in BOOLEAN
  BY <1>4 DEF ServerTypes
<1>10. CASE ReceiveSnapshot(u)
  <2>1. /\ u.kind = "snapshot" /\ predictor' = applySnapshotBaseline(predictor, u.pos, u.ack)
        /\ remotes' = u.players /\ synced' = TRUE /\ wanted' = wanted
    BY <1>10 DEF ReceiveSnapshot, replaceFromSnapshot
  <2>2. HasPose(1) /\ IsSnapshot(1) /\ TellsOther(1)
    BY <2>1 DEF HasPose, IsSnapshot, TellsOther
  <2> HIDE DEF u
  <2>3. Corrected(predictor, predictor', u.pos, u.ack)
    BY <1>3, <1>4, <2>1, AfterAck
  <2>4. /\ predictor' \in Predictor
        /\ RenderedAgrees' /\ BufferInv' /\ NumbersInv' /\ AheadInv'
        /\ predictor'.predicted = u.pos + total(predictor'.pending)
        /\ PendingBeyond \/ u.ack >= own.processed => PendingBeyond'
    BY <1>1, <1>3, <1>6, <2>2, <2>3, BufferCorrected
  <2>5. KnownPose'
    BY <1>1, <1>2, <1>7, <2>2, <2>4 DEF KnownPose
  <2>6. KnownAck'
    <3>1. WholeAfter(1) => AckedFrom(1)
      BY <1>2, <1>4, <2>2 DEF AckInv, LatestAck
    <3>2. AcksAll(1) => u.ack >= own.processed
      BY DEF AcksAll, u
    <3>3. QED
      BY <1>2, <2>4, <3>1, <3>2 DEF KnownAck
  <2>7. ~wanted' /\ other.session # 0 => KnownPlayer' /\ KnownRemote'
    <3>1. SUFFICES ASSUME ~wanted, other.session # 0
                   PROVE  KnownPlayer' /\ KnownRemote'
      BY <2>1
    <3>2. LatestRemote /\ LatestPlayers
      BY <1>4, <3>1 DEF RemoteInv
    <3>3. WholeAfter(1) /\ NoneTellsAfter(1) => u.players[other.session] = other.pos
      BY <1>2, <2>2, <3>2 DEF LatestRemote, u
    <3>4. WholeAfter(1) /\ NoSnapshotAfter(1) => other.session \in DOMAIN u.players
      BY <1>2, <2>2, <3>2 DEF LatestPlayers, u
    <3>5. KnownPlayer'
      BY <1>1, <1>2, <2>1, <3>4 DEF KnownPlayer
    <3>6. KnownRemote'
      BY <1>1, <1>2, <2>1, <3>3 DEF KnownRemote
    <3>7. QED
      BY <3>5, <3>6
  <2>8. QED
    BY <1>8, <1>9, <2>1, <2>4, <2>5, <2>6, <2>7
<1>11. CASE ReceiveEvent(u, down[1].gap) /\ u.kind = "own"
  <2>1. /\ synced /\ ~down[1].gap /\ predictor' = reconcile(predictor, u.pos, u.ack)
        /\ remotes' = remotes /\ synced' = synced /\ wanted' = wanted
    BY <1>11 DEF ReceiveEvent
  <2>2. HasPose(1) /\ ~IsSnapshot(1) /\ ~TellsOther(1)
    BY <1>11 DEF HasPose, IsSnapshot, TellsOther
  <2> HIDE DEF u
  <2>3. Corrected(predictor, predictor', u.pos, u.ack)
    BY <1>3, <1>4, <2>1, AfterAck
  <2>4. /\ predictor' \in Predictor
        /\ RenderedAgrees' /\ BufferInv' /\ NumbersInv' /\ AheadInv'
        /\ predictor'.predicted = u.pos + total(predictor'.pending)
        /\ PendingBeyond \/ u.ack >= own.processed => PendingBeyond'
    BY <1>1, <1>3, <1>6, <2>2, <2>3, BufferCorrected
  <2>5. KnownPose'
    BY <1>1, <1>2, <1>7, <2>2, <2>4 DEF KnownPose
  <2>6. KnownAck'
    <3>1. WholeAfter(1) => AckedFrom(1) \/ PendingBeyond
      BY <1>2, <1>4, <2>1 DEF AckInv, KnownAck
    <3>2. AcksAll(1) => u.ack >= own.processed
      BY DEF AcksAll, u
    <3>3. QED
      BY <1>2, <2>4, <3>1, <3>2 DEF KnownAck
  <2>7. ~wanted' /\ other.session # 0 => KnownPlayer' /\ KnownRemote'
    <3>1. SUFFICES ASSUME ~wanted, other.session # 0
                   PROVE  KnownPlayer' /\ KnownRemote'
      BY <2>1
    <3>2. KnownPlayer /\ KnownRemote
      BY <1>4, <3>1 DEF RemoteInv
    <3>3. QED
      BY <1>1, <1>2, <2>1, <2>2, <3>2 DEF KnownPlayer, KnownRemote
  <2>8. QED
    BY <1>4, <1>8, <1>9, <2>1, <2>4, <2>5, <2>6, <2>7
<1>12. CASE ReceiveEvent(u, down[1].gap) /\ u.kind = "other"
  <2>1. /\ synced /\ ~down[1].gap /\ predictor' = predictor /\ synced' = synced
        /\ remotes' = applyAuthoritative(remotes, u.session, u.pos) /\ wanted' = wanted
    BY <1>12 DEF ReceiveEvent
  <2>2. ~HasPose(1) /\ ~IsSnapshot(1) /\ (TellsOther(1) <=> u.session = other.session)
        /\ ~AcksAll(1)
    BY <1>12 DEF HasPose, IsSnapshot, TellsOther, AcksAll
  <2> HIDE DEF u
  <2>3. /\ predictor' \in Predictor
        /\ RenderedAgrees' /\ BufferInv' /\ NumbersInv' /\ AheadInv'
    BY <1>1, <1>4, <2>1 DEF RenderedAgrees, BufferInv, NumbersInv, AheadInv
  <2>4. KnownPose'
    BY <1>1, <1>2, <1>4, <2>1, <2>2 DEF PoseInv, KnownPose
  <2>5. KnownAck'
    <3>1. PendingBeyond' <=> PendingBeyond
      BY <1>1, <2>1 DEF PendingBeyond
    <3>2. QED
      BY <1>1, <1>2, <1>4, <2>1, <2>2, <3>1 DEF AckInv, KnownAck
  <2>6. ~wanted' /\ other.session # 0 => KnownPlayer' /\ KnownRemote'
    <3>1. SUFFICES ASSUME ~wanted, other.session # 0
                   PROVE  KnownPlayer' /\ KnownRemote'
      BY <2>1
    <3>2. LatestRemote /\ KnownPlayer /\ KnownRemote
      BY <1>4, <3>1 DEF RemoteInv
    <3>3. NoneTellsAfter(1) => NoSnapshotAfter(1)
      BY DEF NoneTellsAfter, NoSnapshotAfter, TellsOther
    <3>4. DOMAIN remotes' = DOMAIN remotes
      BY <2>1 DEF applyAuthoritative
    <3>5. KnownPlayer'
      BY <1>1, <1>2, <2>1, <2>2, <3>2, <3>4 DEF KnownPlayer
    <3>6. CASE u.session = other.session
      <4>1. WholeAfter(1) /\ NoneTellsAfter(1) => u.pos = other.pos
        BY <1>2, <2>2, <3>2, <3>6 DEF LatestRemote, u
      <4>2. WholeAfter(1) /\ NoneTellsAfter(1) => other.session \in DOMAIN remotes
        BY <1>2, <2>1, <2>2, <3>2, <3>3 DEF KnownPlayer
      <4>3. other.session \in DOMAIN remotes => remotes'[other.session] = u.pos
        BY <2>1, <3>6 DEF applyAuthoritative
      <4>4. QED
        BY <1>1, <1>2, <3>5, <4>1, <4>2, <4>3 DEF KnownRemote
    <3>7. CASE u.session # other.session
      <4>1. WholeAfter(1) /\ NoneTellsAfter(1) =>
              other.session \in DOMAIN remotes /\ remotes[other.session] = other.pos
        BY <1>2, <2>1, <2>2, <3>2, <3>3, <3>7 DEF KnownPlayer, KnownRemote
      <4>2. other.session \in DOMAIN remotes =>
              remotes'[other.session] = remotes[other.session]
        BY <2>1, <3>7 DEF applyAuthoritative
      <4>3. QED
        BY <1>1, <1>2, <3>5, <4>1, <4>2 DEF KnownRemote
    <3>8. QED
      BY <3>6, <3>7
  <2>7. QED
    BY <1>4, <1>8, <1>9, <2>1, <2>3, <2>4, <2>5, <2>6
<1>13. CASE SkipUpdate(u, down[1].gap)
  <2>1. synced' = FALSE /\ wanted' = TRUE /\ predictor' = predictor
    BY <1>13 DEF SkipUpdate
  <2>2. /\ predictor' \in Predictor
        /\ RenderedAgrees' /\ BufferInv' /\ NumbersInv' /\ AheadInv'
    BY <1>1, <1>4, <2>1 DEF RenderedAgrees, BufferInv, NumbersInv, AheadInv
  <2>3. KnownPose' /\ KnownAck'
    BY <2>1 DEF KnownPose, KnownAck
  <2>4. QED
    BY <1>8, <2>1, <2>2, <2>3
<1>14. QED
  BY <1>2, <1>3, <1>10, <1>11, <1>12, <1>13 DEF Receive, ReceiveEvent

-----------------------------------------------------------------------------
(* A tick *)

\* The largest of some of the numbers up to n.
LEMMA LargestNumber ==
  ASSUME NEW n \in Nat, NEW S, S \subseteq 0..n, S # {}
  PROVE  Max(S) \in S /\ \A i \in S : i <= Max(S)
<1> DEFINE T == {n - i : i \in S}
<1>1. \A i \in S : i \in Nat /\ i <= n /\ n - i \in Nat
  OBVIOUS
<1>2. T \subseteq Nat /\ T # {}
  BY <1>1
<1>3. \E x \in T : \A y \in T : x <= y
  <2> HIDE DEF T
  <2>1. QED
    BY <1>2, SmallestNumber
<1>4. PICK m \in S : \A i \in S : n - m <= n - i
  BY <1>3
<1>5. \A i \in S : m >= i
  BY <1>1, <1>4
<1>6. \E k \in S : \A i \in S : k >= i
  BY <1>5
<1>7. Max(S) \in S /\ \A i \in S : Max(S) >= i
  BY <1>6 DEF Max
<1>8. QED
  BY <1>7

\* The highest number of a frame whose numbers are accepted.
LEMMA HighestNumber ==
  ASSUME NEW s \in Seq(Move), NEW m \in Nat, NEW n \in Nat, n <= m,
         \A k \in 1..Len(s) : s[k].seq <= m
  PROVE  /\ highest(s, n) \in Nat /\ n <= highest(s, n) /\ highest(s, n) <= m
         /\ \A k \in 1..Len(s) : s[k].seq <= highest(s, n)
         /\ highest(s, n) = n \/ \E k \in 1..Len(s) : highest(s, n) = s[k].seq
<1> DEFINE S == {n} \cup {s[k].seq : k \in 1..Len(s)}
<1>1. \A k \in 1..Len(s) : s[k].seq \in Nat
  BY MoveFields
<1>2. S \subseteq 0..m /\ S # {}
  BY <1>1
<1>3. Max(S) \in S /\ \A i \in S : i <= Max(S)
  <2> HIDE DEF S
  <2>1. QED
    BY <1>2, LargestNumber
<1>4. highest(s, n) = Max(S)
  BY DEF highest
<1>5. \A k \in 1..Len(s) : s[k].seq \in S
  OBVIOUS
<1>6. n \in S /\ Max(S) \in 0..m
  BY <1>2, <1>3
<1>7. Max(S) = n \/ \E k \in 1..Len(s) : Max(S) = s[k].seq
  <2> DEFINE x == Max(S)
  <2>1. x \in S
    BY <1>3
  <2> HIDE DEF x
  <2>2. x = n \/ \E k \in 1..Len(s) : x = s[k].seq
    BY <2>1
  <2>3. QED
    BY <2>2 DEF x
<1> DEFINE h == highest(s, n)
<1>8. h \in 0..m /\ n <= h /\ \A k \in 1..Len(s) : s[k].seq <= h
  BY <1>3, <1>4, <1>5, <1>6
<1>9. h = n \/ \E k \in 1..Len(s) : h = s[k].seq
  BY ONLY <1>4, <1>7, Zenon DEF h
<1> HIDE DEF S, h
<1>10. h \in Nat /\ h <= m
  BY <1>8
<1>11. QED
  BY <1>8, <1>9, <1>10 DEF h

\* The elements of c are those of a and b.
HasParts(a, b, c) ==
  /\ \A i \in 1..Len(c) :
       (\E j \in 1..Len(a) : c[i] = a[j]) \/ (\E j \in 1..Len(b) : c[i] = b[j])
  /\ \A j \in 1..Len(a) : \E i \in 1..Len(c) : c[i] = a[j]
  /\ \A j \in 1..Len(b) : \E i \in 1..Len(c) : c[i] = b[j]

LEMMA TwoParts ==
  ASSUME NEW S, NEW a \in Seq(S), NEW b \in Seq(S)
  PROVE  a \o b \in Seq(S) /\ HasParts(a, b, a \o b)
<1> DEFINE c == a \o b
           la == Len(a)
           lb == Len(b)
<1>1. /\ c \in Seq(S) /\ Len(c) = la + lb
      /\ \A i \in 1..(la + lb) : c[i] = IF i <= la THEN a[i] ELSE b[i - la]
  BY ConcatProperties
<1>2. la \in Nat /\ lb \in Nat
  BY LenProperties
<1> HIDE DEF c, la, lb
<1>3. ASSUME NEW i \in 1..(la + lb)
      PROVE  (\E j \in 1..la : c[i] = a[j]) \/ (\E j \in 1..lb : c[i] = b[j])
  <2>1. CASE i <= la
    <3>1. i \in 1..la /\ c[i] = a[i]
      BY <1>1, <1>2, <2>1
    <3>2. QED
      BY <3>1
  <2>2. CASE ~(i <= la)
    <3>1. i - la \in 1..lb /\ c[i] = b[i - la]
      BY <1>1, <1>2, <2>2
    <3>2. QED
      BY <3>1
  <2>3. QED
    BY <2>1, <2>2
<1>4. ASSUME NEW j \in 1..la
      PROVE  \E i \in 1..(la + lb) : c[i] = a[j]
  <2>1. j \in 1..(la + lb) /\ j <= la
    BY <1>2
  <2>2. QED
    BY <1>1, <2>1
<1>5. ASSUME NEW j \in 1..lb
      PROVE  \E i \in 1..(la + lb) : c[i] = b[j]
  <2>1. la + j \in 1..(la + lb) /\ ~(la + j <= la) /\ (la + j) - la = j
    BY <1>2
  <2>2. c[la + j] = b[(la + j) - la]
    BY <1>1, <2>1
  <2>3. c[la + j] = b[j]
    BY ONLY <2>1, <2>2, Zenon
  <2>4. QED
    BY <2>1, <2>3
<1>6. QED
  BY <1>1, <1>2, <1>3, <1>4, <1>5, Zenon DEF HasParts, c, la, lb

FrameOf(applied) == IF applied THEN inputs ELSE <<>>
OtherMoves(d, applied) == d # 0 /\ applied

\* The players after a tick.
LEMMA TickPlayers ==
  ASSUME PredictionInv, NEW d \in Int, NEW applied \in BOOLEAN, Tick(d, applied)
  PROVE  /\ own' \in OwnPlayer /\ other' \in OtherPlayer /\ FrameOf(applied) \in Seq(Move)
         /\ own'.accepted = own.accepted /\ own'.session = own.session
         /\ own.processed <= own'.processed /\ own'.processed <= own.accepted
         /\ other'.session = other.session
         /\ FrameOf(applied) = <<>> => own'.pos = own.pos /\ own'.processed = own.processed
         /\ ~OtherMoves(d, applied) => other' = other
         /\ highest(FrameOf(applied), 0) \in Nat
         /\ highest(FrameOf(applied), 0) <= own'.processed
         /\ own'.processed # own.processed => highest(FrameOf(applied), 0) = own'.processed
<1> DEFINE f == FrameOf(applied)
           x == own.pos + total(f)
           h == highest(f, own.processed)
           g == highest(f, 0)
<1>1. /\ own \in OwnPlayer /\ other \in OtherPlayer /\ inputs \in Seq(Move) /\ NumbersInv
  BY DEF PredictionInv, PredictionTypes, ServerTypes
<1>2. own.pos \in Int /\ own.processed \in Nat /\ own.accepted \in Nat
  BY <1>1 DEF OwnPlayer
<1>3. own.processed <= own.accepted /\ \A k \in 1..Len(inputs) : inputs[k].seq <= own.accepted
  BY <1>1 DEF NumbersInv
<1>4. f \in Seq(Move) /\ \A k \in 1..Len(f) : f[k].seq <= own.accepted
  <2>1. CASE applied
    BY <1>1, <1>3, <2>1 DEF FrameOf
  <2>2. CASE ~applied
    <3>1. f = <<>> /\ <<>> \in Seq(Move) /\ Len(<<>>) = 0
      BY <2>2, EmptySeq DEF FrameOf
    <3>2. QED
      BY <3>1
  <2>3. QED
    BY <2>1, <2>2
<1>5. own' = [own EXCEPT !.pos = x, !.processed = h]
  BY <1>1 DEF Tick, FrameOf, OwnPlayer
<1>6. /\ OtherMoves(d, applied) => other' = [other EXCEPT !.pos = @ + d, !.moves = @ + 1]
      /\ ~OtherMoves(d, applied) => other' = other
  BY DEF Tick, OtherMoves
<1>7. other' \in OtherPlayer /\ other'.session = other.session
  <2> DEFINE y == other.pos + d
             n == other.moves + 1
  <2>1. y \in Int /\ n \in Nat
    BY <1>1 DEF OtherPlayer
  <2>2. other' = [other EXCEPT !.pos = y, !.moves = n] \/ other' = other
    BY <1>6
  <2> HIDE DEF y, n
  <2>3. [other EXCEPT !.pos = y, !.moves = n] \in OtherPlayer
        /\ [other EXCEPT !.pos = y, !.moves = n].session = other.session
    BY <1>1, <2>1 DEF OtherPlayer
  <2>4. QED
    BY <1>1, <2>2, <2>3, Zenon
<1> HIDE DEF f
<1>8. x \in Int
  BY <1>2, <1>4, TotalIsNumber
<1>9. /\ h \in Nat /\ own.processed <= h /\ h <= own.accepted
      /\ \A k \in 1..Len(f) : f[k].seq <= h
      /\ h = own.processed \/ \E k \in 1..Len(f) : h = f[k].seq
  BY <1>2, <1>3, <1>4, HighestNumber
<1>10. /\ g \in Nat /\ \A k \in 1..Len(f) : f[k].seq <= g
       /\ g = 0 \/ \E k \in 1..Len(f) : g = f[k].seq
  <2>1. 0 \in Nat /\ 0 <= own.accepted
    BY <1>2
  <2>2. QED
    BY <1>2, <1>4, <2>1, HighestNumber
<1> HIDE DEF h, g
<1>11. g <= h
  BY <1>9, <1>10
<1>12. h # own.processed => g = h
  <2>1. SUFFICES ASSUME h # own.processed PROVE h <= g
    BY <1>9, <1>10, <1>11
  <2>2. PICK k \in 1..Len(f) : h = f[k].seq
    BY <1>9, <2>1
  <2>3. QED
    BY <1>10, <2>2
<1>13. f = <<>> => x = own.pos /\ h = own.processed
  <2>1. SUFFICES ASSUME f = <<>> PROVE x = own.pos /\ h = own.processed
    OBVIOUS
  <2>2. total(f) = 0
    BY <2>1, TotalOfNone
  <2>3. Len(f) = 0
    BY <2>1, EmptySeq
  <2>4. x = own.pos
    BY <1>2, <2>2
  <2>5. QED
    BY <1>9, <2>3, <2>4
<1> HIDE DEF x
<1>14. /\ own' \in OwnPlayer /\ own'.accepted = own.accepted /\ own'.session = own.session
       /\ own'.pos = x /\ own'.processed = h
  BY <1>1, <1>5, <1>8, <1>9 DEF OwnPlayer
<1>15. QED
  BY <1>4, <1>6, <1>7, <1>9, <1>10, <1>11, <1>12, <1>13, <1>14 DEF f, g

\* What the updates of a tick tell.
Told(u) ==
  /\ u \in EventUpdate \cup SnapshotUpdate
  /\ u.kind # "other" => u.pos = own'.pos /\ u.ack <= own'.processed
  /\ u.kind = "snapshot" =>
       wanted /\ u.ack = own'.processed /\ u.players = publicPoses(other')
  /\ u.kind = "other" => u.pos = other'.pos
TellsAll(s) ==
  /\ s \in Seq(EventUpdate \cup SnapshotUpdate)
  /\ \A k \in 1..Len(s) : Told(s[k])
  /\ wanted => \E k \in 1..Len(s) : s[k].kind = "snapshot"
  /\ own'.pos # own.pos => \E k \in 1..Len(s) : s[k].kind # "other"
  /\ own'.processed # own.processed =>
       \E k \in 1..Len(s) : s[k].kind # "other" /\ s[k].ack >= own'.processed
  /\ other' # other =>
       \E k \in 1..Len(s) : s[k].kind = "other" /\ s[k].session = other'.session

\* Sent are an event for each Move, one for the other player, and a Snapshot.
LEMMA TickTells ==
  ASSUME PredictionInv, NEW d \in Int, NEW applied \in BOOLEAN, Tick(d, applied)
  PROVE  TellsAll(eventsOf(FrameOf(applied), own', other', OtherMoves(d, applied))
                    \o (IF wanted THEN <<snapshot(own', other')>> ELSE <<>>))
<1> DEFINE f == FrameOf(applied)
           q == frameAck(own', f, wanted)
           U == EventUpdate \cup SnapshotUpdate
           e == ownEvent(own', q)
           t == otherEvent(other')
           p == snapshot(own', other')
           a == [k \in 1..Len(f) |-> e]
           b == IF OtherMoves(d, applied) THEN <<t>> ELSE <<>>
           c == IF wanted THEN <<p>> ELSE <<>>
           s == (a \o b) \o c
<1>1. s = eventsOf(f, own', other', OtherMoves(d, applied))
            \o (IF wanted THEN <<snapshot(own', other')>> ELSE <<>>)
  BY DEF eventsOf
<1>2. /\ own' \in OwnPlayer /\ other' \in OtherPlayer /\ f \in Seq(Move)
      /\ f = <<>> => own'.pos = own.pos /\ own'.processed = own.processed
      /\ ~OtherMoves(d, applied) => other' = other
      /\ highest(f, 0) \in Nat /\ highest(f, 0) <= own'.processed
      /\ own'.processed # own.processed => highest(f, 0) = own'.processed
  BY TickPlayers
<1>3. wanted \in BOOLEAN
  BY DEF PredictionInv, PredictionTypes, ServerTypes
<1> HIDE DEF f
<1>4. own'.processed \in Nat /\ own'.pos \in Int /\ own'.session \in Nat
      /\ other'.pos \in Int /\ other'.session \in Nat
  BY <1>2 DEF OwnPlayer, OtherPlayer
<1>5. q \in Nat /\ q <= own'.processed /\ (own'.processed # own.processed => q = own'.processed)
  BY <1>2, <1>3, <1>4 DEF frameAck
<1> HIDE DEF q
<1>6. e \in EventUpdate /\ e.kind = "own" /\ e.pos = own'.pos /\ e.ack = q
  BY <1>4, <1>5 DEF ownEvent, EventUpdate
<1>7. t \in EventUpdate /\ t.kind = "other" /\ t.pos = other'.pos /\ t.session = other'.session
  BY <1>4 DEF otherEvent, EventUpdate
<1>8. publicPoses(other') \in Poses
  <2>1. CASE other'.session = 0
    <3>1. publicPoses(other') = [i \in {} |-> 0]
      BY <2>1 DEF publicPoses
    <3>2. [i \in {} |-> 0] \in [{} -> Int] /\ {} \in SUBSET Nat
      OBVIOUS
    <3>3. QED
      BY <3>1, <3>2 DEF Poses
  <2>2. CASE other'.session # 0
    <3> DEFINE i == other'.session
               x == other'.pos
    <3>1. publicPoses(other') = [j \in {i} |-> x]
      BY <2>2 DEF publicPoses
    <3>2. i \in Nat /\ x \in Int
      BY <1>4
    <3> HIDE DEF i, x
    <3>3. [j \in {i} |-> x] \in [{i} -> Int] /\ {i} \in SUBSET Nat
      BY <3>2
    <3>4. QED
      BY <3>1, <3>3 DEF Poses
  <2>3. QED
    BY <2>1, <2>2
<1>9. p \in SnapshotUpdate /\ p.kind = "snapshot" /\ p.pos = own'.pos /\ p.ack = own'.processed
      /\ p.players = publicPoses(other')
  <2> DEFINE y == publicPoses(other')
  <2>1. p = [kind |-> "snapshot", session |-> own'.session, pos |-> own'.pos,
             ack |-> own'.processed, players |-> y]
    BY DEF snapshot
  <2>2. y \in Poses
    BY <1>8
  <2> HIDE DEF y, p
  <2>3. p \in SnapshotUpdate /\ p.kind = "snapshot" /\ p.pos = own'.pos /\ p.ack = own'.processed
        /\ p.players = y
    BY <1>4, <2>1, <2>2 DEF SnapshotUpdate
  <2>4. QED
    BY <2>3 DEF y
<1> HIDE DEF e, t, p
<1>10. e \in U /\ t \in U /\ p \in U
  BY <1>6, <1>7, <1>9
<1> HIDE DEF U
<1>11. Len(f) \in Nat /\ (f # <<>> => 1 \in 1..Len(f))
  BY <1>2, LenProperties, EmptySeq
<1>12. a \in Seq(U) /\ Len(a) = Len(f) /\ \A k \in 1..Len(a) : a[k] = e
  <2> DEFINE n == Len(f)
  <2> HIDE DEF f, n
  <2>1. n \in Nat
    BY <1>11 DEF n
  <2>2. [k \in 1..n |-> e] \in Seq(U) /\ Len([k \in 1..n |-> e]) = n
        /\ \A k \in 1..n : [j \in 1..n |-> e][k] = e
    BY <1>10, <2>1
  <2>3. QED
    BY <2>2 DEF n
<1>13. /\ b \in Seq(U) /\ (OtherMoves(d, applied) => Len(b) = 1 /\ b[1] = t)
       /\ \A k \in 1..Len(b) : b[k] = t
  BY <1>10
<1>14. c \in Seq(U) /\ (wanted => Len(c) = 1 /\ c[1] = p) /\ \A k \in 1..Len(c) : wanted /\ c[k] = p
  BY <1>3, <1>10
<1> HIDE DEF a, b, c
<1> DEFINE ab == a \o b
<1>15. ab \in Seq(U) /\ HasParts(a, b, ab)
  BY <1>12, <1>13, TwoParts
<1>16. s = ab \o c
  OBVIOUS
<1> HIDE DEF ab, s
<1>17. s \in Seq(U) /\ HasParts(ab, c, s)
  BY <1>14, <1>15, <1>16, TwoParts
<1>18. \A k \in 1..Len(s) : s[k] = e \/ s[k] = t \/ (wanted /\ s[k] = p)
  <2>1. \A k \in 1..Len(ab) : ab[k] = e \/ ab[k] = t
    BY <1>12, <1>13, <1>15 DEF HasParts
  <2>2. \A k \in 1..Len(c) : wanted /\ c[k] = p
    BY <1>14
  <2>3. QED
    BY <1>17, <2>1, <2>2 DEF HasParts
<1>19. \A k \in 1..Len(s) : Told(s[k])
  <2>1. Told(e)
    BY <1>5, <1>6, <1>10 DEF Told, U
  <2>2. Told(t)
    BY <1>7, <1>10 DEF Told, U
  <2>3. own'.processed <= own'.processed
    BY <1>4
  <2>4. wanted => Told(p)
    BY <1>9, <1>10, <2>3 DEF Told, U
  <2>5. QED
    BY <1>18, <2>1, <2>2, <2>4
<1>20. wanted => \E k \in 1..Len(s) : s[k] = p
  <2>1. wanted => 1 \in 1..Len(c) /\ c[1] = p
    BY <1>14
  <2>2. \A j \in 1..Len(c) : \E i \in 1..Len(s) : s[i] = c[j]
    BY <1>17 DEF HasParts
  <2>3. QED
    BY <2>1, <2>2, Zenon
<1>21. OtherMoves(d, applied) => \E k \in 1..Len(s) : s[k] = t
  <2>1. OtherMoves(d, applied) => 1 \in 1..Len(b) /\ b[1] = t
    BY <1>13
  <2>2. OtherMoves(d, applied) => \E k \in 1..Len(ab) : ab[k] = t
    BY <1>15, <2>1 DEF HasParts
  <2>3. QED
    BY <1>17, <2>2 DEF HasParts
<1>22. f # <<>> => \E k \in 1..Len(s) : s[k] = e
  <2>1. f # <<>> => \E k \in 1..Len(ab) : ab[k] = e
    BY <1>11, <1>12, <1>15 DEF HasParts
  <2>2. QED
    BY <1>17, <2>1 DEF HasParts
<1>23. own'.processed # own.processed => q >= own'.processed
  BY <1>4, <1>5
<1>24. /\ wanted => \E k \in 1..Len(s) : s[k].kind = "snapshot"
       /\ own'.pos # own.pos => \E k \in 1..Len(s) : s[k].kind # "other"
       /\ own'.processed # own.processed =>
            \E k \in 1..Len(s) : s[k].kind # "other" /\ s[k].ack >= own'.processed
       /\ other' # other =>
            \E k \in 1..Len(s) : s[k].kind = "other" /\ s[k].session = other'.session
  <2>1. wanted => \E k \in 1..Len(s) : s[k].kind = "snapshot"
    BY <1>9, <1>20
  <2>2. own'.pos # own.pos => \E k \in 1..Len(s) : s[k].kind # "other"
    BY <1>2, <1>6, <1>22
  <2>3. own'.processed # own.processed =>
          \E k \in 1..Len(s) : s[k].kind # "other" /\ s[k].ack >= own'.processed
    BY <1>2, <1>6, <1>22, <1>23
  <2>4. other' # other =>
          \E k \in 1..Len(s) : s[k].kind = "other" /\ s[k].session = other'.session
    BY <1>2, <1>7, <1>21
  <2>5. QED
    BY <2>1, <2>2, <2>3, <2>4
<1>25. TellsAll(s)
  BY <1>17, <1>19, <1>24 DEF TellsAll, U
<1>26. QED
  BY <1>1, <1>25 DEF f

\* The updates of a tick follow those on their way; one that was lost makes a
\* gap before the first of them.
LEMMA TickDown ==
  ASSUME PredictionInv, NEW d \in Int, NEW applied \in BOOLEAN, Tick(d, applied)
  PROVE  LET len == Len(down)
             more == Len(down')
             New == (len + 1)..more
         IN /\ down' \in Seq(Sent) /\ len \in Nat /\ more \in Nat /\ len <= more
            /\ missed' \in BOOLEAN
            /\ \A k \in 1..len : down'[k] = down[k]
            /\ \A k \in New : Told(down'[k].update)
            /\ wanted => \E k \in New : down'[k].update.kind = "snapshot"
            /\ own'.pos # own.pos => \E k \in New : down'[k].update.kind # "other"
            /\ own'.processed # own.processed =>
                 \E k \in New :
                   down'[k].update.kind # "other" /\ down'[k].update.ack >= own'.processed
            /\ other' # other =>
                 \E k \in New :
                   down'[k].update.kind = "other" /\ down'[k].update.session = other'.session
            /\ missed => missed' \/ (len + 1 \in New /\ down'[len + 1].gap)
<1> DEFINE s == eventsOf(FrameOf(applied), own', other', OtherMoves(d, applied))
                  \o (IF wanted THEN <<snapshot(own', other')>> ELSE <<>>)
           U == EventUpdate \cup SnapshotUpdate
           n == Len(s)
           e == [k \in 1..n |-> [update |-> s[k], gap |-> k = 1 /\ missed]]
           len == Len(down)
           more == Len(down')
           New == (len + 1)..more
<1>1. TellsAll(s)
  BY TickTells
<1>2. down' = down \o e /\ missed' = (missed /\ s = <<>>)
  <2>1. /\ own' = [own EXCEPT !.pos = @ + total(FrameOf(applied)),
                              !.processed = highest(FrameOf(applied), @)]
        /\ other' = IF OtherMoves(d, applied)
                      THEN [other EXCEPT !.pos = @ + d, !.moves = @ + 1] ELSE other
    BY DEF Tick, FrameOf, OtherMoves
  <2>2. QED
    BY <2>1 DEF Tick, FrameOf, OtherMoves
<1>3. down \in Seq(Sent) /\ missed \in BOOLEAN
  BY DEF PredictionInv, PredictionTypes, WayTypes, ServerTypes
<1> HIDE DEF s
<1>4. s \in Seq(U) /\ \A k \in 1..n : Told(s[k])
  BY <1>1 DEF TellsAll
<1>5. n \in Nat /\ (s # <<>> => 1 \in 1..n) /\ \A k \in 1..n : s[k] \in U
  BY <1>4, LenProperties, EmptySeq, ElementOfSeq
<1>6. \A k \in 1..n : [update |-> s[k], gap |-> k = 1 /\ missed] \in Sent
  BY <1>5 DEF Sent
<1>7. e \in Seq(Sent) /\ Len(e) = n
  <2> HIDE DEF n
  <2> DEFINE v(k) == [update |-> s[k], gap |-> k = 1 /\ missed]
  <2>1. \A k \in 1..n : v(k) \in Sent
    BY <1>6
  <2> HIDE DEF v
  <2>2. [k \in 1..n |-> v(k)] \in Seq(Sent) /\ Len([k \in 1..n |-> v(k)]) = n
    BY <1>5, <2>1
  <2>3. QED
    BY <2>2 DEF v
<1>8. \A k \in 1..n : e[k].update = s[k] /\ (e[k].gap <=> k = 1 /\ missed)
  OBVIOUS
<1>9. /\ down \o e \in Seq(Sent) /\ Len(down \o e) = len + n
      /\ \A k \in 1..(len + n) : (down \o e)[k] = IF k <= len THEN down[k] ELSE e[k - len]
  <2> DEFINE c == down \o e
             m == Len(e)
  <2> HIDE DEF e, n
  <2>0. down \in Seq(Sent) /\ e \in Seq(Sent)
    BY <1>3, <1>7
  <2>1. /\ c \in Seq(Sent) /\ Len(c) = len + m
        /\ \A k \in 1..(len + m) : c[k] = IF k <= len THEN down[k] ELSE e[k - len]
    BY ONLY <2>0, ConcatProperties, SMTT(30) DEF c, m, len
  <2>2. m = n
    BY <1>7
  <2> HIDE DEF c, m, len
  <2>3. QED
    BY <2>1, <2>2 DEF c
<1>10. len \in Nat
  BY <1>3, LenProperties
<1> HIDE DEF e, len
<1>11. /\ down' \in Seq(Sent) /\ more = len + n
       /\ \A k \in 1..(len + n) : down'[k] = IF k <= len THEN down[k] ELSE e[k - len]
  BY <1>2, <1>9
<1> HIDE DEF more, n
<1>12. more \in Nat /\ len <= more
  BY <1>5, <1>10, <1>11
<1>13. \A k \in 1..len : down'[k] = down[k]
  <2>1. \A k \in 1..len : k \in 1..(len + n) /\ k <= len
    BY <1>5, <1>10
  <2>2. QED
    BY <1>11, <2>1
<1>14. ASSUME NEW j \in 1..n
       PROVE  len + j \in New /\ down'[len + j] = e[j]
  <2>1. len + j \in 1..(len + n) /\ ~(len + j <= len) /\ (len + j) - len = j /\ len + j \in New
    BY <1>5, <1>10, <1>11
  <2>2. down'[len + j] = e[(len + j) - len]
    BY <1>11, <2>1
  <2>3. QED
    BY ONLY <2>1, <2>2, Zenon
<1>15. ASSUME NEW k \in New
       PROVE  k - len \in 1..n /\ down'[k] = e[k - len]
  <2>1. k \in 1..(len + n) /\ ~(k <= len) /\ k - len \in 1..n
    BY <1>5, <1>10, <1>11
  <2>2. QED
    BY <1>11, <2>1
<1> HIDE DEF New
<1>16. \A k \in New : Told(down'[k].update)
  BY <1>4, <1>8, <1>15
<1>17. \A j \in 1..n : \E k \in New : down'[k].update = s[j]
  BY <1>8, <1>14
<1>18. wanted => \E k \in New : down'[k].update.kind = "snapshot"
  BY <1>1, <1>17 DEF TellsAll, n
<1>19. own'.pos # own.pos => \E k \in New : down'[k].update.kind # "other"
  BY <1>1, <1>17 DEF TellsAll, n
<1>20. own'.processed # own.processed =>
         \E k \in New : down'[k].update.kind # "other" /\ down'[k].update.ack >= own'.processed
  <2>1. SUFFICES ASSUME own'.processed # own.processed
                 PROVE  \E k \in New : down'[k].update.kind # "other"
                                       /\ down'[k].update.ack >= own'.processed
    OBVIOUS
  <2>2. PICK j \in 1..n : s[j].kind # "other" /\ s[j].ack >= own'.processed
    BY <1>1, <2>1 DEF TellsAll, n
  <2>3. PICK k \in New : down'[k].update = s[j]
    BY <1>17
  <2>4. QED
    BY <2>2, <2>3
<1>21. other' # other =>
         \E k \in New : down'[k].update.kind = "other" /\ down'[k].update.session = other'.session
  <2>1. SUFFICES ASSUME other' # other
                 PROVE  \E k \in New : down'[k].update.kind = "other"
                                       /\ down'[k].update.session = other'.session
    OBVIOUS
  <2>2. PICK j \in 1..n : s[j].kind = "other" /\ s[j].session = other'.session
    BY <1>1, <2>1 DEF TellsAll, n
  <2>3. PICK k \in New : down'[k].update = s[j]
    BY <1>17
  <2>4. QED
    BY <2>2, <2>3
<1>22. missed => missed' \/ (len + 1 \in New /\ down'[len + 1].gap)
  <2>1. CASE s = <<>>
    BY <1>2, <2>1
  <2>2. CASE s # <<>>
    <3>1. 1 \in 1..n
      BY <1>5, <2>2
    <3>2. len + 1 \in New /\ down'[len + 1] = e[1]
      BY <1>14, <3>1
    <3>3. missed => e[1].gap
      BY <1>8, <3>1
    <3>4. QED
      BY <3>2, <3>3
  <2>3. QED
    BY <2>1, <2>2
<1>23. missed' \in BOOLEAN
  BY <1>2, <1>3
<1>24. QED
  BY <1>10, <1>11, <1>12, <1>13, <1>16, <1>18, <1>19, <1>20, <1>21, <1>22, <1>23
  DEF New, len, more

\* What holds of the updates after one that was on its way before a tick, held
\* of them before; where none of them tells of something, it has not changed.
LEMMA TickAfter ==
  ASSUME PredictionInv, NEW d \in Int, NEW applied \in BOOLEAN, Tick(d, applied),
         NEW k \in 0..Len(down)
  PROVE  /\ WholeAfter(k)' => WholeAfter(k)
         /\ NoPoseAfter(k)' => NoPoseAfter(k) /\ own'.pos = own.pos
         /\ NoSnapshotAfter(k)' => NoSnapshotAfter(k) /\ ~wanted
         /\ NoneTellsAfter(k)' => NoneTellsAfter(k) /\ ~wanted /\ other' = other
<1> DEFINE len == Len(down)
           more == Len(down')
           New == (len + 1)..more
<1>1. /\ len \in Nat /\ more \in Nat /\ len <= more
      /\ \A l \in 1..len : down'[l] = down[l]
      /\ wanted => \E l \in New : down'[l].update.kind = "snapshot"
      /\ own'.pos # own.pos => \E l \in New : down'[l].update.kind # "other"
      /\ other' # other =>
           \E l \in New :
             down'[l].update.kind = "other" /\ down'[l].update.session = other'.session
      /\ missed => missed' \/ (len + 1 \in New /\ down'[len + 1].gap)
  BY TickDown
<1>2. other'.session = other.session
  BY TickPlayers
<1>3. k \in Nat /\ k <= len
  BY <1>1
<1> HIDE DEF len, more
<1>4. \A l \in (k + 1)..len : l \in (k + 1)..more /\ down'[l] = down[l]
  <2>1. \A l \in (k + 1)..len : l \in (k + 1)..more /\ l \in 1..len
    BY <1>1, <1>3
  <2>2. QED
    BY <1>1, <2>1
<1>5. \A l \in New : l \in (k + 1)..more
  BY <1>1, <1>3
<1> HIDE DEF New
<1>6. WholeAfter(k)' => WholeAfter(k)
  BY <1>1, <1>4, <1>5 DEF WholeAfter, len, more
<1>7. NoPoseAfter(k)' => NoPoseAfter(k) /\ own'.pos = own.pos
  BY <1>1, <1>4, <1>5 DEF NoPoseAfter, HasPose, len, more
<1>8. NoSnapshotAfter(k)' => NoSnapshotAfter(k) /\ ~wanted
  BY <1>1, <1>4, <1>5 DEF NoSnapshotAfter, IsSnapshot, len, more
<1>9. NoneTellsAfter(k)' => NoneTellsAfter(k) /\ ~wanted /\ other' = other
  BY <1>1, <1>2, <1>4, <1>5 DEF NoneTellsAfter, TellsOther, IsSnapshot, len, more
<1>10. QED
  BY <1>6, <1>7, <1>8, <1>9

\* Inputs that a tick processes are acknowledged by an update of the tick.
LEMMA TickAcks ==
  ASSUME PredictionInv, NEW d \in Int, NEW applied \in BOOLEAN, Tick(d, applied),
         NEW k \in 1..(Len(down) + 1)
  PROVE  AckedFrom(k) \/ own'.processed # own.processed => AckedFrom(k)'
<1> DEFINE len == Len(down)
           more == Len(down')
           New == (len + 1)..more
<1>1. /\ len \in Nat /\ more \in Nat /\ len <= more
      /\ \A l \in 1..len : down'[l] = down[l]
      /\ own'.processed # own.processed =>
           \E l \in New :
             down'[l].update.kind # "other" /\ down'[l].update.ack >= own'.processed
  BY TickDown
<1>2. k \in Nat /\ 1 <= k /\ k <= len + 1
  BY <1>1
<1> HIDE DEF len, more
<1>3. \A l \in New : l \in k..more
  BY <1>1, <1>2
<1>4. \A l \in k..len : l \in k..more /\ down'[l] = down[l]
  <2>1. \A l \in k..len : l \in k..more /\ l \in 1..len
    BY <1>1, <1>2
  <2>2. QED
    BY <1>1, <2>1
<1> HIDE DEF New
<1>5. CASE own'.processed # own.processed
  BY <1>1, <1>3, <1>5 DEF AckedFrom, AcksAll, HasPose, more
<1>6. CASE own'.processed = own.processed /\ AckedFrom(k)
  BY <1>4, <1>6 DEF AckedFrom, AcksAll, HasPose, len, more
<1>7. QED
  BY <1>5, <1>6

LEMMA StepTick ==
  ASSUME PredictionInv, NEW d \in Int, NEW applied \in BOOLEAN, Tick(d, applied)
  PROVE  PredictionInv'
<1> DEFINE len == Len(down)
           more == Len(down')
           New == (len + 1)..more
<1>1. /\ PredictionTypes /\ RenderedAgrees /\ BufferInv /\ NumbersInv /\ AheadInv
      /\ LatestPose /\ KnownPose /\ AcksProcessed /\ LatestAck /\ KnownAck /\ RemoteInv
  BY DEF PredictionInv, PoseInv, AckInv
<1>2. inputs' = <<>> /\ wanted' = FALSE /\ UNCHANGED <<up, predictor, remotes, synced>>
  BY DEF Tick
<1>3. /\ own' \in OwnPlayer /\ other' \in OtherPlayer
      /\ own'.accepted = own.accepted /\ own'.session = own.session
      /\ own.processed <= own'.processed /\ own'.processed <= own.accepted
      /\ other'.session = other.session
  BY TickPlayers
<1>4. /\ down' \in Seq(Sent) /\ len \in Nat /\ more \in Nat /\ len <= more
      /\ missed' \in BOOLEAN
      /\ \A k \in 1..len : down'[k] = down[k]
      /\ \A k \in New : Told(down'[k].update)
  BY TickDown
<1>5. /\ own.processed \in Nat /\ own'.processed \in Nat /\ own.accepted \in Nat
      /\ predictor.lastInput \in Nat /\ predictor.pending \in Seq(Move)
  BY <1>1, <1>3 DEF PredictionTypes, ServerTypes, ClientTypes, OwnPlayer, Predictor
<1>6. PredictionTypes'
  <2>1. <<>> \in Seq(Move)
    BY EmptySeq
  <2>2. ServerTypes'
    BY <1>2, <1>3, <1>4, <2>1 DEF ServerTypes
  <2>3. WayTypes' /\ ClientTypes'
    BY <1>1, <1>2, <1>4 DEF PredictionTypes, WayTypes, ClientTypes
  <2>4. QED
    BY <2>2, <2>3 DEF PredictionTypes
<1>7. RenderedAgrees' /\ BufferInv'
  BY <1>1, <1>2 DEF RenderedAgrees, BufferInv
<1>8. NumbersInv'
  <2>1. 1..Len(inputs') = {}
    BY <1>2, EmptySeq
  <2>2. own.accepted <= predictor.lastInput
    BY <1>1 DEF NumbersInv
  <2>3. QED
    BY <1>1, <1>2, <1>3, <2>1, <2>2 DEF NumbersInv
<1>9. AheadInv'
  <2>1. SUFFICES ASSUME own.session = 1 PROVE AheadInv'
    BY <1>3 DEF AheadInv
  <2> DEFINE n == Len(predictor.pending)
             first == predictor.lastInput - n
  <2>2. first <= own.processed /\ \A k \in 1..n : predictor.pending[k].seq = first + k
    BY <1>1, <2>1 DEF AheadInv
  <2>3. n \in Nat
    BY <1>5, LenProperties
  <2> HIDE DEF n
  <2>4. first <= own'.processed
    BY <1>3, <1>5, <2>2, <2>3
  <2> HIDE DEF first
  <2>5. QED
    BY <1>2, <2>2, <2>4 DEF AheadInv, first, n
<1>10. ASSUME NEW k \in 1..more
       PROVE  k \in New \/ (k \in 1..len /\ k \in 0..len /\ down'[k] = down[k])
  <2> HIDE DEF len, more
  <2>1. k \in New \/ (k \in 1..len /\ k \in 0..len)
    BY <1>4
  <2>2. QED
    BY <1>4, <2>1
<1>11. 0 \in 0..len /\ 1 \in 1..(len + 1) /\ \A k \in 1..len : k \in 1..(len + 1)
  <2> HIDE DEF len
  <2>1. QED
    BY <1>4
<1>12. ASSUME NEW k \in 0..len
       PROVE  /\ WholeAfter(k)' => WholeAfter(k)
              /\ NoPoseAfter(k)' => NoPoseAfter(k) /\ own'.pos = own.pos
              /\ NoSnapshotAfter(k)' => NoSnapshotAfter(k) /\ ~wanted
              /\ NoneTellsAfter(k)' => NoneTellsAfter(k) /\ ~wanted /\ other' = other
  BY TickAfter
<1>13. ASSUME NEW k \in 1..(len + 1)
       PROVE  AckedFrom(k) \/ own'.processed # own.processed => AckedFrom(k)'
  BY TickAcks
<1>14. ASSUME NEW k \in New
       PROVE  k \in 1..more /\ Told(down'[k].update)
  <2>1. Told(down'[k].update)
    BY <1>4
  <2> HIDE DEF len, more
  <2>2. k \in 1..more
    BY <1>4
  <2>3. QED
    BY <2>1, <2>2
<1> HIDE DEF New
<1>15. PoseInv'
  <2>1. LatestPose'
    <3>1. SUFFICES ASSUME NEW k \in 1..more, WholeAfter(k)', HasPose(k)', NoPoseAfter(k)'
                   PROVE  down'[k].update.pos = own'.pos
      BY DEF LatestPose
    <3>2. CASE k \in New
      BY <1>14, <3>1, <3>2 DEF Told, HasPose
    <3>3. CASE k \in 1..len /\ k \in 0..len /\ down'[k] = down[k]
      <4>1. WholeAfter(k) /\ NoPoseAfter(k) /\ own'.pos = own.pos
        BY <1>12, <3>1, <3>3
      <4>2. HasPose(k)
        BY <3>1, <3>3 DEF HasPose
      <4>3. down[k].update.pos = own.pos
        BY <1>1, <3>3, <4>1, <4>2 DEF LatestPose
      <4>4. QED
        BY <3>3, <4>1, <4>3
    <3>4. QED
      BY <1>10, <3>2, <3>3
  <2>2. KnownPose'
    <3>1. SUFFICES ASSUME synced, WholeAfter(0)', NoPoseAfter(0)'
                   PROVE  predictor.predicted = own'.pos + total(predictor.pending)
      BY <1>2 DEF KnownPose
    <3>2. WholeAfter(0) /\ NoPoseAfter(0) /\ own'.pos = own.pos
      BY <1>11, <1>12, <3>1
    <3>3. QED
      BY <1>1, <3>1, <3>2 DEF KnownPose
  <2>3. QED
    BY <2>1, <2>2 DEF PoseInv
<1>16. AckInv'
  <2>1. AcksProcessed'
    <3>1. SUFFICES ASSUME NEW k \in 1..more, HasPose(k)'
                   PROVE  down'[k].update.ack <= own'.processed
      BY DEF AcksProcessed
    <3>2. CASE k \in New
      BY <1>14, <3>1, <3>2 DEF Told, HasPose
    <3>3. CASE k \in 1..len /\ k \in 0..len /\ down'[k] = down[k]
      <4>1. down[k].update.ack <= own.processed
        BY <1>1, <3>1, <3>3 DEF AcksProcessed, HasPose
      <4>2. down'[k] \in Sent
        BY <1>4, <3>1, ElementOfSeq
      <4>3. down[k].update.ack \in Nat
        BY <3>3, <4>2, SentFields
      <4>4. QED
        BY <1>3, <1>5, <3>3, <4>1, <4>3
    <3>4. QED
      BY <1>10, <3>2, <3>3
  <2>2. LatestAck'
    <3>1. SUFFICES ASSUME NEW k \in 1..more, WholeAfter(k)', IsSnapshot(k)'
                   PROVE  AckedFrom(k)'
      BY DEF LatestAck
    <3>2. CASE k \in New
      <4>1. /\ down'[k].update.kind # "other" /\ down'[k].update.ack >= own'.processed
        BY <1>5, <1>14, <3>1, <3>2 DEF Told, IsSnapshot
      <4>2. k \in k..more
        BY <1>4, <3>1
      <4>3. QED
        BY <4>1, <4>2 DEF AckedFrom, AcksAll, HasPose
    <3>3. CASE k \in 1..len /\ k \in 0..len /\ down'[k] = down[k]
      <4>1. WholeAfter(k) /\ IsSnapshot(k)
        BY <1>12, <3>1, <3>3 DEF IsSnapshot
      <4>2. AckedFrom(k)
        BY <1>1, <3>3, <4>1 DEF LatestAck
      <4>3. QED
        BY <1>11, <1>13, <3>3, <4>2
    <3>4. QED
      BY <1>10, <3>2, <3>3
  <2>3. KnownAck'
    <3>1. SUFFICES ASSUME synced, WholeAfter(0)' PROVE AckedFrom(1)' \/ PendingBeyond'
      BY <1>2 DEF KnownAck
    <3>2. AckedFrom(1) \/ PendingBeyond
      BY <1>1, <1>11, <1>12, <3>1 DEF KnownAck
    <3>3. CASE AckedFrom(1) \/ own'.processed # own.processed
      BY <1>11, <1>13, <3>3
    <3>4. CASE PendingBeyond /\ own'.processed = own.processed
      BY <1>2, <3>4 DEF PendingBeyond
    <3>5. QED
      BY <3>2, <3>3, <3>4
  <2>4. QED
    BY <2>1, <2>2, <2>3 DEF AckInv
<1>17. RemoteInv'
  <2>1. SUFFICES ASSUME other'.session # 0
                 PROVE  LatestRemote' /\ LatestPlayers' /\ KnownPlayer' /\ KnownRemote'
    BY DEF RemoteInv
  <2>2. other.session # 0
    BY <1>3, <2>1
  <2>3. ~wanted => LatestRemote /\ LatestPlayers /\ KnownPlayer /\ KnownRemote
    BY <1>1, <2>2 DEF RemoteInv
  <2>4. other'.session \in DOMAIN publicPoses(other')
        /\ publicPoses(other')[other'.session] = other'.pos
    BY <2>1 DEF publicPoses
  <2>5. LatestRemote'
    <3>1. SUFFICES ASSUME NEW k \in 1..more, WholeAfter(k)', TellsOther(k)', NoneTellsAfter(k)'
                   PROVE  IF IsSnapshot(k)'
                            THEN down'[k].update.players[other'.session] = other'.pos
                            ELSE down'[k].update.pos = other'.pos
      BY DEF LatestRemote
    <3>2. CASE k \in New
      <4>1. CASE IsSnapshot(k)'
        <5>1. down'[k].update.players = publicPoses(other')
          BY <1>14, <3>2, <4>1 DEF Told, IsSnapshot
        <5>2. QED
          BY <2>4, <4>1, <5>1
      <4>2. CASE ~IsSnapshot(k)'
        BY <1>14, <3>1, <3>2, <4>2 DEF Told, TellsOther
      <4>3. QED
        BY <4>1, <4>2
    <3>3. CASE k \in 1..len /\ k \in 0..len /\ down'[k] = down[k]
      <4>1. WholeAfter(k) /\ NoneTellsAfter(k) /\ ~wanted /\ other' = other
        BY <1>12, <3>1, <3>3
      <4>2. TellsOther(k) /\ (IsSnapshot(k) <=> IsSnapshot(k)')
        BY <3>1, <3>3, <4>1 DEF TellsOther, IsSnapshot
      <4>3. IF IsSnapshot(k) THEN down[k].update.players[other.session] = other.pos
            ELSE down[k].update.pos = other.pos
        BY <2>3, <3>3, <4>1, <4>2 DEF LatestRemote
      <4>4. QED
        BY <3>3, <4>1, <4>2, <4>3
    <3>4. QED
      BY <1>10, <3>2, <3>3
  <2>6. LatestPlayers'
    <3>1. SUFFICES ASSUME NEW k \in 1..more, WholeAfter(k)', IsSnapshot(k)', NoSnapshotAfter(k)'
                   PROVE  other'.session \in DOMAIN down'[k].update.players
      BY DEF LatestPlayers
    <3>2. CASE k \in New
      <4>1. down'[k].update.players = publicPoses(other')
        BY <1>14, <3>1, <3>2 DEF Told, IsSnapshot
      <4>2. QED
        BY <2>4, <4>1
    <3>3. CASE k \in 1..len /\ k \in 0..len /\ down'[k] = down[k]
      <4>1. WholeAfter(k) /\ NoSnapshotAfter(k) /\ ~wanted
        BY <1>12, <3>1, <3>3
      <4>2. IsSnapshot(k)
        BY <3>1, <3>3 DEF IsSnapshot
      <4>3. other.session \in DOMAIN down[k].update.players
        BY <2>3, <3>3, <4>1, <4>2 DEF LatestPlayers
      <4>4. QED
        BY <1>3, <3>3, <4>3
    <3>4. QED
      BY <1>10, <3>2, <3>3
  <2>7. KnownPlayer'
    <3>1. SUFFICES ASSUME synced, WholeAfter(0)', NoSnapshotAfter(0)'
                   PROVE  other.session \in DOMAIN remotes
      BY <1>2, <1>3 DEF KnownPlayer
    <3>2. WholeAfter(0) /\ NoSnapshotAfter(0) /\ ~wanted
      BY <1>11, <1>12, <3>1
    <3>3. QED
      BY <2>3, <3>1, <3>2 DEF KnownPlayer
  <2>8. KnownRemote'
    <3>1. SUFFICES ASSUME synced, WholeAfter(0)', NoneTellsAfter(0)'
                   PROVE  remotes[other'.session] = other'.pos
      BY <1>2 DEF KnownRemote
    <3>2. WholeAfter(0) /\ NoneTellsAfter(0) /\ ~wanted /\ other' = other
      BY <1>11, <1>12, <3>1
    <3>3. QED
      BY <2>3, <3>1, <3>2 DEF KnownRemote
  <2>9. QED
    BY <2>5, <2>6, <2>7, <2>8
<1>18. QED
  BY <1>6, <1>7, <1>8, <1>9, <1>15, <1>16, <1>17 DEF PredictionInv

-----------------------------------------------------------------------------
(* The theorems *)

LEMMA PredictionInitial ==
  ASSUME PredictionConstants, Init
  PROVE  PredictionInv
<1>1. <<>> \in Seq(Move) /\ <<>> \in Seq(Sent) /\ Len(<<>>) = 0 /\ 1..0 = {}
  BY EmptySeq
<1>2. /\ predictor.pending = <<>> /\ predictor.lastInput = 0
      /\ predictor.predicted = 0 /\ predictor.rendered = 0
  BY DEF Init, NewPredictor
<1>3. PredictionTypes
  <2>1. own \in OwnPlayer /\ other \in OtherPlayer
    BY DEF Init, OwnPlayer, OtherPlayer
  <2>2. predictor \in Predictor
    BY <1>1 DEF Init, NewPredictor, Predictor
  <2>3. QED
    BY <1>1, <2>1, <2>2 DEF Init, PredictionTypes, ServerTypes, WayTypes, ClientTypes
<1>4. Len(predictor.pending) = 0 /\ Len(up) = 0 /\ Len(inputs) = 0 /\ Len(down) = 0
  BY <1>1, <1>2 DEF Init
<1>5. RenderedAgrees
  BY <1>2 DEF RenderedAgrees
<1>6. BufferInv /\ NumbersInv /\ AheadInv
  <2>1. BufferInv
    BY <1>1, <1>4 DEF BufferInv, PredictionConstants
  <2>2. own.processed = 0 /\ own.accepted = 0
    BY DEF Init
  <2>3. NumbersInv
    BY <1>1, <1>2, <1>4, <2>2 DEF NumbersInv
  <2>4. AheadInv
    BY <1>1, <1>2, <1>4, <2>2 DEF AheadInv
  <2>5. QED
    BY <2>1, <2>3, <2>4
<1>7. synced = FALSE /\ wanted = TRUE
  BY DEF Init
<1>8. PoseInv /\ AckInv /\ RemoteInv
  BY <1>1, <1>4, <1>7
  DEF PoseInv, LatestPose, KnownPose, AckInv, AcksProcessed, LatestAck, KnownAck, RemoteInv
<1>9. QED
  BY <1>3, <1>5, <1>6, <1>8 DEF PredictionInv

LEMMA PredictionStays ==
  ASSUME PredictionConstants, PredictionInv, [Next]_predictionVars
  PROVE  PredictionInv'
<1>1. \A d \in Steps : d \in Int /\ -d \in Int
  BY DEF PredictionConstants
<1>2. ASSUME NEW d \in Steps, PredictMove(d) \/ LegacyMove(-d)
      PROVE  PredictionInv'
  BY <1>1, <1>2, StepPredictMove, StepLegacyMove
<1>3. CASE StepRender
  BY <1>3, StepRenders
<1>4. ASSUME NEW resets \in BOOLEAN, Reconnect(resets)
      PROVE  PredictionInv'
  BY <1>4, StepReconnect
<1>5. CASE ReceiveMove \/ LoseMove
  BY <1>5, StepReceiveMove, StepLoseMove
<1>6. ASSUME NEW d \in Steps \cup {0}, NEW applied \in BOOLEAN, Tick(d, applied)
      PROVE  PredictionInv'
  <2>1. d \in Int
    BY <1>1
  <2>2. QED
    BY <1>6, <2>1, StepTick
<1>7. CASE LoseUpdate \/ OtherLogin \/ OtherLogout
  BY <1>7, StepLoseUpdate, StepOther
<1>8. CASE Receive
  BY <1>8, StepReceive
<1>9. CASE UNCHANGED predictionVars
  BY <1>9
  DEF predictionVars, PredictionInv, PredictionTypes, ServerTypes, WayTypes, ClientTypes,
      RenderedAgrees, BufferInv, NumbersInv, AheadInv, PoseInv, LatestPose, KnownPose, AckInv,
      AcksProcessed, LatestAck, KnownAck, RemoteInv, LatestRemote, LatestPlayers, KnownPlayer,
      KnownRemote, HasPose, NoPoseAfter, WholeAfter, AcksAll, AckedFrom, IsSnapshot,
      PendingBeyond, NoSnapshotAfter, TellsOther, NoneTellsAfter
<1>10. QED
  BY <1>2, <1>3, <1>4, <1>5, <1>6, <1>7, <1>8, <1>9 DEF Next

\* The invariant holds whatever is refused, lost or delayed on the way.
THEOREM PredictionInvariant ==
  ASSUME PredictionConstants
  PROVE  Spec => []PredictionInv
<1>1. Init => PredictionInv
  BY PredictionInitial
<1>2. PredictionInv /\ [Next]_predictionVars => PredictionInv'
  BY PredictionStays
<1>3. QED
  BY <1>1, <1>2, PTL DEF Spec

\* For any sizes of buffers and any Moves, a client that has heard all there is
\* predicts exactly the authoritative pose and the inputs it does not include.
THEOREM PredictionIsExact ==
  ASSUME PredictionConstants
  PROVE  Spec => []PredictionExact
<1>1. PredictionInv => PredictionExact
  <2>1. SUFFICES ASSUME PredictionInv, synced, down = <<>>, ~missed
                 PROVE  /\ predictor.predicted = own.pos + total(predictor.pending)
                        /\ \A i \in ToSet(predictor.pending) : i.seq > own.processed
                        /\ \A i \in ToSet(up \o inputs) :
                             i.seq # 0 => i \in ToSet(predictor.pending)
    BY DEF PredictionExact
  <2>2. Len(down) = 0
    BY <2>1, EmptySeq
  <2>3. WholeAfter(0) /\ NoPoseAfter(0) /\ ~AckedFrom(1)
    BY <2>1, <2>2 DEF WholeAfter, NoPoseAfter, AckedFrom
  <2>4. predictor.predicted = own.pos + total(predictor.pending)
    BY <2>1, <2>3 DEF PredictionInv, PoseInv, KnownPose
  <2>5. PendingBeyond
    BY <2>1, <2>3 DEF PredictionInv, AckInv, KnownAck
  <2>6. \A i \in ToSet(predictor.pending) : i.seq > own.processed
    BY <2>5 DEF PendingBeyond, ToSet
  <2> DEFINE c == up \o inputs
  <2>7. up \in Seq(Move) /\ inputs \in Seq(Move)
    BY <2>1 DEF PredictionInv, PredictionTypes, ServerTypes, WayTypes
  <2>8. HasParts(up, inputs, c)
    BY <2>7, TwoParts
  <2>9. /\ \A k \in 1..Len(up) :
             up[k].seq # 0 => \E j \in 1..Len(predictor.pending) : predictor.pending[j] = up[k]
        /\ \A k \in 1..Len(inputs) :
             inputs[k].seq # 0 =>
               \E j \in 1..Len(predictor.pending) : predictor.pending[j] = inputs[k]
    BY <2>1 DEF PredictionInv, NumbersInv
  <2> HIDE DEF c
  <2>10. \A k \in 1..Len(c) :
           c[k].seq # 0 => \E j \in 1..Len(predictor.pending) : predictor.pending[j] = c[k]
    BY <2>8, <2>9 DEF HasParts
  <2>11. \A i \in ToSet(c) : i.seq # 0 => i \in ToSet(predictor.pending)
    BY <2>10 DEF ToSet
  <2>12. QED
    BY <2>4, <2>6, <2>11 DEF c
<1>2. QED
  BY <1>1, PredictionInvariant, PTL

\* Where the buffer holds no more inputs than the server admits ahead, no Move
\* of the first session is too far ahead, whatever was lost before it.
THEOREM StaysWithinAdmission ==
  ASSUME PredictionConstants
  PROVE  Spec => []WithinAdmission
<1>1. PredictionInv => WithinAdmission
  <2>1. SUFFICES ASSUME PredictionInv, up # <<>>, own.session = 1
                 PROVE  Head(up).seq - own.accepted <= MaxAhead
    BY DEF WithinAdmission
  <2> DEFINE n == Len(predictor.pending)
             first == predictor.lastInput - n
             q == up[1].seq
  <2>2. /\ own.accepted \in Nat /\ own.processed \in Nat /\ predictor.lastInput \in Nat
        /\ predictor.pending \in Seq(Move) /\ up \in Seq(Move)
    BY <2>1
    DEF PredictionInv, PredictionTypes, ServerTypes, WayTypes, ClientTypes, OwnPlayer, Predictor
  <2>3. Head(up) = up[1] /\ 1 \in 1..Len(up)
    BY <2>1, <2>2, LenProperties, EmptySeq
  <2>4. q \in Nat
    BY <2>2, <2>3, MoveFields
  <2>5. n \in Nat /\ n <= MaxAhead /\ MaxAhead \in Nat
    <3>1. n \in Nat /\ n <= MaxPredictions
      BY <2>1, <2>2, LenProperties DEF PredictionInv, BufferInv
    <3> HIDE DEF n
    <3>2. QED
      BY <3>1 DEF PredictionConstants
  <2>6. /\ first <= own.processed /\ own.processed <= own.accepted
        /\ \A k \in 1..n : predictor.pending[k].seq = first + k
    BY <2>1 DEF PredictionInv, AheadInv, NumbersInv
  <2>7. q # 0 => \E j \in 1..n : predictor.pending[j] = up[1]
    BY <2>1, <2>3 DEF PredictionInv, NumbersInv
  <2>8. q # 0 => \E j \in 1..n : q = first + j
    BY <2>6, <2>7
  <2> HIDE DEF n, q
  <2>9. q - own.accepted <= MaxAhead
    BY <2>2, <2>4, <2>5, <2>6, <2>8
  <2>10. QED
    BY <2>3, <2>9 DEF q
<1>2. QED
  BY <1>1, PredictionInvariant, PTL

\* What is drawn differs from what is predicted only while it is corrected.
THEOREM RenderingAgrees ==
  ASSUME PredictionConstants
  PROVE  Spec => []RenderedAgrees
<1>1. PredictionInv => RenderedAgrees
  BY DEF PredictionInv
<1>2. QED
  BY <1>1, PredictionInvariant, PTL

\* A client that has heard all there is knows the other player's session and its
\* authoritative pose.
THEOREM RemotesAreExact ==
  ASSUME PredictionConstants
  PROVE  Spec => []RemotesExact
<1>1. PredictionInv => RemotesExact
  <2>1. SUFFICES ASSUME PredictionInv, synced, down = <<>>, ~missed, ~wanted, other.session # 0
                 PROVE  /\ other.session \in DOMAIN remotes
                        /\ remotes[other.session] = other.pos
    BY DEF RemotesExact
  <2>2. Len(down) = 0
    BY <2>1, EmptySeq
  <2>3. WholeAfter(0) /\ NoSnapshotAfter(0) /\ NoneTellsAfter(0)
    BY <2>1, <2>2 DEF WholeAfter, NoSnapshotAfter, NoneTellsAfter
  <2>4. QED
    BY <2>1, <2>3 DEF PredictionInv, RemoteInv, KnownPlayer, KnownRemote
<1>2. QED
  BY <1>1, PredictionInvariant, PTL
==============================================================================
