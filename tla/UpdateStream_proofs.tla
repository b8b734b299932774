------------------------ MODULE UpdateStream_proofs ------------------------
(***************************************************************************)
(* Proofs about UpdateStream, for any number of clients and any bounds.    *)
(***************************************************************************)
EXTENDS UpdateStream, SequenceTheorems, TLAPS

\* The frames that tell the truth about the applied events.
TrueFrame ==
  {f \in Frame :
     /\ f.seq < updateSequence
     /\ isEvent(f) => f.tells = {f.seq} /\ f.seq \in effects
     /\ f.kind = "snapshot" => f.tells = {e \in effects : e <= f.seq}}

StreamTypes ==
  /\ updateSequence \in Nat \ {0}
  /\ effects \subseteq 1..(updateSequence - 1)
  /\ wire \in [Clients -> Seq(TrueFrame)]
  /\ outbound \in [Clients -> Seq(TrueFrame)]
  /\ left \in [Clients -> Int]
  /\ link \in [Clients -> {"disconnected", "failed", "anonymous", "loggedIn"}]
  /\ hasSequence \in [Clients -> BOOLEAN]
  /\ needsSnapshot \in [Clients -> BOOLEAN]
  /\ expected \in [Clients -> Nat \ {0}]
  /\ view \in [Clients -> SUBSET Nat]

\* A client that has been failed by a full effect queue has lost a hazard and
\* will not connect again without asking for a Snapshot.
ViewKnown(c) ==
  (~needsSnapshot[c] /\ (isUp(c) \/ ~hasSequence[c]))
    => view[c] = {e \in effects : e < expected[c]}

StreamInv ==
  /\ StreamTypes
  /\ \A c \in Clients : left[c] > -1 => isUp(c)
  /\ \A c \in Clients : expected[c] <= updateSequence
  /\ \A c \in Clients : ViewKnown(c)

\* The LoginResponse tells nothing.
LEMMA LoginIsTrue ==
  ASSUME StreamTypes
  PROVE  Login \in TrueFrame
  BY DEF StreamTypes, TrueFrame, Login, Frame, isEvent

\* The queues before the updates of a tick hold true frames only.
LEMMA FlushedIsTrue ==
  ASSUME StreamTypes, NEW c \in Clients
  PROVE  /\ answered(c) \in Seq(TrueFrame)
         /\ flushed(c) \in Seq(TrueFrame)
         /\ canSend(c) => Head(answered(c)) \in TrueFrame
<1>1. answered(c) \in Seq(TrueFrame)
  BY LoginIsTrue DEF StreamTypes, answered
<1>2. answered(c) # <<>> => /\ Head(answered(c)) \in TrueFrame
                            /\ Tail(answered(c)) \in Seq(TrueFrame)
  BY <1>1, HeadTailProperties
<1>3. QED
  BY <1>1, <1>2 DEF flushed, canSend

\* What a tick does to the numbers and the applied events.
LEMMA TickNumbers ==
  ASSUME StreamTypes, NEW n \in Nat, NEW hazard \in BOOLEAN, NEW applied \in BOOLEAN,
         Tick(n, hazard, applied)
  PROVE  /\ updateSequence' \in Nat \ {0}
         /\ sequenceAfter(n, hazard) \in Nat
         /\ updateSequence <= sequenceAfter(n, hazard)
         /\ sequenceAfter(n, hazard) <= updateSequence'
         /\ snapshotTriggers # {} => sequenceAfter(n, hazard) < updateSequence'
         /\ effects' \subseteq 1..(updateSequence' - 1)
         /\ effects' \subseteq 1..(sequenceAfter(n, hazard) - 1)
         /\ \A e \in Nat : e < updateSequence => (e \in effects' <=> e \in effects)
         /\ applied => updateSequence..(sequenceAfter(n, hazard) - 1) \subseteq effects'
  BY DEF StreamTypes, Tick, sequenceAfter, effectsAfter

\* A frame that tells the truth does so after the tick as well.
LEMMA TickKeepsTrue ==
  ASSUME StreamTypes, NEW n \in Nat, NEW hazard \in BOOLEAN, NEW applied \in BOOLEAN,
         Tick(n, hazard, applied)
  PROVE  TrueFrame \subseteq TrueFrame'
<1> SUFFICES ASSUME NEW f \in TrueFrame PROVE f \in TrueFrame'
  OBVIOUS
<1>0. f \in Frame /\ f.seq \in Nat /\ f.seq < updateSequence
  BY DEF TrueFrame, Frame
<1>1. f.seq < updateSequence'
  <2>1. /\ updateSequence \in Nat /\ updateSequence' \in Nat
        /\ sequenceAfter(n, hazard) \in Nat
        /\ updateSequence <= sequenceAfter(n, hazard)
        /\ sequenceAfter(n, hazard) <= updateSequence'
    BY TickNumbers DEF StreamTypes
  <2>2. QED
    BY <2>1, <1>0
<1>2. isEvent(f) => f.tells = {f.seq} /\ f.seq \in effects'
  <2>1. \A e \in Nat : e < updateSequence => (e \in effects' <=> e \in effects)
    BY TickNumbers
  <2>2. isEvent(f) => f.tells = {f.seq} /\ f.seq \in effects
    BY DEF TrueFrame
  <2>3. QED
    BY <1>0, <2>1, <2>2
<1>3. {e \in effects' : e <= f.seq} = {e \in effects : e <= f.seq}
  <2>1. /\ \A e \in Nat : e < updateSequence => (e \in effects' <=> e \in effects)
        /\ effects' \subseteq Nat /\ effects \subseteq Nat /\ updateSequence \in Nat
    BY TickNumbers DEF StreamTypes
  <2>2. ASSUME NEW e \in Nat, e <= f.seq PROVE e \in effects' <=> e \in effects
    <3>1. e < updateSequence
      BY <1>0, <2>1, <2>2
    <3>2. QED
      BY <2>1, <3>1
  <2>3. QED
    BY <2>1, <2>2
<1>4. QED
  BY <1>0, <1>1, <1>2, <1>3 DEF TrueFrame, isEvent

\* The updates of a tick tell the truth after it.
LEMMA UpdatesAreTrue ==
  ASSUME StreamTypes, NEW n \in Nat, NEW hazard \in BOOLEAN, NEW applied \in BOOLEAN,
         Tick(n, hazard, applied)
  PROVE  updates(n, hazard, applied) \in Seq(TrueFrame')
<1> DEFINE next == sequenceAfter(n, hazard)
           events == [i \in 1..n |-> Event(updateSequence + i - 1)]
<1>1. ASSUME applied PROVE events \in Seq(TrueFrame')
  <2>1. ASSUME NEW i \in 1..n PROVE Event(updateSequence + i - 1) \in TrueFrame'
    <3>1. /\ updateSequence + i - 1 \in Nat
          /\ updateSequence + i - 1 < updateSequence'
          /\ updateSequence + i - 1 \in updateSequence..(next - 1)
      BY TickNumbers DEF StreamTypes, sequenceAfter
    <3>2. updateSequence + i - 1 \in effects'
      BY <3>1, <1>1, TickNumbers
    <3>3. QED
      BY <3>1, <3>2 DEF TrueFrame, Frame, Event, isEvent
  <2>2. events \in [1..n -> TrueFrame']
    BY <2>1
  <2>3. QED
    BY <2>2, SeqDef
<1>2. ASSUME hazard PROVE Hazard(next - 1) \in TrueFrame'
  <2>1. applied /\ next - 1 \in updateSequence..(next - 1) /\ next - 1 \in Nat
    BY <1>2, TickNumbers DEF Tick, sequenceAfter, StreamTypes
  <2>2. next - 1 \in effects'
    BY <2>1, TickNumbers
  <2>3. next \in Nat /\ updateSequence' \in Nat /\ next <= updateSequence'
    BY TickNumbers
  <2>4. next - 1 < updateSequence'
    BY <2>3
  <2>5. QED
    BY <2>1, <2>2, <2>4 DEF TrueFrame, Frame, Hazard, isEvent
<1>3. ASSUME snapshotTriggers # {}
      PROVE  Snapshot(next, effectsAfter(n, hazard, applied)) \in TrueFrame'
  <2>1. effectsAfter(n, hazard, applied) = effects'
    BY DEF Tick
  <2>2. effects' = {e \in effects' : e <= next} /\ effects' \in SUBSET Nat
    BY TickNumbers
  <2>3. next \in Nat /\ next < updateSequence'
    BY <1>3, TickNumbers
  <2>4. QED
    BY <2>1, <2>2, <2>3 DEF TrueFrame, Frame, Snapshot, isEvent
<1>4. ASSUME applied PROVE built(n, hazard) \in Seq(TrueFrame')
  <2>1. (IF hazard THEN <<Hazard(next - 1)>> ELSE <<>>) \in Seq(TrueFrame')
    BY <1>2
  <2>2. QED
    BY <2>1, <1>1, <1>4, ConcatProperties DEF built
<1>5. (IF applied THEN built(n, hazard) ELSE <<>>) \in Seq(TrueFrame')
  BY <1>4
<1>6. (IF snapshotTriggers = {} THEN <<>>
       ELSE <<Snapshot(next, effectsAfter(n, hazard, applied))>>) \in Seq(TrueFrame')
  BY <1>3
<1>7. QED
  BY <1>5, <1>6, ConcatProperties DEF updates

-----------------------------------------------------------------------------

\* A step of a client leaves the server's history alone, and so the truth.
LEMMA ClientKeepsTrue ==
  ASSUME UNCHANGED serverVars
  PROVE  TrueFrame' = TrueFrame /\ updateSequence' = updateSequence /\ effects' = effects
  BY DEF serverVars, TrueFrame

\* The frame that is handled is one of the wire, which is then shorter.
LEMMA HandledIsTrue ==
  ASSUME StreamTypes, NEW c \in Clients,
         NEW f \in {wire[c][i] : i \in 1..Len(wire[c])}
  PROVE  /\ f \in TrueFrame
         /\ Tail(wire[c]) \in Seq(TrueFrame)
         /\ \A k \in Nat : SubSeq(wire[c], k + 1, Len(wire[c])) \in Seq(TrueFrame)
<1>1. wire[c] \in Seq(TrueFrame)
  BY DEF StreamTypes
<1>2. f \in TrueFrame
  BY <1>1, ElementOfSeq
<1>3. wire[c] # <<>>
  BY <1>1
<1>4. Tail(wire[c]) \in Seq(TrueFrame)
  BY <1>1, <1>3, HeadTailProperties
<1>5. ASSUME NEW k \in Nat PROVE SubSeq(wire[c], k + 1, Len(wire[c])) \in Seq(TrueFrame)
  <2>1. Len(wire[c]) \in Nat
    BY <1>1, LenProperties
  <2>2. \A i \in (k + 1)..Len(wire[c]) : wire[c][i] \in TrueFrame
    BY <1>1, <2>1, ElementOfSeq
  <2>3. QED
    BY <1>1, <2>1, SubSeqProperties
<1>6. QED
  BY <1>2, <1>4, <1>5

\* A tick of the server.
LEMMA TickStep ==
  ASSUME StreamInv, NEW n \in Nat, NEW hazard \in BOOLEAN, NEW applied \in BOOLEAN,
         Tick(n, hazard, applied)
  PROVE  StreamInv'
<1> DEFINE u == updates(n, hazard, applied)
<1>0. StreamTypes
  BY DEF StreamInv
<1>1. UNCHANGED <<link, left, hasSequence, needsSnapshot, expected, view>>
  BY DEF Tick, trackerVars
<1>2. TrueFrame \subseteq TrueFrame'
  BY <1>0, TickKeepsTrue
<1>3. wire' \in [Clients -> Seq(TrueFrame')]
  <2>1. ASSUME NEW c \in Clients PROVE wire'[c] \in Seq(TrueFrame')
    <3>1. wire[c] \in Seq(TrueFrame') /\ (canSend(c) => Head(answered(c)) \in TrueFrame')
      BY <1>0, <1>2, FlushedIsTrue, SeqMonotonic DEF StreamTypes
    <3>2. wire'[c] = IF canSend(c) THEN Append(wire[c], Head(answered(c))) ELSE wire[c]
      BY DEF Tick
    <3>3. QED
      BY <3>1, <3>2, AppendProperties
  <2>2. wire' = [c \in Clients |-> wire'[c]]
    BY DEF Tick
  <2>3. QED
    BY <2>1, <2>2
<1>4. outbound' \in [Clients -> Seq(TrueFrame')]
  <2>1. u \in Seq(TrueFrame')
    BY <1>0, UpdatesAreTrue
  <2>2. PICK share \in [Clients -> 0..Len(u)] :
          outbound' = [c \in Clients |-> flushed(c) \o SubSeq(u, 1, share[c])]
    BY DEF Tick, publish
  <2>3. ASSUME NEW c \in Clients PROVE flushed(c) \o SubSeq(u, 1, share[c]) \in Seq(TrueFrame')
    <3>1. flushed(c) \in Seq(TrueFrame')
      BY <1>0, <1>2, FlushedIsTrue, SeqMonotonic
    <3>2. Len(u) \in Nat /\ share[c] \in 0..Len(u)
      BY <2>1, <2>2, LenProperties
    <3>3. SubSeq(u, 1, share[c]) \in Seq(TrueFrame')
      <4>1. \A i \in 1..share[c] : u[i] \in TrueFrame'
        BY <2>1, <3>2, ElementOfSeq
      <4>2. QED
        BY <2>1, <3>2, <4>1, SubSeqProperties
    <3>4. QED
      BY <3>1, <3>3, ConcatProperties
  <2>4. QED
    BY <2>2, <2>3
<1>5. StreamTypes'
  <2>1. updateSequence' \in Nat \ {0} /\ effects' \subseteq 1..(updateSequence' - 1)
    BY <1>0, TickNumbers
  <2>2. QED
    BY <1>0, <1>1, <1>3, <1>4, <2>1 DEF StreamTypes
<1>6. ASSUME NEW c \in Clients PROVE expected[c] <= updateSequence'
  <2>1. /\ updateSequence \in Nat /\ updateSequence' \in Nat
        /\ sequenceAfter(n, hazard) \in Nat
        /\ updateSequence <= sequenceAfter(n, hazard)
        /\ sequenceAfter(n, hazard) <= updateSequence'
    BY <1>0, TickNumbers DEF StreamTypes
  <2>2. expected[c] \in Nat /\ expected[c] <= updateSequence
    BY DEF StreamInv, StreamTypes
  <2>3. QED
    BY <2>1, <2>2
<1>7. ASSUME NEW c \in Clients PROVE ViewKnown(c)'
  <2>1. /\ \A e \in Nat : e < updateSequence => (e \in effects' <=> e \in effects)
        /\ effects' \subseteq Nat /\ effects \subseteq Nat /\ updateSequence \in Nat
    BY <1>0, TickNumbers DEF StreamTypes
  <2>2. expected[c] \in Nat /\ expected[c] <= updateSequence
    BY DEF StreamInv, StreamTypes
  <2>3. ASSUME NEW e \in Nat, e < expected[c] PROVE e \in effects' <=> e \in effects
    <3>1. e < updateSequence
      BY <2>1, <2>2, <2>3
    <3>2. QED
      BY <2>1, <3>1
  <2>4. {e \in effects' : e < expected[c]} = {e \in effects : e < expected[c]}
    BY <2>1, <2>3
  <2>5. ViewKnown(c)
    BY DEF StreamInv
  <2>6. QED
    BY <1>1, <2>4, <2>5 DEF ViewKnown, isUp
<1>8. QED
  BY <1>1, <1>5, <1>6, <1>7 DEF StreamInv, isUp

\* A step that brings client c down, with or without having counted a frame.
LEMMA DownStep ==
  ASSUME StreamInv, NEW c \in Clients, NEW state \in {"disconnected", "failed"},
         link' = [link EXCEPT ![c] = state], dropConnection(c),
         UNCHANGED <<serverVars, needsSnapshot, view>>,
         \/ isUp(c) /\ UNCHANGED <<hasSequence, expected>>
         \/ \E m \in Nat : /\ m < updateSequence
                           /\ hasSequence' = [hasSequence EXCEPT ![c] = TRUE]
                           /\ expected' = [expected EXCEPT ![c] = m + 1]
  PROVE  StreamInv'
<1>0. TrueFrame' = TrueFrame /\ updateSequence' = updateSequence /\ effects' = effects
  BY ClientKeepsTrue
<1>t. StreamTypes /\ updateSequence \in Nat
  BY DEF StreamInv, StreamTypes
<1>1. StreamTypes'
  <2>1. /\ wire' \in [Clients -> Seq(TrueFrame)] /\ outbound' \in [Clients -> Seq(TrueFrame)]
        /\ left' \in [Clients -> Int]
    BY <1>t DEF StreamTypes, dropConnection
  <2>2. hasSequence' \in [Clients -> BOOLEAN] /\ expected' \in [Clients -> Nat \ {0}]
    <3>1. CASE UNCHANGED <<hasSequence, expected>>
      BY <1>t, <3>1 DEF StreamTypes
    <3>2. ASSUME NEW m \in Nat, hasSequence' = [hasSequence EXCEPT ![c] = TRUE],
                 expected' = [expected EXCEPT ![c] = m + 1]
          PROVE  hasSequence' \in [Clients -> BOOLEAN] /\ expected' \in [Clients -> Nat \ {0}]
      <4>1. m + 1 \in Nat \ {0}
        OBVIOUS
      <4>2. QED
        BY <1>t, <3>2, <4>1 DEF StreamTypes
    <3>3. QED
      BY <3>1, <3>2
  <2>3. link' \in [Clients -> {"disconnected", "failed", "anonymous", "loggedIn"}]
    BY <1>t DEF StreamTypes
  <2>4. QED
    BY <1>0, <1>t, <2>1, <2>2, <2>3 DEF StreamTypes
<1>2. \A d \in Clients : expected'[d] <= updateSequence'
  <2>1. \A d \in Clients : expected[d] <= updateSequence
    BY DEF StreamInv
  <2>2. CASE UNCHANGED expected
    BY <1>0, <2>1, <2>2
  <2>3. ASSUME NEW m \in Nat, m < updateSequence, expected' = [expected EXCEPT ![c] = m + 1]
        PROVE  \A d \in Clients : expected'[d] <= updateSequence'
    BY <1>0, <1>t, <2>1, <2>3 DEF StreamTypes
  <2>4. QED
    BY <2>2, <2>3
<1>3. \A d \in Clients : left'[d] > -1 => isUp(d)'
  BY DEF StreamInv, StreamTypes, dropConnection, isUp
<1>4. ASSUME NEW d \in Clients PROVE ViewKnown(d)'
  <2>1. CASE d = c
    BY <1>0, <2>1 DEF StreamInv, StreamTypes, ViewKnown, isUp
  <2>2. CASE d # c
    BY <1>0, <2>2 DEF StreamInv, StreamTypes, ViewKnown, isUp
  <2>3. QED
    BY <2>1, <2>2
<1>5. QED
  BY <1>1, <1>2, <1>3, <1>4 DEF StreamInv

\* A step that reads or drops frames of client c, and at most makes it want a
\* Snapshot or logs it in.
LEMMA QuietStep ==
  ASSUME StreamInv, NEW c \in Clients,
         UNCHANGED <<serverVars, outbound, hasSequence, expected, view>>,
         \/ UNCHANGED wire
         \/ \E w \in Seq(TrueFrame) : wire' = [wire EXCEPT ![c] = w],
         \/ UNCHANGED left
         \/ \E k \in Int : left' = [left EXCEPT ![c] = k] /\ (k > -1 => isUp(c)),
         UNCHANGED link \/ (isUp(c) /\ link' = [link EXCEPT ![c] = "loggedIn"]),
         UNCHANGED needsSnapshot \/ needsSnapshot' = [needsSnapshot EXCEPT ![c] = TRUE]
  PROVE  StreamInv'
<1>0. TrueFrame' = TrueFrame /\ updateSequence' = updateSequence /\ effects' = effects
  BY ClientKeepsTrue
<1>1. StreamTypes'
  <2>1. wire' \in [Clients -> Seq(TrueFrame)]
    BY DEF StreamInv, StreamTypes
  <2>0. left' \in [Clients -> Int]
    BY DEF StreamInv, StreamTypes
  <2>2. /\ link' \in [Clients -> {"disconnected", "failed", "anonymous", "loggedIn"}]
        /\ needsSnapshot' \in [Clients -> BOOLEAN]
    BY DEF StreamInv, StreamTypes
  <2>3. QED
    BY <1>0, <2>0, <2>1, <2>2 DEF StreamInv, StreamTypes
<1>2. \A d \in Clients : expected'[d] <= updateSequence'
  BY <1>0 DEF StreamInv
<1>3. \A d \in Clients : isUp(d)' <=> isUp(d)
  BY DEF StreamInv, StreamTypes, isUp
<1>4. \A d \in Clients : left'[d] > -1 => isUp(d)'
  BY <1>3 DEF StreamInv, StreamTypes
<1>5. \A d \in Clients : ~needsSnapshot'[d] => ~needsSnapshot[d]
  BY DEF StreamInv, StreamTypes
<1>6. \A d \in Clients : ViewKnown(d)'
  BY <1>0, <1>3, <1>5 DEF StreamInv, ViewKnown
<1>7. QED
  BY <1>1, <1>2, <1>4, <1>6 DEF StreamInv

\* A frame that is applied.
LEMMA AppliedStep ==
  ASSUME StreamInv, NEW c \in Clients, NEW f \in TrueFrame, isUp(c),
         wire' = [wire EXCEPT ![c] = Tail(wire[c])], Tail(wire[c]) \in Seq(TrueFrame),
         left' = [left EXCEPT ![c] = left[c] - 1],
         hasSequence' = [hasSequence EXCEPT ![c] = TRUE],
         expected' = [expected EXCEPT ![c] = f.seq + 1],
         UNCHANGED <<serverVars, outbound, link>>,
         \/ /\ f.kind = "snapshot"
            /\ needsSnapshot' = [needsSnapshot EXCEPT ![c] = FALSE]
            /\ view' = [view EXCEPT ![c] = f.tells]
         \/ /\ isEvent(f) /\ f.seq = expected[c] /\ ~needsSnapshot[c]
            /\ UNCHANGED needsSnapshot
            /\ view' = [view EXCEPT ![c] = view[c] \cup f.tells]
  PROVE  StreamInv'
<1>0. TrueFrame' = TrueFrame /\ updateSequence' = updateSequence /\ effects' = effects
  BY ClientKeepsTrue
<1>1. f.seq \in Nat /\ f.seq < updateSequence /\ f.tells \in SUBSET Nat
  BY DEF TrueFrame, Frame
<1>2. effects \subseteq Nat /\ updateSequence \in Nat /\ expected[c] \in Nat
  BY DEF StreamInv, StreamTypes
<1>3. StreamTypes'
  <2>1. wire' \in [Clients -> Seq(TrueFrame)] /\ left' \in [Clients -> Int]
    BY DEF StreamInv, StreamTypes
  <2>2. needsSnapshot' \in [Clients -> BOOLEAN] /\ hasSequence' \in [Clients -> BOOLEAN]
    BY DEF StreamInv, StreamTypes
  <2>3. expected' \in [Clients -> Nat \ {0}]
    BY <1>1 DEF StreamInv, StreamTypes
  <2>4. view' \in [Clients -> SUBSET Nat]
    <3>1. view[c] \cup f.tells \in SUBSET Nat
      BY <1>1 DEF StreamInv, StreamTypes
    <3>2. QED
      BY <1>1, <3>1 DEF StreamInv, StreamTypes
  <2>5. QED
    BY <1>0, <2>1, <2>2, <2>3, <2>4 DEF StreamInv, StreamTypes
<1>4. \A d \in Clients : expected'[d] <= updateSequence'
  BY <1>0, <1>1, <1>2 DEF StreamInv, StreamTypes
<1>5. \A d \in Clients : left'[d] > -1 => isUp(d)'
  BY DEF StreamInv, StreamTypes, isUp
<1>6. view'[c] = {e \in effects : e < f.seq + 1}
  <2>1. \A e \in effects : e < f.seq + 1 <=> e <= f.seq
    BY <1>1, <1>2
  <2>2. CASE f.kind = "snapshot"
    <3>1. f.tells = {e \in effects : e <= f.seq} /\ ~isEvent(f)
      BY <2>2 DEF TrueFrame, isEvent
    <3>2. view'[c] = f.tells
      BY <3>1 DEF StreamInv, StreamTypes
    <3>3. QED
      BY <2>1, <3>1, <3>2
  <2>3. CASE isEvent(f) /\ f.seq = expected[c] /\ ~needsSnapshot[c]
    <3>1. f.tells = {f.seq} /\ f.seq \in effects /\ f.kind # "snapshot"
      BY <2>3 DEF TrueFrame, isEvent
    <3>2. view[c] = {e \in effects : e < f.seq}
      BY <2>3 DEF StreamInv, ViewKnown
    <3>3. view'[c] = view[c] \cup {f.seq}
      BY <3>1 DEF StreamInv, StreamTypes
    <3>4. \A e \in effects : e < f.seq + 1 <=> (e < f.seq \/ e = f.seq)
      BY <1>1, <1>2
    <3>5. QED
      BY <3>1, <3>2, <3>3, <3>4
  <2>4. QED
    BY <2>2, <2>3
<1>7. ASSUME NEW d \in Clients PROVE ViewKnown(d)'
  <2>1. CASE d = c
    <3>1. expected'[d] = f.seq + 1
      BY <2>1 DEF StreamInv, StreamTypes
    <3>2. QED
      BY <1>0, <1>6, <2>1, <3>1 DEF ViewKnown
  <2>2. CASE d # c
    <3>1. /\ needsSnapshot'[d] = needsSnapshot[d] /\ hasSequence'[d] = hasSequence[d]
          /\ expected'[d] = expected[d] /\ view'[d] = view[d] /\ isUp(d)' = isUp(d)
      BY <2>2 DEF StreamInv, StreamTypes, isUp
    <3>2. QED
      BY <1>0, <3>1 DEF StreamInv, ViewKnown
  <2>3. QED
    BY <2>1, <2>2
<1>8. QED
  BY <1>3, <1>4, <1>5, <1>7 DEF StreamInv

-----------------------------------------------------------------------------

\* The invariant holds in the first state.
LEMMA StreamInvInit ==
  ASSUME Init
  PROVE  StreamInv
<1>1. StreamTypes
  BY DEF Init, StreamTypes
<1>2. \A c \in Clients : left[c] = -1 /\ expected[c] = 1 /\ view[c] = {}
  BY DEF Init
<1>3. updateSequence = 1 /\ effects = {}
  BY DEF Init
<1>4. \A c \in Clients : ViewKnown(c)
  BY <1>2, <1>3 DEF ViewKnown
<1>5. QED
  BY <1>1, <1>2, <1>3, <1>4 DEF StreamInv

\* Every frame that a client handles keeps it.
LEMMA HandleStep ==
  ASSUME StreamInv, NEW c \in Clients, Handle(c)
  PROVE  StreamInv'
<1>0. PICK f \in {wire[c][i] : i \in 1..Len(wire[c])} :
        \/ LoginResponse(c, f) \/ ApplySnapshot(c, f) \/ SkipEvent(c, f)
        \/ ApplyEvent(c, f) \/ Gap(c, f) \/ Backpressure(c, f)
  BY DEF Handle
<1>1. left[c] > 0 /\ left[c] \in Int
  BY <1>0 DEF handles, LoginResponse, ApplySnapshot, SkipEvent, ApplyEvent, Gap,
              Backpressure, StreamInv, StreamTypes
<1>2. isUp(c)
  BY <1>1 DEF StreamInv
<1>3. /\ f \in TrueFrame /\ Tail(wire[c]) \in Seq(TrueFrame)
      /\ SubSeq(wire[c], left[c] + 1, Len(wire[c])) \in Seq(TrueFrame)
  BY <1>1, HandledIsTrue DEF StreamInv
<1>4. f.seq \in Nat /\ f.seq < updateSequence
  BY <1>3 DEF TrueFrame, Frame
<1>5. CASE LoginResponse(c, f)
  <2>1. /\ UNCHANGED <<serverVars, outbound, hasSequence, expected, view, needsSnapshot>>
        /\ wire' = [wire EXCEPT ![c] = Tail(wire[c])]
        /\ left' = [left EXCEPT ![c] = left[c] - 1]
        /\ link' = [link EXCEPT ![c] = "loggedIn"]
    BY <1>5 DEF LoginResponse, consume, connectionVars, trackerVars
  <2>2. left[c] - 1 \in Int
    BY <1>1
  <2>3. QED
    BY <1>2, <1>3, <2>1, <2>2, QuietStep
<1>6. CASE ApplySnapshot(c, f)
  BY <1>2, <1>3, <1>6, AppliedStep DEF ApplySnapshot, consume, connectionVars
<1>7. CASE SkipEvent(c, f)
  <2>1. /\ UNCHANGED <<serverVars, outbound, hasSequence, expected, view, needsSnapshot, link>>
        /\ wire' = [wire EXCEPT ![c] = Tail(wire[c])]
        /\ left' = [left EXCEPT ![c] = left[c] - 1]
    BY <1>7 DEF SkipEvent, consume, connectionVars, trackerVars
  <2>2. left[c] - 1 \in Int
    BY <1>1
  <2>3. QED
    BY <1>2, <1>3, <2>1, <2>2, QuietStep
<1>8. CASE ApplyEvent(c, f)
  <2>1. view' = [view EXCEPT ![c] = view[c] \cup f.tells]
    BY <1>8 DEF ApplyEvent
  <2>2. QED
    BY <1>2, <1>3, <1>8, <2>1, AppliedStep DEF ApplyEvent, accept, consume, connectionVars
<1>9. CASE Gap(c, f)
  <2>1. /\ UNCHANGED <<serverVars, outbound, hasSequence, expected, view, link>>
        /\ wire' = [wire EXCEPT ![c] = SubSeq(wire[c], left[c] + 1, Len(wire[c]))]
        /\ left' = [left EXCEPT ![c] = 0]
        /\ needsSnapshot' = [needsSnapshot EXCEPT ![c] = TRUE]
    BY <1>9 DEF Gap, connectionVars
  <2>2. 0 \in Int
    OBVIOUS
  <2>3. QED
    BY <1>2, <1>3, <2>1, <2>2, QuietStep
<1>10. CASE Backpressure(c, f)
  BY <1>4, <1>10, DownStep DEF Backpressure
<1>11. QED
  BY <1>0, <1>5, <1>6, <1>7, <1>8, <1>9, <1>10

\* A connection that is made asks for a Snapshot unless nothing is known yet.
LEMMA ConnectStep ==
  ASSUME StreamInv, NEW c \in Clients, Connect(c)
  PROVE  StreamInv'
<1>0. TrueFrame' = TrueFrame /\ updateSequence' = updateSequence /\ effects' = effects
  BY ClientKeepsTrue DEF Connect
<1>1. UNCHANGED <<outbound, wire, left, hasSequence, expected, view>>
  BY DEF Connect
<1>2. /\ link' = [link EXCEPT ![c] = "anonymous"]
      /\ \/ ~hasSequence[c] /\ ~needsSnapshot[c] /\ UNCHANGED needsSnapshot
         \/ needsSnapshot' = [needsSnapshot EXCEPT ![c] = TRUE]
  BY DEF Connect
<1>3. StreamTypes
  BY DEF StreamInv
<1>4. StreamTypes'
  <2>1. /\ link' \in [Clients -> {"disconnected", "failed", "anonymous", "loggedIn"}]
        /\ needsSnapshot' \in [Clients -> BOOLEAN]
    BY <1>2, <1>3 DEF StreamTypes
  <2>2. QED
    BY <1>0, <1>1, <1>3, <2>1 DEF StreamTypes
<1>5. \A d \in Clients : left'[d] > -1 => isUp(d)'
  BY <1>1, <1>2, <1>3 DEF StreamInv, StreamTypes, isUp
<1>6. ASSUME NEW d \in Clients PROVE ViewKnown(d)'
  <2>1. CASE d = c
    BY <1>0, <1>1, <1>2, <1>3, <2>1 DEF StreamInv, StreamTypes, ViewKnown
  <2>2. CASE d # c
    BY <1>0, <1>1, <1>2, <1>3, <2>2 DEF StreamInv, StreamTypes, ViewKnown, isUp
  <2>3. QED
    BY <2>1, <2>2
<1>7. QED
  BY <1>0, <1>1, <1>4, <1>5, <1>6 DEF StreamInv

\* StreamInv is inductive.
LEMMA StreamInvStep ==
  ASSUME StreamInv, [Next]_vars
  PROVE  StreamInv'
<1>1. CASE ServerTick
  <2>1. PICK n \in 0..MaxInputs, hazard \in BOOLEAN, applied \in BOOLEAN :
          Tick(n, hazard, applied)
    BY <1>1 DEF ServerTick
  <2>2. n \in Nat
    BY <2>1, StreamAssumption
  <2>3. QED
    BY <2>1, <2>2, TickStep
<1>2. ASSUME NEW c \in Clients, Connect(c) PROVE StreamInv'
  BY <1>2, ConnectStep
<1>3. ASSUME NEW c \in Clients, Close(c) PROVE StreamInv'
  BY <1>3, DownStep DEF Close, trackerVars
<1>4. ASSUME NEW c \in Clients, SnapshotWaitTimeout(c) PROVE StreamInv'
  <2>1. isUp(c)
    BY <1>4 DEF SnapshotWaitTimeout, isUp
  <2>2. QED
    BY <1>4, <2>1, DownStep DEF SnapshotWaitTimeout, trackerVars
<1>5. ASSUME NEW c \in Clients, NEW n \in 1..Len(wire[c]), Read(c, n) PROVE StreamInv'
  <2>1. /\ UNCHANGED <<serverVars, outbound, hasSequence, expected, view, needsSnapshot,
                        link, wire>>
        /\ left' = [left EXCEPT ![c] = n] /\ isUp(c)
    BY <1>5 DEF Read, connectionVars, trackerVars
  <2>2. n \in Int
    OBVIOUS
  <2>3. QED
    BY <2>1, <2>2, QuietStep
<1>6. ASSUME NEW c \in Clients, Handle(c) PROVE StreamInv'
  BY <1>6, HandleStep
<1>7. ASSUME NEW c \in Clients, EndRead(c) PROVE StreamInv'
  <2>1. /\ UNCHANGED <<serverVars, outbound, hasSequence, expected, view, needsSnapshot,
                        link, wire>>
        /\ left' = [left EXCEPT ![c] = -1]
    BY <1>7 DEF EndRead, connectionVars, trackerVars
  <2>2. -1 \in Int /\ ~(-1 > -1)
    OBVIOUS
  <2>3. QED
    BY <2>1, <2>2, QuietStep
<1>8. CASE UNCHANGED vars
  <2>1. TrueFrame' = TrueFrame
    BY <1>8, ClientKeepsTrue DEF vars, serverVars
  <2>2. QED
    BY <1>8, <2>1 DEF vars, StreamInv, StreamTypes, ViewKnown, isUp
<1>9. QED
  BY <1>1, <1>2, <1>3, <1>4, <1>5, <1>6, <1>7, <1>8 DEF Next

\* StreamInv holds in every reachable state.
LEMMA StreamInvHolds == Spec => []StreamInv
<1>1. Init => StreamInv
  BY StreamInvInit
<1>2. StreamInv /\ [Next]_vars => StreamInv'
  BY StreamInvStep
<1>3. QED
  BY <1>1, <1>2, PTL DEF Spec

\* A client that wants no Snapshot has the whole state below the update it
\* expects, however many clients there are and whatever the sizes of the
\* queues, the reads and the frames.
THEOREM ViewIsComplete == Spec => []ViewComplete
<1>1. StreamInv => ViewComplete
  BY DEF StreamInv, ViewKnown, ViewComplete, isUp
<1>2. QED
  BY <1>1, StreamInvHolds, PTL

-----------------------------------------------------------------------------
(* The order and the size of the queues *)

\* The updates of q, its LoginResponses left out, ascend from low and stay
\* below high.
numbered(q) == {i \in 1..Len(q) : q[i].kind # "login"}
Ascending(q, low, high) ==
  /\ q \in Seq(Frame)
  /\ \A i, j \in numbered(q) : i < j => q[i].seq < q[j].seq
  /\ \A i \in numbered(q) : low <= q[i].seq /\ q[i].seq < high

\* A sequence of frames has its length and numbers its frames with Nat.
LEMMA FramesAreNumbered ==
  ASSUME NEW q \in Seq(Frame)
  PROVE  Len(q) \in Nat /\ \A i \in 1..Len(q) : q[i] \in Frame /\ q[i].seq \in Nat
<1>1. Len(q) \in Nat /\ \A i \in 1..Len(q) : q[i] \in Frame
  BY LenProperties, ElementOfSeq
<1>2. QED
  BY <1>1 DEF Frame

\* What follows in the numbering may follow in the queue.
LEMMA AscendingConcat ==
  ASSUME NEW p, NEW q, NEW low \in Nat, NEW mid \in Nat, NEW high \in Nat,
         low <= mid, mid <= high, Ascending(p, low, mid), Ascending(q, mid, high)
  PROVE  Ascending(p \o q, low, high)
<1>1. /\ p \in Seq(Frame) /\ q \in Seq(Frame)
      /\ Len(p) \in Nat /\ Len(q) \in Nat
      /\ \A i \in 1..Len(p) : p[i].seq \in Nat
      /\ \A i \in 1..Len(q) : q[i].seq \in Nat
  BY FramesAreNumbered DEF Ascending
<1>2. /\ p \o q \in Seq(Frame)
      /\ Len(p \o q) = Len(p) + Len(q)
      /\ \A i \in 1 .. Len(p) + Len(q) : (p \o q)[i] =
                     IF i <= Len(p) THEN p[i] ELSE q[i - Len(p)]
  BY <1>1, ConcatProperties
<1> DEFINE r == p \o q
<1>3. ASSUME NEW i \in numbered(r)
      PROVE  \/ i \in numbered(p) /\ r[i] = p[i] /\ i <= Len(p)
             \/ i - Len(p) \in numbered(q) /\ r[i] = q[i - Len(p)] /\ i > Len(p)
  BY <1>1, <1>2 DEF numbered
<1> HIDE DEF r
<1>4. ASSUME NEW i \in numbered(r) PROVE low <= r[i].seq /\ r[i].seq < high
  <2>1. CASE i \in numbered(p) /\ r[i] = p[i]
    <3>1. r[i].seq \in Nat /\ low <= r[i].seq /\ r[i].seq < mid
      BY <2>1, <1>1 DEF Ascending, numbered
    <3>2. QED
      BY <3>1
  <2>2. CASE i - Len(p) \in numbered(q) /\ r[i] = q[i - Len(p)]
    <3>1. r[i].seq \in Nat /\ mid <= r[i].seq /\ r[i].seq < high
      BY <2>2, <1>1 DEF Ascending, numbered
    <3>2. QED
      BY <3>1
  <2>3. QED
    BY <1>3, <2>1, <2>2
<1>5. ASSUME NEW i \in numbered(r), NEW j \in numbered(r), i < j
      PROVE  r[i].seq < r[j].seq
  <2>0. i \in Nat /\ j \in Nat
    BY DEF numbered
  <2>1. CASE i \in numbered(p) /\ r[i] = p[i] /\ j \in numbered(p) /\ r[j] = p[j]
    BY <1>5, <2>1 DEF Ascending
  <2>2. CASE /\ i \in numbered(p) /\ r[i] = p[i]
             /\ j - Len(p) \in numbered(q) /\ r[j] = q[j - Len(p)]
    <3>1. /\ r[i].seq \in Nat /\ r[i].seq < mid
          /\ r[j].seq \in Nat /\ mid <= r[j].seq
      BY <2>2, <1>1 DEF Ascending, numbered
    <3>2. QED
      BY <3>1
  <2>3. CASE /\ i - Len(p) \in numbered(q) /\ r[i] = q[i - Len(p)]
             /\ j - Len(p) \in numbered(q) /\ r[j] = q[j - Len(p)]
    <3>1. i - Len(p) < j - Len(p)
      BY <1>1, <1>5, <2>0
    <3>2. QED
      BY <2>3, <3>1 DEF Ascending
  <2>4. i > Len(p) => j > Len(p)
    BY <1>1, <1>5, <2>0
  <2>5. QED
    BY <1>3, <2>0, <2>1, <2>2, <2>3, <2>4
<1>6. QED
  BY <1>2, <1>4, <1>5 DEF Ascending, r

\* What is left of a queue without its first k frames ascends as before, and
\* above the frame before it.
LEMMA AscendingRest ==
  ASSUME NEW p, NEW q \in Seq(Frame), NEW low \in Nat, NEW high \in Nat,
         NEW k \in Nat, Ascending(p, low, high),
         Len(p) = Len(q) + k, \A i \in 1..Len(q) : q[i] = p[i + k]
  PROVE  /\ Ascending(q, low, high)
         /\ k = 1 /\ p[1].kind # "login" => Ascending(q, p[1].seq + 1, high)
<1>1. /\ p \in Seq(Frame) /\ Len(p) \in Nat /\ Len(q) \in Nat
      /\ \A i \in 1..Len(p) : p[i].seq \in Nat
  BY FramesAreNumbered DEF Ascending
<1>2. ASSUME NEW i \in numbered(q) PROVE i \in 1..Len(q) /\ i + k \in numbered(p) /\ q[i] = p[i + k]
  BY <1>1 DEF numbered
<1>3. ASSUME NEW i \in numbered(q), NEW j \in numbered(q), i < j
      PROVE  q[i].seq < q[j].seq
  <2>1. i + k < j + k
    BY <1>2, <1>3
  <2>2. QED
    BY <1>2, <2>1 DEF Ascending
<1>4. ASSUME NEW i \in numbered(q) PROVE low <= q[i].seq /\ q[i].seq < high
  BY <1>2 DEF Ascending
<1>5. ASSUME k = 1, p[1].kind # "login", NEW i \in numbered(q)
      PROVE  p[1].seq + 1 <= q[i].seq
  <2>1. 1 \in numbered(p) /\ i + 1 \in numbered(p) /\ 1 < i + 1
    BY <1>1, <1>2, <1>5 DEF numbered
  <2>2. p[1].seq < p[i + 1].seq /\ q[i] = p[i + 1]
    BY <1>2, <1>5, <2>1 DEF Ascending
  <2>3. p[1].seq \in Nat /\ p[i + 1].seq \in Nat
    BY <1>1, <2>1 DEF numbered
  <2>4. QED
    BY <2>2, <2>3
<1>6. QED
  BY <1>3, <1>4, <1>5 DEF Ascending

\* The first frames of a queue ascend as the queue does.
LEMMA AscendingPrefix ==
  ASSUME NEW q, NEW low \in Nat, NEW high \in Nat, Ascending(q, low, high),
         NEW k \in 0..Len(q)
  PROVE  Ascending(SubSeq(q, 1, k), low, high) /\ Len(SubSeq(q, 1, k)) = k
<1>1. q \in Seq(Frame) /\ Len(q) \in Nat /\ \A i \in 1..Len(q) : q[i] \in Frame
  BY FramesAreNumbered DEF Ascending
<1> DEFINE r == SubSeq(q, 1, k)
<1>2. /\ r \in Seq(Frame) /\ Len(r) = IF 1 <= k THEN k - 1 + 1 ELSE 0
      /\ \A i \in 1 .. k - 1 + 1 : r[i] = q[1 + i - 1]
  <2>1. \A i \in 1..k : q[i] \in Frame
    BY <1>1
  <2>2. 1 \in Int /\ k \in Int
    BY <1>1
  <2>3. QED
    BY <2>1, <2>2, SubSeqProperties
<1> HIDE DEF r
<1>3. Len(r) = k /\ \A i \in 1..k : r[i] = q[i]
  BY <1>1, <1>2
<1>4. \A i \in numbered(r) : i \in numbered(q) /\ r[i] = q[i]
  BY <1>1, <1>3 DEF numbered
<1>5. QED
  BY <1>2, <1>3, <1>4 DEF Ascending, r

\* The bounds may be widened.
LEMMA AscendingWiden ==
  ASSUME NEW q, NEW low \in Nat, NEW high \in Nat, NEW higher \in Nat,
         high <= higher, Ascending(q, low, high)
  PROVE  Ascending(q, low, higher)
<1>1. \A i \in numbered(q) : q[i].seq \in Nat
  BY FramesAreNumbered DEF Ascending, numbered
<1>2. QED
  BY <1>1 DEF Ascending

\* The empty queue, a LoginResponse and a single update ascend.
LEMMA AscendingShort ==
  /\ \A low, high : Ascending(<<>>, low, high) /\ Ascending(<<Login>>, low, high)
  /\ \A f \in Frame : Ascending(<<f>>, f.seq, f.seq + 1)
<1>1. ASSUME NEW low, NEW high
      PROVE  Ascending(<<>>, low, high) /\ Ascending(<<Login>>, low, high)
  <2>1. Login \in Frame /\ Login.kind = "login"
    BY DEF Login, Frame
  <2>2. numbered(<<>>) = {} /\ numbered(<<Login>>) = {}
    BY <2>1 DEF numbered
  <2>3. <<>> \in Seq(Frame) /\ <<Login>> \in Seq(Frame)
    BY <2>1
  <2>4. QED
    BY <2>2, <2>3 DEF Ascending
<1>2. ASSUME NEW f \in Frame PROVE Ascending(<<f>>, f.seq, f.seq + 1)
  <2>1. f.seq \in Nat
    BY DEF Frame
  <2>2. \A i \in numbered(<<f>>) : i = 1 /\ <<f>>[i] = f
    BY DEF numbered
  <2>3. f.seq <= f.seq /\ f.seq < f.seq + 1
    BY <2>1
  <2>4. \A i, j \in numbered(<<f>>) : ~(i < j)
    BY <2>2
  <2>5. <<f>> \in Seq(Frame)
    OBVIOUS
  <2>6. QED
    BY <2>2, <2>3, <2>4, <2>5 DEF Ascending
<1>3. QED
  BY <1>1, <1>2

\* What is left of the wire without its first k frames.
LEMMA RestOfWire ==
  ASSUME NEW w \in Seq(Frame), NEW k \in 0..Len(w)
  PROVE  LET r == SubSeq(w, k + 1, Len(w)) IN
         r \in Seq(Frame) /\ Len(w) = Len(r) + k /\ \A i \in 1..Len(r) : r[i] = w[i + k]
<1> DEFINE r == SubSeq(w, k + 1, Len(w))
<1>1. Len(w) \in Nat /\ \A i \in 1..Len(w) : w[i] \in Frame
  BY FramesAreNumbered
<1>2. /\ r \in Seq(Frame) /\ Len(r) = IF k + 1 <= Len(w) THEN Len(w) - (k + 1) + 1 ELSE 0
      /\ \A i \in 1 .. Len(w) - (k + 1) + 1 : r[i] = w[k + 1 + i - 1]
  <2>1. \A i \in (k + 1)..Len(w) : w[i] \in Frame
    BY <1>1
  <2>2. k + 1 \in Int /\ Len(w) \in Int
    BY <1>1
  <2>3. QED
    BY <2>1, <2>2, SubSeqProperties
<1> HIDE DEF r
<1>3. Len(w) = Len(r) + k /\ \A i \in 1..Len(r) : r[i] = w[i + k]
  BY <1>1, <1>2
<1>4. QED
  BY <1>2, <1>3 DEF r

\* Dropping the first k frames of the wire, one of them or a whole read.
LEMMA DropFrames ==
  ASSUME NEW w \in Seq(Frame), NEW o \in Seq(Frame), NEW low \in Nat, NEW high \in Nat,
         NEW k \in 0..Len(w), Ascending(w \o o, low, high),
         NEW r \in Seq(Frame), Len(w) = Len(r) + k, \A i \in 1..Len(r) : r[i] = w[i + k]
  PROVE  /\ Ascending(r \o o, low, high) /\ Len(r) <= Len(w)
         /\ k = 1 /\ w[1].kind # "login" => Ascending(r \o o, w[1].seq + 1, high)
<1>1. Len(w) \in Nat /\ Len(o) \in Nat /\ Len(r) \in Nat /\ k \in Nat
  BY FramesAreNumbered
<1>4. /\ w \o o \in Seq(Frame) /\ Len(w \o o) = Len(w) + Len(o)
      /\ \A i \in 1 .. Len(w) + Len(o) : (w \o o)[i] =
                     IF i <= Len(w) THEN w[i] ELSE o[i - Len(w)]
  BY ConcatProperties
<1>5. /\ r \o o \in Seq(Frame) /\ Len(r \o o) = Len(r) + Len(o)
      /\ \A i \in 1 .. Len(r) + Len(o) : (r \o o)[i] =
                     IF i <= Len(r) THEN r[i] ELSE o[i - Len(r)]
  BY ConcatProperties
<1> DEFINE all == w \o o
           rest == r \o o
<1> HIDE DEF all, rest
<1>6. rest \in Seq(Frame) /\ Len(all) = Len(rest) + k
  BY <1>1, <1>4, <1>5 DEF all, rest
<1>7. ASSUME NEW i \in 1..Len(rest) PROVE rest[i] = all[i + k]
  <2>1. i \in 1..(Len(r) + Len(o)) /\ i + k \in 1..(Len(w) + Len(o))
    BY <1>1, <1>5 DEF rest
  <2>2. CASE i <= Len(r)
    BY <1>1, <1>4, <1>5, <2>1, <2>2 DEF all, rest
  <2>3. CASE i > Len(r)
    <3>1. i - Len(r) = i + k - Len(w) /\ ~(i + k <= Len(w)) /\ ~(i <= Len(r))
      BY <1>1, <2>1, <2>3
    <3>2. QED
      BY <1>4, <1>5, <2>1, <3>1 DEF all, rest
  <2>4. QED
    BY <1>1, <2>1, <2>2, <2>3
<1>8. k \in Nat /\ Ascending(all, low, high) /\ (k = 1 => all[1] = w[1])
  BY <1>1, <1>4 DEF all
<1>9. /\ Ascending(rest, low, high)
      /\ k = 1 /\ all[1].kind # "login" => Ascending(rest, all[1].seq + 1, high)
  BY <1>6, <1>7, <1>8, AscendingRest
<1>10. Len(r) <= Len(w)
  BY <1>1
<1>11. QED
  BY <1>8, <1>9, <1>10 DEF rest

-----------------------------------------------------------------------------

QueueTypes ==
  /\ eventId \in 1..(MaxEventId + 1)
  /\ nextConnectionId \in 1..(MaxConnections + 1)
  /\ connection \in [Clients -> 0..MaxConnections]
  /\ hasSession \in [Clients -> BOOLEAN] /\ request \in [Clients -> BOOLEAN]
  /\ left \in [Clients -> -1..MaxWire]
  /\ snapshotCommandQueued \in [Clients -> BOOLEAN] /\ deadline \in [Clients -> BOOLEAN]
  /\ hazards \in [Clients -> 0..MaxEffects]

\* Frames are queued for connections with a session only; so the LoginResponse
\* of a session finds its queue empty, and a client that connects again meets
\* no frame of its previous connection.
QueuesOfSessions ==
  \A c \in Clients :
    /\ hasSession[c] => isUp(c)
    /\ ~hasSession[c] => outbound[c] = <<>> /\ wire[c] = <<>>

QueueBounds == \A c \in Clients : Len(outbound[c]) <= MaxOutbound /\ Len(wire[c]) <= MaxWire

QueuesAscend == \A c \in Clients : Ascending(wire[c] \o outbound[c], expected[c], updateSequence)

\* A read never has more frames to handle than the wire holds.
ReadsWithinWire == \A c \in Clients : left[c] <= Len(wire[c])

QueueInv ==
  QueueTypes /\ QueuesOfSessions /\ QueueBounds /\ QueuesAscend /\ ReadsWithinWire

\* The queues hold frames, and the numbers are numbers.
LEMMA QueuesHoldFrames ==
  ASSUME StreamInv
  PROVE  /\ TrueFrame \subseteq Frame
         /\ updateSequence \in Nat
         /\ \A c \in Clients : /\ wire[c] \in Seq(Frame) /\ outbound[c] \in Seq(Frame)
                               /\ expected[c] \in Nat
<1>1. TrueFrame \subseteq Frame
  BY DEF TrueFrame
<1>2. QED
  BY <1>1, SeqMonotonic DEF StreamInv, StreamTypes

\* The updates of a tick carry the numbers it uses up.
LEMMA UpdatesAscend ==
  ASSUME StreamTypes, NEW n \in Nat, NEW hazard \in BOOLEAN, NEW applied \in BOOLEAN,
         Tick(n, hazard, applied)
  PROVE  Ascending(updates(n, hazard, applied), updateSequence, updateSequence')
<1> DEFINE next == sequenceAfter(n, hazard)
           events == [i \in 1..n |-> Event(updateSequence + i - 1)]
           mayHazard == IF hazard THEN <<Hazard(next - 1)>> ELSE <<>>
           mayBuilt == IF applied THEN built(n, hazard) ELSE <<>>
           maySnapshot == IF snapshotTriggers = {} THEN <<>>
                          ELSE <<Snapshot(next, effectsAfter(n, hazard, applied))>>
<1>1. /\ updateSequence \in Nat /\ updateSequence + n \in Nat
      /\ next \in Nat /\ updateSequence' \in Nat
      /\ updateSequence <= updateSequence + n /\ updateSequence <= next
      /\ updateSequence + n <= next /\ next <= updateSequence'
      /\ next = updateSequence + n + (IF hazard THEN 1 ELSE 0)
      /\ snapshotTriggers # {} => updateSequence' = next + 1
  BY TickNumbers DEF StreamTypes, sequenceAfter, Tick
<1>2. Ascending(events, updateSequence, updateSequence + n)
  <2>1. ASSUME NEW i \in 1..n
        PROVE  /\ Event(updateSequence + i - 1) \in Frame
               /\ Event(updateSequence + i - 1).seq = updateSequence + i - 1
    BY <1>1 DEF Event, Frame
  <2>2. events \in [1..n -> Frame]
    BY <2>1
  <2>3. events \in Seq(Frame) /\ Len(events) = n
    BY <2>2, SeqDef, LenProperties
  <2>4. \A i \in 1..n : events[i].seq = updateSequence + i - 1
    BY <2>1
  <2> HIDE DEF events
  <2>5. \A i \in numbered(events) : i \in 1..n
    BY <2>3 DEF numbered
  <2>6. ASSUME NEW i \in 1..n, NEW j \in 1..n, i < j PROVE events[i].seq < events[j].seq
    BY <1>1, <2>4, <2>6
  <2>7. ASSUME NEW i \in 1..n
        PROVE  updateSequence <= events[i].seq /\ events[i].seq < updateSequence + n
    BY <1>1, <2>4
  <2>8. QED
    BY <2>3, <2>5, <2>6, <2>7 DEF Ascending
<1>3. Ascending(mayHazard, updateSequence + n, next)
  <2>1. CASE hazard
    <3>1. next - 1 = updateSequence + n /\ next - 1 \in Nat /\ next - 1 + 1 = next
      BY <1>1, <2>1
    <3>2. Hazard(next - 1) \in Frame /\ Hazard(next - 1).seq = next - 1
      BY <3>1 DEF Hazard, Frame
    <3>3. QED
      BY <2>1, <3>1, <3>2, AscendingShort
  <2>2. CASE ~hazard
    BY <2>2, AscendingShort
  <2>3. QED
    BY <2>1, <2>2
<1>4. Ascending(mayBuilt, updateSequence, next)
  <2>1. built(n, hazard) = events \o mayHazard
    BY DEF built
  <2> HIDE DEF events, mayHazard, next
  <2>2. Ascending(built(n, hazard), updateSequence, next)
    BY <1>1, <1>2, <1>3, <2>1, AscendingConcat
  <2>3. QED
    BY <2>2, AscendingShort
<1>5. Ascending(maySnapshot, next, updateSequence')
  <2>1. CASE snapshotTriggers # {}
    <3>1. effectsAfter(n, hazard, applied) \in SUBSET Nat
      BY TickNumbers DEF Tick
    <3>2. /\ Snapshot(next, effectsAfter(n, hazard, applied)) \in Frame
          /\ Snapshot(next, effectsAfter(n, hazard, applied)).seq = next
      BY <1>1, <3>1 DEF Snapshot, Frame
    <3>3. QED
      BY <1>1, <2>1, <3>2, AscendingShort
  <2>2. CASE snapshotTriggers = {}
    BY <2>2, AscendingShort
  <2>3. QED
    BY <2>1, <2>2
<1>6. updates(n, hazard, applied) = mayBuilt \o maySnapshot
  BY DEF updates
<1> HIDE DEF mayBuilt, maySnapshot, next
<1>7. QED
  BY <1>1, <1>4, <1>5, <1>6, AscendingConcat

\* What flushOutbound takes from the queue it puts onto the wire.
LEMMA FlushKeepsOrder ==
  ASSUME NEW w \in Seq(Frame), NEW a \in Seq(Frame), a # <<>>
  PROVE  Append(w, Head(a)) \o Tail(a) = w \o a
<1>1. Head(a) \in Frame /\ Tail(a) \in Seq(Frame) /\ Len(a) \in Nat \ {0}
  BY HeadTailProperties, EmptySeq
<1>2. Append(w, Head(a)) = w \o <<Head(a)>> /\ <<Head(a)>> \in Seq(Frame)
  BY <1>1, AppendIsConcat
<1>3. <<Head(a)>> \o Tail(a) = a
  <2>1. 1 \in 1..Len(a) /\ Len(a) \in 1..Len(a)
    BY <1>1
  <2>2. SubSeq(a, 1, Len(a)) = <<a[1]>> \o SubSeq(a, 1 + 1, Len(a))
    BY <2>1, SubSeqRecursiveFirst
  <2>3. SubSeq(a, 1, Len(a)) = a /\ Tail(a) = SubSeq(a, 2, Len(a)) /\ Head(a) = a[1]
    BY SubSeqFull, TailIsSubSeq
  <2>4. QED
    BY <2>2, <2>3
<1>4. QED
  BY <1>1, <1>2, <1>3, ConcatAssociative

\* Concatenation of frames is associative.
LEMMA ConcatFrames ==
  \A p, q, r \in Seq(Frame) : (p \o q) \o r = p \o (q \o r)
  BY ConcatAssociative

\* The wire of c after the flush of a tick.
flushedWire(c) == IF canSend(c) THEN Append(wire[c], Head(answered(c))) ELSE wire[c]

\* The LoginResponse and the flush keep the order and the size of the queues.
LEMMA FlushKeepsQueues ==
  ASSUME StreamInv, QueueInv, NEW c \in Clients
  PROVE  /\ flushed(c) \in Seq(Frame) /\ Len(flushed(c)) <= MaxOutbound
         /\ flushedWire(c) \in Seq(Frame) /\ Len(flushedWire(c)) <= MaxWire
         /\ Len(wire[c]) <= Len(flushedWire(c))
         /\ Ascending(flushedWire(c) \o flushed(c), expected[c], updateSequence)
<1> DEFINE w == wire[c]
           o == outbound[c]
           a == answered(c)
<1>1. /\ w \in Seq(Frame) /\ o \in Seq(Frame)
      /\ expected[c] \in Nat /\ updateSequence \in Nat /\ expected[c] <= updateSequence
      /\ Len(w) \in Nat /\ Len(o) \in Nat
  BY QueuesHoldFrames, LenProperties DEF StreamInv
<1>2. MaxOutbound \in Nat /\ MaxOutbound >= 1 /\ MaxWire \in Nat
  BY StreamAssumption
<1>3. Len(o) <= MaxOutbound /\ Len(w) <= MaxWire /\ Ascending(w \o o, expected[c], updateSequence)
  BY DEF QueueInv, QueueBounds, QueuesAscend
<1>4. a \in Seq(Frame) /\ Len(a) <= MaxOutbound /\ Ascending(w \o a, expected[c], updateSequence)
  <2>1. CASE c \in loggingIn
    <3>1. a = Append(o, Login) /\ o = <<>>
      BY <2>1 DEF answered, loggingIn, QueueInv, QueuesOfSessions
    <3>2. Login \in Frame /\ <<Login>> \in Seq(Frame)
      BY DEF Login, Frame
    <3>3. a = o \o <<Login>> /\ a \in Seq(Frame) /\ Len(a) = Len(o) + 1
      BY <1>1, <3>1, <3>2, AppendIsConcat, AppendProperties
    <3>4. Len(o) = 0
      BY <3>1, EmptySeq
    <3> HIDE DEF w, o, a
    <3>5. w \o a = (w \o o) \o <<Login>>
      <4>1. (w \o o) \o <<Login>> = w \o (o \o <<Login>>)
        BY <1>1, <3>2, ConcatFrames
      <4>2. QED
        BY <3>3, <4>1, Zenon
    <3>6. Ascending(<<Login>>, updateSequence, updateSequence)
      BY AscendingShort
    <3>7. Ascending((w \o o) \o <<Login>>, expected[c], updateSequence)
      <4>1. updateSequence <= updateSequence
        BY <1>1
      <4>2. QED
        BY <1>1, <1>3, <3>6, <4>1, AscendingConcat
    <3>8. Len(a) <= MaxOutbound
      BY <1>2, <3>3, <3>4
    <3>9. QED
      BY <3>3, <3>5, <3>7, <3>8
  <2>2. CASE c \notin loggingIn
    BY <1>1, <1>3, <2>2 DEF answered
  <2>3. QED
    BY <2>1, <2>2
<1>5. CASE canSend(c)
  <2>1. flushed(c) = Tail(a) /\ flushedWire(c) = Append(w, Head(a)) /\ a # <<>> /\ Len(w) < MaxWire
    BY <1>5 DEF flushed, flushedWire, canSend
  <2>2. Head(a) \in Frame /\ Tail(a) \in Seq(Frame) /\ Len(Tail(a)) = Len(a) - 1 /\ Len(a) \in Nat
    BY <1>4, <2>1, HeadTailProperties, LenProperties
  <2>3. Append(w, Head(a)) \in Seq(Frame) /\ Len(Append(w, Head(a))) = Len(w) + 1
    BY <1>1, <2>2, AppendProperties
  <2>4. Append(w, Head(a)) \o Tail(a) = w \o a
    BY <1>1, <1>4, <2>1, FlushKeepsOrder
  <2>5. /\ Len(Tail(a)) <= MaxOutbound /\ Len(Append(w, Head(a))) <= MaxWire
        /\ Len(w) <= Len(Append(w, Head(a)))
    <3> HIDE DEF w, a
    <3>1. QED
      BY <1>1, <1>2, <1>4, <2>1, <2>2, <2>3
  <2> HIDE DEF w, a
  <2>6. QED
    BY <1>4, <2>1, <2>2, <2>3, <2>4, <2>5, Zenon DEF w
<1>6. CASE ~canSend(c)
  BY <1>1, <1>3, <1>4, <1>6 DEF flushed, flushedWire
<1>7. QED
  BY <1>5, <1>6

\* What publishWorldUpdates adds to a queue fits into it.
LEMMA PublishFits ==
  ASSUME StreamInv, QueueInv, NEW u \in Seq(Frame), NEW share \in [Clients -> 0..Len(u)],
         NEW c \in Clients,
         \A d \in recipients, k \in 1..Len(u) : k <= share[d] <=> published(d, k),
         \A d \in Clients \ recipients : share[d] = 0
  PROVE  Len(flushed(c)) + share[c] <= MaxOutbound
<1>1. /\ share[c] \in Nat /\ share[c] <= Len(u) /\ Len(u) \in Nat
      /\ Len(flushed(c)) \in Nat /\ Len(flushed(c)) <= MaxOutbound /\ MaxOutbound \in Nat
  BY FlushKeepsQueues, LenProperties, StreamAssumption
<1>2. CASE c \in recipients /\ share[c] > 0
  <2>1. share[c] \in 1..Len(u) /\ share[c] <= share[c]
    BY <1>1, <1>2
  <2>2. published(c, share[c])
    BY <1>2, <2>1
  <2>3. connection[c] <= connection[c]
    <3>1. connection[c] \in Int
      BY DEF QueueInv, QueueTypes
    <3>2. QED
      BY <3>1
  <2>4. room(c) >= share[c]
    BY <1>2, <2>2, <2>3 DEF published
  <2>5. QED
    BY <1>1, <2>4 DEF room
<1>3. CASE ~(c \in recipients /\ share[c] > 0)
  BY <1>1, <1>3
<1>4. QED
  BY <1>2, <1>3

\* A tick of the server keeps the queues.
LEMMA TickKeepsQueues ==
  ASSUME StreamInv, QueueInv, NEW n \in Nat, NEW hazard \in BOOLEAN, NEW applied \in BOOLEAN,
         Tick(n, hazard, applied)
  PROVE  QueueInv'
<1> DEFINE u == updates(n, hazard, applied)
<1>0. StreamTypes
  BY DEF StreamInv
<1>1. UNCHANGED <<nextConnectionId, connection, link, left, hazards, expected,
                  snapshotCommandQueued, deadline>>
  BY DEF Tick, trackerVars, shellVars
<1>2. /\ updateSequence \in Nat /\ updateSequence' \in Nat /\ updateSequence <= updateSequence'
      /\ sequenceAfter(n, hazard) \in Nat /\ updateSequence <= sequenceAfter(n, hazard)
  BY <1>0, TickNumbers DEF StreamTypes
<1>3. Ascending(u, updateSequence, updateSequence') /\ u \in Seq(Frame) /\ Len(u) \in Nat
  BY <1>0, UpdatesAscend, LenProperties DEF Ascending
<1> HIDE DEF u
<1>4. PICK share \in [Clients -> 0..Len(u)] :
        /\ \A c \in recipients, k \in 1..Len(u) : k <= share[c] <=> published(c, k)
        /\ \A c \in Clients \ recipients : share[c] = 0
        /\ outbound' = [c \in Clients |-> flushed(c) \o SubSeq(u, 1, share[c])]
  BY DEF Tick, publish, u
<1>5. wire' = [c \in Clients |-> flushedWire(c)]
  BY DEF Tick, flushedWire
<1>6. QueueTypes'
  <2>1. eventId' \in 1..(MaxEventId + 1)
    <3>1. eventId \in 1..(MaxEventId + 1)
      BY DEF QueueInv, QueueTypes
    <3>2. /\ eventId' = eventId + (sequenceAfter(n, hazard) - updateSequence)
          /\ eventId + (sequenceAfter(n, hazard) - updateSequence) <= MaxEventId + 1
      BY DEF Tick
    <3>3. QED
      BY <1>2, <3>1, <3>2, StreamAssumption
  <2>2. hasSession' \in [Clients -> BOOLEAN] /\ request' \in [Clients -> BOOLEAN]
    BY DEF Tick
  <2>3. QED
    BY <1>1, <2>1, <2>2 DEF QueueInv, QueueTypes
<1>7. ASSUME NEW c \in Clients
      PROVE  /\ Ascending(SubSeq(u, 1, share[c]), updateSequence, updateSequence')
             /\ SubSeq(u, 1, share[c]) \in Seq(Frame)
             /\ Len(SubSeq(u, 1, share[c])) = share[c]
  <2>1. share[c] \in 0..Len(u)
    BY <1>4
  <2>2. Ascending(SubSeq(u, 1, share[c]), updateSequence, updateSequence')
        /\ Len(SubSeq(u, 1, share[c])) = share[c]
    BY <1>2, <1>3, <2>1, AscendingPrefix
  <2>3. QED
    BY <2>2 DEF Ascending
<1>8. QueuesOfSessions'
  <2> SUFFICES ASSUME NEW c \in Clients
               PROVE  /\ hasSession'[c] => isUp(c)'
                      /\ ~hasSession'[c] => outbound'[c] = <<>> /\ wire'[c] = <<>>
    BY DEF QueuesOfSessions
  <2>1. hasSession'[c] = (c \in recipients) /\ isUp(c)' = isUp(c)
    BY <1>1 DEF Tick, isUp
  <2>2. c \in recipients => isUp(c)
    BY DEF recipients, loggingIn, QueueInv, QueuesOfSessions
  <2>3. ASSUME c \notin recipients PROVE outbound'[c] = <<>> /\ wire'[c] = <<>>
    <3>1. ~hasSession[c] /\ c \notin loggingIn /\ outbound[c] = <<>> /\ wire[c] = <<>>
      BY <2>3 DEF recipients, QueueInv, QueuesOfSessions
    <3>2. flushed(c) = <<>> /\ flushedWire(c) = <<>>
      BY <3>1 DEF answered, flushed, flushedWire, canSend
    <3>3. share[c] = 0
      BY <1>4, <2>3
    <3>4. SubSeq(u, 1, share[c]) = <<>>
      BY <1>7, <3>3, EmptySeq
    <3>5. <<>> \o <<>> = <<>>
      BY ConcatEmptySeq, EmptySeq
    <3>6. QED
      BY <1>4, <1>5, <3>2, <3>4, <3>5
  <2>4. QED
    BY <2>1, <2>2, <2>3
<1>9. QueueBounds'
  <2> SUFFICES ASSUME NEW c \in Clients
               PROVE  Len(outbound'[c]) <= MaxOutbound /\ Len(wire'[c]) <= MaxWire
    BY DEF QueueBounds
  <2>1. flushed(c) \in Seq(Frame) /\ Len(flushedWire(c)) <= MaxWire
    BY FlushKeepsQueues
  <2>2. Len(flushed(c) \o SubSeq(u, 1, share[c])) = Len(flushed(c)) + share[c]
    BY <1>7, <2>1, ConcatProperties
  <2>3. Len(flushed(c)) + share[c] <= MaxOutbound
    BY <1>3, <1>4, PublishFits
  <2>4. QED
    BY <1>4, <1>5, <2>1, <2>2, <2>3
<1>10. QueuesAscend'
  <2> SUFFICES ASSUME NEW c \in Clients
               PROVE  Ascending(wire'[c] \o outbound'[c], expected'[c], updateSequence')
    BY DEF QueuesAscend
  <2> DEFINE more == SubSeq(u, 1, share[c])
  <2>1. /\ flushed(c) \in Seq(Frame) /\ flushedWire(c) \in Seq(Frame)
        /\ Ascending(flushedWire(c) \o flushed(c), expected[c], updateSequence)
    BY FlushKeepsQueues
  <2>2. Ascending(more, updateSequence, updateSequence') /\ more \in Seq(Frame)
    BY <1>7
  <2>3. wire'[c] = flushedWire(c) /\ outbound'[c] = flushed(c) \o more
    BY <1>4, <1>5
  <2>4. expected[c] \in Nat /\ expected[c] <= updateSequence
    BY QueuesHoldFrames DEF StreamInv
  <2> HIDE DEF more
  <2>5. Ascending((flushedWire(c) \o flushed(c)) \o more, expected[c], updateSequence')
    BY <1>2, <2>1, <2>2, <2>4, AscendingConcat
  <2>6. (flushedWire(c) \o flushed(c)) \o more = flushedWire(c) \o (flushed(c) \o more)
    BY <2>1, <2>2, ConcatFrames
  <2>7. QED
    BY <1>1, <2>3, <2>5, <2>6
<1>11. ReadsWithinWire'
  <2> SUFFICES ASSUME NEW c \in Clients PROVE left[c] <= Len(wire'[c])
    BY <1>1 DEF ReadsWithinWire
  <2>1. left[c] \in Int /\ left[c] <= Len(wire[c])
    BY DEF QueueInv, QueueTypes, ReadsWithinWire
  <2>2. /\ Len(wire[c]) \in Nat /\ Len(flushedWire(c)) \in Nat
        /\ Len(wire[c]) <= Len(flushedWire(c))
    BY FlushKeepsQueues, QueuesHoldFrames, LenProperties
  <2>3. QED
    BY <1>5, <2>1, <2>2
<1>12. QED
  BY <1>6, <1>8, <1>9, <1>10, <1>11 DEF QueueInv

\* A step in which the socket of c goes: its queues are emptied.
LEMMA DropKeepsQueues ==
  ASSUME StreamInv, QueueInv, NEW c \in Clients, NEW state \in {"disconnected", "failed"},
         link' = [link EXCEPT ![c] = state], dropConnection(c),
         UNCHANGED <<serverVars, hazards, snapshotCommandQueued>>,
         UNCHANGED deadline \/ deadline' = [deadline EXCEPT ![c] = FALSE],
         \A d \in Clients \ {c} : expected'[d] = expected[d]
  PROVE  QueueInv'
<1>1. /\ UNCHANGED <<updateSequence, eventId, nextConnectionId>>
      /\ connection' = [connection EXCEPT ![c] = 0]
      /\ hasSession' = [hasSession EXCEPT ![c] = FALSE]
      /\ outbound' = [outbound EXCEPT ![c] = <<>>]
      /\ wire' = [wire EXCEPT ![c] = <<>>]
      /\ request' = [request EXCEPT ![c] = FALSE]
      /\ left' = [left EXCEPT ![c] = -1]
  BY DEF dropConnection, serverVars
<1>2. QueueTypes'
  <2>1. 0 \in 0..MaxConnections /\ -1 \in -1..MaxWire
    BY StreamAssumption
  <2>2. QED
    BY <1>1, <2>1 DEF QueueInv, QueueTypes
<1>3. /\ outbound'[c] = <<>> /\ wire'[c] = <<>> /\ ~hasSession'[c]
      /\ \A d \in Clients \ {c} : /\ outbound'[d] = outbound[d] /\ wire'[d] = wire[d]
                                  /\ hasSession'[d] = hasSession[d] /\ link'[d] = link[d]
  BY <1>1 DEF QueueInv, QueueTypes, StreamInv, StreamTypes
<1>4. QueuesOfSessions'
  BY <1>3 DEF QueueInv, QueuesOfSessions, isUp
<1>5. QueueBounds'
  <2>1. Len(<<>>) = 0 /\ 0 <= MaxOutbound /\ 0 <= MaxWire
    BY StreamAssumption, EmptySeq
  <2>2. QED
    BY <1>3, <2>1 DEF QueueInv, QueueBounds
<1>6. QueuesAscend'
  <2>1. <<>> \o <<>> = <<>>
    BY ConcatEmptySeq, EmptySeq
  <2>2. Ascending(wire'[c] \o outbound'[c], expected'[c], updateSequence')
    BY <1>3, <2>1, AscendingShort
  <2>3. ASSUME NEW d \in Clients \ {c}
        PROVE  Ascending(wire'[d] \o outbound'[d], expected'[d], updateSequence')
    BY <1>1, <1>3 DEF QueueInv, QueuesAscend
  <2>4. QED
    BY <2>2, <2>3 DEF QueuesAscend
<1>7. ReadsWithinWire'
  <2>1. left'[c] = -1 /\ \A d \in Clients \ {c} : left'[d] = left[d]
    BY <1>1 DEF QueueInv, QueueTypes
  <2>2. Len(<<>>) = 0 /\ -1 <= 0
    BY EmptySeq
  <2>3. QED
    BY <1>3, <2>1, <2>2 DEF QueueInv, ReadsWithinWire
<1>8. QED
  BY <1>2, <1>4, <1>5, <1>6, <1>7 DEF QueueInv

\* A step of c that takes k frames from its wire: one that is applied, which
\* raises the expected number above it, or others.
LEMMA TakeKeepsQueues ==
  ASSUME StreamInv, QueueInv, NEW c \in Clients, NEW k \in 0..Len(wire[c]),
         wire' = [wire EXCEPT ![c] = SubSeq(wire[c], k + 1, Len(wire[c]))],
         \/ UNCHANGED expected
         \/ /\ k = 1 /\ wire[c][1].kind # "login"
            /\ expected' = [expected EXCEPT ![c] = wire[c][1].seq + 1],
         UNCHANGED <<serverVars, hasSession, outbound>>, QueueTypes',
         \A d \in Clients : isUp(d)' = isUp(d),
         NEW m \in Int, left' = [left EXCEPT ![c] = m], m <= Len(wire[c]) - k
  PROVE  QueueInv'
<1> DEFINE w == wire[c]
           o == outbound[c]
           r == SubSeq(w, k + 1, Len(w))
<1>1. /\ w \in Seq(Frame) /\ o \in Seq(Frame) /\ expected[c] \in Nat
      /\ updateSequence \in Nat /\ updateSequence' = updateSequence
  BY QueuesHoldFrames DEF serverVars
<1>2. Ascending(w \o o, expected[c], updateSequence) /\ Len(w) <= MaxWire
  BY DEF QueueInv, QueuesAscend, QueueBounds
<1>3. r \in Seq(Frame) /\ Len(w) = Len(r) + k /\ \A i \in 1..Len(r) : r[i] = w[i + k]
  BY <1>1, RestOfWire
<1>4. /\ wire'[c] = r /\ outbound' = outbound
      /\ \A d \in Clients \ {c} : wire'[d] = wire[d]
  BY DEF StreamInv, StreamTypes
<1>5. /\ expected'[c] = expected[c] \/ (k = 1 /\ w[1].kind # "login" /\ expected'[c] = w[1].seq + 1)
      /\ \A d \in Clients \ {c} : expected'[d] = expected[d]
  BY DEF StreamInv, StreamTypes
<1>6. Len(w) \in Nat /\ Len(r) \in Nat /\ k \in Nat
  BY <1>1, <1>3, LenProperties
<1>7. k \in 0..Len(w) /\ m <= Len(w) - k
  OBVIOUS
<1> HIDE DEF w, o, r
<1>8. /\ Ascending(r \o o, expected[c], updateSequence) /\ Len(r) <= Len(w)
      /\ k = 1 /\ w[1].kind # "login" => Ascending(r \o o, w[1].seq + 1, updateSequence)
  BY <1>1, <1>2, <1>3, <1>7, DropFrames
<1>9. QueuesAscend'
  <2>1. Ascending(wire'[c] \o outbound'[c], expected'[c], updateSequence')
    BY <1>1, <1>4, <1>5, <1>8 DEF o
  <2>2. ASSUME NEW d \in Clients \ {c}
        PROVE  Ascending(wire'[d] \o outbound'[d], expected'[d], updateSequence')
    BY <1>1, <1>4, <1>5 DEF QueueInv, QueuesAscend
  <2>3. QED
    BY <2>1, <2>2 DEF QueuesAscend
<1>10. QueueBounds'
  <2>1. Len(r) <= MaxWire
    BY <1>2, <1>6, <1>8, StreamAssumption
  <2>2. QED
    BY <1>4, <2>1 DEF QueueInv, QueueBounds
<1>11. QueuesOfSessions'
  <2>1. ASSUME ~hasSession[c] PROVE wire'[c] = <<>>
    <3>1. w = <<>>
      BY <2>1 DEF QueueInv, QueuesOfSessions, w
    <3>2. Len(w) = 0
      BY <3>1, EmptySeq
    <3>3. Len(r) = 0
      <4>1. \A x, y, z \in Nat : z = x + y /\ z = 0 => x = 0
        OBVIOUS
      <4>2. QED
        BY <1>3, <1>6, <3>2, <4>1, Zenon
    <3>4. QED
      BY <1>3, <1>4, <3>3, EmptySeq
  <2>2. QED
    BY <1>4, <2>1 DEF QueueInv, QueuesOfSessions
<1>12. ReadsWithinWire'
  <2>1. left'[c] = m /\ \A d \in Clients \ {c} : left'[d] = left[d]
    BY DEF QueueInv, QueueTypes
  <2>2. m <= Len(r)
    BY <1>3, <1>6, <1>7
  <2>3. QED
    BY <1>4, <2>1, <2>2 DEF QueueInv, ReadsWithinWire
<1>13. QED
  BY <1>9, <1>10, <1>11, <1>12 DEF QueueInv

\* Every frame that a client handles keeps the queues.
LEMMA HandleKeepsQueues ==
  ASSUME StreamInv, QueueInv, NEW c \in Clients, Handle(c)
  PROVE  QueueInv'
<1>0. PICK f \in {wire[c][i] : i \in 1..Len(wire[c])} :
        \/ LoginResponse(c, f) \/ ApplySnapshot(c, f) \/ SkipEvent(c, f)
        \/ ApplyEvent(c, f) \/ Gap(c, f) \/ Backpressure(c, f)
  BY DEF Handle
<1>1. left[c] > 0 /\ left[c] \in -1..MaxWire /\ f = Head(wire[c])
  BY <1>0 DEF handles, LoginResponse, ApplySnapshot, SkipEvent, ApplyEvent, Gap,
              Backpressure, QueueInv, QueueTypes
<1>2. isUp(c) /\ MaxWire \in Nat /\ MaxEffects \in Nat
  BY <1>1, StreamAssumption DEF StreamInv
<1>3. /\ wire[c] \in Seq(Frame) /\ Len(wire[c]) \in Nat \ {0} /\ wire[c] # <<>>
      /\ f = wire[c][1] /\ Tail(wire[c]) = SubSeq(wire[c], 1 + 1, Len(wire[c]))
  <2>1. wire[c] \in Seq(Frame)
    BY QueuesHoldFrames
  <2>2. wire[c] # <<>>
    BY <1>0, <2>1
  <2>3. QED
    BY <1>1, <2>1, <2>2, EmptySeq, TailIsSubSeq
<1>4. /\ 1 \in 0..Len(wire[c]) /\ left[c] - 1 \in -1..MaxWire /\ 0 \in -1..MaxWire
      /\ left[c] - 1 \in Int /\ left[c] - 1 <= Len(wire[c]) - 1
      /\ 0 \in Int /\ 0 <= Len(wire[c]) - left[c] /\ left[c] \in 0..Len(wire[c])
  <2>1. left[c] <= Len(wire[c])
    BY DEF QueueInv, ReadsWithinWire
  <2>2. QED
    BY <1>1, <1>2, <1>3, <2>1
<1>5. CASE LoginResponse(c, f)
  <2>1. QueueTypes'
    <3>1. (HasClock /\ needsSnapshot[c]) \in BOOLEAN
      BY StreamAssumption DEF StreamInv, StreamTypes
    <3>2. QED
      BY <1>4, <1>5, <3>1 DEF LoginResponse, consume, QueueInv, QueueTypes, serverVars,
                              connectionVars, trackerVars
  <2>2. \A d \in Clients : isUp(d)' = isUp(d)
    BY <1>2, <1>5 DEF LoginResponse, StreamInv, StreamTypes, isUp
  <2>3. QED
    BY <1>3, <1>4, <1>5, <2>1, <2>2, TakeKeepsQueues
    DEF LoginResponse, consume, connectionVars, trackerVars
<1>6. CASE ApplySnapshot(c, f)
  <2>1. QueueTypes'
    BY <1>4, <1>6 DEF ApplySnapshot, consume, QueueInv, QueueTypes, serverVars,
                      connectionVars, shellVars
  <2>2. \A d \in Clients : isUp(d)' = isUp(d)
    BY <1>6 DEF ApplySnapshot, isUp
  <2>3. wire[c][1].kind # "login" /\ expected' = [expected EXCEPT ![c] = wire[c][1].seq + 1]
    BY <1>3, <1>6 DEF ApplySnapshot
  <2>4. QED
    BY <1>3, <1>4, <1>6, <2>1, <2>2, <2>3, TakeKeepsQueues
    DEF ApplySnapshot, consume, connectionVars
<1>7. CASE SkipEvent(c, f)
  <2>1. QueueTypes'
    BY <1>4, <1>7 DEF SkipEvent, consume, QueueInv, QueueTypes, serverVars,
                      connectionVars, trackerVars, shellVars
  <2>2. \A d \in Clients : isUp(d)' = isUp(d)
    BY <1>7 DEF SkipEvent, isUp
  <2>3. QED
    BY <1>3, <1>4, <1>7, <2>1, <2>2, TakeKeepsQueues
    DEF SkipEvent, consume, connectionVars, trackerVars
<1>8. CASE ApplyEvent(c, f)
  <2>1. QueueTypes'
    <3>1. hazards[c] \in 0..MaxEffects
      BY DEF QueueInv, QueueTypes
    <3>2. (IF f.kind = "hazard" THEN hazards[c] + 1 ELSE hazards[c]) \in 0..MaxEffects
      BY <1>2, <1>8, <3>1 DEF ApplyEvent
    <3>3. hazards' = [hazards EXCEPT ![c] = IF f.kind = "hazard" THEN hazards[c] + 1 ELSE hazards[c]]
      BY <1>8 DEF ApplyEvent
    <3>4. hazards' \in [Clients -> 0..MaxEffects]
      BY <3>2, <3>3 DEF QueueInv, QueueTypes
    <3>5. QED
      BY <1>4, <1>8, <3>4 DEF ApplyEvent, consume, QueueInv, QueueTypes, serverVars,
                              connectionVars, shellVars
  <2>2. \A d \in Clients : isUp(d)' = isUp(d)
    BY <1>8 DEF ApplyEvent, isUp
  <2>3. wire[c][1].kind # "login" /\ expected' = [expected EXCEPT ![c] = wire[c][1].seq + 1]
    BY <1>3, <1>8 DEF ApplyEvent, isEvent
  <2>4. QED
    BY <1>3, <1>4, <1>8, <2>1, <2>2, <2>3, TakeKeepsQueues
    DEF ApplyEvent, consume, connectionVars
<1>9. CASE Gap(c, f)
  <2>1. QueueTypes'
    BY <1>4, <1>9 DEF Gap, QueueInv, QueueTypes, serverVars, connectionVars, shellVars
  <2>2. \A d \in Clients : isUp(d)' = isUp(d)
    BY <1>9 DEF Gap, isUp
  <2>3. QED
    BY <1>4, <1>9, <2>1, <2>2, TakeKeepsQueues DEF Gap, connectionVars
<1>10. CASE Backpressure(c, f)
  <2>1. \A d \in Clients \ {c} : expected'[d] = expected[d]
    BY <1>10 DEF Backpressure, StreamInv, StreamTypes
  <2>2. QED
    BY <1>10, <2>1, DropKeepsQueues DEF Backpressure
<1>11. QED
  BY <1>0, <1>5, <1>6, <1>7, <1>8, <1>9, <1>10

\* QueueInv is inductive.
LEMMA QueueInvStep ==
  ASSUME StreamInv, QueueInv, [Next]_vars
  PROVE  QueueInv'
<1>0. ASSUME UNCHANGED <<updateSequence, wire, outbound, expected, hasSession>>, QueueTypes',
             \A d \in Clients : hasSession[d] => (isUp(d) => isUp(d)'),
             ReadsWithinWire'
      PROVE  QueueInv'
  BY <1>0 DEF QueueInv, QueuesOfSessions, QueueBounds, QueuesAscend
<1>1. CASE ServerTick
  <2>1. PICK n \in 0..MaxInputs, hazard \in BOOLEAN, applied \in BOOLEAN :
          Tick(n, hazard, applied)
    BY <1>1 DEF ServerTick
  <2>2. n \in Nat
    BY <2>1, StreamAssumption
  <2>3. QED
    BY <2>1, <2>2, TickKeepsQueues
<1>2. ASSUME NEW c \in Clients, Connect(c) PROVE QueueInv'
  <2>1. QueueTypes'
    <3>1. nextConnectionId \in 1..(MaxConnections + 1) /\ nextConnectionId <= MaxConnections
      BY <1>2 DEF Connect, QueueInv, QueueTypes
    <3>2. nextConnectionId \in 0..MaxConnections /\ nextConnectionId + 1 \in 1..(MaxConnections + 1)
      BY <3>1, StreamAssumption
    <3>3. /\ snapshotCommandQueued' \in [Clients -> BOOLEAN]
          /\ deadline' \in [Clients -> BOOLEAN]
      BY <1>2 DEF Connect, QueueInv, QueueTypes
    <3>4. connection' \in [Clients -> 0..MaxConnections]
      BY <1>2, <3>2 DEF Connect, QueueInv, QueueTypes
    <3>5. QED
      BY <1>2, <3>2, <3>3, <3>4 DEF Connect, QueueInv, QueueTypes, serverVars
  <2>2. \A d \in Clients : hasSession[d] => (isUp(d) => isUp(d)')
    BY <1>2 DEF Connect, StreamInv, StreamTypes, isUp
  <2>3. QED
    BY <1>0, <1>2, <2>1, <2>2 DEF Connect, serverVars, QueueInv, ReadsWithinWire
<1>3. ASSUME NEW c \in Clients, Close(c) PROVE QueueInv'
  BY <1>3, DropKeepsQueues DEF Close, trackerVars, shellVars
<1>4. ASSUME NEW c \in Clients, SnapshotWaitTimeout(c) PROVE QueueInv'
  BY <1>4, DropKeepsQueues DEF SnapshotWaitTimeout, trackerVars
<1>5. ASSUME NEW c \in Clients, NEW n \in 1..Len(wire[c]), Read(c, n) PROVE QueueInv'
  <2>1. wire[c] \in Seq(Frame) /\ Len(wire[c]) \in Nat /\ Len(wire[c]) <= MaxWire /\ MaxWire \in Nat
    BY QueuesHoldFrames, LenProperties, StreamAssumption DEF QueueInv, QueueBounds
  <2>2. n \in -1..MaxWire /\ n <= Len(wire[c])
    BY <2>1
  <2>3. QueueTypes'
    BY <1>5, <2>2 DEF Read, QueueInv, QueueTypes, serverVars, connectionVars, trackerVars,
                      shellVars
  <2>4. ReadsWithinWire'
    BY <1>5, <2>2 DEF Read, QueueInv, QueueTypes, ReadsWithinWire
  <2>5. QED
    BY <1>0, <1>5, <2>3, <2>4 DEF Read, serverVars, connectionVars, trackerVars, isUp
<1>6. ASSUME NEW c \in Clients, Handle(c) PROVE QueueInv'
  BY <1>6, HandleKeepsQueues
<1>7. ASSUME NEW c \in Clients, EndRead(c) PROVE QueueInv'
  <2>1. /\ request' \in [Clients -> BOOLEAN] /\ deadline' \in [Clients -> BOOLEAN]
        /\ snapshotCommandQueued' \in [Clients -> BOOLEAN]
    <3> DEFINE asks == needsSnapshot[c] /\ ~snapshotCommandQueued[c] /\ link[c] = "loggedIn"
    <3>1. /\ needsSnapshot[c] \in BOOLEAN /\ deadline[c] \in BOOLEAN /\ request[c] \in BOOLEAN
          /\ snapshotCommandQueued[c] \in BOOLEAN /\ HasClock \in BOOLEAN
      BY StreamAssumption DEF StreamInv, StreamTypes, QueueInv, QueueTypes
    <3>2. /\ request' = [request EXCEPT ![c] = request[c] \/ asks]
          /\ deadline' = [deadline EXCEPT ![c] = IF asks THEN HasClock ELSE needsSnapshot[c] /\ deadline[c]]
          /\ snapshotCommandQueued' = [snapshotCommandQueued EXCEPT ![c] =
                needsSnapshot[c] /\ (snapshotCommandQueued[c] \/ asks)]
      BY <1>7 DEF EndRead
    <3>3. /\ (request[c] \/ asks) \in BOOLEAN
          /\ (IF asks THEN HasClock ELSE needsSnapshot[c] /\ deadline[c]) \in BOOLEAN
          /\ (needsSnapshot[c] /\ (snapshotCommandQueued[c] \/ asks)) \in BOOLEAN
      BY <3>1
    <3> HIDE DEF asks
    <3>4. QED
      BY <3>2, <3>3 DEF QueueInv, QueueTypes
  <2>2. left' = [left EXCEPT ![c] = -1] /\ -1 \in -1..MaxWire
    BY <1>7, StreamAssumption DEF EndRead
  <2>3. QueueTypes'
    BY <1>7, <2>1, <2>2 DEF EndRead, QueueInv, QueueTypes, serverVars, connectionVars,
                            trackerVars
  <2>4. ReadsWithinWire'
    <3>1. Len(wire[c]) \in Nat
      BY QueuesHoldFrames, LenProperties
    <3>2. -1 <= Len(wire[c])
      BY <3>1
    <3>3. QED
      BY <1>7, <2>2, <3>2 DEF EndRead, QueueInv, QueueTypes, ReadsWithinWire
  <2>5. QED
    BY <1>0, <1>7, <2>3, <2>4 DEF EndRead, serverVars, connectionVars, trackerVars, isUp
<1>8. CASE UNCHANGED vars
  <2>1. QueueTypes' /\ ReadsWithinWire'
    BY <1>8 DEF vars, QueueInv, QueueTypes, ReadsWithinWire
  <2>2. QED
    BY <1>0, <1>8, <2>1 DEF vars, isUp
<1>9. QED
  BY <1>1, <1>2, <1>3, <1>4, <1>5, <1>6, <1>7, <1>8 DEF Next

\* QueueInv holds in every reachable state.
LEMMA QueueInvHolds == Spec => []QueueInv
<1>1. Init => QueueInv
  <2> SUFFICES ASSUME Init PROVE QueueInv
    OBVIOUS
  <2>1. QueueTypes
    BY StreamAssumption DEF Init, QueueTypes
  <2>2. \A c \in Clients : wire[c] = <<>> /\ outbound[c] = <<>> /\ left[c] = -1 /\ ~hasSession[c]
    BY DEF Init
  <2>3. Len(<<>>) = 0 /\ <<>> \o <<>> = <<>>
    BY EmptySeq, ConcatEmptySeq
  <2>4. QueueBounds /\ ReadsWithinWire
    BY <2>2, <2>3, StreamAssumption DEF QueueBounds, ReadsWithinWire
  <2>5. QueuesAscend
    BY <2>2, <2>3, AscendingShort DEF QueuesAscend
  <2>6. QED
    BY <2>1, <2>2, <2>4, <2>5 DEF QueueInv, QueuesOfSessions
<1>2. StreamInv /\ QueueInv /\ [Next]_vars => QueueInv'
  BY QueueInvStep
<1>3. QED
  BY <1>1, <1>2, StreamInvHolds, PTL DEF Spec

\* Every variable keeps its type; no queue, no read and no effect queue grows
\* beyond its bound.
THEOREM StreamTypeCorrect == Spec => []TypeOK
<1>1. StreamInv /\ QueueInv => TypeOK
  <2> SUFFICES ASSUME StreamInv, QueueInv PROVE TypeOK
    OBVIOUS
  <2>1. \A c \in Clients : wire[c] \in Seq(Frame) /\ outbound[c] \in Seq(Frame)
    BY QueuesHoldFrames
  <2>2. wire \in [Clients -> Seq(Frame)] /\ outbound \in [Clients -> Seq(Frame)]
    BY <2>1 DEF StreamInv, StreamTypes
  <2>3. QED
    BY <2>2 DEF StreamInv, StreamTypes, QueueInv, QueueTypes, QueueBounds, TypeOK
<1>2. QED
  BY <1>1, StreamInvHolds, QueueInvHolds, PTL

\* The numbers on the way to a client ascend from the one it expects, for any
\* number of clients and any sizes of the queues.
THEOREM StreamIsAscending == Spec => []StreamAscends
<1>1. QueueInv => StreamAscends
  BY DEF QueueInv, QueuesAscend, Ascending, numbered, StreamAscends
<1>2. QED
  BY <1>1, QueueInvHolds, PTL
=============================================================================
