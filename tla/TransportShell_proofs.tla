------------------------ MODULE TransportShell_proofs ------------------------
(***************************************************************************)
(* Proofs about TransportShell, for any sizes of frames, buffers and       *)
(* queues and any number of connections.  What the two ends of a           *)
(* connection have sent and not yet taken is one pipeline: the answers in  *)
(* the demultiplexer, on the wire and in the server's queue, and the       *)
(* commands on the wire and in the shell's queue.  The invariant says what *)
(* may stand where in it.                                                  *)
(***************************************************************************)
EXTENDS TransportShell, SequenceTheorems, WellFoundedInduction, TLAPS

Kinds == {"loginAccepted", "loginRejected", "disconnectAccepted", "disconnectRejected",
          "snapshot", "event", "gap"}
FrameType == [kind : Kinds, session : Nat]
UnitType == [kind : Kinds \cup {"body"}, session : Nat]
CommandType == [type : {"login", "disconnect", "requestSnapshot", "other"}, session : Nat]
ShellType ==
  [link : {"disconnected", "connected", "failed"}, open : BOOLEAN,
   auth : {"anonymous", "loggedIn"}, session : Nat, snapshotQueued : BOOLEAN,
   disconnectQueued : BOOLEAN, out : Seq(CommandType), inbound : Seq(UnitType),
   inboundFailed : BOOLEAN, error : Reasons, reconnects : Nat, pending : BOOLEAN,
   loginDeadline : BOOLEAN, snapshotDeadline : BOOLEAN, needsSnapshot : BOOLEAN]
PeerType ==
  [open : BOOLEAN, session : BOOLEAN, closing : BOOLEAN, wanted : BOOLEAN,
   out : Seq(FrameType), commands : Seq(CommandType)]

\* No frame that begins in the first b units goes beyond them.
endsAt(u, b) == \A j \in 1..b : u[j].kind # "body" => j + frameSize(u[j]) <= b + 1

\* Frames: which there are, and in which order.
has(s, kind) == \E i \in 1..Len(s) : s[i].kind = kind
NoLate(s) ==
  \A i, j \in 1..Len(s) :
    i < j /\ s[i].kind = "disconnectAccepted" => s[j].kind # "loginAccepted"
Gives(s, id) == \A i \in 1..Len(s) : s[i].kind = "loginAccepted" => s[i].session = id

\* Commands: the Logins come before all others, and those name session id.
hasLogin(q) == \E i \in 1..Len(q) : q[i].type = "login"
onlyLogins(q) == \A i \in 1..Len(q) : q[i].type = "login"
LoginsFirst(q) == \A i, j \in 1..Len(q) : i < j /\ q[j].type = "login" => q[i].type = "login"
Names(q, id) == \A i \in 1..Len(q) : q[i].type # "login" => q[i].session = id

ShellTypes ==
  /\ shell \in ShellType
  /\ ready \in BOOLEAN
  /\ connection \in 0..MaxConnections
  /\ peer \in PeerType
  /\ stream \in Seq(UnitType)

\* The bounds, whatever the state of the connection.
Bounded ==
  /\ shell.session <= connection /\ shell.reconnects <= connection
  /\ Len(shell.out) <= MaxOutbound /\ Len(peer.out) <= MaxOutbound
  /\ Len(shell.inbound) < SnapshotSize
  /\ SnapshotSize + ReadBuffer - 1 <= MaxUpdateFrame => shell.error # "ProtocolError"

\* A shell without a socket is logged out and has no peer.
Closed ==
  ~shell.open => shell.auth = "anonymous" /\ peer = NoPeer /\ stream = <<>>

\* The application connects only with a shell that nothing is left in.
Fresh ==
  ready => ~shell.open /\ shell.out = <<>> /\ shell.inbound = <<>>

Linked ==
  shell.open =>
    /\ shell.link = "connected"
    /\ shell.auth = "loggedIn" => shell.session = connection
    /\ shell.pending => shell.reconnects < connection

\* The answers on their way to the shell: u is in the demultiplexer and on the
\* wire, out in the server's queue.
Answers(u, out, complete, id) ==
  /\ wholeFrames(u) /\ (complete => endsAt(u, Len(u)))
  /\ Gives(u, id) /\ Gives(out, id)
  /\ NoLate(u) /\ NoLate(out)
  /\ has(u, "disconnectAccepted") => ~has(out, "loginAccepted")

\* The commands on their way to the server: sent is on the wire, out in the
\* shell's queue.
Requests(sent, out, id) ==
  /\ Names(sent, id) /\ Names(out, id)
  /\ LoginsFirst(sent) /\ LoginsFirst(out)
  /\ hasLogin(out) => onlyLogins(sent)

\* Where a Disconnect has been accepted no Login is on its way any more; and
\* an anonymous shell has sent nothing but Logins on this connection.
Sessions(u, answers, sent, out, auth) ==
  /\ has(u, "disconnectAccepted") \/ has(answers, "disconnectAccepted") =>
       ~hasLogin(sent) /\ ~hasLogin(out)
  /\ auth = "anonymous" =>
       /\ onlyLogins(sent) /\ onlyLogins(out)
       /\ ~has(u, "disconnectAccepted") /\ ~has(answers, "disconnectAccepted")

Pipeline ==
  shell.open =>
    /\ Answers(shell.inbound \o stream, peer.out, peer.open, connection)
    /\ Requests(peer.commands, shell.out, connection)
    /\ Sessions(shell.inbound \o stream, peer.out, peer.commands, shell.out, shell.auth)

ShellInv == ShellTypes /\ Bounded /\ Closed /\ Fresh /\ Linked /\ Pipeline

-----------------------------------------------------------------------------
(* Sequences *)

\* c is s followed by t; s followed by e; s without its first b elements.
Joined(s, t, c) ==
  /\ Len(s) \in Nat /\ Len(t) \in Nat /\ Len(c) = Len(s) + Len(t)
  /\ \A i \in 1..Len(s) : i \in 1..Len(c) /\ c[i] = s[i]
  /\ \A i \in 1..Len(t) : Len(s) + i \in 1..Len(c) /\ c[Len(s) + i] = t[i]
Extended(s, e, c) ==
  /\ Len(s) \in Nat /\ Len(c) = Len(s) + 1 /\ c[Len(s) + 1] = e
  /\ \A i \in 1..Len(s) : c[i] = s[i]
Cut(s, b, c) ==
  /\ Len(s) \in Nat /\ b \in 0..Len(s) /\ Len(c) = Len(s) - b
  /\ \A i \in 1..Len(c) : b + i \in 1..Len(s) /\ c[i] = s[b + i]

LEMMA ConcatJoins ==
  ASSUME NEW S, NEW s \in Seq(S), NEW t \in Seq(S)
  PROVE  s \o t \in Seq(S) /\ Joined(s, t, s \o t)
<1> DEFINE c == s \o t
           ls == Len(s)
           lt == Len(t)
<1>1. /\ c \in Seq(S) /\ Len(c) = ls + lt
      /\ \A i \in 1..(ls + lt) : c[i] = IF i <= ls THEN s[i] ELSE t[i - ls]
  BY ConcatProperties
<1>2. ls \in Nat /\ lt \in Nat
  BY LenProperties
<1> HIDE DEF c, ls, lt
<1>3. \A i \in 1..ls : i \in 1..(ls + lt) /\ i <= ls
  BY <1>2
<1>4. \A i \in 1..lt : ls + i \in 1..(ls + lt) /\ ~(ls + i <= ls) /\ (ls + i) - ls = i
  BY <1>2
<1>5. \A i \in 1..ls : c[i] = s[i]
  BY <1>1, <1>3
<1>6. \A i \in 1..lt : c[ls + i] = t[i]
  <2> SUFFICES ASSUME NEW i \in 1..lt
               PROVE  c[ls + i] = t[i]
    OBVIOUS
  <2>1. c[ls + i] = t[(ls + i) - ls]
    BY <1>1, <1>4
  <2>2. QED
    BY ONLY <1>4, <2>1, Zenon
<1>7. QED
  BY <1>1, <1>2, <1>3, <1>4, <1>5, <1>6, Zenon DEF c, ls, lt, Joined

LEMMA AppendExtends ==
  ASSUME NEW S, NEW s \in Seq(S), NEW e \in S
  PROVE  Append(s, e) \in Seq(S) /\ Extended(s, e, Append(s, e))
<1>1. QED
  BY AppendProperties, LenProperties DEF Extended

LEMMA TailCuts ==
  ASSUME NEW S, NEW s \in Seq(S), s # <<>>
  PROVE  /\ Tail(s) \in Seq(S) /\ Cut(s, 1, Tail(s)) /\ Head(s) = s[1] /\ Head(s) \in S
         /\ 1 \in 1..Len(s)
<1> DEFINE t == Tail(s)
           ls == Len(s)
<1>1. t \in Seq(S) /\ Head(s) \in S /\ Len(t) = ls - 1 /\ \A i \in 1..Len(t) : t[i] = s[i + 1]
  BY HeadTailProperties
<1>2. ls \in Nat /\ ls # 0
  BY LenProperties, EmptySeq
<1>3. Head(s) = s[1]
  OBVIOUS
<1> HIDE DEF t, ls
<1>4. 1 \in 0..ls /\ 1 \in 1..ls
  BY <1>2
<1>5. \A i \in 1..Len(t) : 1 + i \in 1..ls /\ t[i] = s[1 + i]
  BY <1>1, <1>2
<1>6. QED
  BY <1>1, <1>2, <1>3, <1>4, <1>5, Zenon DEF t, ls, Cut

LEMMA SuffixCuts ==
  ASSUME NEW S, NEW w \in Seq(S), NEW n \in Nat, n <= Len(w)
  PROVE  SubSeq(w, n + 1, Len(w)) \in Seq(S) /\ Cut(w, n, SubSeq(w, n + 1, Len(w)))
<1> DEFINE lw == Len(w)
           t == SubSeq(w, n + 1, lw)
           lt == Len(t)
<1>1. lw \in Nat
  BY LenProperties
<1>2. \A i \in (n + 1)..lw : w[i] \in S
  <2>1. \A i \in (n + 1)..lw : i \in 1..Len(w)
    BY <1>1
  <2>2. QED
    BY <2>1, ElementOfSeq
<1>3. n <= lw
  OBVIOUS
<1> HIDE DEF lw
<1>4. /\ t \in Seq(S) /\ lt = IF n + 1 <= lw THEN lw - (n + 1) + 1 ELSE 0
      /\ \A i \in 1..(lw - (n + 1) + 1) : t[i] = w[(n + 1) + i - 1]
  BY <1>1, <1>2, SubSeqProperties
<1> HIDE DEF t, lt
<1>5. lt = lw - n /\ n \in 0..lw
  BY <1>1, <1>3, <1>4
<1>6. \A i \in 1..lt : i \in 1..(lw - (n + 1) + 1) /\ (n + 1) + i - 1 = n + i /\ n + i \in 1..lw
  BY <1>1, <1>5
<1>7. \A i \in 1..lt : t[i] = w[n + i]
  BY <1>4, <1>6
<1>8. QED
  BY <1>1, <1>4, <1>5, <1>6, <1>7, Zenon DEF lw, t, lt, Cut

LEMMA PrefixElements ==
  ASSUME NEW S, NEW w \in Seq(S), NEW n \in Nat, n <= Len(w)
  PROVE  /\ SubSeq(w, 1, n) \in Seq(S) /\ Len(SubSeq(w, 1, n)) = n
         /\ \A i \in 1..n : i \in 1..Len(w) /\ SubSeq(w, 1, n)[i] = w[i]
<1> DEFINE p == SubSeq(w, 1, n)
<1>1. Len(w) \in Nat
  BY LenProperties
<1>2. \A i \in 1..n : i \in 1..Len(w) /\ w[i] \in S
  <2>1. \A i \in 1..n : i \in 1..Len(w)
    BY <1>1
  <2>2. QED
    BY <2>1, ElementOfSeq
<1>3. /\ p \in Seq(S) /\ Len(p) = IF 1 <= n THEN n - 1 + 1 ELSE 0
      /\ \A i \in 1..(n - 1 + 1) : p[i] = w[1 + i - 1]
  BY <1>2, SubSeqProperties
<1> HIDE DEF p
<1>4. (IF 1 <= n THEN n - 1 + 1 ELSE 0) = n /\ n - 1 + 1 = n /\ \A i \in 1..n : 1 + i - 1 = i
  OBVIOUS
<1>5. QED
  BY <1>2, <1>3, <1>4 DEF p

-----------------------------------------------------------------------------
(* The commands on their way *)

LEMMA NoCommands ==
  ASSUME NEW id
  PROVE  /\ Names(<<>>, id) /\ LoginsFirst(<<>>) /\ onlyLogins(<<>>) /\ ~hasLogin(<<>>)
<1>1. Len(<<>>) = 0 /\ 1..0 = {}
  BY EmptySeq
<1>2. QED
  BY <1>1 DEF Names, LoginsFirst, onlyLogins, hasLogin

LEMMA CommandAppended ==
  ASSUME NEW q, NEW c, NEW e, NEW id, Extended(q, e, c)
  PROVE  /\ Names(q, id) /\ (e.type # "login" => e.session = id) => Names(c, id)
         /\ onlyLogins(q) /\ e.type = "login" => onlyLogins(c) /\ LoginsFirst(c)
         /\ LoginsFirst(q) /\ e.type # "login" => LoginsFirst(c)
         /\ hasLogin(c) => hasLogin(q) \/ e.type = "login"
<1> DEFINE n == Len(q)
<1>1. /\ n \in Nat /\ Len(c) = n + 1 /\ c[n + 1] = e
      /\ \A i \in 1..n : c[i] = q[i]
  BY DEF Extended
<1> HIDE DEF n
<1>2. \A i \in 1..(n + 1) : i \in 1..n \/ i = n + 1
  BY <1>1
<1>3. \A i, j \in 1..(n + 1) : i < j => i \in 1..n
  BY <1>1
<1>4. Names(q, id) /\ (e.type # "login" => e.session = id) => Names(c, id)
  BY <1>1, <1>2 DEF Names, n
<1>5. onlyLogins(q) /\ e.type = "login" => onlyLogins(c) /\ LoginsFirst(c)
  BY <1>1, <1>2 DEF onlyLogins, LoginsFirst, n
<1>6. LoginsFirst(q) /\ e.type # "login" => LoginsFirst(c)
  BY <1>1, <1>2, <1>3 DEF LoginsFirst, n
<1>7. hasLogin(c) => hasLogin(q) \/ e.type = "login"
  BY <1>1, <1>2 DEF hasLogin, n
<1>8. QED
  BY <1>4, <1>5, <1>6, <1>7

LEMMA CommandTaken ==
  ASSUME NEW q, NEW c, NEW id, Cut(q, 1, c)
  PROVE  /\ Names(q, id) => Names(c, id)
         /\ onlyLogins(q) => onlyLogins(c)
         /\ LoginsFirst(q) => LoginsFirst(c)
         /\ hasLogin(c) => hasLogin(q)
         /\ LoginsFirst(q) /\ q[1].type # "login" => ~hasLogin(q)
<1> DEFINE n == Len(q)
           m == Len(c)
<1>1. /\ n \in Nat /\ m \in Nat /\ 1 \in 0..n /\ m = n - 1
      /\ \A i \in 1..m : 1 + i \in 1..n /\ c[i] = q[1 + i]
  BY DEF Cut
<1> HIDE DEF n, m
<1>2. Names(q, id) => Names(c, id)
  BY <1>1 DEF Names, n, m
<1>3. onlyLogins(q) => onlyLogins(c)
  BY <1>1 DEF onlyLogins, n, m
<1>4. \A i, j \in 1..m : i < j => 1 + i < 1 + j
  BY <1>1
<1>5. LoginsFirst(q) => LoginsFirst(c)
  BY <1>1, <1>4 DEF LoginsFirst, n, m
<1>6. hasLogin(c) => hasLogin(q)
  BY <1>1 DEF hasLogin, n, m
<1>7. \A i \in 1..n : 1 \in 1..n /\ (i = 1 \/ 1 < i)
  BY <1>1
<1>8. LoginsFirst(q) /\ q[1].type # "login" => ~hasLogin(q)
  BY <1>7 DEF LoginsFirst, hasLogin, n
<1>9. QED
  BY <1>2, <1>3, <1>5, <1>6, <1>8

\* The queue is flushed.
LEMMA CommandsSent ==
  ASSUME NEW s, NEW t, NEW c, NEW id, Joined(s, t, c), Requests(s, t, id)
  PROVE  /\ Names(c, id) /\ LoginsFirst(c)
         /\ onlyLogins(s) /\ onlyLogins(t) => onlyLogins(c)
         /\ hasLogin(c) => hasLogin(s) \/ hasLogin(t)
<1> DEFINE ls == Len(s)
           lt == Len(t)
           lc == Len(c)
<1>1. /\ ls \in Nat /\ lt \in Nat /\ lc = ls + lt
      /\ \A i \in 1..ls : i \in 1..lc /\ c[i] = s[i]
      /\ \A i \in 1..lt : ls + i \in 1..lc /\ c[ls + i] = t[i]
  BY DEF Joined
<1> HIDE DEF ls, lt, lc
<1>2. \A i \in 1..lc : \/ i \in 1..ls /\ c[i] = s[i]
                       \/ i - ls \in 1..lt /\ c[i] = t[i - ls] /\ ls < i
  <2> SUFFICES ASSUME NEW i \in 1..lc
               PROVE  \/ i \in 1..ls /\ c[i] = s[i]
                      \/ i - ls \in 1..lt /\ c[i] = t[i - ls] /\ ls < i
    OBVIOUS
  <2>1. CASE i \in 1..ls
    BY <1>1, <2>1
  <2>2. CASE i \notin 1..ls
    <3>1. i - ls \in 1..lt /\ ls + (i - ls) = i /\ ls < i
      BY <1>1, <2>2
    <3>2. QED
      BY ONLY <1>1, <3>1, Zenon
  <2>3. QED
    BY <2>1, <2>2
<1>3. Names(c, id)
  <2>1. QED
    BY <1>2 DEF Names, Requests, ls, lt, lc
<1>4. LoginsFirst(c)
  <2> SUFFICES ASSUME NEW i \in 1..lc, NEW j \in 1..lc, i < j, c[j].type = "login"
               PROVE  c[i].type = "login"
    BY DEF LoginsFirst, lc
  <2>1. CASE j \in 1..ls
    <3>1. i \in 1..ls
      BY <1>1, <2>1
    <3>2. QED
      BY <1>1, <2>1, <3>1 DEF Requests, LoginsFirst, ls
  <2>2. CASE j - ls \in 1..lt /\ c[j] = t[j - ls]
    <3>1. CASE i \in 1..ls
      BY <1>1, <2>2, <3>1 DEF Requests, hasLogin, onlyLogins, ls, lt
    <3>2. CASE i - ls \in 1..lt /\ c[i] = t[i - ls]
      <4>1. i - ls < j - ls
        BY <1>1
      <4>2. QED
        BY <2>2, <3>2, <4>1 DEF Requests, LoginsFirst, lt
    <3>3. QED
      BY <1>2, <3>1, <3>2
  <2>3. QED
    BY <1>2, <2>1, <2>2
<1>5. onlyLogins(s) /\ onlyLogins(t) => onlyLogins(c)
  BY <1>2 DEF onlyLogins, ls, lt, lc
<1>6. hasLogin(c) => hasLogin(s) \/ hasLogin(t)
  BY <1>2 DEF hasLogin, ls, lt, lc
<1>7. QED
  BY <1>3, <1>4, <1>5, <1>6

-----------------------------------------------------------------------------
(* The answers on their way *)

\* c is the first n elements of s.
Begins(s, n, c) ==
  /\ Len(s) \in Nat /\ n \in 0..Len(s) /\ Len(c) = n
  /\ \A i \in 1..n : i \in 1..Len(s) /\ c[i] = s[i]

LEMMA FrameSizes ==
  ASSUME NEW f
  PROVE  frameSize(f) \in Nat /\ 1 <= frameSize(f) /\ frameSize(f) <= SnapshotSize
  BY ShellAssumption DEF frameSize

LEMMA NoFrames ==
  ASSUME NEW id, NEW kind
  PROVE  /\ Gives(<<>>, id) /\ NoLate(<<>>) /\ ~has(<<>>, kind)
         /\ wholeFrames(<<>>) /\ endsAt(<<>>, 0)
<1>1. Len(<<>>) = 0 /\ 1..0 = {}
  BY EmptySeq
<1>2. QED
  BY <1>1 DEF Gives, NoLate, has, wholeFrames, endsAt

LEMMA FrameAppended ==
  ASSUME NEW s, NEW c, NEW e, NEW id, Extended(s, e, c)
  PROVE  /\ Gives(s, id) /\ (e.kind = "loginAccepted" => e.session = id) => Gives(c, id)
         /\ NoLate(s) /\ (e.kind = "loginAccepted" => ~has(s, "disconnectAccepted")) => NoLate(c)
         /\ \A k : has(c, k) => has(s, k) \/ e.kind = k
<1> DEFINE n == Len(s)
<1>1. /\ n \in Nat /\ Len(c) = n + 1 /\ c[n + 1] = e
      /\ \A i \in 1..n : c[i] = s[i]
  BY DEF Extended
<1> HIDE DEF n
<1>2. \A i \in 1..(n + 1) : i \in 1..n \/ i = n + 1
  BY <1>1
<1>3. \A i, j \in 1..(n + 1) : i < j => i \in 1..n
  BY <1>1
<1>4. Gives(s, id) /\ (e.kind = "loginAccepted" => e.session = id) => Gives(c, id)
  BY <1>1, <1>2 DEF Gives, n
<1>5. NoLate(s) /\ (e.kind = "loginAccepted" => ~has(s, "disconnectAccepted")) => NoLate(c)
  BY <1>1, <1>2, <1>3 DEF NoLate, has, n
<1>6. \A k : has(c, k) => has(s, k) \/ e.kind = k
  BY <1>1, <1>2 DEF has, n
<1>7. QED
  BY <1>4, <1>5, <1>6

LEMMA FramesCut ==
  ASSUME NEW s, NEW b, NEW c, NEW id, Cut(s, b, c)
  PROVE  /\ Gives(s, id) => Gives(c, id)
         /\ NoLate(s) => NoLate(c)
         /\ \A k : has(c, k) => has(s, k)
<1> DEFINE n == Len(s)
           m == Len(c)
<1>1. /\ n \in Nat /\ b \in 0..n /\ m = n - b
      /\ \A i \in 1..m : b + i \in 1..n /\ c[i] = s[b + i]
  BY DEF Cut
<1> HIDE DEF n, m
<1>2. \A i, j \in 1..m : i < j => b + i < b + j
  BY <1>1
<1>3. Gives(s, id) => Gives(c, id)
  BY <1>1 DEF Gives, n, m
<1>4. NoLate(s) => NoLate(c)
  BY <1>1, <1>2 DEF NoLate, n, m
<1>5. \A k : has(c, k) => has(s, k)
  BY <1>1 DEF has, n, m
<1>6. QED
  BY <1>3, <1>4, <1>5

\* The first frame of the queue goes: what it was is no longer to come.
LEMMA FirstFrameTaken ==
  ASSUME NEW s, NEW c, Cut(s, 1, c), NoLate(s), s[1].kind = "disconnectAccepted"
  PROVE  ~has(c, "loginAccepted")
<1> DEFINE n == Len(s)
           m == Len(c)
<1>1. /\ n \in Nat /\ 1 \in 0..n /\ m = n - 1
      /\ \A i \in 1..m : 1 + i \in 1..n /\ c[i] = s[1 + i]
  BY DEF Cut
<1> HIDE DEF n, m
<1>2. \A i \in 1..m : 1 \in 1..n /\ 1 < 1 + i
  BY <1>1
<1>3. QED
  BY <1>1, <1>2 DEF NoLate, has, n, m

LEMMA FramesBegin ==
  ASSUME NEW s, NEW n, NEW c, NEW id, Begins(s, n, c)
  PROVE  /\ Gives(s, id) => Gives(c, id)
         /\ NoLate(s) => NoLate(c)
         /\ \A k : has(c, k) => has(s, k)
<1>1. Len(c) = n /\ \A i \in 1..n : i \in 1..Len(s) /\ c[i] = s[i]
  BY DEF Begins
<1>2. Gives(s, id) => Gives(c, id)
  BY <1>1 DEF Gives
<1>3. NoLate(s) => NoLate(c)
  BY <1>1 DEF NoLate
<1>4. \A k : has(c, k) => has(s, k)
  BY <1>1 DEF has
<1>5. QED
  BY <1>2, <1>3, <1>4

LEMMA WholeBegin ==
  ASSUME NEW s, NEW n, NEW c, Begins(s, n, c), wholeFrames(s)
  PROVE  wholeFrames(c)
<1> DEFINE ls == Len(s)
<1>1. ls \in Nat /\ n \in 0..ls /\ Len(c) = n /\ \A i \in 1..n : i \in 1..ls /\ c[i] = s[i]
  BY DEF Begins
<1> HIDE DEF ls
<1>2. SUFFICES ASSUME NEW i \in 1..n
               PROVE  c[i].kind = "body" <=>
                        \E j \in 1..(i - 1) : j + frameSize(c[j]) > i /\ c[j].kind # "body"
  BY <1>1 DEF wholeFrames
<1>3. s[i].kind = "body" <=>
        \E j \in 1..(i - 1) : j + frameSize(s[j]) > i /\ s[j].kind # "body"
  BY <1>1 DEF wholeFrames, ls
<1>4. \A j \in 1..(i - 1) : j \in 1..n /\ c[j] = s[j]
  BY <1>1
<1>5. QED
  BY <1>1, <1>3, <1>4

LEMMA WholeCut ==
  ASSUME NEW s, NEW b, NEW c, Cut(s, b, c), wholeFrames(s), endsAt(s, b)
  PROVE  wholeFrames(c) /\ (endsAt(s, Len(s)) => endsAt(c, Len(c)))
<1> DEFINE n == Len(s)
           m == Len(c)
<1>1. /\ n \in Nat /\ b \in 0..n /\ m = n - b
      /\ \A i \in 1..m : b + i \in 1..n /\ c[i] = s[b + i]
  BY DEF Cut
<1> HIDE DEF n, m
<1>2. ASSUME NEW i \in 1..m
      PROVE  c[i].kind = "body" <=>
               \E j \in 1..(i - 1) : j + frameSize(c[j]) > i /\ c[j].kind # "body"
  <2>1. s[b + i].kind = "body" <=>
          \E k \in 1..((b + i) - 1) : k + frameSize(s[k]) > b + i /\ s[k].kind # "body"
    BY <1>1 DEF wholeFrames, n
  <2>2. ASSUME NEW j \in 1..(i - 1), j + frameSize(c[j]) > i, c[j].kind # "body"
        PROVE  s[b + i].kind = "body"
    <3>1. j \in 1..m /\ b + j \in 1..((b + i) - 1)
      BY <1>1
    <3>2. c[j] = s[b + j]
      BY <1>1, <3>1
    <3>3. frameSize(c[j]) \in Nat
      BY FrameSizes
    <3>4. (b + j) + frameSize(s[b + j]) > b + i
      BY <1>1, <2>2, <3>2, <3>3
    <3>5. QED
      BY <2>1, <2>2, <3>1, <3>2, <3>4
  <2>3. ASSUME NEW k \in 1..((b + i) - 1), k + frameSize(s[k]) > b + i, s[k].kind # "body"
        PROVE  \E j \in 1..(i - 1) : j + frameSize(c[j]) > i /\ c[j].kind # "body"
    <3>0. frameSize(s[k]) \in Nat
      BY FrameSizes
    <3>1. ~(k \in 1..b)
      <4>1. k \in 1..b => k + frameSize(s[k]) <= b + 1
        BY <2>3 DEF endsAt
      <4>2. QED
        BY <1>1, <2>3, <3>0, <4>1
    <3>2. k - b \in 1..(i - 1) /\ k - b \in 1..m /\ b + (k - b) = k
      BY <1>1, <3>1
    <3>3. c[k - b] = s[b + (k - b)]
      BY <1>1, <3>2
    <3>4. c[k - b] = s[k]
      BY ONLY <3>2, <3>3, Zenon
    <3>5. (k - b) + frameSize(c[k - b]) > i
      BY <1>1, <2>3, <3>0, <3>4
    <3>6. QED
      BY <2>3, <3>2, <3>4, <3>5
  <2>4. c[i] = s[b + i]
    BY <1>1
  <2>5. QED
    BY <2>1, <2>2, <2>3, <2>4
<1>3. ASSUME endsAt(s, n), NEW j \in 1..m, c[j].kind # "body"
      PROVE  j + frameSize(c[j]) <= m + 1
  <2>1. b + j \in 1..n /\ c[j] = s[b + j] /\ frameSize(s[b + j]) \in Nat
    BY <1>1, FrameSizes
  <2>2. (b + j) + frameSize(s[b + j]) <= n + 1
    BY <1>3, <2>1 DEF endsAt
  <2>3. QED
    BY <1>1, <2>1, <2>2
<1>4. QED
  BY <1>2, <1>3 DEF wholeFrames, endsAt, n, m

\* A frame on the wire.
LEMMA UnitsOfFrame ==
  ASSUME NEW f \in FrameType
  PROVE  /\ units(f) \in Seq(UnitType) /\ Len(units(f)) = frameSize(f) /\ units(f)[1] = f
         /\ \A i \in 2..frameSize(f) : units(f)[i] = Body
<1> DEFINE n == frameSize(f) - 1
           rest == [i \in 1..n |-> Body]
           one == <<f>>
           c == one \o rest
<1>1. n \in Nat /\ frameSize(f) = n + 1
  BY FrameSizes
<1> HIDE DEF n
<1>2. Body \in UnitType /\ f \in UnitType
  BY DEF Body, UnitType, FrameType
<1>3. rest \in Seq(UnitType) /\ Len(rest) = n /\ \A i \in 1..n : rest[i] = Body
  BY <1>1, <1>2
<1>4. one \in Seq(UnitType) /\ Len(one) = 1 /\ one[1] = f
  BY <1>2
<1> HIDE DEF rest, one
<1>5. c \in Seq(UnitType) /\ Joined(one, rest, c)
  BY <1>3, <1>4, ConcatJoins
<1> HIDE DEF c
<1>6. Len(c) = n + 1 /\ c[1] = f /\ \A i \in 1..n : c[1 + i] = Body
  <2>1. /\ Len(c) = 1 + n
        /\ \A i \in 1..1 : c[i] = one[i]
        /\ \A i \in 1..n : c[1 + i] = rest[i]
    BY <1>3, <1>4, <1>5, Zenon DEF Joined
  <2>2. 1 \in 1..1 /\ 1 + n = n + 1
    BY <1>1
  <2>3. QED
    BY <1>3, <1>4, <2>1, <2>2, Zenon
<1>7. \A i \in 2..(n + 1) : i - 1 \in 1..n /\ 1 + (i - 1) = i
  BY <1>1
<1>8. ASSUME NEW i \in 2..(n + 1)
      PROVE  c[i] = Body
  <2>1. c[1 + (i - 1)] = Body
    BY <1>6, <1>7
  <2>2. QED
    BY ONLY <1>7, <2>1, Zenon
<1>9. units(f) = c
  BY DEF units, c, one, rest, n
<1>10. QED
  BY <1>1, <1>5, <1>6, <1>8, <1>9

LEMMA FrameSent ==
  ASSUME NEW u, NEW f \in FrameType, NEW c, NEW id, Joined(u, units(f), c),
         wholeFrames(u), endsAt(u, Len(u))
  PROVE  /\ wholeFrames(c) /\ endsAt(c, Len(c))
         /\ Gives(u, id) /\ (f.kind = "loginAccepted" => f.session = id) => Gives(c, id)
         /\ NoLate(u) /\ (f.kind = "loginAccepted" => ~has(u, "disconnectAccepted")) => NoLate(c)
         /\ \A k : k # "body" /\ has(c, k) => has(u, k) \/ f.kind = k
<1> DEFINE n == Len(u)
           z == frameSize(f)
           m == Len(c)
<1>0. f.kind # "body"
  BY DEF FrameType, Kinds
<1>1. z \in Nat /\ 1 <= z
  BY FrameSizes
<1>2. Len(units(f)) = z /\ units(f)[1] = f /\ \A i \in 2..z : units(f)[i] = Body
  BY UnitsOfFrame
<1>3. /\ n \in Nat /\ m = n + z
      /\ \A i \in 1..n : c[i] = u[i]
      /\ \A i \in 1..z : c[n + i] = units(f)[i]
  BY <1>2 DEF Joined
<1>4. /\ c[n + 1] = f
      /\ \A i \in 2..z : c[n + i] = Body
  BY <1>1, <1>2, <1>3
<1> HIDE DEF n, z, m
<1>5. ASSUME NEW i \in (n + 2)..m
      PROVE  c[i].kind = "body"
  <2>1. i - n \in 2..z /\ n + (i - n) = i
    BY <1>1, <1>3
  <2>2. c[n + (i - n)] = Body
    BY <1>4, <2>1
  <2>3. c[i] = Body
    BY ONLY <2>1, <2>2, Zenon
  <2>4. QED
    BY <2>3 DEF Body
<1>6. ASSUME NEW i \in 1..m
      PROVE  i \in 1..n \/ i = n + 1 \/ i \in (n + 2)..m
  BY <1>1, <1>3
<1>7. ASSUME NEW i \in 1..m
      PROVE  c[i].kind = "body" <=>
               \E j \in 1..(i - 1) : j + frameSize(c[j]) > i /\ c[j].kind # "body"
  <2>1. CASE i \in 1..n
    <3>1. \A j \in 1..(i - 1) : j \in 1..n /\ c[j] = u[j]
      BY <1>3, <2>1
    <3>2. c[i] = u[i]
      BY <1>3, <2>1
    <3>3. u[i].kind = "body" <=>
            \E j \in 1..(i - 1) : j + frameSize(u[j]) > i /\ u[j].kind # "body"
      BY <2>1 DEF wholeFrames, n
    <3>4. QED
      BY <3>1, <3>2, <3>3
  <2>2. CASE i = n + 1
    <3>1. ASSUME NEW j \in 1..(i - 1), c[j].kind # "body"
          PROVE  ~(j + frameSize(c[j]) > i)
      <4>1. j \in 1..n /\ c[j] = u[j]
        BY <1>3, <2>2
      <4>2. j + frameSize(u[j]) <= n + 1 /\ frameSize(u[j]) \in Nat
        BY <3>1, <4>1, FrameSizes DEF endsAt, n
      <4>3. QED
        BY <1>3, <2>2, <4>1, <4>2
    <3>2. QED
      BY <1>0, <1>4, <2>2, <3>1
  <2>3. CASE i \in (n + 2)..m
    <3>1. n + 1 \in 1..(i - 1) /\ (n + 1) + z > i
      BY <1>1, <1>3, <2>3
    <3>2. frameSize(c[n + 1]) = z
      BY <1>4 DEF z
    <3>3. QED
      BY <1>0, <1>4, <1>5, <2>3, <3>1, <3>2
  <2>4. QED
    BY <1>6, <2>1, <2>2, <2>3
<1>8. ASSUME NEW j \in 1..m, c[j].kind # "body"
      PROVE  j + frameSize(c[j]) <= m + 1
  <2>1. CASE j \in 1..n
    <3>1. c[j] = u[j]
      BY <1>3, <2>1
    <3>2. j + frameSize(u[j]) <= n + 1 /\ frameSize(u[j]) \in Nat
      BY <1>8, <2>1, <3>1, FrameSizes DEF endsAt, n
    <3>3. QED
      BY <1>1, <1>3, <3>1, <3>2
  <2>2. CASE j = n + 1
    <3>1. frameSize(c[j]) = z
      BY <1>4, <2>2 DEF z
    <3>2. QED
      BY <1>1, <1>3, <2>2, <3>1
  <2>3. QED
    BY <1>5, <1>6, <1>8, <2>1, <2>2
<1>9. wholeFrames(c) /\ endsAt(c, Len(c))
  BY <1>7, <1>8 DEF wholeFrames, endsAt, m
<1>10. \A i \in 1..m : \/ i \in 1..n /\ c[i] = u[i]
                       \/ i = n + 1 /\ c[i] = f
                       \/ c[i].kind = "body"
  BY <1>3, <1>4, <1>5, <1>6
<1>11. Gives(u, id) /\ (f.kind = "loginAccepted" => f.session = id) => Gives(c, id)
  BY <1>10 DEF Gives, n, m
<1>12. \A k : k # "body" /\ has(c, k) => has(u, k) \/ f.kind = k
  BY <1>10 DEF has, n, m
<1>13. NoLate(u) /\ (f.kind = "loginAccepted" => ~has(u, "disconnectAccepted")) => NoLate(c)
  <2> SUFFICES ASSUME NoLate(u), f.kind = "loginAccepted" => ~has(u, "disconnectAccepted"),
                      NEW i \in 1..m, NEW j \in 1..m, i < j,
                      c[i].kind = "disconnectAccepted", c[j].kind = "loginAccepted"
               PROVE  FALSE
    BY DEF NoLate, m
  <2>1. CASE j \in 1..n /\ c[j] = u[j]
    <3>1. i \in 1..n
      BY <1>3, <2>1
    <3>2. QED
      BY <1>3, <2>1, <3>1 DEF NoLate, n
  <2>2. CASE j = n + 1 /\ c[j] = f
    <3>1. i \in 1..n
      BY <1>3, <2>2
    <3>2. QED
      BY <1>3, <2>2, <3>1 DEF has, n
  <2>3. QED
    BY <1>10, <2>1, <2>2
<1>14. QED
  BY <1>9, <1>11, <1>12, <1>13

-----------------------------------------------------------------------------
(* The demultiplexer *)

DemuxType == [frames : Seq(FrameType), rest : Seq(UnitType), failed : BOOLEAN]

\* p[k] is the size of the first k frames, b that of all.
Sizes(fs, p, b) ==
  /\ p \in [0..Len(fs) -> Nat] /\ p[0] = 0 /\ p[Len(fs)] = b
  /\ \A k \in 1..Len(fs) : p[k] = p[k - 1] + frameSize(fs[k])

\* After n units of v the frames are those that end in the first b of them, and
\* the rest is the beginning of another.
ParsedTo(v, n, d, b, p) ==
  /\ d \in DemuxType /\ ~d.failed
  /\ b \in 0..n /\ Sizes(d.frames, p, b)
  /\ \A k \in 1..Len(d.frames) : \E i \in 1..b : d.frames[k] = v[i]
  /\ NoLate(d.frames)
  /\ Len(d.rest) = n - b /\ \A i \in 1..(n - b) : d.rest[i] = v[b + i]
  /\ d.rest # <<>> => Len(d.rest) < frameSize(v[b + 1])
  /\ endsAt(v, b)
Parsed(v, n, d) == \E b, p : ParsedTo(v, n, d, b, p)

\* Where all frames have ended another begins.
LEMMA BoundaryBegins ==
  ASSUME NEW v, wholeFrames(v), Len(v) \in Nat, NEW b \in Nat, b + 1 <= Len(v), endsAt(v, b)
  PROVE  v[b + 1].kind # "body"
<1>1. b + 1 \in 1..Len(v) /\ (b + 1) - 1 = b
  OBVIOUS
<1>2. ASSUME v[b + 1].kind = "body"
      PROVE  FALSE
  <2>1. PICK j \in 1..((b + 1) - 1) : j + frameSize(v[j]) > b + 1 /\ v[j].kind # "body"
    BY <1>1, <1>2 DEF wholeFrames
  <2>2. j \in 1..b /\ frameSize(v[j]) \in Nat
    BY <1>1, <2>1, FrameSizes
  <2>3. j + frameSize(v[j]) <= b + 1
    BY <2>1, <2>2 DEF endsAt
  <2>4. QED
    BY <2>1, <2>2, <2>3
<1>3. QED
  BY <1>2

\* The frame that begins there moves the boundary to where it ends.
LEMMA BoundaryMoves ==
  ASSUME NEW v, wholeFrames(v), Len(v) \in Nat, NEW b \in Nat, endsAt(v, b),
         b + frameSize(v[b + 1]) <= Len(v), v[b + 1].kind # "body"
  PROVE  endsAt(v, b + frameSize(v[b + 1]))
<1> DEFINE z == frameSize(v[b + 1])
<1>1. z \in Nat /\ 1 <= z /\ b + z <= Len(v)
  BY FrameSizes
<1> HIDE DEF z
<1>2. SUFFICES ASSUME NEW j \in 1..(b + z), v[j].kind # "body"
               PROVE  j + frameSize(v[j]) <= (b + z) + 1
  BY DEF endsAt, z
<1>3. CASE j \in 1..b
  <2>1. j + frameSize(v[j]) <= b + 1 /\ frameSize(v[j]) \in Nat
    BY <1>2, <1>3, FrameSizes DEF endsAt
  <2>2. QED
    BY <1>1, <2>1
<1>4. CASE j = b + 1
  BY <1>1, <1>4 DEF z
<1>5. CASE j \notin 1..(b + 1)
  <2>1. j \in 1..Len(v) /\ b + 1 \in 1..(j - 1) /\ (b + 1) + z > j
    BY <1>1, <1>5
  <2>2. QED
    BY <1>2, <2>1 DEF wholeFrames, z
<1>6. QED
  BY <1>1, <1>3, <1>4, <1>5

LEMMA SizesGrow ==
  ASSUME NEW fs \in Seq(FrameType), NEW p, NEW b \in Nat, Sizes(fs, p, b), NEW f \in FrameType
  PROVE  \E q : Sizes(Append(fs, f), q, b + frameSize(f))
<1> DEFINE L == Len(fs)
           gs == Append(fs, f)
           z == frameSize(f)
           q == [k \in 0..(L + 1) |-> IF k = L + 1 THEN b + z ELSE p[k]]
<1>1. L \in Nat /\ z \in Nat
  BY LenProperties, FrameSizes
<1>2. Len(gs) = L + 1 /\ gs[L + 1] = f /\ \A k \in 1..L : gs[k] = fs[k]
  BY AppendExtends DEF Extended
<1>3. p \in [0..L -> Nat] /\ p[0] = 0 /\ p[L] = b
      /\ \A k \in 1..L : p[k] = p[k - 1] + frameSize(fs[k])
  BY DEF Sizes
<1> HIDE DEF L, gs, z
<1>4. q \in [0..(L + 1) -> Nat] /\ q[0] = 0 /\ q[L + 1] = b + z
  BY <1>1, <1>3
<1>5. ASSUME NEW k \in 1..(L + 1)
      PROVE  q[k] = q[k - 1] + frameSize(gs[k])
  <2>1. CASE k = L + 1
    <3>1. q[k] = b + z /\ k - 1 = L /\ L \in 0..(L + 1) /\ L # L + 1
      BY <1>1, <2>1
    <3>2. q[k - 1] = p[L]
      BY <3>1
    <3>3. frameSize(gs[k]) = z
      BY <1>2, <2>1 DEF z
    <3>4. QED
      BY <1>3, <3>1, <3>2, <3>3
  <2>2. CASE k \in 1..L
    <3>1. k # L + 1 /\ k - 1 \in 0..(L + 1) /\ k - 1 # L + 1
      BY <1>1, <2>2
    <3>2. q[k] = p[k] /\ q[k - 1] = p[k - 1]
      BY <3>1
    <3>3. QED
      BY <1>2, <1>3, <2>2, <3>2
  <2>3. QED
    BY <1>1, <2>1, <2>2
<1> HIDE DEF q
<1>6. Sizes(gs, q, b + z)
  BY <1>2, <1>4, <1>5, Zenon DEF Sizes
<1>7. QED
  BY <1>6 DEF gs, z

LEMMA ParsedFirst ==
  ASSUME NEW v
  PROVE  Parsed(v, 0, [frames |-> <<>>, rest |-> <<>>, failed |-> FALSE])
<1> DEFINE d == [frames |-> <<>>, rest |-> <<>>, failed |-> FALSE]
           p == [k \in 0..0 |-> 0]
<1>1. d \in DemuxType /\ ~d.failed /\ d.frames = <<>> /\ d.rest = <<>>
  BY EmptySeq DEF DemuxType
<1>2. Len(<<>>) = 0 /\ 0 \in 0..0 /\ 1..0 = {} /\ 0 - 0 = 0
  BY EmptySeq
<1>3. p \in [0..0 -> Nat] /\ p[0] = 0
  OBVIOUS
<1> HIDE DEF d, p
<1>4. Sizes(<<>>, p, 0)
  BY <1>2, <1>3 DEF Sizes
<1>5. NoLate(<<>>) /\ endsAt(v, 0)
  BY <1>2, NoFrames DEF endsAt
<1>6. ParsedTo(v, 0, d, 0, p)
  BY <1>1, <1>2, <1>4, <1>5 DEF ParsedTo
<1>7. QED
  BY <1>6 DEF Parsed, d

LEMMA ParsedNext ==
  ASSUME NEW v \in Seq(UnitType), wholeFrames(v), NoLate(v), NEW n \in 1..Len(v), NEW d,
         Parsed(v, n - 1, d)
  PROVE  Parsed(v, n, demuxUnit(d, v[n]))
<1>1. PICK b, p : ParsedTo(v, n - 1, d, b, p)
  BY DEF Parsed
<1> DEFINE r == Append(d.rest, v[n])
           lr == Len(d.rest)
           L == Len(d.frames)
           m == n - 1
<1>2. Len(v) \in Nat /\ v[n] \in UnitType /\ n \in Nat /\ m \in Nat /\ n = m + 1 /\ n <= Len(v)
  BY LenProperties, ElementOfSeq
<1>3. /\ d \in DemuxType /\ ~d.failed
      /\ b \in 0..m /\ Sizes(d.frames, p, b)
      /\ \A k \in 1..L : \E i \in 1..b : d.frames[k] = v[i]
      /\ NoLate(d.frames)
      /\ lr = m - b /\ \A i \in 1..(m - b) : d.rest[i] = v[b + i]
      /\ d.rest # <<>> => lr < frameSize(v[b + 1])
      /\ endsAt(v, b)
  BY <1>1 DEF ParsedTo
<1>4. d.frames \in Seq(FrameType) /\ d.rest \in Seq(UnitType)
  BY <1>3 DEF DemuxType
<1>5. r \in Seq(UnitType) /\ Extended(d.rest, v[n], r)
  BY <1>2, <1>4, AppendExtends
<1>6. L \in Nat /\ (d.rest # <<>> => lr \in Nat \ {0}) /\ lr \in Nat
  BY <1>4, LenProperties, EmptySeq
<1> HIDE DEF r, lr, L, m
<1>7. Len(r) = lr + 1 /\ r[lr + 1] = v[n] /\ \A i \in 1..lr : r[i] = d.rest[i]
  BY <1>5 DEF Extended, lr
<1>8. b \in Nat /\ b <= m /\ b + 1 <= Len(v) /\ n - b = lr + 1 /\ b + 1 \in 1..Len(v)
  BY <1>2, <1>3
<1>9. Len(r) = n - b /\ \A i \in 1..(n - b) : r[i] = v[b + i]
  <2>1. ASSUME NEW i \in 1..(n - b)
        PROVE  r[i] = v[b + i]
    <3>1. CASE i \in 1..lr
      BY <1>3, <1>7, <3>1
    <3>2. CASE i = lr + 1
      <4>1. b + i = n
        BY <1>2, <1>6, <1>8, <3>2
      <4>2. QED
        BY <1>7, <3>2, <4>1
    <3>3. QED
      BY <1>6, <1>8, <3>1, <3>2
  <2>2. QED
    BY <1>7, <1>8, <2>1
<1>10. 1 \in 1..(n - b) /\ r # <<>>
  <2>1. 1 \in 1..(n - b)
    BY <1>6, <1>8
  <2>2. r # <<>>
    BY <1>6, <1>7, EmptySeq
  <2>3. QED
    BY <2>1, <2>2
<1>11. Head(r) = v[b + 1]
  <2>1. Head(r) = r[1]
    BY <1>5, <1>10, TailCuts
  <2>2. QED
    BY <1>9, <1>10, <2>1
<1>12. v[b + 1].kind # "body"
  BY <1>2, <1>3, <1>8, BoundaryBegins
<1>13. v[b + 1] \in FrameType
  <2>1. v[b + 1] \in UnitType
    BY <1>8, ElementOfSeq
  <2>2. QED
    BY <1>12, <2>1 DEF UnitType, FrameType
<1> DEFINE f == v[b + 1]
           z == frameSize(f)
<1>14. z \in Nat /\ 1 <= z
  BY FrameSizes
<1>15. f \in FrameType /\ f.kind # "body" /\ Head(r) = f /\ (d.rest # <<>> => lr < z)
  BY <1>3, <1>11, <1>12, <1>13
<1>16. endsAt(v, b) /\ (b + z <= Len(v) => endsAt(v, b + z))
  BY <1>2, <1>3, <1>8, <1>12, BoundaryMoves
<1>17. \E i \in 1..Len(v) : v[i] = f /\ i = b + 1
  BY <1>8
<1> HIDE DEF f, z
<1>18. CASE Len(r) < z
  <2> DEFINE e == [d EXCEPT !.rest = r]
  <2>1. demuxUnit(d, v[n]) = e
    BY <1>3, <1>15, <1>18 DEF demuxUnit, r, z
  <2>2. e \in DemuxType /\ ~e.failed /\ e.frames = d.frames /\ e.rest = r
    BY <1>3, <1>5 DEF DemuxType
  <2>3. b \in 0..n
    BY <1>2, <1>8
  <2> HIDE DEF e
  <2>4. Len(r) < frameSize(v[b + 1])
    BY <1>18 DEF z, f
  <2>5. ParsedTo(v, n, e, b, p)
    BY <1>3, <1>9, <1>16, <2>2, <2>3, <2>4, Zenon DEF ParsedTo, L
  <2>6. QED
    BY <2>1, <2>5 DEF Parsed
<1>19. CASE ~(Len(r) < z)
  <2> DEFINE fs == Append(d.frames, f)
             e == [d EXCEPT !.frames = fs, !.rest = <<>>]
  <2>1. demuxUnit(d, v[n]) = e
    BY <1>3, <1>15, <1>19 DEF demuxUnit, r, z
  <2>2. fs \in Seq(FrameType) /\ Extended(d.frames, f, fs)
    BY <1>4, <1>15, AppendExtends
  <2>3. \E q : Sizes(fs, q, b + z)
    BY <1>3, <1>4, <1>8, <1>15, SizesGrow DEF z
  <2> HIDE DEF fs
  <2>4. <<>> \in Seq(UnitType) /\ Len(<<>>) = 0
    BY EmptySeq
  <2>5. e \in DemuxType /\ ~e.failed /\ e.frames = fs /\ e.rest = <<>>
    BY <1>3, <2>2, <2>4 DEF DemuxType
  <2> HIDE DEF e
  <2>6. lr < z
    <3>1. CASE d.rest = <<>>
      <4>1. lr = 0
        BY <2>4, <3>1 DEF lr
      <4>2. QED
        BY <1>14, <4>1
    <3>2. CASE d.rest # <<>>
      BY <1>15, <3>2
    <3>3. QED
      BY <3>1, <3>2
  <2>7. n = b + z
    BY <1>2, <1>6, <1>7, <1>8, <1>14, <1>19, <2>6
  <2>8. endsAt(v, n)
    BY <1>2, <1>16, <2>7
  <2>9. /\ Len(fs) = L + 1 /\ fs[L + 1] = f
        /\ \A k \in 1..L : fs[k] = d.frames[k]
    BY <2>2 DEF Extended, L
  <2>10. ASSUME NEW k \in 1..Len(fs)
         PROVE  \E i \in 1..n : fs[k] = v[i]
    <3>1. CASE k \in 1..L
      <4>1. PICK i \in 1..b : d.frames[k] = v[i]
        BY <1>3, <3>1
      <4>2. i \in 1..n
        BY <1>2, <1>8, <4>1
      <4>3. QED
        BY <2>9, <3>1, <4>1, <4>2
    <3>2. CASE k = L + 1
      <4>1. b + 1 \in 1..n
        BY <1>2, <1>8
      <4>2. QED
        BY <2>9, <3>2, <4>1 DEF f
    <3>3. QED
      BY <1>6, <2>9, <3>1, <3>2
  <2>11. f.kind = "loginAccepted" => ~has(d.frames, "disconnectAccepted")
    <3> SUFFICES ASSUME f.kind = "loginAccepted", NEW k \in 1..L,
                        d.frames[k].kind = "disconnectAccepted"
                 PROVE  FALSE
      BY DEF has, L
    <3>1. PICK i \in 1..b : d.frames[k] = v[i]
      BY <1>3
    <3>2. i \in 1..Len(v) /\ i < b + 1 /\ b + 1 \in 1..Len(v)
      BY <1>2, <1>8, <3>1
    <3>3. QED
      BY <3>1, <3>2 DEF NoLate, f
  <2>12. NoLate(fs)
    BY <1>3, <2>2, <2>11, FrameAppended
  <2>13. n \in 0..n /\ n - n = 0 /\ 1..0 = {}
    BY <1>2
  <2>14. PICK q : Sizes(fs, q, n)
    BY <2>3, <2>7
  <2>15. ParsedTo(v, n, e, n, q)
    BY <2>4, <2>5, <2>8, <2>10, <2>12, <2>13, <2>14, Zenon DEF ParsedTo
  <2>16. QED
    BY <2>1, <2>15 DEF Parsed
<1>20. QED
  BY <1>18, <1>19

-----------------------------------------------------------------------------
(* All units of a read, one after the other *)

\* A set of numbers that is not empty has a smallest one.
LEMMA SmallestNumber ==
  ASSUME NEW T, T \subseteq Nat, T # {}
  PROVE  \E n \in T : \A m \in T : n <= m
<1> DEFINE R == OpToRel(<, Nat)
<1>1. IsWellFoundedOn(R, Nat)
  BY NatLessThanWellFounded
<1>2. \E n \in T : \A m \in T : ~ (<<m, n>> \in R)
  <2> HIDE DEF R
  <2>1. QED
    BY <1>1, WFMin
<1>3. PICK n \in T : \A m \in T : ~ (<<m, n>> \in R)
  BY <1>2
<1>4. ASSUME NEW m \in T
      PROVE  n <= m
  <2>1. ~(m < n)
    BY <1>3 DEF OpToRel
  <2> HIDE DEF R
  <2>2. m \in Nat /\ n \in Nat
    OBVIOUS
  <2>3. QED
    BY <2>1, <2>2
<1>5. QED
  BY <1>4

noUnits == [frames |-> <<>>, rest |-> <<>>, failed |-> FALSE]
DemuxOf(g, v, len) ==
  g = [n \in 0..len |-> IF n = 0 THEN noUnits ELSE demuxUnit(g[n - 1], v[n])]

\* The records exist as a function: for a smallest length without one, it would
\* be that of the length before with one more.
LEMMA DemuxExists ==
  ASSUME NEW v, NEW len \in Nat
  PROVE  \E g : DemuxOf(g, v, len)
<1> DEFINE T == {l \in Nat : ~\E g : DemuxOf(g, v, l)}
<1>1. SUFFICES ASSUME T # {} PROVE FALSE
  OBVIOUS
<1>2. PICK l \in T : \A m \in T : l <= m
  <2>1. T \subseteq Nat
    OBVIOUS
  <2> HIDE DEF T
  <2>2. QED
    BY <1>1, <2>1, SmallestNumber
<1>3. l \in Nat /\ ~\E g : DemuxOf(g, v, l)
  OBVIOUS
<1>4. CASE l = 0
  <2> DEFINE h == [n \in 0..0 |-> noUnits]
  <2>1. h = [n \in 0..0 |-> IF n = 0 THEN noUnits ELSE demuxUnit(h[n - 1], v[n])]
    OBVIOUS
  <2> HIDE DEF h
  <2>2. DemuxOf(h, v, 0)
    BY <2>1 DEF DemuxOf
  <2>3. QED
    BY <1>3, <1>4, <2>2
<1>5. CASE l # 0
  <2>1. l - 1 \in Nat /\ ~(l <= l - 1)
    BY <1>3, <1>5
  <2>2. PICK g : DemuxOf(g, v, l - 1)
    BY <1>2, <2>1
  <2> DEFINE h == [n \in 0..l |-> IF n = l THEN demuxUnit(g[l - 1], v[l]) ELSE g[n]]
  <2> HIDE DEF T
  <2>3. ASSUME NEW n \in 0..l
        PROVE  h[n] = IF n = 0 THEN noUnits ELSE demuxUnit(h[n - 1], v[n])
    <3>1. CASE n = 0
      <4>1. 0 \in 0..(l - 1) /\ 0 # l
        BY <1>5, <2>1
      <4>2. g[0] = noUnits
        BY <2>2, <4>1 DEF DemuxOf
      <4>3. QED
        BY <3>1, <4>1, <4>2
    <3>2. CASE n # 0 /\ n = l
      <4>1. n - 1 \in 0..l /\ n - 1 # l
        BY <1>3, <3>2
      <4>2. h[n - 1] = g[l - 1]
        BY <3>2, <4>1
      <4>3. h[n] = demuxUnit(g[l - 1], v[l])
        BY <3>2
      <4>4. QED
        BY <3>2, <4>2, <4>3
    <3>3. CASE n # 0 /\ n # l
      <4>1. n \in 0..(l - 1) /\ n - 1 \in 0..l /\ n - 1 # l
        BY <1>3, <3>3
      <4>2. g[n] = demuxUnit(g[n - 1], v[n])
        BY <2>2, <3>3, <4>1 DEF DemuxOf
      <4>3. h[n] = g[n] /\ h[n - 1] = g[n - 1]
        BY <3>3, <4>1
      <4>4. QED
        BY <3>3, <4>2, <4>3
    <3>4. QED
      BY <3>1, <3>2, <3>3
  <2>4. h = [n \in 0..l |-> h[n]]
    OBVIOUS
  <2> HIDE DEF h
  <2>5. DemuxOf(h, v, l)
    BY <2>3, <2>4 DEF DemuxOf
  <2>6. QED
    BY <1>3, <2>5
<1>6. QED
  BY <1>4, <1>5

LEMMA DemuxSteps ==
  ASSUME NEW g, NEW v, NEW len \in Nat, DemuxOf(g, v, len)
  PROVE  g[0] = noUnits /\ \A n \in 1..len : g[n] = demuxUnit(g[n - 1], v[n])
<1>1. 0 \in 0..len /\ \A n \in 1..len : n \in 0..len /\ n # 0
  OBVIOUS
<1>2. QED
  BY <1>1 DEF DemuxOf

LEMMA DemuxParses ==
  ASSUME NEW v \in Seq(UnitType), wholeFrames(v), NoLate(v)
  PROVE  Parsed(v, Len(v), demux(v))
<1> DEFINE len == Len(v)
           g == CHOOSE h :
                  h = [n \in 0..len |-> IF n = 0 THEN noUnits ELSE demuxUnit(h[n - 1], v[n])]
<1>1. demux(v) = g[len]
  BY DEF demux, noUnits
<1>2. len \in Nat
  BY LenProperties
<1>3. \A n \in 1..len : n \in 1..Len(v)
  OBVIOUS
<1> HIDE DEF len
<1>4. \E h : h = [n \in 0..len |-> IF n = 0 THEN noUnits ELSE demuxUnit(h[n - 1], v[n])]
  <2>1. \E h : DemuxOf(h, v, len)
    BY <1>2, DemuxExists
  <2>2. QED
    BY <2>1 DEF DemuxOf
<1>5. DemuxOf(g, v, len)
  BY <1>4 DEF DemuxOf
<1> HIDE DEF g
<1>6. g[0] = noUnits /\ \A n \in 1..len : g[n] = demuxUnit(g[n - 1], v[n])
  BY <1>2, <1>5, DemuxSteps
<1> DEFINE T == {n \in 0..len : ~Parsed(v, n, g[n])}
<1>7. ASSUME T # {}
      PROVE  FALSE
  <2>1. T \subseteq Nat
    OBVIOUS
  <2>2. PICK n \in T : \A m \in T : n <= m
    <3> HIDE DEF T
    <3>1. QED
      BY <1>7, <2>1, SmallestNumber
  <2>3. n \in 0..len /\ ~Parsed(v, n, g[n])
    OBVIOUS
  <2>4. n # 0
    BY <1>6, <2>3, ParsedFirst DEF noUnits
  <2>5. n \in 1..len /\ n - 1 \in 0..len /\ ~(n <= n - 1)
    BY <1>2, <2>3, <2>4
  <2>6. Parsed(v, n - 1, g[n - 1])
    BY <2>2, <2>5
  <2>7. Parsed(v, n, demuxUnit(g[n - 1], v[n]))
    BY <1>3, <2>5, <2>6, ParsedNext
  <2>8. QED
    BY <1>6, <2>3, <2>5, <2>7
<1>8. len \in 0..len
  BY <1>2
<1>9. Parsed(v, len, g[len])
  BY <1>7, <1>8
<1>10. QED
  BY <1>1, <1>9 DEF len

-----------------------------------------------------------------------------
(* The methods of the shell *)

\* What markFailed, close and the end of a connection by the server leave: a
\* shell without a socket that is logged out.
Ended(sh, m) ==
  /\ m \in ShellType /\ ~m.open /\ m.auth = "anonymous"
  /\ m.out = sh.out /\ m.inbound = sh.inbound /\ m.session = sh.session
  /\ m.reconnects = sh.reconnects /\ m.pending = sh.pending

LEMMA MarkFailedEnds ==
  ASSUME NEW sh \in ShellType, NEW reason \in Reasons
  PROVE  /\ Ended(sh, markFailed(sh, reason)) /\ markFailed(sh, reason).link = "failed"
         /\ markFailed(sh, reason).error = reason
  BY DEF ShellType, markFailed, Ended

LEMMA CloseEnds ==
  ASSUME NEW sh \in ShellType, sh.auth = "loggedIn" => sh.open
  PROVE  /\ Ended(sh, closeShell(sh)) /\ closeShell(sh).error = sh.error
         /\ closeShell(sh).link = IF sh.link = "failed" THEN "failed" ELSE "disconnected"
<1>1. (IF sh.open THEN "anonymous" ELSE sh.auth) = "anonymous"
  BY DEF ShellType
<1>2. QED
  BY <1>1 DEF ShellType, closeShell, Ended

\* beginReconnect leaves nothing of the connection before.
Renewed(sh, m) ==
  /\ m \in ShellType /\ ~m.open /\ m.auth = "anonymous"
  /\ m.out = <<>> /\ m.inbound = <<>> /\ m.session = 0
  /\ m.reconnects = sh.reconnects /\ m.pending /\ ~m.disconnectQueued /\ m.error = sh.error

LEMMA BeginReconnectRenews ==
  ASSUME NEW sh \in ShellType, sh.auth = "loggedIn" => sh.open
  PROVE  /\ Renewed(sh, beginReconnect(sh))
         /\ beginReconnect(sh).link = IF sh.link = "failed" THEN "failed" ELSE "disconnected"
<1> DEFINE c == closeShell(sh)
<1>1. c \in ShellType /\ ~c.open /\ c.reconnects = sh.reconnects /\ c.error = sh.error
      /\ c.link = IF sh.link = "failed" THEN "failed" ELSE "disconnected"
  BY CloseEnds DEF Ended
<1>2. <<>> \in Seq(UnitType) /\ <<>> \in Seq(CommandType)
  BY EmptySeq
<1> HIDE DEF c
<1>3. beginReconnect(sh) =
        [c EXCEPT !.inbound = <<>>, !.inboundFailed = FALSE, !.out = <<>>, !.auth = "anonymous",
                  !.session = 0, !.snapshotQueued = FALSE, !.disconnectQueued = FALSE,
                  !.loginDeadline = FALSE, !.snapshotDeadline = FALSE, !.pending = TRUE,
                  !.needsSnapshot = TRUE]
  BY DEF beginReconnect, c
<1> DEFINE m == beginReconnect(sh)
<1>4. m \in ShellType
  <2> DEFINE c1 == [c EXCEPT !.inbound = <<>>, !.inboundFailed = FALSE, !.out = <<>>,
                             !.auth = "anonymous"]
             c2 == [c1 EXCEPT !.session = 0, !.snapshotQueued = FALSE,
                              !.disconnectQueued = FALSE, !.loginDeadline = FALSE]
             c3 == [c2 EXCEPT !.snapshotDeadline = FALSE, !.pending = TRUE,
                              !.needsSnapshot = TRUE]
  <2>1. c1 \in ShellType
    BY <1>1, <1>2 DEF ShellType
  <2>2. beginReconnect(sh) = c3
    BY <1>3
  <2> HIDE DEF c1
  <2>3. c2 \in ShellType
    BY <2>1 DEF ShellType
  <2> HIDE DEF c2
  <2>4. c3 \in ShellType
    BY <2>3 DEF ShellType
  <2>5. QED
    BY <2>2, <2>4
<1>5. /\ m.open = c.open /\ m.auth = "anonymous" /\ m.out = <<>> /\ m.inbound = <<>>
      /\ m.session = 0 /\ m.reconnects = c.reconnects /\ m.error = c.error /\ m.link = c.link
  BY <1>1, <1>3 DEF ShellType
<1>6. m.pending = TRUE /\ m.disconnectQueued = FALSE
  BY <1>1, <1>3 DEF ShellType
<1> HIDE DEF m
<1>7. Renewed(sh, m) /\ m.link = IF sh.link = "failed" THEN "failed" ELSE "disconnected"
  BY <1>1, <1>4, <1>5, <1>6 DEF Renewed
<1>8. QED
  BY <1>7 DEF m

LEMMA ConnectedOpens ==
  ASSUME NEW sh \in ShellType
  PROVE  LET m == connected(sh) IN
         /\ m \in ShellType /\ m.open /\ m.link = "connected" /\ m.auth = sh.auth
         /\ m.out = sh.out /\ m.inbound = sh.inbound /\ m.session = sh.session
         /\ m.reconnects = sh.reconnects /\ m.pending = sh.pending /\ m.error = sh.error
<1> DEFINE deadline == sh.pending /\ sh.auth = "anonymous"
<1>1. deadline \in BOOLEAN
  OBVIOUS
<1> HIDE DEF deadline
<1>2. connected(sh) = [sh EXCEPT !.open = TRUE, !.link = "connected", !.loginDeadline = deadline]
  BY DEF connected, deadline
<1>3. QED
  BY <1>1, <1>2 DEF ShellType

\* What every step of an open shell keeps, apart from its queue.
Kept(sh, m) ==
  /\ m \in ShellType /\ m.open = sh.open /\ m.link = sh.link /\ m.auth = sh.auth
  /\ m.inbound = sh.inbound /\ m.session = sh.session

LEMMA EnqueueKeeps ==
  ASSUME NEW sh \in ShellType, NEW c \in CommandType
  PROVE  LET m == enqueueCommand(sh, c) IN
         /\ Kept(sh, m) /\ m.out = Append(sh.out, c)
         /\ m.reconnects = sh.reconnects /\ m.pending = sh.pending /\ m.error = sh.error
<1>1. Append(sh.out, c) \in Seq(CommandType)
  BY AppendExtends DEF ShellType
<1>2. QED
  BY <1>1 DEF ShellType, enqueueCommand, Kept

LEMMA NoteKeeps ==
  ASSUME NEW sh \in ShellType
  PROVE  LET m == noteReconnect(sh) IN
         /\ Kept(sh, m) /\ m.out = sh.out /\ m.error \in {sh.error, "None"}
         /\ \/ m.reconnects = sh.reconnects /\ m.pending = sh.pending
            \/ /\ sh.pending /\ sh.auth = "loggedIn"
               /\ m.reconnects = sh.reconnects + 1 /\ ~m.pending
<1>1. CASE sh.pending /\ sh.auth = "loggedIn" /\ ~sh.needsSnapshot
  <2> DEFINE more == sh.reconnects + 1
             m == [sh EXCEPT !.reconnects = more, !.pending = FALSE, !.error = "None"]
  <2>1. more \in Nat
    BY DEF ShellType
  <2>2. noteReconnect(sh) = m
    BY <1>1 DEF noteReconnect
  <2> HIDE DEF more
  <2>3. Kept(sh, m) /\ m.out = sh.out /\ m.error = "None" /\ m.reconnects = more /\ ~m.pending
    BY <2>1 DEF ShellType, Kept, Reasons
  <2> HIDE DEF m
  <2>4. QED
    BY <1>1, <2>2, <2>3 DEF more
<1>2. CASE ~(sh.pending /\ sh.auth = "loggedIn" /\ ~sh.needsSnapshot)
  <2>1. noteReconnect(sh) = sh
    BY <1>2 DEF noteReconnect
  <2>2. QED
    BY <2>1 DEF Kept
<1>3. QED
  BY <1>1, <1>2

LEMMA LoginResponds ==
  ASSUME NEW sh \in ShellType, NEW f \in FrameType
  PROVE  LET m == loginResponse(sh, f) IN
         /\ f.kind = "loginRejected" =>
              Ended(sh, m) /\ m.link = "failed" /\ m.error = "LoginRejected"
         /\ f.kind # "loginRejected" =>
              /\ m \in ShellType /\ m.open = sh.open /\ m.link = sh.link /\ m.auth = "loggedIn"
              /\ m.session = f.session /\ m.out = sh.out /\ m.inbound = sh.inbound
              /\ m.reconnects = sh.reconnects /\ m.pending = sh.pending /\ m.error = sh.error
<1>1. CASE f.kind = "loginRejected"
  <2>1. loginResponse(sh, f) = markFailed(sh, "LoginRejected")
    BY <1>1 DEF loginResponse
  <2>2. "LoginRejected" \in Reasons
    BY DEF Reasons
  <2>3. QED
    BY <1>1, <2>1, <2>2, MarkFailedEnds
<1>2. CASE f.kind # "loginRejected"
  <2>1. f.session \in Nat
    BY DEF FrameType
  <2>2. QED
    BY <1>2, <2>1 DEF loginResponse, ShellType
<1>3. QED
  BY <1>1, <1>2

LEMMA DisconnectResponds ==
  ASSUME NEW sh \in ShellType, NEW f, sh.auth = "loggedIn" => sh.open
  PROVE  LET m == disconnectResponse(sh, f) IN
         \/ /\ Kept(sh, m) /\ m.out = sh.out /\ m.error = sh.error
            /\ m.reconnects = sh.reconnects /\ m.pending = sh.pending
            /\ ~sh.disconnectQueued => ~m.disconnectQueued
         \/ /\ sh.disconnectQueued /\ Renewed(sh, m) /\ f.kind # "disconnectRejected"
            /\ m.link = IF sh.link = "failed" THEN "failed" ELSE "disconnected"
<1>1. CASE disconnectResponse(sh, f) = sh
  BY <1>1 DEF Kept
<1>2. CASE sh.disconnectQueued /\ disconnectResponse(sh, f) = [sh EXCEPT !.disconnectQueued = FALSE]
  BY <1>2 DEF Kept, ShellType
<1>3. CASE /\ sh.disconnectQueued /\ f.kind # "disconnectRejected"
           /\ disconnectResponse(sh, f) = beginReconnect(sh)
  BY <1>3, BeginReconnectRenews
<1>4. QED
  BY <1>1, <1>2, <1>3 DEF disconnectResponse

LEMMA RequestKeeps ==
  ASSUME NEW sh \in ShellType
  PROVE  LET m == requestSnapshot(sh)
             c == Command("requestSnapshot", sh.session)
         IN /\ Kept(sh, m)
            /\ m.reconnects = sh.reconnects /\ m.pending = sh.pending /\ m.error = sh.error
            /\ m.out = sh.out \/ (sh.auth = "loggedIn" /\ c \in CommandType /\ m.out = Append(sh.out, c))
<1> DEFINE c == Command("requestSnapshot", sh.session)
           q == enqueueCommand(sh, c)
           asks == sh.auth = "loggedIn" /\ sh.needsSnapshot /\ ~sh.snapshotQueued
<1>1. CASE ~asks
  <2>1. requestSnapshot(sh) = sh
    BY <1>1 DEF requestSnapshot
  <2>2. QED
    BY <2>1 DEF Kept
<1>2. CASE asks
  <2>1. c \in CommandType /\ sh.auth = "loggedIn"
    BY <1>2 DEF Command, CommandType, ShellType
  <2>2. /\ Kept(sh, q) /\ q.out = Append(sh.out, c)
        /\ q.reconnects = sh.reconnects /\ q.pending = sh.pending /\ q.error = sh.error
    BY <2>1, EnqueueKeeps
  <2>3. requestSnapshot(sh) = [q EXCEPT !.snapshotQueued = TRUE, !.snapshotDeadline = TRUE]
    BY <1>2 DEF requestSnapshot
  <2> HIDE DEF c, q
  <2>4. LET m == requestSnapshot(sh) IN
        /\ Kept(sh, m) /\ m.out = q.out
        /\ m.reconnects = q.reconnects /\ m.pending = q.pending /\ m.error = q.error
    BY <2>2, <2>3 DEF Kept, ShellType
  <2>5. QED
    BY <2>1, <2>2, <2>4, Zenon DEF c
<1>3. QED
  BY <1>1, <1>2

-----------------------------------------------------------------------------
(* The frames of a read *)

HandlerType ==
  [sh : ShellType, world : Seq(FrameType), worldBytes : Nat, failed : BOOLEAN,
   disconnected : BOOLEAN]

\* Of sh the frames so far have kept the connection, have given it session id,
StillOpen(sh, id, m) ==
  /\ m.open /\ m.link = "connected" /\ m.out = sh.out /\ m.inbound = sh.inbound
  /\ m.pending = sh.pending
  /\ \/ m.auth = sh.auth /\ m.session = sh.session
     \/ m.auth = "loggedIn" /\ m.session = id
\* or have ended it in good order,
Gone(m) ==
  /\ ~m.open /\ m.auth = "anonymous" /\ m.link = "disconnected" /\ m.pending
  /\ m.out = <<>> /\ m.inbound = <<>> /\ ~m.disconnectQueued
\* or with a failure.
Lost(m) == ~m.open /\ m.auth = "anonymous" /\ m.link = "failed"

Bounds(sh, id, m) ==
  /\ m \in ShellType
  /\ m.session \in {sh.session, id, 0} /\ m.out \in {sh.out, <<>>}
  /\ m.inbound \in {sh.inbound, <<>>}

Handled(sh, fs, id, p, n, h) ==
  /\ h \in HandlerType /\ h.worldBytes <= p[n]
  /\ Bounds(sh, id, h.sh) /\ h.sh.reconnects = sh.reconnects
  /\ h.sh.error \in {sh.error, "LoginRejected"}
  /\ \/ ~h.failed /\ StillOpen(sh, id, h.sh)
     \/ /\ ~h.failed /\ h.disconnected /\ Gone(h.sh)
        /\ \E k \in 1..n : fs[k].kind = "disconnectAccepted"
     \/ h.failed /\ Lost(h.sh)

LEMMA SizesAscend ==
  ASSUME NEW fs \in Seq(FrameType), NEW p, NEW b, Sizes(fs, p, b), NEW n \in 1..Len(fs)
  PROVE  /\ p[n - 1] \in Nat /\ p[n] \in Nat /\ p[n] = p[n - 1] + frameSize(fs[n])
         /\ frameSize(fs[n]) \in Nat /\ n - 1 \in Nat
<1>1. Len(fs) \in Nat
  BY LenProperties
<1>2. n \in 0..Len(fs) /\ n - 1 \in 0..Len(fs) /\ n - 1 \in Nat
  BY <1>1
<1>3. QED
  BY <1>2, FrameSizes DEF Sizes

LEMMA HandleNext ==
  ASSUME NEW sh \in ShellType, NEW fs \in Seq(FrameType), NEW id \in Nat, NEW p, NEW b,
         Sizes(fs, p, b), NoLate(fs), Gives(fs, id), NEW n \in 1..Len(fs), NEW h,
         Handled(sh, fs, id, p, n - 1, h)
  PROVE  Handled(sh, fs, id, p, n, handleFrame(h, fs[n]))
<1> DEFINE f == fs[n]
           s == h.sh
           z == frameSize(f)
           a == p[n - 1]
           e == p[n]
<1>1. a \in Nat /\ e = a + z /\ z \in Nat /\ n - 1 \in Nat
  BY SizesAscend
<1>2. f \in FrameType
  BY ElementOfSeq
<1>3. /\ h \in HandlerType /\ h.worldBytes <= a
      /\ Bounds(sh, id, s) /\ s.reconnects = sh.reconnects
      /\ s.error \in {sh.error, "LoginRejected"}
      /\ \/ ~h.failed /\ StillOpen(sh, id, s)
         \/ /\ ~h.failed /\ h.disconnected /\ Gone(s)
            /\ \E k \in 1..(n - 1) : fs[k].kind = "disconnectAccepted"
         \/ h.failed /\ Lost(s)
  BY DEF Handled
<1>4. s \in ShellType /\ h.world \in Seq(FrameType) /\ h.worldBytes \in Nat
      /\ h.failed \in BOOLEAN /\ h.disconnected \in BOOLEAN
  BY <1>3 DEF HandlerType
<1>5. \A k \in 1..(n - 1) : k \in 1..n /\ k \in 1..Len(fs) /\ k < n
  BY LenProperties
<1>6. Gone(s) /\ ~h.failed => \E k \in 1..n : fs[k].kind = "disconnectAccepted"
  BY <1>3, <1>5 DEF StillOpen, Gone
<1>7. s.auth = "loggedIn" => s.open
  BY <1>3 DEF StillOpen, Gone, Lost
<1>8. f.kind = "loginAccepted" => f.session = id
  BY DEF Gives
<1>9. ~h.failed /\ f.kind = "loginAccepted" => StillOpen(sh, id, s)
  <2> SUFFICES ASSUME f.kind = "loginAccepted", NEW k \in 1..(n - 1),
                      fs[k].kind = "disconnectAccepted"
               PROVE  FALSE
    BY <1>3
  <2>1. QED
    BY <1>5 DEF NoLate
<1>10. f.kind \in Kinds
  BY <1>2 DEF FrameType
<1> HIDE DEF f, s, z, a, e
<1>11. h.worldBytes <= e /\ h.worldBytes + z \in Nat /\ h.worldBytes + z <= e
  BY <1>1, <1>3, <1>4
<1>12. CASE h.failed
  <2>1. handleFrame(h, f) = h
    BY <1>12 DEF handleFrame
  <2>2. Handled(sh, fs, id, p, n, h)
    BY <1>3, <1>11, <1>12 DEF Handled, s, e
  <2>3. QED
    BY <2>1, <2>2 DEF f
<1>13. CASE ~h.failed /\ isWorldUpdate(f)
  <2> DEFINE w == Append(h.world, f)
             size == h.worldBytes + z
             h2 == [h EXCEPT !.world = w, !.worldBytes = size]
  <2>1. w \in Seq(FrameType)
    BY <1>2, <1>4, AppendExtends
  <2>2. handleFrame(h, f) = h2
    BY <1>13 DEF handleFrame, z
  <2>3. size \in Nat /\ size <= e
    BY <1>11
  <2> HIDE DEF w, size
  <2>4. /\ h2 \in HandlerType /\ h2.sh = s /\ h2.worldBytes = size /\ h2.failed = h.failed
        /\ h2.disconnected = h.disconnected
    BY <1>3, <2>1, <2>3 DEF HandlerType, s
  <2> HIDE DEF h2
  <2>5. Handled(sh, fs, id, p, n, h2)
    BY <1>3, <1>6, <1>13, <2>3, <2>4, Zenon DEF Handled, e
  <2>6. QED
    BY <2>2, <2>5 DEF f
<1>14. CASE ~h.failed /\ f.kind = "loginRejected"
  <2> DEFINE m == loginResponse(s, f)
             h2 == [h EXCEPT !.sh = m, !.failed = TRUE]
  <2>1. Ended(s, m) /\ m.link = "failed" /\ m.error = "LoginRejected"
    BY <1>2, <1>4, <1>14, LoginResponds
  <2>2. handleFrame(h, f) = h2
    BY <1>14 DEF handleFrame, isWorldUpdate, s
  <2> HIDE DEF m
  <2>3. m \in ShellType
    BY <2>1 DEF Ended
  <2>4. /\ h2 \in HandlerType /\ h2.sh = m /\ h2.worldBytes = h.worldBytes /\ h2.failed
    BY <1>3, <2>3 DEF HandlerType
  <2> HIDE DEF h2
  <2>5. Bounds(sh, id, m) /\ m.reconnects = sh.reconnects /\ Lost(m)
        /\ m.error \in {sh.error, "LoginRejected"}
    BY <1>3, <2>1 DEF Bounds, Ended, Lost
  <2>6. Handled(sh, fs, id, p, n, h2)
    BY <1>11, <2>4, <2>5, Zenon DEF Handled, e
  <2>7. QED
    BY <2>2, <2>6 DEF f
<1>15. CASE ~h.failed /\ f.kind = "loginAccepted"
  <2> DEFINE m == loginResponse(s, f)
             h2 == [h EXCEPT !.sh = m, !.failed = FALSE]
  <2>1. /\ m \in ShellType /\ m.open = s.open /\ m.link = s.link /\ m.auth = "loggedIn"
        /\ m.session = id /\ m.out = s.out /\ m.inbound = s.inbound
        /\ m.reconnects = s.reconnects /\ m.pending = s.pending /\ m.error = s.error
    BY <1>2, <1>4, <1>8, <1>15, LoginResponds
  <2>2. handleFrame(h, f) = h2
    BY <1>15 DEF handleFrame, isWorldUpdate, s
  <2> HIDE DEF m
  <2>3. /\ h2 \in HandlerType /\ h2.sh = m /\ h2.worldBytes = h.worldBytes /\ ~h2.failed
    BY <1>3, <2>1 DEF HandlerType
  <2> HIDE DEF h2
  <2>4. Bounds(sh, id, m) /\ m.reconnects = sh.reconnects /\ StillOpen(sh, id, m)
        /\ m.error \in {sh.error, "LoginRejected"}
    BY <1>3, <1>9, <1>15, <2>1 DEF Bounds, StillOpen
  <2>5. Handled(sh, fs, id, p, n, h2)
    BY <1>11, <2>3, <2>4, Zenon DEF Handled, e
  <2>6. QED
    BY <2>2, <2>5 DEF f
<1>16. CASE ~h.failed /\ f.kind \in {"disconnectAccepted", "disconnectRejected"}
  <2> DEFINE m == disconnectResponse(s, f)
             over == h.disconnected \/ m.pending
             h2 == [h EXCEPT !.sh = m, !.disconnected = over]
  <2>1. \/ /\ Kept(s, m) /\ m.out = s.out /\ m.error = s.error
           /\ m.reconnects = s.reconnects /\ m.pending = s.pending
           /\ ~s.disconnectQueued => ~m.disconnectQueued
        \/ /\ s.disconnectQueued /\ Renewed(s, m) /\ f.kind # "disconnectRejected"
           /\ m.link = IF s.link = "failed" THEN "failed" ELSE "disconnected"
    BY <1>4, <1>7, DisconnectResponds
  <2>2. handleFrame(h, f) = h2
    BY <1>16 DEF handleFrame, isWorldUpdate, s
  <2>3. over \in BOOLEAN /\ (m.pending => over) /\ (h.disconnected => over)
    OBVIOUS
  <2> HIDE DEF m, over
  <2>4. m \in ShellType
    BY <2>1 DEF Kept, Renewed
  <2>5. /\ h2 \in HandlerType /\ h2.sh = m /\ h2.worldBytes = h.worldBytes
        /\ h2.failed = h.failed /\ h2.disconnected = over
    BY <1>3, <2>3, <2>4 DEF HandlerType
  <2> HIDE DEF h2
  <2> SUFFICES Handled(sh, fs, id, p, n, h2)
    BY <2>2 DEF f
  <2>6. CASE Renewed(s, m) /\ f.kind # "disconnectRejected" /\ s.disconnectQueued
             /\ m.link = IF s.link = "failed" THEN "failed" ELSE "disconnected"
    <3>1. StillOpen(sh, id, s)
      BY <1>3, <1>16, <2>6 DEF Gone
    <3>2. Gone(m) /\ over
      BY <2>3, <2>6, <3>1 DEF Gone, Renewed, StillOpen
    <3>3. \E k \in 1..n : fs[k].kind = "disconnectAccepted"
      <4>1. n \in 1..n
        OBVIOUS
      <4>2. QED
        BY <1>16, <2>6, <4>1 DEF f
    <3>4. Bounds(sh, id, m) /\ m.reconnects = sh.reconnects
          /\ m.error \in {sh.error, "LoginRejected"}
      BY <1>3, <2>6 DEF Bounds, Renewed
    <3>5. QED
      BY <1>11, <1>16, <2>5, <3>2, <3>3, <3>4, Zenon DEF Handled, e
  <2>7. CASE /\ Kept(s, m) /\ m.out = s.out /\ m.error = s.error
             /\ m.reconnects = s.reconnects /\ m.pending = s.pending
             /\ ~s.disconnectQueued => ~m.disconnectQueued
    <3>1. Bounds(sh, id, m) /\ m.reconnects = sh.reconnects
          /\ m.error \in {sh.error, "LoginRejected"}
      BY <1>3, <2>7 DEF Bounds, Kept
    <3>2. CASE StillOpen(sh, id, s)
      <4>1. StillOpen(sh, id, m)
        BY <2>7, <3>2 DEF StillOpen, Kept
      <4>2. QED
        BY <1>11, <1>16, <2>5, <3>1, <4>1, Zenon DEF Handled, e
    <3>3. CASE h.disconnected /\ Gone(s)
      <4>1. Gone(m)
        BY <2>7, <3>3 DEF Gone, Kept
      <4>2. QED
        BY <1>6, <1>11, <1>16, <2>3, <2>5, <3>1, <3>3, <4>1, Zenon DEF Handled, e
    <3>4. QED
      BY <1>3, <1>16, <3>2, <3>3
  <2>8. QED
    BY <2>1, <2>6, <2>7
<1>17. QED
  BY <1>10, <1>12, <1>13, <1>14, <1>15, <1>16 DEF Kinds, isWorldUpdate, f

noFrames(sh) ==
  [sh |-> sh, world |-> <<>>, worldBytes |-> 0, failed |-> FALSE, disconnected |-> FALSE]
HandlerOf(g, sh, v, len) ==
  g = [n \in 0..len |-> IF n = 0 THEN noFrames(sh) ELSE handleFrame(g[n - 1], v[n])]

\* The records exist as a function, by the same argument.
LEMMA HandlerExists ==
  ASSUME NEW sh, NEW v, NEW len \in Nat
  PROVE  \E g : HandlerOf(g, sh, v, len)
<1> DEFINE T == {l \in Nat : ~\E g : HandlerOf(g, sh, v, l)}
<1>1. SUFFICES ASSUME T # {} PROVE FALSE
  OBVIOUS
<1>2. PICK l \in T : \A m \in T : l <= m
  <2>1. T \subseteq Nat
    OBVIOUS
  <2> HIDE DEF T
  <2>2. QED
    BY <1>1, <2>1, SmallestNumber
<1>3. l \in Nat /\ ~\E g : HandlerOf(g, sh, v, l)
  OBVIOUS
<1>4. CASE l = 0
  <2> DEFINE h == [n \in 0..0 |-> noFrames(sh)]
  <2>1. h = [n \in 0..0 |-> IF n = 0 THEN noFrames(sh) ELSE handleFrame(h[n - 1], v[n])]
    OBVIOUS
  <2> HIDE DEF h
  <2>2. HandlerOf(h, sh, v, 0)
    BY <2>1 DEF HandlerOf
  <2>3. QED
    BY <1>3, <1>4, <2>2
<1>5. CASE l # 0
  <2>1. l - 1 \in Nat /\ ~(l <= l - 1)
    BY <1>3, <1>5
  <2>2. PICK g : HandlerOf(g, sh, v, l - 1)
    BY <1>2, <2>1
  <2> DEFINE h == [n \in 0..l |-> IF n = l THEN handleFrame(g[l - 1], v[l]) ELSE g[n]]
  <2> HIDE DEF T
  <2>3. ASSUME NEW n \in 0..l
        PROVE  h[n] = IF n = 0 THEN noFrames(sh) ELSE handleFrame(h[n - 1], v[n])
    <3>1. CASE n = 0
      <4>1. 0 \in 0..(l - 1) /\ 0 # l
        BY <1>5, <2>1
      <4>2. g[0] = noFrames(sh)
        BY <2>2, <4>1 DEF HandlerOf
      <4>3. QED
        BY <3>1, <4>1, <4>2
    <3>2. CASE n # 0 /\ n = l
      <4>1. n - 1 \in 0..l /\ n - 1 # l
        BY <1>3, <3>2
      <4>2. h[n - 1] = g[l - 1]
        BY <3>2, <4>1
      <4>3. h[n] = handleFrame(g[l - 1], v[l])
        BY <3>2
      <4>4. QED
        BY <3>2, <4>2, <4>3
    <3>3. CASE n # 0 /\ n # l
      <4>1. n \in 0..(l - 1) /\ n - 1 \in 0..l /\ n - 1 # l
        BY <1>3, <3>3
      <4>2. g[n] = handleFrame(g[n - 1], v[n])
        BY <2>2, <3>3, <4>1 DEF HandlerOf
      <4>3. h[n] = g[n] /\ h[n - 1] = g[n - 1]
        BY <3>3, <4>1
      <4>4. QED
        BY <3>3, <4>2, <4>3
    <3>4. QED
      BY <3>1, <3>2, <3>3
  <2>4. h = [n \in 0..l |-> h[n]]
    OBVIOUS
  <2> HIDE DEF h
  <2>5. HandlerOf(h, sh, v, l)
    BY <2>3, <2>4 DEF HandlerOf
  <2>6. QED
    BY <1>3, <2>5
<1>6. QED
  BY <1>4, <1>5

LEMMA HandlerSteps ==
  ASSUME NEW g, NEW sh, NEW v, NEW len \in Nat, HandlerOf(g, sh, v, len)
  PROVE  g[0] = noFrames(sh) /\ \A n \in 1..len : g[n] = handleFrame(g[n - 1], v[n])
<1>1. 0 \in 0..len /\ \A n \in 1..len : n \in 0..len /\ n # 0
  OBVIOUS
<1>2. QED
  BY <1>1 DEF HandlerOf

\* The record after all frames, and what the shell becomes with it.
LEMMA AllHandled ==
  ASSUME NEW sh \in ShellType, sh.open, sh.link = "connected", NEW fs \in Seq(FrameType),
         NEW id \in Nat, NEW p, NEW b, Sizes(fs, p, b), NoLate(fs), Gives(fs, id)
  PROVE  \E h : /\ Handled(sh, fs, id, p, Len(fs), h)
                /\ handleInboundFrames(sh, fs) =
                     IF h.failed \/ h.disconnected \/ h.world = <<>> THEN h.sh
                     ELSE receiveWorld(h.sh, h.world, h.worldBytes)
<1> DEFINE len == Len(fs)
           start == [sh |-> sh, world |-> <<>>, worldBytes |-> 0, failed |-> FALSE,
                     disconnected |-> FALSE]
           g == CHOOSE h :
                  h = [n \in 0..len |-> IF n = 0 THEN start ELSE handleFrame(h[n - 1], fs[n])]
<1>1. handleInboundFrames(sh, fs) =
        IF g[len].failed \/ g[len].disconnected \/ g[len].world = <<>> THEN g[len].sh
        ELSE receiveWorld(g[len].sh, g[len].world, g[len].worldBytes)
  BY DEF handleInboundFrames
<1>2. len \in Nat /\ start = noFrames(sh)
  BY LenProperties DEF noFrames
<1>3. \A n \in 1..len : n \in 1..Len(fs)
  OBVIOUS
<1>4. p[0] = 0
  BY DEF Sizes
<1>5. Handled(sh, fs, id, p, 0, start)
  <2>1. <<>> \in Seq(FrameType)
    BY EmptySeq
  <2>2. /\ start \in HandlerType /\ start.sh = sh /\ start.worldBytes = 0 /\ ~start.failed
    BY <2>1 DEF HandlerType
  <2> HIDE DEF start
  <2>3. Bounds(sh, id, sh) /\ StillOpen(sh, id, sh) /\ 0 <= p[0]
    BY <1>4 DEF Bounds, StillOpen
  <2>4. QED
    BY <2>2, <2>3 DEF Handled
<1> HIDE DEF len, start
<1>6. \E h : h = [n \in 0..len |-> IF n = 0 THEN start ELSE handleFrame(h[n - 1], fs[n])]
  <2>1. \E h : HandlerOf(h, sh, fs, len)
    BY <1>2, HandlerExists
  <2>2. QED
    BY <1>2, <2>1 DEF HandlerOf
<1>7. HandlerOf(g, sh, fs, len)
  BY <1>2, <1>6 DEF HandlerOf
<1> HIDE DEF g
<1>8. g[0] = start /\ \A n \in 1..len : g[n] = handleFrame(g[n - 1], fs[n])
  BY <1>2, <1>7, HandlerSteps
<1> DEFINE T == {n \in 0..len : ~Handled(sh, fs, id, p, n, g[n])}
<1>9. ASSUME T # {}
      PROVE  FALSE
  <2>1. T \subseteq Nat
    OBVIOUS
  <2>2. PICK n \in T : \A m \in T : n <= m
    <3> HIDE DEF T
    <3>1. QED
      BY <1>9, <2>1, SmallestNumber
  <2>3. n \in 0..len /\ ~Handled(sh, fs, id, p, n, g[n])
    OBVIOUS
  <2>4. n # 0
    BY <1>5, <1>8, <2>3
  <2>5. n \in 1..len /\ n - 1 \in 0..len /\ ~(n <= n - 1)
    BY <1>2, <2>3, <2>4
  <2>6. Handled(sh, fs, id, p, n - 1, g[n - 1])
    BY <2>2, <2>5
  <2>7. Handled(sh, fs, id, p, n, handleFrame(g[n - 1], fs[n]))
    BY <1>3, <2>5, <2>6, HandleNext
  <2>8. QED
    BY <1>8, <2>3, <2>5, <2>7
<1>10. len \in 0..len
  BY <1>2
<1>11. Handled(sh, fs, id, p, len, g[len])
  BY <1>9, <1>10
<1>12. QED
  BY <1>1, <1>11 DEF len

\* What a read makes of an open shell.
OpenAfter(sh, id, m) ==
  /\ m.open /\ m.link = "connected" /\ m.out = sh.out /\ m.inbound = sh.inbound
  /\ \/ m.auth = sh.auth /\ m.session = sh.session
     \/ m.auth = "loggedIn" /\ m.session = id
  /\ \/ m.reconnects = sh.reconnects /\ m.pending = sh.pending
     \/ m.reconnects = sh.reconnects + 1 /\ sh.pending /\ ~m.pending
ReadInto(sh, id, b, m) ==
  /\ Bounds(sh, id, m)
  /\ b <= MaxUpdateFrame /\ sh.error # "ProtocolError" => m.error # "ProtocolError"
  /\ \/ OpenAfter(sh, id, m)
     \/ m.reconnects = sh.reconnects /\ (Gone(m) \/ Lost(m))

LEMMA FramesRead ==
  ASSUME NEW sh \in ShellType, sh.open, sh.link = "connected", NEW fs \in Seq(FrameType),
         NEW id \in Nat, NEW p, NEW b \in Nat, Sizes(fs, p, b), NoLate(fs), Gives(fs, id)
  PROVE  ReadInto(sh, id, b, handleInboundFrames(sh, fs))
<1>1. PICK h : /\ Handled(sh, fs, id, p, Len(fs), h)
               /\ handleInboundFrames(sh, fs) =
                    IF h.failed \/ h.disconnected \/ h.world = <<>> THEN h.sh
                    ELSE receiveWorld(h.sh, h.world, h.worldBytes)
  BY AllHandled
<1> DEFINE s == h.sh
           r == handleInboundFrames(sh, fs)
<1>2. /\ h \in HandlerType /\ h.worldBytes <= b
      /\ Bounds(sh, id, s) /\ s.reconnects = sh.reconnects
      /\ s.error \in {sh.error, "LoginRejected"}
      /\ \/ ~h.failed /\ StillOpen(sh, id, s)
         \/ ~h.failed /\ h.disconnected /\ Gone(s)
         \/ h.failed /\ Lost(s)
  BY <1>1 DEF Handled, Sizes
<1>3. s \in ShellType /\ h.worldBytes \in Nat
  BY <1>2 DEF HandlerType
<1>4. CASE h.failed \/ h.disconnected \/ h.world = <<>>
  <2>1. r = s
    BY <1>1, <1>4
  <2> HIDE DEF r, s
  <2>2. ReadInto(sh, id, b, s)
    BY <1>2 DEF ReadInto, OpenAfter, StillOpen
  <2>3. QED
    BY <2>1, <2>2 DEF r
<1>5. CASE ~(h.failed \/ h.disconnected \/ h.world = <<>>)
  <2>1. r = receiveWorld(s, h.world, h.worldBytes)
    BY <1>1, <1>5
  <2>2. StillOpen(sh, id, s)
    BY <1>2, <1>5
  <2> HIDE DEF r, s
  <2>3. CASE h.worldBytes > MaxUpdateFrame
    <3> DEFINE m == markFailed(s, "ProtocolError")
    <3>1. r = m
      BY <2>1, <2>3 DEF receiveWorld
    <3>2. "ProtocolError" \in Reasons
      BY DEF Reasons
    <3>3. Ended(s, m) /\ m.link = "failed"
      BY <1>3, <3>2, MarkFailedEnds
    <3> HIDE DEF m
    <3>4. ~(b <= MaxUpdateFrame)
      BY <1>2, <1>3, <2>3, ShellAssumption
    <3>5. ReadInto(sh, id, b, m)
      BY <1>2, <3>3, <3>4 DEF ReadInto, Bounds, Ended, Lost
    <3>6. QED
      BY <3>1, <3>5 DEF r
  <2>4. CASE ~(h.worldBytes > MaxUpdateFrame) /\ needsAfter(s, h.world)
    <3> DEFINE m == [s EXCEPT !.needsSnapshot = TRUE]
    <3>1. r = m
      BY <2>1, <2>4 DEF receiveWorld
    <3>2. /\ Kept(s, m) /\ m.out = s.out /\ m.error = s.error
          /\ m.reconnects = s.reconnects /\ m.pending = s.pending
      BY <1>3 DEF ShellType, Kept
    <3> HIDE DEF m
    <3>3. ReadInto(sh, id, b, m)
      BY <1>2, <2>2, <3>2 DEF ReadInto, OpenAfter, StillOpen, Kept, Bounds
    <3>4. QED
      BY <3>1, <3>3 DEF r
  <2>5. CASE ~(h.worldBytes > MaxUpdateFrame) /\ ~needsAfter(s, h.world)
    <3> DEFINE q == [s EXCEPT !.needsSnapshot = FALSE, !.snapshotQueued = FALSE,
                              !.snapshotDeadline = FALSE]
               m == noteReconnect(q)
    <3>1. r = m
      BY <2>1, <2>5 DEF receiveWorld
    <3>2. /\ Kept(s, q) /\ q.out = s.out /\ q.error = s.error
          /\ q.reconnects = s.reconnects /\ q.pending = s.pending
      BY <1>3 DEF ShellType, Kept
    <3> HIDE DEF q
    <3>3. /\ Kept(q, m) /\ m.out = q.out /\ m.error \in {q.error, "None"}
          /\ \/ m.reconnects = q.reconnects /\ m.pending = q.pending
             \/ /\ q.pending /\ q.auth = "loggedIn"
                /\ m.reconnects = q.reconnects + 1 /\ ~m.pending
      <4>1. q \in ShellType
        BY <3>2 DEF Kept
      <4>2. QED
        BY <4>1, NoteKeeps
    <3> HIDE DEF m
    <3>4. ReadInto(sh, id, b, m)
      BY <1>2, <2>2, <3>2, <3>3 DEF ReadInto, OpenAfter, StillOpen, Kept, Bounds
    <3>5. QED
      BY <3>1, <3>4 DEF r
  <2>6. QED
    BY <2>3, <2>4, <2>5
<1>6. QED
  BY <1>4, <1>5

-----------------------------------------------------------------------------
(* Reads of the stream *)

\* What received makes of the units v, which are those in the demultiplexer and
\* those of the read: the frames that end in the first b are handled, the
\* others stay.
Received(sh, id, v, b, rest, m) ==
  /\ b \in 0..Len(v) /\ endsAt(v, b) /\ Cut(v, b, rest)
  /\ rest \in Seq(UnitType) /\ Len(rest) < SnapshotSize
  /\ ReadInto([sh EXCEPT !.inbound = rest], id, b, m)

LEMMA ReadsAreReceived ==
  ASSUME NEW sh \in ShellType, sh.open, sh.link = "connected", NEW read \in Seq(UnitType),
         NEW id \in Nat, NEW v \in Seq(UnitType), v = sh.inbound \o read,
         wholeFrames(v), NoLate(v), Gives(v, id)
  PROVE  \E b, rest : Received(sh, id, v, b, rest, received(sh, read))
<1> DEFINE d == demux(v)
           n == Len(v)
<1>1. Parsed(v, n, d)
  BY DemuxParses
<1>2. n \in Nat
  BY LenProperties
<1>3. received(sh, read) =
        IF d.failed THEN [markFailed(sh, "ProtocolError") EXCEPT !.inboundFailed = TRUE]
        ELSE handleInboundFrames([sh EXCEPT !.inbound = d.rest], d.frames)
  BY DEF received
<1> HIDE DEF d, n
<1>4. PICK b, p : ParsedTo(v, n, d, b, p)
  BY <1>1 DEF Parsed
<1>5. /\ d \in DemuxType /\ ~d.failed
      /\ b \in 0..n /\ Sizes(d.frames, p, b)
      /\ \A k \in 1..Len(d.frames) : \E i \in 1..b : d.frames[k] = v[i]
      /\ NoLate(d.frames)
      /\ Len(d.rest) = n - b /\ \A i \in 1..(n - b) : d.rest[i] = v[b + i]
      /\ d.rest # <<>> => Len(d.rest) < frameSize(v[b + 1])
      /\ endsAt(v, b)
  BY <1>4 DEF ParsedTo
<1>6. d.rest \in Seq(UnitType) /\ d.frames \in Seq(FrameType) /\ b \in Nat
  BY <1>2, <1>5 DEF DemuxType
<1>7. Gives(d.frames, id)
  <2>1. \A i \in 1..b : i \in 1..n
    BY <1>2, <1>5
  <2> SUFFICES ASSUME NEW k \in 1..Len(d.frames), d.frames[k].kind = "loginAccepted"
               PROVE  d.frames[k].session = id
    BY DEF Gives
  <2>2. PICK i \in 1..b : d.frames[k] = v[i]
    BY <1>5
  <2>3. QED
    BY <2>1, <2>2 DEF Gives, n
<1>8. Len(d.rest) < SnapshotSize
  <2>1. CASE d.rest = <<>>
    <3>1. Len(d.rest) = 0
      BY <2>1, EmptySeq
    <3>2. QED
      BY <3>1, ShellAssumption
  <2>2. CASE d.rest # <<>>
    <3> DEFINE z == frameSize(v[b + 1])
               l == Len(d.rest)
    <3>1. z \in Nat /\ z <= SnapshotSize
      BY FrameSizes
    <3>2. l < z /\ l \in Nat
      BY <1>5, <1>6, <2>2, LenProperties
    <3> HIDE DEF z, l
    <3>3. l < SnapshotSize
      BY <3>1, <3>2, ShellAssumption
    <3>4. QED
      BY <3>3 DEF l
  <2>3. QED
    BY <2>1, <2>2
<1>9. Cut(v, b, d.rest)
  <2>1. \A i \in 1..(n - b) : b + i \in 1..n
    BY <1>2, <1>5
  <2>2. QED
    BY <1>2, <1>5, <2>1, Zenon DEF Cut, n
<1> DEFINE s == [sh EXCEPT !.inbound = d.rest]
<1>10. s \in ShellType /\ s.open /\ s.link = "connected"
  BY <1>6 DEF ShellType
<1>11. received(sh, read) = handleInboundFrames(s, d.frames)
  BY <1>3, <1>5
<1> HIDE DEF s
<1>12. ReadInto(s, id, b, handleInboundFrames(s, d.frames))
  BY <1>5, <1>6, <1>7, <1>10, FramesRead
<1>13. Received(sh, id, v, b, d.rest, received(sh, read))
  BY <1>5, <1>6, <1>8, <1>9, <1>11, <1>12 DEF Received, n, s
<1>14. QED
  BY <1>13

\* The units of the demultiplexer and of a read of n, and what is left of both.
LEMMA StreamRead ==
  ASSUME NEW a \in Seq(UnitType), NEW st \in Seq(UnitType), NEW n \in 0..Len(st),
         NEW v, v = a \o SubSeq(st, 1, n), NEW b, NEW rest \in Seq(UnitType), Cut(v, b, rest)
  PROVE  LET left == SubSeq(st, n + 1, Len(st)) IN
         left \in Seq(UnitType) /\ Cut(a \o st, b, rest \o left)
<1> DEFINE u == a \o st
           read == SubSeq(st, 1, n)
           left == SubSeq(st, n + 1, Len(st))
           w == rest \o left
           la == Len(a)
           ls == Len(st)
           lr == Len(rest)
           ll == Len(left)
           lw == Len(w)
           lu == Len(u)
<1>1. la \in Nat /\ ls \in Nat /\ n \in Nat /\ n <= ls
  BY LenProperties
<1>2. Joined(a, st, u)
  BY ConcatJoins
<1>3. read \in Seq(UnitType) /\ Len(read) = n /\ \A i \in 1..n : i \in 1..ls /\ read[i] = st[i]
  BY <1>1, PrefixElements
<1>4. left \in Seq(UnitType) /\ Cut(st, n, left)
  BY <1>1, SuffixCuts
<1>5. Joined(a, read, v)
  <2> HIDE DEF read
  <2>1. v = a \o read
    BY DEF read
  <2>2. QED
    BY <1>3, <2>1, ConcatJoins
<1>6. w \in Seq(UnitType) /\ Joined(rest, left, w)
  <2> HIDE DEF left
  <2>1. QED
    BY <1>4, ConcatJoins
<1> HIDE DEF u, read, left, w, la, ls, lr, ll, lw, lu
<1>7. /\ lu = la + ls
      /\ \A i \in 1..la : u[i] = a[i]
      /\ \A i \in 1..ls : u[la + i] = st[i]
  BY <1>2 DEF Joined, la, ls, lu
<1>8. /\ Len(v) = la + n
      /\ \A i \in 1..la : v[i] = a[i]
      /\ \A i \in 1..n : v[la + i] = st[i]
  BY <1>3, <1>5 DEF Joined, la
<1>9. ASSUME NEW i \in 1..(la + n)
      PROVE  v[i] = u[i]
  <2>1. CASE i \in 1..la
    BY <1>7, <1>8, <2>1
  <2>2. CASE i \notin 1..la
    <3>1. i - la \in 1..n /\ i - la \in 1..ls /\ la + (i - la) = i
      BY <1>1, <2>2
    <3>2. v[la + (i - la)] = st[i - la] /\ u[la + (i - la)] = st[i - la]
      BY <1>7, <1>8, <3>1
    <3>3. QED
      BY ONLY <3>1, <3>2, Zenon
  <2>3. QED
    BY <2>1, <2>2
<1>10. /\ b \in 0..(la + n) /\ lr = (la + n) - b
       /\ \A i \in 1..lr : b + i \in 1..(la + n) /\ rest[i] = v[b + i]
  BY <1>8 DEF Cut, lr
<1>11. ll = ls - n /\ \A i \in 1..ll : n + i \in 1..ls /\ left[i] = st[n + i]
  BY <1>4 DEF Cut, ls, ll
<1>12. /\ lw = lr + ll
       /\ \A i \in 1..lr : w[i] = rest[i]
       /\ \A i \in 1..ll : w[lr + i] = left[i]
  BY <1>6 DEF Joined, lr, ll, lw
<1>13. lw = lu - b /\ b \in 0..lu /\ lu \in Nat /\ lr \in Nat /\ ll \in Nat
  BY <1>1, <1>7, <1>10, <1>11, <1>12
<1>14. ASSUME NEW i \in 1..lw
       PROVE  b + i \in 1..lu /\ w[i] = u[b + i]
  <2>1. b + i \in 1..lu
    BY <1>13
  <2>2. CASE i \in 1..lr
    BY <1>9, <1>10, <1>12, <2>1, <2>2
  <2>3. CASE i \notin 1..lr
    <3> DEFINE k == i - lr
    <3>1. k \in 1..ll /\ n + k \in 1..ls /\ lr + k = i /\ la + (n + k) = b + i
      BY <1>1, <1>7, <1>10, <1>11, <1>12, <1>13, <2>3
    <3> HIDE DEF k
    <3>2. w[lr + k] = left[k] /\ left[k] = st[n + k] /\ u[la + (n + k)] = st[n + k]
      BY <1>7, <1>11, <1>12, <3>1
    <3>3. w[i] = u[b + i]
      BY ONLY <3>1, <3>2, Zenon
    <3>4. QED
      BY <2>1, <3>3
  <2>4. QED
    BY <2>2, <2>3
<1>15. Cut(u, b, w)
  BY <1>13, <1>14, Zenon DEF Cut, lu, lw
<1>16. QED
  BY <1>4, <1>15 DEF u, w, left

\* What is in the demultiplexer and the first n units on the wire begin the
\* stream.
LEMMA StreamBegins ==
  ASSUME NEW a \in Seq(UnitType), NEW st \in Seq(UnitType), NEW n \in 0..Len(st)
  PROVE  /\ SubSeq(st, 1, n) \in Seq(UnitType) /\ Len(SubSeq(st, 1, n)) = n
         /\ a \o SubSeq(st, 1, n) \in Seq(UnitType)
         /\ Begins(a \o st, Len(a) + n, a \o SubSeq(st, 1, n))
         /\ Len(a \o SubSeq(st, 1, n)) = Len(a) + n /\ Len(a) \in Nat
<1> DEFINE u == a \o st
           read == SubSeq(st, 1, n)
           v == a \o read
           la == Len(a)
           ls == Len(st)
           lu == Len(u)
<1>1. la \in Nat /\ ls \in Nat /\ n \in Nat /\ n <= ls
  BY LenProperties
<1>2. Joined(a, st, u)
  BY ConcatJoins
<1>3. read \in Seq(UnitType) /\ Len(read) = n /\ \A i \in 1..n : i \in 1..ls /\ read[i] = st[i]
  BY <1>1, PrefixElements
<1>4. v \in Seq(UnitType) /\ Joined(a, read, v)
  <2> HIDE DEF read
  <2>1. QED
    BY <1>3, ConcatJoins
<1> HIDE DEF u, read, v, la, ls, lu
<1>5. /\ lu = la + ls
      /\ \A i \in 1..la : u[i] = a[i]
      /\ \A i \in 1..ls : u[la + i] = st[i]
  BY <1>2 DEF Joined, la, ls, lu
<1>6. /\ Len(v) = la + n
      /\ \A i \in 1..la : v[i] = a[i]
      /\ \A i \in 1..n : v[la + i] = st[i]
  BY <1>3, <1>4 DEF Joined, la
<1>7. ASSUME NEW i \in 1..(la + n)
      PROVE  i \in 1..lu /\ v[i] = u[i]
  <2>1. i \in 1..lu
    BY <1>1, <1>5
  <2>2. CASE i \in 1..la
    BY <1>5, <1>6, <2>1, <2>2
  <2>3. CASE i \notin 1..la
    <3>1. i - la \in 1..n /\ i - la \in 1..ls /\ la + (i - la) = i
      BY <1>1, <2>3
    <3>2. v[la + (i - la)] = st[i - la] /\ u[la + (i - la)] = st[i - la]
      BY <1>5, <1>6, <3>1
    <3>3. v[i] = u[i]
      BY ONLY <3>1, <3>2, Zenon
    <3>4. QED
      BY <2>1, <3>3
  <2>4. QED
    BY <2>2, <2>3
<1>8. lu \in Nat /\ la + n \in 0..lu
  BY <1>1, <1>5
<1>9. Begins(u, la + n, v)
  BY <1>6, <1>7, <1>8, Zenon DEF Begins, lu
<1>10. QED
  BY <1>1, <1>3, <1>4, <1>6, <1>9 DEF u, v, read, la

-----------------------------------------------------------------------------
(* The invariant: the shell's steps *)

LEMMA NoPeerFields ==
  /\ NoPeer \in PeerType /\ ~NoPeer.open /\ NoPeer.out = <<>> /\ NoPeer.commands = <<>>
  /\ Len(NoPeer.out) = 0
<1>1. <<>> \in Seq(FrameType) /\ <<>> \in Seq(CommandType) /\ Len(<<>>) = 0
  BY EmptySeq
<1>2. QED
  BY <1>1 DEF NoPeer, PeerType

LEMMA ShellInitial == Init => ShellInv
<1> SUFFICES ASSUME Init PROVE ShellInv
  OBVIOUS
<1>1. <<>> \in Seq(UnitType) /\ <<>> \in Seq(CommandType) /\ Len(<<>>) = 0
  BY EmptySeq
<1>2. /\ shell \in ShellType /\ ~shell.open /\ shell.auth = "anonymous" /\ shell.session = 0
      /\ shell.reconnects = 0 /\ shell.out = <<>> /\ shell.inbound = <<>> /\ shell.error = "None"
  BY <1>1 DEF Init, ShellType, Reasons
<1>3. ready /\ connection = 0 /\ peer = NoPeer /\ stream = <<>> /\ ready \in BOOLEAN
  BY DEF Init
<1>4. ShellTypes
  BY <1>1, <1>2, <1>3, NoPeerFields, ShellAssumption DEF ShellTypes
<1>5. Bounded
  BY <1>1, <1>2, <1>3, NoPeerFields, ShellAssumption DEF Bounded
<1>6. QED
  BY <1>2, <1>3, <1>4, <1>5 DEF ShellInv, Closed, Fresh, Linked, Pipeline

\* The shell becomes m, which has no socket; the server's side goes.
LEMMA StepDropped ==
  ASSUME ShellInv, NEW m \in ShellType, ~m.open, m.auth = "anonymous",
         m.session <= connection, m.reconnects <= connection,
         Len(m.out) <= MaxOutbound, Len(m.inbound) < SnapshotSize,
         SnapshotSize + ReadBuffer - 1 <= MaxUpdateFrame => m.error # "ProtocolError",
         dropped(m), connection' = connection, ready' \in BOOLEAN,
         ready' => m.out = <<>> /\ m.inbound = <<>>
  PROVE  ShellInv'
<1>1. shell' = m /\ peer' = NoPeer /\ stream' = <<>>
  BY DEF dropped, peerOf
<1>2. <<>> \in Seq(UnitType)
  BY EmptySeq
<1>3. ShellTypes'
  BY <1>1, <1>2, NoPeerFields DEF ShellInv, ShellTypes
<1>4. Bounded'
  BY <1>1, NoPeerFields, ShellAssumption DEF Bounded
<1>5. QED
  BY <1>1, <1>3, <1>4 DEF ShellInv, Closed, Fresh, Linked, Pipeline

\* A shell that has ended otherwise keeps what it had.
LEMMA StepEnded ==
  ASSUME ShellInv, NEW m, Ended(shell, m), dropped(m),
         SnapshotSize + ReadBuffer - 1 <= MaxUpdateFrame => m.error # "ProtocolError",
         UNCHANGED <<ready, connection>>
  PROVE  ShellInv'
<1>1. /\ m \in ShellType /\ ~m.open /\ m.auth = "anonymous" /\ m.session = shell.session
      /\ m.reconnects = shell.reconnects /\ m.out = shell.out /\ m.inbound = shell.inbound
  BY DEF Ended
<1>2. /\ shell.session <= connection /\ shell.reconnects <= connection
      /\ Len(shell.out) <= MaxOutbound /\ Len(shell.inbound) < SnapshotSize
      /\ ready \in BOOLEAN /\ (ready => shell.out = <<>> /\ shell.inbound = <<>>)
  BY DEF ShellInv, Bounded, ShellTypes, Fresh
<1>3. QED
  BY <1>1, <1>2, StepDropped

LEMMA ShellIsTyped ==
  ASSUME ShellInv
  PROVE  /\ shell \in ShellType /\ (shell.auth = "loggedIn" => shell.open)
         /\ shell.session \in Nat /\ shell.reconnects \in Nat /\ connection \in Nat
         /\ shell.out \in Seq(CommandType) /\ shell.inbound \in Seq(UnitType)
         /\ shell.auth \in {"anonymous", "loggedIn"}
<1>1. shell \in ShellType /\ connection \in 0..MaxConnections
  BY DEF ShellInv, ShellTypes
<1>2. connection \in Nat
  BY <1>1, ShellAssumption
<1>3. shell.auth = "loggedIn" => shell.open
  BY DEF ShellInv, Closed
<1>4. QED
  BY <1>1, <1>2, <1>3 DEF ShellType

LEMMA StepConnect == ShellInv /\ Connect => ShellInv'
<1> SUFFICES ASSUME ShellInv, Connect PROVE ShellInv'
  OBVIOUS
<1> DEFINE m == connected(shell)
           q == [NoPeer EXCEPT !.open = TRUE]
<1>1. shell \in ShellType
  BY ShellIsTyped
<1>2. /\ m \in ShellType /\ m.open /\ m.link = "connected" /\ m.auth = shell.auth
      /\ m.out = shell.out /\ m.inbound = shell.inbound /\ m.session = shell.session
      /\ m.reconnects = shell.reconnects /\ m.pending = shell.pending /\ m.error = shell.error
  BY <1>1, ConnectedOpens
<1>3. q \in PeerType /\ q.out = <<>> /\ q.commands = <<>> /\ q.open
  BY NoPeerFields DEF PeerType
<1>4. /\ ready /\ ~shell.open /\ connection < MaxConnections /\ connection' = connection + 1
      /\ ready' = FALSE /\ shell' = m /\ peer' = q /\ stream' = stream
  BY DEF Connect
<1> HIDE DEF m, q
<1>5. /\ shell.out = <<>> /\ shell.inbound = <<>> /\ shell.auth = "anonymous" /\ stream = <<>>
      /\ shell.session <= connection /\ shell.reconnects <= connection
      /\ SnapshotSize + ReadBuffer - 1 <= MaxUpdateFrame => shell.error # "ProtocolError"
  BY <1>4 DEF ShellInv, Fresh, Closed, Bounded
<1>6. connection \in 0..MaxConnections /\ shell.session \in Nat /\ shell.reconnects \in Nat
  BY ShellIsTyped DEF ShellInv, ShellTypes
<1>7. <<>> \in Seq(UnitType) /\ Len(<<>>) = 0 /\ <<>> \o <<>> = <<>>
  BY EmptySeq, ConcatEmptySeq
<1>8. connection' \in 0..MaxConnections /\ shell.session <= connection'
      /\ shell.reconnects < connection' /\ shell.reconnects <= connection'
  BY <1>4, <1>5, <1>6, ShellAssumption
<1>9. ShellTypes'
  BY <1>2, <1>3, <1>4, <1>5, <1>7, <1>8 DEF ShellTypes
<1>10. Bounded'
  BY <1>2, <1>3, <1>4, <1>5, <1>7, <1>8, ShellAssumption DEF Bounded
<1>11. Closed' /\ Fresh'
  BY <1>2, <1>4 DEF Closed, Fresh
<1>12. Linked'
  BY <1>2, <1>4, <1>5, <1>8 DEF Linked
<1>13. Pipeline'
  <2>1. /\ (shell.inbound \o stream)' = <<>> /\ shell'.out = <<>> /\ peer'.out = <<>>
        /\ peer'.commands = <<>> /\ Len(<<>>) = 0
    BY <1>2, <1>3, <1>4, <1>5, <1>7
  <2> HIDE DEF m
  <2>2. /\ Answers(<<>>, <<>>, peer'.open, connection')
        /\ Requests(<<>>, <<>>, connection')
        /\ Sessions(<<>>, <<>>, <<>>, <<>>, shell'.auth)
    BY <1>7, NoFrames, NoCommands DEF Answers, Requests, Sessions
  <2>3. QED
    BY <2>1, <2>2 DEF Pipeline
<1>14. QED
  BY <1>9, <1>10, <1>11, <1>12, <1>13 DEF ShellInv

LEMMA StepConnectFails == ShellInv /\ ConnectFails => ShellInv'
<1> SUFFICES ASSUME ShellInv, ConnectFails PROVE ShellInv'
  OBVIOUS
<1>1. /\ shell \in ShellType /\ ~shell.open /\ peer = NoPeer /\ stream = <<>>
      /\ shell.auth = "anonymous" /\ UNCHANGED <<ready, connection, peer, stream>>
  BY ShellIsTyped DEF ConnectFails, ShellInv, Closed
<1>2. SnapshotSize + ReadBuffer - 1 <= MaxUpdateFrame => shell.error # "ProtocolError"
  BY DEF ShellInv, Bounded
<1>3. CASE shell' = markFailed(shell, "ConnectTimeout")
  <2> DEFINE m == markFailed(shell, "ConnectTimeout")
  <2>1. "ConnectTimeout" \in Reasons
    BY DEF Reasons
  <2>2. Ended(shell, m) /\ m.error = "ConnectTimeout"
    BY <1>1, <2>1, MarkFailedEnds
  <2> HIDE DEF m
  <2>3. dropped(m)
    BY <1>1, <1>3, <2>2 DEF dropped, peerOf, m, Ended
  <2>4. QED
    BY <1>1, <2>2, <2>3, StepEnded
<1>4. CASE shell' = [shell EXCEPT !.link = "failed"]
  <2> DEFINE m == [shell EXCEPT !.link = "failed"]
  <2>1. Ended(shell, m) /\ m.error = shell.error
    BY <1>1 DEF ShellType, Ended
  <2> HIDE DEF m
  <2>2. dropped(m)
    BY <1>1, <1>4, <2>1 DEF dropped, peerOf, m, Ended
  <2>3. QED
    BY <1>1, <1>2, <2>1, <2>2, StepEnded
<1>5. QED
  BY <1>3, <1>4 DEF ConnectFails

LEMMA StepBeginReconnect == ShellInv /\ BeginReconnect => ShellInv'
<1> SUFFICES ASSUME ShellInv, BeginReconnect PROVE ShellInv'
  OBVIOUS
<1> DEFINE m == beginReconnect(shell)
<1>1. Renewed(shell, m)
  BY ShellIsTyped, BeginReconnectRenews
<1>2. dropped(m) /\ ready' = TRUE /\ connection' = connection
  BY DEF BeginReconnect
<1> HIDE DEF m
<1>3. /\ m \in ShellType /\ ~m.open /\ m.auth = "anonymous" /\ m.out = <<>> /\ m.inbound = <<>>
      /\ m.session = 0 /\ m.reconnects = shell.reconnects /\ m.error = shell.error
  BY <1>1 DEF Renewed
<1>4. m.session <= connection /\ m.reconnects <= connection
      /\ (SnapshotSize + ReadBuffer - 1 <= MaxUpdateFrame => m.error # "ProtocolError")
  BY <1>3, ShellIsTyped DEF ShellInv, Bounded
<1>5. Len(m.out) <= MaxOutbound /\ Len(m.inbound) < SnapshotSize
  <2>1. Len(<<>>) = 0
    BY EmptySeq
  <2>2. QED
    BY <1>3, <2>1, ShellAssumption
<1>6. QED
  BY <1>2, <1>3, <1>4, <1>5, StepDropped

LEMMA StepCloseTransport == ShellInv /\ CloseTransport => ShellInv'
<1> SUFFICES ASSUME ShellInv, CloseTransport PROVE ShellInv'
  OBVIOUS
<1>1. Ended(shell, closeShell(shell)) /\ closeShell(shell).error = shell.error
  BY ShellIsTyped, CloseEnds
<1>2. dropped(closeShell(shell)) /\ UNCHANGED <<ready, connection>>
  BY DEF CloseTransport
<1>3. SnapshotSize + ReadBuffer - 1 <= MaxUpdateFrame => closeShell(shell).error # "ProtocolError"
  BY <1>1 DEF ShellInv, Bounded
<1>4. QED
  BY <1>1, <1>2, <1>3, StepEnded

\* A timeout, of whichever check of the deadlines.
LEMMA TimeoutEnds ==
  ASSUME NEW sh \in ShellType
  PROVE  /\ Ended(sh, timedOut(sh)) /\ timedOut(sh).link = "failed"
         /\ timedOut(sh).error # "ProtocolError"
<1> DEFINE reason == IF sh.loginDeadline THEN "LoginResponseTimeout" ELSE "SnapshotWaitTimeout"
<1>1. reason \in Reasons /\ reason # "ProtocolError"
  BY DEF Reasons
<1>2. timedOut(sh) = markFailed(sh, reason)
  BY DEF timedOut
<1> HIDE DEF reason
<1>3. QED
  BY <1>1, <1>2, MarkFailedEnds

LEMMA StepPumpTimeout == ShellInv /\ PumpTimeout => ShellInv'
<1> SUFFICES ASSUME ShellInv, PumpTimeout PROVE ShellInv'
  OBVIOUS
<1>1. Ended(shell, timedOut(shell)) /\ timedOut(shell).error # "ProtocolError"
  BY ShellIsTyped, TimeoutEnds
<1>2. dropped(timedOut(shell)) /\ UNCHANGED <<ready, connection>>
  BY DEF PumpTimeout
<1>3. QED
  BY <1>1, <1>2, StepEnded

LEMMA StepPumpClosed == ShellInv /\ PumpClosed => ShellInv'
<1> SUFFICES ASSUME ShellInv, PumpClosed PROVE ShellInv'
  OBVIOUS
<1>0. UNCHANGED <<ready, connection>>
  BY DEF PumpClosed
<1>1. CASE dropped([closeShell(shell) EXCEPT !.error = "PeerClosed"])
  <2> DEFINE c == closeShell(shell)
             m == [c EXCEPT !.error = "PeerClosed"]
  <2>1. Ended(shell, c)
    BY ShellIsTyped, CloseEnds
  <2> HIDE DEF c
  <2>2. Ended(shell, m) /\ m.error = "PeerClosed"
    BY <2>1 DEF Ended, ShellType, Reasons
  <2>3. dropped(m)
    BY <1>1 DEF c
  <2> HIDE DEF m
  <2>4. QED
    BY <1>0, <2>2, <2>3, StepEnded
<1>2. CASE dropped(markFailed(shell, "ReadFailed"))
  <2>1. "ReadFailed" \in Reasons
    BY DEF Reasons
  <2>2. /\ Ended(shell, markFailed(shell, "ReadFailed"))
        /\ markFailed(shell, "ReadFailed").error = "ReadFailed"
    BY <2>1, ShellIsTyped, MarkFailedEnds
  <2>3. QED
    BY <1>0, <1>2, <2>2, StepEnded
<1>3. QED
  BY <1>1, <1>2 DEF PumpClosed

\* A Login of an anonymous shell, or another command of one that is logged in,
\* goes behind the others.
LEMMA RequestsAppended ==
  ASSUME NEW sent, NEW out \in Seq(CommandType), NEW c \in CommandType, NEW id, NEW u, NEW ans,
         NEW auth, Requests(sent, out, id), Sessions(u, ans, sent, out, auth),
         \/ c.type = "login" /\ auth = "anonymous"
         \/ c.type # "login" /\ auth = "loggedIn" /\ c.session = id
  PROVE  Requests(sent, Append(out, c), id) /\ Sessions(u, ans, sent, Append(out, c), auth)
<1> DEFINE q == Append(out, c)
<1>1. Extended(out, c, q)
  BY AppendExtends
<1> HIDE DEF q
<1>2. /\ Names(out, id) /\ (c.type # "login" => c.session = id) => Names(q, id)
      /\ onlyLogins(out) /\ c.type = "login" => onlyLogins(q) /\ LoginsFirst(q)
      /\ LoginsFirst(out) /\ c.type # "login" => LoginsFirst(q)
      /\ hasLogin(q) => hasLogin(out) \/ c.type = "login"
  BY <1>1, CommandAppended
<1>3. CASE c.type = "login" /\ auth = "anonymous"
  BY <1>2, <1>3 DEF Requests, Sessions, q
<1>4. CASE c.type # "login" /\ auth = "loggedIn" /\ c.session = id
  BY <1>2, <1>4 DEF Requests, Sessions, q
<1>5. QED
  BY <1>3, <1>4

LEMMA StepQueued ==
  ASSUME ShellInv, shell.open, NEW c \in CommandType, NEW m, Kept(shell, m),
         m.out = Append(shell.out, c), m.reconnects = shell.reconnects,
         m.pending = shell.pending, m.error = shell.error, Len(shell.out) < MaxOutbound,
         shell' = m, UNCHANGED <<ready, connection, peer, stream>>,
         \/ c.type = "login" /\ shell.auth = "anonymous"
         \/ c.type # "login" /\ shell.auth = "loggedIn" /\ c.session = shell.session
  PROVE  ShellInv'
<1>1. /\ m \in ShellType /\ m.open = shell.open /\ m.link = shell.link /\ m.auth = shell.auth
      /\ m.inbound = shell.inbound /\ m.session = shell.session
  BY DEF Kept
<1>2. shell.out \in Seq(CommandType)
  BY ShellIsTyped
<1>3. Len(m.out) <= MaxOutbound
  <2> DEFINE l == Len(shell.out)
  <2>1. Len(m.out) = l + 1 /\ l \in Nat
    BY <1>2, AppendExtends DEF Extended
  <2>2. l < MaxOutbound
    OBVIOUS
  <2> HIDE DEF l
  <2>3. QED
    BY <2>1, <2>2, ShellAssumption
<1>4. ShellTypes' /\ Closed' /\ Fresh' /\ Linked'
  BY <1>1 DEF ShellInv, ShellTypes, Closed, Fresh, Linked
<1>5. Bounded'
  BY <1>1, <1>3 DEF ShellInv, Bounded
<1>6. shell.auth = "loggedIn" => shell.session = connection
  BY DEF ShellInv, Linked
<1>7. /\ Answers(shell.inbound \o stream, peer.out, peer.open, connection)
      /\ Requests(peer.commands, shell.out, connection)
      /\ Sessions(shell.inbound \o stream, peer.out, peer.commands, shell.out, shell.auth)
  BY DEF ShellInv, Pipeline
<1>8. /\ Requests(peer.commands, m.out, connection)
      /\ Sessions(shell.inbound \o stream, peer.out, peer.commands, m.out, shell.auth)
  BY <1>2, <1>6, <1>7, RequestsAppended
<1>9. Pipeline'
  BY <1>1, <1>7, <1>8 DEF Pipeline
<1>10. QED
  BY <1>4, <1>5, <1>9 DEF ShellInv

LEMMA StepEnqueue ==
  ShellInv /\ (EnqueueLogin \/ EnqueueCommand \/ EnqueueDisconnect) => ShellInv'
<1> SUFFICES ASSUME ShellInv, EnqueueLogin \/ EnqueueCommand \/ EnqueueDisconnect
             PROVE  ShellInv'
  OBVIOUS
<1>1. /\ shell \in ShellType /\ shell.session \in Nat /\ shell.open
      /\ Len(shell.out) < MaxOutbound /\ UNCHANGED <<ready, connection, peer, stream>>
  BY ShellIsTyped DEF EnqueueLogin, EnqueueCommand, EnqueueDisconnect, hasRoom
<1>2. CASE EnqueueLogin
  <2> DEFINE c == Command("login", 0)
             m == enqueueCommand(shell, c)
  <2>1. c \in CommandType /\ c.type = "login"
    BY DEF Command, CommandType
  <2>2. shell' = m /\ shell.auth = "anonymous"
    BY <1>2 DEF EnqueueLogin
  <2> HIDE DEF c
  <2>3. /\ Kept(shell, m) /\ m.out = Append(shell.out, c)
        /\ m.reconnects = shell.reconnects /\ m.pending = shell.pending /\ m.error = shell.error
    BY <1>1, <2>1, EnqueueKeeps
  <2> HIDE DEF m
  <2>4. QED
    BY <1>1, <2>1, <2>2, <2>3, StepQueued
<1>3. CASE EnqueueCommand
  <2> DEFINE c == Command("other", shell.session)
             m == enqueueCommand(shell, c)
  <2>1. c \in CommandType /\ c.type # "login" /\ c.session = shell.session
    BY <1>1 DEF Command, CommandType
  <2>2. shell' = m /\ shell.auth = "loggedIn"
    BY <1>3 DEF EnqueueCommand
  <2> HIDE DEF c
  <2>3. /\ Kept(shell, m) /\ m.out = Append(shell.out, c)
        /\ m.reconnects = shell.reconnects /\ m.pending = shell.pending /\ m.error = shell.error
    BY <1>1, <2>1, EnqueueKeeps
  <2> HIDE DEF m
  <2>4. QED
    BY <1>1, <2>1, <2>2, <2>3, StepQueued
<1>4. CASE EnqueueDisconnect
  <2> DEFINE c == Command("disconnect", shell.session)
             q == enqueueCommand(shell, c)
             m == [q EXCEPT !.disconnectQueued = TRUE]
  <2>1. c \in CommandType /\ c.type # "login" /\ c.session = shell.session
    BY <1>1 DEF Command, CommandType
  <2>2. shell' = m /\ shell.auth = "loggedIn"
    BY <1>4 DEF EnqueueDisconnect
  <2> HIDE DEF c
  <2>3. /\ Kept(shell, q) /\ q.out = Append(shell.out, c)
        /\ q.reconnects = shell.reconnects /\ q.pending = shell.pending /\ q.error = shell.error
    BY <1>1, <2>1, EnqueueKeeps
  <2> HIDE DEF q
  <2>4. /\ Kept(shell, m) /\ m.out = q.out
        /\ m.reconnects = q.reconnects /\ m.pending = q.pending /\ m.error = q.error
    BY <2>3 DEF Kept, ShellType
  <2> HIDE DEF m
  <2>5. QED
    BY <1>1, <2>1, <2>2, <2>3, <2>4, StepQueued
<1>5. QED
  BY <1>2, <1>3, <1>4

-----------------------------------------------------------------------------
(* The invariant: the server's steps *)

LEMMA PeerIsTyped ==
  ASSUME ShellInv
  PROVE  /\ peer \in PeerType /\ peer.out \in Seq(FrameType) /\ peer.commands \in Seq(CommandType)
         /\ stream \in Seq(UnitType) /\ Len(peer.out) \in Nat /\ Len(peer.out) <= MaxOutbound
         /\ peer.open => shell.open
<1>1. peer \in PeerType /\ stream \in Seq(UnitType) /\ Len(peer.out) <= MaxOutbound
  BY DEF ShellInv, ShellTypes, Bounded
<1>2. peer.out \in Seq(FrameType) /\ peer.commands \in Seq(CommandType)
  BY <1>1 DEF PeerType
<1>3. peer.open => shell.open
  BY NoPeerFields DEF ShellInv, Closed
<1>4. QED
  BY <1>1, <1>2, <1>3, LenProperties

\* A frame is put behind the others, or there is no room and it is lost.
Responded(p, f, q) ==
  /\ q \in PeerType /\ q.open = p.open /\ q.commands = p.commands
  /\ Len(q.out) <= MaxOutbound
  /\ q.out = p.out \/ q.out = Append(p.out, f)

LEMMA ResponseFits ==
  ASSUME NEW p \in PeerType, NEW f \in FrameType, Len(p.out) <= MaxOutbound
  PROVE  Responded(p, f, respond(p, f))
<1> DEFINE l == Len(p.out)
           o == Append(p.out, f)
<1>1. p.out \in Seq(FrameType)
  BY DEF PeerType
<1>2. o \in Seq(FrameType) /\ Len(o) = l + 1 /\ l \in Nat /\ l <= MaxOutbound
  BY <1>1, AppendExtends DEF Extended
<1> HIDE DEF o, l
<1>3. CASE l < MaxOutbound
  <2>1. Len(o) <= MaxOutbound
    BY <1>2, <1>3, ShellAssumption
  <2>2. respond(p, f) = [p EXCEPT !.out = o]
    BY <1>3 DEF respond, o, l
  <2>3. QED
    BY <1>2, <2>1, <2>2 DEF Responded, PeerType, o
<1>4. CASE ~(l < MaxOutbound)
  <2>1. respond(p, f) = p
    BY <1>4 DEF respond, l
  <2>2. QED
    BY <1>2, <2>1 DEF Responded, l
<1>5. QED
  BY <1>3, <1>4

\* What a command c of connection id does to the server's side.
Answered(p, c, id, q) ==
  /\ q \in PeerType /\ q.open = p.open /\ q.commands = p.commands
  /\ Len(q.out) <= MaxOutbound
  /\ \/ q.out = p.out
     \/ \E f \in FrameType :
          /\ q.out = Append(p.out, f)
          /\ f.kind = "loginAccepted" => c.type = "login" /\ f.session = id
          /\ f.kind = "disconnectAccepted" => c.type = "disconnect"

LEMMA LoginAnswered ==
  ASSUME NEW p \in PeerType, Len(p.out) <= MaxOutbound, NEW c, c.type = "login",
         connection \in Nat, NEW accepts
  PROVE  Answered(p, c, connection, handleLogin(p, accepts))
<1>1. CASE accepts /\ ~p.session
  <2> DEFINE q == [p EXCEPT !.session = TRUE, !.wanted = TRUE]
             f == Frame("loginAccepted", connection)
  <2>1. q \in PeerType /\ q.out = p.out /\ q.open = p.open /\ q.commands = p.commands
    BY DEF PeerType
  <2>2. f \in FrameType /\ f.kind = "loginAccepted" /\ f.session = connection
    BY DEF FrameType, Frame, Kinds
  <2>3. handleLogin(p, accepts) = respond(q, f)
    BY <1>1 DEF handleLogin
  <2> HIDE DEF q, f
  <2>4. Responded(q, f, respond(q, f))
    BY <2>1, <2>2, ResponseFits
  <2>5. QED
    BY <2>1, <2>2, <2>3, <2>4 DEF Responded, Answered
<1>2. CASE ~(accepts /\ ~p.session)
  <2> DEFINE f == Frame("loginRejected", 0)
  <2>1. f \in FrameType /\ f.kind = "loginRejected"
    BY DEF FrameType, Frame, Kinds
  <2>2. handleLogin(p, accepts) = respond(p, f)
    BY <1>2 DEF handleLogin
  <2> HIDE DEF f
  <2>3. Responded(p, f, respond(p, f))
    BY <2>1, ResponseFits
  <2>4. QED
    BY <2>1, <2>2, <2>3 DEF Responded, Answered
<1>3. QED
  BY <1>1, <1>2

LEMMA DisconnectAnswered ==
  ASSUME NEW p \in PeerType, Len(p.out) <= MaxOutbound, NEW c \in CommandType,
         c.type = "disconnect"
  PROVE  Answered(p, c, connection, handleDisconnect(p, c.session))
<1>0. c.session \in Nat
  BY DEF CommandType
<1>1. CASE p.session /\ c.session = connection
  <2> DEFINE q == [p EXCEPT !.session = FALSE, !.wanted = FALSE]
             f == Frame("disconnectAccepted", c.session)
             r == respond(q, f)
             closes == r.closing \/ Len(p.out) < MaxOutbound
             e == [r EXCEPT !.closing = closes]
  <2>1. q \in PeerType /\ q.out = p.out /\ q.open = p.open /\ q.commands = p.commands
    BY DEF PeerType
  <2>2. f \in FrameType /\ f.kind = "disconnectAccepted"
    BY <1>0 DEF FrameType, Frame, Kinds
  <2>3. handleDisconnect(p, c.session) = e
    BY <1>1 DEF handleDisconnect
  <2> HIDE DEF q, f
  <2>4. Responded(q, f, r)
    BY <2>1, <2>2, ResponseFits
  <2>5. closes \in BOOLEAN
    OBVIOUS
  <2> HIDE DEF r, closes
  <2>6. e \in PeerType /\ e.out = r.out /\ e.open = r.open /\ e.commands = r.commands
    BY <2>4, <2>5 DEF Responded, PeerType
  <2> HIDE DEF e
  <2>7. QED
    BY <2>1, <2>2, <2>3, <2>4, <2>6 DEF Responded, Answered
<1>2. CASE ~(p.session /\ c.session = connection)
  <2> DEFINE f == Frame("disconnectRejected", c.session)
  <2>1. f \in FrameType /\ f.kind = "disconnectRejected"
    BY <1>0 DEF FrameType, Frame, Kinds
  <2>2. handleDisconnect(p, c.session) = respond(p, f)
    BY <1>2 DEF handleDisconnect
  <2> HIDE DEF f
  <2>3. Responded(p, f, respond(p, f))
    BY <2>1, ResponseFits
  <2>4. QED
    BY <2>1, <2>2, <2>3 DEF Responded, Answered
<1>3. QED
  BY <1>1, <1>2

\* The server's side becomes q.
LEMMA StepPeer ==
  ASSUME ShellInv, shell.open, NEW q \in PeerType, Len(q.out) <= MaxOutbound,
         peer' = q, UNCHANGED <<shell, ready, connection>>, stream' \in Seq(UnitType),
         Answers(shell.inbound \o stream', q.out, q.open, connection),
         Requests(q.commands, shell.out, connection),
         Sessions(shell.inbound \o stream', q.out, q.commands, shell.out, shell.auth)
  PROVE  ShellInv'
<1>1. ShellTypes' /\ Bounded' /\ Closed' /\ Fresh' /\ Linked'
  BY DEF ShellInv, ShellTypes, Bounded, Closed, Fresh, Linked
<1>2. Pipeline'
  BY DEF Pipeline
<1>3. QED
  BY <1>1, <1>2 DEF ShellInv

LEMMA StepServerCommand ==
  ASSUME ShellInv, NEW accepts \in BOOLEAN, ServerCommand(accepts)
  PROVE  ShellInv'
<1> DEFINE c == Head(peer.commands)
           t == Tail(peer.commands)
           p == [peer EXCEPT !.commands = t]
           u == shell.inbound \o stream
<1>1. /\ peer \in PeerType /\ peer.out \in Seq(FrameType) /\ peer.commands \in Seq(CommandType)
      /\ Len(peer.out) <= MaxOutbound /\ shell.open /\ peer.commands # <<>>
      /\ stream \in Seq(UnitType) /\ connection \in Nat
  BY PeerIsTyped, ShellIsTyped DEF ServerCommand
<1>2. /\ t \in Seq(CommandType) /\ Cut(peer.commands, 1, t) /\ c = peer.commands[1]
      /\ c \in CommandType /\ 1 \in 1..Len(peer.commands)
  BY <1>1, TailCuts
<1>3. /\ UNCHANGED <<shell, ready, connection, stream>>
      /\ peer' = CASE c.type = "login" -> handleLogin(p, accepts)
                   [] c.type = "disconnect" -> handleDisconnect(p, c.session)
                   [] c.type = "requestSnapshot" -> [p EXCEPT !.wanted = @ \/ p.session]
                   [] c.type = "other" -> p
  BY DEF ServerCommand
<1> HIDE DEF t, c
<1>4. p \in PeerType /\ p.out = peer.out /\ p.open = peer.open /\ p.commands = t
  BY <1>1, <1>2 DEF PeerType
<1> HIDE DEF p
<1>5. c.type \in {"login", "disconnect", "requestSnapshot", "other"}
  BY <1>2 DEF CommandType
<1>6. Answered(p, c, connection, peer')
  <2>1. CASE c.type = "login"
    <3>1. peer' = handleLogin(p, accepts)
      BY <1>3, <2>1
    <3>2. QED
      BY <1>1, <1>4, <2>1, <3>1, LoginAnswered
  <2>2. CASE c.type = "disconnect"
    <3>1. peer' = handleDisconnect(p, c.session)
      BY <1>3, <2>2
    <3>2. QED
      BY <1>1, <1>2, <1>4, <2>2, <3>1, DisconnectAnswered
  <2>3. CASE c.type = "requestSnapshot"
    <3> DEFINE wants == p.wanted \/ p.session
               q == [p EXCEPT !.wanted = wants]
    <3>1. peer' = q
      BY <1>3, <2>3
    <3>2. wants \in BOOLEAN
      OBVIOUS
    <3> HIDE DEF wants
    <3>3. q \in PeerType /\ q.out = p.out /\ q.open = p.open /\ q.commands = p.commands
      BY <1>4, <3>2 DEF PeerType
    <3> HIDE DEF q
    <3>4. QED
      BY <1>1, <1>4, <3>1, <3>3 DEF Answered
  <2>4. CASE c.type = "other"
    <3>1. peer' = p
      BY <1>3, <2>4
    <3>2. QED
      BY <1>1, <1>4, <3>1 DEF Answered
  <2>5. QED
    BY <1>5, <2>1, <2>2, <2>3, <2>4
<1> DEFINE q == peer'
<1>7. q \in PeerType /\ q.open = peer.open /\ q.commands = t /\ Len(q.out) <= MaxOutbound
  BY <1>4, <1>6 DEF Answered
<1>8. /\ Answers(u, peer.out, peer.open, connection)
      /\ Requests(peer.commands, shell.out, connection)
      /\ Sessions(u, peer.out, peer.commands, shell.out, shell.auth)
  BY <1>1 DEF ShellInv, Pipeline
<1>9. /\ Names(peer.commands, connection) => Names(t, connection)
      /\ onlyLogins(peer.commands) => onlyLogins(t)
      /\ LoginsFirst(peer.commands) => LoginsFirst(t)
      /\ hasLogin(t) => hasLogin(peer.commands)
      /\ LoginsFirst(peer.commands) /\ c.type # "login" => ~hasLogin(peer.commands)
  BY <1>2, CommandTaken
<1>10. /\ c.type = "login" => hasLogin(peer.commands)
       /\ onlyLogins(peer.commands) => c.type = "login"
  BY <1>2 DEF hasLogin, onlyLogins
<1> HIDE DEF u, q
<1>11. Requests(t, shell.out, connection)
  BY <1>8, <1>9 DEF Requests
<1>12. CASE q.out = peer.out
  <2>1. Answers(u, q.out, q.open, connection)
    BY <1>7, <1>8, <1>12
  <2>2. Sessions(u, q.out, t, shell.out, shell.auth)
    BY <1>8, <1>9, <1>12 DEF Sessions
  <2>3. QED
    BY <1>1, <1>3, <1>7, <1>11, <2>1, <2>2, StepPeer DEF q, u
<1>13. CASE \E f \in FrameType :
              /\ q.out = Append(peer.out, f)
              /\ f.kind = "loginAccepted" => c.type = "login" /\ f.session = connection
              /\ f.kind = "disconnectAccepted" => c.type = "disconnect"
  <2>1. PICK f \in FrameType :
              /\ q.out = Append(peer.out, f)
              /\ f.kind = "loginAccepted" => c.type = "login" /\ f.session = connection
              /\ f.kind = "disconnectAccepted" => c.type = "disconnect"
    BY <1>13
  <2>2. Extended(peer.out, f, q.out)
    BY <1>1, <2>1, AppendExtends
  <2>3. /\ Gives(peer.out, connection) /\ (f.kind = "loginAccepted" => f.session = connection)
             => Gives(q.out, connection)
        /\ NoLate(peer.out) /\ (f.kind = "loginAccepted" => ~has(peer.out, "disconnectAccepted"))
             => NoLate(q.out)
        /\ \A k : has(q.out, k) => has(peer.out, k) \/ f.kind = k
    BY <2>2, FrameAppended
  <2>4. f.kind = "loginAccepted" =>
          ~has(peer.out, "disconnectAccepted") /\ ~has(u, "disconnectAccepted")
    BY <1>8, <1>10, <2>1 DEF Sessions
  <2>5. Answers(u, q.out, q.open, connection)
    BY <1>7, <1>8, <2>1, <2>3, <2>4 DEF Answers
  <2>6. f.kind = "disconnectAccepted" =>
          /\ ~hasLogin(peer.commands) /\ ~hasLogin(shell.out) /\ shell.auth # "anonymous"
    BY <1>8, <1>9, <1>10, <2>1 DEF Sessions, Requests
  <2>7. Sessions(u, q.out, t, shell.out, shell.auth)
    BY <1>8, <1>9, <2>3, <2>6 DEF Sessions
  <2>8. QED
    BY <1>1, <1>3, <1>7, <1>11, <2>5, <2>7, StepPeer DEF q, u
<1>14. QED
  BY <1>4, <1>6, <1>12, <1>13 DEF Answered, q

LEMMA StepServerPublish ==
  ASSUME ShellInv, NEW kind \in {"event", "gap", "snapshot"}, ServerPublish(kind)
  PROVE  ShellInv'
<1> DEFINE wants == peer.wanted /\ kind # "snapshot"
           p == [peer EXCEPT !.wanted = wants]
           f == Frame(kind, 0)
           u == shell.inbound \o stream
           q == respond(p, f)
<1>1. /\ peer \in PeerType /\ peer.out \in Seq(FrameType) /\ Len(peer.out) <= MaxOutbound
      /\ shell.open /\ stream \in Seq(UnitType)
  BY PeerIsTyped DEF ServerPublish
<1>2. peer' = q /\ UNCHANGED <<shell, ready, connection, stream>>
  BY DEF ServerPublish
<1>3. wants \in BOOLEAN
  OBVIOUS
<1> HIDE DEF wants
<1>4. p \in PeerType /\ p.out = peer.out /\ p.open = peer.open /\ p.commands = peer.commands
  BY <1>1, <1>3 DEF PeerType
<1>5. f \in FrameType /\ f.kind \notin {"loginAccepted", "disconnectAccepted"}
  BY DEF Frame, FrameType, Kinds
<1> HIDE DEF p, f
<1>6. Responded(p, f, q)
  BY <1>1, <1>4, <1>5, ResponseFits
<1>7. /\ Answers(u, peer.out, peer.open, connection)
      /\ Requests(peer.commands, shell.out, connection)
      /\ Sessions(u, peer.out, peer.commands, shell.out, shell.auth)
  BY <1>1 DEF ShellInv, Pipeline
<1> HIDE DEF u, q
<1>8. /\ q \in PeerType /\ q.open = peer.open /\ q.commands = peer.commands
      /\ Len(q.out) <= MaxOutbound /\ (q.out = peer.out \/ q.out = Append(peer.out, f))
  BY <1>4, <1>6 DEF Responded
<1>9. CASE q.out = peer.out
  BY <1>1, <1>2, <1>7, <1>8, <1>9, StepPeer DEF u
<1>10. CASE q.out = Append(peer.out, f)
  <2>1. Extended(peer.out, f, q.out)
    BY <1>1, <1>5, <1>10, AppendExtends
  <2>2. /\ Gives(peer.out, connection) => Gives(q.out, connection)
        /\ NoLate(peer.out) => NoLate(q.out)
        /\ \A k : has(q.out, k) => has(peer.out, k) \/ f.kind = k
    BY <1>5, <2>1, FrameAppended
  <2>3. /\ has(q.out, "loginAccepted") => has(peer.out, "loginAccepted")
        /\ has(q.out, "disconnectAccepted") => has(peer.out, "disconnectAccepted")
    BY <1>5, <2>2
  <2>4. Answers(u, q.out, q.open, connection)
    BY <1>7, <1>8, <2>2, <2>3 DEF Answers
  <2>5. Sessions(u, q.out, q.commands, shell.out, shell.auth)
    BY <1>7, <1>8, <2>3 DEF Sessions
  <2>6. QED
    BY <1>1, <1>2, <1>7, <1>8, <2>4, <2>5, StepPeer DEF u
<1>11. QED
  BY <1>8, <1>9, <1>10

LEMMA StepServerFlush == ShellInv /\ ServerFlush => ShellInv'
<1> SUFFICES ASSUME ShellInv, ServerFlush PROVE ShellInv'
  OBVIOUS
<1> DEFINE f == Head(peer.out)
           t == Tail(peer.out)
           u == shell.inbound \o stream
           w == shell.inbound \o (stream \o units(f))
           stays == ~(peer.closing /\ Len(peer.out) = 1)
           q == [peer EXCEPT !.out = t, !.open = stays]
<1>1. /\ peer \in PeerType /\ peer.out \in Seq(FrameType) /\ Len(peer.out) <= MaxOutbound
      /\ shell.open /\ stream \in Seq(UnitType) /\ peer.out # <<>> /\ peer.open
      /\ shell.inbound \in Seq(UnitType) /\ Len(peer.out) \in Nat
  BY PeerIsTyped, ShellIsTyped DEF ServerFlush
<1>2. /\ t \in Seq(FrameType) /\ Cut(peer.out, 1, t) /\ f = peer.out[1] /\ f \in FrameType
      /\ 1 \in 1..Len(peer.out)
  BY <1>1, TailCuts
<1>3. stream' = stream \o units(f) /\ peer' = q /\ UNCHANGED <<shell, ready, connection>>
  BY DEF ServerFlush
<1>4. stays \in BOOLEAN
  OBVIOUS
<1> HIDE DEF f, t, stays
<1>5. q \in PeerType /\ q.out = t /\ q.commands = peer.commands
  BY <1>1, <1>2, <1>4 DEF PeerType
<1> HIDE DEF q
<1>6. Len(t) <= MaxOutbound
  <2> DEFINE l == Len(peer.out)
  <2>1. Len(t) = l - 1 /\ l \in Nat /\ l <= MaxOutbound
    BY <1>1, <1>2 DEF Cut
  <2> HIDE DEF l
  <2>2. QED
    BY <2>1, ShellAssumption
<1>7. units(f) \in Seq(UnitType)
  BY <1>2, UnitsOfFrame
<1>8. u \in Seq(UnitType) /\ stream \o units(f) \in Seq(UnitType)
  BY <1>1, <1>7, ConcatJoins
<1>9. w = u \o units(f)
  <2> DEFINE x == units(f)
             a == shell.inbound
  <2>1. a \in Seq(UnitType) /\ x \in Seq(UnitType)
    BY <1>1, <1>7
  <2> HIDE DEF x, a
  <2>2. stream \in Seq(UnitType)
    BY <1>1
  <2>3. (a \o stream) \o x = a \o (stream \o x)
    BY ONLY <2>1, <2>2, ConcatAssociative
  <2>4. QED
    BY <2>3 DEF x, a
<1>10. /\ Answers(u, peer.out, peer.open, connection)
       /\ Requests(peer.commands, shell.out, connection)
       /\ Sessions(u, peer.out, peer.commands, shell.out, shell.auth)
  BY <1>1 DEF ShellInv, Pipeline
<1> HIDE DEF u, w
<1>11. Joined(u, units(f), w)
  BY <1>7, <1>8, <1>9, ConcatJoins
<1>12. has(peer.out, f.kind)
  BY <1>2 DEF has
<1>13. /\ f.kind = "loginAccepted" => f.session = connection /\ ~has(u, "disconnectAccepted")
  BY <1>2, <1>10, <1>12 DEF Answers, Gives
<1>14. /\ wholeFrames(w) /\ endsAt(w, Len(w)) /\ Gives(w, connection) /\ NoLate(w)
       /\ \A k : k # "body" /\ has(w, k) => has(u, k) \/ f.kind = k
  <2>1. wholeFrames(u) /\ endsAt(u, Len(u)) /\ Gives(u, connection) /\ NoLate(u)
    BY <1>1, <1>10 DEF Answers
  <2>2. QED
    BY <1>2, <1>11, <1>13, <2>1, FrameSent
<1>15. /\ Gives(peer.out, connection) => Gives(t, connection)
       /\ NoLate(peer.out) => NoLate(t)
       /\ \A k : has(t, k) => has(peer.out, k)
  BY <1>2, FramesCut
<1>16. f.kind = "disconnectAccepted" => ~has(t, "loginAccepted")
  BY <1>2, <1>10, FirstFrameTaken DEF Answers
<1>17. has(w, "disconnectAccepted") => has(u, "disconnectAccepted") \/ f.kind = "disconnectAccepted"
  BY <1>14
<1>18. Answers(w, t, q.open, connection)
  BY <1>10, <1>14, <1>15, <1>16, <1>17 DEF Answers
<1>19. f.kind = "disconnectAccepted" => has(peer.out, "disconnectAccepted")
  BY <1>12
<1>20. Sessions(w, t, peer.commands, shell.out, shell.auth)
  BY <1>10, <1>15, <1>17, <1>19 DEF Sessions
<1>21. QED
  BY <1>1, <1>3, <1>5, <1>6, <1>8, <1>10, <1>18, <1>20, StepPeer DEF w

LEMMA StepConnectionLost == ShellInv /\ ConnectionLost => ShellInv'
<1> SUFFICES ASSUME ShellInv, ConnectionLost PROVE ShellInv'
  OBVIOUS
<1>1. /\ shell.open /\ stream \in Seq(UnitType) /\ shell.inbound \in Seq(UnitType)
      /\ peer' = NoPeer /\ UNCHANGED <<shell, ready, connection>>
  BY PeerIsTyped, ShellIsTyped DEF ConnectionLost
<1>2. PICK n \in 0..Len(stream) : stream' = SubSeq(stream, 1, n)
  BY DEF ConnectionLost
<1> DEFINE u == shell.inbound \o stream
           w == shell.inbound \o stream'
           l == Len(shell.inbound) + n
<1>3. stream' \in Seq(UnitType) /\ Begins(u, l, w)
  BY <1>1, <1>2, StreamBegins
<1>4. /\ Answers(u, peer.out, peer.open, connection)
      /\ Requests(peer.commands, shell.out, connection)
      /\ Sessions(u, peer.out, peer.commands, shell.out, shell.auth)
  BY <1>1 DEF ShellInv, Pipeline
<1> HIDE DEF u, w, l
<1>5. /\ Gives(u, connection) => Gives(w, connection)
      /\ NoLate(u) => NoLate(w)
      /\ \A k : has(w, k) => has(u, k)
  BY <1>3, FramesBegin
<1>6. wholeFrames(w)
  BY <1>3, <1>4, WholeBegin DEF Answers
<1>7. Answers(w, <<>>, FALSE, connection)
  BY <1>4, <1>5, <1>6, NoFrames DEF Answers
<1>8. Requests(<<>>, shell.out, connection)
  BY <1>4, NoCommands DEF Requests
<1>9. Sessions(w, <<>>, <<>>, shell.out, shell.auth)
  BY <1>4, <1>5, NoFrames, NoCommands DEF Sessions
<1>10. NoPeer \in PeerType /\ Len(NoPeer.out) <= MaxOutbound /\ NoPeer.open = FALSE
       /\ NoPeer.out = <<>> /\ NoPeer.commands = <<>>
  BY NoPeerFields, ShellAssumption DEF NoPeer
<1>11. QED
  BY <1>1, <1>3, <1>7, <1>8, <1>9, <1>10, StepPeer DEF w

-----------------------------------------------------------------------------
(* The invariant: pump *)

\* The shell after the read, with left still on the wire: it has a socket and
\* the rest of the pipeline, or the read has ended the connection.
AfterRead(sh, left) ==
  /\ sh \in ShellType /\ left \in Seq(UnitType)
  /\ sh.session <= connection /\ sh.reconnects <= connection
  /\ Len(sh.out) <= MaxOutbound /\ Len(sh.inbound) < SnapshotSize
  /\ SnapshotSize + ReadBuffer - 1 <= MaxUpdateFrame => sh.error # "ProtocolError"
InReadOrder(sh, left) ==
  /\ sh.open /\ sh.link = "connected" /\ sh.out = shell.out
  /\ sh.auth = "loggedIn" => sh.session = connection
  /\ sh.pending => sh.reconnects < connection
  /\ Answers(sh.inbound \o left, peer.out, peer.open, connection)
  /\ Requests(peer.commands, sh.out, connection)
  /\ Sessions(sh.inbound \o left, peer.out, peer.commands, sh.out, sh.auth)

LEMMA NothingRead ==
  ASSUME ShellInv, shell.open
  PROVE  LET left == SubSeq(stream, 0 + 1, Len(stream)) IN
         AfterRead(shell, left) /\ InReadOrder(shell, left)
<1> DEFINE left == SubSeq(stream, 0 + 1, Len(stream))
<1>1. stream \in Seq(UnitType)
  BY PeerIsTyped
<1>2. left = stream
  BY <1>1, SubSeqFull
<1>3. AfterRead(shell, stream)
  BY <1>1, ShellIsTyped DEF AfterRead, ShellInv, Bounded
<1>4. InReadOrder(shell, stream)
  BY DEF InReadOrder, ShellInv, Linked, Pipeline
<1>5. QED
  BY <1>2, <1>3, <1>4

\* A read of n units is no more than the buffer, and with what was left in the
\* demultiplexer less than a Snapshot and a buffer.
LEMMA ReadIsBounded ==
  ASSUME ShellInv, NEW n \in Reads
  PROVE  n \in 0..Len(stream) /\ n <= ReadBuffer /\ n \in Nat
<1> DEFINE l == Len(stream)
<1>1. l \in Nat
  BY PeerIsTyped, LenProperties
<1>2. n \in 0..(IF l < ReadBuffer THEN l ELSE ReadBuffer)
  BY DEF Reads
<1> HIDE DEF l
<1>3. n \in 0..l /\ n <= ReadBuffer /\ n \in Nat
  BY <1>1, <1>2, ShellAssumption
<1>4. QED
  BY <1>3 DEF l

LEMMA SomeRead ==
  ASSUME ShellInv, shell.open, NEW n \in Reads
  PROVE  LET sh == received(shell, SubSeq(stream, 1, n))
             left == SubSeq(stream, n + 1, Len(stream))
         IN AfterRead(sh, left) /\ (InReadOrder(sh, left) \/ Gone(sh) \/ Lost(sh))
<1> DEFINE read == SubSeq(stream, 1, n)
           left == SubSeq(stream, n + 1, Len(stream))
           a == shell.inbound
           u == a \o stream
           v == a \o read
           la == Len(a)
           m == received(shell, read)
<1>1. /\ shell \in ShellType /\ a \in Seq(UnitType) /\ stream \in Seq(UnitType)
      /\ connection \in Nat /\ shell.session \in Nat /\ shell.reconnects \in Nat
  BY ShellIsTyped, PeerIsTyped
<1>2. n \in 0..Len(stream) /\ n <= ReadBuffer /\ n \in Nat
  BY ReadIsBounded
<1>3. /\ read \in Seq(UnitType) /\ v \in Seq(UnitType) /\ Begins(u, la + n, v)
      /\ Len(v) = la + n /\ la \in Nat
  BY <1>1, <1>2, StreamBegins
<1>4. /\ Answers(u, peer.out, peer.open, connection)
      /\ Requests(peer.commands, shell.out, connection)
      /\ Sessions(u, peer.out, peer.commands, shell.out, shell.auth)
  BY DEF ShellInv, Pipeline
<1>5. /\ shell.link = "connected" /\ (shell.auth = "loggedIn" => shell.session = connection)
      /\ (shell.pending => shell.reconnects < connection)
  BY DEF ShellInv, Linked
<1>6. /\ shell.session <= connection /\ shell.reconnects <= connection
      /\ Len(shell.out) <= MaxOutbound /\ la < SnapshotSize
      /\ SnapshotSize + ReadBuffer - 1 <= MaxUpdateFrame => shell.error # "ProtocolError"
  BY DEF ShellInv, Bounded
<1>7. v = a \o read
  OBVIOUS
<1> HIDE DEF read, u, v, la
<1>8. wholeFrames(v) /\ NoLate(v) /\ Gives(v, connection)
  BY <1>3, <1>4, WholeBegin, FramesBegin DEF Answers
<1>9. PICK b, rest : Received(shell, connection, v, b, rest, m)
  BY <1>1, <1>3, <1>5, <1>7, <1>8, ReadsAreReceived
<1> HIDE DEF m
<1> DEFINE s == [shell EXCEPT !.inbound = rest]
           w == rest \o left
<1>10. /\ b \in 0..Len(v) /\ endsAt(v, b) /\ Cut(v, b, rest)
       /\ rest \in Seq(UnitType) /\ Len(rest) < SnapshotSize /\ ReadInto(s, connection, b, m)
  BY <1>9 DEF Received
<1>11. /\ s.open /\ s.inbound = rest /\ s.auth = shell.auth /\ s.session = shell.session
       /\ s.out = shell.out /\ s.pending = shell.pending /\ s.reconnects = shell.reconnects
       /\ s.error = shell.error
  BY <1>1 DEF ShellType
<1> HIDE DEF s
<1>12. left \in Seq(UnitType) /\ Cut(u, b, w)
  BY <1>1, <1>2, <1>7, <1>10, StreamRead DEF u, read
<1> HIDE DEF left, a
<1>13. b \in Nat /\ b <= la + n
  BY <1>2, <1>3, <1>10
<1>14. endsAt(u, b)
  <2>1. \A i \in 1..(la + n) : v[i] = u[i]
    BY <1>3 DEF Begins
  <2>2. \A j \in 1..b : j \in 1..(la + n)
    BY <1>2, <1>3, <1>13
  <2>3. \A j \in 1..b : v[j] = u[j]
    BY <2>1, <2>2
  <2>4. QED
    BY <1>10, <2>3 DEF endsAt
<1>15. SnapshotSize + ReadBuffer - 1 <= MaxUpdateFrame => b <= MaxUpdateFrame
  BY <1>2, <1>3, <1>6, <1>13, ShellAssumption
<1>16. AfterRead(m, left)
  <2>1. /\ m \in ShellType /\ m.session \in {shell.session, connection, 0}
        /\ m.out \in {shell.out, <<>>} /\ m.inbound \in {rest, <<>>}
        /\ b <= MaxUpdateFrame /\ shell.error # "ProtocolError" => m.error # "ProtocolError"
    BY <1>10, <1>11 DEF ReadInto, Bounds
  <2>2. m.reconnects = shell.reconnects \/ (m.reconnects = shell.reconnects + 1 /\ shell.pending)
    BY <1>10, <1>11 DEF ReadInto, OpenAfter
  <2>3. m.reconnects <= connection
    BY <1>1, <1>5, <1>6, <2>2
  <2>4. m.session <= connection
    BY <1>1, <1>6, <2>1
  <2>5. Len(<<>>) = 0
    BY EmptySeq
  <2>6. Len(m.out) <= MaxOutbound /\ Len(m.inbound) < SnapshotSize
    BY <1>6, <1>10, <2>1, <2>5, ShellAssumption
  <2>7. QED
    BY <1>6, <1>12, <1>15, <2>1, <2>3, <2>4, <2>6 DEF AfterRead
<1>17. CASE OpenAfter(s, connection, m)
  <2>1. /\ m.open /\ m.link = "connected" /\ m.out = shell.out /\ m.inbound = rest
        /\ \/ m.auth = shell.auth /\ m.session = shell.session
           \/ m.auth = "loggedIn" /\ m.session = connection
        /\ \/ m.reconnects = shell.reconnects /\ m.pending = shell.pending
           \/ ~m.pending
    BY <1>11, <1>17 DEF OpenAfter
  <2>2. /\ Gives(u, connection) => Gives(w, connection)
        /\ NoLate(u) => NoLate(w)
        /\ \A k : has(w, k) => has(u, k)
    BY <1>12, FramesCut
  <2>3. wholeFrames(w) /\ (endsAt(u, Len(u)) => endsAt(w, Len(w)))
    BY <1>4, <1>12, <1>14, WholeCut DEF Answers
  <2>4. Answers(w, peer.out, peer.open, connection)
    BY <1>4, <2>2, <2>3 DEF Answers
  <2>5. Sessions(w, peer.out, peer.commands, shell.out, m.auth)
    BY <1>4, <2>1, <2>2 DEF Sessions
  <2>6. InReadOrder(m, left)
    BY <1>4, <1>5, <2>1, <2>4, <2>5 DEF InReadOrder
  <2>7. QED
    BY <1>16, <2>6 DEF m, left, read
<1>18. CASE Gone(m) \/ Lost(m)
  BY <1>16, <1>18 DEF m, left, read
<1>19. QED
  BY <1>10, <1>17, <1>18 DEF ReadInto

\* A shell that keeps its socket goes on with what the read and the flush left.
LEMMA StepOpen ==
  ASSUME ShellInv, shell.open, connection' = connection, ~ready', ready' \in BOOLEAN,
         NEW left, stream' = left, NEW m, shell' = m, NEW q \in PeerType, peer' = q,
         AfterRead(m, left), m.open, m.link = "connected",
         m.auth = "loggedIn" => m.session = connection, m.pending => m.reconnects < connection,
         Len(q.out) <= MaxOutbound, Answers(m.inbound \o left, q.out, q.open, connection),
         Requests(q.commands, m.out, connection),
         Sessions(m.inbound \o left, q.out, q.commands, m.out, m.auth)
  PROVE  ShellInv'
<1>1. ShellTypes'
  BY DEF ShellInv, ShellTypes, AfterRead
<1>2. Bounded'
  BY DEF Bounded, AfterRead
<1>3. Closed' /\ Fresh' /\ Linked'
  BY DEF Closed, Fresh, Linked
<1>4. Pipeline'
  BY DEF Pipeline
<1>5. QED
  BY <1>1, <1>2, <1>3, <1>4 DEF ShellInv

\* The request for a Snapshot is queued like any other command.
LEMMA SnapshotAsked ==
  ASSUME ShellInv, NEW sh, NEW left, AfterRead(sh, left), InReadOrder(sh, left)
  PROVE  LET asked == requestSnapshot(sh) IN
         /\ Kept(sh, asked) /\ asked.out \in Seq(CommandType)
         /\ asked.reconnects = sh.reconnects /\ asked.pending = sh.pending
         /\ asked.error = sh.error
         /\ Requests(peer.commands, asked.out, connection)
         /\ Sessions(sh.inbound \o left, peer.out, peer.commands, asked.out, sh.auth)
<1> DEFINE asked == requestSnapshot(sh)
           c == Command("requestSnapshot", sh.session)
           u == sh.inbound \o left
<1>1. sh \in ShellType /\ sh.out \in Seq(CommandType)
  BY DEF AfterRead, ShellType
<1>2. /\ Kept(sh, asked) /\ asked.reconnects = sh.reconnects /\ asked.pending = sh.pending
      /\ asked.error = sh.error
      /\ asked.out = sh.out \/ (sh.auth = "loggedIn" /\ c \in CommandType /\ asked.out = Append(sh.out, c))
  BY <1>1, RequestKeeps
<1>3. c.type = "requestSnapshot" /\ c.session = sh.session
  BY DEF Command
<1> HIDE DEF asked, c
<1>4. asked.out \in Seq(CommandType)
  BY <1>2 DEF Kept, ShellType
<1>5. /\ Requests(peer.commands, sh.out, connection)
      /\ Sessions(u, peer.out, peer.commands, sh.out, sh.auth)
      /\ sh.auth = "loggedIn" => sh.session = connection
  BY DEF InReadOrder
<1> HIDE DEF u
<1>6. /\ Requests(peer.commands, asked.out, connection)
      /\ Sessions(u, peer.out, peer.commands, asked.out, sh.auth)
  <2>1. CASE asked.out = sh.out
    BY <1>5, <2>1
  <2>2. CASE sh.auth = "loggedIn" /\ c \in CommandType /\ asked.out = Append(sh.out, c)
    <3>1. c.type # "login" /\ c.session = connection
      BY <1>3, <1>5, <2>2
    <3>2. QED
      BY <1>1, <1>5, <2>2, <3>1, RequestsAppended
  <2>3. QED
    BY <1>2, <2>1, <2>2
<1>7. QED
  BY <1>2, <1>4, <1>6 DEF asked, u

\* The queue t goes out behind what is on the wire.
LEMMA RequestsSent ==
  ASSUME NEW s \in Seq(CommandType), NEW t \in Seq(CommandType), NEW id, NEW u, NEW ans,
         NEW auth, Requests(s, t, id), Sessions(u, ans, s, t, auth)
  PROVE  /\ s \o t \in Seq(CommandType)
         /\ Requests(s \o t, <<>>, id) /\ Sessions(u, ans, s \o t, <<>>, auth)
         /\ Requests(s, <<>>, id) /\ Sessions(u, ans, s, <<>>, auth)
<1> DEFINE c == s \o t
<1>1. c \in Seq(CommandType) /\ Joined(s, t, c)
  BY ConcatJoins
<1> HIDE DEF c
<1>2. /\ Names(c, id) /\ LoginsFirst(c)
      /\ onlyLogins(s) /\ onlyLogins(t) => onlyLogins(c)
      /\ hasLogin(c) => hasLogin(s) \/ hasLogin(t)
  BY <1>1, CommandsSent
<1>3. Names(<<>>, id) /\ LoginsFirst(<<>>) /\ onlyLogins(<<>>) /\ ~hasLogin(<<>>)
  BY NoCommands
<1>4. Requests(c, <<>>, id) /\ Requests(s, <<>>, id)
  BY <1>2, <1>3 DEF Requests
<1>5. Sessions(u, ans, c, <<>>, auth) /\ Sessions(u, ans, s, <<>>, auth)
  BY <1>2, <1>3 DEF Sessions
<1>6. QED
  BY <1>1, <1>4, <1>5 DEF c

\* The end of a pump whose request has room: what is queued is sent, or the
\* socket takes nothing.
LEMMA StepFlushed ==
  ASSUME ShellInv, shell.open, connection' = connection, ~ready', ready' \in BOOLEAN,
         NEW sh, NEW left, AfterRead(sh, left), InReadOrder(sh, left), stream' = left,
         NEW blocked \in BOOLEAN, NEW asked, asked = requestSnapshot(sh),
         ~(Len(asked.out) > MaxOutbound),
         shell' = noteReconnect([asked EXCEPT !.out = IF blocked THEN @ ELSE <<>>]),
         peer' = [peer EXCEPT !.commands =
                    IF peer.open THEN @ \o (IF blocked THEN <<>> ELSE asked.out) ELSE @]
  PROVE  ShellInv'
<1> DEFINE sent == IF blocked THEN <<>> ELSE asked.out
           kept == IF blocked THEN asked.out ELSE <<>>
           g == [asked EXCEPT !.out = kept]
           m == noteReconnect(g)
           onWire == IF peer.open THEN peer.commands \o sent ELSE peer.commands
           q == [peer EXCEPT !.commands = onWire]
           u == sh.inbound \o left
<1>1. /\ Kept(sh, asked) /\ asked.out \in Seq(CommandType)
      /\ asked.reconnects = sh.reconnects /\ asked.pending = sh.pending
      /\ asked.error = sh.error
      /\ Requests(peer.commands, asked.out, connection)
      /\ Sessions(u, peer.out, peer.commands, asked.out, sh.auth)
  BY SnapshotAsked
<1>2. /\ peer \in PeerType /\ peer.commands \in Seq(CommandType) /\ Len(peer.out) <= MaxOutbound
  BY PeerIsTyped
<1>3. <<>> \in Seq(CommandType) /\ Len(<<>>) = 0
  BY EmptySeq
<1>4. shell' = m /\ peer' = q
  OBVIOUS
<1>5. kept \in Seq(CommandType) /\ sent \in Seq(CommandType)
  BY <1>1, <1>3
<1>6. Len(kept) <= MaxOutbound
  <2>1. CASE blocked
    <3> DEFINE l == Len(asked.out)
    <3>1. l \in Nat
      BY <1>1, LenProperties
    <3>2. ~(l > MaxOutbound) /\ Len(kept) = l
      BY <2>1
    <3> HIDE DEF l, kept
    <3>3. QED
      BY <3>1, <3>2, ShellAssumption
  <2>2. CASE ~blocked
    BY <1>3, <2>2, ShellAssumption
  <2>3. QED
    BY <2>1, <2>2
<1> HIDE DEF u
<1>7. /\ onWire \in Seq(CommandType) /\ Requests(onWire, kept, connection)
      /\ Sessions(u, peer.out, onWire, kept, sh.auth)
  <2>1. CASE blocked
    <3>1. peer.commands \o <<>> = peer.commands
      BY <1>2, ConcatEmptySeq
    <3>2. onWire = peer.commands /\ kept = asked.out
      BY <2>1, <3>1
    <3>3. QED
      BY <1>1, <1>2, <3>2
  <2>2. CASE ~blocked
    <3> DEFINE o == asked.out
    <3>1. o \in Seq(CommandType) /\ Requests(peer.commands, o, connection)
          /\ Sessions(u, peer.out, peer.commands, o, sh.auth)
      BY <1>1
    <3>2. kept = <<>> /\ onWire = IF peer.open THEN peer.commands \o o ELSE peer.commands
      BY <2>2
    <3> HIDE DEF o, kept, onWire
    <3>3. /\ peer.commands \o o \in Seq(CommandType)
          /\ Requests(peer.commands \o o, <<>>, connection)
          /\ Sessions(u, peer.out, peer.commands \o o, <<>>, sh.auth)
          /\ Requests(peer.commands, <<>>, connection)
          /\ Sessions(u, peer.out, peer.commands, <<>>, sh.auth)
      BY <1>2, <3>1, RequestsSent
    <3>4. QED
      BY <1>2, <3>2, <3>3
  <2>3. QED
    BY <2>1, <2>2
<1> HIDE DEF kept, sent, onWire
<1>8. q \in PeerType /\ q.out = peer.out /\ q.open = peer.open /\ q.commands = onWire
  BY <1>2, <1>7 DEF PeerType
<1>9. /\ g \in ShellType /\ g.open = sh.open /\ g.link = sh.link /\ g.auth = sh.auth
      /\ g.inbound = sh.inbound /\ g.session = sh.session /\ g.out = kept
      /\ g.reconnects = sh.reconnects /\ g.pending = sh.pending /\ g.error = sh.error
  BY <1>1, <1>5 DEF Kept, ShellType
<1> HIDE DEF g, q
<1>10. /\ Kept(g, m) /\ m.out = g.out /\ m.error \in {g.error, "None"}
       /\ \/ m.reconnects = g.reconnects /\ m.pending = g.pending
          \/ /\ g.pending /\ g.auth = "loggedIn"
             /\ m.reconnects = g.reconnects + 1 /\ ~m.pending
  BY <1>9, NoteKeeps
<1> HIDE DEF m
<1>11. /\ m \in ShellType /\ m.open = sh.open /\ m.link = sh.link /\ m.auth = sh.auth
       /\ m.inbound = sh.inbound /\ m.session = sh.session /\ m.out = kept
       /\ m.error \in {sh.error, "None"}
       /\ \/ m.reconnects = sh.reconnects /\ m.pending = sh.pending
          \/ sh.pending /\ m.reconnects = sh.reconnects + 1 /\ ~m.pending
  BY <1>9, <1>10 DEF Kept
<1>12. /\ sh.open /\ sh.link = "connected" /\ (sh.auth = "loggedIn" => sh.session = connection)
       /\ (sh.pending => sh.reconnects < connection)
       /\ Answers(u, peer.out, peer.open, connection)
  BY DEF InReadOrder, u
<1>13. m.reconnects <= connection /\ (m.pending => m.reconnects < connection)
  <2>1. sh.reconnects <= connection /\ sh.reconnects \in Nat /\ connection \in Nat
    BY ShellIsTyped DEF AfterRead, ShellType
  <2>2. QED
    BY <1>11, <1>12, <2>1
<1>14. AfterRead(m, left)
  BY <1>6, <1>11, <1>13 DEF AfterRead
<1>15. /\ Answers(m.inbound \o left, q.out, q.open, connection)
       /\ Requests(q.commands, m.out, connection)
       /\ Sessions(m.inbound \o left, q.out, q.commands, m.out, m.auth)
  BY <1>7, <1>8, <1>11, <1>12 DEF u
<1>16. QED
  BY <1>2, <1>4, <1>8, <1>11, <1>12, <1>13, <1>14, <1>15, StepOpen

LEMMA StepPump ==
  ASSUME ShellInv, NEW n \in Reads, NEW late \in BOOLEAN, NEW blocked \in BOOLEAN,
         Pump(n, late, blocked)
  PROVE  ShellInv'
<1> DEFINE sh == IF n = 0 THEN shell ELSE received(shell, SubSeq(stream, 1, n))
           left == SubSeq(stream, n + 1, Len(stream))
           stale == late /\ expires(sh)
           asked == requestSnapshot(sh)
           over == Len(asked.out) > MaxOutbound
           again == ~shell'.open /\ shell'.pending /\ shell'.link = "disconnected"
<1>1. /\ shell.open /\ connection' = connection /\ ready' = (ready \/ again)
      /\ ~sh.open \/ stale => dropped(IF ~sh.open THEN sh ELSE timedOut(sh))
      /\ ~(~sh.open \/ stale) =>
           /\ stream' = left
           /\ over => shell' = sh /\ peer' = peer
           /\ ~over =>
                /\ shell' = noteReconnect([asked EXCEPT !.out = IF blocked THEN @ ELSE <<>>])
                /\ peer' = [peer EXCEPT !.commands =
                              IF peer.open THEN @ \o (IF blocked THEN <<>> ELSE asked.out) ELSE @]
  BY DEF Pump, canPump
<1>2. AfterRead(sh, left) /\ (InReadOrder(sh, left) \/ Gone(sh) \/ Lost(sh))
  <2>1. CASE n = 0
    <3>1. sh = shell /\ left = SubSeq(stream, 0 + 1, Len(stream))
      BY <2>1
    <3>2. QED
      BY <1>1, <3>1, NothingRead
  <2>2. CASE n # 0
    <3>1. sh = received(shell, SubSeq(stream, 1, n))
      BY <2>2
    <3>2. QED
      BY <1>1, <3>1, SomeRead
  <2>3. QED
    BY <2>1, <2>2
<1>3. ready = FALSE
  BY <1>1 DEF ShellInv, Fresh, ShellTypes
<1>4. again \in BOOLEAN
  OBVIOUS
<1>5. ready' = again
  BY <1>1, <1>3, <1>4
<1> HIDE DEF sh, left, stale, asked, over
<1>6. /\ sh \in ShellType /\ sh.session <= connection /\ sh.reconnects <= connection
      /\ Len(sh.out) <= MaxOutbound /\ Len(sh.inbound) < SnapshotSize
      /\ SnapshotSize + ReadBuffer - 1 <= MaxUpdateFrame => sh.error # "ProtocolError"
  BY <1>2 DEF AfterRead
<1>7. CASE ~sh.open
  <2>1. dropped(sh)
    BY <1>1, <1>7
  <2>2. shell' = sh
    BY <2>1 DEF dropped
  <2>3. Gone(sh) \/ Lost(sh)
    BY <1>2, <1>7 DEF InReadOrder
  <2>4. sh.auth = "anonymous" /\ (again => sh.out = <<>> /\ sh.inbound = <<>>)
    BY <2>2, <2>3 DEF Gone, Lost
  <2> HIDE DEF again
  <2>5. QED
    BY <1>1, <1>4, <1>5, <1>6, <1>7, <2>1, <2>4, StepDropped
<1>8. CASE sh.open /\ stale
  <2> DEFINE m == timedOut(sh)
  <2>1. dropped(m)
    BY <1>1, <1>8
  <2>2. shell' = m
    BY <2>1 DEF dropped
  <2>3. Ended(sh, m) /\ m.link = "failed" /\ m.error # "ProtocolError"
    BY <1>6, TimeoutEnds
  <2> HIDE DEF m
  <2>4. /\ m \in ShellType /\ ~m.open /\ m.auth = "anonymous" /\ m.session = sh.session
        /\ m.reconnects = sh.reconnects /\ m.out = sh.out /\ m.inbound = sh.inbound
    BY <2>3 DEF Ended
  <2>5. ~again
    BY <2>2, <2>3
  <2> HIDE DEF again
  <2>6. QED
    BY <1>1, <1>4, <1>5, <1>6, <2>1, <2>3, <2>4, <2>5, StepDropped
<1>9. CASE sh.open /\ ~stale
  <2>1. InReadOrder(sh, left)
    BY <1>2, <1>9 DEF Gone, Lost
  <2>2. stream' = left
    BY <1>1, <1>9
  <2>3. CASE over
    <3>1. shell' = sh /\ peer' = peer
      BY <1>1, <1>9, <2>3
    <3>2. ~again
      BY <1>9, <3>1
    <3> HIDE DEF again
    <3>3. /\ sh.link = "connected" /\ (sh.auth = "loggedIn" => sh.session = connection)
          /\ (sh.pending => sh.reconnects < connection)
          /\ Answers(sh.inbound \o left, peer.out, peer.open, connection)
          /\ Requests(peer.commands, sh.out, connection)
          /\ Sessions(sh.inbound \o left, peer.out, peer.commands, sh.out, sh.auth)
      BY <2>1 DEF InReadOrder
    <3>4. peer \in PeerType /\ Len(peer.out) <= MaxOutbound
      BY PeerIsTyped
    <3>5. QED
      BY <1>1, <1>2, <1>4, <1>5, <1>9, <2>2, <3>1, <3>2, <3>3, <3>4, StepOpen
  <2>4. CASE ~over
    <3>1. /\ shell' = noteReconnect([asked EXCEPT !.out = IF blocked THEN @ ELSE <<>>])
          /\ peer' = [peer EXCEPT !.commands =
                        IF peer.open THEN @ \o (IF blocked THEN <<>> ELSE asked.out) ELSE @]
      BY <1>1, <1>9, <2>4
    <3> DEFINE g == [asked EXCEPT !.out = IF blocked THEN asked.out ELSE <<>>]
    <3>2. Kept(sh, asked) /\ asked.out \in Seq(CommandType)
      BY <1>2, <2>1, SnapshotAsked DEF asked
    <3>3. g \in ShellType /\ g.open = sh.open
      <4> DEFINE kept == IF blocked THEN asked.out ELSE <<>>
      <4>1. kept \in Seq(CommandType)
        BY <3>2, EmptySeq
      <4> HIDE DEF kept
      <4>2. g = [asked EXCEPT !.out = kept]
        BY DEF kept
      <4>3. QED
        BY <3>2, <4>1, <4>2 DEF Kept, ShellType
    <3>4. shell' = noteReconnect(g)
      BY <3>1
    <3> HIDE DEF g
    <3>5. shell'.open
      BY <1>9, <3>3, <3>4, NoteKeeps DEF Kept
    <3>6. ~again
      BY <3>5
    <3> HIDE DEF again
    <3>7. ~(Len(asked.out) > MaxOutbound) /\ asked = requestSnapshot(sh)
      BY <2>4 DEF over, asked
    <3>8. shell.open /\ connection' = connection /\ ~ready' /\ ready' \in BOOLEAN
      BY <1>1, <1>4, <1>5, <3>6
    <3>9. AfterRead(sh, left)
      BY <1>2
    <3>10. QED
      BY ONLY ShellInv, blocked \in BOOLEAN, <2>1, <2>2, <3>1, <3>7, <3>8, <3>9, StepFlushed
  <2>5. QED
    BY <2>3, <2>4
<1>10. QED
  BY <1>7, <1>8, <1>9

LEMMA StepPumpWriteFails ==
  ASSUME ShellInv, NEW n \in Reads, PumpWriteFails(n)
  PROVE  ShellInv'
<1> DEFINE sh == IF n = 0 THEN shell ELSE received(shell, SubSeq(stream, 1, n))
           left == SubSeq(stream, n + 1, Len(stream))
           asked == requestSnapshot(sh)
           closed == closeShell(asked)
           gone == [closed EXCEPT !.error = "PeerClosed"]
           failed == markFailed(asked, "WriteFailed")
<1>1. /\ shell.open /\ connection' = connection /\ ready' = ready
      /\ sh.open /\ Len(asked.out) <= MaxOutbound
      /\ dropped(gone) \/ dropped(failed)
  BY DEF PumpWriteFails, canPump
<1>2. AfterRead(sh, left) /\ (InReadOrder(sh, left) \/ Gone(sh) \/ Lost(sh))
  <2>1. CASE n = 0
    <3>1. sh = shell /\ left = SubSeq(stream, 0 + 1, Len(stream))
      BY <2>1
    <3>2. QED
      BY <1>1, <3>1, NothingRead
  <2>2. CASE n # 0
    <3>1. sh = received(shell, SubSeq(stream, 1, n))
      BY <2>2
    <3>2. QED
      BY <1>1, <3>1, SomeRead
  <2>3. QED
    BY <2>1, <2>2
<1>3. ready = FALSE
  BY <1>1 DEF ShellInv, Fresh, ShellTypes
<1> HIDE DEF sh, left
<1>4. InReadOrder(sh, left)
  BY <1>1, <1>2 DEF Gone, Lost
<1>5. Kept(sh, asked) /\ asked.reconnects = sh.reconnects /\ asked.error = sh.error
  BY <1>2, <1>4, SnapshotAsked
<1> HIDE DEF asked
<1>6. /\ asked \in ShellType /\ asked.open
      /\ asked.session <= connection /\ asked.reconnects <= connection
      /\ Len(asked.inbound) < SnapshotSize
  BY <1>1, <1>2, <1>5 DEF AfterRead, Kept
<1>7. Ended(asked, closed)
  BY <1>6, CloseEnds
<1> HIDE DEF closed
<1>8. Ended(asked, gone) /\ gone.error = "PeerClosed"
  BY <1>7 DEF Ended, ShellType, Reasons
<1>9. Ended(asked, failed) /\ failed.error = "WriteFailed"
  <2>1. "WriteFailed" \in Reasons
    BY DEF Reasons
  <2>2. QED
    BY <1>6, <2>1, MarkFailedEnds
<1> HIDE DEF gone, failed
<1>10. ASSUME NEW m, Ended(asked, m), dropped(m), m.error # "ProtocolError"
       PROVE  ShellInv'
  <2>1. /\ m \in ShellType /\ ~m.open /\ m.auth = "anonymous" /\ m.session = asked.session
        /\ m.reconnects = asked.reconnects /\ m.out = asked.out /\ m.inbound = asked.inbound
    BY <1>10 DEF Ended
  <2>2. QED
    BY <1>1, <1>3, <1>6, <1>10, <2>1, StepDropped
<1>11. QED
  BY <1>1, <1>8, <1>9, <1>10

-----------------------------------------------------------------------------
(* The theorems *)

LEMMA ShellStep == ShellInv /\ [Next]_shellVars => ShellInv'
<1> SUFFICES ASSUME ShellInv, [Next]_shellVars PROVE ShellInv'
  OBVIOUS
<1>1. CASE Connect
  BY <1>1, StepConnect
<1>2. CASE ConnectFails
  BY <1>2, StepConnectFails
<1>3. CASE BeginReconnect
  BY <1>3, StepBeginReconnect
<1>4. CASE EnqueueLogin \/ EnqueueCommand \/ EnqueueDisconnect
  BY <1>4, StepEnqueue
<1>5. CASE CloseTransport
  BY <1>5, StepCloseTransport
<1>6. CASE PumpSteps
  <2>1. CASE PumpTimeout
    BY <2>1, StepPumpTimeout
  <2>2. CASE PumpClosed
    BY <2>2, StepPumpClosed
  <2>3. CASE \E n \in Reads, late \in BOOLEAN, blocked \in BOOLEAN : Pump(n, late, blocked)
    BY <2>3, StepPump
  <2>4. CASE \E n \in Reads : PumpWriteFails(n)
    BY <2>4, StepPumpWriteFails
  <2>5. QED
    BY <1>6, <2>1, <2>2, <2>3, <2>4 DEF PumpSteps
<1>7. CASE \E accepts \in BOOLEAN : ServerCommand(accepts)
  BY <1>7, StepServerCommand
<1>8. CASE ServerFlush
  BY <1>8, StepServerFlush
<1>9. CASE \E kind \in {"event", "gap", "snapshot"} : ServerPublish(kind)
  BY <1>9, StepServerPublish
<1>10. CASE ConnectionLost
  BY <1>10, StepConnectionLost
<1>11. CASE UNCHANGED shellVars
  <2>1. UNCHANGED <<shell, ready, connection, peer, stream>>
    BY <1>11 DEF shellVars
  <2>2. ShellTypes' /\ Bounded' /\ Closed' /\ Fresh' /\ Linked' /\ Pipeline'
    BY <2>1 DEF ShellInv, ShellTypes, Bounded, Closed, Fresh, Linked, Pipeline
  <2>3. QED
    BY <2>2 DEF ShellInv
<1>12. QED
  BY <1>1, <1>2, <1>3, <1>4, <1>5, <1>6, <1>7, <1>8, <1>9, <1>10, <1>11 DEF Next

LEMMA ShellInvHolds == Spec => []ShellInv
<1>1. QED
  BY ShellInitial, ShellStep, PTL DEF Spec

\* The bounds of the queues, of the demultiplexer and of the counters hold in
\* every state: no queue of either end goes beyond MAX_OUTBOUND_FRAMES, what
\* ClientInboundDemux keeps back is less than one Snapshot, and a shell has
\* completed no more reconnects than it has had connections.
THEOREM ShellTypeOK == Spec => []TypeOK
<1>1. ShellInv => TypeOK
  <2> SUFFICES ASSUME ShellInv PROVE TypeOK
    OBVIOUS
  <2>1. /\ shell \in ShellType /\ shell.session \in Nat /\ shell.reconnects \in Nat
        /\ connection \in Nat
    BY ShellIsTyped
  <2>2. /\ shell.session <= connection /\ shell.reconnects <= connection
        /\ Len(shell.out) <= MaxOutbound /\ Len(peer.out) <= MaxOutbound
        /\ Len(shell.inbound) < SnapshotSize
    BY DEF ShellInv, Bounded
  <2>3. shell.session \in 0..connection /\ shell.reconnects \in 0..connection
    BY <2>1, <2>2
  <2>4. connection \in 0..MaxConnections
    BY DEF ShellInv, ShellTypes
  <2>5. /\ shell.link \in {"disconnected", "connected", "failed"}
        /\ shell.auth \in {"anonymous", "loggedIn"} /\ shell.error \in Reasons
    BY <2>1 DEF ShellType
  <2>6. QED
    BY <2>2, <2>3, <2>4, <2>5 DEF TypeOK
<1>2. QED
  BY <1>1, ShellInvHolds, PTL

\* What recv brings in pieces of any length is understood as the frames the
\* server sent on this connection: the demultiplexer's buffer and the wire
\* together are whole frames, and where a Snapshot and the rest of a read fit
\* the accumulator no read ends in a protocol error.
THEOREM StreamIsUnderstood == Spec => []StreamUnderstood
<1>1. ShellInv => StreamUnderstood
  BY DEF ShellInv, Bounded, Pipeline, Answers, StreamUnderstood
<1>2. QED
  BY <1>1, ShellInvHolds, PTL

\* Every command but a Login that is queued or on the wire names the session
\* that the server gave to this very connection, through any reconnects, lost
\* connections and answered Disconnects before it.
THEOREM CommandsAreOfThisSession == Spec => []CommandsNameOwnSession
<1>1. ShellInv => CommandsNameOwnSession
  <2> SUFFICES ASSUME ShellInv, shell.open,
                      NEW c \in ToSet(shell.out \o peer.commands), c.type # "login"
               PROVE  c.session = connection
    BY DEF CommandsNameOwnSession
  <2> DEFINE s == shell.out
             t == peer.commands
             q == s \o t
             ls == Len(s)
             lt == Len(t)
  <2>1. s \in Seq(CommandType) /\ t \in Seq(CommandType)
    BY ShellIsTyped, PeerIsTyped
  <2>2. Names(s, connection) /\ Names(t, connection)
    BY DEF ShellInv, Pipeline, Requests
  <2>3. \E i \in DOMAIN q : c = q[i]
    BY DEF ToSet
  <2> HIDE DEF s, t
  <2>4. q \in Seq(CommandType) /\ Joined(s, t, q)
    BY <2>1, ConcatJoins
  <2> HIDE DEF q
  <2>5. DOMAIN q = 1..Len(q)
    BY <2>4, LenProperties
  <2>6. /\ ls \in Nat /\ lt \in Nat /\ Len(q) = ls + lt
        /\ \A i \in 1..ls : q[i] = s[i]
        /\ \A i \in 1..lt : q[ls + i] = t[i]
    BY <2>4 DEF Joined
  <2> HIDE DEF ls, lt
  <2>7. PICK i \in 1..(ls + lt) : c = q[i]
    BY <2>3, <2>5, <2>6
  <2>8. CASE i \in 1..ls
    BY <2>2, <2>6, <2>7, <2>8 DEF Names, ls
  <2>9. CASE i \notin 1..ls
    <3>1. i - ls \in 1..lt /\ ls + (i - ls) = i
      BY <2>6, <2>9
    <3>2. q[ls + (i - ls)] = t[i - ls]
      BY <2>6, <3>1
    <3>3. c = t[i - ls]
      BY ONLY <2>7, <3>1, <3>2, Zenon
    <3>4. QED
      BY <2>2, <3>1, <3>3 DEF Names, lt
  <2>10. QED
    BY <2>8, <2>9
<1>2. QED
  BY <1>1, ShellInvHolds, PTL
=============================================================================
