------------------------- MODULE WorldParts_proofs -------------------------
(***************************************************************************)
(* What is proved about the components holds for WorldParts: each of its   *)
(* behaviours is one of every component, which is at most left as it is.   *)
(* The proofs of CommandIntake, NpcWorld and ClientPrediction are          *)
(* instantiated, so a definition has two names here, one as in WorldParts  *)
(* and one as in the proofs.  ChallengeLogin and SnapshotText have their   *)
(* proofs here, about the instances Login and Text.                        *)
(***************************************************************************)
EXTENDS WorldParts, SequenceTheorems, FiniteSetTheorems, WellFoundedInduction, TLAPS

IntakeProofs == INSTANCE CommandIntake_proofs WITH MaxInputs <- MaxQueuedInputs
NpcProofs == INSTANCE NpcWorld_proofs
PredictionProofs == INSTANCE ClientPrediction_proofs

-----------------------------------------------------------------------------
(* Intake of commands *)

LEMMA SameIntake == Intake!Next => IntakeProofs!Next
  BY DEF Intake!Next, IntakeProofs!Next, Intake!Send, IntakeProofs!Send, Intake!Hangup,
         IntakeProofs!Hangup, Intake!Receive, IntakeProofs!Receive, Intake!Dispatch,
         IntakeProofs!Dispatch, Intake!BeginFrame, IntakeProofs!BeginFrame,
         Intake!EndFrame, IntakeProofs!EndFrame, Intake!Conns, IntakeProofs!Conns,
         Intake!Types, IntakeProofs!Types, Intake!limitFor, IntakeProofs!limitFor,
         Intake!moreToSend, IntakeProofs!moreToSend, Intake!accumulate,
         IntakeProofs!accumulate, Intake!frames, IntakeProofs!frames, Intake!decodes,
         IntakeProofs!decodes, Intake!closed, IntakeProofs!closed, Intake!fits,
         IntakeProofs!fits, Intake!enqueueCommands, IntakeProofs!enqueueCommands,
         Intake!overfull, IntakeProofs!overfull, Intake!ReadUnits,
         IntakeProofs!ReadUnits, Intake!allow, IntakeProofs!allow,
         Intake!handlerAccepts, IntakeProofs!handlerAccepts, Intake!dispatch,
         IntakeProofs!dispatch, Intake!beginFrame, IntakeProofs!beginFrame,
         Intake!ToSet, IntakeProofs!ToSet, Intake!Min, IntakeProofs!Min,
         Intake!Cardinality, IntakeProofs!Cardinality, Intake!IsFiniteSet,
         IntakeProofs!IsFiniteSet

\* A behaviour of WorldParts is one of CommandIntake.
LEMMA PartsAreIntakes == Spec => IntakeProofs!Spec
<1>1. Init => IntakeProofs!Init
  BY DEF Init, Intake!Init, IntakeProofs!Init, Intake!Conns, IntakeProofs!Conns, Intake!Types,
         IntakeProofs!Types
<1>2. [Next]_partsVars => [IntakeProofs!Next]_(IntakeProofs!intakeVars)
  BY SameIntake
  DEF Next, IntakeStep, LoginStep, NpcStep, TextStep, PredictionStep, partsVars, intakeVars,
      IntakeProofs!intakeVars
<1>3. QED
  BY <1>1, <1>2, PTL DEF Spec, IntakeProofs!Spec

LEMMA IntakeConstantsHold == IntakeProofs!IntakeConstants
  BY PartsAssumption DEF IntakeProofs!IntakeConstants

\* For any number of connections and any sizes of frames, buffers and queues,
\* and however the streams are cut into reads, the commands of a client are
\* dispatched in the order it sent them, each once, and none is lost but with a
\* read that was refused.
THEOREM CommandsKeepOrder == Spec => []CommandsInOrder
<1>1. IntakeProofs!Spec => []IntakeProofs!CommandsInOrder
  BY IntakeConstantsHold, IntakeProofs!CommandsKeepOrder
<1>2. IntakeProofs!CommandsInOrder => CommandsInOrder
  BY DEF CommandsInOrder, Intake!CommandsInOrder, IntakeProofs!CommandsInOrder,
         Intake!underway, IntakeProofs!underway, Intake!Conns, IntakeProofs!Conns,
         Intake!ToSet, IntakeProofs!ToSet
<1>3. QED
  BY <1>1, <1>2, PartsAreIntakes, PTL

\* Where the queue has room for the limit of every connection, enqueueCommands
\* refuses a read only for the commands it holds itself.
THEOREM OwnReadsAreRefused == Spec => []RefusedForOwnRead
<1>1. IntakeProofs!Spec => []IntakeProofs!RefusedForOwnRead
  BY IntakeConstantsHold, IntakeProofs!OwnReadsAreRefused
<1>2. IntakeProofs!RefusedForOwnRead => RefusedForOwnRead
  BY DEF RefusedForOwnRead, Intake!RefusedForOwnRead, IntakeProofs!RefusedForOwnRead
<1>3. QED
  BY <1>1, <1>2, PartsAreIntakes, PTL

\* A tick that denies a RequestSnapshot has accepted another.
THEOREM DeniedRequestsAreServed == Spec => []DeniedRequestIsServed
<1>1. IntakeProofs!Spec => []IntakeProofs!DeniedRequestIsServed
  BY IntakeConstantsHold, IntakeProofs!DeniedRequestsAreServed
<1>2. IntakeProofs!DeniedRequestIsServed => DeniedRequestIsServed
  BY DEF DeniedRequestIsServed, Intake!DeniedRequestIsServed,
         IntakeProofs!DeniedRequestIsServed
<1>3. QED
  BY <1>1, <1>2, PartsAreIntakes, PTL

\* For commands of every legal length and reads of every size up to a frame, the
\* accumulator ends a connection only where two frames meet in a read.
THEOREM OneFrameHasRoom == Spec => OneFrameFits
<1>1. IntakeProofs!Spec => IntakeProofs!OneFrameFits
  BY IntakeConstantsHold, IntakeProofs!OneFrameHasRoom
<1>2. IntakeProofs!OneFrameFits => OneFrameFits
  BY DEF OneFrameFits, Intake!OneFrameFits, IntakeProofs!OneFrameFits, Intake!Conns,
         IntakeProofs!Conns, Intake!intakeVars, IntakeProofs!intakeVars
<1>3. QED
  BY <1>1, <1>2, PartsAreIntakes, PTL

-----------------------------------------------------------------------------
(* Challenge login *)

\* The lifetimes are numbers of seconds.
TtlsAreNumbers == ChallengeTtl \in Nat /\ SessionTtl \in Nat

LEMMA LoginConstants == TtlsAreNumbers
  BY PartsAssumption DEF TtlsAreNumbers

Challenge == [user : Users, expires : Int, claimed : BOOLEAN]
Row == [challenge : Nat, user : Users, expires : Int, revoked : BOOLEAN]
Stages == {"begun", "selected", "claimed", "created"}
LoginState == [stage : Stages, challenge : Nat, now : Int]
Gameplay == [challenge : Nat, user : Users, key : Nat]

LoginTypes ==
  /\ clock \in Int
  /\ challenges \in Seq(Challenge)
  /\ playerSessions \in [DOMAIN playerSessions -> Row]
  /\ login \in [Servers -> LoginState \cup {Idle}]
  /\ \A s \in Servers : Login!stageOf(s) \in Stages => login[s].challenge \in DOMAIN challenges
  /\ issued \in [Servers -> Nat]
  /\ gameplay \in [Servers -> Seq(Gameplay)]

\* What a login in progress knows about its challenge.
unclaimed(c) == ~challenges[c].claimed
hasRow(c) == \E k \in DOMAIN playerSessions : playerSessions[k].challenge = c
hasGameplay(c) == \E s \in Servers : \E i \in DOMAIN gameplay[s] : gameplay[s][i].challenge = c

\* The row lock of claim: one server at a time has selected a challenge, and
\* only while it is unclaimed.
OneSelects ==
  \A s \in Servers : Login!stageOf(s) = "selected" =>
    /\ unclaimed(login[s].challenge)
    /\ \A t \in Servers : Login!stageOf(t) = "selected" /\ login[t].challenge = login[s].challenge => s = t

\* A claimed challenge has one login, which has not got its session yet.
OneOwns ==
  /\ \A s \in Servers : Login!stageOf(s) \in {"claimed", "created"} =>
       /\ ~unclaimed(login[s].challenge)
       /\ ~hasGameplay(login[s].challenge)
       /\ \A t \in Servers :
            Login!stageOf(t) \in {"claimed", "created"} /\ login[t].challenge = login[s].challenge
              => s = t
  /\ \A s \in Servers : Login!stageOf(s) = "claimed" => ~hasRow(login[s].challenge)
  /\ \A s \in Servers : Login!stageOf(s) = "created" =>
       /\ issued[s] \in DOMAIN playerSessions
       /\ playerSessions[issued[s]].challenge = login[s].challenge

\* Rows are for claimed challenges.
RowsAreClaimed ==
  \A k \in DOMAIN playerSessions :
    /\ playerSessions[k].challenge \in DOMAIN challenges
    /\ ~unclaimed(playerSessions[k].challenge)

LoginInv ==
  LoginTypes /\ OneSelects /\ OneOwns /\ RowsAreClaimed /\ Login!SingleUse /\ Login!KeysNameOwnLogin

-----------------------------------------------------------------------------

\* The stage of a login in progress is the one its record names.
LEMMA StageIsRecorded ==
  ASSUME LoginTypes, NEW s \in Servers
  PROVE  /\ login[s] = Idle => Login!stageOf(s) = "idle"
         /\ login[s] # Idle => login[s] \in LoginState /\ Login!stageOf(s) = login[s].stage
         /\ Login!stageOf(s) \in Stages =>
              /\ login[s] \in LoginState
              /\ login[s].stage = Login!stageOf(s)
              /\ login[s].challenge \in DOMAIN challenges
              /\ login[s].now \in Int
  BY DEF LoginTypes, Login!stageOf, LoginState, Stages

\* A gameplay session has a row, so its challenge is claimed.
LEMMA GameplayIsClaimed ==
  ASSUME LoginInv, NEW c, hasGameplay(c)
  PROVE  hasRow(c) /\ ~unclaimed(c)
<1>0. PICK s \in Servers : \E i \in DOMAIN gameplay[s] : gameplay[s][i].challenge = c
  BY DEF hasGameplay
<1>1. PICK i \in DOMAIN gameplay[s] : gameplay[s][i].challenge = c
  BY <1>0
<1>2. /\ gameplay[s][i].key \in DOMAIN playerSessions
      /\ playerSessions[gameplay[s][i].key].challenge = c
  BY <1>1 DEF LoginInv, Login!KeysNameOwnLogin
<1>3. QED
  BY <1>2 DEF LoginInv, RowsAreClaimed, hasRow

\* A step of server s that only gives up its login or takes up a new one, and
\* may drop its gameplay sessions.
LEMMA LoginTaken ==
  ASSUME LoginInv, NEW s \in Servers, NEW state \in LoginState \cup {Idle},
         login' = [login EXCEPT ![s] = state],
         state # Idle => state.stage = "begun" /\ state.challenge \in DOMAIN challenges,
         UNCHANGED <<clock, challenges, playerSessions>>,
         \/ UNCHANGED <<issued, gameplay>>
         \/ /\ issued' = [issued EXCEPT ![s] = 0]
            /\ gameplay' = [gameplay EXCEPT ![s] = <<>>]
  PROVE  LoginInv'
<1>1. LoginTypes /\ OneSelects /\ OneOwns /\ RowsAreClaimed /\ Login!SingleUse /\ Login!KeysNameOwnLogin
  BY DEF LoginInv
<1>2. /\ Login!stageOf(s)' \in {"idle", "begun"}
      /\ \A t \in Servers \ {s} : login'[t] = login[t] /\ Login!stageOf(t)' = Login!stageOf(t) /\ issued'[t] = issued[t]
  BY <1>1 DEF LoginTypes, Login!stageOf
<1>3. \A t \in Servers : \A i \in DOMAIN gameplay'[t] :
        i \in DOMAIN gameplay[t] /\ gameplay'[t][i] = gameplay[t][i]
  <2>1. /\ \A t \in Servers \ {s} : gameplay'[t] = gameplay[t]
        /\ gameplay'[s] = gameplay[s] \/ gameplay'[s] = <<>>
    BY <1>1 DEF LoginTypes
  <2>2. DOMAIN <<>> = {}
    OBVIOUS
  <2>3. QED
    BY <2>1, <2>2
<1>4. \A c : hasGameplay(c)' => hasGameplay(c)
  BY <1>3 DEF hasGameplay
<1>5. \A c : (hasRow(c)' <=> hasRow(c)) /\ (unclaimed(c)' <=> unclaimed(c))
  BY DEF hasRow, unclaimed
<1>6. LoginTypes'
  <2>1. login' \in [Servers -> LoginState \cup {Idle}]
    BY <1>1 DEF LoginTypes
  <2>2. issued' \in [Servers -> Nat]
    BY <1>1 DEF LoginTypes
  <2>3. gameplay' \in [Servers -> Seq(Gameplay)]
    <3>1. <<>> \in Seq(Gameplay) /\ gameplay \in [Servers -> Seq(Gameplay)]
      BY <1>1, EmptySeq DEF LoginTypes
    <3>2. QED
      BY <3>1
  <2>4. ASSUME NEW t \in Servers, Login!stageOf(t)' \in Stages
        PROVE  login'[t].challenge \in DOMAIN challenges'
    <3>1. CASE t = s
      BY <1>1, <2>4, <3>1 DEF LoginTypes, Login!stageOf, Stages
    <3>2. CASE t # s
      BY <1>1, <1>2, <2>4, <3>2 DEF LoginTypes
    <3>3. QED
      BY <3>1, <3>2
  <2>5. QED
    BY <1>1, <2>1, <2>2, <2>3, <2>4 DEF LoginTypes
<1>7. OneSelects'
  BY <1>1, <1>2, <1>5 DEF OneSelects
<1>8. OneOwns'
  <2>1. ASSUME NEW t \in Servers, Login!stageOf(t)' \in {"claimed", "created"}
        PROVE  t # s /\ login'[t] = login[t] /\ Login!stageOf(t)' = Login!stageOf(t) /\ issued'[t] = issued[t]
    BY <1>2, <2>1
  <2>2. ASSUME NEW t \in Servers, Login!stageOf(t)' \in {"claimed", "created"}
        PROVE  ~unclaimed(login[t].challenge)' /\ ~hasGameplay(login[t].challenge)'
    <3>1. ~unclaimed(login[t].challenge) /\ ~hasGameplay(login[t].challenge)
      BY <1>1, <2>1, <2>2 DEF OneOwns
    <3>2. QED
      BY <1>4, <1>5, <2>1, <2>2, <3>1
  <2>3. ASSUME NEW t \in Servers, Login!stageOf(t)' \in {"claimed", "created"},
               NEW r \in Servers, Login!stageOf(r)' \in {"claimed", "created"},
               login'[r].challenge = login'[t].challenge
        PROVE  t = r
    BY <1>1, <2>1, <2>3 DEF OneOwns
  <2>4. ASSUME NEW t \in Servers, Login!stageOf(t)' = "claimed"
        PROVE  ~hasRow(login[t].challenge)'
    BY <1>1, <1>5, <2>1, <2>4 DEF OneOwns
  <2>5. ASSUME NEW t \in Servers, Login!stageOf(t)' = "created"
        PROVE  /\ issued'[t] \in DOMAIN playerSessions'
               /\ playerSessions'[issued'[t]].challenge = login'[t].challenge
    BY <1>1, <2>1, <2>5 DEF OneOwns
  <2>6. QED
    BY <2>2, <2>3, <2>4, <2>5 DEF OneOwns
<1>9. RowsAreClaimed'
  BY <1>1 DEF RowsAreClaimed, unclaimed
<1>10. Login!SingleUse' /\ Login!KeysNameOwnLogin'
  BY <1>1, <1>3 DEF Login!SingleUse, Login!KeysNameOwnLogin
<1>11. QED
  BY <1>6, <1>7, <1>8, <1>9, <1>10 DEF LoginInv

\* A new challenge, under a number no login or row has.
LEMMA IssueStep ==
  ASSUME TtlsAreNumbers, LoginInv, NEW u \in Users, Login!IssueChallenge(u)
  PROVE  LoginInv'
<1> DEFINE new == [user |-> u, expires |-> clock + ChallengeTtl, claimed |-> FALSE]
<1>1. LoginTypes /\ OneSelects /\ OneOwns /\ RowsAreClaimed /\ Login!SingleUse /\ Login!KeysNameOwnLogin
  BY DEF LoginInv
<1>2. UNCHANGED <<clock, playerSessions, login, issued, gameplay>> /\ challenges' = Append(challenges, new)
  BY DEF Login!IssueChallenge
<1>3. /\ challenges \in Seq(Challenge) /\ new \in Challenge
      /\ DOMAIN challenges = 1..Len(challenges) /\ Len(challenges) \in Nat
  BY <1>1, LenProperties DEF LoginTypes, Challenge, TtlsAreNumbers
<1>4. /\ challenges' \in Seq(Challenge)
      /\ DOMAIN challenges \subseteq DOMAIN challenges'
      /\ \A c \in DOMAIN challenges : challenges'[c] = challenges[c]
  <2> HIDE DEF new
  <2>1. /\ challenges' \in Seq(Challenge) /\ Len(challenges') = Len(challenges) + 1
        /\ \A c \in 1..Len(challenges) : challenges'[c] = challenges[c]
    BY <1>2, <1>3, AppendProperties
  <2>2. DOMAIN challenges' = 1..Len(challenges')
    BY <2>1, LenProperties
  <2>3. QED
    BY <1>3, <2>1, <2>2
<1>5. \A s \in Servers : Login!stageOf(s)' = Login!stageOf(s)
  BY <1>2 DEF Login!stageOf
<1>6. \A c : (hasRow(c)' <=> hasRow(c)) /\ (hasGameplay(c)' <=> hasGameplay(c))
  BY <1>2 DEF hasRow, hasGameplay
<1>7. \A c \in DOMAIN challenges : unclaimed(c)' <=> unclaimed(c)
  BY <1>4 DEF unclaimed
<1>8. \A s \in Servers : Login!stageOf(s) \in Stages => login[s].challenge \in DOMAIN challenges
  BY <1>1 DEF LoginTypes
<1>9. LoginTypes'
  BY <1>1, <1>2, <1>4, <1>5 DEF LoginTypes
<1>10. OneSelects'
  BY <1>1, <1>2, <1>5, <1>7, <1>8 DEF OneSelects, Stages
<1>11. OneOwns'
  BY <1>1, <1>2, <1>5, <1>6, <1>7, <1>8 DEF OneOwns, Stages
<1>12. RowsAreClaimed'
  BY <1>1, <1>2, <1>4, <1>7 DEF RowsAreClaimed
<1>13. Login!SingleUse' /\ Login!KeysNameOwnLogin'
  BY <1>1, <1>2, <1>4 DEF Login!SingleUse, Login!KeysNameOwnLogin, RowsAreClaimed
<1>14. QED
  BY <1>9, <1>10, <1>11, <1>12, <1>13 DEF LoginInv

\* A row is revoked or extended: whose it is does not change.
LEMMA RowStep ==
  ASSUME LoginInv, NEW k \in DOMAIN playerSessions, NEW row \in Row,
         row.challenge = playerSessions[k].challenge, row.user = playerSessions[k].user,
         playerSessions' = [playerSessions EXCEPT ![k] = row],
         clock' \in Int, UNCHANGED <<challenges, login, issued, gameplay>>
  PROVE  LoginInv'
<1>1. LoginTypes /\ OneSelects /\ OneOwns /\ RowsAreClaimed /\ Login!SingleUse /\ Login!KeysNameOwnLogin
  BY DEF LoginInv
<1>2. playerSessions \in [DOMAIN playerSessions -> Row]
  BY <1>1 DEF LoginTypes
<1>3. /\ DOMAIN playerSessions' = DOMAIN playerSessions
      /\ playerSessions' \in [DOMAIN playerSessions -> Row]
      /\ \A l \in DOMAIN playerSessions : /\ playerSessions'[l].challenge = playerSessions[l].challenge
                                          /\ playerSessions'[l].user = playerSessions[l].user
  BY <1>2
<1>4. \A s \in Servers : Login!stageOf(s)' = Login!stageOf(s)
  BY DEF Login!stageOf
<1>5. \A c : /\ hasRow(c)' <=> hasRow(c)
             /\ hasGameplay(c)' <=> hasGameplay(c)
             /\ unclaimed(c)' <=> unclaimed(c)
  BY <1>3 DEF hasRow, hasGameplay, unclaimed
<1>6. LoginTypes'
  BY <1>1, <1>3, <1>4 DEF LoginTypes
<1>7. OneSelects' /\ OneOwns'
  BY <1>1, <1>3, <1>4, <1>5 DEF OneSelects, OneOwns
<1>8. RowsAreClaimed'
  BY <1>1, <1>3, <1>5 DEF RowsAreClaimed
<1>9. Login!SingleUse' /\ Login!KeysNameOwnLogin'
  BY <1>1, <1>3 DEF Login!SingleUse, Login!KeysNameOwnLogin
<1>10. QED
  BY <1>6, <1>7, <1>8, <1>9 DEF LoginInv

\* The SELECT finds the row unclaimed and locks it, or gives up.
LEMMA SelectStep ==
  ASSUME LoginInv, NEW s \in Servers, Login!SelectChallenge(s)
  PROVE  LoginInv'
<1> DEFINE c == login[s].challenge
           selected == [login[s] EXCEPT !.stage = "selected"]
<1>1. LoginTypes /\ OneSelects /\ OneOwns /\ RowsAreClaimed /\ Login!SingleUse /\ Login!KeysNameOwnLogin
  BY DEF LoginInv
<1>2. /\ Login!stageOf(s) = "begun" /\ login[s] \in LoginState /\ c \in DOMAIN challenges
      /\ UNCHANGED <<clock, challenges, playerSessions, issued, gameplay>>
  BY <1>1, StageIsRecorded DEF Login!SelectChallenge, Stages
<1>3. CASE ~Login!claimable(c, login[s].now)
  <2>1. login' = [login EXCEPT ![s] = Idle]
    BY <1>3 DEF Login!SelectChallenge
  <2>2. QED
    BY <1>2, <2>1, LoginTaken
<1>4. CASE Login!claimable(c, login[s].now)
  <2>1. login' = [login EXCEPT ![s] = selected]
    BY <1>4 DEF Login!SelectChallenge
  <2>2. selected \in LoginState /\ selected.stage = "selected" /\ selected.challenge = c
    BY <1>2 DEF LoginState, Stages
  <2>3. /\ login'[s] = selected /\ Login!stageOf(s)' \in {"idle", "selected"}
        /\ \A t \in Servers \ {s} : login'[t] = login[t] /\ Login!stageOf(t)' = Login!stageOf(t)
    BY <1>1, <2>1, <2>2 DEF LoginTypes, Login!stageOf
  <2>4. unclaimed(c) /\ \A t \in Servers \ {s} : ~(Login!stageOf(t) = "selected" /\ login[t].challenge = c)
    BY <1>4 DEF Login!claimable, unclaimed, Login!SelectChallenge, Login!rowFree
  <2>5. \A d : /\ hasRow(d)' <=> hasRow(d)
               /\ hasGameplay(d)' <=> hasGameplay(d)
               /\ unclaimed(d)' <=> unclaimed(d)
    BY <1>2 DEF hasRow, hasGameplay, unclaimed
  <2>6. login' \in [Servers -> LoginState \cup {Idle}]
    BY <1>1, <2>1, <2>2 DEF LoginTypes
  <2> HIDE DEF selected
  <2>7. LoginTypes'
    BY <1>1, <1>2, <2>2, <2>3, <2>6 DEF LoginTypes
  <2>8. OneSelects'
    <3>1. ASSUME NEW t \in Servers, Login!stageOf(t)' = "selected"
          PROVE  /\ unclaimed(login[t].challenge)'
                 /\ \A r \in Servers : Login!stageOf(r)' = "selected" /\ login'[r].challenge = login'[t].challenge
                      => t = r
      BY <1>1, <2>2, <2>3, <2>4, <2>5, <3>1 DEF OneSelects
    <3>2. QED
      BY <3>1 DEF OneSelects
  <2>9. OneOwns'
    <3>1. \A t \in Servers : Login!stageOf(t)' \in {"claimed", "created"} =>
            login'[t] = login[t] /\ Login!stageOf(t)' = Login!stageOf(t)
      BY <2>3
    <3>2. QED
      BY <1>1, <1>2, <2>5, <3>1 DEF OneOwns
  <2>10. RowsAreClaimed'
    BY <1>1, <1>2, <2>5 DEF RowsAreClaimed
  <2>11. Login!SingleUse' /\ Login!KeysNameOwnLogin'
    BY <1>1, <1>2 DEF Login!SingleUse, Login!KeysNameOwnLogin
  <2>12. QED
    BY <2>7, <2>8, <2>9, <2>10, <2>11 DEF LoginInv
<1>5. QED
  BY <1>3, <1>4

\* The UPDATE and its commit: the server that has the row lock owns the
\* challenge from now on, and nobody has used it before.
LEMMA ClaimStep ==
  ASSUME LoginInv, NEW s \in Servers, Login!ClaimChallenge(s)
  PROVE  LoginInv'
<1> DEFINE c == login[s].challenge
           claimed == [login[s] EXCEPT !.stage = "claimed"]
           done == [challenges[c] EXCEPT !.claimed = TRUE]
<1>1. LoginTypes /\ OneSelects /\ OneOwns /\ RowsAreClaimed /\ Login!SingleUse /\ Login!KeysNameOwnLogin
  BY DEF LoginInv
<1>2. /\ Login!stageOf(s) = "selected" /\ login[s] \in LoginState /\ c \in DOMAIN challenges
      /\ UNCHANGED <<clock, playerSessions, issued, gameplay>>
      /\ login' = [login EXCEPT ![s] = claimed]
      /\ challenges' = [challenges EXCEPT ![c] = done]
  BY <1>1, StageIsRecorded DEF Login!ClaimChallenge, Stages
<1>3. claimed \in LoginState /\ claimed.stage = "claimed" /\ claimed.challenge = c
  BY <1>2 DEF LoginState, Stages
<1>4. /\ login'[s] = claimed /\ Login!stageOf(s)' \in {"idle", "claimed"}
      /\ \A t \in Servers \ {s} : login'[t] = login[t] /\ Login!stageOf(t)' = Login!stageOf(t)
  BY <1>1, <1>2, <1>3 DEF LoginTypes, Login!stageOf
<1>5. unclaimed(c) /\ \A t \in Servers : Login!stageOf(t) = "selected" /\ login[t].challenge = c => t = s
  BY <1>1, <1>2 DEF OneSelects
<1>6. ~hasRow(c) /\ ~hasGameplay(c)
  <2>1. ~hasRow(c)
    BY <1>1, <1>5 DEF hasRow, RowsAreClaimed
  <2>2. hasGameplay(c) => ~unclaimed(c)
    <3> HIDE DEF c
    <3>1. QED
      BY GameplayIsClaimed
  <2>3. QED
    BY <1>5, <2>1, <2>2
<1>7. \A t \in Servers : Login!stageOf(t) \in {"claimed", "created"} => login[t].challenge # c
  BY <1>1, <1>5 DEF OneOwns
<1>8. challenges \in Seq(Challenge) /\ challenges[c] \in Challenge
  <2>1. challenges \in Seq(Challenge)
    BY <1>1 DEF LoginTypes
  <2> HIDE DEF c
  <2>2. QED
    BY <1>2, <2>1, ElementOfSeq, LenProperties
<1>9. done \in Challenge /\ done.claimed = TRUE /\ done.user = challenges[c].user
  BY <1>8 DEF Challenge
<1>10. challenges' \in Seq(Challenge)
  <2> HIDE DEF c, done
  <2>1. c \in 1..Len(challenges)
    BY <1>2, <1>8, LenProperties
  <2>2. QED
    BY <1>2, <1>8, <1>9, <2>1, ExceptSeq
<1>11. /\ DOMAIN challenges' = DOMAIN challenges
       /\ challenges'[c] = done
       /\ \A d \in DOMAIN challenges \ {c} : challenges'[d] = challenges[d]
       /\ \A d \in DOMAIN challenges : challenges'[d].user = challenges[d].user
  <2> HIDE DEF c, done
  <2>1. QED
    BY <1>2, <1>9
<1>12. \A t \in Servers : Login!stageOf(t) \in Stages => login[t].challenge \in DOMAIN challenges
  BY <1>1 DEF LoginTypes
<1>13. login' \in [Servers -> LoginState \cup {Idle}]
  BY <1>1, <1>2, <1>3 DEF LoginTypes
<1> HIDE DEF claimed, done
<1>14. LoginTypes'
  <2>1. ASSUME NEW t \in Servers, Login!stageOf(t)' \in Stages
        PROVE  login'[t].challenge \in DOMAIN challenges'
    BY <1>2, <1>3, <1>4, <1>11, <1>12, <2>1
  <2>2. QED
    BY <1>1, <1>2, <1>10, <1>13, <2>1 DEF LoginTypes
<1>15. OneSelects'
  <2>1. ASSUME NEW t \in Servers, Login!stageOf(t)' = "selected"
        PROVE  t # s /\ login'[t] = login[t] /\ Login!stageOf(t) = "selected"
               /\ login[t].challenge # c /\ login[t].challenge \in DOMAIN challenges
    BY <1>4, <1>5, <1>12, <2>1 DEF Stages
  <2>2. ASSUME NEW t \in Servers, Login!stageOf(t)' = "selected"
        PROVE  unclaimed(login[t].challenge)'
    <3>1. unclaimed(login[t].challenge)
      BY <1>1, <2>1, <2>2 DEF OneSelects
    <3>2. ~challenges'[login[t].challenge].claimed
      BY <1>11, <2>1, <2>2, <3>1 DEF unclaimed
    <3>3. QED
      BY <2>1, <2>2, <3>2 DEF unclaimed
  <2>3. QED
    BY <1>1, <2>1, <2>2 DEF OneSelects
<1>16. OneOwns'
  <2>1. ASSUME NEW t \in Servers, Login!stageOf(t)' \in {"claimed", "created"}
        PROVE  \/ t = s /\ login'[t].challenge = c /\ Login!stageOf(t)' = "claimed"
               \/ /\ t # s /\ login'[t] = login[t] /\ Login!stageOf(t)' = Login!stageOf(t)
                  /\ login[t].challenge # c /\ login[t].challenge \in DOMAIN challenges
    BY <1>3, <1>4, <1>7, <1>12, <2>1 DEF Stages
  <2>2. ASSUME NEW t \in Servers, Login!stageOf(t)' \in {"claimed", "created"}
        PROVE  ~unclaimed(login[t].challenge)' /\ ~hasGameplay(login[t].challenge)'
    <3>1. CASE t = s
      <4>1. login'[t].challenge = c
        BY <2>1, <2>2, <3>1
      <4>2. challenges'[login'[t].challenge].claimed
        BY <1>9, <1>11, <4>1
      <4>3. ~hasGameplay(login[t].challenge)'
        BY <1>2, <1>6, <4>1 DEF hasGameplay
      <4>4. QED
        BY <4>2, <4>3 DEF unclaimed
    <3>2. CASE t # s
      <4>1. ~unclaimed(login[t].challenge) /\ ~hasGameplay(login[t].challenge)
        BY <1>1, <2>1, <2>2, <3>2 DEF OneOwns
      <4>2. challenges'[login'[t].challenge].claimed
        BY <1>11, <2>1, <2>2, <3>2, <4>1 DEF unclaimed
      <4>3. ~hasGameplay(login[t].challenge)'
        BY <1>2, <2>1, <2>2, <3>2, <4>1 DEF hasGameplay
      <4>4. QED
        BY <4>2, <4>3 DEF unclaimed
    <3>3. QED
      BY <3>1, <3>2
  <2>3. ASSUME NEW t \in Servers, Login!stageOf(t)' \in {"claimed", "created"},
               NEW r \in Servers, Login!stageOf(r)' \in {"claimed", "created"},
               login'[r].challenge = login'[t].challenge
        PROVE  t = r
    <3>1. \/ r = s /\ login'[r].challenge = c /\ Login!stageOf(r)' = "claimed"
          \/ /\ r # s /\ login'[r] = login[r] /\ Login!stageOf(r)' = Login!stageOf(r)
             /\ login[r].challenge # c /\ login[r].challenge \in DOMAIN challenges
      BY <2>1, <2>3
    <3>2. \/ t = s /\ login'[t].challenge = c /\ Login!stageOf(t)' = "claimed"
          \/ /\ t # s /\ login'[t] = login[t] /\ Login!stageOf(t)' = Login!stageOf(t)
             /\ login[t].challenge # c /\ login[t].challenge \in DOMAIN challenges
      BY <2>1, <2>3
    <3>3. QED
      BY <1>1, <2>3, <3>1, <3>2 DEF OneOwns
  <2>4. ASSUME NEW t \in Servers, Login!stageOf(t)' = "claimed"
        PROVE  ~hasRow(login[t].challenge)'
    <3>1. ~hasRow(login'[t].challenge)
      BY <1>1, <1>6, <2>1, <2>4 DEF OneOwns
    <3>2. QED
      BY <1>2, <3>1 DEF hasRow
  <2>5. ASSUME NEW t \in Servers, Login!stageOf(t)' = "created"
        PROVE  /\ issued'[t] \in DOMAIN playerSessions'
               /\ playerSessions'[issued'[t]].challenge = login'[t].challenge
    BY <1>1, <1>2, <2>1, <2>5 DEF OneOwns
  <2>6. QED
    BY <2>2, <2>3, <2>4, <2>5 DEF OneOwns
<1>17. RowsAreClaimed'
  <2>1. ASSUME NEW k \in DOMAIN playerSessions
        PROVE  /\ playerSessions[k].challenge \in DOMAIN challenges
               /\ playerSessions[k].challenge # c
               /\ challenges[playerSessions[k].challenge].claimed
    BY <1>1, <1>6 DEF RowsAreClaimed, hasRow, unclaimed
  <2>2. QED
    BY <1>2, <1>11, <2>1 DEF RowsAreClaimed, unclaimed
<1>18. Login!SingleUse' /\ Login!KeysNameOwnLogin'
  BY <1>1, <1>2, <1>11 DEF Login!SingleUse, Login!KeysNameOwnLogin, RowsAreClaimed
<1>19. QED
  BY <1>14, <1>15, <1>16, <1>17, <1>18 DEF LoginInv

\* create(): the first row of the challenge, under a key that is not in use.
LEMMA CreateStep ==
  ASSUME TtlsAreNumbers, LoginInv, NEW s \in Servers, Login!CreateSession(s)
  PROVE  LoginInv'
<1> DEFINE c == login[s].challenge
           key == issued[s] + 1
           created == [login[s] EXCEPT !.stage = "created"]
           row == [challenge |-> c, user |-> challenges[c].user,
                   expires |-> login[s].now + SessionTtl, revoked |-> FALSE]
<1>1. LoginTypes /\ OneSelects /\ OneOwns /\ RowsAreClaimed /\ Login!SingleUse /\ Login!KeysNameOwnLogin
  BY DEF LoginInv
<1>2. /\ Login!stageOf(s) = "claimed" /\ login[s] \in LoginState /\ c \in DOMAIN challenges
      /\ c \in Nat /\ login[s].now \in Int
      /\ UNCHANGED <<clock, challenges, gameplay>>
      /\ login' = [login EXCEPT ![s] = created]
      /\ issued' = [issued EXCEPT ![s] = key]
      /\ key \notin DOMAIN playerSessions
  BY <1>1, StageIsRecorded DEF Login!CreateSession, Stages, LoginState, Login!storable
<1>3. playerSessions' = [k \in DOMAIN playerSessions \cup {key} |-> IF k = key THEN row ELSE playerSessions[k]]
  BY DEF Login!CreateSession
<1>4. created \in LoginState /\ created.stage = "created" /\ created.challenge = c
  BY <1>2 DEF LoginState, Stages
<1>5. key \in Nat /\ issued'[s] = key
  BY <1>1, <1>2 DEF LoginTypes
<1>6. /\ login'[s] = created /\ Login!stageOf(s)' \in {"idle", "created"}
      /\ \A t \in Servers \ {s} : login'[t] = login[t] /\ Login!stageOf(t)' = Login!stageOf(t) /\ issued'[t] = issued[t]
  BY <1>1, <1>2, <1>4 DEF LoginTypes, Login!stageOf
<1>7. challenges \in Seq(Challenge) /\ challenges[c] \in Challenge
  <2>1. challenges \in Seq(Challenge)
    BY <1>1 DEF LoginTypes
  <2> HIDE DEF c
  <2>2. QED
    BY <1>2, <2>1, ElementOfSeq, LenProperties
<1>8. row \in Row /\ row.challenge = c /\ row.user = challenges[c].user
  BY <1>2, <1>7 DEF Row, Challenge, TtlsAreNumbers
<1>9. playerSessions \in [DOMAIN playerSessions -> Row]
  BY <1>1 DEF LoginTypes
<1>10. login' \in [Servers -> LoginState \cup {Idle}] /\ issued' \in [Servers -> Nat]
  BY <1>1, <1>2, <1>4, <1>5 DEF LoginTypes
<1>11. \A t \in Servers : Login!stageOf(t) \in Stages => login[t].challenge \in DOMAIN challenges
  BY <1>1 DEF LoginTypes
<1>12. /\ challenges[c].claimed /\ ~hasRow(c) /\ ~hasGameplay(c)
       /\ \A t \in Servers \ {s} : Login!stageOf(t) \in {"claimed", "created"} => login[t].challenge # c
  BY <1>1, <1>2 DEF OneOwns, unclaimed
<1> HIDE DEF created, row, c, key
<1>13. /\ DOMAIN playerSessions' = DOMAIN playerSessions \cup {key}
       /\ playerSessions'[key] = row
       /\ \A k \in DOMAIN playerSessions : k # key /\ playerSessions'[k] = playerSessions[k]
  BY <1>2, <1>3
<1>14. LoginTypes'
  <2>1. playerSessions' \in [DOMAIN playerSessions' -> Row]
    BY <1>3, <1>8, <1>9, <1>13
  <2>2. ASSUME NEW t \in Servers, Login!stageOf(t)' \in Stages
        PROVE  login'[t].challenge \in DOMAIN challenges'
    BY <1>2, <1>4, <1>6, <1>11, <2>2
  <2>3. QED
    BY <1>1, <1>2, <1>10, <2>1, <2>2 DEF LoginTypes
<1>15. OneSelects'
  <2>1. ASSUME NEW t \in Servers, Login!stageOf(t)' = "selected"
        PROVE  t # s /\ login'[t] = login[t] /\ Login!stageOf(t) = "selected"
    BY <1>6, <2>1
  <2>2. QED
    BY <1>1, <1>2, <2>1 DEF OneSelects, unclaimed
<1>16. OneOwns'
  <2>1. ASSUME NEW t \in Servers, Login!stageOf(t)' \in {"claimed", "created"}
        PROVE  \/ t = s /\ login'[t].challenge = c /\ Login!stageOf(t)' = "created"
               \/ /\ t # s /\ login'[t] = login[t] /\ Login!stageOf(t)' = Login!stageOf(t)
                  /\ issued'[t] = issued[t] /\ login[t].challenge # c
    BY <1>4, <1>6, <1>12, <2>1
  <2>2. ASSUME NEW t \in Servers, Login!stageOf(t)' \in {"claimed", "created"}
        PROVE  ~unclaimed(login[t].challenge)' /\ ~hasGameplay(login[t].challenge)'
    <3>1. challenges[login'[t].challenge].claimed /\ ~hasGameplay(login'[t].challenge)
      <4>1. CASE t = s
        BY <1>12, <2>1, <2>2, <4>1
      <4>2. CASE t # s
        BY <1>1, <2>1, <2>2, <4>2 DEF OneOwns, unclaimed
      <4>3. QED
        BY <4>1, <4>2
    <3>2. QED
      BY <1>2, <3>1 DEF unclaimed, hasGameplay
  <2>3. ASSUME NEW t \in Servers, Login!stageOf(t)' \in {"claimed", "created"},
               NEW r \in Servers, Login!stageOf(r)' \in {"claimed", "created"},
               login'[r].challenge = login'[t].challenge
        PROVE  t = r
    <3>1. CASE t # s /\ r # s
      BY <1>1, <2>1, <2>3, <3>1 DEF OneOwns
    <3>2. QED
      BY <2>1, <2>3, <3>1
  <2>4. ASSUME NEW t \in Servers, Login!stageOf(t)' = "claimed"
        PROVE  ~hasRow(login[t].challenge)'
    <3>1. login'[t] = login[t] /\ Login!stageOf(t) = "claimed" /\ login[t].challenge # c
      BY <2>1, <2>4
    <3>2. ~hasRow(login[t].challenge)
      BY <1>1, <3>1 DEF OneOwns
    <3>3. QED
      BY <1>8, <1>13, <3>1, <3>2 DEF hasRow
  <2>5. ASSUME NEW t \in Servers, Login!stageOf(t)' = "created"
        PROVE  /\ issued'[t] \in DOMAIN playerSessions'
               /\ playerSessions'[issued'[t]].challenge = login'[t].challenge
    <3>1. CASE t = s
      BY <1>5, <1>8, <1>13, <2>1, <2>5, <3>1
    <3>2. CASE t # s
      BY <1>1, <1>13, <2>1, <2>5, <3>2 DEF OneOwns
    <3>3. QED
      BY <3>1, <3>2
  <2>6. QED
    BY <2>2, <2>3, <2>4, <2>5 DEF OneOwns
<1>17. RowsAreClaimed'
  <2>1. ASSUME NEW k \in DOMAIN playerSessions'
        PROVE  /\ playerSessions'[k].challenge \in DOMAIN challenges
               /\ challenges[playerSessions'[k].challenge].claimed
    BY <1>1, <1>2, <1>8, <1>12, <1>13, <2>1 DEF RowsAreClaimed, unclaimed
  <2>2. QED
    BY <1>2, <2>1 DEF RowsAreClaimed, unclaimed
<1>18. Login!SingleUse'
  <2>1. ASSUME NEW k \in DOMAIN playerSessions', NEW l \in DOMAIN playerSessions',
               playerSessions'[k].challenge = playerSessions'[l].challenge
        PROVE  k = l
    BY <1>1, <1>8, <1>12, <1>13, <2>1 DEF Login!SingleUse, hasRow
  <2>2. ASSUME NEW k \in DOMAIN playerSessions'
        PROVE  playerSessions'[k].user = challenges'[playerSessions'[k].challenge].user
    BY <1>1, <1>2, <1>8, <1>13, <2>2 DEF Login!SingleUse
  <2>3. QED
    BY <1>1, <1>2, <2>1, <2>2 DEF Login!SingleUse
<1>19. Login!KeysNameOwnLogin'
  BY <1>1, <1>2, <1>13 DEF Login!KeysNameOwnLogin
<1>20. QED
  BY <1>14, <1>15, <1>16, <1>17, <1>18, <1>19 DEF LoginInv

\* openAuthenticated: the first gameplay session of the challenge, with the
\* key of its row.
LEMMA OpenStep ==
  ASSUME LoginInv, NEW s \in Servers, Login!OpenGameplay(s)
  PROVE  LoginInv'
<1> DEFINE c == login[s].challenge
           new == [challenge |-> c, user |-> challenges[c].user, key |-> issued[s]]
<1>1. LoginTypes /\ OneSelects /\ OneOwns /\ RowsAreClaimed /\ Login!SingleUse /\ Login!KeysNameOwnLogin
  BY DEF LoginInv
<1>2. /\ Login!stageOf(s) = "created" /\ c \in DOMAIN challenges /\ c \in Nat
      /\ UNCHANGED <<clock, challenges, playerSessions, issued>>
      /\ login' = [login EXCEPT ![s] = Idle]
      /\ gameplay' = [gameplay EXCEPT ![s] = Append(gameplay[s], new)]
  BY <1>1, StageIsRecorded DEF Login!OpenGameplay, Stages, LoginState
<1>3. /\ ~hasGameplay(c)
      /\ issued[s] \in DOMAIN playerSessions /\ playerSessions[issued[s]].challenge = c
      /\ \A t \in Servers \ {s} : Login!stageOf(t) \in {"claimed", "created"} => login[t].challenge # c
  BY <1>1, <1>2 DEF OneOwns
<1>4. challenges[c] \in Challenge
  <2>1. challenges \in Seq(Challenge)
    BY <1>1 DEF LoginTypes
  <2> HIDE DEF c
  <2>2. QED
    BY <1>2, <2>1, ElementOfSeq, LenProperties
<1>5. new \in Gameplay /\ new.challenge = c /\ new.key = issued[s]
  BY <1>1, <1>2, <1>4 DEF Gameplay, Challenge, LoginTypes
<1>6. gameplay[s] \in Seq(Gameplay) /\ gameplay \in [Servers -> Seq(Gameplay)]
  BY <1>1 DEF LoginTypes
<1> HIDE DEF new, c
<1>7. /\ Append(gameplay[s], new) \in Seq(Gameplay)
      /\ Len(Append(gameplay[s], new)) = Len(gameplay[s]) + 1
      /\ \A i \in 1..Len(gameplay[s]) : Append(gameplay[s], new)[i] = gameplay[s][i]
      /\ Append(gameplay[s], new)[Len(gameplay[s]) + 1] = new
  BY <1>5, <1>6, AppendProperties
<1>8. /\ gameplay'[s] = Append(gameplay[s], new)
      /\ gameplay' \in [Servers -> Seq(Gameplay)]
      /\ \A t \in Servers \ {s} : gameplay'[t] = gameplay[t]
  BY <1>2, <1>6, <1>7
<1>9. /\ Len(gameplay[s]) \in Nat /\ DOMAIN gameplay[s] = 1..Len(gameplay[s])
      /\ DOMAIN gameplay'[s] = 1..(Len(gameplay[s]) + 1)
  BY <1>6, <1>7, <1>8, LenProperties
<1>10. \A t \in Servers : \A i \in DOMAIN gameplay'[t] :
         \/ i \in DOMAIN gameplay[t] /\ gameplay'[t][i] = gameplay[t][i]
         \/ t = s /\ i = Len(gameplay[s]) + 1 /\ gameplay'[t][i] = new
  BY <1>7, <1>8, <1>9
<1>11. /\ Login!stageOf(s)' = "idle"
       /\ \A t \in Servers \ {s} : login'[t] = login[t] /\ Login!stageOf(t)' = Login!stageOf(t)
  BY <1>1, <1>2 DEF LoginTypes, Login!stageOf
<1>12. LoginTypes'
  <2>1. login' \in [Servers -> LoginState \cup {Idle}]
    BY <1>1, <1>2 DEF LoginTypes
  <2>2. ASSUME NEW t \in Servers, Login!stageOf(t)' \in Stages
        PROVE  login'[t].challenge \in DOMAIN challenges'
    <3>1. t # s
      BY <1>11, <2>2 DEF Stages
    <3>2. QED
      BY <1>1, <1>2, <1>11, <2>2, <3>1 DEF LoginTypes
  <2>3. QED
    BY <1>1, <1>2, <1>8, <2>1, <2>2 DEF LoginTypes
<1>13. OneSelects'
  <2>1. ASSUME NEW t \in Servers, Login!stageOf(t)' = "selected"
        PROVE  login'[t] = login[t] /\ Login!stageOf(t) = "selected"
    BY <1>11, <2>1
  <2>2. QED
    BY <1>1, <1>2, <2>1 DEF OneSelects, unclaimed
<1>14. OneOwns'
  <2>1. ASSUME NEW t \in Servers, Login!stageOf(t)' \in {"claimed", "created"}
        PROVE  t # s /\ login'[t] = login[t] /\ Login!stageOf(t)' = Login!stageOf(t) /\ login[t].challenge # c
    BY <1>3, <1>11, <2>1
  <2>2. ASSUME NEW t \in Servers, Login!stageOf(t)' \in {"claimed", "created"}
        PROVE  ~unclaimed(login[t].challenge)' /\ ~hasGameplay(login[t].challenge)'
    <3>1. ~unclaimed(login[t].challenge) /\ ~hasGameplay(login[t].challenge)
      BY <1>1, <2>1, <2>2 DEF OneOwns
    <3>2. login'[t] = login[t] /\ login[t].challenge # c
      BY <2>1, <2>2
    <3>3. ~hasGameplay(login[t].challenge)'
      BY <1>5, <1>10, <3>1, <3>2 DEF hasGameplay
    <3>4. QED
      BY <1>2, <3>1, <3>2, <3>3 DEF unclaimed
  <2>3. ASSUME NEW t \in Servers, Login!stageOf(t)' \in {"claimed", "created"},
               NEW r \in Servers, Login!stageOf(r)' \in {"claimed", "created"},
               login'[r].challenge = login'[t].challenge
        PROVE  t = r
    BY <1>1, <2>1, <2>3 DEF OneOwns
  <2>4. ASSUME NEW t \in Servers, Login!stageOf(t)' = "claimed"
        PROVE  ~hasRow(login[t].challenge)'
    BY <1>1, <1>2, <2>1, <2>4 DEF OneOwns, hasRow
  <2>5. ASSUME NEW t \in Servers, Login!stageOf(t)' = "created"
        PROVE  /\ issued'[t] \in DOMAIN playerSessions'
               /\ playerSessions'[issued'[t]].challenge = login'[t].challenge
    BY <1>1, <1>2, <2>1, <2>5 DEF OneOwns
  <2>6. QED
    BY <2>2, <2>3, <2>4, <2>5 DEF OneOwns
<1>15. RowsAreClaimed'
  BY <1>1, <1>2 DEF RowsAreClaimed, unclaimed
<1>16. Login!SingleUse'
  <2>1. ASSUME NEW t \in Servers, NEW r \in Servers,
               NEW i \in DOMAIN gameplay'[t], NEW j \in DOMAIN gameplay'[r],
               gameplay'[t][i].challenge = gameplay'[r][j].challenge
        PROVE  t = r /\ i = j
    <3>1. CASE i \in DOMAIN gameplay[t] /\ gameplay'[t][i] = gameplay[t][i]
               /\ j \in DOMAIN gameplay[r] /\ gameplay'[r][j] = gameplay[r][j]
      BY <1>1, <2>1, <3>1 DEF Login!SingleUse
    <3>2. QED
      BY <1>3, <1>5, <1>10, <2>1, <3>1 DEF hasGameplay
  <2>2. QED
    BY <1>1, <1>2, <2>1 DEF Login!SingleUse
<1>17. Login!KeysNameOwnLogin'
  <2>1. ASSUME NEW t \in Servers, NEW i \in DOMAIN gameplay'[t]
        PROVE  /\ gameplay'[t][i].key \in DOMAIN playerSessions
               /\ playerSessions[gameplay'[t][i].key].challenge = gameplay'[t][i].challenge
    BY <1>1, <1>3, <1>5, <1>10, <2>1 DEF Login!KeysNameOwnLogin
  <2>2. QED
    BY <1>2, <2>1 DEF Login!KeysNameOwnLogin
<1>18. QED
  BY <1>12, <1>13, <1>14, <1>15, <1>16, <1>17 DEF LoginInv

-----------------------------------------------------------------------------
(* The specification *)

LEMMA LoginInvStep ==
  ASSUME TtlsAreNumbers, LoginInv, [Login!Next]_(Login!loginVars)
  PROVE  LoginInv'
<1>1. LoginTypes /\ OneSelects /\ OneOwns /\ RowsAreClaimed /\ Login!SingleUse /\ Login!KeysNameOwnLogin
  BY DEF LoginInv
<1>2. ASSUME NEW u \in Users, Login!IssueChallenge(u)
      PROVE  LoginInv'
  BY <1>2, IssueStep
<1>3. ASSUME NEW k \in DOMAIN playerSessions, Login!Logout(k)
      PROVE  LoginInv'
  <2> DEFINE row == [playerSessions[k] EXCEPT !.revoked = TRUE]
  <2>1. playerSessions[k] \in Row /\ clock \in Int
    BY <1>1 DEF LoginTypes
  <2>2. row \in Row /\ row.challenge = playerSessions[k].challenge /\ row.user = playerSessions[k].user
    BY <2>1 DEF Row
  <2>3. playerSessions' = [playerSessions EXCEPT ![k] = row] /\ UNCHANGED <<clock, challenges, login, issued, gameplay>>
    BY <1>3 DEF Login!Logout
  <2> HIDE DEF row
  <2>4. QED
    BY <2>1, <2>2, <2>3, RowStep
<1>4. ASSUME NEW k \in DOMAIN playerSessions, NEW now \in 0..clock, Login!KeepAlive(k, now)
      PROVE  LoginInv'
  <2> DEFINE row == [playerSessions[k] EXCEPT !.expires = now + SessionTtl]
  <2>1. playerSessions[k] \in Row /\ clock \in Int /\ now \in Int
    BY <1>1 DEF LoginTypes
  <2>2. row \in Row /\ row.challenge = playerSessions[k].challenge /\ row.user = playerSessions[k].user
    BY <2>1 DEF Row, TtlsAreNumbers
  <2>3. playerSessions' = [playerSessions EXCEPT ![k] = row] /\ UNCHANGED <<clock, challenges, login, issued, gameplay>>
    BY <1>4 DEF Login!KeepAlive
  <2> HIDE DEF row
  <2>4. QED
    BY <2>1, <2>2, <2>3, RowStep
<1>5. ASSUME NEW s \in Servers, NEW c \in DOMAIN challenges, Login!BeginLogin(s, c)
      PROVE  LoginInv'
  <2> DEFINE state == [stage |-> "begun", challenge |-> c, now |-> clock]
  <2>1. c \in Nat
    <3>1. challenges \in Seq(Challenge)
      BY <1>1 DEF LoginTypes
    <3>2. QED
      BY <3>1, LenProperties
  <2>2. state \in LoginState /\ state.stage = "begun" /\ state.challenge = c
    BY <1>1, <2>1 DEF LoginState, Stages, LoginTypes
  <2>3. login' = [login EXCEPT ![s] = state] /\ UNCHANGED <<clock, challenges, playerSessions, issued, gameplay>>
    BY <1>5 DEF Login!BeginLogin
  <2> HIDE DEF state
  <2>4. QED
    BY <1>5, <2>2, <2>3, LoginTaken
<1>6. ASSUME NEW s \in Servers, Login!CreateRaises(s) \/ Login!Crash(s)
      PROVE  LoginInv'
  <2>1. Login!restarted(s) /\ UNCHANGED <<clock, challenges, playerSessions>>
    BY <1>6 DEF Login!CreateRaises, Login!Crash
  <2>2. QED
    BY <2>1, LoginTaken DEF Login!restarted
<1>7. ASSUME NEW s \in Servers, Login!SelectChallenge(s) \/ Login!ClaimChallenge(s) \/ Login!CreateSession(s) \/ Login!OpenGameplay(s)
      PROVE  LoginInv'
  BY <1>7, SelectStep, ClaimStep, CreateStep, OpenStep
<1>8. ASSUME clock' \in Int, UNCHANGED <<challenges, playerSessions, login, issued, gameplay>>
      PROVE  LoginInv'
  <2>1. \A s \in Servers : Login!stageOf(s)' = Login!stageOf(s)
    BY <1>8 DEF Login!stageOf
  <2>2. LoginTypes'
    BY <1>1, <1>8, <2>1 DEF LoginTypes
  <2>3. OneSelects' /\ OneOwns'
    BY <1>1, <1>8, <2>1 DEF OneSelects, OneOwns, unclaimed, hasRow, hasGameplay
  <2>4. RowsAreClaimed' /\ Login!SingleUse' /\ Login!KeysNameOwnLogin'
    BY <1>1, <1>8 DEF RowsAreClaimed, unclaimed, Login!SingleUse, Login!KeysNameOwnLogin
  <2>5. QED
    BY <2>2, <2>3, <2>4 DEF LoginInv
<1>9. CASE Login!SecondPasses \/ UNCHANGED Login!loginVars
  <2>1. clock' \in Int /\ UNCHANGED <<challenges, playerSessions, login, issued, gameplay>>
    BY <1>1, <1>9 DEF Login!SecondPasses, Login!loginVars, LoginTypes
  <2>2. QED
    BY <1>8, <2>1
<1>10. QED
  BY <1>2, <1>3, <1>4, <1>5, <1>6, <1>7, <1>9 DEF Login!Next

\* LoginInv is inductive.
LEMMA LoginInvHolds == Login!Spec => []LoginInv
<1>1. ASSUME Login!Init
      PROVE  LoginInv
  <2>1. \A s \in Servers : Login!stageOf(s) = "idle"
    BY <1>1 DEF Login!Init, Login!stageOf
  <2>2. LoginTypes
    <3>1. <<>> \in Seq(Challenge) /\ <<>> \in Seq(Gameplay)
      BY EmptySeq
    <3>2. challenges \in Seq(Challenge) /\ gameplay \in [Servers -> Seq(Gameplay)]
      BY <1>1, <3>1 DEF Login!Init
    <3>3. QED
      BY <1>1, <2>1, <3>2 DEF Login!Init, LoginTypes, Stages
  <2>3. OneSelects /\ OneOwns
    BY <2>1 DEF OneSelects, OneOwns
  <2>4. DOMAIN playerSessions = {}
    BY <1>1 DEF Login!Init
  <2>5. \A s \in Servers : DOMAIN gameplay[s] = {}
    <3>1. DOMAIN <<>> = {}
      OBVIOUS
    <3>2. QED
      BY <1>1, <3>1 DEF Login!Init
  <2>6. QED
    BY <2>2, <2>3, <2>4, <2>5 DEF LoginInv, RowsAreClaimed, Login!SingleUse,
       Login!KeysNameOwnLogin
<1>2. LoginInv /\ [Login!Next]_(Login!loginVars) => LoginInv'
  BY LoginInvStep, LoginConstants
<1>3. QED
  BY <1>1, <1>2, PTL DEF Login!Spec

\* A behaviour of WorldParts is one of ChallengeLogin.
LEMMA PartsAreLogins == Spec => Login!Spec
<1>1. Init => Login!Init
  BY DEF Init
<1>2. [Next]_partsVars => [Login!Next]_(Login!loginVars)
  BY DEF Next, IntakeStep, LoginStep, NpcStep, TextStep, PredictionStep, partsVars, loginVars,
         Login!loginVars
<1>3. QED
  BY <1>1, <1>2, PTL DEF Spec, Login!Spec

\* For any number of servers, crashes and times to live, a challenge leads to
\* one row of player_sessions and to one gameplay session, both of its user.
THEOREM ChallengesAreUsedOnce == Spec => []SingleUse
<1>1. LoginInv => SingleUse
  BY DEF LoginInv, SingleUse
<1>2. QED
  BY <1>1, LoginInvHolds, PartsAreLogins, PTL

\* The key of every gameplay session names the row of its own login, although
\* all processes issue the same keys and begin again after a crash.
THEOREM KeysNameTheirLogin == Spec => []KeysNameOwnLogin
<1>1. LoginInv => KeysNameOwnLogin
  BY DEF LoginInv, KeysNameOwnLogin
<1>2. QED
  BY <1>1, LoginInvHolds, PartsAreLogins, PTL

\* No step of any server, and no passing of time, makes a session valid again
\* that was revoked, or gives one that has run out a whole lifetime from there.
THEOREM EndedSessionsStayEnded == Spec => EndedStaysEnded
<1> DEFINE Stays == \A k \in DOMAIN playerSessions :
             LET row == playerSessions[k]
                 next == playerSessions'[k]
             IN (row.revoked \/ row.expires <= clock) /\ next.challenge = row.challenge =>
                  \/ next.revoked \/ next.expires <= clock'
                  \/ ~row.revoked /\ next.expires < row.expires + SessionTtl
           bounded(row, next) == \/ next.revoked \/ next.expires <= clock'
                                 \/ ~row.revoked /\ next.expires < row.expires + SessionTtl
<1>1. ASSUME LoginInv, [Login!Next]_(Login!loginVars)
      PROVE  Stays
  <2> SUFFICES ASSUME NEW k \in DOMAIN playerSessions,
                      playerSessions[k].revoked \/ playerSessions[k].expires <= clock
               PROVE  bounded(playerSessions[k], playerSessions'[k])
    OBVIOUS
  <2>1. /\ clock \in Int
        /\ playerSessions \in [DOMAIN playerSessions -> Row]
        /\ playerSessions[k].expires \in Int
        /\ playerSessions[k].revoked \in BOOLEAN
    BY <1>1 DEF LoginInv, LoginTypes, Row
  <2>2. CASE playerSessions'[k] = playerSessions[k] /\ clock' >= clock /\ clock' \in Int
    BY <2>1, <2>2
  <2>3. ASSUME NEW l \in DOMAIN playerSessions, Login!Logout(l)
        PROVE  bounded(playerSessions[k], playerSessions'[k])
    BY <2>1, <2>3 DEF Login!Logout, Row
  <2>4. ASSUME NEW l \in DOMAIN playerSessions, NEW now \in 0..clock, Login!KeepAlive(l, now)
        PROVE  bounded(playerSessions[k], playerSessions'[k])
    <3>1. CASE l = k
      <4>1. /\ ~playerSessions[k].revoked /\ playerSessions[k].expires > now
            /\ playerSessions'[k].expires = now + SessionTtl
        BY <2>1, <2>4, <3>1 DEF Login!KeepAlive, Login!active, Row
      <4>2. now \in Int /\ SessionTtl \in Int
        BY <2>1, LoginConstants DEF TtlsAreNumbers
      <4>3. QED
        BY <2>1, <4>1, <4>2
    <3>2. CASE l # k
      <4>1. playerSessions'[k] = playerSessions[k] /\ clock' = clock
        BY <2>1, <2>4, <3>2 DEF Login!KeepAlive
      <4>2. QED
        BY <2>1, <2>2, <4>1
    <3>3. QED
      BY <3>1, <3>2
  <2>5. ASSUME NEW s \in Servers, Login!CreateSession(s)
        PROVE  bounded(playerSessions[k], playerSessions'[k])
    <3>1. playerSessions'[k] = playerSessions[k] /\ clock' = clock
      BY <2>5 DEF Login!CreateSession, Login!storable
    <3>2. QED
      BY <2>1, <2>2, <3>1
  <2>6. CASE playerSessions' = playerSessions /\ (Login!SecondPasses \/ UNCHANGED clock)
    <3>1. playerSessions'[k] = playerSessions[k] /\ clock' >= clock /\ clock' \in Int
      BY <2>1, <2>6 DEF Login!SecondPasses
    <3>2. QED
      BY <2>2, <3>1
  <2>7. QED
    BY <1>1, <2>3, <2>4, <2>5, <2>6
    DEF Login!Next, Login!loginVars, Login!IssueChallenge, Login!BeginLogin,
        Login!SelectChallenge, Login!ClaimChallenge,
        Login!CreateRaises, Login!OpenGameplay, Login!Crash, Login!SecondPasses
<1>2. LoginInv /\ [Login!Next]_(Login!loginVars) => [Stays]_(Login!loginVars)
  BY <1>1
<1>3. QED
  BY <1>2, LoginInvHolds, PartsAreLogins, PTL
  DEF Login!Spec, EndedStaysEnded, Login!EndedStaysEnded

-----------------------------------------------------------------------------
(* NPCs *)

LEMMA SameNpcs == Npc!Next => NpcProofs!Next
  BY DEF Npc!Next, NpcProofs!Next,
         Npc!Coordinates, NpcProofs!Coordinates, Npc!alive, NpcProofs!alive, Npc!SetNpc,
         NpcProofs!SetNpc, Npc!withoutRespawn, NpcProofs!withoutRespawn, Npc!UnsetNpc,
         NpcProofs!UnsetNpc, Npc!DamageNpc, NpcProofs!DamageNpc, Npc!ScheduleNpcRespawn,
         NpcProofs!ScheduleNpcRespawn, Npc!PlayerLeaves, NpcProofs!PlayerLeaves,
         Npc!PlayerEnters, NpcProofs!PlayerEnters, Npc!EnqueueIntent,
         NpcProofs!EnqueueIntent, Npc!plan, NpcProofs!plan, Npc!EnqueueDecision,
         NpcProofs!EnqueueDecision, Npc!SubmitAction, NpcProofs!SubmitAction, Npc!present,
         NpcProofs!present, Npc!moves, NpcProofs!moves, Npc!inWorld, NpcProofs!inWorld,
         Npc!beforeFirstOutside, NpcProofs!beforeFirstOutside, Npc!restored,
         NpcProofs!restored, Npc!RefuseFrame, NpcProofs!RefuseFrame, Npc!lastPosition,
         NpcProofs!lastPosition, Npc!due, NpcProofs!due, Npc!gained, NpcProofs!gained,
         Npc!npcAfter, NpcProofs!npcAfter, Npc!ApplyFrame, NpcProofs!ApplyFrame,
         Npc!Max, NpcProofs!Max, Npc!Min, NpcProofs!Min

\* A behaviour of WorldParts is one of NpcWorld.
LEMMA PartsAreNpcs == Spec => NpcProofs!Spec
<1>1. Init => NpcProofs!Init
  BY DEF Init, Npc!Init, NpcProofs!Init
<1>2. [Next]_partsVars => [NpcProofs!Next]_(NpcProofs!npcVars)
  BY SameNpcs
  DEF Next, IntakeStep, LoginStep, NpcStep, TextStep, PredictionStep, partsVars, npcVars,
      NpcProofs!npcVars
<1>3. QED
  BY <1>1, <1>2, PTL DEF Spec, NpcProofs!Spec

LEMMA NpcConstantsHold == NpcProofs!NpcConstants
  BY PartsAssumption DEF NpcProofs!NpcConstants

\* However often a frame is refused and put back, intents and decisions keep
\* the order in which they were numbered.
THEOREM QueuesStayInOrder == Spec => []QueuesKeepOrder
<1>1. NpcProofs!Spec => []NpcProofs!QueuesKeepOrder
  BY NpcConstantsHold, NpcProofs!QueuesStayInOrder
<1>2. NpcProofs!QueuesKeepOrder => QueuesKeepOrder
  BY DEF QueuesKeepOrder, Npc!QueuesKeepOrder, NpcProofs!QueuesKeepOrder, Npc!ascends,
         NpcProofs!ascends
<1>3. QED
  BY <1>1, <1>2, PartsAreNpcs, PTL

\* A respawn is pending only for an NPC that is on the Field and dead.
THEOREM RespawnsAreOfTheDead == Spec => []RespawnsOfTheDead
<1>1. NpcProofs!Spec => []NpcProofs!RespawnsOfTheDead
  BY NpcConstantsHold, NpcProofs!RespawnsAreOfTheDead
<1>2. NpcProofs!RespawnsOfTheDead => RespawnsOfTheDead
  BY DEF RespawnsOfTheDead, Npc!RespawnsOfTheDead, NpcProofs!RespawnsOfTheDead, Npc!alive,
         NpcProofs!alive
<1>3. QED
  BY <1>1, <1>2, PartsAreNpcs, PTL

\* What refused frames left in Field's position queue is never seen.
THEOREM LeftoversAreNotSeen == Spec => MovesAreThisFrames
<1>1. NpcProofs!Spec => NpcProofs!MovesAreThisFrames
  BY NpcConstantsHold, NpcProofs!LeftoversAreNotSeen
<1>2. NpcProofs!MovesAreThisFrames => MovesAreThisFrames
  BY DEF MovesAreThisFrames, Npc!MovesAreThisFrames, NpcProofs!MovesAreThisFrames,
         Npc!movedByLast, NpcProofs!movedByLast, Npc!npcVars,
         NpcProofs!npcVars, Npc!ApplyFrame, NpcProofs!ApplyFrame, Npc!present,
         NpcProofs!present, Npc!moves, NpcProofs!moves, Npc!inWorld,
         NpcProofs!inWorld, Npc!Coordinates, NpcProofs!Coordinates,
         Npc!lastPosition, NpcProofs!lastPosition, Npc!due, NpcProofs!due,
         Npc!gained, NpcProofs!gained, Npc!npcAfter, NpcProofs!npcAfter,
         Npc!alive, NpcProofs!alive, Npc!Max, NpcProofs!Max
<1>3. QED
  BY <1>1, <1>2, PartsAreNpcs, PTL

\* A dead NPC comes back only by a respawn that is due, where that says.
THEOREM TheDeadStayDead == Spec => DeadUntilRespawn
<1>1. NpcProofs!Spec => NpcProofs!DeadUntilRespawn
  BY NpcConstantsHold, NpcProofs!TheDeadStayDead
<1>2. NpcProofs!DeadUntilRespawn => DeadUntilRespawn
  BY DEF DeadUntilRespawn, Npc!DeadUntilRespawn, NpcProofs!DeadUntilRespawn, Npc!alive,
         NpcProofs!alive, Npc!npcVars, NpcProofs!npcVars
<1>3. QED
  BY <1>1, <1>2, PartsAreNpcs, PTL

-----------------------------------------------------------------------------
(* Client prediction *)

LEMMA SamePrediction == Prediction!Next => PredictionProofs!Next
  BY DEF Prediction!Next, PredictionProofs!Next, Prediction!PredictMove,
         PredictionProofs!PredictMove, Prediction!LegacyMove, PredictionProofs!LegacyMove,
         Prediction!StepRender, PredictionProofs!StepRender, Prediction!Reconnect,
         PredictionProofs!Reconnect, Prediction!ReceiveMove, PredictionProofs!ReceiveMove,
         Prediction!LoseMove, PredictionProofs!LoseMove, Prediction!Tick,
         PredictionProofs!Tick, Prediction!LoseUpdate, PredictionProofs!LoseUpdate,
         Prediction!OtherLogin, PredictionProofs!OtherLogin, Prediction!OtherLogout,
         PredictionProofs!OtherLogout, Prediction!Receive, PredictionProofs!Receive,
         Prediction!ReceiveSnapshot, PredictionProofs!ReceiveSnapshot,
         Prediction!ReceiveEvent, PredictionProofs!ReceiveEvent, Prediction!SkipUpdate,
         PredictionProofs!SkipUpdate, Prediction!Input, PredictionProofs!Input,
         Prediction!total, PredictionProofs!total, Prediction!NewPredictor,
         PredictionProofs!NewPredictor, Prediction!canPush, PredictionProofs!canPush,
         Prediction!predict, PredictionProofs!predict, Prediction!acknowledgeUpTo,
         PredictionProofs!acknowledgeUpTo, Prediction!rebased, PredictionProofs!rebased,
         Prediction!correctRender, PredictionProofs!correctRender, Prediction!reconcile,
         PredictionProofs!reconcile, Prediction!applySnapshotBaseline,
         PredictionProofs!applySnapshotBaseline, Prediction!between,
         PredictionProofs!between, Prediction!admits, PredictionProofs!admits,
         Prediction!highest, PredictionProofs!highest, Prediction!frameAck,
         PredictionProofs!frameAck, Prediction!ownEvent, PredictionProofs!ownEvent,
         Prediction!otherEvent, PredictionProofs!otherEvent, Prediction!publicPoses,
         PredictionProofs!publicPoses, Prediction!snapshot, PredictionProofs!snapshot,
         Prediction!eventsOf, PredictionProofs!eventsOf, Prediction!applyAuthoritative,
         PredictionProofs!applyAuthoritative, Prediction!replaceFromSnapshot,
         PredictionProofs!replaceFromSnapshot, Prediction!Max, PredictionProofs!Max,
         Prediction!Front, PredictionProofs!Front

\* A behaviour of WorldParts is one of ClientPrediction.
LEMMA PartsArePredictions == Spec => PredictionProofs!Spec
<1>1. Init => PredictionProofs!Init
  BY DEF Init, Prediction!Init, PredictionProofs!Init, Prediction!NewPredictor,
         PredictionProofs!NewPredictor
<1>2. [Next]_partsVars => [PredictionProofs!Next]_(PredictionProofs!predictionVars)
  BY SamePrediction
  DEF Next, IntakeStep, LoginStep, NpcStep, TextStep, PredictionStep, partsVars,
      predictionVars, PredictionProofs!predictionVars
<1>3. QED
  BY <1>1, <1>2, PTL DEF Spec, PredictionProofs!Spec

LEMMA PredictionConstantsHold == PredictionProofs!PredictionConstants
  BY PartsAssumption DEF PredictionProofs!PredictionConstants

\* For any sizes of buffers and any Moves, and whatever is refused or lost, a
\* client that has heard all there is predicts exactly the authoritative pose
\* and its inputs that the session has not processed.
THEOREM PredictionIsExact == Spec => []PredictionExact
<1>1. PredictionProofs!Spec => []PredictionProofs!PredictionExact
  BY PredictionConstantsHold, PredictionProofs!PredictionIsExact
<1>2. PredictionProofs!PredictionExact => PredictionExact
  BY DEF PredictionExact, Prediction!PredictionExact, PredictionProofs!PredictionExact,
         Prediction!total, PredictionProofs!total, Prediction!ToSet, PredictionProofs!ToSet
<1>3. QED
  BY <1>1, <1>2, PartsArePredictions, PTL

\* Where the buffer holds no more inputs than the server admits ahead, no Move
\* of the first session is too far ahead, whatever was lost before it.
THEOREM StaysWithinAdmission == Spec => []WithinAdmission
<1>1. PredictionProofs!Spec => []PredictionProofs!WithinAdmission
  BY PredictionConstantsHold, PredictionProofs!StaysWithinAdmission
<1>2. PredictionProofs!WithinAdmission => WithinAdmission
  BY DEF WithinAdmission, Prediction!WithinAdmission, PredictionProofs!WithinAdmission
<1>3. QED
  BY <1>1, <1>2, PartsArePredictions, PTL

\* What is drawn differs from what is predicted only while it is corrected.
THEOREM RenderingAgrees == Spec => []RenderedAgrees
<1>1. PredictionProofs!Spec => []PredictionProofs!RenderedAgrees
  BY PredictionConstantsHold, PredictionProofs!RenderingAgrees
<1>2. PredictionProofs!RenderedAgrees => RenderedAgrees
  BY DEF RenderedAgrees, Prediction!RenderedAgrees, PredictionProofs!RenderedAgrees
<1>3. QED
  BY <1>1, <1>2, PartsArePredictions, PTL

\* A client that has heard all there is knows the other player's session and
\* its authoritative pose.
THEOREM RemotesAreExact == Spec => []RemotesExact
<1>1. PredictionProofs!Spec => []PredictionProofs!RemotesExact
  BY PredictionConstantsHold, PredictionProofs!RemotesAreExact
<1>2. PredictionProofs!RemotesExact => RemotesExact
  BY DEF RemotesExact, Prediction!RemotesExact, PredictionProofs!RemotesExact
<1>3. QED
  BY <1>1, <1>2, PartsArePredictions, PTL

-----------------------------------------------------------------------------
(* Snapshot text: the order of a map *)

LEMMA CountsAgree ==
  ASSUME NEW S
  PROVE  Text!Cardinality(S) = Cardinality(S)
  BY DEF Text!Cardinality, Cardinality

\* A set of numbers that is not empty has a smallest one.
LEMMA LeastNumber ==
  ASSUME NEW T, T \subseteq Nat, T # {}
  PROVE  \E n \in T : \A m \in T : n <= m
<1> DEFINE R == OpToRel(<, Nat)
<1>1. IsWellFoundedOn(R, Nat)
  BY NatLessThanWellFounded
<1>2. \E n \in T : \A m \in T : ~ (<<m, n>> \in R)
  <2> HIDE DEF R
  <2>1. QED
    BY <1>1, WFMin
<1>3. PICK n \in T : \A m \in T : ~ (<<m, n>> \in R)
  BY <1>2
<1>4. ASSUME NEW m \in T
      PROVE  n <= m
  <2>1. ~(m < n)
    BY <1>3 DEF OpToRel
  <2> HIDE DEF R
  <2>2. m \in Nat /\ n \in Nat
    OBVIOUS
  <2>3. QED
    BY <2>1, <2>2
<1>5. QED
  BY <1>4

\* s lists the n numbers of S in ascending order.
Lists(s, n, S) == s \in [1..n -> S] /\ \A i, j \in 1..n : i < j => s[i] < s[j]

\* The smallest number comes before the list of the others.
LEMMA ListGrows ==
  ASSUME NEW S, S \subseteq Nat, NEW a \in S, \A m \in S : a <= m, NEW n \in Nat,
         NEW s, Lists(s, n, S \ {a})
  PROVE  Lists([i \in 1..(n + 1) |-> IF i = 1 THEN a ELSE s[i - 1]], n + 1, S)
<1> DEFINE t == [i \in 1..(n + 1) |-> IF i = 1 THEN a ELSE s[i - 1]]
<1>1. s \in [1..n -> S \ {a}] /\ \A i, j \in 1..n : i < j => s[i] < s[j]
  BY DEF Lists
<1>2. \A i \in 1..(n + 1) : i # 1 => i - 1 \in 1..n
  OBVIOUS
<1>3. \A k \in 1..n : s[k] \in S /\ s[k] # a
  BY <1>1
<1>4. t \in [1..(n + 1) -> S]
  BY <1>2, <1>3
<1>5. ASSUME NEW i \in 1..(n + 1), NEW j \in 1..(n + 1), i < j
      PROVE  t[i] < t[j]
  <2>1. j # 1 /\ j - 1 \in 1..n /\ t[j] = s[j - 1]
    BY <1>2, <1>5
  <2>2. CASE i = 1
    <3>1. t[i] = a
      BY <2>2
    <3>2. s[j - 1] \in Nat /\ s[j - 1] # a /\ a <= s[j - 1] /\ a \in Nat
      BY <1>3, <2>1
    <3>3. a < s[j - 1]
      BY <3>2
    <3>4. QED
      BY <2>1, <3>1, <3>3
  <2>3. CASE i # 1
    <3>1. i - 1 \in 1..n /\ t[i] = s[i - 1] /\ i - 1 < j - 1
      BY <1>2, <1>5, <2>3
    <3>2. QED
      BY <1>1, <2>1, <3>1
  <2>4. QED
    BY <2>2, <2>3
<1>6. QED
  BY <1>4, <1>5 DEF Lists

\* Every finite set of numbers can be listed: of those that cannot, take one
\* of the fewest numbers, and leave out its smallest.
LEMMA ListExists ==
  ASSUME NEW S, S \subseteq Nat, IsFiniteSet(S)
  PROVE  \E s : Lists(s, Cardinality(S), S)
<1> DEFINE bad(T) == T \subseteq Nat /\ IsFiniteSet(T) /\ ~\E s : Lists(s, Cardinality(T), T)
           B == {n \in Nat : \E T \in SUBSET Nat : bad(T) /\ Cardinality(T) = n}
<1>1. SUFFICES ASSUME bad(S) PROVE FALSE
  OBVIOUS
<1>2. Cardinality(S) \in B
  <2>1. Cardinality(S) \in Nat
    BY FS_CardinalityType
  <2>2. S \in SUBSET Nat
    OBVIOUS
  <2> HIDE DEF bad
  <2>3. QED
    BY <1>1, <2>1, <2>2
<1>3. PICK n \in B : \A m \in B : n <= m
  <2>1. B \subseteq Nat /\ B # {}
    BY <1>2
  <2> HIDE DEF B
  <2>2. QED
    BY <2>1, LeastNumber
<1>4. PICK T \in SUBSET Nat : bad(T) /\ Cardinality(T) = n
  BY <1>3
<1>5. n \in Nat /\ T \subseteq Nat /\ IsFiniteSet(T) /\ ~\E s : Lists(s, n, T)
  BY <1>4
<1>6. CASE T = {}
  <2>1. n = 0
    BY <1>4, <1>6, FS_EmptySet
  <2>2. [i \in 1..0 |-> 0] \in [1..0 -> T] /\ 1..0 = {}
    OBVIOUS
  <2>3. Lists([i \in 1..0 |-> 0], 0, T)
    BY <2>2 DEF Lists
  <2>4. QED
    BY <1>5, <2>1, <2>3
<1>7. CASE T # {}
  <2>1. PICK a \in T : \A m \in T : a <= m
    BY <1>5, <1>7, LeastNumber
  <2> DEFINE U == T \ {a}
             k == Cardinality(U)
  <2>2. IsFiniteSet(U) /\ k = n - 1
    BY <1>4, <1>5, <2>1, FS_RemoveElement
  <2>3. k \in Nat
    BY <2>2, FS_CardinalityType
  <2>4. U \subseteq Nat /\ U \in SUBSET Nat
    BY <1>5
  <2>5. \E s : Lists(s, k, U)
    <3>1. SUFFICES ASSUME ~\E s : Lists(s, k, U) PROVE FALSE
      OBVIOUS
    <3>2. bad(U)
      BY <2>2, <2>4, <3>1
    <3>3. k \in B
      <4> HIDE DEF bad
      <4>1. QED
        BY <2>3, <2>4, <3>2
    <3> HIDE DEF B, k, bad
    <3>4. n <= k
      BY <1>3, <3>3
    <3>5. QED
      BY <1>5, <2>2, <2>3, <3>4
  <2>6. PICK s : Lists(s, k, U)
    BY <2>5
  <2>7. \E t : Lists(t, k + 1, T)
    BY <1>5, <2>1, <2>3, <2>6, ListGrows
  <2> HIDE DEF k
  <2>8. k + 1 = n
    BY <1>5, <2>2, <2>3
  <2>9. QED
    BY <1>5, <2>7, <2>8
<1>8. QED
  BY <1>6, <1>7

LEMMA AscendingLists ==
  ASSUME NEW S, S \subseteq Nat, IsFiniteSet(S)
  PROVE  LET n == Cardinality(S) IN n \in Nat /\ Text!ascending(S) \in [1..n -> S]
<1> DEFINE n == Cardinality(S)
<1>1. n \in Nat
  BY FS_CardinalityType
<1>2. Text!Cardinality(S) = n
  BY CountsAgree
<1>3. \E s \in [1..n -> S] : \A i, j \in 1..n : i < j => s[i] < s[j]
  BY ListExists DEF Lists
<1>4. Text!ascending(S) = CHOOSE s \in [1..n -> S] : \A i, j \in 1..n : i < j => s[i] < s[j]
  BY <1>2 DEF Text!ascending
<1> HIDE DEF n
<1>5. QED
  BY <1>1, <1>3, <1>4 DEF n

-----------------------------------------------------------------------------
(* Snapshot text: what the Field shows *)

RosterEntry == [name : {"plain", "other"}, x : Int, bound : BOOLEAN]
BeastEntry == [id : Nat \ {0}, x : Int, hp : Nat]
PoseEntry == [id : Nat \ {0}, session : Nat \ {0}, name : {"plain", "other"}, x : Int]

\* The Field's players have ids and stored names.
FieldTypes ==
  /\ IsFiniteSet(DOMAIN roster) /\ DOMAIN roster \subseteq Nat \ {0}
  /\ roster \in [DOMAIN roster -> RosterEntry]
  /\ beasts \in Seq(BeastEntry)
  /\ hazardLevel \in 0..MaxHazard

\* The number of entries of a Snapshot.
EntryCount(s) == Len(s.players) + Len(s.npcs)

\* A text on its way is that of what was shown, for the one it is sent to, and
\* within the size of an update; only its size can have kept it from being sent.
TextShows ==
  /\ shot.players \in Seq(PoseEntry) /\ shot.npcs \in Seq(BeastEntry)
  /\ shot.hazard \in 0..MaxHazard
  /\ text # {} =>
       /\ text = Text!formatPayload(shot.players, shot.npcs, shot.hazard)
                   \cup Text!localFields(shot.players, shot.recipient)
       /\ HeadSize + SmallestEntry * EntryCount(shot) <= MaxPayload
  /\ HeadSize + LargestEntry * EntryCount(shot) + LargestLocal <= MaxPayload => shot.ok

TextInv == FieldTypes /\ TextShows

LEMMA NamesAreStored ==
  ASSUME NEW name \in {"plain", "other", "padded", "split", "blank"}, Text!storable(name)
  PROVE  Text!trimPlayerName(name) \in {"plain", "other"}
  BY DEF Text!storable, Text!trimPlayerName

\* A function on 1..n is a sequence.
LEMMA ListsAreSequences ==
  ASSUME NEW T, NEW n \in Nat, NEW f \in [1..n -> T]
  PROVE  f \in Seq(T)
  OBVIOUS

LEMMA PosesAreTyped ==
  ASSUME FieldTypes
  PROVE  /\ Text!publicPlayerPoses \in Seq(PoseEntry)
         /\ Text!publicNpcSnapshots \in Seq(BeastEntry)
<1>1. Text!publicPlayerPoses \in Seq(PoseEntry)
  <2> DEFINE S == {p \in DOMAIN roster : roster[p].bound}
             ids == Text!ascending(S)
             n == Cardinality(S)
             poses == [i \in DOMAIN ids |->
                         [id |-> ids[i], session |-> ids[i], name |-> roster[ids[i]].name,
                          x |-> roster[ids[i]].x]]
  <2>1. S \in SUBSET DOMAIN roster /\ S \subseteq Nat
    BY DEF FieldTypes
  <2>2. IsFiniteSet(S)
    BY <2>1, FS_Subset DEF FieldTypes
  <2>3. \A p \in S : p \in Nat \ {0} /\ roster[p] \in RosterEntry
    BY <2>1 DEF FieldTypes
  <2>4. Text!publicPlayerPoses = poses
    BY DEF Text!publicPlayerPoses
  <2> HIDE DEF S
  <2>5. n \in Nat /\ ids \in [1..n -> S]
    BY <2>1, <2>2, AscendingLists
  <2> HIDE DEF n, ids
  <2>6. \A i \in 1..n : ids[i] \in S /\ ids[i] \in Nat \ {0} /\ roster[ids[i]] \in RosterEntry
    BY <2>3, <2>5
  <2>7. DOMAIN ids = 1..n
    BY <2>5
  <2>8. poses \in [1..n -> PoseEntry]
    BY <2>6, <2>7 DEF RosterEntry, PoseEntry
  <2> HIDE DEF poses
  <2>9. QED
    BY <2>4, <2>5, <2>8, ListsAreSequences
<1>2. Text!publicNpcSnapshots \in Seq(BeastEntry)
  <2> DEFINE S == {i \in DOMAIN beasts : beasts[i].hp > 0}
             alive == Text!ascending(S)
             n == Cardinality(S)
             shown == [i \in DOMAIN alive |-> beasts[alive[i]]]
  <2>1. /\ Len(beasts) \in Nat /\ DOMAIN beasts = 1..Len(beasts)
        /\ \A i \in 1..Len(beasts) : beasts[i] \in BeastEntry
    BY LenProperties, ElementOfSeq DEF FieldTypes
  <2>2. S \in SUBSET (1..Len(beasts)) /\ S \subseteq Nat /\ \A i \in S : beasts[i] \in BeastEntry
    BY <2>1
  <2>3. IsFiniteSet(1..Len(beasts))
    BY <2>1, FS_Interval
  <2>4. IsFiniteSet(S)
    BY <2>2, <2>3, FS_Subset
  <2>5. Text!publicNpcSnapshots = shown
    BY DEF Text!publicNpcSnapshots
  <2> HIDE DEF S
  <2>6. n \in Nat /\ alive \in [1..n -> S]
    BY <2>2, <2>4, AscendingLists
  <2> HIDE DEF n, alive
  <2>7. shown \in [1..n -> BeastEntry]
    BY <2>2, <2>6
  <2> HIDE DEF shown
  <2>8. QED
    BY <2>5, <2>6, <2>7, ListsAreSequences
<1>3. QED
  BY <1>1, <1>2

\* What the Field shows can always be printed.
LEMMA PosesArePrintable ==
  ASSUME NEW players \in Seq(PoseEntry)
  PROVE  Text!printable(players)
<1>1. \A i \in DOMAIN players : players[i] \in PoseEntry
  BY ElementOfSeq, LenProperties
<1>2. \A p \in PoseEntry : p.session \in Nat \ {0} /\ p.name \in {"plain", "other"}
  BY DEF PoseEntry
<1>3. \A n \in Nat \ {0} : n > 0
  OBVIOUS
<1>4. \A n \in {"plain", "other"} : n \notin {"", "split"}
  OBVIOUS
<1>5. QED
  BY <1>1, <1>2, <1>3, <1>4, Zenon DEF Text!printable

-----------------------------------------------------------------------------
(* Snapshot text: the invariant *)

LEMMA TextInitial == Text!Init => TextInv
<1> SUFFICES ASSUME Text!Init PROVE TextInv
  OBVIOUS
<1>1. /\ roster = [p \in {} |-> 0] /\ beasts = <<>> /\ hazardLevel = 0 /\ text = {}
      /\ shot = [ok |-> TRUE, players |-> <<>>, npcs |-> <<>>, hazard |-> 0, recipient |-> 0]
  BY DEF Text!Init, Text!NoText
<1>2. DOMAIN roster = {} /\ IsFiniteSet(DOMAIN roster) /\ roster \in [DOMAIN roster -> RosterEntry]
  BY <1>1, FS_EmptySet
<1>3. 0 \in 0..MaxHazard /\ <<>> \in Seq(BeastEntry) /\ <<>> \in Seq(PoseEntry)
  BY PartsAssumption, EmptySeq
<1>4. FieldTypes
  BY <1>1, <1>2, <1>3 DEF FieldTypes
<1>5. QED
  BY <1>1, <1>3, <1>4 DEF TextInv, TextShows

LEMMA JoinStep ==
  ASSUME FieldTypes, NEW p \in PlayerIds, NEW name \in {"plain", "padded", "split", "blank"},
         NEW x \in Places, Text!Join(p, name, x)
  PROVE  FieldTypes'
<1> DEFINE stored == Text!trimPlayerName(name)
           entry == [name |-> stored, x |-> x, bound |-> TRUE]
           D == DOMAIN roster
           r == [q \in D \cup {p} |-> IF q = p THEN entry ELSE roster[q]]
<1>1. roster' = r /\ Text!storable(name) /\ beasts' = beasts /\ hazardLevel' = hazardLevel
  BY DEF Text!Join
<1>2. stored \in {"plain", "other"}
  BY <1>1, NamesAreStored
<1>3. x \in Int /\ p \in Nat \ {0}
  BY PartsAssumption
<1> HIDE DEF stored
<1>4. entry \in RosterEntry
  BY <1>2, <1>3 DEF RosterEntry
<1> HIDE DEF entry
<1>5. IsFiniteSet(D) /\ D \subseteq Nat \ {0} /\ roster \in [D -> RosterEntry]
  BY DEF FieldTypes
<1> HIDE DEF D
<1>6. IsFiniteSet(D \cup {p}) /\ D \cup {p} \subseteq Nat \ {0}
  BY <1>3, <1>5, FS_AddElement
<1>7. r \in [D \cup {p} -> RosterEntry] /\ DOMAIN r = D \cup {p}
  BY <1>4, <1>5
<1> HIDE DEF r
<1>8. QED
  BY <1>1, <1>6, <1>7 DEF FieldTypes

\* One entry of the roster is another one.
LEMMA EntryStep ==
  ASSUME FieldTypes, NEW p \in DOMAIN roster, NEW e \in RosterEntry,
         roster' = [roster EXCEPT ![p] = e], beasts' = beasts, hazardLevel' = hazardLevel
  PROVE  FieldTypes'
<1> DEFINE D == DOMAIN roster
           r == [roster EXCEPT ![p] = e]
<1>1. IsFiniteSet(D) /\ D \subseteq Nat \ {0} /\ roster \in [D -> RosterEntry]
  BY DEF FieldTypes
<1>2. p \in D /\ roster' = r
  OBVIOUS
<1> HIDE DEF D
<1>3. r \in [D -> RosterEntry] /\ DOMAIN r = D
  BY <1>1, <1>2
<1> HIDE DEF r
<1>4. QED
  BY <1>1, <1>2, <1>3 DEF FieldTypes

LEMMA RosterSteps ==
  ASSUME FieldTypes, NEW p \in PlayerIds,
         \/ \E bound \in BOOLEAN : Text!Bind(p, bound)
         \/ \E name \in {"other", "padded", "split"} : Text!Rename(p, name)
         \/ \E x \in Places : Text!Walk(p, x)
  PROVE  FieldTypes'
<1>1. p \in DOMAIN roster /\ beasts' = beasts /\ hazardLevel' = hazardLevel
  BY DEF Text!Bind, Text!Rename, Text!Walk
<1>2. roster[p] \in RosterEntry
  BY <1>1 DEF FieldTypes
<1>3. ASSUME NEW bound \in BOOLEAN, Text!Bind(p, bound)
      PROVE  FieldTypes'
  <2> DEFINE e == [roster[p] EXCEPT !.bound = bound]
  <2>1. e \in RosterEntry
    BY <1>2 DEF RosterEntry
  <2>2. roster' = [roster EXCEPT ![p] = e]
    BY <1>3 DEF Text!Bind
  <2> HIDE DEF e
  <2>3. QED
    BY <1>1, <2>1, <2>2, EntryStep
<1>4. ASSUME NEW name \in {"other", "padded", "split"}, Text!Rename(p, name)
      PROVE  FieldTypes'
  <2> DEFINE stored == Text!trimPlayerName(name)
             e == [roster[p] EXCEPT !.name = stored]
  <2>1. roster' = [roster EXCEPT ![p] = e] /\ Text!storable(name)
    BY <1>4 DEF Text!Rename
  <2>2. stored \in {"plain", "other"}
    BY <2>1, NamesAreStored
  <2> HIDE DEF stored
  <2>3. e \in RosterEntry
    BY <1>2, <2>2 DEF RosterEntry
  <2> HIDE DEF e
  <2>4. QED
    BY <1>1, <2>1, <2>3, EntryStep
<1>5. ASSUME NEW x \in Places, Text!Walk(p, x)
      PROVE  FieldTypes'
  <2> DEFINE e == [roster[p] EXCEPT !.x = x]
  <2>1. x \in Int
    BY PartsAssumption
  <2>2. e \in RosterEntry
    BY <1>2, <2>1 DEF RosterEntry
  <2>3. roster' = [roster EXCEPT ![p] = e]
    BY <1>5 DEF Text!Walk
  <2> HIDE DEF e
  <2>4. QED
    BY <1>1, <2>2, <2>3, EntryStep
<1>6. QED
  BY <1>3, <1>4, <1>5

LEMMA NatureStep ==
  ASSUME FieldTypes, Text!Nature
  PROVE  FieldTypes'
<1>1. roster' = roster
  BY DEF Text!Nature
<1>2. /\ Len(beasts) \in Nat /\ DOMAIN beasts = 1..Len(beasts) /\ beasts \in Seq(BeastEntry)
      /\ \A i \in 1..Len(beasts) : beasts[i] \in BeastEntry
  BY LenProperties, ElementOfSeq DEF FieldTypes
<1>3. ASSUME beasts' = Append(beasts, [id |-> Len(beasts) + 1, x |-> 0, hp |-> 1]),
             hazardLevel' = hazardLevel
      PROVE  FieldTypes'
  <2> DEFINE b == [id |-> Len(beasts) + 1, x |-> 0, hp |-> 1]
  <2>1. b \in BeastEntry
    BY <1>2 DEF BeastEntry
  <2> HIDE DEF b
  <2>2. Append(beasts, b) \in Seq(BeastEntry)
    BY <1>2, <2>1, AppendProperties
  <2>3. QED
    BY <1>1, <1>3, <2>2 DEF FieldTypes, b
<1>4. ASSUME NEW i \in DOMAIN beasts, beasts' = [beasts EXCEPT ![i].hp = 0],
             hazardLevel' = hazardLevel
      PROVE  FieldTypes'
  <2> DEFINE b == [beasts[i] EXCEPT !.hp = 0]
             n == Len(beasts)
  <2>1. b \in BeastEntry
    BY <1>2, <1>4 DEF BeastEntry
  <2>2. beasts' = [beasts EXCEPT ![i] = b]
    BY <1>4
  <2>3. beasts \in [1..n -> BeastEntry] /\ n \in Nat /\ i \in 1..n
    BY <1>2, <1>4
  <2> HIDE DEF b, n
  <2>4. [beasts EXCEPT ![i] = b] \in [1..n -> BeastEntry]
    BY <2>1, <2>3
  <2>5. beasts' \in Seq(BeastEntry)
    BY <2>2, <2>3, <2>4, ListsAreSequences
  <2>6. QED
    BY <1>1, <1>4, <2>5 DEF FieldTypes
<1>5. ASSUME hazardLevel' = MaxHazard - hazardLevel, beasts' = beasts
      PROVE  FieldTypes'
  <2>1. MaxHazard \in Nat
    BY PartsAssumption
  <2>2. hazardLevel' \in 0..MaxHazard
    BY <1>5, <2>1 DEF FieldTypes
  <2>3. QED
    BY <1>1, <1>5, <2>2 DEF FieldTypes
<1>6. QED
  BY <1>3, <1>4, <1>5 DEF Text!Nature

LEMMA CaptureStep ==
  ASSUME TextInv, NEW p \in PlayerIds, Text!Capture(p)
  PROVE  TextInv'
<1> DEFINE players == Text!publicPlayerPoses
           shown == Text!publicNpcSnapshots
           count == Len(players) + Len(shown)
           least == SmallestEntry * count
           most == LargestEntry * count
           printed == Text!formatPayload(players, shown, hazardLevel)
                        \cup Text!localFields(players, p)
<1>1. players \in Seq(PoseEntry) /\ shown \in Seq(BeastEntry)
  BY PosesAreTyped DEF TextInv
<1>2. Text!printable(players)
  BY <1>1, PosesArePrintable
<1>3. /\ HeadSize \in Nat /\ LargestLocal \in Nat /\ MaxPayload \in Nat
      /\ SmallestEntry \in Nat /\ LargestEntry \in Nat
  BY SizesAssumption
<1>4. count \in Nat
  BY <1>1, LenProperties
<1>5. least \in Nat /\ most \in Nat
  <2> HIDE DEF count
  <2>1. QED
    BY <1>3, <1>4
<1>6. PICK size \in Text!sizes(count), extra \in Text!localSizes(players, p) :
        LET ok == Text!printable(players) /\ Text!validates(size)
                  /\ Text!validates(size + extra)
        IN /\ text' = IF ok THEN printed ELSE Text!NoText
           /\ shot' = [ok |-> ok, players |-> players, npcs |-> shown,
                       hazard |-> hazardLevel, recipient |-> p]
  BY DEF Text!Capture
<1>7. UNCHANGED <<roster, beasts, hazardLevel>>
  BY DEF Text!Capture
<1> DEFINE ok == Text!validates(size) /\ Text!validates(size + extra)
<1>8. size \in Int /\ HeadSize + least <= size /\ size <= HeadSize + most
  <2>1. size \in (HeadSize + least)..(HeadSize + most)
    BY <1>6 DEF Text!sizes
  <2> HIDE DEF least, most
  <2>2. QED
    BY <1>3, <1>5, <2>1
<1>9. extra \in 0..LargestLocal
  BY <1>6 DEF Text!localSizes
<1>10. /\ text' = IF ok THEN printed ELSE {}
       /\ shot' = [ok |-> ok, players |-> players, npcs |-> shown,
                   hazard |-> hazardLevel, recipient |-> p]
  BY <1>2, <1>6 DEF Text!NoText
<1> HIDE DEF least, most, count, printed, players, shown
<1>11. ok => HeadSize + least <= MaxPayload
  BY <1>3, <1>5, <1>8 DEF Text!validates
<1>12. HeadSize + most + LargestLocal <= MaxPayload => ok
  BY <1>3, <1>5, <1>8, <1>9 DEF Text!validates
<1> HIDE DEF ok
<1>13. FieldTypes'
  BY <1>7 DEF TextInv, FieldTypes
<1>14. hazardLevel \in 0..MaxHazard
  BY DEF TextInv, FieldTypes
<1>15. /\ shot'.players = players /\ shot'.npcs = shown /\ shot'.hazard = hazardLevel
       /\ shot'.recipient = p /\ shot'.ok = ok
  BY <1>10
<1>16. EntryCount(shot') = count
  BY <1>15 DEF EntryCount, count
<1>17. text' # {} => ok /\ text' = printed
  BY <1>10
<1>18. /\ SmallestEntry * EntryCount(shot') = least
       /\ LargestEntry * EntryCount(shot') = most
  BY <1>16 DEF least, most
<1>19. printed = Text!formatPayload(shot'.players, shot'.npcs, shot'.hazard)
                   \cup Text!localFields(shot'.players, shot'.recipient)
  BY <1>15 DEF printed
<1>20. TextShows'
  BY <1>1, <1>11, <1>12, <1>14, <1>15, <1>17, <1>18, <1>19 DEF TextShows
<1>21. QED
  BY <1>13, <1>20 DEF TextInv

LEMMA TextInvStep == TextInv /\ [Text!Next]_(Text!snapshotVars) => TextInv'
<1> SUFFICES ASSUME TextInv, [Text!Next]_(Text!snapshotVars) PROVE TextInv'
  OBVIOUS
<1>1. FieldTypes /\ TextShows
  BY DEF TextInv
<1>2. ASSUME FieldTypes', UNCHANGED <<text, shot>>
      PROVE  TextInv'
  BY <1>1, <1>2 DEF TextInv, TextShows
<1>3. ASSUME NEW p \in PlayerIds, NEW name \in {"plain", "padded", "split", "blank"},
             NEW x \in Places, Text!Join(p, name, x)
      PROVE  TextInv'
  <2>1. FieldTypes'
    BY <1>1, <1>3, JoinStep
  <2>2. QED
    BY <1>2, <1>3, <2>1 DEF Text!Join
<1>4. ASSUME NEW p \in PlayerIds,
             \/ \E bound \in BOOLEAN : Text!Bind(p, bound)
             \/ \E name \in {"other", "padded", "split"} : Text!Rename(p, name)
             \/ \E x \in Places : Text!Walk(p, x)
      PROVE  TextInv'
  <2>1. FieldTypes'
    BY <1>1, <1>4, RosterSteps
  <2>2. UNCHANGED <<text, shot>>
    BY <1>4 DEF Text!Bind, Text!Rename, Text!Walk
  <2>3. QED
    BY <1>2, <2>1, <2>2
<1>5. ASSUME NEW p \in PlayerIds, Text!Capture(p)
      PROVE  TextInv'
  BY <1>5, CaptureStep
<1>6. ASSUME Text!Nature
      PROVE  TextInv'
  <2>1. FieldTypes'
    BY <1>1, <1>6, NatureStep
  <2>2. QED
    BY <1>2, <1>6, <2>1 DEF Text!Nature
<1>7. ASSUME Text!ApplySnapshot
      PROVE  TextInv'
  <2>1. text' = {} /\ UNCHANGED <<roster, beasts, hazardLevel, shot>>
    BY <1>7 DEF Text!ApplySnapshot, Text!NoText
  <2>2. QED
    BY <1>1, <2>1 DEF TextInv, FieldTypes, TextShows
<1>8. ASSUME UNCHANGED Text!snapshotVars
      PROVE  TextInv'
  <2>1. UNCHANGED <<roster, beasts, hazardLevel, text, shot>>
    BY <1>8 DEF Text!snapshotVars
  <2>2. QED
    BY <1>1, <2>1 DEF TextInv, FieldTypes, TextShows
<1>9. QED
  BY <1>3, <1>4, <1>5, <1>6, <1>7, <1>8 DEF Text!Next

-----------------------------------------------------------------------------
(* Snapshot text: what the client reads *)

\* The text is that of these players, NPCs and hazard, for this recipient.
Printed(players, npcs_, hazard, recipient) ==
  /\ players \in Seq(PoseEntry) /\ npcs_ \in Seq(BeastEntry) /\ hazard \in 0..MaxHazard
  /\ text = Text!formatPayload(players, npcs_, hazard) \cup Text!localFields(players, recipient)

LEMMA FieldMembers ==
  ASSUME NEW players, NEW npcs_, NEW hazard, NEW recipient,
         Printed(players, npcs_, hazard, recipient), NEW f
  PROVE  f \in text <=>
           \/ f = Text!Field("ether", 0, "hazard", hazard)
           \/ f = Text!Field("npc", 0, "count", Len(npcs_))
           \/ f = Text!Field("player", 0, "count", Len(players))
           \/ \E i \in DOMAIN npcs_ : f \in Text!npcFields(i, npcs_[i])
           \/ \E i \in DOMAIN players : f \in Text!playerFields(i, players[i])
           \/ f \in Text!localFields(players, recipient)
<1> DEFINE locals == Text!localFields(players, recipient)
           E == Text!Field("ether", 0, "hazard", hazard)
           N == Text!Field("npc", 0, "count", Len(npcs_))
           P == Text!Field("player", 0, "count", Len(players))
           A == UNION {Text!npcFields(i, npcs_[i]) : i \in DOMAIN npcs_}
           B == UNION {Text!playerFields(i, players[i]) : i \in DOMAIN players}
<1>1. text = ({E, N, P} \cup A \cup B) \cup locals
  BY DEF Printed, Text!formatPayload
<1>2. f \in A <=> \E i \in DOMAIN npcs_ : f \in Text!npcFields(i, npcs_[i])
  BY Zenon
<1>3. f \in B <=> \E i \in DOMAIN players : f \in Text!playerFields(i, players[i])
  BY Zenon
<1> HIDE DEF locals, E, N, P, A, B
<1>4. f \in text <=> f = E \/ f = N \/ f = P \/ f \in A \/ f \in B \/ f \in locals
  BY <1>1
<1>5. QED
  BY <1>2, <1>3, <1>4, Zenon DEF locals, E, N, P

LEMMA NpcFieldsAre ==
  ASSUME NEW i, NEW b, NEW f \in Text!npcFields(i, b)
  PROVE  /\ f.kind = "npc" /\ f.index = i - 1 /\ f.name # "count"
         /\ f.name = "id" => f.value = b.id
         /\ f.name = "x" => f.value = Text!print(b.x)
         /\ f.name = "hp" => f.value = b.hp
         /\ f.name = "alive" => f.value = 1
  BY DEF Text!npcFields, Text!Field

LEMMA NpcFieldsHave ==
  ASSUME NEW i, NEW b, NEW name \in {"id", "x", "hp", "alive"}
  PROVE  \E f \in Text!npcFields(i, b) : f.index = i - 1 /\ f.name = name
<1>1. CASE name = "id"
  BY <1>1 DEF Text!npcFields, Text!Field
<1>2. CASE name = "x"
  BY <1>2 DEF Text!npcFields, Text!Field
<1>3. CASE name = "hp"
  BY <1>3 DEF Text!npcFields, Text!Field
<1>4. CASE name = "alive"
  BY <1>4 DEF Text!npcFields, Text!Field
<1>5. QED
  BY <1>1, <1>2, <1>3, <1>4

LEMMA PlayerFieldsAre ==
  ASSUME NEW i, NEW p, NEW f \in Text!playerFields(i, p)
  PROVE  /\ f.kind = "player" /\ f.index = i - 1 /\ f.name # "count"
         /\ f.name = "session" => f.value = p.session
         /\ f.name = "x" => f.value = Text!print(p.x)
         /\ f.name = "id" => f.value = p.id
         /\ f.name = "name" => f.value = p.name
  BY DEF Text!playerFields, Text!Field

LEMMA PlayerFieldsHave ==
  ASSUME NEW i, NEW p, NEW name \in {"session", "x", "id", "name"}
  PROVE  \E f \in Text!playerFields(i, p) : f.index = i - 1 /\ f.name = name
<1>1. CASE name = "session"
  BY <1>1 DEF Text!playerFields, Text!Field
<1>2. CASE name = "x"
  BY <1>2 DEF Text!playerFields, Text!Field
<1>3. CASE name = "id"
  BY <1>3 DEF Text!playerFields, Text!Field
<1>4. CASE name = "name"
  BY <1>4 DEF Text!playerFields, Text!Field
<1>5. QED
  BY <1>1, <1>2, <1>3, <1>4

LEMMA LocalFieldsAre ==
  ASSUME NEW players, NEW recipient, NEW f \in Text!localFields(players, recipient)
  PROVE  f.kind = "local" /\ f.index = 0 /\ f.name \in {"x", "seq"}
  BY DEF Text!localFields, Text!Field

LEMMA OtherFieldsAre ==
  ASSUME NEW v
  PROVE  /\ Text!Field("ether", 0, "hazard", v).kind = "ether"
         /\ Text!Field("ether", 0, "hazard", v).name = "hazard"
         /\ Text!Field("ether", 0, "hazard", v).index = 0
         /\ Text!Field("ether", 0, "hazard", v).value = v
         /\ Text!Field("npc", 0, "count", v).kind = "npc"
         /\ Text!Field("npc", 0, "count", v).name = "count"
         /\ Text!Field("npc", 0, "count", v).value = v
         /\ Text!Field("player", 0, "count", v).kind = "player"
         /\ Text!Field("player", 0, "count", v).name = "count"
         /\ Text!Field("player", 0, "count", v).value = v
  BY DEF Text!Field

LEMMA FieldsOfKinds ==
  ASSUME NEW players, NEW npcs_, NEW hazard, NEW recipient,
         Printed(players, npcs_, hazard, recipient), NEW f
  PROVE  /\ f \in Text!fieldsOf("ether") <=> f = Text!Field("ether", 0, "hazard", hazard)
         /\ f \in Text!fieldsOf("npc") <=>
              \E i \in DOMAIN npcs_ : f \in Text!npcFields(i, npcs_[i])
         /\ f \in Text!fieldsOf("player") <=>
              \E i \in DOMAIN players : f \in Text!playerFields(i, players[i])
         /\ f \in Text!fieldsOf("local") <=> f \in Text!localFields(players, recipient)
<1>1. \A kind : f \in Text!fieldsOf(kind) <=> f \in text /\ f.kind = kind /\ f.name # "count"
  BY DEF Text!fieldsOf
<1>2. CASE f = Text!Field("ether", 0, "hazard", hazard)
  BY <1>1, <1>2, FieldMembers, OtherFieldsAre, NpcFieldsAre, PlayerFieldsAre, LocalFieldsAre
<1>3. CASE f = Text!Field("npc", 0, "count", Len(npcs_)) \/ f = Text!Field("player", 0, "count", Len(players))
  BY <1>1, <1>3, OtherFieldsAre, NpcFieldsAre, PlayerFieldsAre, LocalFieldsAre
<1>4. CASE \E i \in DOMAIN npcs_ : f \in Text!npcFields(i, npcs_[i])
  BY <1>1, <1>4, FieldMembers, OtherFieldsAre, NpcFieldsAre, PlayerFieldsAre, LocalFieldsAre
<1>5. CASE \E i \in DOMAIN players : f \in Text!playerFields(i, players[i])
  BY <1>1, <1>5, FieldMembers, OtherFieldsAre, NpcFieldsAre, PlayerFieldsAre, LocalFieldsAre
<1>6. CASE f \in Text!localFields(players, recipient)
  BY <1>1, <1>6, FieldMembers, OtherFieldsAre, NpcFieldsAre, PlayerFieldsAre, LocalFieldsAre
<1>7. CASE f \notin text
  BY <1>1, <1>7, FieldMembers
<1>8. QED
  BY <1>2, <1>3, <1>4, <1>5, <1>6, <1>7, FieldMembers

\* A field of an entry is there, with the same value wherever it is.
Found(kind, k, name, v) ==
  /\ \E f : f \in Text!fieldsOf(kind) /\ f.index = k /\ f.name = name
  /\ \A f : f \in Text!fieldsOf(kind) /\ f.index = k /\ f.name = name => f.value = v

LEMMA ValueFound ==
  ASSUME NEW kind, NEW k, NEW name, NEW other_, NEW v, Found(kind, k, name, v)
  PROVE  Text!valueOf(kind, k, name, other_) = v
<1> DEFINE found == {f \in Text!fieldsOf(kind) : f.index = k /\ f.name = name}
<1>1. found # {} /\ \A f \in found : f.value = v
  BY DEF Found
<1>2. Text!valueOf(kind, k, name, other_) =
        IF found = {} THEN other_ ELSE (CHOOSE f \in found : TRUE).value
  BY DEF Text!valueOf
<1> HIDE DEF found
<1>3. (CHOOSE f \in found : TRUE) \in found
  BY <1>1
<1>4. QED
  BY <1>1, <1>2, <1>3

\* The counts are those of the entries.
LEMMA CountsAre ==
  ASSUME NEW players, NEW npcs_, NEW hazard, NEW recipient,
         Printed(players, npcs_, hazard, recipient)
  PROVE  /\ Text!countOf("npc") = Len(npcs_) /\ Text!countOf("player") = Len(players)
         /\ Len(npcs_) \in Nat /\ Len(players) \in Nat
         /\ DOMAIN npcs_ = 1..Len(npcs_) /\ DOMAIN players = 1..Len(players)
<1>1. \A f \in text : f.kind = "npc" /\ f.name = "count" => f.value = Len(npcs_)
  BY FieldMembers, OtherFieldsAre, NpcFieldsAre, PlayerFieldsAre, LocalFieldsAre
<1>2. \A f \in text : f.kind = "player" /\ f.name = "count" => f.value = Len(players)
  BY FieldMembers, OtherFieldsAre, NpcFieldsAre, PlayerFieldsAre, LocalFieldsAre
<1>3. \E f \in text : f.kind = "npc" /\ f.name = "count"
  BY FieldMembers, OtherFieldsAre
<1>4. \E f \in text : f.kind = "player" /\ f.name = "count"
  BY FieldMembers, OtherFieldsAre
<1>5. Text!countOf("npc") = Len(npcs_)
  <2> DEFINE c == CHOOSE f \in text : f.kind = "npc" /\ f.name = "count"
  <2>1. c \in text /\ c.kind = "npc" /\ c.name = "count"
    BY <1>3
  <2>2. Text!countOf("npc") = c.value
    BY DEF Text!countOf
  <2> HIDE DEF c
  <2>3. QED
    BY <1>1, <2>1, <2>2
<1>6. Text!countOf("player") = Len(players)
  <2> DEFINE c == CHOOSE f \in text : f.kind = "player" /\ f.name = "count"
  <2>1. c \in text /\ c.kind = "player" /\ c.name = "count"
    BY <1>4
  <2>2. Text!countOf("player") = c.value
    BY DEF Text!countOf
  <2> HIDE DEF c
  <2>3. QED
    BY <1>2, <2>1, <2>2
<1>7. QED
  BY <1>5, <1>6, LenProperties DEF Printed

\* Every entry is read as it was printed.
LEMMA EntriesAreRead ==
  ASSUME NEW players, NEW npcs_, NEW hazard, NEW recipient,
         Printed(players, npcs_, hazard, recipient)
  PROVE  /\ Text!valueOf("ether", 0, "hazard", -1) = hazard
         /\ \A i \in DOMAIN npcs_ :
              /\ Text!parsedNpc(i - 1) =
                   [id |-> npcs_[i].id, x |-> Text!print(npcs_[i].x), hp |-> npcs_[i].hp]
              /\ Text!valueOf("npc", i - 1, "alive", 0) = 1
         /\ \A i \in DOMAIN players :
              Text!parsedPlayer(i - 1) =
                [id |-> players[i].id, session |-> players[i].session,
                 name |-> Text!trimPlayerName(players[i].name), x |-> Text!print(players[i].x)]
<1>1. Text!valueOf("ether", 0, "hazard", -1) = hazard
  <2>1. \A f : f \in Text!fieldsOf("ether") <=> f = Text!Field("ether", 0, "hazard", hazard)
    BY FieldsOfKinds
  <2>2. \E f \in Text!fieldsOf("ether") : f.index = 0 /\ f.name = "hazard"
    BY <2>1, OtherFieldsAre
  <2>3. \A f \in Text!fieldsOf("ether") : f.index = 0 /\ f.name = "hazard" => f.value = hazard
    BY <2>1, OtherFieldsAre
  <2>4. QED
    BY <2>2, <2>3, ValueFound DEF Found
<1>2. DOMAIN npcs_ = 1..Len(npcs_) /\ DOMAIN players = 1..Len(players)
  BY CountsAre
<1>3. ASSUME NEW i \in DOMAIN npcs_
      PROVE  /\ Text!valueOf("npc", i - 1, "id", 0) = npcs_[i].id
             /\ Text!valueOf("npc", i - 1, "x", 0) = Text!print(npcs_[i].x)
             /\ Text!valueOf("npc", i - 1, "hp", 0) = npcs_[i].hp
             /\ Text!valueOf("npc", i - 1, "alive", 0) = 1
  <2> DEFINE F == Text!fieldsOf("npc")
  <2>1. \A f : f \in F <=> \E j \in DOMAIN npcs_ : f \in Text!npcFields(j, npcs_[j])
    BY FieldsOfKinds
  <2> HIDE DEF F
  <2>2. \A j \in DOMAIN npcs_ : j - 1 = i - 1 => j = i
    BY <1>2
  <2>3. ASSUME NEW f \in F, f.index = i - 1
        PROVE  f \in Text!npcFields(i, npcs_[i])
    <3>1. PICK j \in DOMAIN npcs_ : f \in Text!npcFields(j, npcs_[j])
      BY <2>1
    <3>2. f.index = j - 1
      BY <3>1, NpcFieldsAre
    <3>3. QED
      BY <2>2, <2>3, <3>1, <3>2
  <2>4. \A name \in {"id", "x", "hp", "alive"} : \E f \in F : f.index = i - 1 /\ f.name = name
    BY <2>1, NpcFieldsHave
  <2>5. \A f \in F : f.index = i - 1 =>
          /\ f.name = "id" => f.value = npcs_[i].id
          /\ f.name = "x" => f.value = Text!print(npcs_[i].x)
          /\ f.name = "hp" => f.value = npcs_[i].hp
          /\ f.name = "alive" => f.value = 1
    BY <2>3, NpcFieldsAre
  <2>6. Found("npc", i - 1, "id", npcs_[i].id)
    BY <2>4, <2>5 DEF F, Found
  <2>7. Found("npc", i - 1, "x", Text!print(npcs_[i].x))
    BY <2>4, <2>5 DEF F, Found
  <2>8. Found("npc", i - 1, "hp", npcs_[i].hp)
    BY <2>4, <2>5 DEF F, Found
  <2>9. Found("npc", i - 1, "alive", 1)
    BY <2>4, <2>5 DEF F, Found
  <2>10. QED
    BY <2>6, <2>7, <2>8, <2>9, ValueFound
<1>4. ASSUME NEW i \in DOMAIN players
      PROVE  /\ Text!valueOf("player", i - 1, "session", 0) = players[i].session
             /\ Text!valueOf("player", i - 1, "x", 0) = Text!print(players[i].x)
             /\ Text!valueOf("player", i - 1, "id", 0) = players[i].id
             /\ Text!valueOf("player", i - 1, "name", "") = players[i].name
  <2> DEFINE F == Text!fieldsOf("player")
  <2>1. \A f : f \in F <=> \E j \in DOMAIN players : f \in Text!playerFields(j, players[j])
    BY FieldsOfKinds
  <2> HIDE DEF F
  <2>2. \A j \in DOMAIN players : j - 1 = i - 1 => j = i
    BY <1>2
  <2>3. ASSUME NEW f \in F, f.index = i - 1
        PROVE  f \in Text!playerFields(i, players[i])
    <3>1. PICK j \in DOMAIN players : f \in Text!playerFields(j, players[j])
      BY <2>1
    <3>2. f.index = j - 1
      BY <3>1, PlayerFieldsAre
    <3>3. QED
      BY <2>2, <2>3, <3>1, <3>2
  <2>4. \A name \in {"session", "x", "id", "name"} : \E f \in F : f.index = i - 1 /\ f.name = name
    BY <2>1, PlayerFieldsHave
  <2>5. \A f \in F : f.index = i - 1 =>
          /\ f.name = "session" => f.value = players[i].session
          /\ f.name = "x" => f.value = Text!print(players[i].x)
          /\ f.name = "id" => f.value = players[i].id
          /\ f.name = "name" => f.value = players[i].name
    BY <2>3, PlayerFieldsAre
  <2>6. Found("player", i - 1, "session", players[i].session)
    BY <2>4, <2>5 DEF F, Found
  <2>7. Found("player", i - 1, "x", Text!print(players[i].x))
    BY <2>4, <2>5 DEF F, Found
  <2>8. Found("player", i - 1, "id", players[i].id)
    BY <2>4, <2>5 DEF F, Found
  <2>9. Found("player", i - 1, "name", players[i].name)
    BY <2>4, <2>5 DEF F, Found
  <2>10. QED
    BY <2>6, <2>7, <2>8, <2>9, ValueFound
<1>5. \A i \in DOMAIN npcs_ :
        /\ Text!parsedNpc(i - 1) =
             [id |-> npcs_[i].id, x |-> Text!print(npcs_[i].x), hp |-> npcs_[i].hp]
        /\ Text!valueOf("npc", i - 1, "alive", 0) = 1
  BY <1>3 DEF Text!parsedNpc
<1>6. \A i \in DOMAIN players :
        Text!parsedPlayer(i - 1) =
          [id |-> players[i].id, session |-> players[i].session,
           name |-> Text!trimPlayerName(players[i].name), x |-> Text!print(players[i].x)]
  BY <1>4 DEF Text!parsedPlayer
<1>7. QED
  BY <1>1, <1>5, <1>6

LEMMA LocalFieldsAreTwo ==
  ASSUME NEW players, NEW recipient
  PROVE  Text!Cardinality(Text!localFields(players, recipient)) \in {0, 2}
<1> DEFINE locals == Text!localFields(players, recipient)
<1>1. locals = {} \/ \E a, b : locals = {a, b} /\ a.name = "x" /\ b.name = "seq"
  <2> DEFINE mine == {i \in DOMAIN players : players[i].session = recipient}
             a == Text!Field("local", 0, "x", Text!print(players[Text!Min(mine)].x))
             b == Text!Field("local", 0, "seq", recipient)
  <2>1. a.name = "x" /\ b.name = "seq"
    BY DEF Text!Field
  <2>2. locals = IF mine = {} THEN {} ELSE {a, b}
    BY DEF Text!localFields
  <2> HIDE DEF mine, a, b, locals
  <2>3. QED
    BY <2>1, <2>2
<1> HIDE DEF locals
<1>2. CASE locals = {}
  BY <1>2, FS_EmptySet, CountsAgree DEF locals
<1>3. ASSUME NEW a, NEW b, locals = {a, b}, a.name = "x", b.name = "seq"
      PROVE  Text!Cardinality(locals) \in {0, 2}
  <2>1. b \notin {a} /\ locals = {a} \cup {b}
    BY <1>3
  <2>2. IsFiniteSet({a}) /\ Cardinality({a}) = 1
    BY FS_Singleton
  <2>3. Cardinality({a} \cup {b}) = 2
    BY <2>1, <2>2, FS_AddElement
  <2>4. QED
    BY <2>1, <2>3, CountsAgree
<1>4. QED
  BY <1>1, <1>2, <1>3 DEF locals

\* The entries are numbered from 0 on, without a gap.
LEMMA IndexesAreCounted ==
  ASSUME NEW kind, NEW n \in Nat,
         \A f \in Text!fieldsOf(kind) : f.index \in 0..(n - 1),
         \A i \in 1..n : \E f : f \in Text!fieldsOf(kind) /\ f.index = i - 1
  PROVE  Text!Cardinality(Text!indexes(kind)) = n
<1>1. \A k \in 0..(n - 1) : \E f : f \in Text!fieldsOf(kind) /\ f.index = k
  <2> SUFFICES ASSUME NEW k \in 0..(n - 1)
               PROVE  \E f : f \in Text!fieldsOf(kind) /\ f.index = k
    OBVIOUS
  <2>1. k + 1 \in 1..n /\ (k + 1) - 1 = k
    OBVIOUS
  <2>2. QED
    BY <2>1
<1>2. Text!indexes(kind) = 0..(n - 1)
  BY <1>1 DEF Text!indexes
<1>3. Cardinality(0..(n - 1)) = n
  BY FS_Interval
<1>4. QED
  BY <1>2, <1>3, CountsAgree

\* The parser takes what the builder printed, up to its limits.
LEMMA TextIsTaken ==
  ASSUME NEW players, NEW npcs_, NEW hazard, NEW recipient,
         Printed(players, npcs_, hazard, recipient)
  PROVE  Text!parses <=> Len(players) < MaxEntries /\ Len(npcs_) < MaxEntries
<1> DEFINE n == Len(npcs_)
           p == Len(players)
<1>1. /\ Text!countOf("npc") = n /\ Text!countOf("player") = p /\ n \in Nat /\ p \in Nat
      /\ DOMAIN npcs_ = 1..n /\ DOMAIN players = 1..p
  BY CountsAre
<1>2. /\ \A i \in 1..n : npcs_[i] \in BeastEntry
      /\ \A i \in 1..p : players[i] \in PoseEntry
      /\ hazard \in 0..MaxHazard
  BY ElementOfSeq DEF Printed
<1> HIDE DEF n, p
<1>3. /\ Text!valueOf("ether", 0, "hazard", -1) = hazard
      /\ \A i \in 1..n :
           /\ Text!parsedNpc(i - 1) =
                [id |-> npcs_[i].id, x |-> Text!print(npcs_[i].x), hp |-> npcs_[i].hp]
           /\ Text!valueOf("npc", i - 1, "alive", 0) = 1
      /\ \A i \in 1..p :
           Text!parsedPlayer(i - 1) =
             [id |-> players[i].id, session |-> players[i].session,
              name |-> Text!trimPlayerName(players[i].name), x |-> Text!print(players[i].x)]
  BY <1>1, EntriesAreRead
<1>4. Text!valueOf("ether", 0, "hazard", -1) \in 0..MaxHazard
  BY <1>2, <1>3
<1>5. \A k \in 0..(n - 1) : Text!parsedNpc(k).id > 0 /\ Text!valueOf("npc", k, "alive", 0) = 1
  <2> SUFFICES ASSUME NEW k \in 0..(n - 1)
               PROVE  Text!parsedNpc(k).id > 0 /\ Text!valueOf("npc", k, "alive", 0) = 1
    OBVIOUS
  <2> DEFINE i == k + 1
  <2>1. i \in 1..n /\ i - 1 = k
    BY <1>1
  <2> HIDE DEF i
  <2>2. /\ Text!parsedNpc(k) =
             [id |-> npcs_[i].id, x |-> Text!print(npcs_[i].x), hp |-> npcs_[i].hp]
        /\ Text!valueOf("npc", k, "alive", 0) = 1
    BY <1>3, <2>1
  <2>3. npcs_[i].id \in Nat \ {0}
    BY <1>2, <2>1 DEF BeastEntry
  <2>4. QED
    BY <2>1, <2>2, <2>3
<1>6. \A k \in 0..(p - 1) : Text!parsedPlayer(k).session > 0 /\ Text!parsedPlayer(k).name # ""
  <2> SUFFICES ASSUME NEW k \in 0..(p - 1)
               PROVE  Text!parsedPlayer(k).session > 0 /\ Text!parsedPlayer(k).name # ""
    OBVIOUS
  <2> DEFINE i == k + 1
  <2>1. i \in 1..p /\ i - 1 = k
    BY <1>1
  <2> HIDE DEF i
  <2>2. Text!parsedPlayer(k) =
          [id |-> players[i].id, session |-> players[i].session,
           name |-> Text!trimPlayerName(players[i].name), x |-> Text!print(players[i].x)]
    BY <1>3, <2>1
  <2>3. players[i].session \in Nat \ {0} /\ players[i].name \in {"plain", "other"}
    BY <1>2, <2>1 DEF PoseEntry
  <2>4. Text!trimPlayerName(players[i].name) \in {"plain", "other"}
    BY <2>3 DEF Text!trimPlayerName
  <2>5. Text!parsedPlayer(k).session > 0
    BY <2>1, <2>2, <2>3
  <2>6. Text!parsedPlayer(k).name # ""
    <3> DEFINE name == Text!trimPlayerName(players[i].name)
    <3>1. Text!parsedPlayer(k).name = name
      BY <2>2
    <3>2. name \in {"plain", "other"}
      BY <2>4
    <3> HIDE DEF name
    <3>3. name # ""
      BY ONLY <3>2
    <3>4. QED
      BY ONLY <3>1, <3>3
  <2>7. QED
    BY <2>5, <2>6
<1>7. \A f \in Text!fieldsOf("player") : f.name = "name" => f.value # "split"
  <2> SUFFICES ASSUME NEW f \in Text!fieldsOf("player"), f.name = "name"
               PROVE  f.value # "split"
    OBVIOUS
  <2>1. PICK i \in DOMAIN players : f \in Text!playerFields(i, players[i])
    BY FieldsOfKinds
  <2>2. f.value = players[i].name
    BY <2>1, PlayerFieldsAre
  <2>3. players[i].name \in {"plain", "other"}
    BY <1>1, <1>2 DEF PoseEntry
  <2>4. QED
    BY <2>2, <2>3
<1>8. Text!Cardinality(Text!indexes("npc")) = n
  <2>1. \A f \in Text!fieldsOf("npc") : f.index \in 0..(n - 1)
    <3> SUFFICES ASSUME NEW f \in Text!fieldsOf("npc")
                 PROVE  f.index \in 0..(n - 1)
      OBVIOUS
    <3>1. PICK i \in DOMAIN npcs_ : f \in Text!npcFields(i, npcs_[i])
      BY FieldsOfKinds
    <3>2. f.index = i - 1 /\ i \in 1..n
      BY <1>1, <3>1, NpcFieldsAre
    <3>3. QED
      BY <1>1, <3>2
  <2>2. \A i \in 1..n : \E f : f \in Text!fieldsOf("npc") /\ f.index = i - 1
    <3> SUFFICES ASSUME NEW i \in 1..n
                 PROVE  \E f : f \in Text!fieldsOf("npc") /\ f.index = i - 1
      OBVIOUS
    <3>1. PICK f \in Text!npcFields(i, npcs_[i]) : f.index = i - 1 /\ f.name = "id"
      BY NpcFieldsHave
    <3>2. f \in Text!fieldsOf("npc")
      BY <1>1, <3>1, FieldsOfKinds
    <3>3. QED
      BY <3>1, <3>2
  <2>3. QED
    BY <1>1, <2>1, <2>2, IndexesAreCounted
<1>9. Text!Cardinality(Text!indexes("player")) = p
  <2>1. \A f \in Text!fieldsOf("player") : f.index \in 0..(p - 1)
    <3> SUFFICES ASSUME NEW f \in Text!fieldsOf("player")
                 PROVE  f.index \in 0..(p - 1)
      OBVIOUS
    <3>1. PICK i \in DOMAIN players : f \in Text!playerFields(i, players[i])
      BY FieldsOfKinds
    <3>2. f.index = i - 1 /\ i \in 1..p
      BY <1>1, <3>1, PlayerFieldsAre
    <3>3. QED
      BY <1>1, <3>2
  <2>2. \A i \in 1..p : \E f : f \in Text!fieldsOf("player") /\ f.index = i - 1
    <3> SUFFICES ASSUME NEW i \in 1..p
                 PROVE  \E f : f \in Text!fieldsOf("player") /\ f.index = i - 1
      OBVIOUS
    <3>1. PICK f \in Text!playerFields(i, players[i]) : f.index = i - 1 /\ f.name = "id"
      BY PlayerFieldsHave
    <3>2. f \in Text!fieldsOf("player")
      BY <1>1, <3>1, FieldsOfKinds
    <3>3. QED
      BY <3>1, <3>2
  <2>3. QED
    BY <1>1, <2>1, <2>2, IndexesAreCounted
<1>10. Text!Cardinality(Text!fieldsOf("local")) \in {0, 2}
  <2>1. Text!fieldsOf("local") = Text!localFields(players, recipient)
    BY FieldsOfKinds
  <2>2. QED
    BY <2>1, LocalFieldsAreTwo
<1>11. Text!countsMatch("npc") <=> n < MaxEntries
  <2>1. n \in 0..(MaxEntries - 1) <=> n < MaxEntries
    BY <1>1, PartsAssumption
  <2>2. QED
    BY <1>1, <1>8, <2>1 DEF Text!countsMatch
<1>12. Text!countsMatch("player") <=> p < MaxEntries
  <2>1. p \in 0..(MaxEntries - 1) <=> p < MaxEntries
    BY <1>1, PartsAssumption
  <2>2. QED
    BY <1>1, <1>9, <2>1 DEF Text!countsMatch
<1>13. Text!parses <=> Text!countsMatch("npc") /\ Text!countsMatch("player")
  BY <1>1, <1>4, <1>5, <1>6, <1>7, <1>10 DEF Text!parses
<1>14. QED
  BY <1>11, <1>12, <1>13 DEF n, p

\* A text on its way is a printed one.
LEMMA TextIsPrinted ==
  ASSUME TextInv, text # {}
  PROVE  Printed(shot.players, shot.npcs, shot.hazard, shot.recipient)
  BY DEF TextInv, TextShows, Printed

LEMMA TextInvHolds == Text!Spec => []TextInv
<1>1. QED
  BY TextInitial, TextInvStep, PTL DEF Text!Spec

\* A behaviour of WorldParts is one of SnapshotText.
LEMMA PartsAreTexts == Spec => Text!Spec
<1>1. Init => Text!Init
  BY DEF Init
<1>2. [Next]_partsVars => [Text!Next]_(Text!snapshotVars)
  BY DEF Next, IntakeStep, LoginStep, NpcStep, TextStep, PredictionStep, partsVars, textVars,
         Text!snapshotVars
<1>3. QED
  BY <1>1, <1>2, PTL DEF Spec, Text!Spec

\* A text within the size of an update has fewer players and fewer NPCs than the
\* client accepts.
LEMMA SizeBoundsEntries ==
  ASSUME NEW n \in Nat, NEW m \in Nat,
         HeadSize + SmallestEntry * (n + m) <= MaxPayload
  PROVE  n < MaxEntries /\ m < MaxEntries
<1>1. /\ HeadSize \in Nat /\ SmallestEntry \in Nat /\ MaxPayload \in Nat /\ MaxEntries \in Nat
      /\ SmallestEntry * MaxEntries > MaxPayload
  BY PartsAssumption, SizesAssumption
<1> DEFINE total == n + m
           k == total - MaxEntries
<1>2. total \in Nat /\ HeadSize + SmallestEntry * total <= MaxPayload
  OBVIOUS
<1>3. ~(total >= MaxEntries)
  <2> SUFFICES ASSUME total >= MaxEntries PROVE FALSE
    OBVIOUS
  <2> HIDE DEF total
  <2>1. k \in Nat /\ total = MaxEntries + k
    BY <1>1, <1>2
  <2> HIDE DEF k
  <2>2. SmallestEntry * k \in Nat
    BY <1>1, <2>1
  <2>3. SmallestEntry * total = SmallestEntry * MaxEntries + SmallestEntry * k
    BY <1>1, <2>1
  <2> DEFINE a == SmallestEntry * MaxEntries
             b == SmallestEntry * k
  <2>4. a \in Nat /\ b \in Nat /\ HeadSize + (a + b) <= MaxPayload /\ a > MaxPayload
    BY <1>1, <1>2, <2>2, <2>3
  <2> HIDE DEF a, b
  <2>5. QED
    BY <1>1, <2>4
<1>4. QED
  BY <1>1, <1>3

\* For any number of players and NPCs, whatever names they were given and
\* whoever has left, only the size of its text can keep a Field from being sent,
\* and the applier takes whatever text is sent.
THEOREM SnapshotsAreTaken == Spec => []SnapshotsAreAccepted
<1>1. TextInv => SnapshotsAreAccepted
  <2> SUFFICES ASSUME TextInv
               PROVE  SnapshotsAreAccepted
    OBVIOUS
  <2>1. HeadSize + LargestEntry * (Len(shot.players) + Len(shot.npcs)) + LargestLocal
          <= MaxPayload => shot.ok
    BY DEF TextInv, TextShows, EntryCount
  <2>2. ASSUME text # {}
        PROVE  Text!parses
    <3> DEFINE n == Len(shot.players)
               m == Len(shot.npcs)
    <3>1. n \in Nat /\ m \in Nat
      BY LenProperties DEF TextInv, TextShows
    <3>2. HeadSize + SmallestEntry * (n + m) <= MaxPayload
      BY <2>2 DEF TextInv, TextShows, EntryCount
    <3>3. n < MaxEntries /\ m < MaxEntries
      <4> HIDE DEF n, m
      <4>1. QED
        BY <3>1, <3>2, SizeBoundsEntries
    <3>4. QED
      BY <2>2, <3>3, TextIsPrinted, TextIsTaken
  <2>3. QED
    BY <2>1, <2>2 DEF SnapshotsAreAccepted, Text!SnapshotsAreAccepted, Text!NoText
<1>2. QED
  BY <1>1, TextInvHolds, PartsAreTexts, PTL

\* What print keeps of a place is near it.
LEMMA PrintIsNear ==
  ASSUME NEW n \in Int
  PROVE  Text!near(Text!print(n), n)
<1> DEFINE r == n % Precision
<1>1. r \in 0..(Precision - 1) /\ Precision \in Nat \ {0}
  BY PartsAssumption
<1> HIDE DEF r
<1>2. (n - r) - n \in (1 - Precision)..(Precision - 1)
  BY <1>1
<1>3. QED
  BY <1>2 DEF Text!near, Text!print, r

\* The recipient's own fields are those of one of the players shown.
LEMMA LocalFieldsAreOwn ==
  ASSUME NEW players \in Seq(PoseEntry), NEW recipient,
         Text!localFields(players, recipient) # {}
  PROVE  \E i \in DOMAIN players :
           /\ players[i].session = recipient
           /\ Text!localFields(players, recipient) =
                {Text!Field("local", 0, "x", Text!print(players[i].x)),
                 Text!Field("local", 0, "seq", recipient)}
<1> DEFINE chosen == {i \in DOMAIN players : players[i].session = recipient}
           i == Text!Min(chosen)
<1>1. /\ chosen # {}
      /\ Text!localFields(players, recipient) =
           {Text!Field("local", 0, "x", Text!print(players[i].x)),
            Text!Field("local", 0, "seq", recipient)}
  BY DEF Text!localFields
<1>2. chosen \subseteq DOMAIN players /\ chosen \subseteq Nat
  BY LenProperties
<1> HIDE DEF chosen
<1>3. \E n \in chosen : \A m \in chosen : n <= m
  BY <1>1, <1>2, LeastNumber
<1>4. i \in chosen
  BY <1>3 DEF Text!Min
<1> HIDE DEF i
<1>5. i \in DOMAIN players /\ players[i].session = recipient
  BY <1>4 DEF chosen
<1>6. QED
  BY <1>1, <1>5 DEF i

\* What the client has after the text was applied.
LEMMA AppliedIsShown ==
  ASSUME NEW players, NEW npcs_, NEW hazard, NEW recipient, NEW e,
         Printed(players, npcs_, hazard, recipient), e = Text!parsePayload
  PROVE  /\ e.hazard = hazard
         /\ Len(e.players) = Len(players)
         /\ \A i \in DOMAIN players :
              /\ e.players[i].session = players[i].session /\ e.players[i].id = players[i].id
              /\ e.players[i].name = players[i].name
              /\ Text!near(e.players[i].x, players[i].x)
         /\ [i \in DOMAIN e.npcs |-> e.npcs[i].id] = [i \in DOMAIN npcs_ |-> npcs_[i].id]
         /\ e.hasLocalPlayer =>
              \E i \in DOMAIN players : players[i].session = recipient
                                        /\ Text!near(e.localX, players[i].x)
<1> DEFINE n == Len(npcs_)
           p == Len(players)
<1>1. /\ Text!countOf("npc") = n /\ Text!countOf("player") = p /\ n \in Nat /\ p \in Nat
      /\ DOMAIN npcs_ = 1..n /\ DOMAIN players = 1..p
  BY CountsAre
<1>2. \A i \in 1..p : players[i] \in PoseEntry
  BY ElementOfSeq DEF Printed
<1> HIDE DEF n, p
<1>3. /\ Text!valueOf("ether", 0, "hazard", -1) = hazard
      /\ \A i \in 1..n :
           Text!parsedNpc(i - 1) =
             [id |-> npcs_[i].id, x |-> Text!print(npcs_[i].x), hp |-> npcs_[i].hp]
      /\ \A i \in 1..p :
           Text!parsedPlayer(i - 1) =
             [id |-> players[i].id, session |-> players[i].session,
              name |-> Text!trimPlayerName(players[i].name), x |-> Text!print(players[i].x)]
  BY <1>1, EntriesAreRead
<1>4. /\ e.hazard = Text!valueOf("ether", 0, "hazard", -1)
      /\ e.npcs = [i \in 1..n |-> Text!parsedNpc(i - 1)]
      /\ e.players = [i \in 1..p |-> Text!parsedPlayer(i - 1)]
      /\ e.hasLocalPlayer = (Text!fieldsOf("local") # {})
      /\ e.localX = Text!valueOf("local", 0, "x", 0)
  BY <1>1 DEF Text!parsePayload
<1>5. Len(e.players) = p
  BY <1>1, <1>4
<1>6. ASSUME NEW i \in DOMAIN players
      PROVE  /\ e.players[i].session = players[i].session /\ e.players[i].id = players[i].id
             /\ e.players[i].name = players[i].name
             /\ Text!near(e.players[i].x, players[i].x)
  <2>1. i \in 1..p
    BY <1>1
  <2>2. e.players[i] = Text!parsedPlayer(i - 1)
    BY <1>4, <2>1
  <2> DEFINE q == [id |-> players[i].id, session |-> players[i].session,
                   name |-> Text!trimPlayerName(players[i].name),
                   x |-> Text!print(players[i].x)]
  <2>3. e.players[i] = q
    BY <1>3, <2>1, <2>2
  <2>4. /\ q.session = players[i].session /\ q.id = players[i].id
        /\ q.name = Text!trimPlayerName(players[i].name) /\ q.x = Text!print(players[i].x)
    OBVIOUS
  <2> HIDE DEF q
  <2>5. /\ e.players[i].session = players[i].session /\ e.players[i].id = players[i].id
        /\ e.players[i].name = Text!trimPlayerName(players[i].name)
        /\ e.players[i].x = Text!print(players[i].x)
    BY <2>4, <2>3
  <2>6. players[i].name \in {"plain", "other"} /\ players[i].x \in Int
    BY <1>2, <2>1 DEF PoseEntry
  <2>7. Text!trimPlayerName(players[i].name) = players[i].name
    BY <2>6 DEF Text!trimPlayerName
  <2>8. Text!near(Text!print(players[i].x), players[i].x)
    BY <2>6, PrintIsNear
  <2>9. QED
    BY <2>5, <2>7, <2>8
<1>7. [i \in DOMAIN e.npcs |-> e.npcs[i].id] = [i \in DOMAIN npcs_ |-> npcs_[i].id]
  <2>1. DOMAIN e.npcs = 1..n
    BY <1>4
  <2>2. \A i \in 1..n : e.npcs[i].id = npcs_[i].id
    <3> SUFFICES ASSUME NEW i \in 1..n
                 PROVE  e.npcs[i].id = npcs_[i].id
      OBVIOUS
    <3> DEFINE b == [id |-> npcs_[i].id, x |-> Text!print(npcs_[i].x), hp |-> npcs_[i].hp]
    <3>1. Text!parsedNpc(i - 1) = b
      BY <1>3
    <3>2. b.id = npcs_[i].id
      OBVIOUS
    <3> HIDE DEF b
    <3>3. e.npcs[i] = Text!parsedNpc(i - 1)
      BY <1>4
    <3>4. QED
      BY <3>1, <3>2, <3>3
  <2>3. QED
    BY <1>1, <2>1, <2>2
<1>8. ASSUME e.hasLocalPlayer
      PROVE  \E i \in DOMAIN players : players[i].session = recipient
                                       /\ Text!near(e.localX, players[i].x)
  <2> DEFINE locals == Text!localFields(players, recipient)
             F == Text!fieldsOf("local")
  <2>1. F = locals /\ F # {}
    BY <1>4, <1>8, FieldsOfKinds
  <2>2. players \in Seq(PoseEntry)
    BY DEF Printed
  <2>3. PICK i \in DOMAIN players :
          /\ players[i].session = recipient
          /\ locals = {Text!Field("local", 0, "x", Text!print(players[i].x)),
                       Text!Field("local", 0, "seq", recipient)}
    BY <2>1, <2>2, LocalFieldsAreOwn
  <2> DEFINE a == Text!Field("local", 0, "x", Text!print(players[i].x))
             b == Text!Field("local", 0, "seq", recipient)
  <2>4. /\ a.index = 0 /\ a.name = "x" /\ a.value = Text!print(players[i].x)
        /\ b.name = "seq"
    BY DEF Text!Field
  <2>5. \A f : f \in F <=> f = a \/ f = b
    BY <2>1, <2>3
  <2> HIDE DEF locals, F, a, b
  <2>6. Found("local", 0, "x", Text!print(players[i].x))
    BY <2>4, <2>5 DEF Found, F
  <2>7. e.localX = Text!print(players[i].x)
    BY <1>4, <2>6, ValueFound
  <2>8. players[i].x \in Int
    BY <1>1, <1>2 DEF PoseEntry
  <2>9. QED
    BY <2>3, <2>7, <2>8, PrintIsNear
<1>9. QED
  BY <1>3, <1>4, <1>5, <1>6, <1>7, <1>8 DEF p

\* A Snapshot that the applier takes gives the client exactly the players, NPCs
\* and hazard that the Field showed when it was captured: names and ids as they
\* are, places to the precision of the text, and its own place among them.
THEOREM AppliedSnapshotsAreExact == Spec => SnapshotsAreExact
<1> DEFINE Exact ==
             Text!ApplySnapshot /\ Text!parses =>
               /\ environment'.hazard = shot.hazard
               /\ Len(environment'.players) = Len(shot.players)
               /\ \A i \in DOMAIN shot.players :
                    LET p == shot.players[i]
                        q == environment'.players[i]
                    IN q.session = p.session /\ q.id = p.id /\ q.name = p.name /\ Text!near(q.x, p.x)
               /\ [i \in DOMAIN environment'.npcs |-> environment'.npcs[i].id]
                    = [i \in DOMAIN shot.npcs |-> shot.npcs[i].id]
               /\ environment'.hasLocalPlayer =>
                    \E i \in DOMAIN shot.players :
                      shot.players[i].session = shot.recipient
                      /\ Text!near(environment'.localX, shot.players[i].x)
<1>1. TextInv => Exact
  <2> SUFFICES ASSUME TextInv, Text!ApplySnapshot, Text!parses
               PROVE  Exact
    OBVIOUS
  <2>1. text # {} /\ environment' = Text!parsePayload
    BY DEF Text!ApplySnapshot, Text!NoText
  <2>2. Printed(shot.players, shot.npcs, shot.hazard, shot.recipient)
    BY <2>1, TextIsPrinted
  <2>3. QED
    BY <2>1, <2>2, AppliedIsShown
<1>2. TextInv => [Exact]_(Text!snapshotVars)
  BY <1>1
<1>3. QED
  BY <1>2, TextInvHolds, PartsAreTexts, PTL DEF SnapshotsAreExact, Text!SnapshotsAreExact
=============================================================================
