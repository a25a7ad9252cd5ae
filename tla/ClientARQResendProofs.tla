------------------------- MODULE ClientARQResendProofs -------------------------
(***************************************************************************)
(* No retransmission of ClientARQ is lost, for every set of sessions and   *)
(* messages.  AInv says who sees to a tracked message: a timer, the resend *)
(* queue, the egress worker, or the ingress worker as long as no resend    *)
(* has moved the message on behind its back.                               *)
(***************************************************************************)
EXTENDS ClientARQProofs

Scheduled(m) ==
    \/ SURBID[m] \in arqTimerQueue
    \/ SURBID[m] \in resendCh[AppOf[m]]
    \/ egress.pc \in {"resend", "send"} /\ egress.surb = SURBID[m]

InHand(m) ==
    /\ ingress.pc # "idle" /\ ingress.msg = m
    /\ ingress.pc = "rotate" => ingress.old = SURBID[m]
    /\ ingress.pc = "send" => ingress.surb = SURBID[m]

SeenTo == \A m \in Msgs : Tracked(m) /\ Live(m) /\ gen[AppOf[m]] = 1 => Scheduled(m) \/ InHand(m)

\* A message whose payload arrived is on its way out of the maps.
Closing ==
    /\ \A m \in Msgs : Tracked(m) /\ state[m] = "PayloadReceived" => ingress.pc = "finish" /\ ingress.msg = m
    /\ \A m \in Msgs : minted[m] = 0 => state[m] = "WaitingForACK"

\* The SURB whose timer IngressSend cancels is nobody's.
Retired == ingress.pc = "send" => /\ ingress.old[2] <= minted[ingress.old[1]]
                                  /\ \A m \in Msgs : SURBID[m] # ingress.old

Connected == \A a \in Apps : gen[a] >= 1

AInv == SeenTo /\ Closing /\ Retired /\ Connected

\* What the proof assumes of a step: the invariants before it, and which of
\* the three effects it has on the maps.
StepFacts ==
    /\ IInv /\ CInv /\ AInv /\ MaxComposeFailures = 0
    /\ \A m \in Msgs : KindOf[m] # "read"
    /\ Removes \/ (\E m \in Msgs : RekeysTracked(m)) \/ StartResending

Guarded(m) == Tracked(m) /\ Live(m) /\ gen[AppOf[m]] = 1 => Scheduled(m) \/ InHand(m)

\* A message is tracked under its current identifier.
LEMMA TrackedAt ==
    ASSUME IInv, NEW m \in Msgs
    PROVE  Tracked(m) <=> SURBID[m] \in SURBs /\ arqSurbIDMap[SURBID[m]] = m
BY SurbFacts DEF IInv, TypeOK, SurbMapExact, Tracked

\* Identifiers of different messages differ.
LEMMA OwnSurb ==
    ASSUME IInv, NEW m \in Msgs, NEW n \in Msgs, SURBID[m] # None, SURBID[m] = SURBID[n]
    PROVE  m = n
BY DEF IInv, Minting

\* Only a start makes a message tracked that was not.
LEMMA TrackedFrom ==
    ASSUME StepFacts, NEW m \in Msgs, Tracked(m)'
    PROVE  Tracked(m) \/ (StartResending /\ m = egress.msg)
<1>0. TMaps /\ IInv
    BY TypeParts DEF StepFacts, IInv
<1>1. CASE Removes
    BY <1>1, SurbFacts DEF Removes, Tracked
<1>2. ASSUME NEW n \in Msgs, RekeysTracked(n) PROVE Tracked(m)
    BY <1>0, <1>2, SurbFacts DEF RekeysTracked, Rekey, Tracked
<1>3. CASE StartResending
    <2>1. arqSurbIDMap' = [arqSurbIDMap EXCEPT ![Fresh(egress.msg)] = egress.msg]
        BY <1>3 DEF StartResending
    <2> QED
        BY <1>0, <1>3, <2>1, SurbFacts DEF Tracked, TMaps
<1> QED
    BY <1>1, <1>2, <1>3 DEF StepFacts

\* Who leaves a message's identifier, timer, queue and workers alone leaves
\* it guarded.
LEMMA GuardKept ==
    ASSUME StepFacts, NEW m \in Msgs, Tracked(m)' => Tracked(m), SURBID'[m] = SURBID[m],
           Live(m)' /\ gen'[AppOf[m]] = 1 => Live(m) /\ gen[AppOf[m]] = 1,
           Tracked(m) /\ Live(m)' /\ Scheduled(m) => Scheduled(m)',
           Tracked(m)' /\ Live(m)' /\ InHand(m) => InHand(m)' \/ Scheduled(m)'
    PROVE  Guarded(m)'
BY DEF StepFacts, AInv, SeenTo, Guarded

\* The readers, the sender, the timer queue, the network and the connections
\* leave every message guarded.
LEMMA GuardedByOthers ==
    ASSUME StepFacts, NEW m \in Msgs,
           \/ \E n \in Msgs : Start(n) \/ Cancel(n)
           \/ \E a \in Apps : AnswerCancel(a) \/ PickNextRequest(a) \/ Disconnect(a) \/ Resume(a) \/ Close(a)
           \/ \E s \in SURBs : Lose(s) \/ enqueueResend(s)
           \/ UNCHANGED vars
    PROVE  Guarded(m)'
<1> USE DEF maps, message, sessions, cancels
<1>0. /\ IInv /\ CInv /\ TChannels /\ TMaps /\ TCalls /\ TEgress /\ AppOf[m] \in Apps /\ Connected
      /\ Tracked(m) => SURBID[m] \in SURBs /\ arqSurbIDMap[SURBID[m]] = m
    BY TypeParts, TrackedAt, ARQAssumption DEF StepFacts, IInv, AInv, ARQConstants
<1>1. ASSUME \/ \E n \in Msgs : Start(n) \/ Cancel(n)
             \/ \E s \in SURBs : Lose(s)
             \/ UNCHANGED vars
      PROVE  Guarded(m)'
  <2>1. UNCHANGED <<session, gen, SURBID, arqTimerQueue, resendCh, egress, ingress>>
      BY <1>1, Zenon DEF Start, Cancel, Lose, vars
  <2>2. ~StartResending
      BY <1>0, <2>1 DEF StartResending, TEgress, EgressTypes
  <2> QED
      BY <2>1, <2>2, TrackedFrom, GuardKept DEF Live, Scheduled, InHand
<1>2. ASSUME NEW a \in Apps, AnswerCancel(a) PROVE Guarded(m)'
  <2>1. UNCHANGED <<session, gen, SURBID, arqSurbIDMap, resendCh, egress, ingress>>
      BY <1>2 DEF AnswerCancel
  <2>2. canceller[a].pc = "answer"
        /\ \/ arqTimerQueue' = arqTimerQueue
           \/ canceller[a].found # None /\ arqTimerQueue' = arqTimerQueue \ {SURBID[canceller[a].found]}
      BY <1>2, Zenon DEF AnswerCancel
  <2>3. canceller[a].found # None => canceller[a].found \in Msgs /\ ~Tracked(canceller[a].found)
      BY <1>0, <2>2 DEF CInv, CancelledGone, Gone, TCalls, CancellerTypes
  <2>4. Tracked(m) => (SURBID[m] \in arqTimerQueue => SURBID[m] \in arqTimerQueue')
      BY <1>0, <2>2, <2>3, OwnSurb, SurbFacts
  <2> QED
      BY <2>1, <2>4, GuardKept DEF Live, Scheduled, InHand, Tracked
<1>3. ASSUME NEW a \in Apps, PickNextRequest(a) PROVE Guarded(m)'
  <2>1. UNCHANGED <<session, gen, SURBID, arqSurbIDMap, arqTimerQueue, ingress>> /\ egress.pc = "idle"
      BY <1>3 DEF PickNextRequest
  <2>2. \/ \E s \in resendCh[a] : /\ resendCh' = [resendCh EXCEPT ![a] = @ \ {s}]
                                  /\ egress' = [pc |-> "resend", msg |-> None, surb |-> s]
        \/ resendCh' = resendCh
      BY <1>3, Zenon DEF PickNextRequest
  <2>3. SURBID[m] \in resendCh[AppOf[m]] => Scheduled(m)'
      BY <1>0, <2>1, <2>2 DEF Scheduled, TChannels
  <2> QED
      BY <2>1, <2>3, GuardKept DEF Live, Scheduled, InHand, Tracked
<1>4. ASSUME NEW a \in Apps, Disconnect(a) PROVE Guarded(m)'
  <2>1. /\ UNCHANGED <<gen, SURBID, arqSurbIDMap, arqTimerQueue, ingress, egress>>
        /\ session' = [session EXCEPT ![a] = "grace"] /\ resendCh' = [resendCh EXCEPT ![a] = {}]
      BY <1>4 DEF Disconnect
  <2>2. /\ Live(m)' => AppOf[m] # a /\ Live(m)
        /\ AppOf[m] # a => resendCh'[AppOf[m]] = resendCh[AppOf[m]]
      BY <1>0, <2>1 DEF Live, TChannels
  <2> QED
      BY <2>1, <2>2, GuardKept, SMTT(30) DEF Scheduled, InHand, Tracked
<1>5. ASSUME NEW a \in Apps, Resume(a) PROVE Guarded(m)'
  <2>1. /\ UNCHANGED <<SURBID, arqSurbIDMap, arqTimerQueue, resendCh, ingress, egress>>
        /\ session' = [session EXCEPT ![a] = "live"] /\ gen' = [gen EXCEPT ![a] = @ + 1]
      BY <1>5 DEF Resume
  <2>2. Live(m)' /\ gen'[AppOf[m]] = 1 => Live(m) /\ gen[AppOf[m]] = 1
      BY <1>0, <2>1 DEF Live, TChannels, Connected
  <2> QED
      BY <2>1, <2>2, GuardKept DEF Scheduled, InHand, Tracked
<1>6. ASSUME NEW a \in Apps, Close(a) PROVE Guarded(m)'
  <2>1. /\ UNCHANGED <<gen, SURBID, ingress, egress>>
        /\ session' = [session EXCEPT ![a] = "closed"] /\ resendCh' = [resendCh EXCEPT ![a] = {}]
        /\ arqTimerQueue' = arqTimerQueue \ {SURBID[n] : n \in {k \in Msgs : AppOf[k] = a /\ Tracked(k)}}
      BY <1>6 DEF Close
  <2>2. /\ Live(m)' => AppOf[m] # a /\ Live(m)
        /\ AppOf[m] # a => resendCh'[AppOf[m]] = resendCh[AppOf[m]]
      BY <1>0, <2>1 DEF Live, TChannels
  <2>3. Tracked(m) /\ AppOf[m] # a => (SURBID[m] \in arqTimerQueue => SURBID[m] \in arqTimerQueue')
      BY <1>0, <2>1, OwnSurb, SurbFacts
  <2>4. Tracked(m)' => Tracked(m)
    <3>1. ~StartResending
        BY <1>0, <2>1 DEF StartResending, TEgress, EgressTypes
    <3> QED
        BY <3>1, TrackedFrom
  <2> QED
      BY <2>1, <2>2, <2>3, <2>4, GuardKept DEF Scheduled, InHand
<1>7. ASSUME NEW s \in SURBs, enqueueResend(s) PROVE Guarded(m)'
  <2>1. UNCHANGED <<session, gen, SURBID, arqSurbIDMap, egress, ingress>>
        /\ arqTimerQueue' = arqTimerQueue \ {s}
      BY <1>7 DEF enqueueResend
  <2>2. \/ (arqSurbIDMap[s] = None \/ ~Live(arqSurbIDMap[s])) /\ resendCh' = resendCh
        \/ resendCh' = [resendCh EXCEPT ![AppOf[arqSurbIDMap[s]]] = @ \cup {s}]
      BY <1>7, Zenon DEF enqueueResend
  <2>3. Tracked(m) /\ SURBID[m] = s => arqSurbIDMap[s] = m
      BY <1>0
  <2>4. ASSUME Tracked(m), Live(m)', SURBID[m] \in arqTimerQueue PROVE Scheduled(m)'
    <3>1. CASE SURBID[m] # s
        BY <2>1, <2>4, <3>1 DEF Scheduled
    <3>2. CASE SURBID[m] = s
      <4>1. arqSurbIDMap[s] = m /\ m # None /\ Live(m)
          BY <2>1, <2>3, <2>4, <3>2, SurbFacts DEF Live
      <4>2. resendCh' = [resendCh EXCEPT ![AppOf[m]] = @ \cup {s}]
          BY <2>2, <4>1
      <4>3. resendCh \in [Apps -> SUBSET SURBs] /\ AppOf[m] \in Apps
          BY <1>0 DEF TChannels
      <4>4. s \in resendCh'[AppOf[m]]
          BY <4>2, <4>3
      <4> QED
          BY <2>1, <3>2, <4>4 DEF Scheduled
    <3> QED
        BY <3>1, <3>2
  <2>5. SURBID[m] \in resendCh[AppOf[m]] => SURBID[m] \in resendCh'[AppOf[m]]
      BY <1>0, <2>2 DEF TChannels
  <2> QED
      BY <2>1, <2>4, <2>5, GuardKept DEF Live, Scheduled, InHand, Tracked
<1> QED
    BY <1>1, <1>2, <1>3, <1>4, <1>5, <1>6, <1>7

\* Rekeying a message leaves the others' identifiers alone.
LEMMA RekeyOthers ==
    ASSUME IInv, NEW n \in Msgs, Rekey(n), NEW m \in Msgs
    PROVE  SURBID'[m] = IF m = n THEN Fresh(n) ELSE SURBID[m]
BY DEF Rekey, IInv, TypeOK

\* So does the egress worker (startResending*, arqDoResend).
LEMMA GuardedByEgress ==
    ASSUME StepFacts, NEW m \in Msgs, Egress
    PROVE  Guarded(m)'
<1> USE DEF maps, message, sessions, cancels
<1>0. /\ IInv /\ TChannels /\ TMaps /\ TEgress /\ Undisturbed
      /\ Tracked(m) => SURBID[m] \in SURBs /\ arqSurbIDMap[SURBID[m]] = m
    BY TypeParts, TrackedAt DEF StepFacts, IInv, CInv
<1>1. CASE StartResending
  <2> DEFINE n == egress.msg
  <2>1. /\ UNCHANGED <<session, gen, arqTimerQueue, resendCh, ingress>> /\ egress.pc = "start"
        /\ SURBID' = [SURBID EXCEPT ![n] = Fresh(n)]
        /\ egress' = [pc |-> "send", msg |-> n, surb |-> Fresh(n)]
      BY <1>1, Zenon DEF StartResending
  <2>2. n \in Msgs
      BY <1>1, StartFacts, <1>0
  <2>3. CASE m = n
    <3>1. Scheduled(m)'
        BY <1>0, <2>1, <2>2, <2>3 DEF Scheduled, TMaps
    <3> QED
        BY <3>1 DEF Guarded
  <2>4. CASE m # n
    <3>1. SURBID'[m] = SURBID[m]
        BY <1>0, <2>1, <2>2, <2>4 DEF TMaps
    <3>2. Tracked(m)' => Tracked(m)
        BY <2>4, TrackedFrom
    <3> QED
        BY <2>1, <3>1, <3>2, GuardKept DEF Live, Scheduled, InHand
  <2> QED
      BY <2>3, <2>4
<1>2. CASE StartFails
  <2>1. /\ UNCHANGED <<session, gen, SURBID, arqSurbIDMap, arqTimerQueue, resendCh, ingress>>
        /\ egress.pc = "start"
      BY <1>2 DEF StartFails
  <2> QED
      BY <2>1, GuardKept DEF Live, Scheduled, InHand, Tracked
<1>3. CASE EgressSend
  <2>1. /\ UNCHANGED <<session, gen, SURBID, arqSurbIDMap, resendCh, ingress>>
        /\ egress.pc = "send" /\ arqTimerQueue' = arqTimerQueue \cup {egress.surb}
      BY <1>3 DEF EgressSend
  <2> QED
      BY <2>1, GuardKept DEF Live, Scheduled, InHand, Tracked
<1>4. CASE arqDoResend
  <2> DEFINE s == egress.surb
             n == arqSurbIDMap[s]
  <2>1. /\ UNCHANGED <<session, gen, arqTimerQueue, resendCh, ingress>> /\ egress.pc = "resend"
        /\ \/ n = None /\ UNCHANGED <<arqSurbIDMap, SURBID>>
           \/ ~Live(n) /\ UNCHANGED SURBID
           \/ Spend("compose")
           \/ n # None /\ Rekey(n) /\ egress' = [pc |-> "send", msg |-> n, surb |-> Fresh(n)]
      BY <1>4, Zenon DEF arqDoResend, rotateARQSurbIDLocked
  <2>2. ~StartResending
      BY <2>1 DEF StartResending
  <2>3. Tracked(m)' => Tracked(m)
      BY <2>2, TrackedFrom
  <2>4. s \in SURBs
      BY <1>0, <2>1 DEF TEgress
  <2>5. CASE n = None /\ UNCHANGED <<arqSurbIDMap, SURBID>>
    <3>1. Tracked(m) => SURBID[m] # s
        BY <1>0, <2>5, SurbFacts
    <3> QED
        BY <2>1, <2>3, <2>5, <3>1, GuardKept DEF Live, Scheduled, InHand
  <2>6. CASE ~Live(n) /\ UNCHANGED SURBID
    <3>1. Tracked(m) /\ Live(m)' => SURBID[m] # s
        BY <1>0, <2>1, <2>6 DEF Live
    <3> QED
        BY <2>1, <2>3, <2>6, <3>1, GuardKept DEF Live, Scheduled, InHand
  <2>7. ~Spend("compose")
      BY <1>0 DEF StepFacts, Spend, Limit, Undisturbed
  <2>8. CASE n # None /\ Rekey(n) /\ egress' = [pc |-> "send", msg |-> n, surb |-> Fresh(n)]
    <3>1. n \in Msgs /\ SURBID[n] = s
        BY <1>0, <2>4, <2>8, TrackedHasSurb
    <3>2. CASE m = n
      <4>1. SURBID'[m] = Fresh(n)
          BY <1>0, <2>8, <3>1, <3>2, RekeyOthers
      <4>2. Scheduled(m)'
          BY <2>8, <4>1, SMTT(30) DEF Scheduled
      <4> QED
          BY <4>2 DEF Guarded
    <3>3. CASE m # n
      <4>1. SURBID'[m] = SURBID[m]
          BY <1>0, <2>8, <3>1, <3>3, RekeyOthers
      <4>2. Tracked(m) => SURBID[m] # s
          BY <1>0, <3>1, <3>3, OwnSurb, SurbFacts
      <4> QED
          BY <2>1, <2>3, <4>1, <4>2, GuardKept, SMTT(30) DEF Live, Scheduled, InHand
    <3> QED
        BY <3>2, <3>3, SMTT(30)
  <2> QED
      BY <2>1, <2>5, <2>6, <2>7, <2>8
<1>5. ~EgressReschedule
    BY <1>0 DEF EgressReschedule, Undisturbed
<1> QED
    BY <1>1, <1>2, <1>3, <1>4, <1>5 DEF Egress

\* The delete of a terminal path leaves the message untracked.
LEMMA ForgetUntracks ==
    ASSUME IInv, NEW n \in Msgs, Forget(n)
    PROVE  ~Tracked(n)'
<1>1. \A s \in SURBs : arqSurbIDMap[s] = n => s = SURBID[n]
    BY TrackedHasSurb, SurbFacts
<1>2. \A s \in SURBs : arqSurbIDMap'[s] # n
    BY <1>1, SurbFacts DEF Forget, IInv, TypeOK
<1> QED
    BY <1>2 DEF Tracked

\* Where handlePigeonholeARQReply leaves the message when nothing fails: on
\* its way to an answer, or ignored because its payload came before.
LEMMA DispatchTo ==
    ASSUME NEW n \in Msgs, NEW answer \in Answers(n), Dispatch(n, answer), KindOf[n] # "read"
    PROVE  \/ /\ ingress' = IngressIdle /\ state' = state /\ state[n] = "PayloadReceived"
           \/ \E pc \in {"finish", "compose", "poll"}, r \in BOOLEAN :
                 /\ ingress' = [ingress EXCEPT !.pc = pc, !.gen = gen[AppOf[n]], !.retry = r]
                 /\ \/ state' = state
                    \/ state' = [state EXCEPT ![n] = "ACKReceived"]
                    \/ pc = "finish" /\ state' = [state EXCEPT ![n] = "PayloadReceived"]
<1> DEFINE t == computeARQStateTransition(state[n], answer, KindOf[n])
           next(pc, retry) == [ingress EXCEPT !.pc = pc, !.gen = gen[AppOf[n]], !.retry = retry]
<1>1. CASE KindOf[n] = "copy"
  <2>1. UNCHANGED state /\ (ingress' = next("poll", FALSE) \/ ingress' = next("finish", FALSE))
      BY <1>1, Zenon DEF Dispatch
  <2> QED
      BY <2>1, Zenon
<1>2. CASE KindOf[n] # "copy"
  <2>1. answer \in {"ACK", "payload", "error"}
      BY <1>2, SMTT(30) DEF Answers
  <2>2. \/ t.action = "Error"
        \/ t.action = "Ignore" /\ state[n] = "PayloadReceived"
        \/ t.action = "HandlePayload" /\ t.newState = "PayloadReceived"
        \/ t.action = "Complete"
        \/ t.action = "SendNewSURB" /\ t.newState = "ACKReceived"
      BY DEF computeARQStateTransition
  <2>3. /\ state' = IF t.action \in {"SendNewSURB", "HandlePayload"}
                    THEN [state EXCEPT ![n] = t.newState] ELSE state
        /\ ingress' = IF t.action = "Ignore" THEN IngressIdle
                      ELSE IF t.action = "SendNewSURB" THEN next("compose", FALSE)
                      ELSE next("finish", FALSE)
    <3>1. /\ state' = IF t.action \in {"SendNewSURB", "HandlePayload"}
                      THEN [state EXCEPT ![n] = t.newState] ELSE state
          /\ ingress' = IF t.action = "Ignore" THEN IngressIdle
                        ELSE IF t.action = "SendNewSURB" THEN next("compose", FALSE)
                        ELSE IF answer = "BoxIDNotFound" THEN next("compose", TRUE)
                        ELSE next("finish", FALSE)
        BY <1>2, Zenon DEF Dispatch
    <3>2. answer # "BoxIDNotFound"
        BY <2>1
    <3> HIDE DEF t, next
    <3> QED
        BY <3>1, <3>2
  <2> HIDE DEF t
  <2>4. \/ ingress' = IngressIdle /\ state' = state /\ state[n] = "PayloadReceived"
        \/ ingress' = next("compose", FALSE) /\ state' = [state EXCEPT ![n] = "ACKReceived"]
        \/ ingress' = next("finish", FALSE)
           /\ (state' = state \/ state' = [state EXCEPT ![n] = "PayloadReceived"])
    <3> HIDE DEF next
    <3> QED
        BY <2>2, <2>3, Zenon
  <2> QED
      BY <2>4, Zenon
<1> QED
    BY <1>1, <1>2, Zenon

\* So does the ingress worker (handleReply, handlePigeonholeARQReply, Copy polls).
LEMMA GuardedByIngress ==
    ASSUME StepFacts, NEW m \in Msgs, Ingress \/ \E s \in SURBs : handleReply(s)
    PROVE  Guarded(m)'
<1> USE DEF maps, message, sessions, cancels
<1> DEFINE n == ingress.msg
<1>0. /\ IInv /\ TMaps /\ TIngress /\ Undisturbed /\ ingress \in IngressTypes /\ Retired /\ Closing
      /\ Tracked(m) => SURBID[m] \in SURBs /\ arqSurbIDMap[SURBID[m]] = m
      /\ ingress.pc # "idle" => n \in Msgs /\ SURBID[n] \in SURBs
    BY TypeParts, TrackedAt DEF StepFacts, IInv, CInv, AInv, TIngress
<1>a. UNCHANGED <<session, gen, resendCh, egress>> /\ ~StartResending
  <2>1. UNCHANGED <<session, gen, resendCh, egress>>
      BY Zenon DEF Ingress, handleReply, CancelTimer, handlePigeonholeARQReply, Finish, Compose, Rotate, IngressSend,
             IngressReschedule, scheduleCopyCommandPoll
  <2>2. ~StartResending
      BY <2>1 DEF StartResending
  <2> QED
      BY <2>1, <2>2
<1>b. Tracked(m)' => Tracked(m)
    BY <1>a, TrackedFrom
<1>1. ASSUME NEW s \in SURBs, handleReply(s) PROVE Guarded(m)'
  <2>1. ingress.pc = "idle" /\ UNCHANGED <<SURBID, arqTimerQueue>>
      BY <1>1, Zenon DEF handleReply
  <2> QED
      BY <1>a, <1>b, <2>1, GuardKept DEF Live, Scheduled, InHand
<1>2. CASE CancelTimer
  <2>1. /\ ingress.pc = "untime" /\ UNCHANGED SURBID
        /\ arqTimerQueue' = arqTimerQueue \ {SURBID[n]} /\ ingress' = [ingress EXCEPT !.pc = "handle"]
      BY <1>2 DEF CancelTimer
  <2>2. ingress'.pc = "handle" /\ ingress'.msg = n
      BY <1>0, <2>1 DEF IngressTypes
  <2>3. CASE m = n
      BY <2>2, <2>3 DEF Guarded, InHand
  <2>4. CASE m # n
    <3>1. Tracked(m) => SURBID[m] # SURBID[n]
        BY <1>0, <2>1, <2>4, OwnSurb, SurbFacts
    <3> QED
        BY <1>a, <1>b, <2>1, <2>4, <3>1, GuardKept DEF Live, Scheduled, InHand
  <2> QED
      BY <2>3, <2>4
<1>3. CASE handlePigeonholeARQReply
  <2>1. ingress.pc = "handle" /\ UNCHANGED <<SURBID, arqTimerQueue>>
      BY <1>3 DEF handlePigeonholeARQReply
  <2>2. \/ ~Live(n)
        \/ Forget(n)
        \/ \E answer \in Answers(n) : Dispatch(n, answer)
      BY <1>3, Zenon DEF handlePigeonholeARQReply
  <2>3. m = n /\ Tracked(m)' /\ Live(m) => InHand(m)'
    <3> SUFFICES ASSUME m = n, Tracked(m)', Live(m) PROVE InHand(m)'
        OBVIOUS
    <3>1. n \in Msgs /\ ~Forget(n) /\ state[n] # "PayloadReceived" /\ KindOf[n] # "read"
        BY <1>0, <1>b, <2>1, ForgetUntracks DEF Closing, StepFacts
    <3>2. PICK answer \in Answers(n) : Dispatch(n, answer)
        BY <2>2, <3>1
    <3>3. PICK pc \in {"finish", "compose", "poll"}, r \in BOOLEAN :
             ingress' = [ingress EXCEPT !.pc = pc, !.gen = gen[AppOf[n]], !.retry = r]
        BY <3>1, <3>2, DispatchTo, Zenon
    <3> QED
        BY <1>0, <3>3 DEF IngressTypes, InHand
  <2> QED
      BY <1>a, <1>b, <2>1, <2>3, GuardKept, SMTT(30) DEF Live, Scheduled, InHand
<1>4. CASE Finish
  <2>1. ingress.pc = "finish" /\ UNCHANGED <<SURBID, arqTimerQueue>> /\ Forget(n)
      BY <1>4 DEF Finish
  <2>2. m = n => ~Tracked(m)'
      BY <1>0, <2>1, ForgetUntracks
  <2> QED
      BY <1>a, <1>b, <2>1, <2>2, GuardKept, SMTT(30) DEF Live, Scheduled, InHand
<1>5. CASE Compose
  <2>1. ~Spend("compose")
      BY <1>0 DEF StepFacts, Spend, Limit, Undisturbed
  <2>2. /\ ingress' = [ingress EXCEPT !.pc = "rotate", !.old = SURBID[n]]
        /\ UNCHANGED <<SURBID, arqTimerQueue>>
      BY <1>5, <2>1 DEF Compose
  <2>3. ingress'.pc = "rotate" /\ ingress'.msg = n /\ ingress'.old = SURBID[n]
      BY <1>0, <2>2 DEF IngressTypes
  <2> QED
      BY <1>a, <1>b, <2>2, <2>3, GuardKept DEF Live, Scheduled, InHand
<1>6. CASE Rotate
  <2>1. ingress.pc = "rotate" /\ UNCHANGED arqTimerQueue
      BY <1>6, SMTT(30) DEF Rotate
  <2>2. CASE (arqSurbIDMap[ingress.old] # n \/ ~Live(n)) /\ UNCHANGED SURBID
    <3>1. ~(Tracked(m) /\ Live(m) /\ InHand(m))
        BY <1>0, <2>1, <2>2 DEF InHand
    <3> QED
        BY <1>a, <1>b, <2>1, <2>2, <3>1, GuardKept DEF Live, Scheduled
  <2>3. CASE Rekey(n) /\ ingress' = [ingress EXCEPT !.pc = "send", !.surb = Fresh(n)]
    <3>1. /\ ingress'.pc = "send" /\ ingress'.msg = n /\ ingress'.surb = Fresh(n) /\ n \in Msgs
        BY <1>0, <2>1, <2>3 DEF IngressTypes
    <3>2. SURBID'[m] = IF m = n THEN Fresh(n) ELSE SURBID[m]
        BY <1>0, <2>3, <3>1, RekeyOthers
    <3>3. CASE m = n
        BY <3>1, <3>2, <3>3, SMTT(30) DEF Guarded, InHand
    <3>4. CASE m # n
        BY <1>a, <1>b, <2>1, <3>2, <3>4, GuardKept, SMTT(30) DEF Live, Scheduled, InHand
    <3> QED
        BY <3>3, <3>4
  <2> QED
      BY <1>6, <2>2, <2>3 DEF Rotate, rotateARQSurbIDLocked
<1>7. CASE IngressSend
  <2>1. /\ ingress.pc = "send" /\ UNCHANGED SURBID
        /\ arqTimerQueue' = (arqTimerQueue \ {ingress.old}) \cup {ingress.surb}
      BY <1>7 DEF IngressSend
  <2>2. SURBID[m] # ingress.old
      BY <1>0, <2>1, SMTT(30) DEF Retired
  <2> QED
      BY <1>a, <1>b, <2>1, <2>2, GuardKept DEF Live, Scheduled, InHand
<1>8. CASE scheduleCopyCommandPoll
  <2>1. ingress.pc = "poll"
      BY <1>8, SMTT(30) DEF scheduleCopyCommandPoll
  <2>2. CASE arqSurbIDMap[SURBID[n]] # n /\ UNCHANGED <<SURBID, arqTimerQueue>>
      BY <1>0, <1>a, <1>b, <2>1, <2>2, GuardKept DEF Live, Scheduled, InHand
  <2>3. CASE Rekey(n) /\ arqTimerQueue' = arqTimerQueue \cup {Fresh(n)}
    <3>1. SURBID'[m] = IF m = n THEN Fresh(n) ELSE SURBID[m]
        BY <1>0, <2>1, <2>3, RekeyOthers, SMTT(30)
    <3>2. CASE m = n
        BY <2>3, <3>1, <3>2, SMTT(30) DEF Guarded, Scheduled
    <3>3. CASE m # n
        BY <1>a, <1>b, <2>1, <2>3, <3>1, <3>3, GuardKept, SMTT(30) DEF Live, Scheduled, InHand
    <3> QED
        BY <3>2, <3>3
  <2> QED
      BY <1>8, <2>2, <2>3, SMTT(30) DEF scheduleCopyCommandPoll
<1>9. ~IngressReschedule
    BY <1>0 DEF IngressReschedule, Undisturbed
<1> QED
    BY <1>1, <1>2, <1>3, <1>4, <1>5, <1>6, <1>7, <1>8, <1>9, SMTT(30) DEF Ingress

\* A resumed connection is never the first one (handleSessionToken).
LEMMA ConnectedPreserved == ASSUME StepFacts, [Next]_vars PROVE Connected'
<1>0. TChannels /\ Connected
    BY TypeParts DEF StepFacts, IInv, AInv
<1>1. ASSUME NEW a \in Apps, Resume(a) PROVE Connected'
    BY <1>0, <1>1 DEF Resume, Connected, TChannels
<1>2. gen' = gen \/ \E a \in Apps : Resume(a)
    BY Zenon DEF Next, vars, sessions, Egress, Ingress, Start, Cancel, AnswerCancel, PickNextRequest, Disconnect,
           Close, enqueueResend, handleReply, Lose, StartResending, StartFails, arqDoResend, EgressSend,
           EgressReschedule, CancelTimer, handlePigeonholeARQReply, Finish, Compose, Rotate, IngressSend,
           IngressReschedule, scheduleCopyCommandPoll
<1> QED
    BY <1>0, <1>1, <1>2 DEF Connected

\* What a step does to the ingress worker, and to the states of the messages.
LEMMA IngressSteps ==
    ASSUME StepFacts, [Next]_vars
    PROVE  \/ ingress' = ingress /\ state' = state
           \/ Ingress
           \/ \E s \in SURBs : handleReply(s)
BY Zenon DEF Next, vars, message, maps, Egress, Start, Cancel, AnswerCancel, PickNextRequest, Disconnect, Resume,
       Close, enqueueResend, Lose, StartResending, StartFails, arqDoResend, EgressSend,
       EgressReschedule, rescheduleARQAfterComposeFailure, rotateARQSurbIDLocked

\* An identifier that was minted stays retired once no message has it.
LEMMA RetiredStays ==
    ASSUME StepFacts, NEW s \in SURBs, s[2] <= minted[s[1]], \A m \in Msgs : SURBID[m] # s
    PROVE  s[2] <= minted'[s[1]] /\ \A m \in Msgs : SURBID'[m] # s
<1>0. IInv /\ TMaps /\ s[1] \in Msgs /\ s[2] \in Nat
    BY TypeParts, SurbFacts DEF StepFacts, IInv
<1>1. CASE Removes
    BY <1>1 DEF Removes
<1>2. ASSUME NEW n \in Msgs, CanMint(n), SURBID' = [SURBID EXCEPT ![n] = Fresh(n)],
             minted' = [minted EXCEPT ![n] = @ + 1]
      PROVE  s[2] <= minted'[s[1]] /\ \A m \in Msgs : SURBID'[m] # s
  <2>1. Fresh(n)[1] = n /\ Fresh(n)[2] = minted[n] + 1 /\ minted[n] \in Nat
      BY <1>0, <1>2, FreshFacts
  <2>2. Fresh(n) # s
      BY <1>0, <2>1
  <2>3. s[2] <= minted'[s[1]]
      BY <1>0, <1>2, <2>1 DEF TMaps
  <2> HIDE DEF Fresh
  <2> QED
      BY <1>0, <1>2, <2>2, <2>3 DEF TMaps
<1>3. ASSUME NEW n \in Msgs, RekeysTracked(n)
      PROVE  s[2] <= minted'[s[1]] /\ \A m \in Msgs : SURBID'[m] # s
    BY <1>2, <1>3, Zenon DEF RekeysTracked, Rekey
<1>4. CASE StartResending
    BY <1>0, <1>2, <1>4, StartFacts, Zenon DEF StartResending
<1> QED
    BY <1>1, <1>3, <1>4 DEF StepFacts

\* The SURB whose timer the ingress worker cancels stays nobody's.
LEMMA RetiredPreserved == ASSUME StepFacts, [Next]_vars PROVE Retired'
<1> USE DEF maps, message, sessions, cancels
<1>0. IInv /\ TIngress /\ TMaps /\ Retired /\ Undisturbed /\ ingress \in IngressTypes
    BY TypeParts DEF StepFacts, IInv, AInv, CInv, TIngress
<1>1. CASE ingress' = ingress
  <2>1. ingress.pc = "send" => ingress.old \in SURBs
      BY <1>0 DEF TIngress
  <2> QED
      BY <1>0, <1>1, <2>1, RetiredStays DEF Retired
<1>2. CASE Rotate
  <2> DEFINE n == ingress.msg
  <2>1. CASE ingress' = IngressIdle
      BY <2>1 DEF IngressIdle, Retired
  <2>2. CASE /\ arqSurbIDMap[ingress.old] = n /\ Rekey(n)
             /\ ingress' = [ingress EXCEPT !.pc = "send", !.surb = Fresh(n)]
    <3>1. /\ ingress'.old = ingress.old /\ ingress.old \in SURBs /\ n \in Msgs /\ CanMint(n)
          /\ ingress'.pc = "send"
        BY <1>0, <1>2, <2>2 DEF IngressTypes, TIngress, Rotate, Rekey
    <3>2. SURBID[n] = ingress.old
        BY <1>0, <2>2, <3>1, TrackedHasSurb, SurbFacts, SMTT(30)
    <3>3. ingress.old[1] = n /\ ingress.old[2] <= minted[n] /\ ingress.old[2] \in Nat
          /\ Fresh(n) # ingress.old /\ minted[n] \in Nat
        BY <1>0, <3>1, <3>2, SurbFacts, FreshFacts DEF IInv, Minting
    <3>4. \A m \in Msgs : SURBID'[m] = IF m = n THEN Fresh(n) ELSE SURBID[m]
        BY <1>0, <2>2, <3>1, RekeyOthers
    <3>5. \A m \in Msgs : SURBID'[m] # ingress.old
        BY <1>0, <3>1, <3>2, <3>3, <3>4, OwnSurb, SurbFacts
    <3>6. minted'[n] = minted[n] + 1
        BY <1>0, <2>2, <3>1 DEF Rekey, TMaps
    <3> HIDE DEF n
    <3> QED
        BY <3>1, <3>3, <3>5, <3>6 DEF Retired
  <2> QED
      BY <1>2, <2>1, <2>2 DEF Rotate, rotateARQSurbIDLocked
<1>3. CASE handlePigeonholeARQReply
  <2>0. ingress.pc = "handle"
      BY <1>3 DEF handlePigeonholeARQReply
  <2>1. \/ ingress' = IngressIdle
        \/ \E answer \in Answers(ingress.msg) : Dispatch(ingress.msg, answer)
      BY <1>3, Zenon DEF handlePigeonholeARQReply
  <2>2. ingress.msg \in Msgs /\ KindOf[ingress.msg] # "read"
      BY <1>0, <2>0 DEF TIngress, StepFacts
  <2>3. \/ ingress' = IngressIdle
        \/ \E pc \in {"finish", "compose", "poll"}, r \in BOOLEAN :
              ingress' = [ingress EXCEPT !.pc = pc, !.gen = gen[AppOf[ingress.msg]], !.retry = r]
      BY <2>1, <2>2, DispatchTo, Zenon
  <2>4. ASSUME NEW pc \in {"finish", "compose", "poll"}, NEW r \in BOOLEAN,
               ingress' = [ingress EXCEPT !.pc = pc, !.gen = gen[AppOf[ingress.msg]], !.retry = r]
        PROVE  ingress'.pc # "send"
      BY <1>0, <2>4 DEF IngressTypes
  <2>5. IngressIdle.pc # "send"
      BY DEF IngressIdle
  <2> QED
      BY <2>3, <2>4, <2>5, Zenon DEF Retired
<1>4. ASSUME Compose \/ CancelTimer PROVE Retired'
  <2>1. \/ ingress' = [ingress EXCEPT !.pc = "failed"]
        \/ ingress' = [ingress EXCEPT !.pc = "rotate", !.old = SURBID[ingress.msg]]
        \/ ingress' = [ingress EXCEPT !.pc = "handle"]
      BY <1>4 DEF Compose, CancelTimer
  <2>2. ingress'.pc # "send"
      BY <1>0, <2>1, Zenon DEF IngressTypes
  <2> QED
      BY <2>2 DEF Retired
<1>5. ASSUME Finish \/ IngressSend \/ IngressReschedule \/ scheduleCopyCommandPoll PROVE Retired'
  <2>1. ingress' = IngressIdle
      BY <1>5, Zenon DEF Finish, IngressSend, IngressReschedule, scheduleCopyCommandPoll
  <2> QED
      BY <2>1, SMTT(30) DEF IngressIdle, Retired
<1>6. ASSUME NEW s \in SURBs, handleReply(s) PROVE Retired'
  <2>1. ingress'.pc # "send"
      BY <1>6 DEF handleReply, IngressIdle
  <2> QED
      BY <2>1 DEF Retired
<1> QED
    BY <1>1, <1>2, <1>3, <1>4, <1>5, <1>6, IngressSteps DEF Ingress

\* PayloadReceived is set only on the way out of the maps, unless for a read.
LEMMA ClosingPreserved == ASSUME StepFacts, [Next]_vars PROVE Closing'
<1> USE DEF maps, message, sessions, cancels
<1> DEFINE n == ingress.msg
<1>0. /\ IInv /\ TIngress /\ TMaps /\ TChannels /\ Closing /\ Undisturbed /\ ingress \in IngressTypes
      /\ ingress.pc # "idle" => n \in Msgs /\ SURBID[n] \in SURBs /\ minted[n] > 0
    BY TypeParts, InHandMinted DEF StepFacts, IInv, AInv, CInv, TIngress
<1>a. \A m \in Msgs : minted'[m] = 0 => minted[m] = 0
  <2>1. CASE Removes
      BY <2>1 DEF Removes
  <2>2. ASSUME NEW k \in Msgs, minted' = [minted EXCEPT ![k] = @ + 1]
        PROVE  \A m \in Msgs : minted'[m] = 0 => minted[m] = 0
      BY <1>0, <2>2, SurbFacts DEF TMaps
  <2> QED
      BY <2>1, <2>2, <1>0, StartFacts, Zenon DEF StepFacts, RekeysTracked, Rekey, StartResending
<1>b. \A m \in Msgs : minted[m] = 0 => state[m] = "WaitingForACK"
    BY <1>0 DEF Closing
<1>c. ASSUME NEW m \in Msgs, Tracked(m)', state[m] = "PayloadReceived" PROVE Tracked(m)
  <2>1. StartResending => minted[egress.msg] = 0
      BY <1>0, StartFacts
  <2>2. minted[m] # 0
      BY <1>b, <1>c
  <2> QED
      BY <1>c, <2>1, <2>2, TrackedFrom
<1>1. CASE ingress' = ingress /\ state' = state
    BY <1>0, <1>1, <1>a, <1>c DEF Closing
<1>2. ASSUME NEW st \in States, state' = [state EXCEPT ![n] = st], ingress.pc # "idle"
      PROVE  \A m \in Msgs : minted'[m] = 0 => state'[m] = "WaitingForACK"
    BY <1>0, <1>2, <1>a, <1>b DEF TChannels
<1>3. ASSUME ingress.pc # "finish", state' = state PROVE Closing'
  <2>1. \A m \in Msgs : Tracked(m)' => state[m] # "PayloadReceived"
      BY <1>0, <1>3, <1>c DEF Closing
  <2> QED
      BY <1>3, <1>a, <1>b, <2>1 DEF Closing
<1>4. ASSUME Finish PROVE Closing'
  <2>1. ingress.pc = "finish" /\ Forget(n) /\ state' = state
      BY <1>4 DEF Finish
  <2>2. \A m \in Msgs : Tracked(m)' => m # n
      BY <1>0, <2>1, ForgetUntracks
  <2>3. \A m \in Msgs : Tracked(m)' => state[m] # "PayloadReceived"
      BY <1>0, <2>2, <1>c DEF Closing
  <2> QED
      BY <2>1, <2>3, <1>a, <1>b, SMTT(30) DEF Closing
<1>5. CASE handlePigeonholeARQReply
  <2>1. /\ ingress.pc = "handle"
        /\ \/ state' = state
           \/ \E answer \in Answers(n) : Dispatch(n, answer)
      BY <1>5, Zenon DEF handlePigeonholeARQReply
  <2>2. CASE state' = state
      BY <1>3, <2>1, <2>2
  <2>3. ASSUME NEW pc \in {"finish", "compose", "poll"}, NEW r \in BOOLEAN,
               ingress' = [ingress EXCEPT !.pc = pc, !.gen = gen[AppOf[n]], !.retry = r],
               \/ state' = [state EXCEPT ![n] = "ACKReceived"]
               \/ pc = "finish" /\ state' = [state EXCEPT ![n] = "PayloadReceived"]
        PROVE  Closing'
    <3>1. ingress'.pc = pc /\ ingress'.msg = n /\ n \in Msgs
        BY <1>0, <2>1, <2>3 DEF IngressTypes
    <3>2. \A m \in Msgs : Tracked(m)' /\ m # n => state'[m] # "PayloadReceived"
      <4>1. ASSUME NEW m \in Msgs, m # n PROVE state'[m] = state[m]
          BY <1>0, <2>3, <3>1, <4>1 DEF TChannels
      <4> QED
          BY <1>0, <2>1, <4>1, <1>c DEF Closing
    <3>3. state'[n] = "PayloadReceived" => pc = "finish"
        BY <1>0, <2>3, <3>1 DEF TChannels
    <3>4. \A m \in Msgs : minted'[m] = 0 => state'[m] = "WaitingForACK"
        BY <1>2, <2>1, <2>3 DEF States
    <3> QED
        BY <3>1, <3>2, <3>3, <3>4 DEF Closing
  <2>4. n \in Msgs /\ KindOf[n] # "read"
      BY <1>0, <2>1 DEF StepFacts
  <2> QED
      BY <2>1, <2>2, <2>3, <2>4, DispatchTo, Zenon
<1>6. CASE Rotate
  <2>1. ingress.pc = "rotate" /\ (state' = state \/ state' = [state EXCEPT ![n] = "WaitingForACK"])
      BY <1>6 DEF Rotate
  <2>2. CASE state' = [state EXCEPT ![n] = "WaitingForACK"]
    <3>1. \A m \in Msgs : minted'[m] = 0 => state'[m] = "WaitingForACK"
        BY <1>2, <2>1, <2>2, SMTT(30) DEF States
    <3>2. \A m \in Msgs : Tracked(m)' => state'[m] # "PayloadReceived"
        BY <1>0, <2>1, <2>2, <1>c DEF Closing, TChannels
    <3> QED
        BY <3>1, <3>2 DEF Closing
  <2> QED
      BY <1>3, <2>1, <2>2
<1>7. ASSUME \/ CancelTimer \/ Compose \/ IngressSend \/ IngressReschedule \/ scheduleCopyCommandPoll
             \/ \E s \in SURBs : handleReply(s)
      PROVE  Closing'
    BY <1>3, <1>7, Zenon DEF CancelTimer, Compose, IngressSend, IngressReschedule, scheduleCopyCommandPoll, handleReply,
                      rescheduleARQAfterComposeFailure
<1> QED
    BY <1>1, <1>4, <1>5, <1>6, <1>7, IngressSteps, SMTT(30) DEF Ingress

\* No retransmission is lost while packets can be composed and no request is a
\* read that retries on BoxIDNotFound (pigeonhole.go:1867 sets PayloadReceived
\* before that retry, which can leave it ignored): a tracked message of a
\* connection that was never lost has a timer, is queued for resending, or is
\* in the hands of a worker, whatever resends, replies, cancels and closes
\* interleave (enqueueResend, arqDoResend, handlePigeonholeARQReply).
THEOREM NoRetransmissionLost ==
    ASSUME MaxComposeFailures = 0, \A m \in Msgs : KindOf[m] # "read"
    PROVE  Spec => []TrackedIsArmed
<1>1. Init => CInv /\ AInv
  <2> SUFFICES ASSUME Init PROVE CInv /\ AInv
      OBVIOUS
  <2>1. CInv
      BY DEF Init, CInv, Undisturbed, CancelledGone, EgressIdle, IngressIdle, CancellerIdle, Faults
  <2>2. \A m \in Msgs : ~Tracked(m)
      BY SurbFacts, SMTT(30) DEF Init, Tracked
  <2> QED
      BY <2>1, <2>2 DEF Init, AInv, SeenTo, Closing, Retired, Connected, IngressIdle
<1>2. IInv /\ CInv /\ AInv /\ [Next]_vars => CInv' /\ AInv'
  <2> SUFFICES ASSUME IInv, CInv, AInv, [Next]_vars PROVE CInv' /\ AInv'
      OBVIOUS
  <2>1. CInv' /\ StepFacts
      BY CancelledGonePreserved, UndisturbedPreserved DEF StepFacts, CInv
  <2>2. \A m \in Msgs : Guarded(m)'
      BY <2>1, GuardedByOthers, GuardedByEgress, GuardedByIngress DEF Next
  <2> QED
      BY <2>1, <2>2, ClosingPreserved, RetiredPreserved, ConnectedPreserved DEF AInv, SeenTo, Guarded
<1>3. IInv /\ AInv => TrackedIsArmed
    BY ARQAssumption DEF AInv, SeenTo, TrackedIsArmed, Armed, Scheduled, InHand, ARQConstants
<1> QED
    BY <1>1, <1>2, <1>3, SpecIInv, PTL DEF Spec
=============================================================================
