--------------------------- MODULE ClientARQProofs ---------------------------
(***************************************************************************)
(* Proofs about ClientARQ for every set of sessions and messages and every *)
(* value of the bounds.                                                    *)
(*                                                                         *)
(* IInv strengthens TypeOK: a SURB of arqSurbIDMap is its message's current *)
(* one, identifiers are minted in order, and a message waits to be started *)
(* only before its first identifier.  Everything a step can do to the maps *)
(* is one of three effects (Removes, Rekeys, StartResending), so the map   *)
(* invariants are proved once per effect and not once per action.          *)
(* CInv adds that what a Cancel found is gone.                             *)
(***************************************************************************)
EXTENDS ClientARQ, TLAPS

Minting ==
    \A m \in Msgs : SURBID[m] # None => SURBID[m][1] = m /\ SURBID[m][2] <= minted[m]

Startable(m) == (egress.pc = "start" /\ egress.msg = m) \/ \E a \in Apps : m \in requestCh[a]

Starting ==
    /\ \A m \in Msgs : Startable(m) => minted[m] = 0
    /\ \A m \in Msgs : call[m] = "none" => ~Startable(m) /\ minted[m] = 0
    /\ \A a \in Apps : \A m \in requestCh[a] : AppOf[m] = a /\ ~(egress.pc = "start" /\ egress.msg = m)

Failing == egress.pc = "failed" => SURBID[egress.msg] \in SURBs

Answering == \A a \in Apps : canceller[a].pc = "answer" => canceller[a].asked \in Msgs

IInv == TypeOK /\ SurbMapExact /\ Minting /\ Starting /\ Failing /\ Answering

-----------------------------------------------------------------------------
(* What a step does to the maps and to the messages' identifiers.          *)

\* Entries may go, nothing else changes.
Removes ==
    /\ UNCHANGED <<SURBID, minted>>
    /\ arqSurbIDMap' \in [SURBs -> Msgs \cup {None}]
    /\ arqEnvelopeHashMap' \in [Hashes -> SURBs \cup {None}]
    /\ \A s \in SURBs : arqSurbIDMap'[s] \in {arqSurbIDMap[s], None}
    /\ \A h \in Hashes : arqEnvelopeHashMap'[h] \in {arqEnvelopeHashMap[h], None}

\* A message moves to a fresh SURB: one in the maps or, after a compose
\* failure, whichever message the worker holds.
Rekeys(m) ==
    /\ SURBID[m] \in SURBs /\ Rekey(m)
    /\ Tracked(m) \/ egress.pc = "failed" \/ ingress.pc = "failed"

LEMMA SurbFacts ==
    /\ \A m \in Msgs, n \in 1..MaxSurbs : <<m, n>> \in SURBs
    /\ None \notin SURBs /\ None \notin Msgs
    /\ \A s \in SURBs : s[1] \in Msgs /\ s[2] \in 1..MaxSurbs
    /\ MaxSurbs \in Nat
BY ARQAssumption DEF ARQConstants, SURBs

LEMMA FreshFacts ==
    ASSUME IInv, NEW m \in Msgs, CanMint(m)
    PROVE  /\ Fresh(m) \in SURBs /\ Fresh(m) # None /\ Fresh(m)[1] = m /\ Fresh(m)[2] = minted[m] + 1
           /\ minted[m] \in Nat /\ minted[m] + 1 \in 0..MaxSurbs
           /\ \A n \in Msgs : SURBID[n] # Fresh(m)
<1>1. minted[m] \in 0..MaxSurbs /\ minted[m] < MaxSurbs /\ MaxSurbs \in Nat
    BY SurbFacts DEF IInv, TypeOK, CanMint
<1>2. Fresh(m)[1] = m /\ Fresh(m)[2] = minted[m] + 1
    BY DEF Fresh
<1>3. Fresh(m) \in SURBs
    BY <1>1, SurbFacts DEF Fresh
<1>4. \A n \in Msgs : SURBID[n] # Fresh(m)
    BY <1>1, <1>2, <1>3, SurbFacts DEF IInv, Minting
<1> QED
    BY <1>1, <1>2, <1>3, <1>4, SurbFacts

LEMMA RekeyFacts ==
    ASSUME IInv, NEW m \in Msgs, Rekey(m)
    PROVE  /\ arqSurbIDMap' \in [SURBs -> Msgs \cup {None}]
           /\ arqEnvelopeHashMap' \in [Hashes -> SURBs \cup {None}]
           /\ SURBID' \in [Msgs -> SURBs \cup {None}]
           /\ minted' \in [Msgs -> 0..MaxSurbs]
           /\ Fresh(m) \in SURBs
<1>1. CanMint(m)
    BY DEF Rekey
<1>2. Fresh(m) \in SURBs /\ minted[m] + 1 \in 0..MaxSurbs
    BY <1>1, FreshFacts
<1>3. HashOf[m] \in Hashes
    BY ARQAssumption DEF ARQConstants
<1> QED
    BY <1>2, <1>3 DEF Rekey, IInv, TypeOK

\* A message in hand has an identifier, so it is not waiting to be started.
LEMMA InHandMinted ==
    ASSUME IInv, NEW m \in Msgs, SURBID[m] \in SURBs
    PROVE  minted[m] > 0 /\ ~Startable(m) /\ call[m] # "none"
<1>1. SURBID[m][2] \in 1..MaxSurbs /\ SURBID[m][2] <= minted[m] /\ minted[m] \in 0..MaxSurbs
    BY SurbFacts DEF IInv, Minting, TypeOK
<1>2. minted[m] > 0
    BY <1>1, SurbFacts
<1> QED
    BY <1>2 DEF IInv, Starting

LEMMA TrackedHasSurb ==
    ASSUME IInv, NEW s \in SURBs, arqSurbIDMap[s] # None
    PROVE  arqSurbIDMap[s] \in Msgs /\ SURBID[arqSurbIDMap[s]] = s
BY DEF IInv, TypeOK, SurbMapExact

LEMMA ForgetRemoves ==
    ASSUME IInv, NEW m \in Msgs, Forget(m), UNCHANGED <<SURBID, minted>> PROVE Removes
<1>1. SURBID[m] \in SURBs \cup {None} /\ HashOf[m] \in Hashes
    BY ARQAssumption DEF IInv, TypeOK, ARQConstants
<1> QED
    BY <1>1, SurbFacts DEF Forget, Removes, IInv, TypeOK

LEMMA UnchangedRemoves ==
    ASSUME IInv, UNCHANGED <<maps, SURBID, minted>> PROVE Removes
BY DEF Removes, IInv, TypeOK, maps

LEMMA SettingHash ==
    ASSUME NEW f \in [Hashes -> SURBs \cup {None}], NEW m \in Msgs, NEW v \in SURBs \cup {None}
    PROVE  /\ HashOf[m] \in Hashes
           /\ [f EXCEPT ![HashOf[m]] = v] \in [Hashes -> SURBs \cup {None}]
           /\ \A h \in Hashes : [f EXCEPT ![HashOf[m]] = v][h] = IF h = HashOf[m] THEN v ELSE f[h]
BY ARQAssumption DEF ARQConstants

\* Everything a step does to the maps is one of three effects.
LEMMA NextEffect ==
    ASSUME IInv, [Next]_vars
    PROVE  Removes \/ (\E m \in Msgs : Rekeys(m)) \/ StartResending
<1> USE DEF maps, message
<1>0. TypeOK /\ SurbMapExact /\ Failing
    BY DEF IInv
<1>1. ASSUME NEW m \in Msgs, Start(m) \/ Cancel(m) PROVE Removes
    <2>1. CASE Start(m)
        BY <2>1, UnchangedRemoves DEF Start
    <2>2. CASE Cancel(m)
        <3> DEFINE s == arqEnvelopeHashMap[HashOf[m]]
        <3>1. UNCHANGED <<SURBID, minted>>
            BY <2>2 DEF Cancel
        <3>2. CASE s = None
            BY <2>2, <3>1, <3>2, UnchangedRemoves DEF Cancel
        <3>3. CASE s # None
            <4>1. /\ arqSurbIDMap' = [arqSurbIDMap EXCEPT ![s] = None]
                  /\ arqEnvelopeHashMap' = [arqEnvelopeHashMap EXCEPT ![HashOf[m]] = None]
                BY <2>2, <3>3 DEF Cancel
            <4>2. HashOf[m] \in Hashes /\ s \in SURBs
                BY <1>0, <3>3, SettingHash DEF TypeOK
            <4> QED
                BY <1>0, <3>1, <4>1, <4>2 DEF TypeOK, Removes
        <3> QED
            BY <3>2, <3>3
    <2> QED
        BY <1>1, <2>1, <2>2
<1>2. ASSUME NEW a \in Apps, AnswerCancel(a) \/ PickNextRequest(a) \/ Disconnect(a) \/ Resume(a) \/ Close(a)
      PROVE  Removes
    <2>1. CASE AnswerCancel(a)
        BY <2>1, UnchangedRemoves DEF AnswerCancel
    <2>2. CASE PickNextRequest(a)
        BY <2>2, UnchangedRemoves DEF PickNextRequest
    <2>3. CASE Disconnect(a)
        BY <2>3, UnchangedRemoves DEF Disconnect
    <2>4. CASE Resume(a)
        BY <2>4, UnchangedRemoves DEF Resume
    <2>5. CASE Close(a)
        <3> DEFINE mine == {m \in Msgs : AppOf[m] = a /\ Tracked(m)}
        <3>1. /\ UNCHANGED <<SURBID, minted>>
              /\ arqSurbIDMap' = [s \in SURBs |-> IF arqSurbIDMap[s] \in mine THEN None
                                                  ELSE arqSurbIDMap[s]]
              /\ arqEnvelopeHashMap' = [h \in Hashes |-> IF \E m \in mine : HashOf[m] = h THEN None
                                                         ELSE arqEnvelopeHashMap[h]]
            BY <2>5 DEF Close
        <3> HIDE DEF mine
        <3> QED
            BY <1>0, <3>1 DEF TypeOK, Removes
    <2> QED
        BY <1>2, <2>1, <2>2, <2>3, <2>4, <2>5
<1>3. ASSUME NEW s \in SURBs, enqueueResend(s) \/ handleReply(s) \/ Lose(s) PROVE Removes
    BY <1>3, UnchangedRemoves DEF enqueueResend, handleReply, Lose
<1>4. ASSUME Egress PROVE Removes \/ (\E m \in Msgs : Rekeys(m)) \/ StartResending
    <2>1. CASE StartFails \/ EgressSend
        BY <2>1, UnchangedRemoves DEF StartFails, EgressSend
    <2>2. CASE arqDoResend
        <3> DEFINE s == egress.surb
                   m == arqSurbIDMap[s]
        <3>0. egress.pc = "resend" /\ s \in SURBs
            BY <1>0, <2>2, SMTT(30) DEF arqDoResend, TypeOK
        <3>1. CASE m = None
            BY <2>2, <3>1, UnchangedRemoves DEF arqDoResend
        <3>2. CASE m # None
            <4>1. m \in Msgs /\ SURBID[m] = s
                BY <3>0, <3>2, TrackedHasSurb
            <4>2. CASE UNCHANGED <<maps, message>>
                BY <4>2, UnchangedRemoves
            <4>3. CASE /\ arqSurbIDMap' = [arqSurbIDMap EXCEPT ![s] = None]
                       /\ arqEnvelopeHashMap' = [arqEnvelopeHashMap EXCEPT ![HashOf[m]] = None]
                       /\ UNCHANGED message
                <5> HIDE DEF s, m
                <5>1. HashOf[m] \in Hashes
                    BY <1>0, <4>1, SettingHash DEF TypeOK
                <5> QED
                    BY <1>0, <3>0, <4>1, <4>3, <5>1 DEF TypeOK, Removes
            <4>4. CASE rotateARQSurbIDLocked(m)
                BY <3>0, <4>1, <4>4 DEF rotateARQSurbIDLocked, Rekeys, Tracked
            <4> QED
                BY <2>2, <3>2, <4>2, <4>3, <4>4 DEF arqDoResend
        <3> QED
            BY <3>1, <3>2
    <2>3. CASE EgressReschedule
        BY <1>0, <2>3 DEF EgressReschedule, rescheduleARQAfterComposeFailure, Rekeys, Failing, TypeOK
    <2> QED
        BY <1>4, <2>1, <2>2, <2>3 DEF Egress
<1>5. ASSUME Ingress PROVE Removes \/ (\E m \in Msgs : Rekeys(m))
    <2>0. ingress.pc # "idle" => ingress.msg \in Msgs /\ SURBID[ingress.msg] \in SURBs
        BY <1>0 DEF TypeOK
    <2>1. CASE CancelTimer \/ Compose \/ IngressSend
        BY <2>1, UnchangedRemoves DEF CancelTimer, Compose, IngressSend
    <2>2. CASE handlePigeonholeARQReply
        BY <2>0, <2>2, UnchangedRemoves, ForgetRemoves DEF handlePigeonholeARQReply
    <2>3. CASE Finish
        BY <2>0, <2>3, ForgetRemoves DEF Finish
    <2>4. CASE Rotate
        <3>1. ingress.old \in SURBs
            BY <1>0, <2>4 DEF Rotate, TypeOK
        <3> QED
            BY <2>0, <2>4, <3>1, UnchangedRemoves DEF Rotate, rotateARQSurbIDLocked, Rekeys, Tracked
    <2>5. CASE IngressReschedule
        BY <2>0, <2>5 DEF IngressReschedule, rescheduleARQAfterComposeFailure, Rekeys
    <2>6. CASE scheduleCopyCommandPoll
        BY <2>0, <2>6, UnchangedRemoves DEF scheduleCopyCommandPoll, Rekeys, Tracked
    <2> QED
        BY <1>5, <2>1, <2>2, <2>3, <2>4, <2>5, <2>6 DEF Ingress
<1>6. CASE UNCHANGED vars
    BY <1>6, UnchangedRemoves DEF vars
<1> QED
    BY <1>1, <1>2, <1>3, <1>4, <1>5, <1>6 DEF Next

LEMMA StartFacts ==
    ASSUME IInv, StartResending
    PROVE  /\ egress.msg \in Msgs /\ CanMint(egress.msg) /\ minted[egress.msg] = 0
           /\ \A s \in SURBs : arqSurbIDMap[s] # egress.msg
<1>1. egress.pc = "start" /\ egress.msg \in Msgs /\ CanMint(egress.msg)
    BY DEF StartResending, IInv, TypeOK
<1>2. minted[egress.msg] = 0
    BY <1>1 DEF IInv, Starting, Startable
<1>3. ASSUME NEW s \in SURBs, arqSurbIDMap[s] = egress.msg PROVE FALSE
    <2>1. SURBID[egress.msg] = s
        BY <1>1, <1>3, TrackedHasSurb, SurbFacts
    <2> QED
        BY <1>1, <1>2, <2>1, InHandMinted
<1> QED
    BY <1>1, <1>2, <1>3, SMTT(30)

LEMMA SurbMapPreserved ==
    ASSUME IInv, Removes \/ (\E m \in Msgs : Rekeys(m)) \/ StartResending
    PROVE  SurbMapExact' /\ Minting'
<1>0. TypeOK /\ SurbMapExact /\ Minting
    BY DEF IInv
<1>1. CASE Removes
    BY <1>0, <1>1 DEF Removes, SurbMapExact, Minting, TypeOK
<1>2. ASSUME NEW m \in Msgs, Rekeys(m) PROVE SurbMapExact' /\ Minting'
    <2>1. Rekey(m) /\ CanMint(m)
        BY <1>2 DEF Rekeys, Rekey
    <2>2. /\ Fresh(m) \in SURBs /\ Fresh(m)[1] = m /\ Fresh(m)[2] = minted[m] + 1
          /\ minted[m] \in Nat /\ \A n \in Msgs : SURBID[n] # Fresh(m)
        BY <2>1, FreshFacts
    <2> HIDE DEF Fresh
    <2>3. SurbMapExact'
        BY <1>0, <2>1, <2>2, SurbFacts DEF Rekey, SurbMapExact, TypeOK
    <2>4. Minting'
        BY <1>0, <2>1, <2>2, SurbFacts DEF Rekey, Minting, TypeOK
    <2> QED
        BY <2>3, <2>4
<1>3. CASE StartResending
    <2> DEFINE m == egress.msg
    <2>1. m \in Msgs /\ CanMint(m) /\ \A s \in SURBs : arqSurbIDMap[s] # m
        BY <1>3, StartFacts
    <2>2. /\ Fresh(m) \in SURBs /\ Fresh(m)[1] = m /\ Fresh(m)[2] = minted[m] + 1
          /\ minted[m] \in Nat /\ \A n \in Msgs : SURBID[n] # Fresh(m)
        BY <2>1, FreshFacts
    <2>3. /\ SURBID' = [SURBID EXCEPT ![m] = Fresh(m)]
          /\ minted' = [minted EXCEPT ![m] = @ + 1]
          /\ arqSurbIDMap' = [arqSurbIDMap EXCEPT ![Fresh(m)] = m]
        BY <1>3 DEF StartResending
    <2> HIDE DEF m, Fresh
    <2>4. SurbMapExact'
        BY <1>0, <2>1, <2>2, <2>3, SurbFacts DEF SurbMapExact, TypeOK
    <2>5. Minting'
        BY <1>0, <2>1, <2>2, <2>3, SurbFacts DEF Minting, TypeOK
    <2> QED
        BY <2>4, <2>5
<1> QED
    BY <1>1, <1>2, <1>3

-----------------------------------------------------------------------------
(* Types.  TMaps follows from the three effects; the rest goes by action.  *)

TMaps ==
    /\ arqSurbIDMap \in [SURBs -> Msgs \cup {None}]
    /\ arqEnvelopeHashMap \in [Hashes -> SURBs \cup {None}]
    /\ SURBID \in [Msgs -> SURBs \cup {None}] /\ minted \in [Msgs -> 0..MaxSurbs]

TChannels ==
    /\ session \in [Apps -> {"live", "grace", "closed"}] /\ gen \in [Apps -> Nat]
    /\ requestCh \in [Apps -> SUBSET Msgs] /\ resendCh \in [Apps -> SUBSET SURBs]
    /\ keys \in [Msgs -> SURBs \cup {None}] /\ state \in [Msgs -> States]
    /\ arqTimerQueue \subseteq SURBs /\ packets \subseteq SURBs

TCalls ==
    /\ canceller \in [Apps -> CancellerTypes]
    /\ call \in [Msgs -> {"none", "waiting", "returned"}]
    /\ cancelCalls \subseteq Msgs /\ cancelled \subseteq Msgs
    /\ spent \in [Faults -> Nat]

TEgress ==
    /\ egress \in EgressTypes
    /\ egress.pc \in {"start", "send", "failed"} => egress.msg \in Msgs
    /\ egress.pc \in {"resend", "send"} => egress.surb \in SURBs

TIngress ==
    /\ ingress \in IngressTypes
    /\ ingress.pc # "idle" => ingress.msg \in Msgs /\ SURBID[ingress.msg] \in SURBs
    /\ ingress.pc \in {"untime", "handle", "send"} => ingress.surb \in SURBs
    /\ ingress.pc \in {"rotate", "send"} => ingress.old \in SURBs

LEMMA TypeParts == TypeOK <=> TMaps /\ TChannels /\ TCalls /\ TEgress /\ TIngress
BY DEF TypeOK, TMaps, TChannels, TCalls, TEgress, TIngress

LEMMA MapTypesPreserved ==
    ASSUME IInv, Removes \/ (\E m \in Msgs : Rekeys(m)) \/ StartResending
    PROVE  /\ TMaps'
           /\ \A m \in Msgs : SURBID[m] \in SURBs => SURBID'[m] \in SURBs
<1>0. TMaps
    BY TypeParts DEF IInv
<1>1. CASE Removes
    BY <1>0, <1>1 DEF Removes, TMaps
<1>2. ASSUME NEW m \in Msgs, Rekeys(m)
      PROVE  TMaps' /\ \A n \in Msgs : SURBID[n] \in SURBs => SURBID'[n] \in SURBs
    BY <1>0, <1>2, RekeyFacts, Zenon DEF Rekeys, Rekey, TMaps
<1>3. CASE StartResending
    <2> DEFINE m == egress.msg
    <2>1. m \in Msgs /\ CanMint(m)
        BY <1>3, StartFacts
    <2>2. Fresh(m) \in SURBs /\ minted[m] + 1 \in 0..MaxSurbs
        BY <2>1, FreshFacts
    <2>3. /\ SURBID' = [SURBID EXCEPT ![m] = Fresh(m)]
          /\ minted' = [minted EXCEPT ![m] = @ + 1]
          /\ arqSurbIDMap' = [arqSurbIDMap EXCEPT ![Fresh(m)] = m]
          /\ arqEnvelopeHashMap' = [arqEnvelopeHashMap EXCEPT ![HashOf[m]] = Fresh(m)]
        BY <1>3 DEF StartResending
    <2> HIDE DEF m, Fresh
    <2> QED
        BY <1>0, <2>1, <2>2, <2>3, SettingHash DEF TMaps
<1> QED
    BY <1>1, <1>2, <1>3

LEMMA SpendTypes == ASSUME TCalls, NEW f \in Faults, Spend(f) PROVE spent' \in [Faults -> Nat]
BY DEF TCalls, Spend

LEMMA TransitionType ==
    ASSUME NEW st \in States, NEW answer, NEW kind
    PROVE  /\ computeARQStateTransition(st, answer, kind).newState \in States
           /\ computeARQStateTransition(st, answer, kind).action
                 \in {"Error", "Ignore", "Complete", "SendNewSURB", "HandlePayload"}
BY DEF computeARQStateTransition, States

LEMMA ChannelTypes == ASSUME IInv, [Next]_vars PROVE TChannels'
<1> USE DEF maps, message, sessions, cancels, TChannels
<1>0. TChannels /\ TEgress /\ TIngress
    BY TypeParts DEF IInv
<1>1. ASSUME NEW m \in Msgs, Start(m) \/ Cancel(m) PROVE TChannels'
    <2>1. AppOf[m] \in Apps
        BY ARQAssumption DEF ARQConstants
    <2> QED
        BY <1>0, <1>1, <2>1 DEF Start, Cancel
<1>2. ASSUME NEW a \in Apps, AnswerCancel(a) \/ PickNextRequest(a) \/ Disconnect(a) \/ Resume(a) \/ Close(a)
      PROVE  TChannels'
    <2>1. CASE AnswerCancel(a)
        BY <1>0, <2>1 DEF AnswerCancel
    <2>2. CASE PickNextRequest(a)
        BY <1>0, <2>2 DEF PickNextRequest
    <2>3. CASE Disconnect(a) \/ Resume(a)
        BY <1>0, <2>3 DEF Disconnect, Resume
    <2>4. CASE Close(a)
        BY <1>0, <2>4 DEF Close
    <2> QED
        BY <1>2, <2>1, <2>2, <2>3, <2>4
<1>3. ASSUME NEW s \in SURBs, enqueueResend(s) \/ handleReply(s) \/ Lose(s) PROVE TChannels'
    <2>1. \A m \in Msgs : AppOf[m] \in Apps
        BY ARQAssumption DEF ARQConstants
    <2>2. CASE enqueueResend(s)
        <3> DEFINE m == arqSurbIDMap[s]
        <3>1. m \in Msgs \cup {None}
            BY TypeParts DEF IInv, TMaps
        <3> QED
            BY <1>0, <2>1, <2>2, <3>1 DEF enqueueResend
    <2>3. CASE handleReply(s) \/ Lose(s)
        BY <1>0, <2>3 DEF handleReply, Lose
    <2> QED
        BY <1>3, <2>2, <2>3
<1>4. ASSUME NEW m \in Msgs, rotateARQSurbIDLocked(m) PROVE keys' \in [Msgs -> SURBs \cup {None}]
    BY <1>0, <1>4, RekeyFacts DEF rotateARQSurbIDLocked
<1>5. ASSUME NEW m \in Msgs, rescheduleARQAfterComposeFailure(m)
      PROVE  arqTimerQueue' \subseteq SURBs /\ UNCHANGED <<keys, state>>
    BY <1>0, <1>5, RekeyFacts DEF rescheduleARQAfterComposeFailure
<1>6. ASSUME Egress PROVE TChannels'
    <2>1. CASE StartResending
        <3>1. egress.msg \in Msgs /\ Fresh(egress.msg) \in SURBs
            BY <2>1, StartFacts, FreshFacts
        <3> QED
            BY <1>0, <2>1, <3>1 DEF StartResending
    <2>2. CASE StartFails \/ EgressSend
        BY <1>0, <2>2 DEF StartFails, EgressSend, TEgress
    <2>3. CASE arqDoResend
        <3>1. arqSurbIDMap[egress.surb] # None => arqSurbIDMap[egress.surb] \in Msgs
            BY <1>0, <2>3, TypeParts, SMTT(30) DEF arqDoResend, TEgress, IInv, TMaps
        <3>2. keys' \in [Msgs -> SURBs \cup {None}]
            BY <1>0, <1>4, <2>3, <3>1, SMTT(30) DEF arqDoResend
        <3>3. /\ UNCHANGED <<sessions, requestCh, resendCh, arqTimerQueue, packets>>
              /\ UNCHANGED state
            BY <2>3 DEF arqDoResend
        <3> QED
            BY <1>0, <3>2, <3>3, SMTT(30)
    <2>4. CASE EgressReschedule
        BY <1>0, <1>5, <2>4 DEF EgressReschedule, TEgress
    <2> QED
        BY <1>6, <2>1, <2>2, <2>3, <2>4, SMTT(30) DEF Egress
<1>7. ASSUME Ingress PROVE TChannels'
    <2>0. ingress.pc # "idle" => ingress.msg \in Msgs
        BY <1>0 DEF TIngress
    <2>1. CASE CancelTimer \/ Finish \/ Compose \/ IngressSend
        BY <1>0, <2>1 DEF CancelTimer, Finish, Compose, IngressSend, TIngress
    <2>2. CASE handlePigeonholeARQReply
        <3> DEFINE m == ingress.msg
        <3>1. ASSUME NEW answer \in Answers(m), Dispatch(m, answer) PROVE state' \in [Msgs -> States]
            <4> DEFINE t == computeARQStateTransition(state[m], answer, KindOf[m])
            <4>1. m \in Msgs /\ state[m] \in States
                BY <1>0, <2>0, <2>2 DEF handlePigeonholeARQReply
            <4>2. t.newState \in States
                BY <4>1, TransitionType
            <4>3. state' = state \/ state' = [state EXCEPT ![m] = t.newState]
                BY <3>1 DEF Dispatch
            <4> HIDE DEF m, t
            <4> QED
                BY <1>0, <4>1, <4>2, <4>3
        <3>2. state' = state \/ \E answer \in Answers(m) : Dispatch(m, answer)
            BY <2>2 DEF handlePigeonholeARQReply
        <3>3. UNCHANGED <<sessions, requestCh, resendCh, keys, arqTimerQueue, packets>>
            BY <2>2 DEF handlePigeonholeARQReply
        <3> QED
            BY <1>0, <3>1, <3>2, <3>3
    <2>3. CASE Rotate
        <3>1. keys' \in [Msgs -> SURBs \cup {None}]
            BY <1>0, <1>4, <2>0, <2>3 DEF Rotate
        <3>2. state' \in [Msgs -> States]
            BY <1>0, <2>0, <2>3 DEF Rotate, States
        <3> QED
            BY <1>0, <2>3, <3>1, <3>2 DEF Rotate
    <2>4. CASE IngressReschedule
        BY <1>0, <1>5, <2>0, <2>4, SMTT(30) DEF IngressReschedule
    <2>5. CASE scheduleCopyCommandPoll
        <3>1. ingress.msg \in Msgs
            BY <2>0, <2>5 DEF scheduleCopyCommandPoll
        <3>2. Rekey(ingress.msg) => Fresh(ingress.msg) \in SURBs
            BY <3>1, RekeyFacts
        <3> QED
            BY <1>0, <2>5, <3>2 DEF scheduleCopyCommandPoll
    <2> QED
        BY <1>7, <2>1, <2>2, <2>3, <2>4, <2>5 DEF Ingress
<1>8. CASE UNCHANGED vars
    BY <1>0, <1>8 DEF vars
<1> QED
    BY <1>1, <1>2, <1>3, <1>6, <1>7, <1>8 DEF Next

LEMMA CallTypes == ASSUME IInv, [Next]_vars PROVE TCalls'
<1> USE DEF maps, message, sessions, cancels
<1>0. TCalls /\ TMaps /\ TEgress /\ TIngress
    BY TypeParts DEF IInv
<1>1. ASSUME NEW f \in {"loss", "late", "unready", "compose", "disconnect"}, Spend(f)
      PROVE  spent' \in [Faults -> Nat]
    BY <1>0, <1>1, SpendTypes DEF Faults
<1>2. ASSUME NEW m \in Msgs, Start(m) \/ Cancel(m) PROVE TCalls'
    <2>1. AppOf[m] \in Apps /\ HashOf[m] \in Hashes
        BY ARQAssumption DEF ARQConstants
    <2>2. CASE Start(m)
        BY <1>0, <2>2 DEF Start, TCalls
    <2>3. CASE Cancel(m)
        <3> DEFINE s == arqEnvelopeHashMap[HashOf[m]]
                   found == IF s = None THEN None ELSE arqSurbIDMap[s]
        <3>1. found \in Msgs \cup {None}
            BY <1>0, <2>1, SMTT(30) DEF TMaps
        <3>2. canceller' = [canceller EXCEPT ![AppOf[m]] = [pc |-> "answer", asked |-> m, found |-> found]]
            BY <2>3 DEF Cancel
        <3> HIDE DEF found
        <3>3. canceller' \in [Apps -> CancellerTypes]
            BY <1>0, <2>1, <3>1, <3>2 DEF TCalls, CancellerTypes
        <3>4. cancelCalls' = cancelCalls \cup {m} /\ UNCHANGED <<call, cancelled, spent>>
            BY <2>3 DEF Cancel
        <3> QED
            BY <1>0, <3>3, <3>4 DEF TCalls
    <2> QED
        BY <1>2, <2>2, <2>3
<1>3. ASSUME NEW a \in Apps, AnswerCancel(a) \/ PickNextRequest(a) \/ Disconnect(a) \/ Resume(a) \/ Close(a)
      PROVE  TCalls'
    <2>1. CASE AnswerCancel(a)
        <3>1. canceller[a].found \in Msgs \cup {None} /\ canceller[a].asked \in Msgs \cup {None}
            BY <1>0, SMTT(30) DEF TCalls, CancellerTypes
        <3>2. canceller[a].asked \in Msgs
            BY <2>1 DEF AnswerCancel, IInv, Answering
        <3>3. CancellerIdle \in CancellerTypes
            BY DEF CancellerIdle, CancellerTypes
        <3> QED
            BY <1>0, <2>1, <3>1, <3>2, <3>3 DEF AnswerCancel, TCalls
    <2>2. CASE PickNextRequest(a) \/ Resume(a)
        BY <1>0, <2>2 DEF PickNextRequest, Resume, TCalls
    <2>3. CASE Disconnect(a)
        BY <1>0, <1>1, <2>3 DEF Disconnect, TCalls
    <2>4. CASE Close(a)
        BY <1>0, <2>4 DEF Close, TCalls
    <2> QED
        BY <1>3, <2>1, <2>2, <2>3, <2>4
<1>4. ASSUME NEW s \in SURBs, enqueueResend(s) \/ handleReply(s) \/ Lose(s) PROVE TCalls'
    <2>1. CASE enqueueResend(s)
        BY <1>0, <1>1, <2>1, Zenon DEF enqueueResend, TCalls
    <2>2. CASE handleReply(s)
        BY <1>0, <2>2 DEF handleReply, TCalls
    <2>3. CASE Lose(s)
        BY <1>0, <1>1, <2>3 DEF Lose, TCalls
    <2> QED
        BY <1>4, <2>1, <2>2, <2>3
<1>5. ASSUME Egress PROVE TCalls'
    <2>1. CASE StartResending \/ EgressSend \/ EgressReschedule
        BY <1>0, <2>1 DEF StartResending, EgressSend, EgressReschedule, TCalls
    <2>2. CASE StartFails
        BY <1>0, <1>1, <2>2, Zenon DEF StartFails, TCalls
    <2>3. CASE arqDoResend
        BY <1>0, <1>1, <2>3 DEF arqDoResend, TCalls
    <2> QED
        BY <1>5, <2>1, <2>2, <2>3, SMTT(30) DEF Egress
<1>6. ASSUME Ingress PROVE TCalls'
    <2>1. CASE CancelTimer \/ Rotate \/ IngressSend \/ IngressReschedule \/ scheduleCopyCommandPoll
        BY <1>0, <2>1, SMTT(30) DEF CancelTimer, Rotate, IngressSend, IngressReschedule, scheduleCopyCommandPoll, TCalls
    <2>2. CASE handlePigeonholeARQReply
        BY <1>0, <1>1, <2>2 DEF handlePigeonholeARQReply, TCalls
    <2>3. CASE Finish
        BY <1>0, <2>3, Zenon DEF Finish, TCalls
    <2>4. CASE Compose
        BY <1>0, <1>1, <2>4 DEF Compose, TCalls
    <2> QED
        BY <1>6, <2>1, <2>2, <2>3, <2>4 DEF Ingress
<1>7. CASE UNCHANGED vars
    BY <1>0, <1>7 DEF vars, TCalls
<1> QED
    BY <1>2, <1>3, <1>4, <1>5, <1>6, <1>7 DEF Next

LEMMA EgressStepTypes == ASSUME IInv, [Next]_vars PROVE TEgress' /\ Failing'
<1> USE DEF maps, message, sessions, cancels
<1>0. TEgress /\ TMaps /\ Failing
    BY TypeParts DEF IInv
<1>1. /\ TMaps' /\ \A m \in Msgs : SURBID[m] \in SURBs => SURBID'[m] \in SURBs
    BY NextEffect, MapTypesPreserved
<1>2. CASE egress' = egress
    BY <1>0, <1>1, <1>2 DEF TEgress, Failing
<1>3. CASE egress' = EgressIdle
    BY <1>3 DEF EgressIdle, EgressTypes, TEgress, Failing
<1>4. ASSUME NEW a \in Apps, PickNextRequest(a) PROVE TEgress' /\ Failing'
    <2>1. requestCh[a] \subseteq Msgs /\ resendCh[a] \subseteq SURBs
        BY TypeParts DEF IInv, TChannels
    <2>2. \/ \E s \in SURBs : egress' = [pc |-> "resend", msg |-> None, surb |-> s]
          \/ \E m \in Msgs : egress' = [pc |-> "start", msg |-> m, surb |-> None]
        BY <1>4, <2>1 DEF PickNextRequest
    <2> QED
        BY <2>2 DEF TEgress, EgressTypes, Failing
<1>5. CASE StartResending
    <2>1. egress.msg \in Msgs /\ Fresh(egress.msg) \in SURBs
        BY <1>5, StartFacts, FreshFacts
    <2>2. egress' = [pc |-> "send", msg |-> egress.msg, surb |-> Fresh(egress.msg)]
        BY <1>5 DEF StartResending
    <2> QED
        BY <2>1, <2>2, SMTT(30) DEF TEgress, EgressTypes, Failing
<1>6. CASE arqDoResend
    <2> DEFINE s == egress.surb
               m == arqSurbIDMap[s]
    <2>1. s \in SURBs
        BY <1>0, <1>6, SMTT(30) DEF arqDoResend, TEgress
    <2>2. CASE m = None
        BY <1>3, <1>6, <2>2, SMTT(30) DEF arqDoResend
    <2>3. CASE m # None
        <3>1. m \in Msgs /\ SURBID[m] = s
            BY <2>1, <2>3, TrackedHasSurb, SMTT(30)
        <3>2. CASE egress' = [pc |-> "failed", msg |-> m, surb |-> None]
            BY <1>1, <2>1, <3>1, <3>2, SMTT(30) DEF TEgress, EgressTypes, Failing
        <3>3. CASE Rekey(m) /\ egress' = [pc |-> "send", msg |-> m, surb |-> Fresh(m)]
            BY <3>1, <3>3, RekeyFacts DEF TEgress, EgressTypes, Failing
        <3> QED
            BY <1>3, <1>6, <2>3, <3>2, <3>3 DEF arqDoResend, rotateARQSurbIDLocked
    <2> QED
        BY <2>2, <2>3, SMTT(30)
<1>7. CASE StartFails \/ EgressSend \/ EgressReschedule
    BY <1>3, <1>7, SMTT(30) DEF StartFails, EgressSend, EgressReschedule
<1>8. ASSUME NEW m \in Msgs, Start(m) \/ Cancel(m) PROVE egress' = egress
    BY <1>8 DEF Start, Cancel
<1>9. ASSUME NEW a \in Apps, AnswerCancel(a) \/ Disconnect(a) \/ Resume(a) \/ Close(a)
      PROVE  egress' = egress
    BY <1>9 DEF AnswerCancel, Disconnect, Resume, Close
<1>10. ASSUME NEW s \in SURBs, enqueueResend(s) \/ handleReply(s) \/ Lose(s) PROVE egress' = egress
    BY <1>10 DEF enqueueResend, handleReply, Lose
<1>11. ASSUME Ingress PROVE egress' = egress
    BY <1>11 DEF Ingress, CancelTimer, handlePigeonholeARQReply, Finish, Compose, Rotate, IngressSend,
                 IngressReschedule, scheduleCopyCommandPoll
<1>12. CASE UNCHANGED vars
    BY <1>2, <1>12 DEF vars
<1> QED
    BY <1>2, <1>4, <1>5, <1>6, <1>7, <1>8, <1>9, <1>10, <1>11, <1>12 DEF Next, Egress

LEMMA IngressStepTypes == ASSUME IInv, [Next]_vars PROVE TIngress'
<1> USE DEF maps, message, sessions, cancels
<1>0. TIngress /\ TMaps /\ TChannels
    BY TypeParts DEF IInv
<1>1. \A m \in Msgs : SURBID[m] \in SURBs => SURBID'[m] \in SURBs
    BY NextEffect, MapTypesPreserved
<1>2. CASE ingress' = ingress
    BY <1>0, <1>1, <1>2 DEF TIngress
<1>3. CASE ingress' = IngressIdle
    BY <1>3 DEF IngressIdle, IngressTypes, TIngress
<1>4. ASSUME NEW s \in SURBs, handleReply(s) PROVE TIngress'
    <2> DEFINE m == arqSurbIDMap[s]
    <2>1. CASE m = None
        BY <1>3, <1>4, <2>1 DEF handleReply
    <2>2. CASE m # None
        <3>1. m \in Msgs /\ SURBID[m] = s /\ SURBID' = SURBID
            BY <1>4, <2>2, TrackedHasSurb DEF handleReply
        <3>2. ingress' = [IngressIdle EXCEPT !.pc = "untime", !.msg = m, !.surb = s]
            BY <1>4, <2>2 DEF handleReply
        <3> HIDE DEF m
        <3> QED
            BY <3>1, <3>2, Zenon DEF IngressIdle, IngressTypes, TIngress
    <2> QED
        BY <2>1, <2>2
<1>5. ASSUME ingress.pc # "idle", SURBID'[ingress.msg] \in SURBs,
             NEW pc \in {"finish", "compose", "failed", "poll"}, NEW g \in Nat, NEW r \in BOOLEAN,
             ingress' = [ingress EXCEPT !.pc = pc, !.gen = g, !.retry = r]
      PROVE  TIngress'
    BY <1>0, <1>5, Zenon DEF TIngress, IngressTypes
<1>6. ASSUME Ingress PROVE TIngress'
    <2>0. ingress.pc # "idle" => ingress.msg \in Msgs /\ SURBID[ingress.msg] \in SURBs
                                 /\ SURBID'[ingress.msg] \in SURBs
        BY <1>0, <1>1 DEF TIngress
    <2>1. CASE CancelTimer
        BY <1>0, <2>0, <2>1 DEF CancelTimer, TIngress, IngressTypes
    <2>2. CASE handlePigeonholeARQReply
        <3> DEFINE m == ingress.msg
                   g == gen[AppOf[m]]
        <3>1. ingress.pc # "idle" /\ m \in Msgs
            BY <2>0, <2>2 DEF handlePigeonholeARQReply
        <3>2. g \in Nat
            BY <1>0, <3>1, ARQAssumption DEF ARQConstants, TChannels
        <3>3. ASSUME NEW answer \in Answers(m), Dispatch(m, answer)
              PROVE  \/ ingress' = IngressIdle
                     \/ \E pc \in {"finish", "compose", "poll"}, r \in BOOLEAN :
                           ingress' = [ingress EXCEPT !.pc = pc, !.gen = g, !.retry = r]
            BY <3>3, Zenon DEF Dispatch
        <3>4. ingress' = IngressIdle \/ \E answer \in Answers(m) : Dispatch(m, answer)
            BY <2>2 DEF handlePigeonholeARQReply
        <3>5. SURBID'[m] \in SURBs
            BY <2>0, <3>1
        <3> HIDE DEF m, g
        <3>6. CASE \E pc \in {"finish", "compose", "poll"}, r \in BOOLEAN :
                      ingress' = [ingress EXCEPT !.pc = pc, !.gen = g, !.retry = r]
            BY <1>5, <3>1, <3>2, <3>5, <3>6, Zenon DEF m
        <3> QED
            BY <1>3, <3>3, <3>4, <3>6, Zenon
    <2>3. CASE Finish \/ IngressSend \/ IngressReschedule \/ scheduleCopyCommandPoll
        BY <1>3, <2>3, Zenon DEF Finish, IngressSend, IngressReschedule, scheduleCopyCommandPoll
    <2>4. CASE Compose
        BY <1>0, <2>0, <2>4, Zenon DEF Compose, TIngress, IngressTypes
    <2>5. CASE Rotate
        <3>1. ingress.pc = "rotate" /\ ingress.msg \in Msgs /\ ingress.old \in SURBs
            BY <1>0, <2>0, <2>5 DEF Rotate, TIngress
        <3>2. CASE Rekey(ingress.msg) /\ ingress' = [ingress EXCEPT !.pc = "send", !.surb = Fresh(ingress.msg)]
            BY <1>0, <2>0, <3>1, <3>2, RekeyFacts, Zenon DEF TIngress, IngressTypes
        <3> QED
            BY <1>3, <2>5, <3>2 DEF Rotate, rotateARQSurbIDLocked
    <2> QED
        BY <1>6, <2>1, <2>2, <2>3, <2>4, <2>5 DEF Ingress
<1>7. ASSUME NEW m \in Msgs, Start(m) \/ Cancel(m) PROVE ingress' = ingress
    BY <1>7, Zenon DEF Start, Cancel
<1>8. ASSUME NEW a \in Apps, AnswerCancel(a) \/ PickNextRequest(a) \/ Disconnect(a) \/ Resume(a) \/ Close(a)
      PROVE  ingress' = ingress
    BY <1>8 DEF AnswerCancel, PickNextRequest, Disconnect, Resume, Close
<1>9. ASSUME NEW s \in SURBs, enqueueResend(s) \/ Lose(s) PROVE ingress' = ingress
    BY <1>9, Zenon DEF enqueueResend, Lose
<1>10. ASSUME Egress PROVE ingress' = ingress
    BY <1>10, Zenon DEF Egress, StartResending, StartFails, arqDoResend, EgressSend, EgressReschedule
<1>11. CASE UNCHANGED vars
    BY <1>2, <1>11 DEF vars
<1> QED
    BY <1>2, <1>4, <1>6, <1>7, <1>8, <1>9, <1>10, <1>11 DEF Next

-----------------------------------------------------------------------------
(* Starting and Answering.                                                 *)

\* No new candidate for a start, no call that becomes startable.
Settles ==
    /\ \A a \in Apps : requestCh'[a] \subseteq requestCh[a]
    /\ egress'.pc = "start" => egress' = egress
    /\ \A m \in Msgs : call'[m] = "none" => call[m] = "none"

LEMMA QueueEffect ==
    ASSUME IInv, [Next]_vars
    PROVE  (\E m \in Msgs : Start(m)) \/ (\E a \in Apps : PickNextRequest(a)) \/ Settles
<1> USE DEF maps, message, sessions, cancels
<1>0. TChannels /\ TCalls
    BY TypeParts DEF IInv
<1>1. ASSUME NEW m \in Msgs, Cancel(m) PROVE Settles
    BY <1>1, Zenon DEF Cancel, Settles
<1>2. ASSUME NEW a \in Apps, AnswerCancel(a) \/ Disconnect(a) \/ Resume(a) \/ Close(a) PROVE Settles
    BY <1>0, <1>2, Zenon DEF AnswerCancel, Disconnect, Resume, Close, Settles, TChannels, TCalls
<1>3. ASSUME NEW s \in SURBs, enqueueResend(s) \/ handleReply(s) \/ Lose(s) PROVE Settles
    BY <1>3 DEF enqueueResend, handleReply, Lose, Settles
<1>4. ASSUME Egress PROVE Settles
    <2>1. requestCh' = requestCh /\ \A m \in Msgs : call'[m] = "none" => call[m] = "none"
        BY <1>0, <1>4, Zenon DEF Egress, StartResending, StartFails, arqDoResend, EgressSend, EgressReschedule,
                          TCalls
    <2>2. egress'.pc # "start"
        <3>1. \/ egress' = EgressIdle
              \/ \E m, u : egress' = [pc |-> "send", msg |-> m, surb |-> u]
              \/ \E m : egress' = [pc |-> "failed", msg |-> m, surb |-> None]
            BY <1>4, Zenon DEF Egress, StartResending, StartFails, arqDoResend, EgressSend, EgressReschedule
        <3>2. /\ EgressIdle.pc = "idle"
              /\ \A m, u : [pc |-> "send", msg |-> m, surb |-> u].pc = "send"
              /\ \A m : [pc |-> "failed", msg |-> m, surb |-> None].pc = "failed"
            BY DEF EgressIdle
        <3> QED
            BY <3>1, <3>2, Zenon
    <2> QED
        BY <2>1, <2>2 DEF Settles
<1>5. ASSUME Ingress PROVE Settles
    BY <1>0, <1>5 DEF Ingress, CancelTimer, handlePigeonholeARQReply, Finish, Compose, Rotate, IngressSend,
                      IngressReschedule, scheduleCopyCommandPoll, Settles, TCalls
<1>6. CASE UNCHANGED vars
    BY <1>6, Zenon DEF vars, Settles
<1> QED
    BY <1>1, <1>2, <1>3, <1>4, <1>5, <1>6 DEF Next

LEMMA StartingPreserved == ASSUME IInv, [Next]_vars PROVE Starting'
<1> USE DEF maps, message, sessions, cancels
<1>0. Starting /\ TChannels /\ TCalls /\ TMaps /\ TEgress
    BY TypeParts DEF IInv
<1>1. ASSUME NEW m \in Msgs, Start(m) PROVE Starting'
    <2>1. AppOf[m] \in Apps /\ call[m] = "none" /\ ~Startable(m) /\ minted[m] = 0
        BY <1>0, <1>1, ARQAssumption DEF Start, Starting, ARQConstants
    <2>2. /\ call' = [call EXCEPT ![m] = "waiting"]
          /\ requestCh' = [requestCh EXCEPT ![AppOf[m]] = @ \cup {m}]
          /\ UNCHANGED <<egress, minted>>
        BY <1>1 DEF Start
    <2>3. \A a \in Apps : requestCh'[a] = IF a = AppOf[m] THEN requestCh[a] \cup {m} ELSE requestCh[a]
        BY <1>0, <2>1, <2>2, Zenon DEF TChannels
    <2>4. /\ \A n \in Msgs : call'[n] = "none" => call[n] = "none" /\ n # m
          /\ \A n \in Msgs : Startable(n)' => Startable(n) \/ n = m
        <3>1. \A n \in Msgs : call'[n] = "none" => call[n] = "none" /\ n # m
            BY <1>0, <2>2 DEF TCalls
        <3>2. \A n \in Msgs : Startable(n)' => Startable(n) \/ n = m
            BY <2>2, <2>3 DEF Startable
        <3> QED
            BY <3>1, <3>2
    <2>5. \A a \in Apps : \A n \in requestCh'[a] : AppOf[n] = a /\ ~(egress'.pc = "start" /\ egress'.msg = n)
        BY <1>0, <2>1, <2>2, <2>3, SMTT(30) DEF Starting, Startable
    <2> QED
        BY <1>0, <2>1, <2>2, <2>4, <2>5, Zenon DEF Starting
<1>2. ASSUME NEW a \in Apps, PickNextRequest(a) PROVE Starting'
    <2>1. egress.pc = "idle" /\ UNCHANGED <<call, minted>>
        BY <1>2, SMTT(30) DEF PickNextRequest
    <2>2. ASSUME NEW m \in requestCh[a],
                 requestCh' = [requestCh EXCEPT ![a] = @ \ {m}],
                 egress' = [pc |-> "start", msg |-> m, surb |-> None]
          PROVE  Starting'
        <3>1. /\ \A b \in Apps : requestCh'[b] = IF b = a THEN requestCh[b] \ {m} ELSE requestCh[b]
              /\ requestCh[a] \subseteq Msgs
            BY <1>0, <2>2, Zenon DEF TChannels
        <3>2. egress'.pc = "start" /\ egress'.msg = m
            BY <2>2
        <3>3. \A n \in Msgs : Startable(n)' => Startable(n)
            BY <2>2, <3>1, <3>2 DEF Startable
        <3>4. \A b \in Apps : \A n \in requestCh'[b] :
                 AppOf[n] = b /\ ~(egress'.pc = "start" /\ egress'.msg = n)
            BY <1>0, <2>2, <3>1, <3>2, SMTT(30) DEF Starting
        <3> QED
            BY <1>0, <2>1, <3>3, <3>4 DEF Starting
    <2>3. ASSUME UNCHANGED requestCh, egress'.pc = "resend" PROVE Starting'
        BY <1>0, <2>1, <2>3, SMTT(30) DEF Starting, Startable
    <2> QED
        BY <1>2, <2>2, <2>3, SMTT(30) DEF PickNextRequest
<1>3. ASSUME Settles PROVE Starting'
    <2>1. \A m \in Msgs : Startable(m)' => Startable(m)
        BY <1>3, SMTT(30) DEF Settles, Startable
    <2>2. \A m \in Msgs : minted'[m] # minted[m] => SURBID[m] \in SURBs \/ (StartResending /\ m = egress.msg)
        <3>1. CASE Removes
            BY <3>1, SMTT(30) DEF Removes
        <3>2. ASSUME NEW n \in Msgs, Rekeys(n)
              PROVE  \A m \in Msgs : minted'[m] # minted[m] => SURBID[m] \in SURBs
            BY <1>0, <3>2 DEF Rekeys, Rekey, TMaps
        <3>3. CASE StartResending
            <4>1. egress.msg \in Msgs /\ minted' = [minted EXCEPT ![egress.msg] = @ + 1]
                BY <3>3, StartFacts, SMTT(30) DEF StartResending
            <4> QED
                BY <1>0, <3>3, <4>1, SMTT(30) DEF TMaps
        <3> QED
            BY <3>1, <3>2, <3>3, NextEffect
    <2>3. \A m \in Msgs : Startable(m)' => minted'[m] = minted[m]
        <3> SUFFICES ASSUME NEW m \in Msgs, Startable(m)', minted'[m] # minted[m] PROVE FALSE
            OBVIOUS
        <3>1. StartResending /\ m = egress.msg
            BY <2>1, <2>2, InHandMinted, SMTT(30)
        <3>2. egress'.pc # "start" /\ egress.pc = "start" /\ requestCh' = requestCh
            BY <3>1, SMTT(30) DEF StartResending
        <3> QED
            BY <1>0, <3>1, <3>2 DEF Starting, Startable
    <2>4. \A m \in Msgs : call[m] = "none" => minted'[m] = minted[m]
        BY <1>0, <2>2, InHandMinted DEF Starting, Startable, StartResending
    <2> QED
        BY <1>0, <1>3, <2>1, <2>3, <2>4 DEF Starting, Settles, TChannels
<1> QED
    BY <1>1, <1>2, <1>3, QueueEffect

LEMMA AnsweringPreserved == ASSUME IInv, [Next]_vars PROVE Answering'
<1> USE DEF maps, message, sessions, cancels
<1>0. Answering /\ TCalls
    BY TypeParts DEF IInv
<1>1. CASE canceller' = canceller
    BY <1>0, <1>1, SMTT(30) DEF Answering
<1>2. ASSUME NEW m \in Msgs, Cancel(m) PROVE Answering'
    <2>1. AppOf[m] \in Apps
        BY ARQAssumption DEF ARQConstants
    <2> QED
        BY <1>0, <1>2, <2>1, SMTT(30) DEF Cancel, Answering, TCalls
<1>3. ASSUME NEW a \in Apps, AnswerCancel(a) PROVE Answering'
    BY <1>0, <1>3 DEF AnswerCancel, CancellerIdle, Answering, TCalls
<1>4. ASSUME NEW m \in Msgs, Start(m) PROVE canceller' = canceller
    BY <1>4, SMTT(30) DEF Start
<1>5. ASSUME NEW a \in Apps, PickNextRequest(a) \/ Disconnect(a) \/ Resume(a) \/ Close(a)
      PROVE  canceller' = canceller
    BY <1>5 DEF PickNextRequest, Disconnect, Resume, Close
<1>6. ASSUME NEW s \in SURBs, enqueueResend(s) \/ handleReply(s) \/ Lose(s) PROVE canceller' = canceller
    BY <1>6 DEF enqueueResend, handleReply, Lose
<1>7. ASSUME Egress PROVE canceller' = canceller
    BY <1>7, Zenon DEF Egress, StartResending, StartFails, arqDoResend, EgressSend, EgressReschedule
<1>8. ASSUME Ingress PROVE canceller' = canceller
    BY <1>8 DEF Ingress, CancelTimer, handlePigeonholeARQReply, Finish, Compose, Rotate, IngressSend,
                IngressReschedule, scheduleCopyCommandPoll
<1>9. CASE UNCHANGED vars
    BY <1>1, <1>9 DEF vars
<1> QED
    BY <1>1, <1>2, <1>3, <1>4, <1>5, <1>6, <1>7, <1>8, <1>9 DEF Next

LEMMA InitIInv == Init => IInv
<1> SUFFICES ASSUME Init PROVE IInv
    OBVIOUS
<1> USE DEF Init
<1>1. TMaps /\ TChannels
    BY SurbFacts, SMTT(30) DEF TMaps, TChannels, States
<1>2. TCalls /\ TEgress /\ TIngress
    BY SMTT(30) DEF TCalls, TEgress, TIngress, EgressIdle, IngressIdle, CancellerIdle, EgressTypes,
           IngressTypes, CancellerTypes
<1>3. SurbMapExact /\ Minting /\ Starting /\ Failing /\ Answering
    BY DEF SurbMapExact, Minting, Starting, Startable, Failing, Answering, EgressIdle, CancellerIdle
<1> QED
    BY <1>1, <1>2, <1>3, TypeParts DEF IInv

LEMMA StepIInv == IInv /\ [Next]_vars => IInv'
<1> SUFFICES ASSUME IInv, [Next]_vars PROVE IInv'
    OBVIOUS
<1>1. TMaps' /\ SurbMapExact' /\ Minting'
    BY NextEffect, MapTypesPreserved, SurbMapPreserved
<1>2. TMaps' /\ TChannels' /\ TCalls' /\ TEgress' /\ TIngress' => TypeOK'
    BY TypeParts, PTL
<1> QED
    BY <1>1, <1>2, ChannelTypes, CallTypes, EgressStepTypes, IngressStepTypes, StartingPreserved,
       AnsweringPreserved DEF IInv

LEMMA SpecIInv == Spec => []IInv
BY InitIInv, StepIInv, PTL DEF Spec

\* Type correctness of the daemon's ARQ state (client/daemon.go), for any
\* number of sessions, messages and faults: no worker ever handles a message
\* that was not looked up, and none is without a SURBID once it was sent.
THEOREM ARQTypeCorrect == Spec => []TypeOK
BY SpecIInv, PTL DEF IInv

-----------------------------------------------------------------------------
(* The envelope-hash map.  Messages with the same envelope hash do share an *)
(* entry, so what follows is about requests with envelopes of their own.   *)

DistinctEnvelopes == \A m, n \in Msgs : HashOf[m] = HashOf[n] => m = n

\* Entries go from both maps for the same messages.
RemovesBoth(gone) ==
    /\ UNCHANGED <<SURBID, minted>>
    /\ \A s \in SURBs : arqSurbIDMap'[s] = IF arqSurbIDMap[s] \in gone THEN None ELSE arqSurbIDMap[s]
    /\ \A h \in Hashes : arqEnvelopeHashMap'[h] = IF \E m \in gone : HashOf[m] = h THEN None
                                                  ELSE arqEnvelopeHashMap[h]

LEMMA Owner ==
    ASSUME IInv, NEW s \in SURBs, arqSurbIDMap[s] # None
    PROVE  arqSurbIDMap[s] \in Msgs /\ SURBID[arqSurbIDMap[s]] = s /\ s[1] = arqSurbIDMap[s]
BY TrackedHasSurb, SurbFacts DEF IInv, Minting

LEMMA UnchangedBoth ==
    ASSUME UNCHANGED <<maps, SURBID, minted>> PROVE RemovesBoth({})
BY DEF RemovesBoth, maps

\* Removing the entry of a message's current SURB removes the message.
LEMMA RemovingOne ==
    ASSUME IInv, NEW m \in Msgs, NEW s \in SURBs, SURBID[m] = s, UNCHANGED <<SURBID, minted>>,
           arqSurbIDMap' = [arqSurbIDMap EXCEPT ![s] = None],
           arqEnvelopeHashMap' = [arqEnvelopeHashMap EXCEPT ![HashOf[m]] = None]
    PROVE  RemovesBoth({m})
<1>1. TMaps /\ HashOf[m] \in Hashes
    BY TypeParts, ARQAssumption DEF IInv, ARQConstants
<1>2. \A t \in SURBs : arqSurbIDMap[t] = m => t = s
    BY TrackedHasSurb, SurbFacts
<1>3. arqSurbIDMap[s] \in {m, None}
    <2>1. s[1] = m
        BY SurbFacts DEF IInv, Minting
    <2> QED
        BY <2>1, Owner
<1> QED
    BY <1>1, <1>2, <1>3, SurbFacts DEF RemovesBoth, TMaps

LEMMA NextEffectBoth ==
    ASSUME IInv, HashMapExact, DistinctEnvelopes, [Next]_vars
    PROVE  (\E gone \in SUBSET Msgs : RemovesBoth(gone)) \/ (\E m \in Msgs : Rekeys(m)) \/ StartResending
<1> USE DEF maps, message
<1>0. TMaps /\ TEgress /\ TIngress /\ Failing /\ \A m \in Msgs : HashOf[m] \in Hashes
    BY TypeParts, ARQAssumption DEF IInv, ARQConstants
<1> DEFINE Goal == \E gone \in SUBSET Msgs : RemovesBoth(gone)
<1>1. ASSUME UNCHANGED <<maps, SURBID, minted>> PROVE Goal
    BY <1>1, UnchangedBoth
<1>2. ASSUME NEW m \in Msgs, SURBID[m] \in SURBs, UNCHANGED <<SURBID, minted>>,
             arqSurbIDMap' = [arqSurbIDMap EXCEPT ![SURBID[m]] = None],
             arqEnvelopeHashMap' = [arqEnvelopeHashMap EXCEPT ![HashOf[m]] = None]
      PROVE  Goal
    BY <1>2, RemovingOne, Zenon
<1>3. ASSUME NEW m \in Msgs, Forget(m), SURBID[m] \in SURBs, UNCHANGED <<SURBID, minted>> PROVE Goal
    BY <1>2, <1>3, SurbFacts, Zenon DEF Forget
<1> HIDE DEF Goal
<1>4. ASSUME NEW m \in Msgs, Start(m) \/ Cancel(m) PROVE Goal
    <2>1. CASE Start(m)
        BY <1>1, <2>1 DEF Start
    <2>2. CASE Cancel(m)
        <3> DEFINE s == arqEnvelopeHashMap[HashOf[m]]
        <3>1. CASE s = None
            BY <1>1, <2>2, <3>1, ZenonT(30) DEF Cancel
        <3>2. CASE s # None
            <4>1. s \in SURBs /\ arqSurbIDMap[s] # None /\ HashOf[arqSurbIDMap[s]] = HashOf[m]
                BY <1>0, <3>2 DEF TMaps, HashMapExact
            <4>2. arqSurbIDMap[s] = m /\ SURBID[m] = s
                BY <4>1, TrackedHasSurb, SMTT(30) DEF DistinctEnvelopes
            <4> QED
                BY <1>2, <2>2, <3>2, <4>1, <4>2, Zenon DEF Cancel
        <3> QED
            BY <3>1, <3>2
    <2> QED
        BY <1>4, <2>1, <2>2
<1>5. ASSUME NEW a \in Apps, AnswerCancel(a) \/ PickNextRequest(a) \/ Disconnect(a) \/ Resume(a) \/ Close(a)
      PROVE  Goal
    <2>1. CASE Close(a)
        <3> DEFINE mine == {m \in Msgs : AppOf[m] = a /\ Tracked(m)}
        <3>1. RemovesBoth(mine)
            BY <2>1, Zenon DEF Close, RemovesBoth
        <3> QED
            BY <3>1 DEF Goal
    <2> QED
        BY <1>1, <1>5, <2>1 DEF AnswerCancel, PickNextRequest, Disconnect, Resume
<1>6. ASSUME NEW s \in SURBs, enqueueResend(s) \/ handleReply(s) \/ Lose(s) PROVE Goal
    BY <1>1, <1>6 DEF enqueueResend, handleReply, Lose
<1>7. ASSUME Egress PROVE Goal \/ (\E m \in Msgs : Rekeys(m)) \/ StartResending
    <2>1. CASE StartFails \/ EgressSend
        BY <1>1, <2>1 DEF StartFails, EgressSend
    <2>2. CASE arqDoResend
        <3> DEFINE s == egress.surb
                   m == arqSurbIDMap[s]
        <3>0. s \in SURBs
            BY <1>0, <2>2 DEF arqDoResend, TEgress
        <3>1. m # None => m \in Msgs /\ SURBID[m] = s
            BY <3>0, TrackedHasSurb
        <3> QED
            BY <1>1, <1>2, <2>2, <3>0, <3>1, ZenonT(30) DEF arqDoResend, rotateARQSurbIDLocked, Rekeys, Tracked
    <2>3. CASE EgressReschedule
        BY <1>0, <2>3, Zenon DEF EgressReschedule, rescheduleARQAfterComposeFailure, Rekeys, Failing, TEgress
    <2> QED
        BY <1>7, <2>1, <2>2, <2>3 DEF Egress
<1>8. ASSUME Ingress PROVE Goal \/ (\E m \in Msgs : Rekeys(m))
    <2>0. ingress.pc # "idle" => ingress.msg \in Msgs /\ SURBID[ingress.msg] \in SURBs
        BY <1>0 DEF TIngress
    <2>1. CASE CancelTimer \/ Compose \/ IngressSend
        BY <1>1, <2>1 DEF CancelTimer, Compose, IngressSend
    <2>2. CASE handlePigeonholeARQReply \/ Finish
        BY <1>1, <1>3, <2>0, <2>2, Zenon DEF handlePigeonholeARQReply, Finish
    <2>3. CASE Rotate \/ IngressReschedule \/ scheduleCopyCommandPoll
        <3>1. ingress.pc = "rotate" => ingress.old \in SURBs
            BY <1>0 DEF TIngress
        <3> QED
            BY <1>1, <2>0, <2>3, <3>1 DEF Rotate, IngressReschedule, scheduleCopyCommandPoll,
                  rotateARQSurbIDLocked, rescheduleARQAfterComposeFailure, Rekeys, Tracked
    <2> QED
        BY <1>8, <2>1, <2>2, <2>3 DEF Ingress
<1>9. CASE UNCHANGED vars
    <2>1. UNCHANGED <<maps, SURBID, minted>>
        BY <1>9 DEF vars, sessions, cancels
    <2> QED
        BY <1>1, <2>1 DEF Goal
<1> QED
    BY <1>4, <1>5, <1>6, <1>7, <1>8, <1>9 DEF Next, Goal

LEMMA HashMapPreserved ==
    ASSUME IInv, HashMapExact, DistinctEnvelopes, [Next]_vars
    PROVE  HashMapExact'
<1>0. TMaps /\ \A m \in Msgs : HashOf[m] \in Hashes
    BY TypeParts, ARQAssumption, SMTT(30) DEF IInv, ARQConstants
<1>1. ASSUME NEW gone \in SUBSET Msgs, RemovesBoth(gone) PROVE HashMapExact'
    <2>1. ASSUME NEW s \in SURBs, arqSurbIDMap'[s] # None
          PROVE  arqEnvelopeHashMap'[HashOf[arqSurbIDMap'[s]]] = s
        <3>1. arqSurbIDMap'[s] = arqSurbIDMap[s] /\ arqSurbIDMap[s] \in Msgs \ gone
            BY <1>0, <1>1, <2>1 DEF RemovesBoth, TMaps
        <3>2. ~\E m \in gone : HashOf[m] = HashOf[arqSurbIDMap[s]]
            BY <3>1 DEF DistinctEnvelopes
        <3>3. QED
            <4>1. arqEnvelopeHashMap[HashOf[arqSurbIDMap[s]]] = s /\ HashOf[arqSurbIDMap[s]] \in Hashes
                BY <1>0, <3>1, SurbFacts DEF HashMapExact
            <4>2. arqEnvelopeHashMap'[HashOf[arqSurbIDMap[s]]] = s
                BY <1>1, <3>2, <4>1, Zenon DEF RemovesBoth
            <4> QED
                BY <3>1, <4>2, SMTT(30)
    <2>2. ASSUME NEW h \in Hashes, arqEnvelopeHashMap'[h] # None
          PROVE  /\ arqSurbIDMap'[arqEnvelopeHashMap'[h]] # None
                 /\ HashOf[arqSurbIDMap'[arqEnvelopeHashMap'[h]]] = h
        <3>1. arqEnvelopeHashMap'[h] = arqEnvelopeHashMap[h] /\ ~\E m \in gone : HashOf[m] = h
            BY <1>1, <2>2 DEF RemovesBoth
        <3> DEFINE s == arqEnvelopeHashMap[h]
        <3>2. s \in SURBs /\ arqSurbIDMap[s] # None /\ HashOf[arqSurbIDMap[s]] = h
            BY <1>0, <2>2, <3>1, SMTT(30) DEF TMaps, HashMapExact
        <3>3. arqSurbIDMap'[s] = arqSurbIDMap[s]
            BY <1>1, <3>1, <3>2 DEF RemovesBoth
        <3> QED
            BY <3>1, <3>2, <3>3
    <2> QED
        BY <2>1, <2>2, SMTT(30) DEF HashMapExact
<1>2. ASSUME NEW m \in Msgs, NEW f \in SURBs, \A n \in Msgs : SURBID[n] # f,
             \A s \in SURBs : arqSurbIDMap'[s] = IF s = f THEN m
                                                 ELSE IF arqSurbIDMap[s] = m THEN None ELSE arqSurbIDMap[s],
             arqEnvelopeHashMap' = [arqEnvelopeHashMap EXCEPT ![HashOf[m]] = f]
      PROVE  HashMapExact'
    <2>1. \A h \in Hashes : arqEnvelopeHashMap'[h] = IF h = HashOf[m] THEN f ELSE arqEnvelopeHashMap[h]
        BY <1>0, <1>2, SMTT(30) DEF TMaps
    <2>2. ASSUME NEW s \in SURBs, arqSurbIDMap'[s] # None
          PROVE  arqEnvelopeHashMap'[HashOf[arqSurbIDMap'[s]]] = s
        <3>1. CASE s = f
            BY <1>0, <1>2, <2>1, <3>1
        <3>2. CASE s # f
            <4>1. arqSurbIDMap'[s] = arqSurbIDMap[s] /\ arqSurbIDMap[s] \in Msgs /\ arqSurbIDMap[s] # m
                BY <1>0, <1>2, <2>2, <3>2 DEF TMaps
            <4> QED
                BY <1>0, <2>1, <4>1, SurbFacts, SMTT(30) DEF HashMapExact, DistinctEnvelopes
        <3> QED
            BY <3>1, <3>2
    <2>3. ASSUME NEW h \in Hashes, arqEnvelopeHashMap'[h] # None
          PROVE  /\ arqSurbIDMap'[arqEnvelopeHashMap'[h]] # None
                 /\ HashOf[arqSurbIDMap'[arqEnvelopeHashMap'[h]]] = h
        <3>1. CASE h = HashOf[m]
            BY <1>2, <2>1, <3>1, SurbFacts
        <3>2. CASE h # HashOf[m]
            <4> DEFINE s == arqEnvelopeHashMap[h]
            <4>1. arqEnvelopeHashMap'[h] = s
                BY <2>1, <3>2
            <4>2. s \in SURBs /\ arqSurbIDMap[s] # None /\ HashOf[arqSurbIDMap[s]] = h
                BY <1>0, <2>3, <4>1 DEF TMaps, HashMapExact
            <4>3. s # f /\ arqSurbIDMap[s] # m
                BY <1>2, <3>2, <4>2, TrackedHasSurb
            <4>4. arqSurbIDMap'[s] = arqSurbIDMap[s]
                BY <1>2, <4>2, <4>3
            <4> QED
                BY <4>1, <4>2, <4>4
        <3> QED
            BY <3>1, <3>2
    <2> QED
        BY <2>2, <2>3 DEF HashMapExact
<1>3. ASSUME NEW m \in Msgs, Rekeys(m) PROVE HashMapExact'
    <2>1. Rekey(m) /\ CanMint(m) /\ SURBID[m] \in SURBs
        BY <1>3 DEF Rekeys, Rekey
    <2>2. Fresh(m) \in SURBs /\ \A n \in Msgs : SURBID[n] # Fresh(m)
        BY <2>1, FreshFacts
    <2>3. \A s \in SURBs : arqSurbIDMap[s] = m => s = SURBID[m]
        BY TrackedHasSurb, SurbFacts, SMTT(30)
    <2>4. arqSurbIDMap[SURBID[m]] \in {m, None}
        BY <2>1, Owner, SurbFacts, SMTT(30) DEF IInv, Minting
    <2>5. /\ \A s \in SURBs : arqSurbIDMap'[s] = IF s = Fresh(m) THEN m
                                                 ELSE IF arqSurbIDMap[s] = m THEN None ELSE arqSurbIDMap[s]
          /\ arqEnvelopeHashMap' = [arqEnvelopeHashMap EXCEPT ![HashOf[m]] = Fresh(m)]
        BY <2>1, <2>3, <2>4 DEF Rekey
    <2> QED
        BY <1>2, <2>2, <2>5, Zenon
<1>4. CASE StartResending
    <2> DEFINE m == egress.msg
    <2>1. m \in Msgs /\ CanMint(m) /\ \A s \in SURBs : arqSurbIDMap[s] # m
        BY <1>4, StartFacts, SMTT(30)
    <2>2. Fresh(m) \in SURBs /\ \A n \in Msgs : SURBID[n] # Fresh(m)
        BY <2>1, FreshFacts, SMTT(30)
    <2>3. /\ arqSurbIDMap' = [arqSurbIDMap EXCEPT ![Fresh(m)] = m]
          /\ arqEnvelopeHashMap' = [arqEnvelopeHashMap EXCEPT ![HashOf[m]] = Fresh(m)]
        BY <1>4, SMTT(30) DEF StartResending
    <2> HIDE DEF m
    <2>4. \A s \in SURBs : arqSurbIDMap'[s] = IF s = Fresh(m) THEN m
                                              ELSE IF arqSurbIDMap[s] = m THEN None ELSE arqSurbIDMap[s]
        BY <1>0, <2>1, <2>2, <2>3 DEF TMaps
    <2> QED
        BY <1>2, <2>1, <2>2, <2>3, <2>4, Zenon
<1> QED
    BY <1>1, <1>3, <1>4, NextEffectBoth

\* When every request has an envelope of its own, the two ARQ maps agree in
\* every interleaving of starts, resends, replies, cancels, disconnects and
\* compose failures: Cancel always finds a tracked message by its envelope
\* hash, which is what rotateARQSurbIDLocked is written to guarantee.
THEOREM ARQMapsAgree == ASSUME DistinctEnvelopes PROVE Spec => []MapsAgree
<1>1. Init => HashMapExact
    BY DEF Init, HashMapExact
<1>2. IInv /\ HashMapExact /\ [Next]_vars => HashMapExact'
    BY HashMapPreserved
<1>3. IInv /\ HashMapExact => MapsAgree
    BY DEF IInv, MapsAgree
<1> QED
    BY <1>1, <1>2, <1>3, SpecIInv, PTL DEF Spec

-----------------------------------------------------------------------------
(* Cancellation.  A compose failure re-registers the message without       *)
(* looking for a cancel, so what follows is about runs without one.        *)

\* A message that was started and is in the maps no more.
Gone(m) == ~Tracked(m) /\ minted[m] > 0

Undisturbed == spent["compose"] = 0 /\ egress.pc # "failed" /\ ingress.pc # "failed"

CancelledGone ==
    /\ \A m \in cancelled : Gone(m)
    /\ \A a \in Apps : canceller[a].pc = "answer" /\ canceller[a].found # None => Gone(canceller[a].found)

CInv == Undisturbed /\ CancelledGone

RekeysTracked(m) == Rekey(m) /\ Tracked(m)

LEMMA UndisturbedPreserved ==
    ASSUME IInv, MaxComposeFailures = 0, Undisturbed, [Next]_vars
    PROVE  /\ Undisturbed'
           /\ Removes \/ (\E m \in Msgs : RekeysTracked(m)) \/ StartResending
<1> USE DEF maps, message, sessions, cancels
<1>0. TCalls /\ TEgress /\ TIngress /\ TMaps /\ Undisturbed
    BY TypeParts DEF IInv
<1>1. ~Spend("compose")
    BY <1>0 DEF Spend, Limit, Undisturbed
<1>2. spent'["compose"] = 0
    <2>1. \A f \in {"loss", "late", "unready", "disconnect"} : Spend(f) => spent'["compose"] = 0
        BY <1>0 DEF Spend, Undisturbed, TCalls, Faults
    <2>2. \/ spent' = spent
          \/ \E f \in {"loss", "late", "unready", "compose", "disconnect"} : Spend(f)
        <3>1. ASSUME NEW m \in Msgs, Start(m) \/ Cancel(m) PROVE spent' = spent
            BY <3>1, SMTT(30) DEF Start, Cancel
        <3>2. ASSUME NEW a \in Apps, AnswerCancel(a) \/ PickNextRequest(a) \/ Disconnect(a) \/ Resume(a) \/ Close(a)
              PROVE  spent' = spent \/ Spend("disconnect")
            BY <3>2 DEF AnswerCancel, PickNextRequest, Disconnect, Resume, Close
        <3>3. ASSUME NEW s \in SURBs, enqueueResend(s) \/ handleReply(s) \/ Lose(s)
              PROVE  spent' = spent \/ Spend("late") \/ Spend("loss")
            BY <3>3 DEF enqueueResend, handleReply, Lose
        <3>4. ASSUME Egress PROVE spent' = spent \/ Spend("compose")
            BY <3>4, Zenon DEF Egress, StartResending, StartFails, arqDoResend, EgressSend, EgressReschedule
        <3>5. ASSUME Ingress PROVE spent' = spent \/ Spend("compose") \/ Spend("unready")
            BY <3>5 DEF Ingress, CancelTimer, handlePigeonholeARQReply, Finish, Compose, Rotate,
                        IngressSend, IngressReschedule, scheduleCopyCommandPoll
        <3>6. CASE UNCHANGED vars
            BY <3>6 DEF vars
        <3> QED
            BY <3>1, <3>2, <3>3, <3>4, <3>5, <3>6, SMTT(30) DEF Next
    <2> QED
        BY <1>0, <1>1, <2>1, <2>2 DEF Undisturbed
<1>3. egress'.pc # "failed"
    <2>1. ASSUME NEW a \in Apps, PickNextRequest(a) PROVE egress'.pc # "failed"
        <3>1. \/ \E s \in resendCh[a] : egress' = [pc |-> "resend", msg |-> None, surb |-> s]
              \/ \E m \in requestCh[a] : egress' = [pc |-> "start", msg |-> m, surb |-> None]
            BY <2>1, Zenon DEF PickNextRequest
        <3>2. \A s : [pc |-> "resend", msg |-> None, surb |-> s].pc = "resend"
            OBVIOUS
        <3>3. \A m : [pc |-> "start", msg |-> m, surb |-> None].pc = "start"
            OBVIOUS
        <3> QED
            BY <3>1, <3>2, <3>3, Zenon
    <2>2. ASSUME Egress PROVE egress'.pc # "failed"
        <3>1. CASE StartResending
            BY <3>1 DEF StartResending
        <3>2. CASE StartFails \/ EgressSend \/ EgressReschedule
            <4>1. egress' = EgressIdle
                BY <3>2 DEF StartFails, EgressSend, EgressReschedule
            <4> QED
                BY <4>1 DEF EgressIdle
        <3>3. CASE arqDoResend
            <4>1. \/ egress' = EgressIdle
                  \/ \E m, u : egress' = [pc |-> "send", msg |-> m, surb |-> u]
                BY <1>1, <3>3, Zenon DEF arqDoResend
            <4>2. EgressIdle.pc = "idle" /\ \A m, u : [pc |-> "send", msg |-> m, surb |-> u].pc = "send"
                BY DEF EgressIdle
            <4> QED
                BY <4>1, <4>2, Zenon
        <3> QED
            BY <2>2, <3>1, <3>2, <3>3, SMTT(30) DEF Egress
    <2>3. ASSUME NEW m \in Msgs, Start(m) \/ Cancel(m) PROVE egress' = egress
        BY <2>3, Zenon DEF Start, Cancel
    <2>4. ASSUME NEW a \in Apps, AnswerCancel(a) \/ Disconnect(a) \/ Resume(a) \/ Close(a)
          PROVE  egress' = egress
        BY <2>4 DEF AnswerCancel, Disconnect, Resume, Close
    <2>5. ASSUME NEW s \in SURBs, enqueueResend(s) \/ handleReply(s) \/ Lose(s) PROVE egress' = egress
        BY <2>5 DEF enqueueResend, handleReply, Lose
    <2>6. ASSUME Ingress PROVE egress' = egress
        BY <2>6 DEF Ingress, CancelTimer, handlePigeonholeARQReply, Finish, Compose, Rotate, IngressSend,
                    IngressReschedule, scheduleCopyCommandPoll
    <2>7. CASE UNCHANGED vars
        BY <1>0, <2>7 DEF vars, Undisturbed
    <2> QED
        BY <1>0, <2>1, <2>2, <2>3, <2>4, <2>5, <2>6, <2>7 DEF Next, Undisturbed
<1>4. ingress'.pc # "failed"
    <2>0. IngressIdle.pc = "idle" /\ ingress \in IngressTypes
        BY <1>0 DEF TIngress, IngressIdle
    <2>1. ASSUME NEW s \in SURBs, handleReply(s) PROVE ingress'.pc # "failed"
        BY <2>1 DEF handleReply, IngressIdle
    <2>2. ASSUME Ingress PROVE ingress'.pc # "failed"
        <3>1. CASE handlePigeonholeARQReply
            <4> DEFINE m == ingress.msg
            <4>1. ASSUME NEW answer \in Answers(m), Dispatch(m, answer)
                  PROVE  \/ ingress' = IngressIdle
                         \/ \E pc \in {"finish", "compose", "poll"}, r \in BOOLEAN :
                               ingress' = [ingress EXCEPT !.pc = pc, !.gen = gen[AppOf[m]], !.retry = r]
                BY <4>1, Zenon DEF Dispatch
            <4>2. ingress' = IngressIdle \/ \E answer \in Answers(m) : Dispatch(m, answer)
                BY <3>1, Zenon DEF handlePigeonholeARQReply
            <4>3. ASSUME NEW pc \in {"finish", "compose", "poll"}, NEW r \in BOOLEAN,
                         ingress' = [ingress EXCEPT !.pc = pc, !.gen = gen[AppOf[m]], !.retry = r]
                  PROVE  ingress'.pc # "failed"
                BY <2>0, <4>3 DEF IngressTypes
            <4> QED
                BY <2>0, <4>1, <4>2, <4>3, Zenon
        <3>2. CASE CancelTimer \/ Compose \/ Rotate
            <4>1. \/ ingress' = IngressIdle
                  \/ ingress' = [ingress EXCEPT !.pc = "handle"]
                  \/ ingress' = [ingress EXCEPT !.pc = "rotate", !.old = SURBID[ingress.msg]]
                  \/ ingress' = [ingress EXCEPT !.pc = "send", !.surb = Fresh(ingress.msg)]
                BY <1>1, <3>2 DEF CancelTimer, Compose, Rotate
            <4>2. CASE ingress' = [ingress EXCEPT !.pc = "handle"]
                BY <2>0, <4>2 DEF IngressTypes
            <4>3. CASE ingress' = [ingress EXCEPT !.pc = "rotate", !.old = SURBID[ingress.msg]]
                BY <2>0, <4>3 DEF IngressTypes
            <4>4. CASE ingress' = [ingress EXCEPT !.pc = "send", !.surb = Fresh(ingress.msg)]
                BY <2>0, <4>4 DEF IngressTypes
            <4> QED
                BY <2>0, <4>1, <4>2, <4>3, <4>4
        <3>3. CASE Finish \/ IngressSend \/ IngressReschedule \/ scheduleCopyCommandPoll
            <4>1. ingress' = IngressIdle
                BY <3>3 DEF Finish, IngressSend, IngressReschedule, scheduleCopyCommandPoll
            <4> QED
                BY <2>0, <4>1, SMTT(30)
        <3> QED
            BY <2>2, <3>1, <3>2, <3>3 DEF Ingress
    <2>3. ASSUME NEW m \in Msgs, Start(m) \/ Cancel(m) PROVE ingress' = ingress
        BY <2>3, ZenonT(30) DEF Start, Cancel
    <2>4. ASSUME NEW a \in Apps, AnswerCancel(a) \/ PickNextRequest(a) \/ Disconnect(a) \/ Resume(a) \/ Close(a)
          PROVE  ingress' = ingress
        BY <2>4 DEF AnswerCancel, PickNextRequest, Disconnect, Resume, Close
    <2>5. ASSUME NEW s \in SURBs, enqueueResend(s) \/ Lose(s) PROVE ingress' = ingress
        BY <2>5, Zenon DEF enqueueResend, Lose
    <2>6. ASSUME Egress PROVE ingress' = ingress
        BY <2>6, Zenon DEF Egress, StartResending, StartFails, arqDoResend, EgressSend, EgressReschedule
    <2>7. CASE UNCHANGED vars
        BY <1>0, <2>7 DEF vars, Undisturbed
    <2> QED
        BY <1>0, <2>1, <2>2, <2>3, <2>4, <2>5, <2>6, <2>7, SMTT(30) DEF Next, Undisturbed
<1>5. \A m \in Msgs : Rekeys(m) => RekeysTracked(m)
    BY <1>0 DEF Rekeys, RekeysTracked, Undisturbed
<1> QED
    BY <1>2, <1>3, <1>4, <1>5, NextEffect DEF Undisturbed

GoneAfter(m) == (\A s \in SURBs : arqSurbIDMap'[s] # m) /\ minted'[m] > 0

LEMMA GoneStays ==
    ASSUME IInv, Removes \/ (\E n \in Msgs : RekeysTracked(n)) \/ StartResending,
           NEW m \in Msgs, Gone(m)
    PROVE  GoneAfter(m)
<1>0. TMaps
    BY TypeParts, SMTT(30) DEF IInv
<1>1. CASE Removes
    BY <1>0, <1>1, SurbFacts, SMTT(30) DEF Removes, Gone, GoneAfter, Tracked
<1>2. ASSUME NEW n \in Msgs, RekeysTracked(n) PROVE GoneAfter(m)
    <2>1. n # m /\ Rekey(n)
        BY <1>2 DEF RekeysTracked, Gone
    <2>2. minted'[m] = minted[m]
        BY <1>0, <2>1 DEF Rekey, TMaps
    <2>3. \A s \in SURBs : arqSurbIDMap'[s] # m
        BY <1>0, <2>1, SurbFacts, SMTT(30) DEF Rekey, Gone, Tracked, TMaps
    <2> QED
        BY <2>2, <2>3 DEF Gone, GoneAfter
<1>3. CASE StartResending
    <2>1. egress.msg \in Msgs /\ egress.msg # m /\ Fresh(egress.msg) \in SURBs
        BY <1>3, StartFacts, FreshFacts, SMTT(30) DEF Gone
    <2>2. /\ arqSurbIDMap' = [arqSurbIDMap EXCEPT ![Fresh(egress.msg)] = egress.msg]
          /\ minted' = [minted EXCEPT ![egress.msg] = @ + 1]
        BY <1>3 DEF StartResending
    <2> QED
        BY <1>0, <2>1, <2>2, SurbFacts, SMTT(30) DEF Gone, GoneAfter, Tracked, TMaps
<1> QED
    BY <1>1, <1>2, <1>3

LEMMA CancelledGonePreserved ==
    ASSUME IInv, MaxComposeFailures = 0, CInv, [Next]_vars
    PROVE  CInv'
<1> USE DEF maps, message, sessions, cancels
<1>0. /\ TCalls /\ TMaps /\ Undisturbed' /\ CancelledGone
      /\ \A m \in Msgs : Gone(m) => GoneAfter(m)
    BY UndisturbedPreserved, GoneStays, TypeParts, SMTT(30) DEF CInv, IInv
<1>1. CASE UNCHANGED <<canceller, cancelled>>
    BY <1>0, <1>1, SMTT(30) DEF CInv, CancelledGone, Gone, GoneAfter, Tracked, TCalls, CancellerTypes
<1>2. ASSUME NEW m \in Msgs, Cancel(m) PROVE CInv'
    <2> DEFINE a == AppOf[m]
               s == arqEnvelopeHashMap[HashOf[m]]
               found == IF s = None THEN None ELSE arqSurbIDMap[s]
    <2>1. a \in Apps /\ HashOf[m] \in Hashes
        BY ARQAssumption DEF ARQConstants
    <2>2. canceller' = [canceller EXCEPT ![a] = [pc |-> "answer", asked |-> m, found |-> found]]
          /\ cancelled' = cancelled
        BY <1>2, Zenon DEF Cancel
    <2>3. ASSUME found # None PROVE GoneAfter(found)
        <3>1. s \in SURBs /\ found = arqSurbIDMap[s] /\ arqSurbIDMap' = [arqSurbIDMap EXCEPT ![s] = None]
              /\ minted' = minted
            BY <1>0, <1>2, <2>1, <2>3, ZenonT(30) DEF Cancel, TMaps
        <3>2. found \in Msgs /\ SURBID[found] = s
            BY <2>3, <3>1, TrackedHasSurb, SMTT(30)
        <3>3. minted[found] > 0 /\ \A t \in SURBs : arqSurbIDMap[t] = found => t = s
            BY <2>3, <3>1, <3>2, InHandMinted, TrackedHasSurb
        <3> HIDE DEF found, s
        <3> QED
            BY <1>0, <2>3, <3>1, <3>2, <3>3, SurbFacts DEF GoneAfter, TMaps
    <2> HIDE DEF found, s, a
    <2>4. \A b \in Apps : canceller'[b] = IF b = a THEN [pc |-> "answer", asked |-> m, found |-> found]
                                          ELSE canceller[b]
        BY <1>0, <2>1, <2>2 DEF TCalls
    <2>5. ASSUME NEW b \in Apps, canceller'[b].pc = "answer", canceller'[b].found # None
          PROVE  GoneAfter(canceller'[b].found)
        <3>1. CASE b = a
            BY <2>3, <2>4, <2>5, <3>1, SMTT(30)
        <3>2. CASE b # a
            <4>1. canceller'[b] = canceller[b]
                BY <2>4, <3>2, SMTT(30)
            <4>2. canceller[b].found \in Msgs /\ Gone(canceller[b].found)
                BY <1>0, <2>5, <4>1, SMTT(30) DEF CancelledGone, TCalls, CancellerTypes
            <4> QED
                BY <1>0, <4>1, <4>2, SMTT(30)
        <3> QED
            BY <3>1, <3>2, SMTT(30)
    <2> QED
        BY <1>0, <2>2, <2>5 DEF CInv, CancelledGone, Gone, GoneAfter, Tracked, TCalls
<1>3. ASSUME NEW a \in Apps, AnswerCancel(a) PROVE CInv'
    <2>1. /\ canceller[a].pc = "answer" /\ canceller' = [canceller EXCEPT ![a] = CancellerIdle]
          /\ \/ UNCHANGED cancelled
             \/ canceller[a].found # None /\ cancelled' = cancelled \cup {canceller[a].found}
        BY <1>3, Zenon DEF AnswerCancel
    <2>2. canceller[a].found # None => canceller[a].found \in Msgs /\ Gone(canceller[a].found)
        BY <1>0, <2>1, SMTT(30) DEF CancelledGone, TCalls, CancellerTypes
    <2>3. \A m \in cancelled' : GoneAfter(m)
        BY <1>0, <2>1, <2>2, SMTT(30) DEF CancelledGone, TCalls
    <2>4. ASSUME NEW b \in Apps, canceller'[b].pc = "answer", canceller'[b].found # None
          PROVE  GoneAfter(canceller'[b].found)
        BY <1>0, <2>1, <2>4 DEF CancelledGone, CancellerIdle, TCalls, CancellerTypes
    <2> QED
        BY <1>0, <2>3, <2>4 DEF CInv, CancelledGone, Gone, GoneAfter, Tracked
<1>4. ASSUME NEW m \in Msgs, Start(m) PROVE UNCHANGED <<canceller, cancelled>>
    BY <1>4, SMTT(30) DEF Start
<1>5. ASSUME NEW a \in Apps, PickNextRequest(a) \/ Disconnect(a) \/ Resume(a) \/ Close(a)
      PROVE  UNCHANGED <<canceller, cancelled>>
    BY <1>5 DEF PickNextRequest, Disconnect, Resume, Close
<1>6. ASSUME NEW s \in SURBs, enqueueResend(s) \/ handleReply(s) \/ Lose(s)
      PROVE  UNCHANGED <<canceller, cancelled>>
    BY <1>6 DEF enqueueResend, handleReply, Lose
<1>7. ASSUME Egress PROVE UNCHANGED <<canceller, cancelled>>
    BY <1>7, Zenon DEF Egress, StartResending, StartFails, arqDoResend, EgressSend, EgressReschedule
<1>8. ASSUME Ingress PROVE UNCHANGED <<canceller, cancelled>>
    BY <1>8 DEF Ingress, CancelTimer, handlePigeonholeARQReply, Finish, Compose, Rotate, IngressSend,
                IngressReschedule, scheduleCopyCommandPoll
<1>9. CASE UNCHANGED vars
    BY <1>1, <1>9 DEF vars
<1> QED
    BY <1>1, <1>2, <1>3, <1>4, <1>5, <1>6, <1>7, <1>8, <1>9 DEF Next

\* As long as packets can be composed, a cancellation is final: no resend,
\* reply or Copy poll that was under way when Cancel ran puts the message
\* back (the re-checks of handlePigeonholeARQReply and scheduleCopyCommandPoll).
THEOREM CancellationFinal == ASSUME MaxComposeFailures = 0 PROVE Spec => []CancelIsFinal
<1>1. Init => CInv
    BY DEF Init, CInv, Undisturbed, CancelledGone, EgressIdle, IngressIdle, CancellerIdle, Faults
<1>2. IInv /\ CInv /\ [Next]_vars => CInv'
    BY CancelledGonePreserved
<1>3. CInv => CancelIsFinal
    BY Zenon DEF CInv, CancelledGone, CancelIsFinal, Gone
<1> QED
    BY <1>1, <1>2, <1>3, SpecIInv, PTL DEF Spec
=============================================================================
