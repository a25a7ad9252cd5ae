------------------------------ MODULE ClientARQ ------------------------------
(***************************************************************************)
(* The stop-and-wait retransmission (ARQ) of the client daemon:            *)
(* client/daemon.go, client/arq.go and the ARQ half of                     *)
(* client/pigeonhole.go.                                                   *)
(*                                                                         *)
(* Four kinds of goroutine share two maps guarded by replyLock:            *)
(*   - the reader of each thin-client connection, which runs Cancel inline *)
(*     and leaves Start requests in the connection's requestCh;            *)
(*   - the Poisson sender and the egress worker, which start requests and  *)
(*     retransmit the ones whose timer fired (arqDoResend);                *)
(*   - the ingress worker, which handles one SURB reply at a time;         *)
(*   - the timer queue's callbacks (enqueueResend).                        *)
(* A handler is one action per critical section: what it reads before or   *)
(* after holding replyLock is a step of its own.                           *)
(*                                                                         *)
(* A SURB is <<m, n>>: the n-th identifier minted for message m.  A query  *)
(* packet and its reply are the same element of packets; what the courier  *)
(* answers is chosen when the reply is handled.  The courier and the       *)
(* mixnet are external.                                                    *)
(***************************************************************************)
EXTENDS Integers, FiniteSets

CONSTANTS
    Apps,               \* thin-client sessions (application IDs)
    Msgs,               \* ARQMessages: one per Start request
    Hashes,             \* envelope hashes (write-cap hashes for Copy commands)
    AppOf, HashOf,      \* owner and envelope hash of each message
    KindOf,             \* "read", "peek" (a read with NoRetryOnBoxIDNotFound), "write",
                        \* "strict" (a write with NoIdempotentBoxAlreadyExists) or "copy"
    None,
    ResendCap,          \* perClientResendBuf
    Closes,             \* may a thin client close its session (ThinClose)?
    MaxSurbs,           \* bound: SURB IDs minted per message
    MaxLosses,          \* bound: packets or replies lost
    MaxLate,            \* bound: timers that fire while their reply is on the way or in hand
    MaxUnready,         \* bound: answers that make the daemon ask again
    MaxComposeFailures, \* bound: failures of ComposeSphinxPacketForQuery
    MaxDisconnects      \* bound: connections lost without ThinClose

ARQConstants ==
    /\ AppOf \in [Msgs -> Apps] /\ HashOf \in [Msgs -> Hashes]
    /\ KindOf \in [Msgs -> {"read", "peek", "write", "strict", "copy"}]
    /\ None \notin Msgs /\ \A m \in Msgs, n \in 1..MaxSurbs : None # <<m, n>>
    /\ Closes \in BOOLEAN
    /\ {ResendCap, MaxSurbs, MaxLosses, MaxLate, MaxUnready, MaxComposeFailures, MaxDisconnects}
          \subseteq Nat

ASSUME ARQAssumption == ARQConstants

VARIABLES
    session,            \* "live": registered in listener.conns; "grace": lost, state kept; "closed"
    gen,                \* how often the session was (re)connected
    requestCh,          \* Start requests waiting in the connection's requestCh
    resendCh,           \* SURBs waiting in the connection's resendCh
    arqSurbIDMap, arqEnvelopeHashMap,
    SURBID, keys, state,\* fields of the ARQMessage; keys is the SURB that SURBDecryptionKeys open
    minted,             \* SURB IDs minted for the message so far
    arqTimerQueue,      \* SURBs with a pending timer
    packets,            \* SURBs whose query or reply is in the network or in ingressCh
    egress, ingress,    \* the two workers
    canceller,          \* the reader of each connection, inside a Cancel handler
    call,               \* the thin client's blocking Start call: "none", "waiting", "returned"
    cancelCalls,        \* messages whose Cancel the thin client has asked for
    cancelled,          \* messages whose Start call was answered "cancelled"
    spent               \* what has been used of each bound on the environment

maps == <<arqSurbIDMap, arqEnvelopeHashMap>>
message == <<SURBID, keys, state, minted>>
sessions == <<session, gen>>
cancels == <<cancelCalls, cancelled>>
vars == <<sessions, requestCh, resendCh, maps, message, arqTimerQueue, packets,
          egress, ingress, canceller, call, cancels, spent>>

SURBs == Msgs \X (1..MaxSurbs)
States == {"WaitingForACK", "ACKReceived", "PayloadReceived"}
Faults == {"loss", "late", "unready", "compose", "disconnect"}

Limit(f) == CASE f = "loss" -> MaxLosses
              [] f = "late" -> MaxLate
              [] f = "unready" -> MaxUnready
              [] f = "compose" -> MaxComposeFailures
              [] f = "disconnect" -> MaxDisconnects

Spend(f) == spent[f] < Limit(f) /\ spent' = [spent EXCEPT ![f] = @ + 1]

EgressIdle == [pc |-> "idle", msg |-> None, surb |-> None]
IngressIdle == [pc |-> "idle", msg |-> None, surb |-> None, old |-> None, gen |-> 0, retry |-> FALSE]
CancellerIdle == [pc |-> "idle", asked |-> None, found |-> None]

Init ==
    /\ session = [a \in Apps |-> "live"]
    /\ gen = [a \in Apps |-> 1]
    /\ requestCh = [a \in Apps |-> {}]
    /\ resendCh = [a \in Apps |-> {}]
    /\ arqSurbIDMap = [s \in SURBs |-> None]
    /\ arqEnvelopeHashMap = [h \in Hashes |-> None]
    /\ SURBID = [m \in Msgs |-> None]
    /\ keys = [m \in Msgs |-> None]
    /\ state = [m \in Msgs |-> "WaitingForACK"]
    /\ minted = [m \in Msgs |-> 0]
    /\ arqTimerQueue = {}
    /\ packets = {}
    /\ egress = EgressIdle
    /\ ingress = IngressIdle
    /\ canceller = [a \in Apps |-> CancellerIdle]
    /\ call = [m \in Msgs |-> "none"]
    /\ cancelCalls = {} /\ cancelled = {}
    /\ spent = [f \in Faults |-> 0]

-----------------------------------------------------------------------------
(* Operations on the two maps; each runs under replyLock.                   *)

Live(m) == session[AppOf[m]] = "live"
Fresh(m) == <<m, minted[m] + 1>>
CanMint(m) == minted[m] < MaxSurbs
Tracked(m) == \E s \in SURBs : arqSurbIDMap[s] = m

\* The delete of both entries that every terminal path performs, by the
\* message's current SURBID and its envelope hash.
Forget(m) ==
    /\ arqSurbIDMap' = IF SURBID[m] = None THEN arqSurbIDMap
                       ELSE [arqSurbIDMap EXCEPT ![SURBID[m]] = None]
    /\ arqEnvelopeHashMap' = [arqEnvelopeHashMap EXCEPT ![HashOf[m]] = None]

\* Mutant: the envelope hash keeps leading to the old SURB.
Bug_RekeySurbOnly(m) ==
    /\ CanMint(m)
    /\ arqSurbIDMap' = [s \in SURBs |-> IF s = Fresh(m) THEN m
                                        ELSE IF s = SURBID[m] THEN None ELSE arqSurbIDMap[s]]
    /\ SURBID' = [SURBID EXCEPT ![m] = Fresh(m)]
    /\ minted' = [minted EXCEPT ![m] = @ + 1]
    /\ UNCHANGED arqEnvelopeHashMap

\* Re-key both maps from the message's current SURBID to a fresh one.
Rekey(m) ==
    /\ CanMint(m)
    /\ arqSurbIDMap' = [s \in SURBs |-> IF s = Fresh(m) THEN m
                                        ELSE IF s = SURBID[m] THEN None ELSE arqSurbIDMap[s]]
    /\ arqEnvelopeHashMap' = [arqEnvelopeHashMap EXCEPT ![HashOf[m]] = Fresh(m)]
    /\ SURBID' = [SURBID EXCEPT ![m] = Fresh(m)]
    /\ minted' = [minted EXCEPT ![m] = @ + 1]

\* Rekey, and the keys that open the reply to the packet about to be sent.
rotateARQSurbIDLocked(m) ==
    /\ Rekey(m)
    /\ keys' = [keys EXCEPT ![m] = Fresh(m)]

\* Rekey to a placeholder that has no packet; its timer brings the message
\* back to arqDoResend.
rescheduleARQAfterComposeFailure(m) ==
    /\ Rekey(m)
    /\ arqTimerQueue' = arqTimerQueue \cup {Fresh(m)}
    /\ UNCHANGED <<keys, state>>

-----------------------------------------------------------------------------
(* The thin client.                                                         *)

\* StartResendingEncryptedMessage / StartResendingCopyCommand: the request
\* crosses the socket and the reader puts it on the connection's requestCh.
Start(m) ==
    /\ call[m] = "none" /\ Live(m)
    /\ call' = [call EXCEPT ![m] = "waiting"]
    /\ requestCh' = [requestCh EXCEPT ![AppOf[m]] = @ \cup {m}]
    /\ UNCHANGED <<sessions, resendCh, maps, message, arqTimerQueue, packets,
                   egress, ingress, canceller, cancels, spent>>

\* cancelResendingEncryptedMessage / cancelResendingCopyCommand, up to the
\* unlock: whatever the envelope hash leads to is removed from both maps.
Cancel(m) ==
    LET a == AppOf[m]
        s == arqEnvelopeHashMap[HashOf[m]]
    IN  /\ call[m] # "none" /\ m \notin cancelCalls
        /\ Live(m) /\ canceller[a].pc = "idle"
        /\ cancelCalls' = cancelCalls \cup {m}
        /\ canceller' = [canceller EXCEPT ![a] =
              [pc |-> "answer", asked |-> m, found |-> IF s = None THEN None ELSE arqSurbIDMap[s]]]
        /\ IF s = None
           THEN UNCHANGED maps
           ELSE /\ arqSurbIDMap' = [arqSurbIDMap EXCEPT ![s] = None]
                /\ arqEnvelopeHashMap' = [arqEnvelopeHashMap EXCEPT ![HashOf[m]] = None]
        /\ UNCHANGED <<sessions, requestCh, resendCh, message, arqTimerQueue, packets, egress,
                       ingress, call, cancelled, spent>>

\* The rest of the handler: the timer is cancelled, the Start call is told
\* "cancelled", and the Cancel call "success" whether or not it found anything.
AnswerCancel(a) ==
    LET c == canceller[a] IN
    /\ c.pc = "answer"
    /\ canceller' = [canceller EXCEPT ![a] = CancellerIdle]
    /\ IF c.found = None
       THEN UNCHANGED <<arqTimerQueue, call, cancelled>>
       ELSE /\ arqTimerQueue' = arqTimerQueue \ {SURBID[c.found]}
            /\ call' = [call EXCEPT ![c.found] = "returned"]
            /\ cancelled' = cancelled \cup {c.found}
    /\ UNCHANGED <<sessions, requestCh, resendCh, maps, message, packets, egress, ingress,
                   cancelCalls, spent>>

-----------------------------------------------------------------------------
(* The timer queue, the Poisson sender and the egress worker.               *)

\* Mutant: the fire is dropped when resendCh is full.
Bug_DropWhenFull(s) ==
    LET m == arqSurbIDMap[s] IN
    /\ s \in arqTimerQueue
    /\ IF s \in packets \/ ingress.surb = s THEN Spend("late") ELSE UNCHANGED spent
    /\ arqTimerQueue' = arqTimerQueue \ {s}
    /\ IF m = None \/ ~Live(m) \/ Cardinality(resendCh[AppOf[m]]) >= ResendCap
       THEN UNCHANGED resendCh
       ELSE resendCh' = [resendCh EXCEPT ![AppOf[m]] = @ \cup {s}]
    /\ UNCHANGED <<sessions, requestCh, maps, message, packets, egress, ingress, canceller,
                   call, cancels>>

\* A timer fires and its callback runs.  With a full resendCh the timer is
\* re-armed; a message that is gone, or whose client is, is left alone.
enqueueResend(s) ==
    LET m == arqSurbIDMap[s] IN
    /\ s \in arqTimerQueue
    /\ IF s \in packets \/ ingress.surb = s THEN Spend("late") ELSE UNCHANGED spent
    /\ IF m = None \/ ~Live(m)
       THEN /\ arqTimerQueue' = arqTimerQueue \ {s}
            /\ UNCHANGED resendCh
       ELSE /\ Cardinality(resendCh[AppOf[m]]) < ResendCap
            /\ arqTimerQueue' = arqTimerQueue \ {s}
            /\ resendCh' = [resendCh EXCEPT ![AppOf[m]] = @ \cup {s}]
    /\ UNCHANGED <<sessions, requestCh, maps, message, packets, egress, ingress, canceller,
                   call, cancels>>

\* PickNextRequest on a Poisson tick: a connection's resends go before its
\* requests.  The item then waits in egressCh for the egress worker.
PickNextRequest(a) ==
    /\ session[a] = "live" /\ egress.pc = "idle"
    /\ \/ \E s \in resendCh[a] :
            /\ resendCh' = [resendCh EXCEPT ![a] = @ \ {s}]
            /\ egress' = [pc |-> "resend", msg |-> None, surb |-> s]
            /\ UNCHANGED requestCh
       \/ /\ resendCh[a] = {}
          /\ \E m \in requestCh[a] :
               /\ requestCh' = [requestCh EXCEPT ![a] = @ \ {m}]
               /\ egress' = [pc |-> "start", msg |-> m, surb |-> None]
               /\ UNCHANGED resendCh
    /\ UNCHANGED <<sessions, maps, message, arqTimerQueue, packets, ingress, canceller, call,
                   cancels, spent>>

\* startResending*, when a packet can be composed: arqSend up to its unlock.
StartResending ==
    LET m == egress.msg
        s == Fresh(m)
    IN  /\ egress.pc = "start" /\ CanMint(m)
        /\ SURBID' = [SURBID EXCEPT ![m] = s]
        /\ keys' = [keys EXCEPT ![m] = s]
        /\ minted' = [minted EXCEPT ![m] = @ + 1]
        /\ arqSurbIDMap' = [arqSurbIDMap EXCEPT ![s] = m]
        /\ arqEnvelopeHashMap' = [arqEnvelopeHashMap EXCEPT ![HashOf[m]] = s]
        /\ egress' = [pc |-> "send", msg |-> m, surb |-> s]
        /\ UNCHANGED <<sessions, requestCh, resendCh, state, arqTimerQueue, packets, ingress,
                       canceller, call, cancels, spent>>

\* No PKI document, no courier, or no packet: the Start call fails at once.
StartFails ==
    LET m == egress.msg IN
    /\ egress.pc = "start" /\ Spend("compose")
    /\ call' = [call EXCEPT ![m] = IF Live(m) THEN "returned" ELSE @]
    /\ egress' = EgressIdle
    /\ UNCHANGED <<sessions, requestCh, resendCh, maps, message, arqTimerQueue, packets,
                   ingress, canceller, cancels>>

\* arqDoResend under replyLock.
arqDoResend ==
    LET s == egress.surb
        m == arqSurbIDMap[s]
    IN  /\ egress.pc = "resend"
        /\ \/ /\ m = None
              /\ egress' = EgressIdle
              /\ UNCHANGED <<maps, message, spent>>
           \/ /\ m # None /\ ~Live(m)
              /\ arqSurbIDMap' = [arqSurbIDMap EXCEPT ![s] = None]
              /\ arqEnvelopeHashMap' = [arqEnvelopeHashMap EXCEPT ![HashOf[m]] = None]
              /\ egress' = EgressIdle
              /\ UNCHANGED <<message, spent>>
           \/ /\ m # None /\ Live(m)
              /\ Spend("compose")
              /\ egress' = [pc |-> "failed", msg |-> m, surb |-> None]
              /\ UNCHANGED <<maps, message>>
           \/ /\ m # None /\ Live(m)
              /\ rotateARQSurbIDLocked(m)
              /\ egress' = [pc |-> "send", msg |-> m, surb |-> Fresh(m)]
              /\ UNCHANGED <<state, spent>>
        /\ UNCHANGED <<sessions, requestCh, resendCh, arqTimerQueue, packets, ingress, canceller,
                       call, cancels>>

\* Mutant: the packet is sent and no timer is pushed for it.
Bug_SendWithoutTimer ==
    /\ egress.pc = "send"
    /\ packets' = packets \cup {egress.surb}
    /\ egress' = EgressIdle
    /\ UNCHANGED <<sessions, requestCh, resendCh, maps, message, arqTimerQueue, ingress, canceller,
                   call, cancels, spent>>

\* After the unlock: the timer is pushed and the packet sent.
EgressSend ==
    /\ egress.pc = "send"
    /\ arqTimerQueue' = arqTimerQueue \cup {egress.surb}
    /\ packets' = packets \cup {egress.surb}
    /\ egress' = EgressIdle
    /\ UNCHANGED <<sessions, requestCh, resendCh, maps, message, ingress, canceller, call,
                   cancels, spent>>

EgressReschedule ==
    /\ egress.pc = "failed"
    /\ rescheduleARQAfterComposeFailure(egress.msg)
    /\ egress' = EgressIdle
    /\ UNCHANGED <<sessions, requestCh, resendCh, packets, ingress, canceller, call, cancels, spent>>

-----------------------------------------------------------------------------
(* The ingress worker.                                                      *)

\* handleReply up to its unlock: the reply's SURB is looked up, not removed.
handleReply(s) ==
    LET m == arqSurbIDMap[s] IN
    /\ ingress.pc = "idle" /\ s \in packets
    /\ packets' = packets \ {s}
    /\ ingress' = IF m = None THEN IngressIdle
                  ELSE [IngressIdle EXCEPT !.pc = "untime", !.msg = m, !.surb = s]
    /\ UNCHANGED <<sessions, requestCh, resendCh, maps, message, arqTimerQueue, egress,
                   canceller, call, cancels, spent>>

\* The pending retry is cancelled: the timer of the message's current SURBID.
CancelTimer ==
    /\ ingress.pc = "untime"
    /\ arqTimerQueue' = arqTimerQueue \ {SURBID[ingress.msg]}
    /\ ingress' = [ingress EXCEPT !.pc = "handle"]
    /\ UNCHANGED <<sessions, requestCh, resendCh, maps, message, packets, egress, canceller,
                   call, cancels, spent>>

\* What the courier may answer.  "payload" stands for every replica answer
\* that ends the operation, "error" for a courier error code.
Answers(m) ==
    CASE KindOf[m] = "copy" -> {"InProgress", "terminal"}
      [] KindOf[m] = "read" -> {"ACK", "payload", "BoxIDNotFound", "error"}
      [] OTHER -> {"ACK", "payload", "error"}

computeARQStateTransition(st, answer, kind) ==
    IF answer = "error" THEN [newState |-> st, action |-> "Error"]
    ELSE IF st = "PayloadReceived" THEN [newState |-> st, action |-> "Ignore"]
    ELSE IF answer # "ACK" THEN [newState |-> "PayloadReceived", action |-> "HandlePayload"]
    ELSE IF st = "WaitingForACK" /\ kind = "write" THEN [newState |-> st, action |-> "Complete"]
    ELSE [newState |-> "ACKReceived", action |-> "SendNewSURB"]

\* Does this answer make the daemon ask the same thing again?
AsksAgain(m, answer) == \/ answer \in {"InProgress", "BoxIDNotFound"}
                        \/ answer = "ACK" /\ state[m] = "ACKReceived"

\* handlePigeonholeARQReply for an answer that decrypts: where the worker goes
\* next.  The connection is the one found at this point.
Dispatch(m, answer) ==
    LET t == computeARQStateTransition(state[m], answer, KindOf[m])
        next(pc, retry) == [ingress EXCEPT !.pc = pc, !.gen = gen[AppOf[m]], !.retry = retry]
    IN  IF KindOf[m] = "copy"
        THEN /\ ingress' = next(IF answer = "InProgress" THEN "poll" ELSE "finish", FALSE)
             /\ UNCHANGED state
        ELSE /\ state' = IF t.action \in {"SendNewSURB", "HandlePayload"}
                         THEN [state EXCEPT ![m] = t.newState] ELSE state
             /\ ingress' = IF t.action = "Ignore" THEN IngressIdle
                           ELSE IF t.action = "SendNewSURB" THEN next("compose", FALSE)
                           ELSE IF answer = "BoxIDNotFound" THEN next("compose", TRUE)
                           ELSE next("finish", FALSE)

\* handlePigeonholeARQReply: no connection, or keys that do not open the
\* reply, end the handling; otherwise the answer decides.
handlePigeonholeARQReply ==
    LET m == ingress.msg IN
    /\ ingress.pc = "handle"
    /\ \/ /\ ~Live(m)
          /\ ingress' = IngressIdle
          /\ UNCHANGED <<maps, state, spent>>
       \/ /\ Live(m) /\ keys[m] # ingress.surb
          /\ Forget(m)
          /\ ingress' = IngressIdle
          /\ UNCHANGED <<state, spent>>
       \/ /\ Live(m) /\ keys[m] = ingress.surb
          /\ \E answer \in Answers(m) :
               /\ IF AsksAgain(m, answer) THEN Spend("unready") ELSE UNCHANGED spent
               /\ Dispatch(m, answer)
          /\ UNCHANGED maps
    /\ UNCHANGED <<sessions, requestCh, resendCh, SURBID, keys, minted, arqTimerQueue, packets,
                   egress, canceller, call, cancels>>

\* A terminal answer: both map entries go, and the Start call is answered on
\* the connection found earlier, if that one is still open.
Finish ==
    LET m == ingress.msg IN
    /\ ingress.pc = "finish"
    /\ Forget(m)
    /\ call' = [call EXCEPT ![m] = IF Live(m) /\ gen[AppOf[m]] = ingress.gen THEN "returned" ELSE @]
    /\ ingress' = IngressIdle
    /\ UNCHANGED <<sessions, requestCh, resendCh, message, arqTimerQueue, packets, egress,
                   canceller, cancels, spent>>

\* The next packet of the exchange is composed, outside the lock.
Compose ==
    /\ ingress.pc = "compose"
    /\ \/ /\ Spend("compose")
          /\ ingress' = [ingress EXCEPT !.pc = "failed"]
       \/ /\ ingress' = [ingress EXCEPT !.pc = "rotate", !.old = SURBID[ingress.msg]]
          /\ UNCHANGED spent
    /\ UNCHANGED <<sessions, requestCh, resendCh, maps, message, arqTimerQueue, packets, egress,
                   canceller, call, cancels>>

\* Under replyLock again: nothing happens if the message is no longer tracked
\* under the SURBID read before; a retry goes back to waiting for an ACK.
Rotate ==
    LET m == ingress.msg IN
    /\ ingress.pc = "rotate"
    /\ \/ /\ arqSurbIDMap[ingress.old] # m \/ (~ingress.retry /\ ~Live(m))
          /\ ingress' = IngressIdle
          /\ UNCHANGED <<maps, message>>
       \/ /\ arqSurbIDMap[ingress.old] = m /\ (ingress.retry \/ Live(m))
          /\ rotateARQSurbIDLocked(m)
          /\ state' = IF ingress.retry THEN [state EXCEPT ![m] = "WaitingForACK"] ELSE state
          /\ ingress' = [ingress EXCEPT !.pc = "send", !.surb = Fresh(m)]
    /\ UNCHANGED <<sessions, requestCh, resendCh, arqTimerQueue, packets, egress, canceller,
                   call, cancels, spent>>

IngressSend ==
    /\ ingress.pc = "send"
    /\ arqTimerQueue' = (arqTimerQueue \ {ingress.old}) \cup {ingress.surb}
    /\ packets' = packets \cup {ingress.surb}
    /\ ingress' = IngressIdle
    /\ UNCHANGED <<sessions, requestCh, resendCh, maps, message, egress, canceller, call,
                   cancels, spent>>

IngressReschedule ==
    /\ ingress.pc = "failed"
    /\ rescheduleARQAfterComposeFailure(ingress.msg)
    /\ ingress' = IngressIdle
    /\ UNCHANGED <<sessions, requestCh, resendCh, packets, egress, canceller, call, cancels, spent>>

\* Mutant: the poll is scheduled without looking for a concurrent cancel.
Bug_PollUnchecked ==
    /\ ingress.pc = "poll"
    /\ Rekey(ingress.msg)
    /\ arqTimerQueue' = arqTimerQueue \cup {Fresh(ingress.msg)}
    /\ ingress' = IngressIdle
    /\ UNCHANGED <<keys, state, sessions, requestCh, resendCh, packets, egress, canceller, call,
                   cancels, spent>>

\* A Copy command is still in progress: the message moves to a placeholder
\* whose timer polls the courier again, unless it was cancelled meanwhile.
scheduleCopyCommandPoll ==
    LET m == ingress.msg IN
    /\ ingress.pc = "poll"
    /\ \/ /\ arqSurbIDMap[SURBID[m]] # m
          /\ UNCHANGED <<maps, message, arqTimerQueue>>
       \/ /\ arqSurbIDMap[SURBID[m]] = m
          /\ Rekey(m)
          /\ arqTimerQueue' = arqTimerQueue \cup {Fresh(m)}
          /\ UNCHANGED <<keys, state>>
    /\ ingress' = IngressIdle
    /\ UNCHANGED <<sessions, requestCh, resendCh, packets, egress, canceller, call, cancels, spent>>

-----------------------------------------------------------------------------
(* Connections and the network.                                             *)

\* A connection is lost: its channels go with it, the daemon's state stays.
Disconnect(a) ==
    /\ session[a] = "live" /\ canceller[a].pc = "idle" /\ Spend("disconnect")
    /\ session' = [session EXCEPT ![a] = "grace"]
    /\ requestCh' = [requestCh EXCEPT ![a] = {}]
    /\ resendCh' = [resendCh EXCEPT ![a] = {}]
    /\ UNCHANGED <<gen, maps, message, arqTimerQueue, packets, egress, ingress, canceller, call,
                   cancels>>

\* The thin client redials the same daemon and presents its token.
Resume(a) ==
    /\ session[a] = "grace"
    /\ session' = [session EXCEPT ![a] = "live"]
    /\ gen' = [gen EXCEPT ![a] = @ + 1]
    /\ UNCHANGED <<requestCh, resendCh, maps, message, arqTimerQueue, packets, egress, ingress,
                   canceller, call, cancels, spent>>

\* ThinClose, or the end of the grace period: cleanupForAppID drops whatever
\* the maps hold for the session.  The blocked calls return (errHalting).
Close(a) ==
    LET mine == {m \in Msgs : AppOf[m] = a /\ Tracked(m)} IN
    /\ Closes /\ session[a] # "closed" /\ canceller[a].pc = "idle"
    /\ session' = [session EXCEPT ![a] = "closed"]
    /\ requestCh' = [requestCh EXCEPT ![a] = {}]
    /\ resendCh' = [resendCh EXCEPT ![a] = {}]
    /\ arqSurbIDMap' = [s \in SURBs |-> IF arqSurbIDMap[s] \in mine THEN None ELSE arqSurbIDMap[s]]
    /\ arqEnvelopeHashMap' = [h \in Hashes |-> IF \E m \in mine : HashOf[m] = h THEN None
                                               ELSE arqEnvelopeHashMap[h]]
    /\ arqTimerQueue' = arqTimerQueue \ {SURBID[m] : m \in mine}
    /\ call' = [m \in Msgs |-> IF AppOf[m] = a THEN "returned" ELSE call[m]]
    /\ UNCHANGED <<gen, message, packets, egress, ingress, canceller, cancels, spent>>

\* The mixnet loses a query or its reply, or SendPacket fails.
Lose(s) ==
    /\ s \in packets /\ Spend("loss")
    /\ packets' = packets \ {s}
    /\ UNCHANGED <<sessions, requestCh, resendCh, maps, message, arqTimerQueue, egress, ingress,
                   canceller, call, cancels>>

Egress == StartResending \/ StartFails \/ arqDoResend \/ EgressSend \/ EgressReschedule

Ingress == CancelTimer \/ handlePigeonholeARQReply \/ Finish \/ Compose \/ Rotate \/ IngressSend
           \/ IngressReschedule \/ scheduleCopyCommandPoll

Next ==
    \/ \E m \in Msgs : Start(m) \/ Cancel(m)
    \/ \E a \in Apps : AnswerCancel(a) \/ PickNextRequest(a) \/ Disconnect(a) \/ Resume(a) \/ Close(a)
    \/ \E s \in SURBs : enqueueResend(s) \/ handleReply(s) \/ Lose(s)
    \/ Egress \/ Ingress

Spec == Init /\ [][Next]_vars

\* The egress worker with its sender, the ingress worker, the timer queue and
\* the readers keep running; the network delivers what it does not lose, and
\* a thin client redials for ever.  The thin client need not start or cancel
\* anything, and nothing has to fail.
Fairness ==
    /\ WF_vars(Egress \/ \E a \in Apps : PickNextRequest(a))
    /\ WF_vars(Ingress \/ \E s \in SURBs : handleReply(s))
    /\ WF_vars(\E s \in SURBs : enqueueResend(s))
    /\ \A a \in Apps : WF_vars(AnswerCancel(a)) /\ WF_vars(Resume(a))

FairSpec == Spec /\ Fairness

-----------------------------------------------------------------------------
(* Properties.                                                              *)

EgressTypes == [pc : {"idle", "start", "resend", "send", "failed"},
                msg : Msgs \cup {None}, surb : SURBs \cup {None}]
IngressTypes == [pc : {"idle", "untime", "handle", "finish", "compose", "rotate", "send", "failed", "poll"},
                 msg : Msgs \cup {None}, surb : SURBs \cup {None}, old : SURBs \cup {None},
                 gen : Nat, retry : BOOLEAN]
CancellerTypes == [pc : {"idle", "answer"}, asked : Msgs \cup {None}, found : Msgs \cup {None}]

\* Type correctness of the daemon's ARQ state: in particular every worker
\* that is past its lookup holds a message, and a message that was ever put
\* in a map has a SURBID and keys (client/daemon.go).
TypeOK ==
    /\ session \in [Apps -> {"live", "grace", "closed"}] /\ gen \in [Apps -> Nat]
    /\ requestCh \in [Apps -> SUBSET Msgs] /\ resendCh \in [Apps -> SUBSET SURBs]
    /\ arqSurbIDMap \in [SURBs -> Msgs \cup {None}]
    /\ arqEnvelopeHashMap \in [Hashes -> SURBs \cup {None}]
    /\ SURBID \in [Msgs -> SURBs \cup {None}] /\ keys \in [Msgs -> SURBs \cup {None}]
    /\ state \in [Msgs -> States] /\ minted \in [Msgs -> 0..MaxSurbs]
    /\ arqTimerQueue \subseteq SURBs /\ packets \subseteq SURBs
    /\ egress \in EgressTypes /\ ingress \in IngressTypes
    /\ canceller \in [Apps -> CancellerTypes]
    /\ call \in [Msgs -> {"none", "waiting", "returned"}]
    /\ cancelCalls \subseteq Msgs /\ cancelled \subseteq Msgs
    /\ spent \in [Faults -> Nat]
    /\ egress.pc \in {"start", "send", "failed"} => egress.msg \in Msgs
    /\ egress.pc \in {"resend", "send"} => egress.surb \in SURBs
    /\ ingress.pc # "idle" => ingress.msg \in Msgs /\ SURBID[ingress.msg] \in SURBs
    /\ ingress.pc \in {"untime", "handle", "send"} => ingress.surb \in SURBs
    /\ ingress.pc \in {"rotate", "send"} => ingress.old \in SURBs

\* A SURB in arqSurbIDMap is the current SURBID of its message, and a message
\* is reached from its envelope hash, which never leads to a SURB that is gone.
SurbMapExact ==
    \A s \in SURBs : arqSurbIDMap[s] # None => SURBID[arqSurbIDMap[s]] = s
HashMapExact ==
    /\ \A s \in SURBs : arqSurbIDMap[s] # None => arqEnvelopeHashMap[HashOf[arqSurbIDMap[s]]] = s
    /\ \A h \in Hashes : arqEnvelopeHashMap[h] # None =>
          /\ arqSurbIDMap[arqEnvelopeHashMap[h]] # None
          /\ HashOf[arqSurbIDMap[arqEnvelopeHashMap[h]]] = h

\* The two maps agree, whichever goroutines interleave (the invariant that
\* rotateARQSurbIDLocked documents): a message is tracked under one SURB at a
\* time, and Cancel finds every tracked message by its envelope hash.
MapsAgree == SurbMapExact /\ HashMapExact

\* No retransmission is lost (the comment of enqueueResend): a message that
\* is tracked for a session whose connection was never lost has a timer
\* running, is queued for resending, or is in the hands of a worker that will
\* see to it.
Armed(m) ==
    \/ SURBID[m] \in arqTimerQueue
    \/ \E a \in Apps : SURBID[m] \in resendCh[a]
    \/ egress.pc \in {"resend", "send"} /\ egress.surb = SURBID[m]
    \/ egress.pc = "failed" /\ egress.msg = m
    \/ ingress.msg = m
TrackedIsArmed == \A m \in Msgs : Tracked(m) /\ Live(m) /\ gen[AppOf[m]] = 1 => Armed(m)

\* Cancellation is final: once the Start call was answered "cancelled", no
\* handler that was under way puts the message back into the maps.
CancelIsFinal == \A m \in cancelled : ~Tracked(m)

\* Every Start call returns: the daemon retries until it succeeds or is
\* cancelled, and no reply, retry or failure on the way loses the request.
EveryCallReturns == \A m \in Msgs : call[m] = "waiting" ~> call[m] = "returned"
=============================================================================
