---------------------------- MODULE ClientSessions ----------------------------
(***************************************************************************)
(* The thin-client side of the client daemon: client/listener.go and       *)
(* client/incoming_conn.go, with the handshake of client/thin/thin.go.     *)
(*                                                                         *)
(* Each connection has a worker goroutine (requests, session token,        *)
(* teardown) and a writer goroutine.  The accept loop, the Poisson sender, *)
(* the ingress worker, the broadcasts and the grace timers of lost         *)
(* sessions work on the same maps under three locks; a handler is one      *)
(* action per critical section.                                            *)
(*                                                                         *)
(* Connections are numbered in the order they are accepted, and the AppID  *)
(* drawn for a connection is named by its number.                          *)
(***************************************************************************)
EXTENDS Integers, Sequences, FiniteSets

CONSTANTS
    Clients,            \* thin clients
    Legacy,             \* the ones that send no session token
    None,
    RequestCap, ResendCap,  \* perClientRequestBuf, perClientResendBuf
    QueueCap,           \* maxQueuedReplies
    MaxConns,           \* bound: connections accepted
    MaxReplies,         \* bound: requests sent with a SURB
    MaxEvents,          \* bound: broadcasts and socket writes that fail
    Overlap,            \* may a client reconnect before its lost connection is torn down?
    CloseCalls          \* may a client come back while its grace period is just expiring?

Conns == 1..MaxConns
AppIDs == Conns
Messages == [type : {"status", "doc", "token"}, app : {None}] \cup [type : {"reply"}, app : AppIDs]

ASSUME SessionAssumption ==
    /\ None \notin Clients \cup Conns \cup [timer : Conns, queue : Seq(Messages)]
    /\ Legacy \subseteq Clients
    /\ {RequestCap, ResendCap, QueueCap, MaxConns} \subseteq Nat \ {0}
    /\ {MaxReplies, MaxEvents} \subseteq Nat
    /\ {Overlap, CloseCalls} \subseteq BOOLEAN

VARIABLES
    conn,                   \* the incomingConns
    conns, connOrder, rrCursor,
    clientTokens,
    tokenLock,              \* the connection whose handleSessionToken holds clientTokensLock
    disconnectedSessions,
    timer,                  \* the grace timer a connection left behind, and its callback
    sendQueue,
    handshake,              \* messages of the handshake the client has read, -1 when it gave up
    ingress,                \* the ingress worker between getConnection and delivery
    replies,                \* AppIDs that wait for a SURB reply (d.replies)
    cleaned,                \* AppIDs onAppDisconnectFn has run for
    overtaken,              \* how often another was served since a connection is waiting
    spent                   \* what has been used of each bound

rotation == <<conns, connOrder, rrCursor>>
sessionVars == <<clientTokens, tokenLock, disconnectedSessions, timer>>
vars == <<conn, rotation, sessionVars, sendQueue, handshake, ingress, replies, cleaned, overtaken, spent>>

Unused == [pc |-> "none", client |-> None, appID |-> None, clientToken |-> FALSE,
           explicitClose |-> FALSE, done |-> FALSE, requestCh |-> 0, resendCh |-> 0]
Idle == [app |-> None, conn |-> None]
Event(type) == [type |-> type, app |-> None]
Reply(a) == [type |-> "reply", app |-> a]
NotOvertaken == [c \in Conns |-> 0]

Init ==
    /\ conn = [c \in Conns |-> Unused]
    /\ conns = [a \in AppIDs |-> None] /\ connOrder = <<>> /\ rrCursor = 0
    /\ clientTokens = [k \in Clients |-> None] /\ tokenLock = None
    /\ disconnectedSessions = [a \in AppIDs |-> None]
    /\ timer = [c \in Conns |-> "off"]
    /\ sendQueue = [c \in Conns |-> <<>>]
    /\ handshake = [c \in Conns |-> 0]
    /\ ingress = Idle
    /\ replies = {} /\ cleaned = {}
    /\ overtaken = [c \in Conns |-> NotOvertaken]
    /\ spent = [reply |-> 0, event |-> 0]

-----------------------------------------------------------------------------
(* Connections.                                                             *)

OfClient(k) == {c \in Conns : conn[c].client = k}
\* The connection the client itself uses; it has hung up on its earlier ones.
InUse(c) == \A d \in OfClient(conn[c].client) : d <= c
Expiring(k) == \E c \in OfClient(k) : timer[c] \in {"fired", "forgetting", "cleaning"}

\* sendResponse: errConnClosed once the connection is being torn down.
Sent(c, messages) == IF conn[c].done THEN sendQueue[c] ELSE sendQueue[c] \o messages
SendResponse(c, message) == sendQueue' = [sendQueue EXCEPT ![c] = Sent(c, <<message>>)]

\* Where an AppID comes in connOrder, 0 if it does not, and connOrder without its i-th.
IndexOf(a) ==
    LET at == {i \in DOMAIN connOrder : connOrder[i] = a}
    IN  IF at = {} THEN 0 ELSE CHOOSE i \in at : \A j \in at : i <= j
Without(i) == SubSeq(connOrder, 1, i - 1) \o SubSeq(connOrder, i + 1, Len(connOrder))

\* newIncomingConn and registerConn.
onNewConn(k, c) ==
    /\ conn[c].pc = "none"
    /\ \A d \in Conns : IF d < c THEN conn[d].pc \notin {"none", "new", "greeted"} ELSE conn[d].pc = "none"
    /\ Overlap \/ \A d \in OfClient(k) : conn[d].pc = "closed"
    /\ CloseCalls \/ ~Expiring(k)
    /\ conn' = [conn EXCEPT ![c] = [Unused EXCEPT !.pc = "new", !.client = k, !.appID = c]]
    /\ conns' = [conns EXCEPT ![c] = c]
    /\ connOrder' = Append(connOrder, c)
    /\ UNCHANGED <<rrCursor, sessionVars, sendQueue, handshake, ingress, replies, cleaned, overtaken, spent>>

\* The rest of onNewConn: the connection status, the PKI document, start.
Greet(c) ==
    /\ \/ /\ conn[c].pc = "new"
          /\ conn' = [conn EXCEPT ![c].pc = "greeted"]
          /\ SendResponse(c, Event("status"))
       \/ /\ conn[c].pc = "greeted"
          /\ conn' = [conn EXCEPT ![c].pc = "open"]
          /\ SendResponse(c, Event("doc"))
    /\ UNCHANGED <<rotation, sessionVars, handshake, ingress, replies, cleaned, overtaken, spent>>

\* doUpdateConnectionStatus and doUpdateFromPKIDoc.
Broadcast(type) ==
    /\ spent.event < MaxEvents
    /\ spent' = [spent EXCEPT !.event = @ + 1]
    /\ sendQueue' = [c \in Conns |-> IF \E a \in AppIDs : conns[a] = c THEN Sent(c, <<Event(type)>>)
                                     ELSE sendQueue[c]]
    /\ UNCHANGED <<conn, rotation, sessionVars, handshake, ingress, replies, cleaned, overtaken>>

\* The writer goroutine writes a batch, and the thin client reads it: during
\* the handshake it expects three messages in this order (Dial, redial).
Handshake == <<"status", "doc", "token">>
HandshakeLength(k) == IF k \in Legacy THEN 2 ELSE 3
Ready(c) == handshake[c] = HandshakeLength(conn[c].client)

Write(c) ==
    LET Reads(h, m) == IF h \in {-1, HandshakeLength(conn[c].client)} THEN h
                       ELSE IF m.type = Handshake[h + 1] THEN h + 1 ELSE -1
        read[i \in 0..Len(sendQueue[c])] ==
            IF i = 0 THEN handshake[c] ELSE Reads(read[i - 1], sendQueue[c][i])
    IN  /\ conn[c].pc = "open" /\ ~conn[c].done /\ InUse(c)
        /\ sendQueue[c] # <<>>
        /\ sendQueue' = [sendQueue EXCEPT ![c] = <<>>]
        /\ handshake' = [handshake EXCEPT ![c] = read[Len(sendQueue[c])]]
        /\ UNCHANGED <<conn, rotation, sessionVars, ingress, replies, cleaned, overtaken, spent>>

\* A write fails: the writer closes doneCh; the reader does not notice.
WriteFails(c) ==
    /\ conn[c].pc = "open" /\ ~conn[c].done
    /\ sendQueue[c] # <<>>
    /\ spent.event < MaxEvents
    /\ spent' = [spent EXCEPT !.event = @ + 1]
    /\ conn' = [conn EXCEPT ![c].done = TRUE]
    /\ sendQueue' = [sendQueue EXCEPT ![c] = <<>>]
    /\ UNCHANGED <<rotation, sessionVars, handshake, ingress, replies, cleaned, overtaken>>

\* worker: a request that takes a send slot goes to the connection's requestCh.
Request(c) ==
    /\ conn[c].pc = "open" /\ Ready(c) /\ InUse(c)
    /\ conn[c].requestCh < RequestCap
    /\ conn' = [conn EXCEPT ![c].requestCh = @ + 1]
    /\ UNCHANGED <<rotation, sessionVars, sendQueue, handshake, ingress, replies, cleaned, overtaken, spent>>

\* enqueueResend, when there is room: an ARQ timer of the AppID has fired.
EnqueueResend(a) ==
    LET c == conns[a] IN
    /\ c # None /\ a \in replies
    /\ conn[c].resendCh < ResendCap
    /\ conn' = [conn EXCEPT ![c].resendCh = @ + 1]
    /\ UNCHANGED <<rotation, sessionVars, sendQueue, handshake, ingress, replies, cleaned, overtaken, spent>>

-----------------------------------------------------------------------------
(* The scheduler.                                                           *)

Pending(c) == conn[c].requestCh + conn[c].resendCh > 0
Waiting(c) == conns[conn[c].appID] = c /\ Pending(c)

\* The connection rotation step i looks at, counted from rrCursor.
Slot(i) == ((rrCursor + i) % Len(connOrder)) + 1
Visited(i) == conns[connOrder[Slot(i)]]

\* c was served: it waits anew, and everybody else has been overtaken by it.
Served(c) ==
    overtaken' = [d \in Conns |->
        IF conn[d].appID = None \/ d = c THEN NotOvertaken
        ELSE IF Waiting(d) THEN [overtaken[d] EXCEPT ![c] = @ + 1] ELSE NotOvertaken]

\* The egress worker sends the request, with or without a SURB.
send(a) ==
    \/ UNCHANGED <<replies, spent>>
    \/ /\ spent.reply < MaxReplies
       /\ spent' = [spent EXCEPT !.reply = @ + 1]
       /\ replies' = replies \cup {a}

PickNextRequest ==
    LET n == Len(connOrder)
        hits == {i \in 0..(n - 1) : Visited(i) # None /\ Pending(Visited(i))}
        first == CHOOSE i \in hits : \A j \in hits : i <= j
        c == Visited(first)
    IN  /\ n > 0
        /\ \/ /\ hits = {}
              /\ rrCursor' = (rrCursor + 1) % n
              /\ UNCHANGED <<conn, replies, overtaken, spent>>
           \/ /\ hits # {}
              /\ rrCursor' = (rrCursor + first + 1) % n
              /\ Served(c)
              /\ \/ /\ conn[c].resendCh > 0
                    /\ conn' = [conn EXCEPT ![c].resendCh = @ - 1]
                    /\ UNCHANGED <<replies, spent>>
                 \/ /\ conn[c].resendCh = 0
                    /\ conn' = [conn EXCEPT ![c].requestCh = @ - 1]
                    /\ send(conn[c].appID)
        /\ UNCHANGED <<conns, connOrder, sessionVars, sendQueue, handshake, ingress, cleaned>>

-----------------------------------------------------------------------------
(* Session tokens and replies.                                              *)

\* The thin client has read the document and sends its token.
SendsToken(c) ==
    /\ conn[c].pc = "open" /\ InUse(c)
    /\ handshake[c] = 2 /\ ~Ready(c)
    /\ ~conn[c].clientToken
    /\ tokenLock = None

\* handleSessionToken, a new token.
RegisterToken(c) ==
    /\ SendsToken(c)
    /\ clientTokens[conn[c].client] = None
    /\ clientTokens' = [clientTokens EXCEPT ![conn[c].client] = conn[c].appID]
    /\ conn' = [conn EXCEPT ![c].clientToken = TRUE]
    /\ SendResponse(c, Event("token"))
    /\ UNCHANGED <<rotation, tokenLock, disconnectedSessions, timer, handshake, ingress, replies, cleaned,
                   overtaken, spent>>

\* handleSessionToken, a known token: the connection takes over the AppID.
ResumeSession(c) ==
    LET old == conn[c].appID
        existing == clientTokens[conn[c].client]
        first == IndexOf(old)
    IN  /\ SendsToken(c)
        /\ existing # None
        /\ tokenLock' = c
        /\ conn' = [conn EXCEPT ![c].appID = existing]
        /\ conns' = [conns EXCEPT ![old] = None, ![existing] = c]
        /\ connOrder' = IF first = 0 THEN connOrder ELSE [connOrder EXCEPT ![first] = existing]
        /\ UNCHANGED <<rrCursor, clientTokens, disconnectedSessions, timer, sendQueue, handshake, ingress,
                       replies, cleaned, overtaken, spent>>

\* Its second half: the timer is stopped, unless it has fired, and the queued
\* replies are sent, before the SessionTokenReply.
FlushQueuedReplies(c) ==
    LET a == conn[c].appID
        session == disconnectedSessions[a]
        queued == IF session = None THEN <<>> ELSE session.queue
    IN  /\ tokenLock = c
        /\ tokenLock' = None
        /\ conn' = [conn EXCEPT ![c].clientToken = TRUE]
        /\ disconnectedSessions' = [disconnectedSessions EXCEPT ![a] = None]
        /\ timer' = IF session # None /\ timer[session.timer] = "armed"
                    THEN [timer EXCEPT ![session.timer] = "off"] ELSE timer
        /\ sendQueue' = [sendQueue EXCEPT ![c] = Sent(c, Append(queued, Event("token")))]
        /\ UNCHANGED <<rotation, clientTokens, handshake, ingress, replies, cleaned, overtaken, spent>>

\* Mutant: a reply whose connection is gone goes to some other one.
Bug_AnyConnection(a) ==
    /\ ingress = Idle
    /\ a \in replies
    /\ replies' = replies \ {a}
    /\ \E b \in AppIDs : ingress' = [app |-> a, conn |-> IF conns[a] = None THEN conns[b] ELSE conns[a]]
    /\ UNCHANGED <<conn, rotation, sessionVars, sendQueue, handshake, cleaned, overtaken, spent>>

\* handleReply: the reply's connection is looked up, ...
LookUpConnection(a) ==
    /\ ingress = Idle
    /\ a \in replies
    /\ replies' = replies \ {a}
    /\ ingress' = [app |-> a, conn |-> conns[a]]
    /\ UNCHANGED <<conn, rotation, sessionVars, sendQueue, handshake, cleaned, overtaken, spent>>

\* ... then the reply is sent to it, or queued for the disconnected session.
DeliverReply ==
    LET a == ingress.app
        c == ingress.conn
        session == disconnectedSessions[a]
    IN  /\ ingress # Idle
        /\ ingress' = Idle
        /\ \/ /\ c # None
              /\ SendResponse(c, Reply(a))
              /\ UNCHANGED disconnectedSessions
           \/ /\ c = None
              /\ disconnectedSessions' =
                    IF session = None \/ Len(session.queue) >= QueueCap THEN disconnectedSessions
                    ELSE [disconnectedSessions EXCEPT ![a].queue = Append(@, Reply(a))]
              /\ UNCHANGED sendQueue
        /\ UNCHANGED <<conn, rotation, clientTokens, tokenLock, timer, handshake, replies, cleaned, overtaken, spent>>

-----------------------------------------------------------------------------
(* Teardown and grace periods.                                              *)

\* onAppDisconnectFn, which is cleanupForAppID.
CleanUp(a) ==
    /\ cleaned' = cleaned \cup {a}
    /\ replies' = replies \ {a}

\* The worker goroutine is done.
Closed(c) == conn' = [conn EXCEPT ![c].pc = "closed", ![c].clientToken = FALSE, ![c].explicitClose = FALSE]

\* worker returns: ThinClose, or the read failed.  What was not written is lost.
Leave(c, explicit) ==
    /\ conn[c].pc = "open" /\ tokenLock # c
    /\ explicit => Ready(c) /\ InUse(c)
    /\ conn' = [conn EXCEPT ![c].pc = "leaving", ![c].done = TRUE, ![c].explicitClose = explicit]
    /\ sendQueue' = [sendQueue EXCEPT ![c] = <<>>]
    /\ handshake' = [handshake EXCEPT ![c] = 0]
    /\ UNCHANGED <<rotation, sessionVars, ingress, replies, cleaned, overtaken, spent>>

\* Mutant: the cursor does not follow its client.
Bug_NoDecrement(c) ==
    LET a == conn[c].appID
        i == IndexOf(a)
        n == Len(connOrder')
    IN  /\ conn[c].pc = "leaving"
        /\ conn' = [conn EXCEPT ![c].pc = "left", ![c].requestCh = 0, ![c].resendCh = 0]
        /\ conns' = [conns EXCEPT ![a] = None]
        /\ connOrder' = IF i = 0 THEN connOrder ELSE Without(i)
        /\ rrCursor' = IF n = 0 THEN 0 ELSE rrCursor % n
        /\ overtaken' = [d \in Conns |-> IF d = c THEN NotOvertaken ELSE [overtaken[d] EXCEPT ![c] = 0]]
        /\ UNCHANGED <<sessionVars, sendQueue, handshake, ingress, replies, cleaned, spent>>

\* onClosedConn: unregisterConn, ...
unregisterConn(c) ==
    LET a == conn[c].appID
        i == IndexOf(a)
        n == Len(connOrder')
        shifted == IF i # 0 /\ rrCursor > i - 1 THEN rrCursor - 1 ELSE rrCursor
    IN  /\ conn[c].pc = "leaving"
        /\ conn' = [conn EXCEPT ![c].pc = "left", ![c].requestCh = 0, ![c].resendCh = 0]
        /\ conns' = [conns EXCEPT ![a] = None]
        /\ connOrder' = IF i = 0 THEN connOrder ELSE Without(i)
        /\ rrCursor' = IF n = 0 THEN 0 ELSE shifted % n
        /\ overtaken' = [d \in Conns |-> IF d = c THEN NotOvertaken ELSE [overtaken[d] EXCEPT ![c] = 0]]
        /\ UNCHANGED <<sessionVars, sendQueue, handshake, ingress, replies, cleaned, spent>>

\* Mutant: nothing ends the grace period.
Bug_NoGraceTimer(c) ==
    LET a == conn[c].appID IN
    /\ conn[c].pc = "left"
    /\ \/ /\ conn[c].explicitClose \/ ~conn[c].clientToken
          /\ CleanUp(a)
          /\ IF conn[c].clientToken THEN conn' = [conn EXCEPT ![c].pc = "forgetting"] ELSE Closed(c)
          /\ UNCHANGED disconnectedSessions
       \/ /\ ~conn[c].explicitClose /\ conn[c].clientToken
          /\ disconnectedSessions' = [disconnectedSessions EXCEPT ![a] = [timer |-> c, queue |-> <<>>]]
          /\ Closed(c)
          /\ UNCHANGED <<replies, cleaned>>
    /\ UNCHANGED <<rotation, clientTokens, tokenLock, timer, sendQueue, handshake, ingress, overtaken, spent>>

\* ... then either the state of the AppID is destroyed, or it is kept until
\* the grace timer fires.
Settle(c) ==
    LET a == conn[c].appID IN
    /\ conn[c].pc = "left"
    /\ \/ /\ conn[c].explicitClose \/ ~conn[c].clientToken
          /\ CleanUp(a)
          /\ IF conn[c].clientToken THEN conn' = [conn EXCEPT ![c].pc = "forgetting"] ELSE Closed(c)
          /\ UNCHANGED <<disconnectedSessions, timer>>
       \/ /\ ~conn[c].explicitClose /\ conn[c].clientToken
          /\ disconnectedSessions' = [disconnectedSessions EXCEPT ![a] = [timer |-> c, queue |-> <<>>]]
          /\ timer' = [timer EXCEPT ![c] = "armed"]
          /\ Closed(c)
          /\ UNCHANGED <<replies, cleaned>>
    /\ UNCHANGED <<rotation, clientTokens, tokenLock, sendQueue, handshake, ingress, overtaken, spent>>

\* Mutant: the token is kept.
Bug_KeepToken(c) ==
    /\ conn[c].pc = "forgetting"
    /\ Closed(c)
    /\ UNCHANGED <<rotation, sessionVars, sendQueue, handshake, ingress, replies, cleaned, overtaken, spent>>

\* After a ThinClose the token goes too.
ForgetToken(c) ==
    /\ conn[c].pc = "forgetting" /\ tokenLock = None
    /\ Closed(c)
    /\ clientTokens' = [clientTokens EXCEPT ![conn[c].client] = None]
    /\ UNCHANGED <<rotation, tokenLock, disconnectedSessions, timer, sendQueue, handshake, ingress, replies,
                   cleaned, overtaken, spent>>

\* The grace period ends.
Fire(c) ==
    /\ timer[c] = "armed"
    /\ CloseCalls \/ \A d \in OfClient(conn[c].client) : conn[d].pc = "closed"
    /\ timer' = [timer EXCEPT ![c] = "fired"]
    /\ UNCHANGED <<conn, rotation, clientTokens, tokenLock, disconnectedSessions, sendQueue, handshake, ingress,
                   replies, cleaned, overtaken, spent>>

\* The three critical sections of the timer's callback.
ExpireSession(c) ==
    LET a == conn[c].appID IN
    /\ timer[c] = "fired"
    /\ timer' = [timer EXCEPT ![c] = IF disconnectedSessions[a] = None THEN "off" ELSE "forgetting"]
    /\ disconnectedSessions' = [disconnectedSessions EXCEPT ![a] = None]
    /\ UNCHANGED <<conn, rotation, clientTokens, tokenLock, sendQueue, handshake, ingress, replies, cleaned,
                   overtaken, spent>>

ExpireToken(c) ==
    /\ timer[c] = "forgetting" /\ tokenLock = None
    /\ timer' = [timer EXCEPT ![c] = "cleaning"]
    /\ clientTokens' = [clientTokens EXCEPT ![conn[c].client] = None]
    /\ UNCHANGED <<conn, rotation, tokenLock, disconnectedSessions, sendQueue, handshake, ingress, replies,
                   cleaned, overtaken, spent>>

ExpireState(c) ==
    /\ timer[c] = "cleaning"
    /\ timer' = [timer EXCEPT ![c] = "off"]
    /\ CleanUp(conn[c].appID)
    /\ UNCHANGED <<conn, rotation, clientTokens, tokenLock, disconnectedSessions, sendQueue, handshake, ingress,
                   overtaken, spent>>

-----------------------------------------------------------------------------
Next ==
    \/ \E k \in Clients, c \in Conns : onNewConn(k, c)
    \/ \E c \in Conns :
          \/ Greet(c) \/ Write(c) \/ WriteFails(c) \/ Request(c)
          \/ RegisterToken(c) \/ ResumeSession(c) \/ FlushQueuedReplies(c)
          \/ Leave(c, TRUE) \/ Leave(c, FALSE) \/ unregisterConn(c) \/ Settle(c) \/ ForgetToken(c)
          \/ Fire(c) \/ ExpireSession(c) \/ ExpireToken(c) \/ ExpireState(c)
    \/ \E a \in AppIDs : EnqueueResend(a) \/ LookUpConnection(a)
    \/ PickNextRequest
    \/ DeliverReply
    \/ \E type \in {"status", "doc"} : Broadcast(type)

Spec == Init /\ [][Next]_vars

-----------------------------------------------------------------------------
(* The shape of the listener's state; the cursor of the rotation points     *)
(* into connOrder.                                                          *)
TypeOK ==
    /\ conn \in [Conns -> [pc : {"none", "new", "greeted", "open", "leaving", "left", "forgetting", "closed"},
                           client : Clients \cup {None}, appID : AppIDs \cup {None},
                           clientToken : BOOLEAN, explicitClose : BOOLEAN, done : BOOLEAN,
                           requestCh : 0..RequestCap, resendCh : 0..ResendCap]]
    /\ conns \in [AppIDs -> Conns \cup {None}]
    /\ connOrder \in Seq(AppIDs)
    /\ rrCursor = 0 \/ rrCursor \in 0..(Len(connOrder) - 1)
    /\ clientTokens \in [Clients -> AppIDs \cup {None}]
    /\ tokenLock \in Conns \cup {None}
    /\ \A a \in AppIDs : LET s == disconnectedSessions[a] IN
          s # None => s.timer \in Conns /\ s.queue \in Seq(Messages) /\ Len(s.queue) <= QueueCap
    /\ timer \in [Conns -> {"off", "armed", "fired", "forgetting", "cleaning"}]
    /\ sendQueue \in [Conns -> Seq(Messages)]
    /\ handshake \in [Conns -> -1..3]
    /\ ingress.app \in AppIDs \cup {None} /\ ingress.conn \in Conns \cup {None}

Ordered == {connOrder[i] : i \in DOMAIN connOrder}

(* connOrder "mirrors the set of keys in conns": the rotation visits every  *)
(* connected session, and each of them once (registerConn, unregisterConn,  *)
(* handleSessionToken).                                                     *)
OrderMirrorsConns ==
    /\ Ordered = {a \in AppIDs : conns[a] # None}
    /\ Cardinality(Ordered) = Len(connOrder)

(* PickNextRequest is fair across clients, whatever connects, resumes or    *)
(* goes in between: while a connection waits, no other is served twice.     *)
FairRotation == \A c, d \in Conns : overtaken[c][d] <= 1

(* A session that is in use is whole: the daemon reaches its connection     *)
(* under its AppID, its token still leads to it, it is not treated as       *)
(* disconnected, and its state has not been cleaned up (handleSessionToken, *)
(* onClosedConn and the grace timer).                                       *)
SessionIntact ==
    \A c \in Conns : conn[c].pc = "open" /\ conn[c].clientToken /\ InUse(c) =>
        LET a == conn[c].appID IN
        /\ conns[a] = c
        /\ clientTokens[conn[c].client] = a
        /\ disconnectedSessions[a] = None
        /\ a \notin cleaned

(* A reply only ever goes to the thin client that asked for it.             *)
RepliesReachOwner ==
    \A c \in Conns : \A i \in 1..Len(sendQueue[c]) :
        LET m == sendQueue[c][i] IN
        m.type = "reply" => conn[m.app].client = conn[c].client

(* Nothing is kept for ever: while the state of a closed connection's       *)
(* session has not been cleaned up, a connection has resumed the session or *)
(* a grace timer that will clean it up is running (onClosedConn,            *)
(* handleSessionToken).                                                     *)
KeptStateHasTimer ==
    \A c \in Conns : conn[c].pc = "closed" /\ conn[c].appID \notin cleaned =>
        \E d \in Conns : /\ conn[d].appID = conn[c].appID
                         /\ timer[d] # "off" \/ conn[d].pc \in {"open", "leaving", "left"}

(* The thin client panics or gives up ("bug: thin client protocol sequence  *)
(* violation") unless the daemon's first three messages are the connection  *)
(* status, the PKI document and the SessionTokenReply.                      *)
HandshakeInOrder == \A c \in Conns : handshake[c] # -1

\* The rotation of the daemon's clients has every connected session once and serves none twice while
\* another waits, whatever connects, resumes or goes in between (registerConn, unregisterConn,
\* handleSessionToken, PickNextRequest).
RotationSound == TypeOK /\ OrderMirrorsConns /\ FairRotation
=============================================================================
