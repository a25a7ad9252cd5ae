---------------------------- MODULE GatewaySpool ----------------------------
(***************************************************************************)
(* The gateway's side of its clients: server/internal/gateway, the spool   *)
(* of server/spool/boltspool, the commands of incoming_conn.go a client    *)
(* sends, the WebTransport control streams, and the client's fetch loop    *)
(* (client/connection.go onWireConn).                                      *)
(*                                                                         *)
(* Packets for users reach the gateway's workers, which store them in the  *)
(* spool of the recipient, or hand a SURB reply to the WebTransport stream *)
(* registered for it.  A client takes a fresh random queue ID on every     *)
(* connection, so a session and a recipient are the same thing here.  It   *)
(* fetches with a sequence number: the next number tells the gateway that  *)
(* the last message has arrived and may be deleted.  Once an epoch each    *)
(* worker vacuums the spools of identities that are not connected.         *)
(***************************************************************************)
EXTENDS Integers, Sequences, FiniteSets, SequencesExt

CONSTANTS
    Sessions,       \* successive client connections, numbered
    Item,           \* item -> [to, kind]: what arrives for a user
    Streams,        \* WebTransport control streams: stream -> [to, mode]
    ReceiverSize,   \* capacity of a receiver's channel (16 in the code; 1 for send-with-reply)
    NoItem,
    GwBudgets       \* the workloads

Items == DOMAIN Item
WTStreams == DOMAIN Streams
Users == Sessions \cup {Streams[s].to : s \in WTStreams}
Off == 0            \* sendTokenIncr = 0: no rate limit

ASSUME GwAssumption == Sessions \subseteq Nat /\ ReceiverSize \in Nat \ {0}

VARIABLES
    gwBudget,       \* what may still happen
    gwCh,           \* gateway.ch and the packet each worker holds
    lookedUp,       \* onSURBReply between its lookup and its send
    spool,          \* the messages of each user, oldest first
    sweep,          \* the identities gcEphemeralClients is about to spare, or none
    peer,           \* both ends of each client connection
    bucket,         \* the rate limiter of each connection
    limits, gwClock,    \* listener.sendRatePerMinute (as an interval), sendBurst
    stream, replySessions, streamCh,    \* WebTransport streams, wtReplySessions, their channels
    stored, got, swept, ended, newest   \* history: what was stored and delivered, spools vacuumed
                                        \* with messages, where items ended, the last to register

gwVars == <<gwBudget, gwCh, lookedUp, spool, sweep, peer, bucket, limits, gwClock,
            stream, replySessions, streamCh, stored, got, swept, ended, newest>>

clientVars == <<peer, got>>
rateVars == <<bucket, limits, gwClock>>
wtVars == <<stream, replySessions, streamCh, newest>>
storeVars == <<spool, stored, swept>>

NoPeer == [client |-> FALSE, server |-> FALSE, seq |-> 0, retrSeq |-> 0, asked |-> FALSE,
           request |-> <<>>, answer |-> <<>>]
NoBucket == [tokens |-> 0, last |-> 0, incr |-> Off, max |-> 4, passed |-> 0, since |-> 0, least |-> 0]

GwInit ==
    /\ gwBudget \in GwBudgets
    /\ gwCh = {} /\ lookedUp = [i \in Items |-> NoItem]
    /\ spool = [u \in Users |-> <<>>] /\ stored = spool /\ swept = [u \in Users |-> FALSE]
    /\ sweep = {NoItem}
    /\ peer = [g \in Sessions |-> NoPeer] /\ got = [g \in Sessions |-> <<>>]
    /\ bucket = [g \in Sessions |-> NoBucket]
    /\ limits = gwBudget.limits /\ gwClock = 0
    /\ stream = [s \in WTStreams |-> "none"]
    /\ replySessions = [u \in Users |-> NoItem]
    /\ streamCh = [s \in WTStreams |-> <<>>]
    /\ ended = [i \in Items |-> "no"] /\ newest = replySessions

----------------------------------------------------------------------------
(* gateway.worker *)

GatewayOnPacket(i) ==
    /\ i \in gwBudget.arrive
    /\ gwBudget' = [gwBudget EXCEPT !.arrive = @ \ {i}]
    /\ gwCh' = gwCh \cup {i}
    /\ UNCHANGED <<lookedUp, sweep, ended, clientVars, rateVars, wtVars, storeVars>>

\* doStore: StoreMessage and StoreSURBReply append under the next sequence number.
DoStore(i) ==
    /\ spool' = [spool EXCEPT ![Item[i].to] = Append(@, i)]
    /\ stored' = [stored EXCEPT ![Item[i].to] = Append(@, i)]
    /\ ended' = [ended EXCEPT ![i] = "spool"]
    /\ UNCHANGED swept

\* A packet that waited longer than GatewayDelay, or is mis-sized, is dropped.
GatewayDrops(i) ==
    /\ i \in gwCh /\ lookedUp[i] = NoItem
    /\ gwBudget.late > 0 \/ Item[i].kind = "malformed"
    /\ gwBudget' = IF Item[i].kind = "malformed" THEN gwBudget ELSE [gwBudget EXCEPT !.late = @ - 1]
    /\ gwCh' = gwCh \ {i}
    /\ ended' = [ended EXCEPT ![i] = "dropped"]
    /\ UNCHANGED <<lookedUp, sweep, clientVars, rateVars, wtVars, storeVars>>

\* onToUser; a SURB that came with the message becomes an acknowledgement for the scheduler.
OnToUser(i) ==
    /\ i \in gwCh /\ Item[i].kind = "message"
    /\ gwCh' = gwCh \ {i}
    /\ DoStore(i)
    /\ UNCHANGED <<gwBudget, lookedUp, sweep, clientVars, rateVars, wtVars>>

\* onSURBReply looks the stream up under the lock ...
OnSURBReply(i) ==
    /\ i \in gwCh /\ Item[i].kind = "surb" /\ lookedUp[i] = NoItem
    /\ IF replySessions[Item[i].to] = NoItem
       THEN gwCh' = gwCh \ {i} /\ DoStore(i) /\ UNCHANGED lookedUp
       ELSE /\ lookedUp' = [lookedUp EXCEPT ![i] = replySessions[Item[i].to]]
            /\ UNCHANGED <<gwCh, ended, storeVars>>
    /\ UNCHANGED <<gwBudget, sweep, clientVars, rateVars, wtVars>>

StreamSize(s) == IF Streams[s].mode = "wait" THEN 1 ELSE ReceiverSize

HasRoom(s) == Len(streamCh[s]) < StreamSize(s)

\* ... and sends without it: into the channel if there is room, else into the spool.
DeliverSURBReply(i) ==
    /\ lookedUp[i] # NoItem
    /\ gwCh' = gwCh \ {i} /\ lookedUp' = [lookedUp EXCEPT ![i] = NoItem]
    /\ LET s == lookedUp[i] IN
       IF HasRoom(s)
       THEN /\ streamCh' = [streamCh EXCEPT ![s] = Append(@, i)]
            /\ ended' = [ended EXCEPT ![i] = "stream"]
            /\ UNCHANGED storeVars
       ELSE DoStore(i) /\ UNCHANGED streamCh
    /\ UNCHANGED <<gwBudget, sweep, stream, replySessions, newest, clientVars, rateVars>>

\* gcEphemeralClients: connectedClients reads the listeners' tables ...
ConnectedClients ==
    /\ gwBudget.sweeps > 0 /\ sweep = {NoItem}
    /\ gwBudget' = [gwBudget EXCEPT !.sweeps = @ - 1]
    /\ sweep' = {g \in Sessions : peer[g].server}
    /\ UNCHANGED <<gwCh, lookedUp, ended, clientVars, rateVars, wtVars, storeVars>>

\* ... and VacuumExpired deletes the other buckets.
VacuumExpired ==
    /\ sweep # {NoItem}
    /\ sweep' = {NoItem}
    /\ spool' = [u \in Users |-> IF u \notin sweep THEN <<>> ELSE spool[u]]
    /\ swept' = [u \in Users |-> swept[u] \/ (u \notin sweep /\ spool[u] # <<>>)]
    /\ UNCHANGED <<gwBudget, gwCh, lookedUp, stored, ended, clientVars, rateVars, wtVars>>

----------------------------------------------------------------------------
(* The rate limiter of a client connection. *)

\* IsPeerValid for a client, at the handshake and on every reauthentication.
Refreshed(b) ==
    LET base == IF b.incr = Off \/ limits.incr = Off
                THEN [b EXCEPT !.tokens = 1, !.last = gwClock] ELSE b   \* one credit to start with
    IN IF limits.burst = 0 THEN [base EXCEPT !.incr = Off, !.tokens = 0, !.max = 0]
       ELSE [base EXCEPT !.incr = limits.incr, !.max = limits.burst]

\* History: the shortest interval this connection was under, 0 once it was unlimited.
Limited(b) == [b EXCEPT !.least = IF @ = Off \/ b.incr = Off THEN Off ELSE IF b.incr < @ THEN b.incr ELSE @]

Reauthenticate(g) ==
    /\ peer[g].server /\ Refreshed(bucket[g]) # bucket[g]
    /\ bucket' = [bucket EXCEPT ![g] = Limited(Refreshed(bucket[g]))]
    /\ UNCHANGED <<gwBudget, gwCh, lookedUp, sweep, limits, gwClock, ended, clientVars, wtVars, storeVars>>

NewLimits(l) ==
    /\ l \in gwBudget.newLimits
    /\ gwBudget' = [gwBudget EXCEPT !.newLimits = @ \ {l}]
    /\ limits' = l
    /\ UNCHANGED <<gwCh, lookedUp, sweep, bucket, gwClock, ended, clientVars, wtVars, storeVars>>

GwTick ==
    /\ gwClock < gwBudget.until
    /\ gwClock' = gwClock + 1
    /\ UNCHANGED <<gwBudget, gwCh, lookedUp, sweep, bucket, limits, ended, clientVars, wtVars, storeVars>>

\* onSendPacket: the bucket is filled for the time since, capped, and a token taken.
Filled(b) ==
    LET n == (gwClock - b.last) \div b.incr
        more == b.tokens + n
    IN IF n = 0 THEN b
       ELSE [b EXCEPT !.last = @ + n * b.incr, !.tokens = IF more > b.max THEN b.max ELSE more]

OnSendPacket(g) ==
    /\ peer[g].server /\ gwBudget.packets > 0
    /\ gwBudget' = [gwBudget EXCEPT !.packets = @ - 1]
    /\ LET b == IF bucket[g].incr = Off THEN bucket[g] ELSE Filled(bucket[g]) IN
       bucket' = [bucket EXCEPT ![g] =
           IF b.incr = Off THEN [b EXCEPT !.passed = @ + 1]
           ELSE IF b.tokens = 0 THEN b
           ELSE [b EXCEPT !.tokens = @ - 1, !.passed = @ + 1]]
    /\ UNCHANGED <<gwCh, lookedUp, sweep, limits, gwClock, ended, clientVars, wtVars, storeVars>>

----------------------------------------------------------------------------
(* The client's fetch loop and onRetrieveMessage. *)

\* A new connection: a new queue ID, sequence numbers from 0.
ClientConnects(g) ==
    /\ g \in gwBudget.clients /\ \A h \in Sessions : ~peer[h].client /\ (h \in gwBudget.clients => g <= h)
    /\ gwBudget' = [gwBudget EXCEPT !.clients = @ \ {g}]
    /\ peer' = [peer EXCEPT ![g] = [NoPeer EXCEPT !.client = TRUE, !.server = TRUE]]
    /\ bucket' = [bucket EXCEPT ![g] =
                    LET b == Refreshed([NoBucket EXCEPT !.last = gwClock])
                    IN [b EXCEPT !.since = gwClock, !.least = b.incr]]
    /\ UNCHANGED <<gwCh, lookedUp, sweep, limits, gwClock, got, ended, wtVars, storeVars>>

\* One request at a time: nrReqs = nrResps.
ClientFetches(g) ==
    /\ peer[g].client /\ ~peer[g].asked /\ gwBudget.fetches > 0
    /\ gwBudget' = [gwBudget EXCEPT !.fetches = @ - 1]
    /\ peer' = [peer EXCEPT ![g].asked = TRUE, ![g].request = <<peer[g].seq>>]
    /\ UNCHANGED <<gwCh, lookedUp, sweep, got, ended, rateVars, wtVars, storeVars>>

Advanced(u) == IF spool[u] = <<>> THEN <<>> ELSE Tail(spool[u])
AnswerFrom(msgs) == IF msgs = <<>> THEN NoItem ELSE Head(msgs)

Bug_RetrieveAdvances(n, retrSeq) == n >= retrSeq

\* cmd.Sequence is the one after the last: the head has arrived and is popped.
RetrieveAdvances(n, retrSeq) == n = retrSeq + 1

\* onRetrieveMessage with Spool.Get(advance): out of sequence ends the connection.
OnRetrieveMessage(g) ==
    /\ peer[g].server /\ peer[g].request # <<>>
    /\ LET n == Head(peer[g].request)
           left == IF RetrieveAdvances(n, peer[g].retrSeq) THEN Advanced(g) ELSE spool[g]
       IN IF n \in {peer[g].retrSeq, peer[g].retrSeq + 1}
          THEN /\ spool' = [spool EXCEPT ![g] = left]
               /\ peer' = [peer EXCEPT ![g].request = <<>>, ![g].retrSeq = n,
                                       ![g].answer = <<[seq |-> n, item |-> AnswerFrom(left)]>>]
          ELSE peer' = [peer EXCEPT ![g].request = <<>>, ![g].server = FALSE] /\ UNCHANGED spool
    /\ UNCHANGED <<gwBudget, gwCh, lookedUp, sweep, got, stored, swept, ended, rateVars, wtVars>>

\* Message and MessageACK advance the client's number; MessageEmpty does not.
ClientReceives(g) ==
    /\ peer[g].client /\ peer[g].answer # <<>>
    /\ LET a == Head(peer[g].answer) IN
       IF a.seq # peer[g].seq
       THEN peer' = [peer EXCEPT ![g].client = FALSE, ![g].answer = <<>>] /\ UNCHANGED got
       ELSE IF a.item = NoItem
       THEN peer' = [peer EXCEPT ![g].asked = FALSE, ![g].answer = <<>>] /\ UNCHANGED got
       ELSE /\ peer' = [peer EXCEPT ![g].asked = FALSE, ![g].answer = <<>>, ![g].seq = @ + 1]
            /\ got' = [got EXCEPT ![g] = Append(@, a.item)]
    /\ UNCHANGED <<gwBudget, gwCh, lookedUp, sweep, ended, rateVars, wtVars, storeVars>>

\* Either end goes away: the client's at any time, the gateway's when it sees that, fails to
\* send, or closes the connection itself.
ClientGone(g) ==
    /\ peer[g].client /\ gwBudget.breaks > 0
    /\ gwBudget' = [gwBudget EXCEPT !.breaks = @ - 1]
    /\ peer' = [peer EXCEPT ![g].client = FALSE, ![g].answer = <<>>]
    /\ UNCHANGED <<gwCh, lookedUp, sweep, got, ended, rateVars, wtVars, storeVars>>
ServerGone(g) ==
    /\ peer[g].server /\ (~peer[g].client \/ gwBudget.breaks > 0)
    /\ gwBudget' = IF peer[g].client THEN [gwBudget EXCEPT !.breaks = @ - 1] ELSE gwBudget
    /\ peer' = [peer EXCEPT ![g].server = FALSE, ![g].request = <<>>, ![g].answer = <<>>,
                            ![g].client = FALSE]
    /\ bucket' = [bucket EXCEPT ![g] = NoBucket]
    /\ UNCHANGED <<gwCh, lookedUp, sweep, limits, gwClock, got, ended, wtVars, storeVars>>

----------------------------------------------------------------------------
(* WebTransport control streams. *)

\* injectClientPacketAndWaitReply, registerWebTransportReceiver: the newest takes the entry.
WTRegister(s) ==
    /\ s \in gwBudget.streams
    /\ gwBudget' = [gwBudget EXCEPT !.streams = @ \ {s}]
    /\ stream' = [stream EXCEPT ![s] = "open"]
    /\ replySessions' = [replySessions EXCEPT ![Streams[s].to] = s]
    /\ newest' = [newest EXCEPT ![Streams[s].to] = s]
    /\ UNCHANGED <<gwCh, lookedUp, sweep, streamCh, ended, clientVars, rateVars, storeVars>>

\* A reply is written to the stream; a waiting sender then ends.
WTWrites(s) ==
    /\ stream[s] = "open" /\ streamCh[s] # <<>>
    /\ streamCh' = [streamCh EXCEPT ![s] = Tail(@)]
    /\ ended' = [ended EXCEPT ![Head(streamCh[s])] = "written"]
    /\ stream' = IF Streams[s].mode = "wait" THEN [stream EXCEPT ![s] = "ending"] ELSE stream
    /\ UNCHANGED <<gwBudget, gwCh, lookedUp, sweep, replySessions, newest, clientVars, rateVars, storeVars>>

\* The 45 seconds pass, the stream breaks, or the listener halts.
WTEnds(s) ==
    /\ stream[s] = "open" /\ gwBudget.timeouts > 0
    /\ gwBudget' = [gwBudget EXCEPT !.timeouts = @ - 1]
    /\ stream' = [stream EXCEPT ![s] = "ending"]
    /\ UNCHANGED <<gwCh, lookedUp, sweep, replySessions, streamCh, newest, ended, clientVars, rateVars, storeVars>>

\* UnregisterWebTransportReplySession removes the entry only if it is still its own.
Unregistered(s) ==
    IF replySessions[Streams[s].to] = s THEN [replySessions EXCEPT ![Streams[s].to] = NoItem]
    ELSE replySessions

WTUnregister(s) ==
    /\ stream[s] = "ending"
    /\ stream' = [stream EXCEPT ![s] = "done"]
    /\ replySessions' = Unregistered(s)
    /\ UNCHANGED <<gwBudget, gwCh, lookedUp, sweep, streamCh, newest, ended, clientVars, rateVars, storeVars>>

GwNext ==
    \/ ConnectedClients \/ VacuumExpired \/ GwTick
    \/ \E l \in gwBudget.newLimits : NewLimits(l)
    \/ \E i \in Items : GatewayOnPacket(i) \/ GatewayDrops(i) \/ OnToUser(i) \/ OnSURBReply(i)
                        \/ DeliverSURBReply(i)
    \/ \E g \in Sessions : ClientConnects(g) \/ ClientFetches(g) \/ OnRetrieveMessage(g)
                           \/ ClientReceives(g) \/ ClientGone(g) \/ ServerGone(g)
                           \/ Reauthenticate(g) \/ OnSendPacket(g)
    \/ \E s \in WTStreams : WTRegister(s) \/ WTWrites(s) \/ WTEnds(s) \/ WTUnregister(s)

GwSpec == GwInit /\ [][GwNext]_gwVars

----------------------------------------------------------------------------
\* A request and its answer are never both on the wire, a bucket never holds more than the largest
\* burst in force or the first credit, and a channel of replies stays within its capacity.
GwTypeOK ==
    /\ \A g \in Sessions : /\ Len(peer[g].request) + Len(peer[g].answer) <= 1
                           /\ bucket[g].tokens \in 0..4 /\ peer[g].retrSeq <= peer[g].seq
    /\ \A s \in WTStreams : Len(streamCh[s]) <= StreamSize(s)
    /\ gwCh \subseteq Items

\* The messages spooled for a session reach it once each, in the order they were stored, and none
\* is deleted before the session has received it, whatever answers are lost, unless VacuumExpired
\* took the spool from under it.
RetrievalExact ==
    \A g \in Sessions :
        ~swept[g] => LET gone == Len(stored[g]) - Len(spool[g]) IN
            /\ got[g] = SubSeq(stored[g], 1, Len(got[g]))
            /\ spool[g] = SubSeq(stored[g], gone + 1, Len(stored[g]))
            /\ gone <= Len(got[g]) /\ Len(got[g]) <= gone + 1

\* A rate-limited connection gets through at most one packet more than its intervals that have
\* passed, however often it is reauthenticated and the limits change.
RateHeld ==
    \A g \in Sessions :
        peer[g].server /\ bucket[g].least # Off =>
            bucket[g].passed <= 1 + (gwClock - bucket[g].since) \div bucket[g].least

\* The stream that registered last for a recipient stays registered while it is open, though an
\* older stream for that recipient ends later.
NewestStreamStays ==
    \A u \in Users : newest[u] # NoItem /\ stream[newest[u]] = "open" => replySessions[u] = newest[u]

\* What a gateway promises its clients: spooled messages are delivered once each, in order, and
\* deleted only then; no client exceeds its rate; the newest reply stream of a recipient stays
\* registered (onRetrieveMessage, IsPeerValid, RegisterWebTransportReplySession).
GatewaySound == GwTypeOK /\ RetrievalExact /\ RateHeld /\ NewestStreamStays
=============================================================================
