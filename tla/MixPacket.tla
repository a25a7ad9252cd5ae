------------------------------ MODULE MixPacket ------------------------------
(***************************************************************************)
(* The path of a Sphinx packet through one mix, gateway or service node:   *)
(* server/internal/cryptoworker, mixkey, mixkeys, scheduler, outgoing.     *)
(*                                                                         *)
(* Listeners put packets into the inbound channel.  Several crypto workers *)
(* take them, drop what waited too long, unwrap with the mix keys they     *)
(* shadow, drop replays and hand the rest to the scheduler, to the gateway *)
(* or service back end, or to the decoy worker.  The scheduler collects    *)
(* batches into a priority queue, in memory or in a bolt database, and     *)
(* passes each packet to the connection of its next hop when it is due.    *)
(* Connections take packets from a drop-tail channel and give them to a    *)
(* sender goroutine.  The PKI worker rotates the keys and the connector    *)
(* follows the PKI documents.                                              *)
(*                                                                         *)
(* Time is a clock in the unit of the minimum mix delay (1 ms in the code);*)
(* a packet is a number (pkt.ID) with the attributes routing looks at.     *)
(***************************************************************************)
EXTENDS Integers, Sequences, FiniteSets, SequencesExt, FiniteSetsExt

CONSTANTS
    Packet,         \* packet -> [src, kind, epoch, tag, hop, delay]
    NodeIDs,        \* the nodes this node may forward to
    CryptoWorkers,  \* 1..NumSphinxWorkers
    EpochLen, GracePeriod, NumMixKeys,
    UnwrapDelay, SchedulerSlack, SendSlack,     \* Config.Debug
    SchedulerMaxBurst, SchedulerQueueSize, InboundSize, MaxBatchSize, MaxQueueSize,
    NoPacket,
    MixBudgets      \* the workloads: role, queue and what happens

ASSUME MixAssumption ==
    /\ EpochLen \in Nat \ {0} /\ NumMixKeys \in Nat \ {0}
    /\ MaxBatchSize \in Nat \ {0} /\ SchedulerMaxBurst \in Nat \ {0}
    /\ DOMAIN Packet \subseteq Nat /\ NoPacket \notin Nat

Packets == DOMAIN Packet
Never == -1                         \* a timer set to math.MaxInt64
Dead == -2                          \* a sender goroutine that has returned
AbsoluteMinimumDelay == 1
AbsoluteMaxDelay == NumMixKeys * EpochLen

VARIABLES
    mixBudget,      \* the role and queue of the node, and what may still happen
    now,
    mixKeys, refCount, seen,    \* mixKeys.keys; per epoch the count and the replay filter
    shadow, reshadow,           \* each worker's copy; the workers still to be told
    inbound, hand,              \* the inbound channel; the packet a worker is handing on
    meta,                       \* RecvAt, Delay, DispatchAt of each packet
    inCh, batch,                \* the scheduler's channel and its batching buffer
    maxDelay, timer, burst,     \* the scheduler worker; burst = Never while it waits
    queue,                      \* [head, rest]: the priority queue
    listed,                     \* what AuthenticateConnection says of each peer
    link, spawning,             \* connector.conns, and peers spawnNewConns has still to add
    fate,                       \* history: where each packet ended
    alive                       \* FALSE after a panic

mixVars == <<mixBudget, now, mixKeys, refCount, seen, shadow, reshadow, inbound, hand, meta,
             inCh, batch, maxDelay, timer, burst, queue, listed, link, spawning, fate, alive>>

keyVars == <<mixKeys, refCount, seen, shadow, reshadow>>
workVars == <<inbound, hand>>
schedVars == <<inCh, batch, maxDelay, timer, burst, queue>>
linkVars == <<listed, link, spawning>>

Epoch == now \div EpochLen
Elapsed == now % EpochLen
Till == EpochLen - Elapsed
MixEpochs == 0..((Max({b.until : b \in MixBudgets}) \div EpochLen) + NumMixKeys + 1)
Peer(p) == Packet[p].hop

\* newOutgoingConn
NewLink == [phase |-> "dial", canSend |-> FALSE, ch |-> <<>>, main |-> NoPacket, sender |-> NoPacket]
NoLink == [NewLink EXCEPT !.phase = "none"]

\* Generate(epoch) of mixKeys.init, and cryptoworker.New shadowing it.
MixInit ==
    /\ mixBudget \in MixBudgets
    /\ now = mixBudget.from
    /\ mixKeys = Epoch..(Epoch + NumMixKeys - 1)
    /\ refCount = [e \in MixEpochs |-> IF e \in mixKeys THEN 1 + Cardinality(CryptoWorkers) ELSE 0]
    /\ seen = [e \in MixEpochs |-> {}]
    /\ shadow = [w \in CryptoWorkers |-> mixKeys]
    /\ reshadow = {}
    /\ inbound = <<>> /\ hand = [w \in CryptoWorkers |-> NoPacket]
    /\ meta = [p \in Packets |-> [recvAt |-> 0, delay |-> 0, dispatchAt |-> 0]]
    /\ inCh = <<>> /\ batch = <<>>
    /\ maxDelay = AbsoluteMaxDelay /\ timer = Never /\ burst = Never
    /\ queue = [head |-> NoPacket, rest |-> {}]
    /\ listed = mixBudget.listed
    /\ link = [n \in NodeIDs |-> NoLink]
    /\ spawning = {}
    /\ fate = [p \in Packets |-> "none"]
    /\ alive = TRUE

Ends(p, f) == fate' = [fate EXCEPT ![p] = f]
EndAll(ps, f) == fate' = [p \in Packets |-> IF p \in ps THEN f ELSE fate[p]]

----------------------------------------------------------------------------
(* Mix keys: mixkeys.go, mixkey.go and the rotation of publishDescriptorIfNeeded. *)

\* A key holds one reference for mixKeys and one for each worker that shadows it.
Ref(e) == refCount[e] + 1
Deref(e) == refCount[e] - 1

\* m.Generate(doPublishEpoch) then m.Prune().
Generated == mixKeys \cup (Epoch + 1)..(Epoch + NumMixKeys)
Pruned == {e \in Generated : e < Epoch - 1}

RotateKeys ==
    /\ mixBudget.rotations > 0 /\ reshadow = {} /\ Epoch + NumMixKeys \in MixEpochs
    /\ Generated \ Pruned # mixKeys
    /\ mixBudget' = [mixBudget EXCEPT !.rotations = @ - 1]
    /\ mixKeys' = Generated \ Pruned
    /\ refCount' = [e \in MixEpochs |-> IF e \in Generated \ mixKeys THEN 1
                                        ELSE IF e \in Pruned THEN Deref(e) ELSE refCount[e]]
    /\ reshadow' = CryptoWorkers
    /\ UNCHANGED <<now, seen, shadow, meta, fate, alive, workVars, schedVars, linkVars>>

\* Shadow: the references worker w gives back and takes.
Shadow(w) ==
    refCount' = [e \in MixEpochs |-> IF e \in shadow[w] \ mixKeys THEN Deref(e)
                                     ELSE IF e \in mixKeys \ shadow[w] THEN Ref(e)
                                     ELSE refCount[e]]

\* reshadowCryptoWorkers: UpdateMixKeys waits for the select of each worker in turn.
UpdateMixKeys(w) ==
    /\ w \in reshadow /\ \A x \in reshadow : w <= x
    /\ hand[w] = NoPacket
    /\ reshadow' = reshadow \ {w}
    /\ Shadow(w)
    /\ shadow' = [shadow EXCEPT ![w] = mixKeys]
    /\ UNCHANGED <<mixBudget, now, mixKeys, seen, meta, fate, alive, workVars, schedVars, linkVars>>

----------------------------------------------------------------------------
(* The crypto workers. *)

\* A packet read by an incoming connection; onSendRetrievePacket leaves RecvAt unset.
Receive(p) ==
    /\ p \in mixBudget.arrive /\ Packet[p].src \in {"client", "mix", "retrieve"}
    /\ Len(inbound) < InboundSize
    /\ mixBudget' = [mixBudget EXCEPT !.arrive = @ \ {p}]
    /\ inbound' = Append(inbound, p)
    /\ meta' = [meta EXCEPT ![p].recvAt = IF Packet[p].src = "retrieve" THEN 0 ELSE now]
    /\ UNCHANGED <<now, hand, fate, alive, keyVars, schedVars, linkVars>>

\* The zero time.Time of a packet whose RecvAt is unset is further back than any slack.
TooLongQueued(p) == Packet[p].src = "retrieve" \/ now - meta[p].recvAt > UnwrapDelay

\* The candidate keys of doUnwrap.
CandidateKeys(w) ==
    IF Epoch \notin shadow[w] THEN {}
    ELSE {Epoch} \cup (shadow[w] \cap (IF Elapsed < GracePeriod THEN {Epoch - 1}
                                       ELSE IF Till < GracePeriod THEN {Epoch + 1} ELSE {}))

Bug_IsReplay(e, p) == Packet[p].tag \in seen[e] /\ e = Epoch

\* IsReplay: true iff the filter of that key has the tag.
IsReplay(e, p) == Packet[p].tag \in seen[e]

\* doUnwrap: the packet decrypts under the key it was made for; Set refuses malformed commands
\* before the tag is looked at.
Unwraps(w, p) == Packet[p].epoch \in CandidateKeys(w) /\ Packet[p].kind # "malformed"
                 /\ ~IsReplay(Packet[p].epoch, p)
TagSeen(w, p) ==
    seen' = IF Packet[p].epoch \in CandidateKeys(w) /\ Packet[p].kind # "malformed"
            THEN [seen EXCEPT ![Packet[p].epoch] = @ \cup {Packet[p].tag}] ELSE seen

MustForward(p) == Packet[p].src = "client"
MustTerminate(p) == mixBudget.role = "service" /\ Packet[p].src = "mix"

\* The delay still to wait, for a packet that spent dwell in the inbound queue.
AdjustedDelay(p, dwell) ==
    IF Packet[p].delay > dwell THEN Packet[p].delay - dwell
    ELSE IF Packet[p].delay = 0 THEN AbsoluteMinimumDelay - dwell
    ELSE AbsoluteMinimumDelay

\* routePacket, up to the hand-over: the place the packet goes to.
Destination(p) ==
    LET dwell == now - meta[p].recvAt IN
    IF Packet[p].kind = "forward"
    THEN IF \/ MustTerminate(p)
            \/ Packet[p].delay > AbsoluteMaxDelay
            \/ Packet[p].delay = 0 /\ dwell >= AbsoluteMinimumDelay
         THEN "dropped" ELSE "scheduler"
    ELSE IF mixBudget.role = "mix"
         THEN IF Packet[p].kind = "decoyReply" THEN "decoy" ELSE "dropped"
    ELSE IF MustForward(p) THEN "dropped"
    ELSE IF Packet[p].kind = "decoyReply" THEN "decoy"
    ELSE mixBudget.role

\* One turn of a worker: it takes a packet, drops it, unwraps it and routes it.
WorkerTakes(w) ==
    /\ hand[w] = NoPacket /\ inbound # <<>>
    /\ LET p == Head(inbound)
           to == IF TooLongQueued(p) \/ ~Unwraps(w, p) THEN "dropped" ELSE Destination(p)
       IN /\ inbound' = Tail(inbound)
          /\ IF TooLongQueued(p) THEN seen' = seen ELSE TagSeen(w, p)
          /\ IF to = "scheduler"
             THEN /\ hand' = [hand EXCEPT ![w] = p]
                  /\ meta' = [meta EXCEPT ![p].delay = AdjustedDelay(p, now - meta[p].recvAt)]
                  /\ UNCHANGED fate
             ELSE Ends(p, to) /\ UNCHANGED <<hand, meta>>
    /\ UNCHANGED <<mixBudget, now, mixKeys, refCount, shadow, reshadow, alive, schedVars, linkVars>>

\* Scheduler.OnPacket: the worker waits while the scheduler's channel is full.
WorkerHandsOn(w) ==
    /\ hand[w] # NoPacket /\ Len(inCh) < InboundSize
    /\ inCh' = Append(inCh, hand[w])
    /\ hand' = [hand EXCEPT ![w] = NoPacket]
    /\ UNCHANGED <<mixBudget, now, inbound, meta, batch, maxDelay, timer, burst, queue, fate, alive,
                   keyVars, linkVars>>

\* A SURB reply built by the back end (NewPacketFromSURB) enters at the scheduler.
ReplyEnters(p) ==
    /\ p \in mixBudget.arrive /\ Packet[p].src = "reply" /\ Len(inCh) < InboundSize
    /\ mixBudget' = [mixBudget EXCEPT !.arrive = @ \ {p}]
    /\ meta' = [meta EXCEPT ![p].recvAt = now, ![p].delay = Packet[p].delay]
    /\ inCh' = Append(inCh, p)
    /\ UNCHANGED <<now, batch, maxDelay, timer, burst, queue, fate, alive, keyVars, workVars, linkVars>>

----------------------------------------------------------------------------
(* The queues: queue_mem.go and queue_bolt.go. *)

Entry(p) == [pkt |-> p, prio |-> now + meta[p].delay]
Sooner(x, y) == x.prio < y.prio \/ (x.prio = y.prio /\ x.pkt <= y.pkt)
Firsts(es) == {x \in es : \A y \in es : x.prio <= y.prio}

\* Peek, for both queues: the entries that may be returned (a heap orders equal priorities freely).
Peek == IF mixBudget.queue = "bolt" THEN (IF queue.head = NoPacket THEN {} ELSE {queue.head})
        ELSE Firsts(queue.rest)

\* memoryQueue.doEnqueue: over capacity a random entry is discarded.
MemEnqueue(q, p) ==
    LET all == q.rest \cup {Entry(p)} IN
    IF SchedulerQueueSize > 0 /\ Cardinality(all) > SchedulerQueueSize
    THEN {[q EXCEPT !.rest = all \ {x}] : x \in all} ELSE {[q EXCEPT !.rest = all]}

\* One turn of boltQueue.BulkEnqueue: the head is kept in memory, the others in the database.
BoltEnqueue(q, p) ==
    IF q.head = NoPacket THEN [q EXCEPT !.head = Entry(p)]
    ELSE IF q.head.prio > Entry(p).prio
         THEN [head |-> Entry(p), rest |-> q.rest \cup {q.head}]
         ELSE [q EXCEPT !.rest = @ \cup {Entry(p)}]

\* The queues BulkEnqueue of the packets ps may leave.
BulkEnqueue(ps) ==
    FoldLeft(LAMBDA qs, p : UNION {IF mixBudget.queue = "bolt" THEN {BoltEnqueue(q, p)}
                                   ELSE MemEnqueue(q, p) : q \in qs}, {queue}, ps)

Blown(x) == now - x.prio > SchedulerSlack

Bug_BoltPop(q) ==
    LET live == {x \in q.rest : ~Blown(x)}
        first == {x \in live : \A y \in live : Sooner(x, y)}
    IN [head |-> IF first = {} THEN NoPacket ELSE CHOOSE x \in first : TRUE,
        rest |-> {x \in q.rest : \E y \in first : Sooner(y, x)}]

\* boltQueue.Pop: walks the database in key order, dropping what is overdue, to a new head.
BoltPop(q) ==
    LET live == {x \in q.rest : ~Blown(x)}
        first == {x \in live : \A y \in live : Sooner(x, y)}
    IN [head |-> IF first = {} THEN NoPacket ELSE CHOOSE x \in first : TRUE,
        rest |-> {x \in q.rest : \E y \in first : Sooner(y, x) /\ x # y}]

MemPop(q, x) == [q EXCEPT !.rest = @ \ {x}]
Held(q) == {x.pkt : x \in q.rest} \cup (IF q.head = NoPacket THEN {} ELSE {q.head.pkt})

----------------------------------------------------------------------------
(* The scheduler. *)

\* pipeWorker and batchingBuffer.
PipeMoves ==
    /\ inCh # <<>> /\ Len(batch) < MaxBatchSize
    /\ inCh' = Tail(inCh) /\ batch' = Append(batch, Head(inCh))
    /\ UNCHANGED <<mixBudget, now, meta, maxDelay, timer, burst, queue, fate, alive,
                   keyVars, workVars, linkVars>>

InTable(n) == link[n].phase # "none"
IsValidForwardDest(p) == InTable(Peer(p))

\* A batch arrives: what is too slow or has no connection is dropped, the rest enqueued.
TakesBatch ==
    /\ burst = Never /\ batch # <<>>
    /\ LET kept == SelectSeq(batch, LAMBDA p : meta[p].delay <= maxDelay /\ IsValidForwardDest(p))
       IN \E q \in BulkEnqueue(kept) :
             /\ queue' = q
             /\ EndAll((Range(batch) \cup Held(queue)) \ Held(q), "dropped")
    /\ batch' = <<>> /\ burst' = 0
    /\ UNCHANGED <<mixBudget, now, meta, inCh, maxDelay, timer, alive, keyVars, workVars, linkVars>>

\* OnNewMixMaxDelay, called by the PKI worker with a new document.
NewMaxDelay(d) ==
    /\ burst = Never /\ d \in mixBudget.maxDelays
    /\ mixBudget' = [mixBudget EXCEPT !.maxDelays = @ \ {d}]
    /\ maxDelay' = IF d > AbsoluteMaxDelay \/ d = 0 THEN AbsoluteMaxDelay ELSE d
    /\ burst' = 0
    /\ UNCHANGED <<now, meta, inCh, batch, timer, queue, fate, alive, keyVars, workVars, linkVars>>

TimerFires ==
    /\ burst = Never /\ timer # Never /\ now >= timer
    /\ burst' = 0 /\ timer' = Never
    /\ UNCHANGED <<mixBudget, now, meta, inCh, batch, maxDelay, queue, fate, alive,
                   keyVars, workVars, linkVars>>

\* The end of the dispatch loop: the timer is set for the first packet, or for at once.
Rearm ==
    timer' = IF Peek = {} THEN Never
             ELSE LET at == Min({x.prio : x \in Peek}) IN IF at > now THEN at ELSE now

\* The queue is empty, its first packet is not due, or the burst is over.
SchedulerWaits ==
    /\ burst # Never
    /\ \/ Peek = {}
       \/ \A x \in Peek : x.prio > now
       \/ burst = SchedulerMaxBurst
    /\ Rearm /\ burst' = Never
    /\ UNCHANGED <<mixBudget, now, meta, inCh, batch, maxDelay, queue, fate, alive,
                   keyVars, workVars, linkVars>>

\* Connector.DispatchPacket and dispatchPacket: under the read lock, drop-tail.
Accepted(p) == InTable(Peer(p)) /\ Len(link[Peer(p)].ch) < MaxQueueSize
DispatchPacket(p) ==
    /\ link' = [link EXCEPT ![Peer(p)].ch = Append(@, p)]
    /\ alive' = (link[Peer(p)].phase # "closed")

\* One turn of the dispatch loop: Pop, then drop the overdue packet or pass it on.
Dispatch ==
    /\ burst # Never /\ burst < SchedulerMaxBurst
    /\ \E x \in Peek :
          LET q == IF mixBudget.queue = "bolt" THEN BoltPop(queue) ELSE MemPop(queue, x)
              gone == Held(queue) \ (Held(q) \cup {x.pkt})
          IN /\ x.prio <= now
             /\ queue' = q
             /\ IF Blown(x) \/ ~Accepted(x.pkt)
                THEN EndAll(gone \cup {x.pkt}, "dropped") /\ UNCHANGED <<meta, link, alive>>
                ELSE /\ meta' = [meta EXCEPT ![x.pkt].dispatchAt = now]
                     /\ EndAll(gone, "dropped") /\ DispatchPacket(x.pkt)
    /\ burst' = burst + 1
    /\ UNCHANGED <<mixBudget, now, inCh, batch, maxDelay, timer, listed, spawning, keyVars, workVars>>

\* The decoy worker's dispatchPacket goes straight to the connector.
DecoyLeaves(p) ==
    /\ p \in mixBudget.arrive /\ Packet[p].src = "decoy"
    /\ mixBudget' = [mixBudget EXCEPT !.arrive = @ \ {p}]
    /\ meta' = [meta EXCEPT ![p].recvAt = now, ![p].dispatchAt = now]
    /\ IF Accepted(p) THEN DispatchPacket(p) /\ UNCHANGED fate
       ELSE Ends(p, "dropped") /\ UNCHANGED <<link, alive>>
    /\ UNCHANGED <<now, listed, spawning, keyVars, workVars, schedVars>>

----------------------------------------------------------------------------
(* The connector and its connections. *)

\* A new PKI document, or the passing of an epoch, changes what a peer is listed as.
PKIChanges(n, how) ==
    /\ mixBudget.moves > 0 /\ how # listed[n]
    /\ mixBudget' = [mixBudget EXCEPT !.moves = @ - 1]
    /\ listed' = [listed EXCEPT ![n] = how]
    /\ UNCHANGED <<now, meta, link, spawning, fate, alive, keyVars, workVars, schedVars>>

\* The peers spawnNewConns finds new under the read lock.
NewPeers == {n \in NodeIDs : listed[n] # "no" /\ ~InTable(n)}

\* connector.worker wakes by ForceUpdate or by its timer.
SpawnNewConns ==
    /\ spawning = {} /\ NewPeers # {} /\ ~mixBudget.closing
    /\ spawning' = NewPeers
    /\ UNCHANGED <<mixBudget, now, meta, listed, link, fate, alive, keyVars, workVars, schedVars>>

OnNewConn(n) ==
    /\ n \in spawning
    /\ spawning' = spawning \ {n}
    /\ link' = [link EXCEPT ![n] = NewLink]
    /\ UNCHANGED <<mixBudget, now, meta, listed, fate, alive, keyVars, workVars, schedVars>>

\* The packets a connection holds; those its session holds.
InSession(n) == {link[n].main, link[n].sender} \cap Packets
OnLink(n) == Range(link[n].ch) \cup InSession(n)

\* The worker's deferred onClosedConn, then close(c.ch).
Removed(n) == link' = [link EXCEPT ![n] = NoLink]

Leaves(n) ==
    /\ Removed(n) /\ EndAll(OnLink(n), "dropped")
    /\ UNCHANGED <<mixBudget, now, meta, listed, spawning, alive, keyVars, workVars, schedVars>>

\* The dial loop finds the peer gone from the PKI, or the connector closes everything.
ConnBailsOut(n) == link[n].phase = "dial" /\ listed[n] = "no" /\ Leaves(n)
ConnCanceled(n) == mixBudget.closing /\ link[n].phase \in {"dial", "up"} /\ Leaves(n)

HaltConnector ==
    /\ mixBudget.halts /\ ~mixBudget.closing /\ spawning = {}
    /\ mixBudget' = [mixBudget EXCEPT !.closing = TRUE]
    /\ UNCHANGED <<now, meta, fate, alive, keyVars, workVars, schedVars, linkVars>>

\* Dial, handshake and IsPeerValid succeed.
Connects(n) ==
    /\ link[n].phase = "dial" /\ listed[n] # "no"
    /\ link' = [link EXCEPT ![n].phase = "up", ![n].canSend = (listed[n] = "yes")]
    /\ UNCHANGED <<mixBudget, now, meta, listed, spawning, fate, alive, keyVars, workVars, schedVars>>

\* onConnEstablished returns: the worker dials again, its channel kept.
SessionEnds(n) ==
    /\ link' = [link EXCEPT ![n] = [NewLink EXCEPT !.ch = link[n].ch]]
    /\ EndAll(InSession(n), "dropped")

InSelect(n) == link[n].phase = "up" /\ link[n].main = NoPacket

\* The reauthentication ticker.
Reauthenticates(n) ==
    /\ InSelect(n) /\ (listed[n] = "no" \/ link[n].canSend # (listed[n] = "yes"))
    /\ IF listed[n] = "no" THEN SessionEnds(n)
       ELSE link' = [link EXCEPT ![n].canSend = (listed[n] = "yes")] /\ UNCHANGED fate
    /\ UNCHANGED <<mixBudget, now, meta, listed, spawning, alive, keyVars, workVars, schedVars>>

\* A packet from the channel: dropped when late or when sending is not yet allowed.
ConnTakes(n) ==
    /\ InSelect(n) /\ link[n].ch # <<>>
    /\ LET p == Head(link[n].ch) IN
       IF now - meta[p].dispatchAt > SendSlack \/ ~link[n].canSend
       THEN link' = [link EXCEPT ![n].ch = Tail(@)] /\ Ends(p, "dropped")
       ELSE link' = [link EXCEPT ![n].ch = Tail(@), ![n].main = p] /\ UNCHANGED fate
    /\ UNCHANGED <<mixBudget, now, meta, listed, spawning, alive, keyVars, workVars, schedVars>>

\* The inner select: to the sender goroutine, or out when that has returned.
ConnGives(n) ==
    /\ link[n].main # NoPacket
    /\ \/ /\ link[n].sender = NoPacket
          /\ link' = [link EXCEPT ![n].sender = link[n].main, ![n].main = NoPacket]
          /\ UNCHANGED fate
       \/ link[n].sender = Dead /\ SessionEnds(n)
    /\ UNCHANGED <<mixBudget, now, meta, listed, spawning, alive, keyVars, workVars, schedVars>>

\* SendCommand of the sender goroutine; on an error it returns.
SenderSends(n) ==
    /\ link[n].sender \in Packets
    /\ link' = [link EXCEPT ![n].sender = NoPacket] /\ Ends(link[n].sender, "sent")
    /\ UNCHANGED <<mixBudget, now, meta, listed, spawning, alive, keyVars, workVars, schedVars>>
SenderFails(n) ==
    /\ link[n].sender \in Packets /\ mixBudget.faults > 0
    /\ mixBudget' = [mixBudget EXCEPT !.faults = @ - 1]
    /\ link' = [link EXCEPT ![n].sender = Dead] /\ Ends(link[n].sender, "dropped")
    /\ UNCHANGED <<now, meta, listed, spawning, alive, keyVars, workVars, schedVars>>

\* peerClosedCh, seen in the outer select only.
PeerCloses(n) ==
    /\ InSelect(n) /\ mixBudget.faults > 0
    /\ mixBudget' = [mixBudget EXCEPT !.faults = @ - 1]
    /\ SessionEnds(n)
    /\ UNCHANGED <<now, meta, listed, spawning, alive, keyVars, workVars, schedVars>>

Tick ==
    /\ now < mixBudget.until
    /\ now' = now + 1
    /\ UNCHANGED <<mixBudget, meta, fate, alive, keyVars, workVars, schedVars, linkVars>>

MixNext ==
    /\ alive
    /\ \/ Tick \/ RotateKeys \/ PipeMoves \/ TakesBatch \/ TimerFires \/ SchedulerWaits \/ Dispatch
       \/ SpawnNewConns \/ HaltConnector
       \/ \E w \in CryptoWorkers : UpdateMixKeys(w) \/ WorkerTakes(w) \/ WorkerHandsOn(w)
       \/ \E p \in Packets : Receive(p) \/ ReplyEnters(p) \/ DecoyLeaves(p)
       \/ \E d \in mixBudget.maxDelays : NewMaxDelay(d)
       \/ \E n \in NodeIDs :
             \/ OnNewConn(n) \/ ConnBailsOut(n) \/ ConnCanceled(n) \/ Connects(n) \/ Reauthenticates(n)
             \/ ConnTakes(n) \/ ConnGives(n) \/ SenderSends(n) \/ SenderFails(n) \/ PeerCloses(n)
             \/ \E how \in {"no", "early", "yes"} : PKIChanges(n, how)

MixSpec == MixInit /\ [][MixNext]_mixVars

----------------------------------------------------------------------------
Scheduled == Range(inCh) \cup Range(batch) \cup Held(queue)
OnLinks == UNION {OnLink(n) : n \in NodeIDs}
HandedOn == {hand[w] : w \in CryptoWorkers} \cap Packets

\* Every channel stays within its capacity, the timers are on the clock, and a key's count is
\* never negative (the "Refcount is negative" panic of Deref).
MixTypeOK ==
    /\ alive \in BOOLEAN /\ burst \in {Never} \cup 0..SchedulerMaxBurst
    /\ Len(inbound) <= InboundSize /\ Len(inCh) <= InboundSize /\ Len(batch) <= MaxBatchSize
    /\ mixBudget.queue = "mem" => queue.head = NoPacket /\ Cardinality(queue.rest) <= SchedulerQueueSize
    /\ maxDelay \in 1..AbsoluteMaxDelay /\ refCount \in [MixEpochs -> Nat]
    /\ \A n \in NodeIDs : Len(link[n].ch) <= MaxQueueSize
    /\ \A p \in Packets : fate[p] \in {"none", "dropped", "sent", "decoy", "gateway", "service"}

\* A packet is in one place at a time, from its arrival to its end: no queue, swap of the bolt head,
\* batch or connection leaves a second copy behind, and none loses one unnoticed.
OnePlace ==
    \A p \in Packets :
        Cardinality({i \in DOMAIN inbound : inbound[i] = p}) + Cardinality({w \in CryptoWorkers : hand[w] = p})
        + Cardinality({i \in DOMAIN inCh : inCh[i] = p}) + Cardinality({i \in DOMAIN batch : batch[i] = p})
        + Cardinality({x \in queue.rest : x.pkt = p})
        + (IF queue.head # NoPacket /\ queue.head.pkt = p THEN 1 ELSE 0)
        + FoldSet(LAMBDA n, k : k + Cardinality({i \in DOMAIN link[n].ch : link[n].ch[i] = p})
                                  + Cardinality({f \in {"main", "sender"} : link[n][f] = p}), 0, NodeIDs)
        + (IF p \in mixBudget.arrive THEN 1 ELSE 0) + (IF fate[p] # "none" THEN 1 ELSE 0)
        = (IF p \in mixBudget.all THEN 1 ELSE 0)

\* The mixing itself: no packet is handed to the next hop before the delay its sender asked for has
\* passed since it was received, nor without the minimum delay of one unit, whatever time it spent in
\* the queues before the scheduler (routePacket, BulkEnqueue, the timer of scheduler.worker).
MixingHeld ==
    \A p \in OnLinks \cup {x \in Packets : fate[x] = "sent"} :
        CASE Packet[p].src = "decoy" -> TRUE
          [] Packet[p].src = "reply" -> meta[p].dispatchAt >= meta[p].recvAt + Packet[p].delay
          [] OTHER -> meta[p].dispatchAt >= meta[p].recvAt + Max({Packet[p].delay, AbsoluteMinimumDelay})

\* Copies of a packet get past the replay filter of their key once, whichever workers unwrap
\* them and whether the key is that of the current epoch or one of the grace period.
ReplayOnce ==
    \A p, r \in HandedOn \cup Scheduled \cup OnLinks
                \cup {x \in Packets : fate[x] \in {"sent", "decoy", "gateway", "service"}} :
        Packet[p].tag = Packet[r].tag /\ Packet[p].epoch = Packet[r].epoch
        /\ {Packet[p].src, Packet[r].src} \subseteq {"client", "mix"} => p = r

\* While the scheduler waits with packets queued, its timer goes off no later than the first of
\* them is due: neither the head kept in memory nor the database of the bolt queue hides one.
WakeupArmed ==
    burst = Never /\ Held(queue) # {} =>
        /\ timer # Never
        /\ \/ timer <= now
           \/ \A x \in queue.rest \cup ({queue.head} \ {NoPacket}) : timer <= x.prio

\* A key is closed exactly when neither mixKeys nor a worker lists it: no crypto worker unwraps with
\* a key that Prune has closed, and no old key stays open (Ref, Deref, Shadow, Prune).
KeysCounted ==
    \A e \in MixEpochs :
        refCount[e] = Cardinality({w \in CryptoWorkers : e \in shadow[w]}) + (IF e \in mixKeys THEN 1 ELSE 0)

\* onNewConn never finds a connection to the peer in the table (the code: "This should NEVER
\* happen"), and DispatchPacket never sends into a channel its worker has closed.
ConnTableSound == alive /\ \A n \in spawning : ~InTable(n)

\* A packet is in one place from the listener to the wire or is dropped once, the scheduler's timer is
\* armed for the first one queued, no peer gets a second connection and none is sent a packet after
\* its channel was closed.
PacketsAccounted == MixTypeOK /\ OnePlace /\ WakeupArmed /\ ConnTableSound

\* A packet is forwarded once under any of its keys and only after its delay, though workers unwrap
\* copies of it side by side and keys are shared, dropped and closed between them.
MixedOnce == MixingHeld /\ ReplayOnce /\ KeysCounted
=============================================================================
