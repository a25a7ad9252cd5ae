----------------------------- MODULE ReplicaNet -----------------------------
(***************************************************************************)
(* How one storage replica passes writes on to the other replica of their  *)
(* shard and asks it on behalf of clients: replica/connector.go,           *)
(* outgoing_conn.go, sender.go, proxy_request_manager.go, the message      *)
(* handlers of handlers.go and the rebalancing of state.go.                *)
(*                                                                         *)
(* A write that was stored locally is handed to a goroutine, which looks   *)
(* up the connection of the target and puts the command into its channel.  *)
(* A connection moves commands from that channel through its paced sender  *)
(* into a second channel, from which the egress goroutine sends one and    *)
(* waits for its reply.  Commands that find no connection, or whose        *)
(* connection fails, go to the retry queue.  Its mutex is held while       *)
(* processRetryQueue puts commands into channels that may be full.         *)
(*                                                                         *)
(* Shards have two replicas, so a command has one target.  Decoys, keys    *)
(* and ciphertexts are abstracted; `lost' is a history variable: the       *)
(* commands the replica has given up.                                      *)
(***************************************************************************)
EXTENDS Integers, Sequences, FiniteSets, SequencesExt

CONSTANTS
    Peers,                  \* the other replicas of the configuration
    Writes, Tombstones,     \* ReplicaWrite commands; those with an empty payload
    Requests, WriteRequests,    \* ReplicaMessages of clients whose box is elsewhere; the writes
    BoxOf,                  \* the box of each write
    ShardPeer,              \* the other replica of the shard, for each command
    OutgoingQueueSize,
    maxRetryQueuePerPeer,
    MaxConcurrentReplications,
    ProxyWorkerCount,
    Nothing,
    NetBudgets              \* the workloads: which commands arrive and what fails

ASSUME NetAssumption ==
    /\ OutgoingQueueSize \in Nat \ {0} /\ maxRetryQueuePerPeer \in Nat \ {0}
    /\ MaxConcurrentReplications \in Nat \ {0} /\ ProxyWorkerCount \in Nat \ {0}
    /\ Tombstones \subseteq Writes /\ WriteRequests \subseteq Requests /\ Nothing \notin Writes \cup Requests
    /\ ShardPeer \in [Writes \cup Requests -> Peers]

Commands == Writes \cup Requests
Boxes == {BoxOf[w] : w \in Writes}
Rebalancer == "PKIWorker"
Tasks == Commands \cup {Rebalancer}

VARIABLES
    netBudget,      \* what may still arrive, fail or change
    replicas,       \* PKIWorker.replicas: the members as last fetched
    doc,            \* the members in the last cached PKI document
    rebalance,      \* boxes the running Rebalance has still to dispatch
    local,          \* the write stored in each box of this replica
    task,           \* the callers of DispatchCommand: one per command, and the PKI worker
    conn,           \* the outgoing connection of each peer
    retryQueue, walk,   \* the queue, and processRetryQueue holding its mutex
    proxy,          \* the handler of each request and its pendingRequests entry
    remote,         \* the writes each peer has applied
    alive,          \* FALSE after a send on a closed channel
    lost            \* history: the commands given up

netVars == <<netBudget, replicas, doc, rebalance, local, task, conn, retryQueue,
             walk, proxy, remote, alive, lost>>

-----------------------------------------------------------------------------
\* The state of a connection object, and of one that is not in the table.
NoConn == [pc |-> "none", ch |-> <<>>, hand |-> Nothing, outCh |-> <<>>,
           egress |-> "off", cmd |-> Nothing, err |-> FALSE]

Walking == walk.i > 0
MutexFree == ~Walking

NetInit ==
    /\ netBudget \in NetBudgets
    /\ replicas = netBudget.members /\ doc = netBudget.members
    /\ rebalance = {}
    /\ local = [b \in Boxes |-> Nothing]
    /\ task = [t \in Tasks |-> [pc |-> "none", c |-> Nothing]]
    /\ conn = [p \in Peers |-> NoConn]
    /\ retryQueue = <<>> /\ walk = [i |-> 0, c |-> Nothing, by |-> Nothing]
    /\ proxy = [r \in Requests |-> [pc |-> "none", pending |-> FALSE, buffer |-> 0]]
    /\ remote = [p \in Peers |-> {}]
    /\ alive = TRUE
    /\ lost = {}

NetSpend(what) == /\ netBudget[what] > 0
                  /\ netBudget' = [netBudget EXCEPT ![what] = @ - 1]

-----------------------------------------------------------------------------
(* The retry queue. *)

\* cmdIdentity: the box of a write, the envelope hash of a message.
cmdIdentity(c) == IF c \in Writes THEN <<"box", BoxOf[c]>> ELSE <<"envelope", c>>

\* pruneRetryQueueLocked: entries older than retryTTL are dropped.
pruneRetryQueueLocked(rq) == SelectSeq(rq, LAMBDA e : ~e.old)

\* Evicts the peer's oldest entry when the peer has its full share.
Evict(rq, p) ==
    LET mine == {i \in DOMAIN rq : ShardPeer[rq[i].c] = p}
    IN  IF Cardinality(mine) >= maxRetryQueuePerPeer
        THEN RemoveAt(rq, CHOOSE i \in mine : \A j \in mine : i <= j) ELSE rq

\* QueueForRetry: an entry with the same identity is overwritten in place.
QueueForRetry(rq, c) ==
    LET kept == pruneRetryQueueLocked(rq)
        same == {i \in DOMAIN kept : cmdIdentity(kept[i].c) = cmdIdentity(c)}
    IN  IF same # {} THEN [kept EXCEPT ![CHOOSE i \in same : TRUE].c = c]
        ELSE Append(Evict(kept, ShardPeer[c]), [c |-> c, old |-> FALSE])

Queued(rq) == {rq[i].c : i \in DOMAIN rq}

\* One caller's QueueForRetry: it waits for the mutex; what it pushes out is lost.
Requeue(c) ==
    /\ MutexFree
    /\ retryQueue' = QueueForRetry(retryQueue, c)
    /\ lost' = lost \cup (Queued(retryQueue) \ Queued(retryQueue'))

RetryAges ==
    /\ NetSpend("faults") /\ MutexFree /\ retryQueue # <<>> /\ ~retryQueue[1].old
    /\ retryQueue' = [retryQueue EXCEPT ![1].old = TRUE]
    /\ UNCHANGED <<replicas, doc, rebalance, local, task, conn, walk, proxy, remote, lost>>

\* processRetryQueue takes the mutex and walks from the back.  The connector's worker
\* does so after each sweep; so does a goroutine of each new connection.
StartWalk(by) ==
    /\ MutexFree /\ retryQueue # <<>>
    /\ retryQueue' = pruneRetryQueueLocked(retryQueue)
    /\ walk' = IF retryQueue' = <<>> THEN walk ELSE [i |-> Len(retryQueue'), c |-> Nothing, by |-> by]
    /\ lost' = lost \cup (Queued(retryQueue) \ Queued(retryQueue'))
    /\ UNCHANGED <<netBudget, replicas, doc, rebalance, local, task, conn, proxy, remote>>

\* The entry's connection is looked up; without one the entry stays.
WalkLooksUp ==
    /\ Walking /\ walk.c = Nothing
    /\ LET c == retryQueue[walk.i].c
       IN  walk' = IF conn[ShardPeer[c]].pc # "none" THEN [walk EXCEPT !.c = c]
                   ELSE IF walk.i = 1 THEN [i |-> 0, c |-> Nothing, by |-> Nothing]
                   ELSE [walk EXCEPT !.i = @ - 1]
    /\ UNCHANGED <<netBudget, replicas, doc, rebalance, local, task, conn, retryQueue, proxy, remote, lost>>

HasRoomFor(p) == conn[p].pc # "none" /\ Len(conn[p].ch) < OutgoingQueueSize
Push(p, c) == conn' = [conn EXCEPT ![p].ch = Append(@, c)]

\* dispatchCommand, then the entry is removed.
WalkDispatches ==
    /\ Walking /\ walk.c # Nothing /\ HasRoomFor(ShardPeer[walk.c])
    /\ Push(ShardPeer[walk.c], walk.c)
    /\ retryQueue' = RemoveAt(retryQueue, walk.i)
    /\ walk' = IF walk.i = 1 THEN [i |-> 0, c |-> Nothing, by |-> Nothing]
               ELSE [walk EXCEPT !.i = @ - 1, !.c = Nothing]
    /\ UNCHANGED <<netBudget, replicas, doc, rebalance, local, task, proxy, remote, lost>>

-----------------------------------------------------------------------------
(* Commands of this replica: DispatchReplication, sendProxyRequestSync, Rebalance. *)

Idle == [pc |-> "none", c |-> Nothing]
Replicating == {w \in Writes : task[w].pc \in {"look", "send"}}

\* handleReplicaMessage with a write for a box of this shard: stored, then replicated.
HandleWrite(w) ==
    /\ w \in netBudget.commands /\ task[w] = Idle
    /\ local[BoxOf[w]] = Nothing \/ w \in Tombstones
    /\ netBudget' = [netBudget EXCEPT !.commands = @ \ {w}]
    /\ local' = [local EXCEPT ![BoxOf[w]] = w]
    /\ task' = [task EXCEPT ![w] = [pc |-> "slot", c |-> w]]
    /\ UNCHANGED <<replicas, doc, rebalance, conn, retryQueue, walk, proxy, remote, lost>>

\* The goroutine gets a slot.  GetShards omits a replica that the document omits.
doReplication(w) ==
    /\ w \in Writes /\ task[w].pc = "slot"
    /\ Cardinality(Replicating) < MaxConcurrentReplications
    /\ task' = [task EXCEPT ![w] = IF ShardPeer[w] \in doc THEN [@ EXCEPT !.pc = "look"] ELSE Idle]
    /\ lost' = IF ShardPeer[w] \in doc THEN lost ELSE lost \cup {w}
    /\ UNCHANGED <<netBudget, replicas, doc, rebalance, local, conn, retryQueue, walk, proxy, remote>>

\* DispatchCommand reads the connection table, and then sends or queues.
LookUpConn(t) ==
    /\ task[t].pc = "look" /\ conn[ShardPeer[task[t].c]].pc # "none"
    /\ task' = [task EXCEPT ![t].pc = "send"]
    /\ UNCHANGED <<netBudget, replicas, doc, rebalance, local, conn, retryQueue, walk, proxy, remote, lost>>

NoConnection(t) ==
    /\ task[t].pc = "look" /\ conn[ShardPeer[task[t].c]].pc = "none"
    /\ Requeue(task[t].c)
    /\ task' = [task EXCEPT ![t] = Idle]
    /\ UNCHANGED <<netBudget, replicas, doc, rebalance, local, conn, walk, proxy, remote>>

dispatchCommand(t) ==
    /\ task[t].pc = "send" /\ HasRoomFor(ShardPeer[task[t].c])
    /\ Push(ShardPeer[task[t].c], task[t].c)
    /\ task' = [task EXCEPT ![t] = Idle]
    /\ UNCHANGED <<netBudget, replicas, doc, rebalance, local, retryQueue, walk, proxy, remote, lost>>

\* updateReplicas: the member table is replaced and Rebalance starts, while
\* LastCachedPKIDocument is still the document before this one.
updateReplicas(p) ==
    /\ NetSpend("changes") /\ replicas = doc
    /\ replicas' = IF p \in replicas THEN replicas \ {p} ELSE replicas \cup {p}
    /\ rebalance' = {b \in Boxes : local[b] # Nothing /\ ShardPeer[local[b]] \in doc}
    /\ UNCHANGED <<doc, local, task, conn, retryQueue, walk, proxy, remote, lost>>

\* Rebalance hands one stored box after the other to DispatchCommand.
Rebalance(b) ==
    /\ b \in rebalance /\ task[Rebalancer] = Idle
    /\ rebalance' = rebalance \ {b}
    /\ task' = [task EXCEPT ![Rebalancer] = [pc |-> "look", c |-> local[b]]]
    /\ UNCHANGED <<netBudget, replicas, doc, local, conn, retryQueue, walk, proxy, remote, lost>>

\* Rebalance has returned: StoreDocument.
StoreDocument ==
    /\ replicas # doc /\ rebalance = {} /\ task[Rebalancer] = Idle
    /\ doc' = replicas
    /\ UNCHANGED <<netBudget, replicas, rebalance, local, task, conn, retryQueue, walk, proxy, remote, lost>>

-----------------------------------------------------------------------------
(* Proxied requests. *)

Proxying == {r \in Requests : proxy[r].pc \in {"send", "wait"}}

\* handleReplicaMessage for a box of another shard takes a slot of proxySema and
\* registers the request; without the target in the document it fails at once.
Proxied(r) ==
    /\ r \in netBudget.commands /\ proxy[r].pc = "none"
    /\ Cardinality(Proxying) < ProxyWorkerCount
    /\ netBudget' = [netBudget EXCEPT !.commands = @ \ {r}]
    /\ IF ShardPeer[r] \in doc
       THEN /\ proxy' = [proxy EXCEPT ![r] = [pc |-> "send", pending |-> TRUE, buffer |-> 0]]
            /\ task' = [task EXCEPT ![r] = [pc |-> "look", c |-> r]]
       ELSE /\ proxy' = [proxy EXCEPT ![r].pc = "failed"]
            /\ UNCHANGED task
    /\ UNCHANGED <<replicas, doc, rebalance, local, conn, retryQueue, walk, remote, lost>>

proxyReadRequest(r) == r \notin WriteRequests /\ Proxied(r)
proxyWriteRequest(r) == r \in WriteRequests /\ Proxied(r)

\* DispatchCommand has returned: the handler waits for the reply.
WaitForReply(r) ==
    /\ proxy[r].pc = "send" /\ task[r] = Idle
    /\ proxy' = [proxy EXCEPT ![r].pc = "wait"]
    /\ UNCHANGED <<netBudget, replicas, doc, rebalance, local, task, conn, retryQueue, walk, remote, lost>>

Bug_HandleReply(r) == IF proxy[r].pending THEN [proxy EXCEPT ![r].buffer = @ + 1] ELSE proxy

\* ProxyRequestManager.HandleReply: the reply goes into the channel of the request,
\* which is deleted; a reply to a request that is not pending is dropped.
HandleProxyReply(r) ==
    IF proxy[r].pending
    THEN [proxy EXCEPT ![r].pending = FALSE, ![r].buffer = @ + 1] ELSE proxy

ReceiveReply(r) ==
    /\ proxy[r].pc = "wait" /\ proxy[r].buffer > 0
    /\ proxy' = [proxy EXCEPT ![r].pc = "answered", ![r].buffer = @ - 1]
    /\ UNCHANGED <<netBudget, replicas, doc, rebalance, local, task, conn, retryQueue, walk, remote, lost>>

\* The handler's timeout, or the closed channel of a request that was cleaned up.
ProxyTimeout(r) ==
    /\ proxy[r].pc = "wait"
    /\ \/ NetSpend("faults")
       \/ ~proxy[r].pending /\ proxy[r].buffer = 0 /\ UNCHANGED netBudget
    /\ proxy' = [proxy EXCEPT ![r].pc = "failed"]
    /\ UNCHANGED <<replicas, doc, rebalance, local, task, conn, retryQueue, walk, remote, lost>>

CleanupExpiredRequests(r) ==
    /\ proxy[r].pending /\ NetSpend("faults")
    /\ proxy' = [proxy EXCEPT ![r].pending = FALSE]
    /\ UNCHANGED <<replicas, doc, rebalance, local, task, conn, retryQueue, walk, remote, lost>>

-----------------------------------------------------------------------------
(* Outgoing connections. *)

\* spawnNewConns in the connector's worker, unless that is busy with the queue.
spawnNewConns ==
    /\ \E p \in replicas : conn[p].pc = "none"
    /\ ~(Walking /\ walk.by = "worker")
    /\ conn' = [p \in Peers |-> IF p \in replicas /\ conn[p].pc = "none"
                                THEN [NoConn EXCEPT !.pc = "dial"] ELSE conn[p]]
    /\ UNCHANGED <<netBudget, replicas, doc, rebalance, local, task, retryQueue, walk, proxy, remote, lost>>

\* worker dials while the PKI lists the peer; a session starts sender and egress.
Connect(p) ==
    /\ conn[p].pc = "dial" /\ p \in replicas
    /\ conn' = [conn EXCEPT ![p].pc = "up", ![p].egress = "idle"]
    /\ UNCHANGED <<netBudget, replicas, doc, rebalance, local, task, retryQueue, walk, proxy, remote, lost>>

validatePKI(p) ==
    /\ conn[p].pc = "dial" /\ p \notin replicas
    /\ conn' = [conn EXCEPT ![p].pc = "drain"]
    /\ UNCHANGED <<netBudget, replicas, doc, rebalance, local, task, retryQueue, walk, proxy, remote, lost>>

\* outgoingSender.worker takes one command from ch on a tick and hands it on.
SenderTakes(p) ==
    /\ conn[p].pc = "up" /\ conn[p].hand = Nothing /\ conn[p].ch # <<>>
    /\ conn' = [conn EXCEPT ![p].hand = Head(conn[p].ch), ![p].ch = Tail(@)]
    /\ UNCHANGED <<netBudget, replicas, doc, rebalance, local, task, retryQueue, walk, proxy, remote, lost>>

Give(p) == [conn[p] EXCEPT !.hand = Nothing, !.outCh = Append(@, conn[p].hand)]
SenderGives(p) ==
    /\ conn[p].pc = "up" /\ conn[p].hand # Nothing /\ Len(conn[p].outCh) < OutgoingQueueSize
    /\ conn' = [conn EXCEPT ![p] = Give(p)]
    /\ UNCHANGED <<netBudget, replicas, doc, rebalance, local, task, retryQueue, walk, proxy, remote, lost>>

\* egressWorker sends the next command; the peer applies it and answers.
EgressSends(p) ==
    /\ conn[p].egress = "idle" /\ conn[p].outCh # <<>>
    /\ conn' = [conn EXCEPT ![p].egress = "sent", ![p].cmd = Head(conn[p].outCh), ![p].outCh = Tail(@)]
    /\ UNCHANGED <<netBudget, replicas, doc, rebalance, local, task, retryQueue, walk, proxy, remote, lost>>

PeerApplies(p) ==
    /\ conn[p].egress = "sent"
    /\ conn' = [conn EXCEPT ![p].egress = "reply"]
    /\ remote' = [remote EXCEPT ![p] = @ \cup {conn[p].cmd}]
    /\ UNCHANGED <<netBudget, replicas, doc, rebalance, local, task, retryQueue, walk, proxy, lost>>

\* What the egress goroutine does next: it ends when the connection is closing and
\* its channel is empty.
EgressNext(p) == [conn[p] EXCEPT !.egress = "idle", !.cmd = Nothing]

\* sendAndRecv with a good reply; a request's reply goes to its handler.
ReplyOK(p) ==
    /\ conn[p].egress = "reply"
    /\ conn' = [conn EXCEPT ![p] = EgressNext(p)]
    /\ proxy' = IF conn[p].cmd \in Requests THEN HandleProxyReply(conn[p].cmd) ELSE proxy
    /\ UNCHANGED <<netBudget, replicas, doc, rebalance, local, task, retryQueue, walk, remote, lost>>

\* classifyReplicationReply: a transient error is queued for a retry, others are final.
ReplyRetry(p) ==
    /\ conn[p].egress = "sent" /\ conn[p].cmd \in Writes /\ NetSpend("faults")
    /\ conn' = [conn EXCEPT ![p].egress = "retry"]
    /\ UNCHANGED <<replicas, doc, rebalance, local, task, retryQueue, walk, proxy, remote, lost>>

ReplyDrop(p) ==
    /\ conn[p].egress = "sent" /\ conn[p].cmd \in Writes /\ NetSpend("faults")
    /\ conn' = [conn EXCEPT ![p] = EgressNext(p)]
    /\ lost' = lost \cup {conn[p].cmd}
    /\ UNCHANGED <<replicas, doc, rebalance, local, task, retryQueue, walk, proxy, remote>>

RetryQueued(p) ==
    /\ conn[p].egress = "retry"
    /\ Requeue(conn[p].cmd)
    /\ conn' = [conn EXCEPT ![p] = EgressNext(p)]
    /\ UNCHANGED <<netBudget, replicas, doc, rebalance, local, task, walk, proxy, remote>>

\* SendCommand or RecvCommand fails: the command is queued, the goroutine ends and
\* leaves a token in egressErrCh.  What is left in outCh has no reader any more.
SessionFails(p) ==
    /\ conn[p].egress \in {"sent", "reply"}
    /\ IF conn[p].err THEN UNCHANGED netBudget ELSE NetSpend("faults")
    /\ conn' = [conn EXCEPT ![p].egress = "failed"]
    /\ UNCHANGED <<replicas, doc, rebalance, local, task, retryQueue, walk, proxy, remote, lost>>

\* It ends, unless it is in the loop that drains outCh for a closing session.
EgressFailed(p) ==
    \E e \in IF conn[p].pc = "halt" THEN {"off", "idle"} ELSE {"off"} :
        conn' = [conn EXCEPT ![p] = [@ EXCEPT !.egress = e, !.cmd = Nothing, !.err = TRUE]]

Bug_FailureQueued(p) ==
    /\ conn[p].egress = "failed" /\ MutexFree
    /\ EgressFailed(p)
    /\ UNCHANGED <<netBudget, replicas, doc, rebalance, local, task, retryQueue, walk, proxy, remote, lost>>

FailureQueued(p) ==
    /\ conn[p].egress = "failed"
    /\ Requeue(conn[p].cmd)
    /\ EgressFailed(p)
    /\ UNCHANGED <<netBudget, replicas, doc, rebalance, local, task, walk, proxy, remote>>

\* A Disconnect or an unknown reply: the command is not queued.
Disconnected(p) ==
    /\ conn[p].egress = "sent" /\ NetSpend("faults")
    /\ EgressFailed(p)
    /\ lost' = lost \cup {conn[p].cmd}
    /\ UNCHANGED <<replicas, doc, rebalance, local, task, retryQueue, walk, proxy, remote>>

\* onConnEstablished takes the token or fails to reauthenticate: it halts the sender,
\* whose command reaches outCh or nothing, and closes egressDoneCh.
HaltSession(p) ==
    /\ conn[p].pc = "up"
    /\ \E byToken \in {b \in BOOLEAN : IF b THEN conn[p].err ELSE p \notin replicas} :
       LET halted(c) == [c EXCEPT !.pc = "halt", !.err = @ /\ ~byToken, !.hand = Nothing]
       IN  \/ /\ conn[p].hand # Nothing /\ Len(conn[p].outCh) < OutgoingQueueSize
              /\ conn' = [conn EXCEPT ![p] = halted(Give(p))]
              /\ UNCHANGED lost
           \/ /\ conn' = [conn EXCEPT ![p] = halted(@)]
              /\ lost' = lost \cup ({conn[p].hand} \ {Nothing})
    /\ UNCHANGED <<netBudget, replicas, doc, rebalance, local, task, retryQueue, walk, proxy, remote>>

\* wg.Wait: the egress goroutine has drained outCh, or had ended before that.  A token
\* it left in the meantime awaits the next session.
SessionOver(p) ==
    /\ conn[p].pc = "halt"
    /\ conn[p].egress = "off" \/ (conn[p].egress = "idle" /\ conn[p].outCh = <<>>)
    /\ conn' = [conn EXCEPT ![p].pc = "dial", ![p].egress = "off", ![p].outCh = <<>>]
    /\ lost' = lost \cup ToSet(conn[p].outCh)
    /\ UNCHANGED <<netBudget, replicas, doc, rebalance, local, task, retryQueue, walk, proxy, remote>>

\* The deferred function of worker moves what is left in ch to the retry queue.
DrainTakes(p) ==
    /\ conn[p].pc = "drain" /\ conn[p].hand = Nothing /\ conn[p].ch # <<>>
    /\ conn' = [conn EXCEPT ![p].hand = Head(conn[p].ch), ![p].ch = Tail(@)]
    /\ UNCHANGED <<netBudget, replicas, doc, rebalance, local, task, retryQueue, walk, proxy, remote, lost>>

DrainQueues(p) ==
    /\ conn[p].pc = "drain" /\ conn[p].hand # Nothing
    /\ Requeue(conn[p].hand)
    /\ conn' = [conn EXCEPT ![p].hand = Nothing]
    /\ UNCHANGED <<netBudget, replicas, doc, rebalance, local, task, walk, proxy, remote>>

DrainEnds(p) ==
    /\ conn[p].pc = "drain" /\ conn[p].hand = Nothing /\ conn[p].ch = <<>>
    /\ conn' = [conn EXCEPT ![p].pc = "leave"]
    /\ UNCHANGED <<netBudget, replicas, doc, rebalance, local, task, retryQueue, walk, proxy, remote, lost>>

\* OnClosedConn and close(ch).  A caller that has looked the connection up and not yet
\* sent its command panics.
OnClosedConn(p) ==
    /\ conn[p].pc = "leave"
    /\ conn' = [conn EXCEPT ![p] = NoConn]
    /\ lost' = lost \cup ToSet(conn[p].ch)
    /\ alive' = ~ \/ \E t \in Tasks : task[t].pc = "send" /\ ShardPeer[task[t].c] = p
                  \/ walk.c # Nothing /\ ShardPeer[walk.c] = p
    /\ UNCHANGED <<netBudget, replicas, doc, rebalance, local, task, retryQueue, walk, proxy, remote>>

-----------------------------------------------------------------------------
NetQueueNext == RetryAges \/ (\E by \in {"worker", "goroutine"} : StartWalk(by)) \/ WalkLooksUp \/ WalkDispatches

NetDispatchNext ==
    \/ \E w \in Writes : HandleWrite(w) \/ doReplication(w)
    \/ \E t \in Tasks : LookUpConn(t) \/ NoConnection(t) \/ dispatchCommand(t)
    \/ \E p \in Peers : updateReplicas(p)
    \/ \E b \in Boxes : Rebalance(b)
    \/ StoreDocument

NetProxyNext ==
    \E r \in Requests : proxyReadRequest(r) \/ proxyWriteRequest(r) \/ WaitForReply(r) \/ ReceiveReply(r)
                        \/ ProxyTimeout(r) \/ CleanupExpiredRequests(r)

NetConnNext ==
    \/ spawnNewConns
    \/ \E p \in Peers :
        \/ Connect(p) \/ validatePKI(p) \/ SenderTakes(p) \/ SenderGives(p)
        \/ EgressSends(p) \/ PeerApplies(p) \/ ReplyOK(p) \/ ReplyRetry(p) \/ ReplyDrop(p)
        \/ RetryQueued(p) \/ SessionFails(p) \/ FailureQueued(p) \/ Disconnected(p)
        \/ HaltSession(p) \/ SessionOver(p) \/ DrainTakes(p) \/ DrainQueues(p) \/ DrainEnds(p)

NetNext ==
    /\ alive
    /\ \/ (NetQueueNext \/ NetDispatchNext \/ NetProxyNext \/ NetConnNext) /\ UNCHANGED alive
       \/ \E p \in Peers : OnClosedConn(p)

NetSpec == NetInit /\ [][NetNext]_netVars

-----------------------------------------------------------------------------
\* The types of the variables.  The channels of a connection hold no more than their
\* capacity, and no more goroutines than there are slots replicate or proxy at a time.
NetTypeOK ==
    /\ replicas \subseteq Peers /\ doc \subseteq Peers /\ rebalance \subseteq Boxes
    /\ local \in [Boxes -> Writes \cup {Nothing}]
    /\ task \in [Tasks -> [pc : {"none", "slot", "look", "send"}, c : Commands \cup {Nothing}]]
    /\ \A p \in Peers :
        /\ conn[p].pc \in {"none", "dial", "up", "halt", "drain", "leave"}
        /\ conn[p].ch \in Seq(Commands) /\ Len(conn[p].ch) <= OutgoingQueueSize
        /\ conn[p].outCh \in Seq(Commands) /\ Len(conn[p].outCh) <= OutgoingQueueSize
        /\ conn[p].egress \in {"off", "idle", "sent", "reply", "retry", "failed"}
        /\ {conn[p].hand, conn[p].cmd} \subseteq Commands \cup {Nothing}
        /\ conn[p].err \in BOOLEAN
    /\ walk.i \in 0..Len(retryQueue) /\ walk.c \in Commands \cup {Nothing}
    /\ proxy \in [Requests -> [pc : {"none", "send", "wait", "answered", "failed"},
                               pending : BOOLEAN, buffer : Nat]]
    /\ remote \in [Peers -> SUBSET Commands] /\ lost \subseteq Commands /\ alive \in BOOLEAN
    /\ Cardinality(Replicating) <= MaxConcurrentReplications
    /\ Cardinality(Proxying) <= ProxyWorkerCount

\* QueueForRetry and processRetryQueue: whatever goroutines requeue, re-dispatch or
\* evict, no peer has more than its share of entries and none has two of one identity.
RetryQueueExact ==
    /\ retryQueue \in Seq([c : Commands, old : BOOLEAN])
    /\ \A p \in Peers : Cardinality({i \in DOMAIN retryQueue : ShardPeer[retryQueue[i].c] = p})
                            <= maxRetryQueuePerPeer
    /\ \A i, j \in DOMAIN retryQueue :
        cmdIdentity(retryQueue[i].c) = cmdIdentity(retryQueue[j].c) => i = j

\* A command that some goroutine, channel or queue of this replica still holds.
Underway(c) ==
    \/ \E t \in Tasks : task[t].c = c
    \/ \E p \in Peers : \/ c \in ToSet(conn[p].ch) \cup ToSet(conn[p].outCh)
                        \/ c \in {conn[p].hand, conn[p].cmd}
    \/ c \in Queued(retryQueue)

\* A write this replica has stored and acknowledged reaches the other replica of its
\* shard, is on the way there, or was given up at a place where the code gives up:
\* a document without the target, an expired, evicted or overwritten retry, the sender's
\* hand or outCh of a session that failed, a channel that was closed, a final refusal.
NotForgotten ==
    alive => \A b \in Boxes :
        LET w == local[b] IN w # Nothing => w \in remote[ShardPeer[w]] \cup lost \/ Underway(w)

\* A proxied request is answered only with a reply of its target.  Of the replies to a
\* request that was sent more than once the handler gets the first, and HandleReply
\* finds room in the channel, so that it never blocks with the manager locked.
ProxyAnswerTrue ==
    \A r \in Requests :
        /\ proxy[r].pc = "answered" \/ proxy[r].buffer > 0 => r \in remote[ShardPeer[r]]
        /\ proxy[r].buffer <= 1
        /\ proxy[r].pending => proxy[r].buffer = 0

\* An acknowledged write has reached its peer, is under way or was given up where the code gives up,
\* and the retry queue has one entry per box and its share per peer, through every failure of a
\* session (QueueForRetry, processRetryQueue, the egress goroutines).
ReplicationSound == NetTypeOK /\ RetryQueueExact /\ NotForgotten
=============================================================================
