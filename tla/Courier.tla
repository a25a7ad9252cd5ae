------------------------------- MODULE Courier -------------------------------
(***************************************************************************)
(* The pigeonhole courier: courier/server/plugin.go and its connections to *)
(* the storage replicas (connector.go, outgoing_conn.go, sender.go).       *)
(*                                                                         *)
(* The plugin socket hands client queries to OnCommand one at a time.  An  *)
(* envelope is cached and sent to its two intermediate replicas by a       *)
(* dispatch goroutine; a Copy command is a goroutine that reads a stream   *)
(* of boxes, sends the envelopes it finds there and leaves a second        *)
(* goroutine to tombstone the boxes.  Each replica has one connection,     *)
(* whose event loop sends one command, waits for its reply and hands that  *)
(* to HandleReply before it does anything else.                            *)
(*                                                                         *)
(* Ciphertexts, keys, decoys and send rates are abstracted.  A query of a  *)
(* goroutine with a fresh key pair (a box read, a tombstone) is named by   *)
(* the goroutine while it is current and is Stale afterwards.              *)
(***************************************************************************)
EXTENDS Integers, Sequences, FiniteSets, SequencesExt

CONSTANTS
    Envelopes,              \* the envelopes that clients send, by EnvelopeHash
    CopyKeys,               \* the write capabilities of Copy commands
    Stream,                 \* the envelopes completed by each box of a copy stream
    Replicas,               \* ReplicaIDs; replies made in a hurry carry 0
    Intermediates,          \* IntermediateReplicas of each envelope
    Shards,                 \* the shard replicas of the streams' boxes
    EpochOf,                \* the replica replicaEpoch of each envelope
    None, Stale,
    QueueSize,              \* cfg.MaxQueueSize
    MaxDispatch,            \* maxConcurrentReplicaDispatch
    MaxReadAttempts, MaxWriteAttempts,
    MaxBoxes, MaxEnvelopes, \* maxCopyStreamBoxes, maxCopyStreamEnvelopes
    MaxWorkers,             \* bound: Copy goroutines ever started
    CourierBudgets                 \* bounds: queries, polls, failures or early timeouts, clock events

CopyEnvelopes == UNION {ToSet(FlattenSeq(Stream[k])) : k \in CopyKeys}
Procs == {"copy", "tomb"} \X (1..MaxWorkers)
Hashes == Envelopes \cup CopyEnvelopes \cup Procs \cup {Stale}

ASSUME CourierAssumption ==
    /\ Stream \in [CopyKeys -> Seq(Seq(CopyEnvelopes)) \ {<<>>}]
    /\ Replicas \subseteq Nat
    /\ Intermediates \in [Envelopes \cup CopyEnvelopes -> [0..1 -> Replicas]]
    /\ \A h \in DOMAIN Intermediates : Intermediates[h][0] # Intermediates[h][1]
    /\ Shards \in [0..1 -> Replicas]
    /\ EpochOf \in [Envelopes -> Nat]
    /\ Envelopes \cap CopyEnvelopes = {}
    /\ {QueueSize, MaxDispatch, MaxReadAttempts, MaxWriteAttempts, MaxBoxes,
        MaxEnvelopes, MaxWorkers} \subseteq Nat \ {0}

VARIABLES
    replicaEpoch,          \* ReplicaNow
    dedupCache,     \* CourierBookKeeping of each envelope: its replies, and whether its TTL is over
    cmd,            \* the query in OnCommand, and its reply
    dispatch,       \* scheduleReplicaDispatch's goroutine for each envelope (inFlight: not "idle")
    queue,          \* the sender's queue of each replica's connection; None: no connection
    wire,           \* the command whose reply a connection waits for or hands over
    copyDedupCache,
    proc,           \* the Copy goroutines
    copyCache,      \* which goroutine's channel gets the replies of a hash
    ch,             \* those channels
    stored,         \* copied envelopes that a replica has stored
    missing,        \* envelopes with a query or reply that was lost, or pruned during a dispatch
    courierBudget          \* what is left of each bound

cacheVars == <<replicaEpoch, dedupCache, missing>>
copyVars == <<copyDedupCache, proc, copyCache, ch>>
wireVars == <<queue, wire, stored>>
courierVars == <<cacheVars, cmd, dispatch, wireVars, copyVars, courierBudget>>

Spend(what) ==
    /\ courierBudget[what] > 0
    /\ courierBudget' = [courierBudget EXCEPT ![what] = @ - 1]

NoEntry == [cached |-> FALSE, expired |-> FALSE, replies |-> [i \in 0..1 |-> None]]
NoCommand == [pc |-> "idle", env |-> None, idx |-> 0, reply |-> None]
IdleWire == [st |-> "idle", hash |-> None, reply |-> None, to |-> None]
NoCopy == [st |-> "none", result |-> None, expired |-> FALSE]
NoProc == [pc |-> "idle", op |-> None, key |-> None, box |-> 0, todo |-> <<>>, done |-> 0,
           shard |-> 0, attempt |-> 0, code |-> "ok", got |-> <<>>, result |-> None]

CourierInit ==
    /\ replicaEpoch = 1
    /\ dedupCache = [e \in Envelopes |-> NoEntry]
    /\ cmd = NoCommand
    /\ dispatch = [e \in Envelopes |-> "idle"]
    /\ queue = [r \in Replicas |-> <<>>]
    /\ wire = [r \in Replicas |-> IdleWire]
    /\ copyDedupCache = [k \in CopyKeys |-> NoCopy]
    /\ proc = [p \in Procs |-> NoProc]
    /\ copyCache = [h \in CopyEnvelopes \cup Procs |-> None]
    /\ ch = [p \in Procs |-> <<>>]
    /\ stored = {}
    /\ missing = {}
    /\ courierBudget \in CourierBudgets
-----------------------------------------------------------------------------
(* Client envelopes: OnCommand, up to the goroutine that writes the reply. *)

Answer(type, idx, code, from) == [type |-> type, idx |-> idx, code |-> code, from |-> from]

isEnvelopeEpochAcceptable(e) ==
    IF EpochOf[e] > replicaEpoch THEN EpochOf[e] - replicaEpoch <= 1 ELSE replicaEpoch - EpochOf[e] <= 1

\* cacheHandleCourierEnvelope up to the unlock of dedupCacheLock.
LookUpEnvelope(e, i) ==
    /\ cmd.pc = "idle"
    /\ Spend("queries")
    /\ IF ~isEnvelopeEpochAcceptable(e)
       THEN /\ cmd' = [NoCommand EXCEPT !.pc = "done", !.env = e,
                                   !.reply = Answer("ACK", i, "InvalidEpoch", None)]
            /\ UNCHANGED <<dedupCache, missing>>
       ELSE IF dedupCache[e].cached
       THEN /\ cmd' = [NoCommand EXCEPT !.pc = "hit", !.env = e, !.idx = i]
            /\ UNCHANGED <<dedupCache, missing>>
       ELSE /\ cmd' = [NoCommand EXCEPT !.pc = "miss", !.env = e, !.idx = i]
            /\ dedupCache' = [d \in Envelopes |->
                                IF d = e THEN [NoEntry EXCEPT !.cached = TRUE]
                                ELSE IF dedupCache[d].expired THEN NoEntry ELSE dedupCache[d]]
            /\ missing' = missing \cup {d \in Envelopes : dedupCache[d].expired /\ dispatch[d] # "idle"}
    /\ UNCHANGED <<replicaEpoch, dispatch, wireVars, copyVars>>

scheduleReplicaDispatch(e) ==
    dispatch' = IF dispatch[e] = "idle" THEN [dispatch EXCEPT ![e] = "waiting"] ELSE dispatch

DispatchNew ==
    /\ cmd.pc = "miss"
    /\ scheduleReplicaDispatch(cmd.env)
    /\ cmd' = [cmd EXCEPT !.pc = "done", !.reply = Answer("ACK", cmd.idx, "Success", None)]
    /\ UNCHANGED <<cacheVars, wireVars, copyVars, courierBudget>>

Arrived(e) == {dedupCache[e].replies[i] : i \in 0..1} \ {None}

cacheEntryHasOnlyErrors(e) == Arrived(e) # {} /\ \A reply \in Arrived(e) : reply.code # "ok"

\* On a cache hit: the entry is read without its lock.
DispatchAgain ==
    /\ cmd.pc = "hit"
    /\ IF cacheEntryHasOnlyErrors(cmd.env) THEN scheduleReplicaDispatch(cmd.env)
                                           ELSE UNCHANGED dispatch
    /\ cmd' = [cmd EXCEPT !.pc = "old"]
    /\ UNCHANGED <<cacheVars, wireVars, copyVars, courierBudget>>

HasPayload(reply) == reply # None /\ reply.full

\* The index whose reply is returned: the other one if that helps.
PickIndex(e, i) ==
    LET r == dedupCache[e].replies
    IN  IF r[i] # None
        THEN IF ~HasPayload(r[i]) /\ HasPayload(r[1 - i]) THEN 1 - i ELSE i
        ELSE IF r[1 - i] # None THEN 1 - i ELSE i

OldReply(e, i) ==
    LET j == PickIndex(e, i)
        reply == dedupCache[e].replies[j]
    IN  IF HasPayload(reply) THEN Answer("Payload", j, reply.code, reply.origin)
                             ELSE Answer("ACK", j, "Success", None)

handleOldMessage ==
    /\ cmd.pc = "old"
    /\ cmd' = [cmd EXCEPT !.pc = "done",
                          !.reply = IF cmd.idx > 1 THEN Answer("ACK", 0, "InvalidEnvelope", None)
                                    ELSE OldReply(cmd.env, cmd.idx)]
    /\ UNCHANGED <<cacheVars, dispatch, wireVars, copyVars, courierBudget>>

WriteResponse ==
    /\ cmd.pc = "done"
    /\ cmd' = NoCommand
    /\ UNCHANGED <<cacheVars, dispatch, wireVars, copyVars, courierBudget>>

NewReplicaEpoch ==
    /\ Spend("clock")
    /\ replicaEpoch' = replicaEpoch + 1
    /\ UNCHANGED <<dedupCache, missing, cmd, dispatch, wireVars, copyVars>>

\* DedupCacheTTL has passed since the entry was made.
EntryExpires(e) ==
    /\ dedupCache[e].cached /\ ~dedupCache[e].expired
    /\ Spend("clock")
    /\ dedupCache' = [dedupCache EXCEPT ![e].expired = TRUE]
    /\ UNCHANGED <<replicaEpoch, missing, cmd, dispatch, wireVars, copyVars>>
-----------------------------------------------------------------------------
(* Sending: SendMessage and the dispatch goroutines.                       *)

Connected(r) == queue[r] # None

HasRoom(r) == Connected(r) /\ Len(queue[r]) < QueueSize
Enqueue(r, h) == queue' = [queue EXCEPT ![r] = Append(@, h)]

Sending == {"first", "second"}
Target(h, pc) == Intermediates[h][IF pc = "first" THEN 0 ELSE 1]

\* A dispatch that finds every slot taken gives up.
Bug_DropWhenBusy(e) ==
    /\ dispatch[e] = "waiting"
    /\ dispatch' = [dispatch EXCEPT ![e] =
         IF \E d \in Envelopes : dispatch[d] \in Sending \cup {"stuck"} THEN "idle" ELSE "first"]
    /\ UNCHANGED <<cacheVars, cmd, wireVars, copyVars, courierBudget>>

AcquireSlot(e) ==
    /\ dispatch[e] = "waiting"
    /\ Cardinality({d \in Envelopes : dispatch[d] \in Sending \cup {"stuck"}}) < MaxDispatch
    /\ dispatch' = [dispatch EXCEPT ![e] = "first"]
    /\ UNCHANGED <<cacheVars, cmd, wireVars, copyVars, courierBudget>>

\* propagateQueryToReplicas, one SendMessage at a time; the first error ends it.
Propagate(e) ==
    /\ dispatch[e] \in Sending
    /\ LET r == Target(e, dispatch[e])
       IN  \/ /\ HasRoom(r)
              /\ Enqueue(r, e)
              /\ dispatch' = [dispatch EXCEPT ![e] = IF @ = "first" THEN "second" ELSE "leaving"]
              /\ UNCHANGED missing
           \/ /\ ~Connected(r)
              /\ dispatch' = [dispatch EXCEPT ![e] = "leaving"]
              /\ missing' = missing \cup {e}
              /\ UNCHANGED queue
    /\ UNCHANGED <<replicaEpoch, dedupCache, cmd, wire, stored, copyVars, courierBudget>>

\* The slot is free again; the deferred function removes the inFlight entry.
EndDispatch(e) ==
    /\ dispatch[e] = "leaving"
    /\ dispatch' = [dispatch EXCEPT ![e] = "idle"]
    /\ UNCHANGED <<cacheVars, cmd, wireVars, copyVars, courierBudget>>
-----------------------------------------------------------------------------
(* The connections, and the replicas behind them (external).               *)

Replies(r, h, code) ==
    IF code = "internal" THEN [rep |-> 0, code |-> code, full |-> FALSE, origin |-> r]
                         ELSE [rep |-> r, code |-> code, full |-> TRUE, origin |-> r]

\* What a replica answers when nothing is wrong.  A courier tombstone is an
\* ordinary write of a padded empty message, and its box is already written.
Normal(h) == IF h \in Procs /\ h[1] = "tomb" THEN "exists" ELSE "ok"

Troubles(h) ==
    {"internal"} \cup (IF h \in Envelopes THEN {"notfound"}
                       ELSE IF h \in CopyEnvelopes \ stored THEN {"exists"}
                       ELSE IF h \in Procs /\ h[1] = "copy" THEN {"notfound", "tombstone"}
                       ELSE {})

\* The sender's next message, once the reply to the one before has arrived.
SendNext(r) ==
    /\ Connected(r) /\ queue[r] # <<>> /\ wire[r].st = "idle"
    /\ wire' = [wire EXCEPT ![r] = [IdleWire EXCEPT !.st = "sent", !.hash = Head(queue[r])]]
    /\ queue' = [queue EXCEPT ![r] = Tail(@)]
    /\ UNCHANGED <<cacheVars, cmd, dispatch, stored, copyVars, courierBudget>>

ReplicaReplies(r) ==
    LET h == wire[r].hash
    IN  /\ wire[r].st = "sent"
        /\ \/ /\ wire' = [wire EXCEPT ![r].st = "replied", ![r].reply = Replies(r, h, Normal(h))]
              /\ stored' = stored \cup ({h} \cap CopyEnvelopes)
              /\ UNCHANGED courierBudget
           \/ /\ Spend("troubles")
              /\ \E code \in Troubles(h) :
                   wire' = [wire EXCEPT ![r].st = "replied", ![r].reply = Replies(r, h, code)]
              /\ UNCHANGED stored
        /\ UNCHANGED <<cacheVars, cmd, dispatch, queue, copyVars>>

Slots(e, reply) == {i \in 0..1 : Intermediates[e][i] = reply.rep}

\* The newest reply wins.
Bug_LastReplyWins(e, i, reply) == [dedupCache EXCEPT ![e].replies[i] = reply]

storeOrReplaceReply(e, i, reply) ==
    IF dedupCache[e].replies[i] = None \/ dedupCache[e].replies[i].code # "ok"
    THEN [dedupCache EXCEPT ![e].replies[i] = reply]
    ELSE dedupCache

CacheReply(h, reply) ==
    IF h \in Envelopes /\ dedupCache[h].cached
    THEN /\ dedupCache' = IF Slots(h, reply) = {} THEN dedupCache
                          ELSE storeOrReplaceReply(h, CHOOSE i \in Slots(h, reply) : TRUE, reply)
         /\ missing' = IF Slots(h, reply) = {} THEN missing \cup {h} ELSE missing
    ELSE /\ missing' = missing \cup ({h} \cap Envelopes)
         /\ UNCHANGED dedupCache

Capacity(p) == IF proc[p].op = "read" THEN 1 ELSE 2

\* HandleReply runs in the event loop: while its send to a full channel
\* blocks, the connection does nothing else.
HandleReply(r) ==
    LET h == wire[r].hash
        p == IF h \in DOMAIN copyCache THEN copyCache[h] ELSE None
    IN  /\ wire[r].st = "replied"
        /\ IF p = None
           THEN /\ CacheReply(h, wire[r].reply)
                /\ wire' = [wire EXCEPT ![r] = IdleWire]
                /\ UNCHANGED ch
           ELSE /\ IF Len(ch[p]) < Capacity(p)
                   THEN /\ ch' = [ch EXCEPT ![p] = Append(@, wire[r].reply.code)]
                        /\ wire' = [wire EXCEPT ![r] = IdleWire]
                   ELSE /\ wire' = [wire EXCEPT ![r].st = "blocked", ![r].to = p]
                        /\ UNCHANGED ch
                /\ UNCHANGED <<dedupCache, missing>>
        /\ UNCHANGED <<replicaEpoch, cmd, dispatch, queue, stored, copyDedupCache, proc, copyCache, courierBudget>>

\* The session ends: the command under way, or its reply, is lost.
ConnectionLost(r) ==
    /\ wire[r].st \in {"sent", "replied"}
    /\ Spend("troubles")
    /\ missing' = missing \cup ({wire[r].hash} \cap Envelopes)
    /\ wire' = [wire EXCEPT ![r] = IdleWire]
    /\ UNCHANGED <<replicaEpoch, dedupCache, cmd, dispatch, queue, stored, copyVars>>

\* A read goes to one shard of its box, a tombstone to both.
TargetOf(p) ==
    IF proc[p].op = "write" THEN Target(Head(proc[p].todo), proc[p].pc)
    ELSE IF proc[p].op = "tomb" THEN Shards[IF proc[p].pc = "first" THEN 0 ELSE 1]
    ELSE Shards[proc[p].shard]

BlockedDispatches(r) == {e \in Envelopes : dispatch[e] \in Sending /\ Target(e, dispatch[e]) = r}

\* The worker returns (the replica has left the PKI) and OnClosedConn forgets
\* the connection with its queue.  Nobody halts it: a dispatchMessage that
\* waits for room in the queue waits for ever.
ConnectionGone(r) ==
    /\ Connected(r) /\ wire[r].st \in {"idle", "sent", "replied"}
    /\ Spend("troubles")
    /\ queue' = [queue EXCEPT ![r] = None]
    /\ wire' = [wire EXCEPT ![r] = IdleWire]
    /\ missing' = missing \cup ((ToSet(queue[r]) \cup {wire[r].hash}) \cap Envelopes)
    /\ dispatch' = [e \in Envelopes |->
         IF ~HasRoom(r) /\ e \in BlockedDispatches(r) THEN "stuck" ELSE dispatch[e]]
    /\ proc' = [p \in Procs |->
         IF ~HasRoom(r) /\ proc[p].pc \in Sending /\ TargetOf(p) = r
         THEN [proc[p] EXCEPT !.pc = "stuck"] ELSE proc[p]]
    /\ UNCHANGED <<replicaEpoch, dedupCache, cmd, stored, copyDedupCache, copyCache, ch>>

\* spawnNewConns
Respawn(r) ==
    /\ ~Connected(r)
    /\ queue' = [queue EXCEPT ![r] = <<>>]
    /\ UNCHANGED <<cacheVars, cmd, dispatch, wire, stored, copyVars, courierBudget>>
-----------------------------------------------------------------------------
(* Copy commands.                                                          *)

InProgress == [status |-> "InProgress", code |-> "ok", index |-> 0]
Succeeded == [status |-> "Succeeded", code |-> "ok", index |-> 0]
Failed(code, index) == [status |-> "Failed", code |-> code, index |-> index]

Running(k) == copyDedupCache[k].st = "running"
Finished(k) == copyDedupCache[k].st = "done" /\ ~copyDedupCache[k].expired

Known(k) == Running(k) \/ Finished(k)

\* pruneCopyDedupCacheLocked, and the new entry.
StartCopy(k) ==
    [d \in CopyKeys |-> IF d = k THEN [NoCopy EXCEPT !.st = "running"]
                        ELSE IF copyDedupCache[d].expired THEN NoCopy ELSE copyDedupCache[d]]

CopyReply(result) == [NoCommand EXCEPT !.pc = "done", !.reply = Answer("Copy", 0, result, None)]

handleCopyCommand(k) ==
    /\ cmd.pc = "idle"
    /\ Spend("polls")
    /\ \/ /\ Known(k)
          /\ cmd' = CopyReply(IF Running(k) THEN InProgress ELSE copyDedupCache[k].result)
          /\ UNCHANGED <<copyDedupCache, proc>>
       \/ /\ ~Known(k)
          /\ cmd' = CopyReply(InProgress)
          /\ copyDedupCache' = StartCopy(k)
          /\ \E w \in 1..MaxWorkers :
               /\ proc[<<"copy", w>>].pc = "idle" /\ proc[<<"tomb", w>>].pc = "idle"
               /\ proc' = [proc EXCEPT ![<<"copy", w>>] = [NoProc EXCEPT !.pc = "next", !.key = k]]
    /\ UNCHANGED <<cacheVars, dispatch, wireVars, copyCache, ch>>

CopyExpires(k) ==
    /\ Finished(k)
    /\ Spend("clock")
    /\ copyDedupCache' = [copyDedupCache EXCEPT ![k].expired = TRUE]
    /\ UNCHANGED <<cacheVars, cmd, dispatch, wireVars, proc, copyCache, ch>>

CopyStep(p, rec) == proc' = [proc EXCEPT ![p] = rec]
Fail(g, code) == [g EXCEPT !.pc = "publish", !.result = Failed(code, g.done + 1), !.todo = <<>>]
Begin(g, op) == [g EXCEPT !.pc = "register", !.op = op, !.attempt = 0, !.shard = 0, !.got = <<>>, !.code = "ok"]

\* processCopyCommand's loop head, and its end after the final box.
NextBox(p) ==
    LET g == proc[p]
    IN  /\ p[1] = "copy" /\ g.pc = "next"
        /\ IF g.box = Len(Stream[g.key])
           THEN proc' = [proc EXCEPT ![p] = [g EXCEPT !.pc = "publish", !.result = Succeeded],
                                     ![<<"tomb", p[2]>>] = Begin([NoProc EXCEPT !.key = g.key, !.box = 1], "tomb")]
           ELSE IF g.box >= MaxBoxes \/ g.done >= MaxEnvelopes
           THEN CopyStep(p, Fail(g, "ok"))
           ELSE CopyStep(p, Begin([g EXCEPT !.box = @ + 1], "read"))
        /\ UNCHANGED <<cacheVars, cmd, dispatch, wireVars, copyDedupCache, copyCache, ch, courierBudget>>

\* The box is decrypted and decoded, and the envelopes it completes are sent.
OpenBox(p) ==
    LET g == proc[p]
        opened == [g EXCEPT !.todo = Stream[g.key][g.box]]
    IN  /\ g.pc = "open"
        /\ CopyStep(p, IF opened.todo = <<>> THEN [opened EXCEPT !.pc = "next"]
                                            ELSE Begin(opened, "write"))
        /\ UNCHANGED <<cacheVars, cmd, dispatch, wireVars, copyDedupCache, copyCache, ch, courierBudget>>

\* No document or shard for the next box, or a box that does not decrypt or
\* decode, fails the command; a panic is recovered.
BadBox(p) ==
    /\ p[1] = "copy"
    /\ \/ proc[p].pc = "open"
       \/ proc[p].pc = "next" /\ proc[p].box < Len(Stream[proc[p].key])
    /\ Spend("troubles")
    /\ \/ CopyStep(p, Fail(proc[p], "ok"))
       \/ CopyStep(p, [proc[p] EXCEPT !.pc = "publish", !.result = Failed("ok", 0)])
    /\ UNCHANGED <<cacheVars, cmd, dispatch, wireVars, copyDedupCache, copyCache, ch>>

HashOf(p) == IF proc[p].op = "write" THEN Head(proc[p].todo) ELSE p

Register(p) ==
    /\ proc[p].pc = "register"
    /\ copyCache' = [copyCache EXCEPT ![HashOf(p)] = p]
    /\ CopyStep(p, [proc[p] EXCEPT !.pc = "first"])
    /\ UNCHANGED <<cacheVars, cmd, dispatch, wireVars, copyDedupCache, ch, courierBudget>>

\* SendMessage to the next target.  An error ends the attempt, except that a
\* tombstone goes on.
SendQuery(p) ==
    LET g == proc[p]
        sent == IF g.op = "read" \/ g.pc = "second" THEN "collect" ELSE "second"
    IN  /\ g.pc \in Sending
        /\ \/ /\ HasRoom(TargetOf(p))
              /\ Enqueue(TargetOf(p), HashOf(p))
              /\ CopyStep(p, [g EXCEPT !.pc = sent])
           \/ /\ ~Connected(TargetOf(p))
              /\ CopyStep(p, [g EXCEPT !.pc = IF g.op = "tomb" THEN sent ELSE "close"])
              /\ UNCHANGED queue
        /\ UNCHANGED <<cacheVars, cmd, dispatch, wire, stored, copyDedupCache, copyCache, ch, courierBudget>>

BlockedOn(p) == {r \in Replicas : wire[r].st = "blocked" /\ wire[r].to = p}

\* A receive makes room for a HandleReply that waits.
Receive(p) ==
    LET g == proc[p]
        got == Append(g.got, Head(ch[p]))
    IN  /\ g.pc = "collect" /\ ch[p] # <<>>
        /\ CopyStep(p, [g EXCEPT !.got = got, !.pc = IF Len(got) = Capacity(p) THEN "close" ELSE "collect"])
        /\ \/ /\ BlockedOn(p) = {}
              /\ ch' = [ch EXCEPT ![p] = Tail(@)]
              /\ UNCHANGED wire
           \/ \E r \in BlockedOn(p) :
                /\ ch' = [ch EXCEPT ![p] = Append(Tail(@), wire[r].reply.code)]
                /\ wire' = [wire EXCEPT ![r] = IdleWire]
        /\ UNCHANGED <<cacheVars, cmd, dispatch, queue, stored, copyDedupCache, copyCache, courierBudget>>

InTransit(h, r) == (Connected(r) /\ h \in ToSet(queue[r])) \/ wire[r].hash = h

\* The reply timeout: early when the replicas are slow, or when no reply is to come.
Deadline(p) ==
    /\ proc[p].pc = "collect"
    /\ \/ Spend("troubles")
       \/ /\ ch[p] = <<>> /\ \A r \in Replicas : wire[r].st = "wedged" \/ ~InTransit(HashOf(p), r)
          /\ UNCHANGED courierBudget
    /\ CopyStep(p, [proc[p] EXCEPT !.pc = "close"])
    /\ UNCHANGED <<cacheVars, cmd, dispatch, wireVars, copyDedupCache, copyCache, ch>>

Temporary == {"notfound", "internal"}

NextShard(g) ==
    IF g.shard = 0 THEN [g EXCEPT !.pc = "register", !.shard = 1, !.attempt = 0] ELSE Fail(g, g.code)

\* readBoxFromShardReplicas after an attempt.
AfterRead(g) ==
    LET retry == IF g.attempt + 1 < MaxReadAttempts THEN [g EXCEPT !.pc = "register", !.attempt = @ + 1]
                                                    ELSE NextShard(g)
    IN  IF g.got = <<>> THEN retry
        ELSE IF g.got[1] = "ok" THEN [g EXCEPT !.pc = "open"]
        ELSE IF g.got[1] \in Temporary THEN [retry EXCEPT !.code = g.got[1]]
        ELSE NextShard([g EXCEPT !.code = g.got[1]])

\* An envelope that nobody refused counts as stored.
Bug_NotRefused(g) ==
    LET sent == [g EXCEPT !.todo = Tail(@), !.done = @ + 1]
    IN  IF g.got = <<>> \/ "ok" \in ToSet(g.got)
        THEN IF sent.todo = <<>> THEN [sent EXCEPT !.pc = "next"] ELSE Begin(sent, "write")
        ELSE Fail(g, g.got[1])

\* dispatchCopyEnvelope after an attempt.
AfterWrite(g) ==
    LET sent == [g EXCEPT !.todo = Tail(@), !.done = @ + 1]
    IN  IF "ok" \in ToSet(g.got)
        THEN IF sent.todo = <<>> THEN [sent EXCEPT !.pc = "next"] ELSE Begin(sent, "write")
        ELSE IF g.got # <<>>
        THEN Fail(g, IF "exists" \in ToSet(g.got) THEN "exists" ELSE g.got[1])
        ELSE IF g.attempt + 1 < MaxWriteAttempts THEN [g EXCEPT !.pc = "register", !.attempt = @ + 1]
        ELSE Fail(g, "ok")

\* dispatchTombstone after an attempt.
AfterTombstone(g) ==
    IF ToSet(g.got) \cap {"ok", "exists"} = {} /\ g.attempt + 1 < MaxWriteAttempts
    THEN [g EXCEPT !.pc = "register", !.attempt = @ + 1, !.got = <<>>]
    ELSE IF g.box < Len(Stream[g.key]) THEN Begin([g EXCEPT !.box = @ + 1], "tomb")
    ELSE NoProc

Retired(p, after) == proc[p].op = "read" \/ (proc[p].op = "tomb" /\ after.box # proc[p].box)

Outdate(h, s) == [i \in DOMAIN s |-> IF s[i] = h THEN Stale ELSE s[i]]

\* The channel leaves copyCache and the attempt's outcome is judged.  A
\* HandleReply that waits on the channel waits for ever.
CloseChannel(p) ==
    LET g == proc[p]
        after == IF g.op = "read" THEN AfterRead(g)
                 ELSE IF g.op = "write" THEN AfterWrite(g) ELSE AfterTombstone(g)
    IN  /\ g.pc = "close"
        /\ copyCache' = [copyCache EXCEPT ![HashOf(p)] = None]
        /\ ch' = [ch EXCEPT ![p] = <<>>]
        /\ CopyStep(p, [after EXCEPT !.got = <<>>])
        /\ wire' = [r \in Replicas |->
             IF r \in BlockedOn(p) THEN [IdleWire EXCEPT !.st = "wedged"]
             ELSE IF Retired(p, after) /\ wire[r].hash = p THEN [wire[r] EXCEPT !.hash = Stale]
             ELSE wire[r]]
        /\ queue' = [r \in Replicas |->
             IF Retired(p, after) /\ Connected(r) THEN Outdate(p, queue[r]) ELSE queue[r]]
        /\ UNCHANGED <<cacheVars, cmd, dispatch, stored, copyDedupCache, courierBudget>>

\* runCopyCommand stores the terminal reply.
Publish(p) ==
    LET g == proc[p]
    IN  /\ g.pc = "publish"
        /\ copyDedupCache' = [copyDedupCache EXCEPT
             ![g.key] = [st |-> "done", result |-> g.result, expired |-> FALSE]]
        /\ CopyStep(p, NoProc)
        /\ UNCHANGED <<cacheVars, cmd, dispatch, wireVars, copyCache, ch, courierBudget>>
-----------------------------------------------------------------------------
OnCommand ==
    \/ \E e \in Envelopes, i \in 0..2 : LookUpEnvelope(e, i)
    \/ \E k \in CopyKeys : handleCopyCommand(k)

QueryHandler == DispatchNew \/ DispatchAgain \/ handleOldMessage \/ WriteResponse
Dispatcher(e) == AcquireSlot(e) \/ Propagate(e) \/ EndDispatch(e)
ReplicaConnection(r) == SendNext(r) \/ ReplicaReplies(r) \/ HandleReply(r) \/ Respawn(r)
Goroutine(p) == NextBox(p) \/ OpenBox(p) \/ Register(p) \/ SendQuery(p) \/ Receive(p)
                \/ Deadline(p) \/ CloseChannel(p) \/ Publish(p)

CourierTrouble ==
    \/ NewReplicaEpoch
    \/ \E e \in Envelopes : EntryExpires(e)
    \/ \E k \in CopyKeys : CopyExpires(k)
    \/ \E p \in Procs : BadBox(p)
    \/ \E r \in Replicas : ConnectionLost(r) \/ ConnectionGone(r)

CourierNext ==
    \/ OnCommand
    \/ QueryHandler
    \/ \E e \in Envelopes : Dispatcher(e)
    \/ \E r \in Replicas : ReplicaConnection(r)
    \/ \E p \in Procs : Goroutine(p)
    \/ CourierTrouble

CourierSpec == CourierInit /\ [][CourierNext]_courierVars
-----------------------------------------------------------------------------
CourierReply == [rep : Nat, code : {"ok", "notfound", "internal", "exists", "tombstone"},
          full : BOOLEAN, origin : Replicas]

\* The caches, queues and goroutines have the shape the code gives them; a
\* queue and a reply channel never hold more than their capacity.
CourierTypeOK ==
    /\ replicaEpoch \in Nat
    /\ dedupCache \in [Envelopes -> [cached : BOOLEAN, expired : BOOLEAN,
                                     replies : [0..1 -> CourierReply \cup {None}]]]
    /\ cmd.pc \in {"idle", "miss", "hit", "old", "done"} /\ cmd.idx \in 0..2
    /\ dispatch \in [Envelopes -> {"idle", "waiting", "first", "second", "leaving", "stuck"}]
    /\ \A r \in Replicas : Connected(r) => ToSet(queue[r]) \subseteq Hashes /\ Len(queue[r]) <= QueueSize
    /\ wire \in [Replicas -> [st : {"idle", "sent", "replied", "blocked", "wedged"},
                              hash : Hashes \cup {None}, reply : CourierReply \cup {None}, to : Procs \cup {None}]]
    /\ \A p \in Procs : /\ Len(ch[p]) <= 2
                        /\ proc[p].pc \in {"idle", "next", "open", "register", "first", "second", "collect",
                                           "close", "publish", "stuck"}
                        /\ proc[p].todo \in Seq(CopyEnvelopes)
    /\ copyCache \in [CopyEnvelopes \cup Procs -> Procs \cup {None}]
    /\ stored \subseteq CopyEnvelopes /\ missing \subseteq Envelopes

\* A payload that a client gets was made by the replica which the reply's
\* index names: the client opens it with that replica's key.  Replies carry
\* the wrong ReplicaID, come twice and late, and the index is changed when
\* the other replica's reply is the better one.
AnswerMatchesReplica ==
    cmd.pc = "done" /\ cmd.reply.type = "Payload" =>
        cmd.reply.from = Intermediates[cmd.env][cmd.reply.idx]

\* Once a replica's success is cached it stays until the entry is pruned: an
\* error that a second copy of the query meets never replaces it.
SuccessSticks ==
    [][\A e \in Envelopes, i \in 0..1 :
         LET old == dedupCache[e].replies[i]
         IN  (old # None /\ old.code = "ok" /\ dedupCache'[e].cached) => dedupCache'[e].replies[i] = old]_courierVars

\* An envelope that is cached and unanswered is still being asked for: its
\* dispatch is pending or running or a copy of it is with a connection,
\* unless a connection failed, or the entry was pruned before the dispatch or
\* a reply was through.
CachedMeansAsked ==
    \A e \in Envelopes :
        (dedupCache[e].cached /\ Arrived(e) = {} /\ e \notin missing) =>
            \/ cmd.pc = "miss" /\ cmd.env = e
            \/ dispatch[e] # "idle"
            \/ \E r \in Replicas : InTransit(e, r)

\* A Copy that has succeeded has every envelope of its stream stored at a
\* replica; one that failed at index n has stored all before the n-th.
CopyReportTrue ==
    \A k \in CopyKeys : copyDedupCache[k].st = "done" =>
        LET result == copyDedupCache[k].result
            all == FlattenSeq(Stream[k])
            done == IF result.status = "Succeeded" THEN Len(all) ELSE result.index - 1
        IN  \A n \in 1..done : n \in DOMAIN all /\ all[n] \in stored

\* A Copy that is in progress has exactly one goroutine, and others none: polls,
\* expiry and pruning never start a second one or forget one that runs.
OneCopyWorker ==
    \A k \in CopyKeys :
        Cardinality({w \in 1..MaxWorkers : proc[<<"copy", w>>].key = k}) = IF Running(k) THEN 1 ELSE 0

\* What the envelope cache promises: every answer is its replica's own, whatever comes twice, late or
\* with the other replica's number, and a cached envelope is being asked for until it is answered
\* (CacheReply, storeOrReplaceReply, scheduleReplicaDispatch).
AnswersSound == CourierTypeOK /\ AnswerMatchesReplica /\ CachedMeansAsked

\* A Copy command is carried out by one goroutine at a time, and what it reports is what happened to
\* the envelopes of its stream (handleCopyCommand, runCopyCommand).
CopySound == CopyReportTrue /\ OneCopyWorker
=============================================================================
