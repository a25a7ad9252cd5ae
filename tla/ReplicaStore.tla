----------------------------- MODULE ReplicaStore -----------------------------
(***************************************************************************)
(* The box store of one storage replica (replica/state.go,                 *)
(* replica/state_gc.go) and the request handlers that use it               *)
(* (replica/handlers.go).                                                  *)
(*                                                                         *)
(* Boxes are kept in RocksDB under the key <replica epoch> || <BoxID>; a   *)
(* box stays readable in the epoch it was written and in the next one.     *)
(* Every request runs in a goroutine of its own (Threads).  A write or a   *)
(* tombstone takes the per-BoxID mutex, whose reference-counted entry is   *)
(* created and deleted on demand under locksMu; a read takes no lock.      *)
(* The garbage collector, the storage watcher and the weekly epoch change  *)
(* interleave with them.                                                   *)
(***************************************************************************)
EXTENDS Naturals, FiniteSets

CONSTANTS
    Boxes,      \* BoxIDs
    Payloads,   \* payloads with the signature that goes with them
    Threads,    \* goroutines handling requests
    LockIds,    \* boxLock objects
    MaxEpoch,   \* last replica epoch explored
    Tombstone,  \* a stored box with an empty payload
    Absent,     \* no value under a key
    NoLock,     \* no boxLock object
    NoThread    \* an unlocked mutex

Epochs == 0..MaxEpoch
Values == Payloads \cup {Tombstone}

\* A thread that leaves releaseBoxLock drops its boxLock, so there are never
\* more live boxLock objects than threads.
ASSUME StoreConstants ==
    /\ MaxEpoch \in Nat
    /\ Tombstone \notin Payloads
    /\ Absent \notin Values
    /\ NoLock \notin LockIds
    /\ NoThread \notin Threads
    /\ IsFiniteSet(Threads)

VARIABLES
    epoch,        \* currentReplicaEpoch()
    db,           \* RocksDB default column family, keyed by boxKey(epoch, box)
    storageFull,  \* state.storageFull
    boxLocks,     \* state.boxLocks: BoxID -> boxLock object
    refCount,     \* boxLock.refCount of every object
    mu,           \* boxLock.mu of every object: the thread holding it
    pc,           \* where each handler is
    op,           \* the request each handler serves
    lk,           \* the boxLock each handler works with
    cur,          \* the epoch each handler read
    reply,        \* the last reply of each handler
    window        \* history: what a running read could have seen of its box

dbVars   == <<epoch, db, storageFull>>
lockVars == <<boxLocks, refCount, mu>>
thrVars  == <<pc, op, lk, cur, reply>>
vars     == <<dbVars, lockVars, thrVars, window>>

Kinds == {"write", "tombstone", "read"}

\* keptEpochs: the current epoch, and the one before it unless it is epoch 0.
\* Newest first, the first hit counts.
Visible(b) ==
    IF db[<<epoch, b>>] # Absent \/ epoch = 0
    THEN db[<<epoch, b>>] ELSE db[<<epoch - 1, b>>]

\* What a handler's local variables hold when it serves no request.
NoOp == [kind |-> "none", box |-> Absent, payload |-> Absent]

-----------------------------------------------------------------------------
Init ==
    /\ epoch = 0
    /\ db = [k \in Epochs \X Boxes |-> Absent]
    /\ storageFull = FALSE
    /\ boxLocks = [b \in Boxes |-> NoLock]
    /\ refCount = [l \in LockIds |-> 0]
    /\ mu = [l \in LockIds |-> NoThread]
    /\ pc = [t \in Threads |-> "idle"]
    /\ op = [t \in Threads |-> NoOp]
    /\ lk = [t \in Threads |-> NoLock]
    /\ cur = [t \in Threads |-> 0]
    /\ reply = [t \in Threads |-> "None"]
    /\ window = [t \in Threads |-> {}]

Goto(t, label) == pc' = [pc EXCEPT ![t] = label]
Answer(t, r)   == reply' = [reply EXCEPT ![t] = r]

(***************************************************************************)
(* handleReplicaWrite.  A request whose size, BoxID or signature is wrong  *)
(* is answered at once; one that arrives under storage pressure is refused *)
(* before the lock is taken.                                               *)
(***************************************************************************)
StartWrite(t, b, p) ==
    /\ pc[t] = "idle"
    /\ op' = [op EXCEPT ![t] = [kind |-> "write", box |-> b, payload |-> p]]
    /\ \/ Answer(t, "Invalid") /\ Goto(t, "done")
       \/ storageFull /\ Answer(t, "StorageFull") /\ Goto(t, "done")
       \/ ~storageFull /\ Goto(t, "acquire") /\ UNCHANGED reply
    /\ UNCHANGED <<dbVars, lockVars, lk, cur>>

\* handleTombstone: not gated by storageFull.
StartTombstone(t, b) ==
    /\ pc[t] = "idle"
    /\ op' = [op EXCEPT ![t] = [kind |-> "tombstone", box |-> b, payload |-> Tombstone]]
    /\ \/ Answer(t, "Invalid") /\ Goto(t, "done")
       \/ Goto(t, "acquire") /\ UNCHANGED reply
    /\ UNCHANGED <<dbVars, lockVars, lk, cur>>

\* acquireBoxLock, the part under locksMu: find or create the entry and
\* count this thread in.
AcquireEntry(t) ==
    /\ pc[t] = "acquire"
    /\ LET b == op[t].box IN
       \E l \in LockIds :
          /\ IF boxLocks[b] = NoLock
             THEN /\ refCount[l] = 0          \* &boxLock{}: a fresh object
                  /\ mu[l] = NoThread
                  /\ \A c \in Boxes : boxLocks[c] # l
             ELSE boxLocks[b] = l
          /\ boxLocks' = [boxLocks EXCEPT ![b] = l]
          /\ refCount' = [refCount EXCEPT ![l] = @ + 1]
          /\ lk' = [lk EXCEPT ![t] = l]
    /\ Goto(t, "lock")
    /\ UNCHANGED <<dbVars, mu, op, cur, reply>>

\* acquireBoxLock, bl.mu.Lock().
LockBox(t) ==
    /\ pc[t] = "lock"
    /\ mu[lk[t]] = NoThread
    /\ mu' = [mu EXCEPT ![lk[t]] = t]
    /\ Goto(t, "check")
    /\ UNCHANGED <<dbVars, boxLocks, refCount, op, lk, cur, reply>>

\* Mutant: the existence check consults the current epoch only.
Bug_Check(t) ==
    /\ pc[t] = "check"
    /\ cur' = [cur EXCEPT ![t] = epoch]
    /\ IF db[<<epoch, op[t].box>>] = Absent \/ op[t].kind = "tombstone"
       THEN Goto(t, "put") /\ UNCHANGED reply
       ELSE Answer(t, "AlreadyExists") /\ Goto(t, "unlock")
    /\ UNCHANGED <<dbVars, lockVars, op, lk>>

\* The existence check over both kept epochs.  An identical box makes the
\* write idempotent, any other box makes it fail, a database error ends it.
\* A tombstone only reads the epoch.  The two Gets are one step: the box lock
\* keeps every other writer of the box away.
Check(t) ==
    /\ pc[t] = "check"
    /\ cur' = [cur EXCEPT ![t] = epoch]
    /\ LET b == op[t].box IN
       IF op[t].kind = "tombstone"
       THEN Goto(t, "put") /\ UNCHANGED reply
       ELSE \/ Answer(t, "DatabaseFailure") /\ Goto(t, "unlock")
            \/ IF Visible(b) = Absent
               THEN Goto(t, "put") /\ UNCHANGED reply
               ELSE /\ Answer(t, IF Visible(b) = op[t].payload
                                 THEN "Success" ELSE "AlreadyExists")
                    /\ Goto(t, "unlock")
    /\ UNCHANGED <<dbVars, lockVars, op, lk>>

\* s.db.Put under the epoch read in Check.
Put(t) ==
    /\ pc[t] = "put"
    /\ \/ /\ db' = [db EXCEPT ![<<cur[t], op[t].box>>] = op[t].payload]
          /\ Answer(t, "Success")
       \/ /\ Answer(t, "DatabaseFailure")
          /\ UNCHANGED db
    /\ Goto(t, "unlock")
    /\ UNCHANGED <<epoch, storageFull, lockVars, op, lk, cur>>

\* releaseBoxLock, bl.mu.Unlock().
UnlockBox(t) ==
    /\ pc[t] = "unlock"
    /\ mu' = [mu EXCEPT ![lk[t]] = NoThread]
    /\ Goto(t, "release")
    /\ UNCHANGED <<dbVars, boxLocks, refCount, op, lk, cur, reply>>

\* Mutant: the entry is deleted whoever else still uses it.
Bug_ReleaseEntry(t) ==
    /\ pc[t] = "release"
    /\ refCount' = [refCount EXCEPT ![lk[t]] = @ - 1]
    /\ boxLocks' = [boxLocks EXCEPT ![op[t].box] = NoLock]
    /\ lk' = [lk EXCEPT ![t] = NoLock]
    /\ Goto(t, "done")
    /\ UNCHANGED <<dbVars, mu, op, cur, reply>>

\* releaseBoxLock, the part under locksMu: the last user deletes the entry.
ReleaseEntry(t) ==
    /\ pc[t] = "release"
    /\ LET l == lk[t] IN
       /\ refCount' = [refCount EXCEPT ![l] = @ - 1]
       /\ boxLocks' = IF refCount[l] = 1
                      THEN [boxLocks EXCEPT ![op[t].box] = NoLock]
                      ELSE boxLocks
       /\ lk' = [lk EXCEPT ![t] = NoLock]
    /\ Goto(t, "done")
    /\ UNCHANGED <<dbVars, mu, op, cur, reply>>

(***************************************************************************)
(* handleReplicaRead: keptEpochs is computed once, then one Get per epoch. *)
(***************************************************************************)
StartRead(t, b) ==
    /\ pc[t] = "idle"
    /\ op' = [op EXCEPT ![t] = [kind |-> "read", box |-> b, payload |-> Tombstone]]
    /\ cur' = [cur EXCEPT ![t] = epoch]
    /\ Goto(t, "get")
    /\ UNCHANGED <<dbVars, lockVars, lk, reply>>

\* The reply to a read: NotFound, Tombstone, or the payload itself.
ReadReply(v) == CASE v = Absent    -> "NotFound"
                  [] v = Tombstone -> "Tombstone"
                  [] OTHER         -> v

\* Mutant: the previous epoch is not consulted.
Bug_GetNewest(t) ==
    /\ pc[t] = "get"
    /\ Answer(t, ReadReply(db[<<cur[t], op[t].box>>]))
    /\ Goto(t, "done")
    /\ UNCHANGED <<dbVars, lockVars, op, lk, cur>>

GetNewest(t) ==
    /\ pc[t] = "get"
    /\ LET v == db[<<cur[t], op[t].box>>] IN
       \/ Answer(t, "DatabaseFailure") /\ Goto(t, "done")
       \/ IF v = Absent /\ cur[t] > 0
          THEN Goto(t, "getprev") /\ UNCHANGED reply
          ELSE Answer(t, ReadReply(v)) /\ Goto(t, "done")
    /\ UNCHANGED <<dbVars, lockVars, op, lk, cur>>

GetPrevious(t) ==
    /\ pc[t] = "getprev"
    /\ \/ Answer(t, "DatabaseFailure")
       \/ Answer(t, ReadReply(db[<<cur[t] - 1, op[t].box>>]))
    /\ Goto(t, "done")
    /\ UNCHANGED <<dbVars, lockVars, op, lk, cur>>

\* Mutant: a handler that meets a database error hands over no reply.
Bug_Finish(t) ==
    /\ pc[t] = "done"
    /\ reply[t] # "DatabaseFailure"
    /\ op' = [op EXCEPT ![t] = NoOp]
    /\ cur' = [cur EXCEPT ![t] = 0]
    /\ Answer(t, "None")
    /\ Goto(t, "idle")
    /\ UNCHANGED <<dbVars, lockVars, lk>>

\* The reply is handed to the connection's sender and the handler is gone.
Finish(t) ==
    /\ pc[t] = "done"
    /\ op' = [op EXCEPT ![t] = NoOp]
    /\ cur' = [cur EXCEPT ![t] = 0]
    /\ Answer(t, "None")
    /\ Goto(t, "idle")
    /\ UNCHANGED <<dbVars, lockVars, lk>>

(***************************************************************************)
(* Background work.                                                        *)
(***************************************************************************)
\* WipeStaleBoxes: DeleteRange of every epoch before the kept window.
WipeStaleBoxes ==
    /\ epoch >= 2
    /\ db' = [k \in Epochs \X Boxes |-> IF k[1] < epoch - 1 THEN Absent ELSE db[k]]
    /\ UNCHANGED <<epoch, storageFull, lockVars, thrVars>>

\* refreshStorageFull: what the probes measure is up to the environment.
RefreshStorageFull ==
    /\ storageFull' \in BOOLEAN
    /\ UNCHANGED <<epoch, db, lockVars, thrVars>>

\* A replica epoch lasts a week: no request that has read the epoch is still
\* running two epoch changes later.
NoRequestSpansAnEpoch ==
    \A t \in Threads : pc[t] \in {"put", "get", "getprev"} => cur[t] = epoch

\* The replica epoch advances by the clock.
EpochTick ==
    /\ epoch < MaxEpoch
    /\ NoRequestSpansAnEpoch
    /\ epoch' = epoch + 1
    /\ UNCHANGED <<db, storageFull, lockVars, thrVars>>

HandlerStep(t) ==
    \/ AcquireEntry(t) \/ LockBox(t) \/ Check(t) \/ Put(t)
    \/ UnlockBox(t) \/ ReleaseEntry(t)
    \/ GetNewest(t) \/ GetPrevious(t) \/ Finish(t)

Step ==
    \/ \E t \in Threads, b \in Boxes, p \in Payloads : StartWrite(t, b, p)
    \/ \E t \in Threads, b \in Boxes : StartTombstone(t, b) \/ StartRead(t, b)
    \/ \E t \in Threads : HandlerStep(t)
    \/ WipeStaleBoxes \/ RefreshStorageFull \/ EpochTick

\* A read's window starts with what is visible when it starts and collects
\* every value its box takes until it is answered.
RecordWindow ==
    window' = [t \in Threads |->
                 CASE pc'[t] \in {"get", "getprev"}   -> window[t] \cup {Visible(op[t].box)'}
                   [] pc'[t] = "done"                -> window[t]
                   [] OTHER                          -> {}]

Next == Step /\ RecordWindow

\* Goroutines run, and Go's mutex hands a contended lock to every waiter in
\* the end (starvation mode), hence strong fairness for LockBox.
Fairness == \A t \in Threads : WF_vars(HandlerStep(t) /\ RecordWindow)
                            /\ SF_vars(LockBox(t) /\ RecordWindow)

Spec     == Init /\ [][Next]_vars
FairSpec == Spec /\ Fairness

-----------------------------------------------------------------------------
Waiting   == {"lock", "check", "put", "unlock", "release"}
Critical  == {"check", "put", "unlock"}

TypeOK ==
    /\ epoch \in Epochs
    /\ db \in [Epochs \X Boxes -> Values \cup {Absent}]
    /\ storageFull \in BOOLEAN
    /\ boxLocks \in [Boxes -> LockIds \cup {NoLock}]
    /\ refCount \in [LockIds -> Nat]
    /\ mu \in [LockIds -> Threads \cup {NoThread}]
    /\ pc \in [Threads -> {"idle", "acquire", "get", "getprev", "done"} \cup Waiting]
    /\ op \in [Threads -> [kind : Kinds, box : Boxes, payload : Values] \cup {NoOp}]
    /\ lk \in [Threads -> LockIds \cup {NoLock}]
    /\ cur \in [Threads -> Epochs]

\* Two handlers never run the check-and-put of the same box at once, however
\* the lock entries are created and deleted (acquireBoxLock, releaseBoxLock).
BoxMutex ==
    \A s, t \in Threads :
        /\ s # t
        /\ pc[s] \in Critical
        /\ pc[t] \in Critical
        => op[s].box # op[t].box

\* The map holds an entry exactly while some handler uses it: no entry leaks
\* and none is deleted under a handler that still waits for it.
LockMapExact ==
    \A b \in Boxes :
        boxLocks[b] = NoLock <=> ~ \E t \in Threads : pc[t] \in Waiting /\ op[t].box = b

\* What a reader can see of a box changes only as the store promises: writes
\* are immutable, a tombstone replaces a payload and is never replaced, and a
\* box disappears only at the epoch change that ends its second epoch.
BoxStep(b) ==
    LET v == Visible(b)  w == Visible(b)' IN
    \/ w = v
    \/ v = Absent
    \/ w = Tombstone
    \/ /\ w = Absent
       /\ epoch' = epoch + 1
       /\ db[<<epoch, b>>] = Absent

ImmutableBoxes == [][\A b \in Boxes : BoxStep(b)]_vars

\* A read that takes no lock and looks at two epochs in turn still answers
\* with something its box held while the read ran; across an epoch change it
\* may also miss a box the garbage collector has just removed.
ReadLinearizable ==
    \A t \in Threads :
        /\ pc[t] = "done"
        /\ op[t].kind = "read"
        /\ reply[t] # "DatabaseFailure"
        => \/ reply[t] \in {ReadReply(v) : v \in window[t]}
           \/ reply[t] = "NotFound" /\ cur[t] < epoch

\* Every request is answered: no handler waits for a box lock forever.
EveryRequestAnswered ==
    \A t \in Threads : pc[t] # "idle" ~> pc[t] = "idle"
=============================================================================
