-------------------------- MODULE ReplicaStoreProofs --------------------------
(***************************************************************************)
(* Proofs about ReplicaStore, for any number of boxes, handlers and        *)
(* epochs: the reference-counted box locks give mutual exclusion, stored   *)
(* boxes are immutable within the retention window, and what a read, which *)
(* takes no lock, answers was true at some moment of the read.             *)
(***************************************************************************)
EXTENDS ReplicaStore, FiniteSetTheorems, TLAPS

\* The handlers that work with lock object l: what refCount[l] counts.
Users(l) == {t \in Threads : pc[t] \in Waiting /\ lk[t] = l}

Writing == {"acquire"} \cup Waiting

\* A handler that writes has a well-formed request.
OpInv ==
    \A t \in Threads : pc[t] \in Writing =>
        /\ op[t].box \in Boxes
        /\ \/ op[t].kind = "write" /\ op[t].payload \in Payloads
           \/ op[t].kind = "tombstone" /\ op[t].payload = Tombstone

\* The lock entry a handler waits for is the one in the map; distinct boxes
\* have distinct entries; the counter counts; a holder holds.
EntryInv ==
    \A t \in Threads : pc[t] \in Waiting =>
        lk[t] \in LockIds /\ boxLocks[op[t].box] = lk[t]
DistinctInv ==
    \A b, c \in Boxes : boxLocks[b] # NoLock /\ boxLocks[b] = boxLocks[c] => b = c
CountInv ==
    \A l \in LockIds : refCount[l] = Cardinality(Users(l))
LiveInv ==
    \A b \in Boxes : boxLocks[b] # NoLock => refCount[boxLocks[b]] # 0
HolderInv ==
    \A t \in Threads : pc[t] \in Critical => mu[lk[t]] = t

\* Nothing is stored under a future epoch, and a write that is about to Put
\* still finds no box in the window it checked.
FutureInv ==
    /\ \A t \in Threads : cur[t] <= epoch
    /\ \A e \in Epochs, b \in Boxes : e > epoch => db[<<e, b>>] = Absent
CheckedInv ==
    \A t \in Threads : pc[t] = "put" /\ op[t].kind = "write" =>
        /\ db[<<cur[t], op[t].box>>] = Absent
        /\ cur[t] > 0 => db[<<cur[t] - 1, op[t].box>>] = Absent

LockInv == OpInv /\ EntryInv /\ DistinctInv /\ CountInv /\ LiveInv /\ HolderInv
IInv    == TypeOK /\ LockInv /\ FutureInv /\ CheckedInv
-----------------------------------------------------------------------------
\* Every reachable state satisfies the invariant initially.
LEMMA InitIInv == Init => IInv
<1> SUFFICES ASSUME Init PROVE IInv
    OBVIOUS
<1> USE StoreConstants
<1>1. TypeOK
  <2>1. 0 \in Epochs
      BY DEF Epochs
  <2> QED
      BY <2>1, Zenon DEF Init, TypeOK, Waiting
<1>2. \A l \in LockIds : Users(l) = {}
    BY DEF Init, Users, Waiting
<1>3. CountInv
    BY <1>2, FS_EmptySet, Zenon DEF Init, CountInv
<1>4. LockInv
    BY <1>3 DEF Init, LockInv, OpInv, EntryInv, DistinctInv, LiveInv, HolderInv,
             Writing, Waiting, Critical
<1>5. FutureInv /\ CheckedInv
    BY DEF Init, FutureInv, CheckedInv, Epochs
<1> QED
    BY <1>1, <1>4, <1>5 DEF IInv

\* Every step keeps every variable in its type; a lock is released only by a
\* handler that was counted.
LEMMA StepTypeOK == IInv /\ Step => TypeOK'
<1> SUFFICES ASSUME IInv, Step PROVE TypeOK'
    OBVIOUS
<1> USE StoreConstants DEF IInv, TypeOK, dbVars, lockVars, thrVars, Goto, Answer
<1>1. ASSUME NEW t \in Threads, NEW b \in Boxes, NEW p \in Payloads, StartWrite(t, b, p)
      PROVE TypeOK'
    BY <1>1, SMTT(30) DEF StartWrite, Kinds, Values, Waiting
<1>2. ASSUME NEW t \in Threads, NEW b \in Boxes, StartTombstone(t, b)
      PROVE TypeOK'
    BY <1>2 DEF StartTombstone, Kinds, Values, Waiting
<1>3. ASSUME NEW t \in Threads, NEW b \in Boxes, StartRead(t, b)
      PROVE TypeOK'
    BY <1>3 DEF StartRead, Kinds, Values, Waiting
<1>4. ASSUME NEW t \in Threads, AcquireEntry(t)
      PROVE TypeOK'
  <2> PICK l \in LockIds :
          /\ boxLocks' = [boxLocks EXCEPT ![op[t].box] = l]
          /\ refCount' = [refCount EXCEPT ![l] = @ + 1]
          /\ lk' = [lk EXCEPT ![t] = l]
      BY <1>4, Zenon DEF AcquireEntry
  <2>1. pc' = [pc EXCEPT ![t] = "lock"] /\ UNCHANGED <<dbVars, mu, op, cur, reply>>
      BY <1>4 DEF AcquireEntry
  <2>2. boxLocks' \in [Boxes -> LockIds \cup {NoLock}]
      BY Zenon
  <2>3. refCount' \in [LockIds -> Nat]
      OBVIOUS
  <2> QED
      BY <2>1, <2>2, <2>3 DEF Waiting
<1>5. ASSUME NEW t \in Threads, LockBox(t)
      PROVE TypeOK'
    BY <1>5, Zenon DEF LockBox, Waiting
<1>6. ASSUME NEW t \in Threads, Check(t)
      PROVE TypeOK'
    BY <1>6 DEF Check, Waiting
<1>7. ASSUME NEW t \in Threads, Put(t)
      PROVE TypeOK'
    BY <1>7, Zenon DEF Put, Waiting, LockInv, OpInv, Writing, Values
<1>8. ASSUME NEW t \in Threads, UnlockBox(t)
      PROVE TypeOK'
    BY <1>8, Zenon DEF UnlockBox, Waiting
<1>9. ASSUME NEW t \in Threads, ReleaseEntry(t)
      PROVE TypeOK'
  <2>1. op[t].box \in Boxes /\ lk[t] \in LockIds /\ boxLocks[op[t].box] = lk[t]
      BY <1>9 DEF ReleaseEntry, LockInv, OpInv, EntryInv, Writing, Waiting
  <2>2. refCount[lk[t]] \in Nat \ {0}
      BY <2>1 DEF LockInv, LiveInv
  <2> QED
      BY <1>9, <2>1, <2>2, SMTT(30) DEF ReleaseEntry, Waiting
<1>10. ASSUME NEW t \in Threads, GetNewest(t) \/ GetPrevious(t)
      PROVE TypeOK'
    BY <1>10 DEF GetNewest, GetPrevious, Waiting
<1>11. ASSUME NEW t \in Threads, Finish(t)
      PROVE TypeOK'
    BY <1>11 DEF Finish, Waiting, Epochs
<1>12. ASSUME WipeStaleBoxes \/ RefreshStorageFull \/ EpochTick
      PROVE TypeOK'
    BY <1>12 DEF WipeStaleBoxes, RefreshStorageFull, EpochTick, Epochs
<1> QED
    BY <1>1, <1>2, <1>3, <1>4, <1>5, <1>6, <1>7, <1>8, <1>9, <1>10, <1>11, <1>12, SMTT(30)
    DEF Step, HandlerStep

\* Handlers other than the one that moves keep their place, request and lock.
LEMMA UsersUnchanged ==
    ASSUME NEW l \in LockIds,
           \A s \in Threads : (pc[s] \in Waiting /\ lk[s] = l) <=> (pc'[s] \in Waiting /\ lk'[s] = l)
    PROVE  Users(l)' = Users(l)
BY DEF Users

\* A set of handlers is finite, so its size is a number.
LEMMA UsersFinite == ASSUME NEW l PROVE IsFiniteSet(Users(l)) /\ Cardinality(Users(l)) \in Nat
<1>1. Users(l) \in SUBSET Threads
    BY DEF Users
<1> QED
    BY <1>1, FS_Subset, FS_CardinalityType, StoreConstants

\* Every step preserves the lock discipline.
LEMMA StepLockInv == IInv /\ Step => LockInv'
<1> SUFFICES ASSUME IInv, Step PROVE LockInv'
    OBVIOUS
<1> USE StoreConstants DEF IInv, TypeOK, dbVars, lockVars, thrVars, Goto, Answer
<1>1. ASSUME NEW t \in Threads, pc[t] \notin Waiting, pc' = [pc EXCEPT ![t] = pc'[t]],
             pc'[t] \notin Waiting, op' = [op EXCEPT ![t] = op'[t]],
             UNCHANGED <<lockVars, lk>>,
             pc'[t] \in Writing =>
                 /\ op'[t].box \in Boxes
                 /\ \/ op'[t].kind = "write" /\ op'[t].payload \in Payloads
                    \/ op'[t].kind = "tombstone" /\ op'[t].payload = Tombstone
      PROVE LockInv'
  <2>1. \A l \in LockIds : Users(l)' = Users(l)
      BY <1>1, UsersUnchanged
  <2>2. CountInv' /\ LiveInv' /\ DistinctInv'
      BY <1>1, <2>1 DEF LockInv, CountInv, LiveInv, DistinctInv
  <2>3. OpInv' /\ EntryInv' /\ HolderInv'
      BY <1>1, SMTT(30) DEF LockInv, OpInv, EntryInv, HolderInv, Writing, Waiting, Critical
  <2> QED
      BY <2>2, <2>3 DEF LockInv
<1>2. ASSUME NEW t \in Threads, NEW b \in Boxes, NEW p \in Payloads,
             StartWrite(t, b, p) \/ StartTombstone(t, b) \/ StartRead(t, b)
      PROVE LockInv'
    BY <1>1, <1>2, SMTT(30) DEF StartWrite, StartTombstone, StartRead, Waiting, Writing
<1>3. ASSUME NEW t \in Threads, GetNewest(t) \/ GetPrevious(t) \/ Finish(t)
      PROVE LockInv'
    BY <1>1, <1>3 DEF GetNewest, GetPrevious, Finish, Waiting, Writing
<1>4. ASSUME NEW t \in Threads, AcquireEntry(t)
      PROVE LockInv'
  <2> DEFINE b == op[t].box
  <2>1. b \in Boxes
      BY <1>4 DEF AcquireEntry, LockInv, OpInv, Writing
  <2>2. PICK l \in LockIds :
          /\ IF boxLocks[b] = NoLock
             THEN refCount[l] = 0 /\ (\A c \in Boxes : boxLocks[c] # l)
             ELSE boxLocks[b] = l
          /\ boxLocks' = [boxLocks EXCEPT ![b] = l]
          /\ refCount' = [refCount EXCEPT ![l] = @ + 1]
          /\ lk' = [lk EXCEPT ![t] = l]
      BY <1>4, Zenon DEF AcquireEntry
  <2>3. pc[t] = "acquire" /\ pc' = [pc EXCEPT ![t] = "lock"] /\ UNCHANGED <<mu, op>>
      BY <1>4 DEF AcquireEntry
  <2>4. OpInv'
      BY <2>3 DEF LockInv, OpInv, Writing, Waiting
  <2>5. EntryInv'
      BY <2>1, <2>2, <2>3 DEF LockInv, OpInv, EntryInv, Writing, Waiting
  <2>6. DistinctInv'
      BY <2>1, <2>2 DEF LockInv, DistinctInv
  <2>7. HolderInv'
      BY <2>2, <2>3 DEF LockInv, HolderInv, Critical
  <2>8. CountInv'
    <3> SUFFICES ASSUME NEW m \in LockIds PROVE refCount'[m] = Cardinality(Users(m)')
        BY DEF CountInv
    <3>1. CASE m = l
      <4>1. Users(l)' = Users(l) \cup {t} /\ t \notin Users(l)
          BY <2>2, <2>3 DEF Users, Waiting
      <4>2. Cardinality(Users(l)') = Cardinality(Users(l)) + 1
          BY <4>1, FS_AddElement, UsersFinite, Zenon
      <4> QED
          BY <4>2, <3>1, <2>2 DEF LockInv, CountInv
    <3>2. CASE m # l
      <4>1. Users(m)' = Users(m)
          BY <2>2, <2>3, <3>2 DEF Users, Waiting
      <4> QED
          BY <4>1, <3>2, <2>2 DEF LockInv, CountInv
    <3> QED
        BY <3>1, <3>2
  <2>9. LiveInv'
      BY <2>1, <2>2 DEF LockInv, LiveInv
  <2> QED
      BY <2>4, <2>5, <2>6, <2>7, <2>8, <2>9 DEF LockInv
<1>5. ASSUME NEW t \in Threads, pc[t] \in Waiting, pc'[t] \in Waiting,
             pc' = [pc EXCEPT ![t] = pc'[t]], UNCHANGED <<boxLocks, refCount, op, lk>>
      PROVE OpInv' /\ EntryInv' /\ DistinctInv' /\ CountInv' /\ LiveInv'
  <2>1. \A l \in LockIds : Users(l)' = Users(l)
      BY <1>5, UsersUnchanged
  <2>2. CountInv' /\ LiveInv' /\ DistinctInv'
      BY <1>5, <2>1 DEF LockInv, CountInv, LiveInv, DistinctInv
  <2>3. OpInv' /\ EntryInv'
      BY <1>5 DEF LockInv, OpInv, EntryInv, Writing
  <2> QED
      BY <2>2, <2>3
<1>6. ASSUME NEW t \in Threads, LockBox(t)
      PROVE LockInv'
  <2>1. HolderInv'
      BY <1>6 DEF LockBox, LockInv, HolderInv, EntryInv, Waiting, Critical
  <2> QED
      BY <1>5, <1>6, <2>1, Zenon DEF LockBox, LockInv, Waiting
<1>7. ASSUME NEW t \in Threads, Check(t) \/ Put(t)
      PROVE LockInv'
  <2>1. HolderInv'
      BY <1>7 DEF Check, Put, LockInv, HolderInv, Critical
  <2> QED
      BY <1>5, <1>7, <2>1 DEF Check, Put, LockInv, Waiting
<1>8. ASSUME NEW t \in Threads, UnlockBox(t)
      PROVE LockInv'
  <2>1. HolderInv'
      BY <1>8 DEF UnlockBox, LockInv, HolderInv, EntryInv, Waiting, Critical
  <2> QED
      BY <1>5, <1>8, <2>1, Zenon DEF UnlockBox, LockInv, Waiting
<1>9. ASSUME NEW t \in Threads, ReleaseEntry(t)
      PROVE LockInv'
  <2>0. PICK l \in LockIds, b \in Boxes : l = lk[t] /\ b = op[t].box
      BY <1>9 DEF ReleaseEntry, LockInv, OpInv, EntryInv, Writing, Waiting
  <2>1. /\ pc[t] = "release" /\ pc' = [pc EXCEPT ![t] = "done"] /\ UNCHANGED <<mu, op>>
        /\ refCount' = [refCount EXCEPT ![l] = @ - 1]
        /\ boxLocks' = IF refCount[l] = 1 THEN [boxLocks EXCEPT ![b] = NoLock] ELSE boxLocks
        /\ lk' = [lk EXCEPT ![t] = NoLock]
      BY <1>9, <2>0 DEF ReleaseEntry
  <2>2. b \in Boxes /\ l \in LockIds /\ boxLocks[b] = l /\ t \in Users(l)
      BY <2>0, <2>1 DEF LockInv, OpInv, EntryInv, Writing, Waiting, Users
  <2>3. refCount[l] = Cardinality(Users(l)) /\ refCount[l] # 0
      BY <2>2 DEF LockInv, CountInv, LiveInv
  <2>4. refCount[l] = 1 => \A s \in Users(l) : s = t
    <3> HAVE refCount[l] = 1
    <3>1. \E x : Users(l) = {x}
        BY <2>3, FS_Singleton, UsersFinite, Zenon
    <3> QED
        BY <2>2, <3>1
  <2>5. OpInv' /\ HolderInv'
      BY <2>1 DEF LockInv, OpInv, HolderInv, Writing, Waiting, Critical
  <2>6. EntryInv'
    <3> SUFFICES ASSUME NEW s \in Threads, pc'[s] \in Waiting
                 PROVE  lk'[s] \in LockIds /\ boxLocks'[op'[s].box] = lk'[s]
        BY DEF EntryInv
    <3>1. s # t /\ pc[s] \in Waiting /\ lk'[s] = lk[s] /\ op'[s] = op[s]
        BY <2>1 DEF Waiting
    <3>2. lk[s] \in LockIds /\ boxLocks[op[s].box] = lk[s] /\ op[s].box \in Boxes
        BY <3>1 DEF LockInv, EntryInv, OpInv, Writing
    <3>3. refCount[l] = 1 => op[s].box # b
        BY <2>2, <2>4, <3>1, <3>2 DEF Users
    <3> QED
        BY <2>1, <3>1, <3>2, <3>3, SMTT(30)
  <2>7. DistinctInv'
      BY <2>0, <2>1, <2>2 DEF LockInv, DistinctInv
  <2>8. CountInv'
    <3> SUFFICES ASSUME NEW m \in LockIds PROVE refCount'[m] = Cardinality(Users(m)')
        BY DEF CountInv
    <3>1. CASE m = l
      <4>1. Users(l)' = Users(l) \ {t}
          BY <2>0, <2>1, <2>2 DEF Users, Waiting
      <4>2. Cardinality(Users(l) \ {t}) = Cardinality(Users(l)) - 1
          BY <2>2, FS_RemoveElement, UsersFinite, Zenon
      <4> QED
          BY <4>1, <4>2, <3>1, <2>1, <2>2, <2>3, Zenon
    <3>2. CASE m # l
      <4>1. Users(m)' = Users(m)
          BY <2>0, <2>1, <2>2, <3>2 DEF Users, Waiting
      <4> QED
          BY <4>1, <3>2, <2>1 DEF LockInv, CountInv
    <3> QED
        BY <3>1, <3>2
  <2>9. LiveInv'
    <3> SUFFICES ASSUME NEW c \in Boxes, boxLocks'[c] # NoLock PROVE refCount'[boxLocks'[c]] # 0
        BY DEF LiveInv
    <3>1. boxLocks'[c] = boxLocks[c] /\ boxLocks[c] \in LockIds /\ refCount[boxLocks[c]] # 0
        BY <2>1, <2>2 DEF LockInv, LiveInv
    <3>2. CASE boxLocks[c] = l
      <4>1. c = b /\ refCount[l] # 1
          BY <2>1, <2>2, <3>1, <3>2 DEF LockInv, DistinctInv
      <4>2. refCount[l] \in Nat
          BY <2>2
      <4> QED
          BY <2>1, <2>2, <2>3, <3>1, <3>2, <4>1, <4>2
    <3>3. CASE boxLocks[c] # l
        BY <2>1, <3>1, <3>3
    <3> QED
        BY <3>2, <3>3
  <2> QED
      BY <2>5, <2>6, <2>7, <2>8, <2>9 DEF LockInv
<1>10. ASSUME UNCHANGED <<lockVars, thrVars>>
       PROVE LockInv'
  <2>1. \A l \in LockIds : Users(l)' = Users(l)
      BY <1>10 DEF Users
  <2> QED
      BY <1>10, <2>1 DEF LockInv, OpInv, EntryInv, DistinctInv, CountInv, LiveInv, HolderInv
<1>11. ASSUME WipeStaleBoxes \/ RefreshStorageFull \/ EpochTick
       PROVE LockInv'
    BY <1>10, <1>11 DEF WipeStaleBoxes, RefreshStorageFull, EpochTick
<1> QED
  <2>1. ASSUME NEW t \in Threads, NEW b \in Boxes, StartTombstone(t, b) \/ StartRead(t, b)
        PROVE LockInv'
      BY <1>1, <2>1 DEF StartTombstone, StartRead, Waiting, Writing
  <2> QED
      BY <1>2, <1>3, <1>4, <1>6, <1>7, <1>8, <1>9, <1>11, <2>1, SMTT(30) DEF Step, HandlerStep

\* Two handlers in the critical section of one box hold the same mutex.
LEMMA LockInvMutex == TypeOK /\ LockInv => BoxMutex
<1> SUFFICES ASSUME TypeOK, LockInv, NEW s \in Threads, NEW t \in Threads, s # t,
                    pc[s] \in Critical, pc[t] \in Critical, op[s].box = op[t].box
             PROVE FALSE
    BY DEF BoxMutex
<1>1. lk[s] = lk[t]
    BY DEF LockInv, EntryInv, Waiting, Critical
<1> QED
    BY <1>1 DEF LockInv, HolderInv

\* Every step keeps the store free of future epochs and keeps the window of a
\* write that is about to Put empty.
LEMMA StepStoreInv == IInv /\ Step => FutureInv' /\ CheckedInv'
<1> SUFFICES ASSUME IInv, Step PROVE FutureInv' /\ CheckedInv'
    OBVIOUS
<1>0. BoxMutex
    BY LockInvMutex DEF IInv
<1> USE StoreConstants DEF IInv, TypeOK, dbVars, lockVars, thrVars, Goto, Answer
<1>1. ASSUME NEW t \in Threads, UNCHANGED <<db, epoch>>, pc' = [pc EXCEPT ![t] = pc'[t]],
             op' = [op EXCEPT ![t] = op'[t]], cur' = [cur EXCEPT ![t] = cur'[t]],
             pc'[t] # "put", cur'[t] <= epoch
      PROVE FutureInv' /\ CheckedInv'
    BY <1>1, ZenonT(30) DEF FutureInv, CheckedInv
<1>2. ASSUME NEW t \in Threads, NEW b \in Boxes, NEW p \in Payloads, StartWrite(t, b, p)
      PROVE FutureInv' /\ CheckedInv'
    BY <1>1, <1>2, Zenon DEF StartWrite, FutureInv
<1>3. ASSUME NEW t \in Threads, NEW b \in Boxes, StartTombstone(t, b) \/ StartRead(t, b)
      PROVE FutureInv' /\ CheckedInv'
    BY <1>1, <1>3, SMTT(30) DEF StartTombstone, StartRead, FutureInv, Epochs
<1>4. ASSUME NEW t \in Threads,
             AcquireEntry(t) \/ LockBox(t) \/ UnlockBox(t) \/ ReleaseEntry(t)
      PROVE FutureInv' /\ CheckedInv'
    BY <1>1, <1>4 DEF AcquireEntry, LockBox, UnlockBox, ReleaseEntry, FutureInv
<1>5. ASSUME NEW t \in Threads, GetNewest(t) \/ GetPrevious(t) \/ Finish(t)
      PROVE FutureInv' /\ CheckedInv'
    BY <1>1, <1>5 DEF GetNewest, GetPrevious, Finish, FutureInv, Epochs
<1>6. ASSUME NEW t \in Threads, Check(t)
      PROVE FutureInv' /\ CheckedInv'
  <2>1. FutureInv'
      BY <1>6 DEF Check, FutureInv, Epochs
  <2>2. ASSUME pc'[t] = "put", op[t].kind = "write"
        PROVE  /\ db[<<epoch, op[t].box>>] = Absent
               /\ epoch > 0 => db[<<epoch - 1, op[t].box>>] = Absent
    <3>1. Visible(op[t].box) = Absent
        BY <1>6, <2>2 DEF Check
    <3> QED
        BY <3>1 DEF Visible, Epochs
  <2>3. CheckedInv'
      BY <1>6, <2>2, Zenon DEF Check, CheckedInv
  <2> QED
      BY <2>1, <2>3
<1>7. ASSUME NEW t \in Threads, Put(t)
      PROVE FutureInv' /\ CheckedInv'
  <2>1. op[t].box \in Boxes
      BY <1>7 DEF Put, LockInv, OpInv, Writing, Waiting
  <2>2. FutureInv'
      BY <1>7, <2>1 DEF Put, FutureInv, Epochs
  <2>3. CheckedInv'
    <3> SUFFICES ASSUME NEW s \in Threads, pc'[s] = "put", op'[s].kind = "write"
                 PROVE  /\ db'[<<cur'[s], op'[s].box>>] = Absent
                        /\ cur'[s] > 0 => db'[<<cur'[s] - 1, op'[s].box>>] = Absent
        BY DEF CheckedInv
    <3>1. s # t /\ pc[s] = "put" /\ pc[t] = "put" /\ op' = op /\ cur' = cur
        BY <1>7 DEF Put
    <3>2. op[s].box # op[t].box
        BY <1>0, <3>1 DEF BoxMutex, Critical
    <3>3. op[s].box \in Boxes
        BY <3>1 DEF LockInv, OpInv, Writing, Waiting
    <3>4. \A e \in Epochs : db'[<<e, op[s].box>>] = db[<<e, op[s].box>>]
        BY <1>7, <2>1, <3>2, <3>3 DEF Put
    <3>5. /\ db[<<cur[s], op[s].box>>] = Absent
          /\ cur[s] > 0 => cur[s] - 1 \in Epochs /\ db[<<cur[s] - 1, op[s].box>>] = Absent
        BY <3>1 DEF CheckedInv, Epochs
    <3> QED
        BY <3>1, <3>4, <3>5
  <2> QED
      BY <2>2, <2>3
<1>8. ASSUME RefreshStorageFull \/ EpochTick
      PROVE FutureInv' /\ CheckedInv'
    BY <1>8 DEF RefreshStorageFull, EpochTick, FutureInv, CheckedInv, Epochs
<1>9. ASSUME WipeStaleBoxes
      PROVE FutureInv' /\ CheckedInv'
  <2>1. \A k \in Epochs \X Boxes : db[k] = Absent => db'[k] = Absent
      BY <1>9 DEF WipeStaleBoxes
  <2>2. FutureInv'
      BY <1>9, <2>1 DEF WipeStaleBoxes, FutureInv, Epochs
  <2>3. CheckedInv'
    <3> SUFFICES ASSUME NEW s \in Threads, pc[s] = "put", op[s].kind = "write"
                 PROVE  /\ db'[<<cur[s], op[s].box>>] = Absent
                        /\ cur[s] > 0 => db'[<<cur[s] - 1, op[s].box>>] = Absent
        BY <1>9, Zenon DEF WipeStaleBoxes, CheckedInv
    <3>1. op[s].box \in Boxes
        BY DEF LockInv, OpInv, Writing, Waiting
    <3>2. cur[s] > 0 => cur[s] - 1 \in Epochs
        BY DEF Epochs
    <3> QED
        BY <2>1, <3>1, <3>2 DEF CheckedInv
  <2> QED
      BY <2>2, <2>3
<1> QED
    BY <1>2, <1>3, <1>4, <1>5, <1>6, <1>7, <1>8, <1>9 DEF Step, HandlerStep

\* The invariant is inductive.
LEMMA StepIInv == IInv /\ [Next]_vars => IInv'
<1>1. ASSUME IInv, Step PROVE IInv'
    BY <1>1, StepTypeOK, StepLockInv, StepStoreInv, SMTT(30) DEF IInv
<1>2. ASSUME IInv, UNCHANGED vars PROVE IInv'
  <2>1. \A l : Users(l)' = Users(l)
      BY <1>2 DEF Users, vars, thrVars
  <2> QED
      BY <1>2, <2>1 DEF IInv, TypeOK, LockInv, OpInv, EntryInv, DistinctInv, CountInv,
         LiveInv, HolderInv, FutureInv, CheckedInv, vars, dbVars, lockVars, thrVars
<1> QED
    BY <1>1, <1>2 DEF Next

\* A step changes what a reader sees of a box only as BoxStep allows.
LEMMA StepBoxStep == IInv /\ IInv' /\ Step => \A b \in Boxes : BoxStep(b)
<1> SUFFICES ASSUME IInv, IInv', Step, NEW b \in Boxes PROVE BoxStep(b)
    OBVIOUS
<1> USE StoreConstants DEF IInv, TypeOK, dbVars, lockVars, thrVars
<1>1. ASSUME UNCHANGED <<db, epoch>> PROVE BoxStep(b)
    BY <1>1, SMTT(30) DEF BoxStep, Visible
<1>2. ASSUME NEW t \in Threads, NEW c \in Boxes, NEW p \in Payloads, StartWrite(t, c, p)
      PROVE BoxStep(b)
    BY <1>1, <1>2, SMTT(30) DEF StartWrite
<1>3. ASSUME NEW t \in Threads, NEW c \in Boxes, StartTombstone(t, c) \/ StartRead(t, c)
      PROVE BoxStep(b)
    BY <1>1, <1>3, SMTT(30) DEF StartTombstone, StartRead
<1>4. ASSUME NEW t \in Threads,
             AcquireEntry(t) \/ LockBox(t) \/ UnlockBox(t) \/ ReleaseEntry(t) \/ Check(t)
      PROVE BoxStep(b)
    BY <1>1, <1>4 DEF AcquireEntry, LockBox, UnlockBox, ReleaseEntry, Check
<1>5. ASSUME NEW t \in Threads, GetNewest(t) \/ GetPrevious(t) \/ Finish(t)
      PROVE BoxStep(b)
    BY <1>1, <1>5, SMTT(30) DEF GetNewest, GetPrevious, Finish
<1>6. ASSUME NEW t \in Threads, Put(t), db' # db
      PROVE BoxStep(b)
  <2>1. /\ pc[t] = "put" /\ epoch' = epoch
        /\ db' = [db EXCEPT ![<<cur[t], op[t].box>>] = op[t].payload]
      BY <1>6, SMTT(30) DEF Put
  <2>2. op[t].box \in Boxes /\ cur[t] \in Epochs /\ cur[t] <= epoch
      BY <2>1 DEF LockInv, OpInv, Writing, Waiting, FutureInv
  <2>0. epoch \in Nat /\ epoch \in Epochs /\ (epoch # 0 => epoch - 1 \in Epochs /\ epoch > 0)
      BY SMTT(30) DEF Epochs
  <2>3. CASE op[t].box # b
      BY <2>1, <2>2, <2>3 DEF BoxStep, Visible, Epochs
  <2>4. CASE op[t].box = b /\ op[t].kind = "tombstone"
    <3>1. op[t].payload = Tombstone
        BY <2>1, <2>4 DEF LockInv, OpInv, Writing, Waiting
    <3>2. \A e \in Epochs :
              db'[<<e, b>>] = IF e = cur[t] THEN Tombstone ELSE db[<<e, b>>]
        BY <2>1, <2>2, <2>4, <3>1
    <3>3. Visible(b)' = Tombstone \/ Visible(b)' = Visible(b)
      <4>1. CASE cur[t] = epoch
          BY <2>0, <2>1, <3>2, <4>1, SMTT(30) DEF Visible, Values
      <4>2. CASE cur[t] # epoch
          BY <2>0, <2>1, <3>2, <4>2 DEF Visible
      <4> QED
          BY <4>1, <4>2, SMTT(30)
    <3> QED
        BY <3>3, SMTT(30) DEF BoxStep
  <2>5. CASE op[t].box = b /\ op[t].kind = "write"
    <3>1. /\ db[<<cur[t], b>>] = Absent
          /\ cur[t] > 0 => db[<<cur[t] - 1, b>>] = Absent
        BY <2>1, <2>5 DEF CheckedInv
    <3>2. \A e \in Epochs :
              db'[<<e, b>>] = IF e = cur[t] THEN op[t].payload ELSE db[<<e, b>>]
        BY <2>1, <2>2, <2>5
    <3>3. CASE cur[t] = epoch
      <4>1. Visible(b) = Absent
          BY <2>0, <3>1, <3>3 DEF Visible
      <4> QED
          BY <4>1 DEF BoxStep
    <3>4. CASE cur[t] # epoch /\ db[<<epoch, b>>] = Absent
      <4>1. Visible(b) = Absent \/ Visible(b)' = Visible(b)
          BY <2>0, <2>1, <3>1, <3>2, <3>4, Zenon DEF Visible
      <4> QED
          BY <4>1 DEF BoxStep
    <3>5. CASE cur[t] # epoch /\ db[<<epoch, b>>] # Absent
      <4>1. Visible(b)' = Visible(b)
          BY <2>0, <2>1, <3>2, <3>5 DEF Visible
      <4> QED
          BY <4>1 DEF BoxStep
    <3> QED
        BY <3>3, <3>4, <3>5, SMTT(30)
  <2> QED
      BY <2>1, <2>3, <2>4, <2>5 DEF LockInv, OpInv, Writing, Waiting
<1>7. ASSUME NEW t \in Threads, Put(t)
      PROVE BoxStep(b)
    BY <1>1, <1>6, <1>7, SMTT(30) DEF Put
<1>8. ASSUME WipeStaleBoxes PROVE BoxStep(b)
    BY <1>8 DEF WipeStaleBoxes, BoxStep, Visible, Epochs
<1>9. ASSUME RefreshStorageFull PROVE BoxStep(b)
    BY <1>1, <1>9 DEF RefreshStorageFull
<1>10. ASSUME EpochTick PROVE BoxStep(b)
  <2>1. epoch' = epoch + 1 /\ db' = db /\ epoch' \in Epochs
      BY <1>10 DEF EpochTick, Epochs
  <2>2. db[<<epoch + 1, b>>] = Absent
      BY <2>1 DEF FutureInv, Epochs
  <2> QED
      BY <2>1, <2>2 DEF BoxStep, Visible, Epochs
<1> QED
    BY <1>2, <1>3, <1>4, <1>5, <1>7, <1>8, <1>9, <1>10 DEF Step, HandlerStep

-----------------------------------------------------------------------------
\* Every variable of the store keeps its type in every execution.
THEOREM StoreTypeCorrect == Spec => []TypeOK
<1>1. IInv => TypeOK
    BY DEF IInv
<1> QED
    BY <1>1, InitIInv, StepIInv, PTL DEF Spec

\* acquireBoxLock and releaseBoxLock give mutual exclusion per box, for any
\* number of handlers and boxes, although lock entries come and go.
THEOREM BoxLockMutualExclusion == Spec => []BoxMutex
<1>1. IInv => BoxMutex
    BY LockInvMutex DEF IInv
<1> QED
    BY <1>1, InitIInv, StepIInv, PTL DEF Spec

\* Lock entries neither leak nor disappear under a waiting handler.
THEOREM LockMapIsExact == Spec => []LockMapExact
<1>1. IInv => LockMapExact
  <2> SUFFICES ASSUME IInv, NEW b \in Boxes
               PROVE boxLocks[b] = NoLock <=> ~ \E t \in Threads : pc[t] \in Waiting /\ op[t].box = b
      BY DEF LockMapExact
  <2>1. ASSUME NEW t \in Threads, pc[t] \in Waiting, op[t].box = b
        PROVE  boxLocks[b] # NoLock
      BY <2>1, StoreConstants DEF IInv, LockInv, EntryInv
  <2>2. ASSUME boxLocks[b] # NoLock
        PROVE  \E t \in Threads : pc[t] \in Waiting /\ op[t].box = b
    <3>1. boxLocks[b] \in LockIds
        BY <2>2 DEF IInv, TypeOK
    <3>2. Cardinality(Users(boxLocks[b])) # 0
        BY <2>2, <3>1 DEF IInv, LockInv, LiveInv, CountInv
    <3>3. PICK t : t \in Users(boxLocks[b])
        BY <3>2, FS_EmptySet, UsersFinite
    <3>4. t \in Threads /\ pc[t] \in Waiting /\ lk[t] = boxLocks[b]
        BY <3>3 DEF Users
    <3>5. op[t].box \in Boxes /\ boxLocks[op[t].box] = boxLocks[b]
        BY <3>4 DEF IInv, LockInv, OpInv, EntryInv, Writing
    <3> QED
        BY <2>2, <3>4, <3>5 DEF IInv, LockInv, DistinctInv
  <2> QED
      BY <2>1, <2>2
<1> QED
    BY <1>1, InitIInv, StepIInv, PTL DEF Spec

\* Writes are immutable, deletions are final and nothing disappears before
\* its second epoch ends: the promise of handleReplicaWrite,
\* handleReplicaTombstone and WipeStaleBoxes together.
THEOREM StoredBoxesImmutable == Spec => ImmutableBoxes
<1>1. IInv /\ IInv' /\ [Next]_vars => [\A b \in Boxes : BoxStep(b)]_vars
    BY StepBoxStep DEF Next
<1> QED
    BY <1>1, InitIInv, StepIInv, PTL DEF Spec, ImmutableBoxes

-----------------------------------------------------------------------------
(* Reads. *)

\* A handler that has read the epoch runs in it or in the next one, and the box it is about to Put
\* has nothing in a newer epoch.
SpanInv ==
    \A t \in Threads : pc[t] \in {"put", "get", "getprev"} =>
        /\ epoch <= cur[t] + 1
        /\ pc[t] = "put" => \A e \in Epochs : e > cur[t] => db[<<e, op[t].box>>] = Absent

\* What a running read will find in the epoch it looks at next, and in the one after that, its window
\* already holds; and if it found nothing newer and there is nothing older, the box was absent.
ReadInv ==
    \A t \in Threads : pc[t] \in {"get", "getprev"} =>
        LET b == op[t].box  c == cur[t] IN
        /\ b \in Boxes /\ op[t].kind = "read" /\ Visible(b) \in window[t]
        /\ pc[t] = "get" /\ db[<<c, b>>] # Absent => db[<<c, b>>] \in window[t]
        /\ pc[t] = "get" /\ db[<<c, b>>] = Absent /\ c > 0 /\ db[<<c - 1, b>>] # Absent => db[<<c - 1, b>>] \in window[t]
        /\ pc[t] = "getprev" =>
              /\ c > 0
              /\ db[<<c - 1, b>>] # Absent => db[<<c - 1, b>>] \in window[t]
              /\ c = epoch /\ db[<<c - 1, b>>] = Absent => Absent \in window[t]

\* Every handler has a reply variable.
ReplyInv == reply = [t \in Threads |-> reply[t]]

RIInv == IInv /\ ReplyInv /\ SpanInv /\ ReadInv /\ ReadLinearizable

\* A handler that a step does not move.
Still(t) == pc'[t] = pc[t] /\ op'[t] = op[t] /\ cur'[t] = cur[t] /\ reply'[t] = reply[t]

\* A step of one handler: what it starts, or what it does next.
Moves(s) ==
    \/ HandlerStep(s)
    \/ \E b \in Boxes, p \in Payloads : StartWrite(s, b, p)
    \/ \E b \in Boxes : StartTombstone(s, b) \/ StartRead(s, b)

LEMMA StepCases == Step <=> (\E s \in Threads : Moves(s)) \/ WipeStaleBoxes \/ RefreshStorageFull \/ EpochTick
BY Zenon DEF Step, Moves

\* A handler changes no reply but its own, and no other handler moves.
LEMMA RepliesOnly ==
    ASSUME ReplyInv, NEW s \in Threads, Moves(s)
    PROVE  ReplyInv' /\ \A t \in Threads : t # s => reply'[t] = reply[t]
<1>1. (\E r : Answer(s, r)) \/ UNCHANGED reply
  <2>1. CASE AcquireEntry(s) \/ LockBox(s) \/ UnlockBox(s) \/ ReleaseEntry(s)
      BY <2>1, SMTT(30) DEF AcquireEntry, LockBox, UnlockBox, ReleaseEntry
  <2>2. CASE Check(s) \/ Put(s)
      BY <2>2, SMTT(30) DEF Check, Put
  <2>3. CASE GetNewest(s) \/ GetPrevious(s) \/ Finish(s)
      BY <2>3 DEF GetNewest, GetPrevious, Finish
  <2>4. CASE \E b \in Boxes, p \in Payloads : StartWrite(s, b, p)
      BY <2>4 DEF StartWrite
  <2>5. CASE \E b \in Boxes : StartTombstone(s, b) \/ StartRead(s, b)
      BY <2>5 DEF StartTombstone, StartRead
  <2> QED
      BY <2>1, <2>2, <2>3, <2>4, <2>5, SMTT(30) DEF Moves, HandlerStep
<1>2. ASSUME NEW r, Answer(s, r) PROVE ReplyInv' /\ \A t \in Threads : t # s => reply'[t] = reply[t]
  <2>1. reply' = [t \in Threads |-> IF t = s THEN r ELSE reply[t]]
      BY <1>2 DEF Answer, ReplyInv
  <2> QED
      BY <2>1 DEF ReplyInv
<1>3. CASE UNCHANGED reply
    BY <1>3 DEF ReplyInv
<1> QED
    BY <1>1, <1>2, <1>3

LEMMA StillOthers ==
    ASSUME TypeOK, ReplyInv, NEW s \in Threads, NEW t \in Threads, s # t, Moves(s)
    PROVE  Still(t)
<1>0. reply'[t] = reply[t]
    BY RepliesOnly
<1> USE <1>0 DEF TypeOK, Still, Goto
<1>1. CASE AcquireEntry(s) \/ LockBox(s) \/ UnlockBox(s) \/ ReleaseEntry(s)
    BY <1>1, Zenon DEF AcquireEntry, LockBox, UnlockBox, ReleaseEntry
<1>2. CASE Check(s) \/ Put(s)
    BY <1>2 DEF Check, Put
<1>3. CASE GetNewest(s) \/ GetPrevious(s) \/ Finish(s)
    BY <1>3, SMTT(30) DEF GetNewest, GetPrevious, Finish
<1>4. CASE \E b \in Boxes, p \in Payloads : StartWrite(s, b, p)
    BY <1>4, SMTT(30) DEF StartWrite
<1>5. CASE \E b \in Boxes : StartTombstone(s, b) \/ StartRead(s, b)
    BY <1>5 DEF StartTombstone, StartRead
<1> QED
    BY <1>1, <1>2, <1>3, <1>4, <1>5, Zenon DEF HandlerStep, Moves

\* The epoch only grows, and only EpochTick moves it.
LEMMA EpochGrows == IInv /\ Step => epoch' \in {epoch, epoch + 1} /\ epoch \in Nat
<1> SUFFICES ASSUME IInv, Step PROVE epoch' \in {epoch, epoch + 1} /\ epoch \in Nat
    OBVIOUS
<1>1. epoch \in Nat
    BY DEF IInv, TypeOK, Epochs
<1>2. ASSUME NEW s \in Threads, Moves(s) PROVE epoch' = epoch
    BY <1>2, Zenon DEF Moves, HandlerStep, dbVars, StartWrite, StartTombstone, StartRead, AcquireEntry, LockBox,
       Check, Put, UnlockBox, ReleaseEntry, GetNewest, GetPrevious, Finish
<1> QED
    BY <1>1, <1>2, StepCases DEF WipeStaleBoxes, RefreshStorageFull, EpochTick

\* No handler falls two epochs behind, and no newer box appears under the lock of a late Put.
LEMMA StepSpanInv == IInv /\ ReplyInv /\ SpanInv /\ Step => SpanInv'
<1> SUFFICES ASSUME IInv, ReplyInv, SpanInv, Step, NEW t \in Threads, pc'[t] \in {"put", "get", "getprev"}
             PROVE  /\ epoch' <= cur'[t] + 1
                    /\ pc'[t] = "put" => \A e \in Epochs : e > cur'[t] => db'[<<e, op'[t].box>>] = Absent
    BY Zenon DEF SpanInv
<1> DEFINE Goal == /\ epoch' <= cur'[t] + 1
                   /\ pc'[t] = "put" => \A e \in Epochs : e > cur'[t] => db'[<<e, op'[t].box>>] = Absent
<1>0. BoxMutex /\ TypeOK /\ epoch \in Nat /\ \A u \in Threads : cur[u] \in Nat
    BY LockInvMutex DEF IInv, TypeOK, Epochs
<1>1. ASSUME Still(t), UNCHANGED <<db, epoch>> PROVE Goal
    BY <1>1, SMTT(30) DEF SpanInv, Still
<1>2. ASSUME NEW s \in Threads,
             \/ AcquireEntry(s) \/ LockBox(s) \/ UnlockBox(s) \/ ReleaseEntry(s) \/ Finish(s)
             \/ \E b \in Boxes, p \in Payloads : StartWrite(s, b, p)
             \/ \E b \in Boxes : StartTombstone(s, b)
      PROVE Goal
  <2>1. s # t
      BY <1>2, ZenonT(30) DEF IInv, TypeOK, Goto, AcquireEntry, LockBox, UnlockBox, ReleaseEntry, Finish, StartWrite, StartTombstone
  <2>2. UNCHANGED <<db, epoch>>
      BY <1>2, SMTT(30) DEF dbVars, AcquireEntry, LockBox, UnlockBox, ReleaseEntry, Finish, StartWrite, StartTombstone
  <2> QED
      BY <1>0, <1>1, <1>2, <2>1, <2>2, StillOthers, Zenon DEF Moves, HandlerStep
<1>3. ASSUME NEW s \in Threads, Check(s) PROVE Goal
  <2>1. CASE s = t
    <3>1. cur'[t] = epoch /\ op' = op /\ UNCHANGED <<db, epoch>> /\ pc[t] = "check"
        BY <1>3, <2>1 DEF Check, IInv, TypeOK, dbVars
    <3>2. op[t].box \in Boxes
        BY <3>1 DEF IInv, LockInv, OpInv, Writing, Waiting
    <3> QED
        BY <1>0, <3>1, <3>2 DEF IInv, FutureInv
  <2>2. CASE s # t
      BY <1>0, <1>1, <1>3, <2>2, StillOthers, Zenon DEF Moves, HandlerStep, Check, dbVars
  <2> QED
      BY <2>1, <2>2
<1>4. ASSUME NEW s \in Threads, Put(s) PROVE Goal
  <2>1. s # t /\ UNCHANGED epoch /\ pc[s] = "put" /\ Still(t)
      BY <1>0, <1>4, StillOthers, Zenon DEF Moves, HandlerStep, Put, Goto, TypeOK
  <2>2. pc[t] = "put" => op[s].box # op[t].box
      BY <1>0, <2>1 DEF BoxMutex, Critical
  <2>3. ASSUME pc[t] = "put", NEW e \in Epochs PROVE db'[<<e, op[t].box>>] = db[<<e, op[t].box>>]
    <3>1. op[t].box \in Boxes /\ op[s].box \in Boxes
        BY <2>1, <2>3 DEF IInv, LockInv, OpInv, Writing, Waiting
    <3>2. <<e, op[t].box>> # <<cur[s], op[s].box>> /\ <<e, op[t].box>> \in Epochs \X Boxes
        BY <2>2, <2>3, <3>1
    <3> QED
        BY <1>0, <1>4, <3>2, SMTT(30) DEF Put, TypeOK
  <2> QED
      BY <2>1, <2>3 DEF SpanInv, Still
<1>5. ASSUME NEW s \in Threads, GetNewest(s) \/ GetPrevious(s) PROVE Goal
  <2>1. UNCHANGED <<db, epoch, cur, op>> /\ pc[s] \in {"get", "getprev"} /\ pc'[s] \in {"getprev", "done"}
      BY <1>0, <1>5 DEF GetNewest, GetPrevious, dbVars, Goto, TypeOK
  <2>2. CASE s = t
      BY <2>1, <2>2 DEF SpanInv
  <2>3. CASE s # t
      BY <1>0, <1>1, <1>5, <2>1, <2>3, StillOthers, Zenon DEF Moves, HandlerStep
  <2> QED
      BY <2>2, <2>3
<1>6. ASSUME NEW s \in Threads, NEW b \in Boxes, StartRead(s, b) PROVE Goal
  <2>1. CASE s = t
      BY <1>0, <1>6, <2>1, SMTT(30) DEF StartRead, dbVars, Goto, TypeOK
  <2>2. CASE s # t
      BY <1>0, <1>1, <1>6, <2>2, StillOthers, Zenon DEF Moves, StartRead, dbVars
  <2> QED
      BY <2>1, <2>2, SMTT(30)
<1>7. ASSUME WipeStaleBoxes PROVE Goal
  <2>1. Still(t) /\ UNCHANGED epoch /\ \A k \in Epochs \X Boxes : db[k] = Absent => db'[k] = Absent
      BY <1>7 DEF WipeStaleBoxes, thrVars, Still
  <2>2. pc[t] = "put" => op[t].box \in Boxes
      BY DEF IInv, LockInv, OpInv, Writing, Waiting
  <2> QED
      BY <2>1, <2>2 DEF SpanInv, Still
<1>8. CASE RefreshStorageFull
    BY <1>1, <1>8 DEF RefreshStorageFull, thrVars, Still
<1>9. CASE EpochTick
    BY <1>0, <1>9 DEF EpochTick, thrVars, SpanInv, NoRequestSpansAnEpoch
<1> QED
    BY <1>2, <1>3, <1>4, <1>5, <1>6, <1>7, <1>8, <1>9, Zenon DEF Step, HandlerStep

\* What RecordWindow adds to the window of a read that goes on, and of one that is answered.
LEMMA WindowEffect ==
    ASSUME RecordWindow, NEW t \in Threads
    PROVE  /\ pc'[t] \in {"get", "getprev"} => window'[t] = window[t] \cup {Visible(op[t].box)'}
           /\ pc'[t] = "done" => window'[t] = window[t]
BY DEF RecordWindow

\* What a step leaves visible of a box.
NowVisible(b) ==
    IF db'[<<epoch', b>>] # Absent \/ epoch' = 0 THEN db'[<<epoch', b>>] ELSE db'[<<epoch' - 1, b>>]

\* How a step may change what is stored under epoch e for the box of a running read: not at all, to
\* what is then visible, or by WipeStaleBoxes once the epoch of the read is over.
Follows(t, e) ==
    LET b == op[t].box IN
    \/ db'[<<e, b>>] = db[<<e, b>>]
    \/ db'[<<e, b>>] # Absent /\ NowVisible(b) = db'[<<e, b>>]
    \/ db'[<<e, b>>] = Absent /\ e = cur[t] - 1 /\ cur[t] < epoch'

LEMMA StoreFollows ==
    ASSUME IInv, ReplyInv, SpanInv, ReadInv, Step, NEW t \in Threads, pc[t] \in {"get", "getprev"}, Still(t),
           NEW e \in Epochs, e \in {cur[t], cur[t] - 1}
    PROVE  Follows(t, e)
<1> DEFINE b == op[t].box
<1>0. /\ b \in Boxes /\ op'[t] = op[t] /\ cur[t] \in Nat /\ epoch \in Nat /\ epoch <= cur[t] + 1 /\ e \in Nat
      /\ db \in [Epochs \X Boxes -> Values \cup {Absent}]
  <2>1. b \in Boxes /\ op'[t] = op[t] /\ epoch <= cur[t] + 1
      BY Zenon DEF ReadInv, Still, SpanInv
  <2> QED
      BY <2>1, SMTT(30) DEF IInv, TypeOK, Epochs
<1>1. CASE UNCHANGED db
    BY <1>1, SMTT(30) DEF Follows
<1>2. ASSUME NEW s \in Threads, Put(s), db'[<<e, b>>] # db[<<e, b>>] PROVE Follows(t, e)
  <2>1. /\ pc[s] = "put" /\ epoch' = epoch
        /\ db' = [db EXCEPT ![<<cur[s], op[s].box>>] = op[s].payload]
      BY <1>2, SMTT(30) DEF Put
  <2>2. /\ op[s].box \in Boxes /\ op[s].payload \in Values /\ cur[s] \in Epochs /\ cur[s] <= epoch
        /\ epoch <= cur[s] + 1 /\ \A f \in Epochs : f > cur[s] => db[<<f, op[s].box>>] = Absent
      BY <2>1 DEF IInv, LockInv, OpInv, Writing, Waiting, TypeOK, FutureInv, SpanInv, Values
  <2>3. cur[s] = e /\ op[s].box = b /\ db'[<<e, b>>] = op[s].payload
      BY <1>0, <1>2, <2>1, <2>2, SMTT(30)
  <2>4. db'[<<e, b>>] # Absent
      BY <2>2, <2>3, StoreConstants, SMTT(30)
  <2>5. CASE e = epoch
    <3>1. NowVisible(b) = db'[<<e, b>>]
        BY <2>1, <2>4, <2>5 DEF NowVisible
    <3> QED
        BY <1>0, <2>4, <3>1 DEF Follows
  <2>6. CASE e # epoch
    <3>1. e = epoch - 1 /\ epoch # 0 /\ epoch > e /\ epoch \in Epochs
      <4>1. e <= epoch /\ epoch <= e + 1 /\ e \in Nat /\ epoch \in Nat
          BY <1>0, <2>2, <2>3
      <4>2. epoch \in Epochs
          BY DEF IInv, TypeOK
      <4> QED
          BY <2>6, <4>1, <4>2
    <3>2. db[<<epoch, b>>] = Absent /\ db'[<<epoch, b>>] = db[<<epoch, b>>]
        BY <1>0, <2>1, <2>2, <2>3, <3>1, SMTT(30)
    <3>3. NowVisible(b) = db'[<<e, b>>]
        BY <2>1, <3>1, <3>2 DEF NowVisible
    <3> QED
        BY <1>0, <2>4, <3>3 DEF Follows
  <2> QED
      BY <2>5, <2>6, SMTT(30)
<1>3. CASE WipeStaleBoxes
  <2>1. db'[<<e, b>>] = (IF e < epoch - 1 THEN Absent ELSE db[<<e, b>>]) /\ epoch' = epoch
      BY <1>0, <1>3, SMTT(30) DEF WipeStaleBoxes
  <2>2. CASE e < epoch - 1
      BY <1>0, <2>1, <2>2, SMTT(30) DEF Follows
  <2>3. CASE ~(e < epoch - 1)
      BY <2>1, <2>3, SMTT(30) DEF Follows
  <2> QED
      BY <2>2, <2>3
<1>4. ASSUME NEW s \in Threads, Put(s) PROVE Follows(t, e)
    BY <1>2, <1>4 DEF Follows
<1>5. ASSUME NEW s \in Threads, Moves(s), ~Put(s) PROVE UNCHANGED db
    BY <1>5, Zenon DEF Moves, HandlerStep, dbVars, StartWrite, StartTombstone, StartRead, AcquireEntry, LockBox,
       Check, UnlockBox, ReleaseEntry, GetNewest, GetPrevious, Finish
<1> QED
    BY <1>1, <1>3, <1>4, <1>5, StepCases, SMTT(30) DEF RefreshStorageFull, EpochTick

\* A running read that the step does not move keeps what it relies on.
LEMMA ReadKept ==
    ASSUME IInv, ReplyInv, SpanInv, ReadInv, Step, RecordWindow, NEW t \in Threads,
           pc[t] \in {"get", "getprev"}, Still(t)
    PROVE  LET b == op'[t].box  c == cur'[t] IN
           /\ b \in Boxes /\ op'[t].kind = "read" /\ NowVisible(b) \in window'[t]
           /\ pc'[t] = "get" /\ db'[<<c, b>>] # Absent => db'[<<c, b>>] \in window'[t]
           /\ pc'[t] = "get" /\ db'[<<c, b>>] = Absent /\ c > 0 /\ db'[<<c - 1, b>>] # Absent
                 => db'[<<c - 1, b>>] \in window'[t]
           /\ pc'[t] = "getprev" =>
                 /\ c > 0
                 /\ db'[<<c - 1, b>>] # Absent => db'[<<c - 1, b>>] \in window'[t]
                 /\ c = epoch' /\ db'[<<c - 1, b>>] = Absent => Absent \in window'[t]
<1> DEFINE b == op[t].box
           c == cur[t]
           w == NowVisible(b)
<1>0. /\ b \in Boxes /\ op'[t] = op[t] /\ cur'[t] = c /\ pc'[t] = pc[t]
      /\ c \in Epochs /\ c \in Nat /\ (c > 0 => c - 1 \in Epochs) /\ c <= epoch /\ epoch \in Nat /\ epoch' \in {epoch, epoch + 1}
  <2>1. b \in Boxes /\ op'[t] = op[t] /\ cur'[t] = c /\ pc'[t] = pc[t]
      BY Zenon DEF ReadInv, Still
  <2>2. c \in Epochs /\ c \in Nat /\ (c > 0 => c - 1 \in Epochs) /\ c <= epoch
      BY StoreConstants, SMTT(30) DEF IInv, TypeOK, FutureInv, Epochs
  <2> QED
      BY <2>1, <2>2, EpochGrows, Zenon
<1>1. window'[t] = window[t] \cup {w}
  <2>1. pc'[t] \in {"get", "getprev"} /\ Visible(op[t].box)' = NowVisible(op'[t].box)
      BY <1>0, SMTT(30) DEF NowVisible, Visible
  <2> QED
      BY <1>0, <2>1, WindowEffect, SMTT(30)
<1>2. db'[<<c, b>>] = db[<<c, b>>] \/ (db'[<<c, b>>] # Absent /\ w = db'[<<c, b>>])
    BY <1>0, StoreFollows, SMTT(30) DEF Follows
<1>3. c > 0 => \/ db'[<<c - 1, b>>] = db[<<c - 1, b>>]
               \/ db'[<<c - 1, b>>] # Absent /\ w = db'[<<c - 1, b>>]
               \/ db'[<<c - 1, b>>] = Absent /\ c < epoch'
    BY <1>0, StoreFollows, SMTT(30) DEF Follows
<1>4. /\ op[t].kind = "read"
      /\ pc[t] = "get" /\ db[<<c, b>>] # Absent => db[<<c, b>>] \in window[t]
      /\ pc[t] = "get" /\ db[<<c, b>>] = Absent /\ c > 0 /\ db[<<c - 1, b>>] # Absent => db[<<c - 1, b>>] \in window[t]
      /\ pc[t] = "getprev" =>
            /\ c > 0
            /\ db[<<c - 1, b>>] # Absent => db[<<c - 1, b>>] \in window[t]
            /\ c = epoch /\ db[<<c - 1, b>>] = Absent => Absent \in window[t]
    BY SMTT(30) DEF ReadInv
<1>5. NowVisible(op'[t].box) = w
    BY <1>0
<1> HIDE DEF w, c, b
<1>6. pc[t] = "getprev" /\ c = epoch' => c = epoch
    BY <1>0, SMTT(30)
<1>7. /\ pc[t] = "get" /\ db'[<<c, b>>] # Absent => db'[<<c, b>>] \in window'[t]
      /\ pc[t] = "get" /\ db'[<<c, b>>] = Absent /\ c > 0 /\ db'[<<c - 1, b>>] # Absent
            => db'[<<c - 1, b>>] \in window'[t]
      /\ pc[t] = "getprev" =>
            /\ c > 0
            /\ db'[<<c - 1, b>>] # Absent => db'[<<c - 1, b>>] \in window'[t]
            /\ c = epoch' /\ db'[<<c - 1, b>>] = Absent => Absent \in window'[t]
    BY <1>0, <1>1, <1>2, <1>3, <1>4, <1>6, SMTT(30)
<1>8. op'[t].box = b /\ cur'[t] = c /\ pc'[t] = pc[t] /\ op'[t].kind = "read" /\ w \in window'[t] /\ b \in Boxes
    BY <1>0, <1>1, <1>4 DEF b
<1> QED
    BY <1>5, <1>7, <1>8, Zenon

\* A read that starts or moves on relies on what is visible then.
LEMMA StepReadInv ==
    ASSUME IInv, ReplyInv, SpanInv, ReadInv, Step, RecordWindow
    PROVE  ReadInv'
<1> DEFINE Relies(t) ==
      LET b == op'[t].box  c == cur'[t] IN
      /\ b \in Boxes /\ op'[t].kind = "read" /\ NowVisible(b) \in window'[t]
      /\ pc'[t] = "get" /\ db'[<<c, b>>] # Absent => db'[<<c, b>>] \in window'[t]
      /\ pc'[t] = "get" /\ db'[<<c, b>>] = Absent /\ c > 0 /\ db'[<<c - 1, b>>] # Absent
            => db'[<<c - 1, b>>] \in window'[t]
      /\ pc'[t] = "getprev" =>
            /\ c > 0
            /\ db'[<<c - 1, b>>] # Absent => db'[<<c - 1, b>>] \in window'[t]
            /\ c = epoch' /\ db'[<<c - 1, b>>] = Absent => Absent \in window'[t]
<1> SUFFICES ASSUME NEW t \in Threads, pc'[t] \in {"get", "getprev"} PROVE Relies(t)
    BY ZenonT(30) DEF ReadInv, NowVisible, Visible
<1>0. TypeOK /\ epoch \in Nat /\ cur[t] \in Nat /\ window'[t] = window[t] \cup {NowVisible(op'[t].box)}
  <2>1. Visible(op[t].box)' = NowVisible(op'[t].box)
      BY ZenonT(30) DEF NowVisible, Visible
  <2> QED
      BY <2>1, WindowEffect, SMTT(60) DEF IInv, TypeOK, Epochs
<1>1. ASSUME Still(t) PROVE Relies(t)
    BY <1>1, ReadKept, SMTT(30) DEF Still
<1>2. ASSUME NEW b \in Boxes, StartRead(t, b) PROVE Relies(t)
  <2>1. /\ pc'[t] = "get" /\ op'[t].box = b /\ op'[t].kind = "read" /\ cur'[t] = epoch
        /\ UNCHANGED <<db, epoch>>
      BY <1>0, <1>2, SMTT(30) DEF StartRead, Goto, TypeOK, dbVars
  <2>2. NowVisible(b) = IF db[<<epoch, b>>] # Absent \/ epoch = 0 THEN db[<<epoch, b>>] ELSE db[<<epoch - 1, b>>]
      BY <2>1, SMTT(30) DEF NowVisible
  <2> QED
      BY <1>0, <2>1, <2>2, SMTT(30)
<1>3. ASSUME GetNewest(t) PROVE Relies(t)
  <2>1. /\ pc[t] = "get" /\ pc'[t] = "getprev" /\ db[<<cur[t], op[t].box>>] = Absent /\ cur[t] > 0
        /\ UNCHANGED <<db, epoch, op, cur>>
      BY <1>0, <1>3, SMTT(30) DEF GetNewest, Goto, TypeOK, dbVars
  <2>2. /\ op[t].box \in Boxes /\ op[t].kind = "read"
        /\ db[<<cur[t] - 1, op[t].box>>] # Absent => db[<<cur[t] - 1, op[t].box>>] \in window[t]
      BY <2>1, SMTT(30) DEF ReadInv
  <2>3. cur[t] = epoch => NowVisible(op[t].box) = db[<<cur[t] - 1, op[t].box>>]
      BY <1>0, <2>1 DEF NowVisible
  <2> QED
      BY <1>0, <2>1, <2>2, <2>3, SMTT(30)
<1>4. ASSUME Moves(t), ~GetNewest(t), ~ \E b \in Boxes : StartRead(t, b) PROVE FALSE
    BY <1>0, <1>4, Zenon DEF Moves, HandlerStep, Goto, TypeOK, StartWrite, StartTombstone, AcquireEntry, LockBox,
       Check, Put, UnlockBox, ReleaseEntry, GetPrevious, Finish
<1>5. ASSUME NEW s \in Threads, Moves(s), s # t PROVE Still(t)
    BY <1>0, <1>5, StillOthers, SMTT(30)
<1>6. CASE WipeStaleBoxes \/ RefreshStorageFull \/ EpochTick
    BY <1>1, <1>6 DEF WipeStaleBoxes, RefreshStorageFull, EpochTick, thrVars, Still
<1> QED
    BY <1>1, <1>2, <1>3, <1>4, <1>5, <1>6, StepCases, Zenon

\* The answer a read gives: what its box held at some time while it ran.
LEMMA StepAnswers ==
    ASSUME RIInv, Step, RecordWindow
    PROVE  ReadLinearizable'
<1> DEFINE Fits(t) == \/ reply'[t] \in {ReadReply(v) : v \in window'[t]}
                      \/ reply'[t] = "NotFound" /\ cur'[t] < epoch'
<1> SUFFICES ASSUME NEW t \in Threads, pc'[t] = "done", op'[t].kind = "read", reply'[t] # "DatabaseFailure"
             PROVE  Fits(t)
    BY SMTT(30) DEF ReadLinearizable
<1>0. /\ TypeOK /\ IInv /\ ReplyInv /\ epoch \in Nat /\ cur[t] \in Nat /\ window'[t] = window[t]
      /\ epoch' \in {epoch, epoch + 1}
    BY WindowEffect, EpochGrows, SMTT(60) DEF RIInv, IInv, TypeOK, Epochs
<1>1. ASSUME Still(t) PROVE Fits(t)
  <2>1. reply'[t] = reply[t] /\ cur'[t] = cur[t] /\ window'[t] = window[t]
      BY <1>0, <1>1, Zenon DEF Still
  <2>2. reply[t] \in {ReadReply(v) : v \in window[t]} \/ (reply[t] = "NotFound" /\ cur[t] < epoch)
      BY <1>1, Zenon DEF Still, RIInv, ReadLinearizable
  <2>3. ASSUME cur[t] < epoch PROVE cur'[t] < epoch'
      BY <1>0, <2>1, <2>3, SMTT(30)
  <2> QED
      BY <2>1, <2>2, <2>3, Zenon
<1>2. ASSUME GetNewest(t) PROVE Fits(t)
  <2> DEFINE v == db[<<cur[t], op[t].box>>]
  <2>1. /\ pc[t] = "get" /\ reply'[t] = ReadReply(v) /\ UNCHANGED <<epoch, cur>>
        /\ v = Absent => ~(cur[t] > 0)
    <3>1. pc[t] = "get" /\ UNCHANGED <<epoch, cur>> /\ (\E r : reply' = [reply EXCEPT ![t] = r])
        BY <1>0, <1>2, Zenon DEF GetNewest, dbVars, Answer, Goto, TypeOK
    <3>2. ~(v = Absent /\ cur[t] > 0) /\ (Answer(t, "DatabaseFailure") \/ Answer(t, ReadReply(v)))
      <4>1. ~Goto(t, "getprev")
          BY <1>0, SMTT(30) DEF Goto, TypeOK
      <4>2. \/ Answer(t, "DatabaseFailure")
            \/ IF v = Absent /\ cur[t] > 0 THEN Goto(t, "getprev") ELSE Answer(t, ReadReply(v))
          BY <1>2 DEF GetNewest
      <4>3. ~Answer(t, "DatabaseFailure")
          BY <1>0 DEF Answer, ReplyInv
      <4> QED
          BY <4>1, <4>2, <4>3, SMTT(30)
    <3>3. \A r : Answer(t, r) => reply'[t] = r
        BY <1>0 DEF Answer, ReplyInv
    <3> QED
        BY <3>1, <3>2, <3>3
  <2>2. v # Absent => v \in window[t]
      BY <2>1, Zenon DEF RIInv, ReadInv
  <2>3. v = Absent /\ cur[t] = epoch => v \in window[t]
    <3>1. cur[t] = epoch /\ ~(cur[t] > 0) => Visible(op[t].box) = v
        BY <1>0 DEF Visible
    <3> QED
        BY <2>1, <3>1, Zenon DEF RIInv, ReadInv
  <2>4. v = Absent => ReadReply(v) = "NotFound"
      BY StoreConstants, SMTT(30) DEF ReadReply, Values
  <2>5. cur[t] <= epoch
      BY DEF RIInv, IInv, FutureInv
  <2> HIDE DEF v
  <2> QED
      BY <1>0, <2>1, <2>2, <2>3, <2>4, <2>5, SMTT(30)
<1>3. ASSUME GetPrevious(t) PROVE Fits(t)
  <2> DEFINE v == db[<<cur[t] - 1, op[t].box>>]
  <2>1. pc[t] = "getprev" /\ reply'[t] = ReadReply(v) /\ UNCHANGED <<epoch, cur>>
    <3>1. \A r : Answer(t, r) => reply'[t] = r
        BY <1>0 DEF Answer, ReplyInv
    <3> QED
        BY <1>3, <3>1, Zenon DEF GetPrevious, dbVars
  <2>2. (v # Absent => v \in window[t]) /\ (cur[t] = epoch /\ v = Absent => Absent \in window[t])
      BY <2>1, Zenon DEF RIInv, ReadInv
  <2>3. v = Absent => ReadReply(v) = "NotFound"
      BY StoreConstants DEF ReadReply, Values
  <2>4. cur[t] <= epoch
      BY DEF RIInv, IInv, FutureInv
  <2> HIDE DEF v
  <2> QED
      BY <1>0, <2>1, <2>2, <2>3, <2>4
<1>4. ASSUME Moves(t), ~GetNewest(t), ~GetPrevious(t) PROVE FALSE
  <2>1. CASE ReleaseEntry(t)
      BY <1>0, <2>1, ZenonT(30) DEF ReleaseEntry, IInv, LockInv, OpInv, Writing, Waiting
  <2>2. CASE \E b \in Boxes, p \in Payloads : StartWrite(t, b, p)
      BY <1>0, <2>2, SMTT(30) DEF StartWrite, TypeOK
  <2>3. CASE \E b \in Boxes : StartTombstone(t, b)
      BY <1>0, <2>3 DEF StartTombstone, TypeOK
  <2> QED
      BY <1>0, <1>4, <2>1, <2>2, <2>3, Zenon DEF Moves, HandlerStep, Goto, TypeOK, AcquireEntry, LockBox,
         Check, Put, UnlockBox, Finish, StartRead
<1>5. ASSUME NEW s \in Threads, Moves(s), s # t PROVE Still(t)
    BY <1>0, <1>5, StillOthers, Zenon
<1>6. CASE WipeStaleBoxes \/ RefreshStorageFull \/ EpochTick
    BY <1>1, <1>6 DEF WipeStaleBoxes, RefreshStorageFull, EpochTick, thrVars, Still
<1> QED
    BY <1>1, <1>2, <1>3, <1>4, <1>5, <1>6, StepCases, Zenon

\* A read takes no lock and looks at two epochs in turn, while writes, tombstones, the epoch change
\* and WipeStaleBoxes go on; whatever it answers (handleReplicaRead), its box held while it ran, or
\* was collected after the epoch it began in, for any number of handlers, boxes and epochs.
THEOREM ReadsLinearizable == Spec => []ReadLinearizable
<1>1. Init => RIInv
  <2> SUFFICES ASSUME Init PROVE RIInv
      OBVIOUS
  <2>1. ReplyInv
      BY SMTT(30) DEF Init, ReplyInv
  <2>2. SpanInv /\ ReadInv /\ ReadLinearizable
      BY DEF Init, SpanInv, ReadInv, ReadLinearizable
  <2> QED
      BY <2>1, <2>2, InitIInv DEF RIInv
<1>2. RIInv /\ [Next]_vars => RIInv'
  <2> SUFFICES ASSUME RIInv, [Next]_vars PROVE RIInv'
      OBVIOUS
  <2>1. IInv'
      BY StepIInv, SMTT(30) DEF RIInv
  <2>2. CASE UNCHANGED vars
      BY <2>1, <2>2 DEF RIInv, ReplyInv, SpanInv, ReadInv, ReadLinearizable, Visible, vars, dbVars, lockVars, thrVars
  <2>3. CASE Step /\ RecordWindow
    <3>1. ReplyInv'
      <4>1. CASE \E s \in Threads : Moves(s)
          BY <4>1, RepliesOnly, Zenon DEF RIInv
      <4>2. CASE WipeStaleBoxes \/ RefreshStorageFull \/ EpochTick
          BY <4>2 DEF WipeStaleBoxes, RefreshStorageFull, EpochTick, thrVars, RIInv, ReplyInv
      <4> QED
          BY <2>3, <4>1, <4>2, StepCases
    <3>2. SpanInv' /\ ReadInv' /\ ReadLinearizable'
        BY <2>3, StepSpanInv, StepReadInv, StepAnswers DEF RIInv
    <3> QED
        BY <2>1, <3>1, <3>2 DEF RIInv
  <2> QED
      BY <2>2, <2>3 DEF Next
<1>3. RIInv => ReadLinearizable
    BY DEF RIInv
<1> QED
    BY <1>1, <1>2, <1>3, PTL DEF Spec
=============================================================================
