------------------------------ MODULE NodePKI ------------------------------
(***************************************************************************)
(* How a node of the network lives with the directory: the PKI worker of a *)
(* mix (server/internal/pki), of a storage replica (replica/pki.go) and of *)
(* a courier (courier/server/pki.go), the client it reaches the            *)
(* authorities with (authority/voting/client), the keys it advertises      *)
(* (mixkeys, replica/keys.go, replica/common/key.go) and the documents it  *)
(* authenticates peers with (pkicache, AuthenticateConnection).            *)
(*                                                                         *)
(* An epoch is cut into Phases at the instants the code compares with:     *)
(*   0  before the upload deadline           (elapsed < Period/8 - safety) *)
(*   1  up to the authorities' PublishConsensusDeadline   (5/8)            *)
(*   2  up to core/pki's PublishConsensusDeadline         (7/8)            *)
(*   3  up to core/pki's nextFetchTill                    (15/16)          *)
(*   4  up to the end of the epoch.                                        *)
(* A replica epoch ("week") is EpochsPerWeek epochs.  A document is its    *)
(* epoch; a descriptor is the set of <<key epoch, key>> it advertises, a   *)
(* key the number of the generation that made it.                          *)
(***************************************************************************)
EXTENDS Integers, FiniteSets, FiniteSetsExt

CONSTANTS Authorities,     \* the directory authorities of the configuration
          FirstEpoch,      \* the epoch the node boots in
          LastSlot,        \* bound of the clock
          EpochsPerWeek,   \* ReplicaEpochPeriod / Period
          PKIBudgets       \* [role, from, until, faults, restarts] a behaviour starts with

Phases == 5
NumDocs == 3               \* NumPKIDocsToFetch and NumMixKeys
Roles == {"mix", "replica", "courier", "none"}
Epochs == 0..((LastSlot \div Phases) + NumDocs)   \* weeks too

ASSUME PKIAssumption == /\ FirstEpoch \in Nat /\ FirstEpoch > NumDocs
                        /\ LastSlot \in Nat /\ EpochsPerWeek \in Nat \ {0}
                        /\ PKIBudgets \subseteq [role : Roles, from : (FirstEpoch * Phases)..LastSlot,
                                                until : 0..LastSlot, faults : Nat, restarts : Nat]

VARIABLES slot,            \* the wall clock
          pkiBudget,       \* what is left of it
          produced,        \* epochs whose consensus the authorities hold
          held,            \* what each authority holds of this node, per epoch
          worker,          \* the PKI worker goroutine
          docs, failed,    \* WorkerBase.docs, failedFetches
          lastPublished,   \* lastPublishedEpoch
          mem, disk, made, \* keys in memory, their two files, how many were made
          gcAlarm,         \* EnvelopeKeys.worker's timer
          authCache,       \* pki.cachedAuthDocs
          keysLost         \* the process forgot keys it may have advertised

pkiVars == <<slot, pkiBudget, produced, held, worker, docs, failed,
             lastPublished, mem, disk, made, gcAlarm, authCache, keysLost>>

role == pkiBudget.role
Now == slot \div Phases
Phase == slot % Phases
WeekOf(e) == e \div EpochsPerWeek
Boundary == (Now + 1) * Phases
WindowOpen == Phase = 0
Slack == Phase >= 3                       \* till < pkiEarlyConnectSlack
Quorum == (Cardinality(Authorities) \div 2) + 1

Resting == [pc |-> "asleep", alarm |-> 0, target |-> 0, desc |-> {},
         answers |-> [a \in Authorities |-> "none"], todo |-> {}, got |-> {},
         week |-> 0, key |-> 0]
NoFiles == [priv |-> 0, pub |-> 0]
NoCache == [now |-> 0, docs |-> {}, slack |-> FALSE]

(* -- the clock and the directory ---------------------------------------- *)
\* The authorities publish the next epoch's consensus at their deadline, or
\* (a fault) fail to.
Tick ==
  /\ slot < pkiBudget.until /\ role # "none"
  /\ slot' = slot + 1
  /\ IF Phase = 1
     THEN \/ produced' = produced \cup {Now + 1} /\ UNCHANGED pkiBudget
          \/ /\ pkiBudget.faults > 0
             /\ pkiBudget' = [pkiBudget EXCEPT !.faults = @ - 1]
             /\ UNCHANGED produced
     ELSE UNCHANGED <<produced, pkiBudget>>
  /\ UNCHANGED <<held, worker, docs, failed, lastPublished, mem, disk, made,
                 gcAlarm, authCache, keysLost>>

\* onDescriptorUpload: the first upload of an epoch is kept; a later one is
\* compared, as a SignedUpload, with the kept descriptor's own encoding, which
\* it never equals; once the consensus exists every upload is late.
UploadStatus(a, e) ==
  IF held[a][e] # {} \/ e \in produced THEN "conflict" ELSE "accepted"

\* IsDescriptorWellFormed, IsReplicaDescriptorWellFormed: what a descriptor's keys
\* must be for the epoch it claims.
IsDescriptorWellFormed(desc, e) ==
  /\ \E p \in desc : p[1] = e
  /\ \A p \in desc : p[1] \in e..(e + 2)
IsReplicaDescriptorWellFormed(desc) == desc # {}

\* onPostDescriptor, onPostReplicaDescriptor: the epoch and the keys are checked
\* before the descriptor is handed to the state.
Acceptable(desc, e) ==
  /\ e \in (Now - 1)..(Now + 1)
  /\ IF role = "mix" THEN IsDescriptorWellFormed(desc, e) ELSE IsReplicaDescriptorWellFormed(desc)

\* What an authority holds after the worker's upload reached it.
Uploaded(a) ==
  [held EXCEPT ![a][worker.target] =
     IF Acceptable(worker.desc, worker.target) /\ UploadStatus(a, worker.target) = "accepted"
     THEN worker.desc ELSE @]

\* The document of an epoch lists this node when a quorum tallied one descriptor.
Listed(e) ==
  e <= FirstEpoch \/ \E a \in Authorities :
    /\ held[a][e] # {}
    /\ Cardinality({b \in Authorities : held[b][e] = held[a][e]}) >= Quorum

OnDisk(k) == disk[k].priv # 0 /\ disk[k].pub # 0
Broken(k) == (disk[k].priv = 0) # (disk[k].pub = 0)
\* The keys NewEnvelopeKeys or EnsureKey still lacks.
KeyWanted ==
  IF worker.key # 0 \/ role # "replica" THEN {}
  ELSE {k \in (IF worker.pc = "boot" THEN {worker.week}
               ELSE IF worker.pc = "keys" THEN {worker.week, worker.week + 1}
               ELSE {}) : mem[k] = 0}
\* till + GracePeriod
NextCollection == (WeekOf(Now) + 1) * EpochsPerWeek * Phases + 1
\* uploadCtx has not expired.
UploadOpen == WindowOpen /\ worker.target = Now + 1

(* -- steps of the worker shared by the roles ----------------------------- *)
\* documentsToFetch of the mix; DocumentsToFetch of core/pki.  Newest first.
documentsToFetch == ((Now - NumDocs + 1)..(Now + IF Phase >= 1 THEN 1 ELSE 0)) \ docs
DocumentsToFetch == ((Now - NumDocs + 1)..(Now + IF Phase >= 4 THEN 1 ELSE 0)) \ docs

\* The courier's fetchDocuments forgets the failures of recent epochs when it has
\* no current document.
ClearFailedFetch == IF Now \notin docs THEN failed \ ((Now - NumDocs + 1)..Now) ELSE failed

StartFetch(w) ==
  /\ worker' = [w EXCEPT !.pc = "fetch",
                  !.todo = IF role = "mix" THEN documentsToFetch ELSE DocumentsToFetch]
  /\ failed' = IF role = "courier" THEN ClearFailedFetch ELSE failed

StartPost(w, keys, key) ==
  worker' = [w EXCEPT !.pc = "post", !.desc = {<<k, key[k]>> : k \in keys},
                      !.answers = Resting.answers]

\* WorkerBase.UpdateTimer: the slot of the next wake, given the documents now held.
BaseUpdateTimer(held_) ==
  IF Phase >= 3 THEN IF Now + 1 \in held_ THEN Boundary ELSE slot
  ELSE IF Now \in held_ THEN Now * Phases + 3 ELSE slot

\* Mutant: every role sleeps by it.
Bug_UpdateTimer(held_) == BaseUpdateTimer(held_)

\* The mix sleeps to the boundary once the upload window is closed; its branch for
\* the time after the consensus deadline is never reached.
MixUpdateTimer(held_) ==
  IF ~WindowOpen THEN Boundary
  ELSE IF Now \in held_ THEN Now * Phases + 2 ELSE slot

\* The replica retries within the window until it has published.
ReplicaUpdateTimer(held_) ==
  IF WindowOpen /\ lastPublished <= Now THEN slot
  ELSE IF ~WindowOpen THEN Boundary ELSE BaseUpdateTimer(held_)

UpdateTimer(held_) ==
  IF role = "mix" THEN MixUpdateTimer(held_)
  ELSE IF role = "replica" THEN ReplicaUpdateTimer(held_) ELSE BaseUpdateTimer(held_)

(* -- booting ------------------------------------------------------------- *)
\* NewMixKeys generates the keys of three epochs; NewEnvelopeKeys loads or
\* generates this week's key; the courier has none.
Boot ==
  /\ worker.pc = "off" /\ role # "none"
  /\ ~(role = "replica" /\ Broken(WeekOf(Now)))
  /\ LET new == IF role = "mix" THEN Now..(Now + NumDocs - 1) ELSE {} IN
       /\ made' = [k \in Epochs |-> IF k \in new THEN made[k] + 1 ELSE made[k]]
       /\ mem' = [k \in Epochs |-> IF k \in new THEN made[k] + 1 ELSE 0]
  /\ worker' = [Resting EXCEPT !.pc = IF role = "replica" THEN "boot" ELSE "asleep",
                            !.alarm = slot, !.week = WeekOf(Now)]
  /\ UNCHANGED <<slot, pkiBudget, produced, held, docs, failed, lastPublished,
                 disk, gcAlarm, authCache, keysLost>>

\* Last step of NewEnvelopeKeys: last week's key if its files are there, and
\* the collector's timer.
Booted ==
  /\ worker.pc = "boot" /\ mem[worker.week] # 0
  /\ mem' = [k \in Epochs |-> IF k = worker.week - 1 /\ OnDisk(k)
                              THEN disk[k].priv ELSE mem[k]]
  /\ worker' = [worker EXCEPT !.pc = "asleep"]
  /\ gcAlarm' = NextCollection
  /\ UNCHANGED <<slot, pkiBudget, produced, held, docs, failed, lastPublished,
                 disk, made, authCache, keysLost>>

\* The process dies; what it kept in memory is gone.
Crash ==
  /\ worker.pc # "off" /\ pkiBudget.restarts > 0
  /\ pkiBudget' = [pkiBudget EXCEPT !.restarts = @ - 1]
  /\ worker' = [Resting EXCEPT !.pc = "off"]
  /\ docs' = {} /\ failed' = {} /\ lastPublished' = 0 /\ authCache' = NoCache
  /\ mem' = [k \in Epochs |-> 0]
  /\ keysLost' = (keysLost \/ role = "mix")
  /\ UNCHANGED <<slot, produced, held, disk, made, gcAlarm>>

(* -- publishing ---------------------------------------------------------- *)
\* The timer fires.  publishDescriptorIfNeeded returns at once when the target
\* is published or the window closed; otherwise the keys come first.
Wake ==
  /\ worker.pc = "asleep" /\ slot >= worker.alarm
  /\ LET w == [worker EXCEPT !.target = Now + 1, !.week = WeekOf(Now), !.got = {}] IN
       IF role = "courier" \/ ~WindowOpen \/ lastPublished >= Now + 1
       THEN StartFetch(w)
       ELSE /\ worker' = [w EXCEPT !.pc = "keys"]
            /\ UNCHANGED failed
  /\ UNCHANGED <<slot, pkiBudget, produced, held, docs, lastPublished, mem,
                 disk, made, gcAlarm, authCache, keysLost>>

\* MixKeys.Generate and Prune: the missing keys of [target, target + 3) are
\* made, those older than the previous epoch dropped.
GenerateMixKeys ==
  /\ worker.pc = "keys" /\ role = "mix"
  /\ LET range == worker.target..(worker.target + NumDocs - 1)
         new == {k \in range : mem[k] = 0} IN
       /\ made' = [k \in Epochs |-> IF k \in new THEN made[k] + 1 ELSE made[k]]
       /\ mem' = [k \in Epochs |-> IF k \in new THEN made[k] + 1
                                   ELSE IF k < Now - 1 THEN 0 ELSE mem[k]]
       /\ StartPost(worker, range, mem')
  /\ UNCHANGED <<slot, pkiBudget, produced, held, docs, failed, lastPublished,
                 disk, gcAlarm, authCache, keysLost>>

\* mixkey.New fails: Generate drops every key of the range it was asked for,
\* and the publication is given up for this round.
GenerateMixKeysFails ==
  /\ worker.pc = "keys" /\ role = "mix" /\ pkiBudget.faults > 0
  /\ pkiBudget' = [pkiBudget EXCEPT !.faults = @ - 1]
  /\ \E k \in worker.target..(worker.target + NumDocs - 1) : mem[k] = 0
  /\ mem' = [k \in Epochs |-> IF k \in worker.target..(worker.target + NumDocs - 1)
                              THEN 0 ELSE mem[k]]
  /\ keysLost' = TRUE
  /\ StartFetch(worker)
  /\ UNCHANGED <<slot, produced, held, docs, lastPublished, disk, made, gcAlarm,
                 authCache>>

\* Mutant: a key that has its files is made afresh.
Bug_LoadKeyFiles ==
  /\ KeyWanted # {}
  /\ LET k == Min(KeyWanted) IN
       /\ OnDisk(k)
       /\ made' = [made EXCEPT ![k] = @ + 1]
       /\ disk' = [disk EXCEPT ![k] = [priv |-> made[k] + 1, pub |-> made[k] + 1]]
       /\ mem' = [mem EXCEPT ![k] = made[k] + 1]
  /\ UNCHANGED <<slot, pkiBudget, produced, held, worker, docs, failed,
                 lastPublished, gcAlarm, authCache, keysLost>>

\* EnsureKey: a key with both files is loaded ...
LoadKeyFiles ==
  /\ KeyWanted # {}
  /\ LET k == Min(KeyWanted) IN
       /\ (worker.pc = "boot" \/ k >= WeekOf(Now)) /\ OnDisk(k)
       /\ mem' = [mem EXCEPT ![k] = disk[k].priv]
  /\ UNCHANGED <<slot, pkiBudget, produced, held, worker, docs, failed,
                 lastPublished, disk, made, gcAlarm, authCache, keysLost>>

\* ... without files a pair is made and its private half written ...
WriteKeyFiles ==
  /\ KeyWanted # {}
  /\ LET k == Min(KeyWanted) IN
       /\ (worker.pc = "boot" \/ k >= WeekOf(Now)) /\ disk[k] = NoFiles
       /\ made' = [made EXCEPT ![k] = @ + 1]
       /\ disk' = [disk EXCEPT ![k].priv = made[k] + 1]
       /\ worker' = [worker EXCEPT !.key = k]
  /\ UNCHANGED <<slot, pkiBudget, produced, held, docs, failed, lastPublished,
                 mem, gcAlarm, authCache, keysLost>>

\* ... then its public half, and the pair enters the map.
PublicKeyToFile ==
  /\ worker.key # 0
  /\ disk' = [disk EXCEPT ![worker.key].pub = disk[worker.key].priv]
  /\ mem' = [mem EXCEPT ![worker.key] = disk[worker.key].priv]
  /\ worker' = [worker EXCEPT !.key = 0]
  /\ UNCHANGED <<slot, pkiBudget, produced, held, docs, failed, lastPublished,
                 made, gcAlarm, authCache, keysLost>>

\* Only one file, or the key of a week that is over: no descriptor this time.
EnsureKeyFails ==
  /\ KeyWanted # {} /\ worker.pc = "keys"
  /\ LET k == Min(KeyWanted) IN k < WeekOf(Now) \/ Broken(k)
  /\ StartFetch(worker)
  /\ UNCHANGED <<slot, pkiBudget, produced, held, docs, lastPublished, mem,
                 disk, made, gcAlarm, authCache, keysLost>>

\* The descriptor advertises this week's key and the next's.
KeysReady ==
  /\ worker.pc = "keys" /\ role = "replica" /\ KeyWanted = {} /\ worker.key = 0
  /\ StartPost(worker, {worker.week, worker.week + 1}, mem)
  /\ UNCHANGED <<slot, pkiBudget, produced, held, docs, failed, lastPublished,
                 mem, disk, made, gcAlarm, authCache, keysLost>>

\* postAuthorityOnce, in any of the completion rounds.
PostAuthorityOnce(a) ==
  /\ worker.pc = "post" /\ worker.answers[a] \in {"none", "failed"} /\ UploadOpen
  /\ Acceptable(worker.desc, worker.target)
  /\ worker' = [worker EXCEPT !.answers[a] = UploadStatus(a, worker.target)]
  /\ held' = Uploaded(a)
  /\ UNCHANGED <<slot, pkiBudget, produced, docs, failed, lastPublished, mem,
                 disk, made, gcAlarm, authCache, keysLost>>

\* The session is not established, or the upload arrives and its answer does not:
\* a transport error, retried after a while.
PostFails(a) ==
  /\ worker.pc = "post" /\ worker.answers[a] \in {"none", "failed"} /\ UploadOpen
  /\ pkiBudget.faults > 0
  /\ pkiBudget' = [pkiBudget EXCEPT !.faults = @ - 1]
  /\ held' \in {held, Uploaded(a)}
  /\ worker' = [worker EXCEPT !.answers[a] = "failed"]
  /\ UNCHANGED <<slot, produced, docs, failed, lastPublished, mem, disk,
                 made, gcAlarm, authCache, keysLost>>

\* updatePostSummary, peersNeedingCompletion
Answered(status) == {a \in Authorities : worker.answers[a] = status}
Pending == Answered("none") \cup Answered("failed")
Successes == Cardinality(Answered("accepted"))
Conflicts == Cardinality(Answered("conflict"))

\* postDescriptorWithCompletionRounds stops: nobody is left to ask, the conflicts
\* are a quorum, a quorum has become impossible, or the window closes, which it also
\* does when the next attempt of those that failed would come after it.
RoundsOver ==
  \/ Pending = {} \/ Conflicts >= Quorum \/ ~UploadOpen
  \/ Successes < Quorum /\ Successes + Cardinality(Pending) < Quorum
  \/ Answered("none") = {}

\* nil, ErrInvalidPostEpoch or another error.
Post ==
  IF Successes >= Quorum THEN "ok" ELSE IF Conflicts >= Quorum THEN "ErrInvalidPostEpoch" ELSE "error"

\* PostReplica decides as Post does; the summary it remembers is only logged.
PostReplica == Post

\* The end of publishDescriptorIfNeeded: a permanent rejection counts as published.
PostDone ==
  /\ worker.pc = "post" /\ RoundsOver
  /\ lastPublished' = IF (IF role = "mix" THEN Post ELSE PostReplica) = "error"
                       THEN lastPublished ELSE worker.target
  /\ StartFetch(worker)
  /\ UNCHANGED <<slot, pkiBudget, produced, held, docs, mem, disk, made, gcAlarm,
                 authCache, keysLost>>

(* -- fetching ------------------------------------------------------------ *)
\* updateAuthDocsCache
FreshAuth(held_) ==
  [now |-> Now, slack |-> Slack,
   docs |-> {e \in held_ : e > Now - NumDocs /\ e <= Now + IF Slack THEN 1 ELSE 0}]

\* A failure recorded earlier in this window suppresses the fetch.
FetchSkipped ==
  /\ worker.pc = "fetch" /\ worker.todo # {} /\ Max(worker.todo) \in failed
  /\ worker' = [worker EXCEPT !.todo = @ \ {Max(worker.todo)}]
  /\ UNCHANGED <<slot, pkiBudget, produced, held, docs, failed, lastPublished,
                 mem, disk, made, gcAlarm, authCache, keysLost>>

\* One authority's document is enough.  The mix stores it at once, unless it
\* is not in it (pkicache.New); the others store what they got at the end.
FetchSucceeds ==
  /\ worker.pc = "fetch" /\ worker.todo # {} /\ Max(worker.todo) \notin failed
  /\ LET e == Max(worker.todo)
         unusable == role = "mix" /\ ~Listed(e) IN   \* pkicache.New, validateCacheEntry
       /\ e \in produced
       /\ worker' = [worker EXCEPT !.todo = @ \ {e},
                       !.got = IF unusable THEN @ ELSE @ \cup {e}]
       /\ failed' = IF unusable THEN failed \cup {e} ELSE failed
       /\ docs' = IF role = "mix" /\ ~unusable THEN docs \cup {e} ELSE docs
       /\ authCache' = IF role = "mix" /\ ~unusable THEN FreshAuth(docs') ELSE authCache
  /\ UNCHANGED <<slot, pkiBudget, produced, held, lastPublished, mem, disk, made,
                 gcAlarm, keysLost>>

\* No authority gave a document: GetPKIDocumentForEpoch reports it gone when
\* the epoch has begun, whatever the reason, and only that is remembered.
FetchFails ==
  /\ worker.pc = "fetch" /\ worker.todo # {} /\ Max(worker.todo) \notin failed
  /\ LET e == Max(worker.todo) IN
       /\ IF e \in produced
          THEN /\ pkiBudget.faults > 0
               /\ pkiBudget' = [pkiBudget EXCEPT !.faults = @ - 1]
          ELSE UNCHANGED pkiBudget
       /\ worker' = [worker EXCEPT !.todo = @ \ {e}]
       /\ failed' = IF e <= Now THEN failed \cup {e} ELSE failed
  /\ UNCHANGED <<slot, produced, held, docs, lastPublished, mem, disk, made,
                 gcAlarm, authCache, keysLost>>

\* pruneFailures and pruneDocuments, in the mix and in core/pki.
PruneFailures(f) == f \cap ((Now - NumDocs + 1)..(Now + 1))
PruneDocuments(d) == {e \in d : e >= Now - NumDocs + 1}

\* The end of the cycle: handleDocumentUpdates, updateTimer.
FetchDone ==
  /\ worker.pc = "fetch" /\ worker.todo = {}
  /\ failed' = PruneFailures(failed)
  /\ docs' = IF worker.got = {} THEN docs ELSE PruneDocuments(docs \cup worker.got)
  /\ worker' = [Resting EXCEPT !.alarm = UpdateTimer(docs')]
  /\ UNCHANGED <<slot, pkiBudget, produced, held, lastPublished, mem, disk, made,
                 gcAlarm, authCache, keysLost>>

\* EnvelopeKeys.worker and Prune: the keys of weeks before the last one go,
\* from memory and from disk.
PruneEnvelopeKeys ==
  /\ role = "replica" /\ worker.pc \notin {"off", "boot"} /\ slot >= gcAlarm
  /\ LET old == {k \in Epochs : mem[k] # 0 /\ k < WeekOf(Now) - 1} IN
       /\ mem' = [k \in Epochs |-> IF k \in old THEN 0 ELSE mem[k]]
       /\ disk' = [k \in Epochs |-> IF k \in old THEN NoFiles ELSE disk[k]]
  /\ gcAlarm' = NextCollection
  /\ UNCHANGED <<slot, pkiBudget, produced, held, worker, docs, failed,
                 lastPublished, made, authCache, keysLost>>

(* -- authenticating a peer ------------------------------------------------ *)
\* documentsForAuthentication: the cached snapshot while its epoch is current.
AuthDocs ==
  IF authCache.docs # {} /\ (authCache.now = Now \/ (Slack /\ authCache.now = Now + 1))
  THEN authCache ELSE FreshAuth(docs)

\* AuthenticateConnection for a peer whose link key matches the documents of
\* `listed` and that the current document names if `current`.
AuthenticateConnection(listed, current, outgoing) ==
  LET cand == AuthDocs.docs \cap listed
      now == AuthDocs.now
      canSend == \/ now \in cand
                 \/ now + 1 \in cand /\ ~outgoing /\ AuthDocs.slack
                 \/ now \in AuthDocs.docs /\ current /\ \E e \in cand : e < now
  IN  [valid |-> canSend \/ now + 1 \in cand, canSend |-> canSend]

(* -- the specification ---------------------------------------------------- *)
PKIInit ==
  /\ pkiBudget \in PKIBudgets
  /\ slot = pkiBudget.from
  /\ produced = 1..FirstEpoch
  /\ held = [a \in Authorities |-> [e \in Epochs |-> {}]]
  /\ worker = [Resting EXCEPT !.pc = "off"]
  /\ docs = {} /\ failed = {} /\ lastPublished = 0
  /\ mem = [k \in Epochs |-> 0] /\ disk = [k \in Epochs |-> NoFiles]
  /\ made = [k \in Epochs |-> 0]
  /\ gcAlarm = 0 /\ authCache = NoCache /\ keysLost = FALSE

PKINext ==
  \/ Tick \/ Boot \/ Booted \/ Crash \/ Wake
  \/ GenerateMixKeys \/ GenerateMixKeysFails
  \/ LoadKeyFiles \/ WriteKeyFiles \/ PublicKeyToFile \/ EnsureKeyFails \/ KeysReady
  \/ (\E a \in Authorities : PostAuthorityOnce(a) \/ PostFails(a))
  \/ PostDone \/ FetchSkipped \/ FetchSucceeds \/ FetchFails \/ FetchDone
  \/ PruneEnvelopeKeys

PKISpec == PKIInit /\ [][PKINext]_pkiVars

(* -- properties ----------------------------------------------------------- *)
\* Types; an epoch is never both held and recorded as failed, and no document
\* is from the far future (the case PruneDocuments says "should NEVER happen").
PKITypeOK ==
  /\ slot \in Nat /\ produced \subseteq Epochs
  /\ worker.pc \in {"off", "boot", "asleep", "keys", "post", "fetch"}
  /\ docs \subseteq Epochs /\ failed \subseteq Epochs
  /\ docs \cap failed = {}
  /\ \A e \in docs : e <= Now + 1

\* A key some authority was given is never replaced or destroyed while a sender
\* may still use it: a replica has it on disk, and nothing else in memory, until
\* the week after it, whatever crashes in between (WriteKeyFiles: "a replica can
\* safely restart or re-publish"); a mix, which keeps its keys in memory only, has
\* it until the epoch after it while the process lives and no generation failed.
AdvertisedKeysKept ==
  \A a \in Authorities, e \in Epochs : \A p \in held[a][e] :
    IF role = "replica"
    THEN /\ p[1] >= WeekOf(Now) - 1 => disk[p[1]] = [priv |-> p[2], pub |-> p[2]]
         /\ mem[p[1]] \in {0, p[2]}
    ELSE ~keysLost /\ p[1] >= Now - 1 => mem[p[1]] = p[2]

\* The worker's sleep never costs an upload window or leaves a courier blind: it
\* wakes by the next epoch, a replica that has not published while the window is
\* open is due at once, and so is a courier with neither the current document nor
\* the next (updateTimer, UpdateTimer).
RetriesInTime ==
  worker.pc = "asleep" =>
    /\ worker.alarm <= Boundary
    /\ role = "replica" /\ WindowOpen /\ lastPublished <= Now => worker.alarm <= slot
    /\ role = "courier" /\ {Now, Now + 1} \cap docs = {} => worker.alarm <= slot

\* A mix accepts only peers that a document it holds for the current or the next
\* epoch names: a peer of an older document that the current one dropped is
\* refused, also through the lock-free snapshot of documentsForAuthentication.
DelistedRefused ==
  role = "mix" =>
    \A listed \in SUBSET ((Now - NumDocs + 1)..(Now + 1)), current, outgoing \in BOOLEAN :
      (Now \in listed => current) /\ AuthenticateConnection(listed, current, outgoing).valid
        => \/ Now \in docs /\ current
           \/ Now + 1 \in docs \cap listed

\* What a node's descriptor advertises it can still open, across crashes and weeks, and only peers of
\* the documents in force are accepted (keys.go, mixkeys.go, documentsForAuthentication).
PKISound == PKITypeOK /\ AdvertisedKeysKept /\ DelistedRefused
=============================================================================
