------------------------------ MODULE MixDecoy ------------------------------
(***************************************************************************)
(* The decoy traffic of a node: server/internal/decoy, with the part of    *)
(* server/internal/pki's worker that hands it documents.                   *)
(*                                                                         *)
(* A worker sends loop packets while it has the document of the current    *)
(* epoch, each with a SURB whose context is kept by ID and by the time the *)
(* reply is expected.  Crypto workers bring the replies.  Loops sent and   *)
(* completed are counted per epoch and path segment for the descriptor.    *)
(*                                                                         *)
(* A loop is a number (its SURB ID) with the segments of its two paths.    *)
(***************************************************************************)
EXTENDS Integers, FiniteSets, FiniteSetsExt

CONSTANTS
    Loop,           \* loop -> [segments, eta (time to travel), decrypts]
    DecoyEpochLen, DecoySlack,
    DecoyBudgets    \* the workloads

ASSUME DecoyAssumption == DecoyEpochLen \in Nat \ {0} /\ DecoySlack \in Nat

Loops == DOMAIN Loop
Segments == UNION {Loop[l].segments : l \in Loops}

VARIABLES
    decoyBudget,    \* what may still happen
    decoyNow,       \* the clock
    known, lastUpdate, offered,     \* the PKI worker: documents, lastUpdateEpoch, the one on docCh
    docCache, wakeup,       \* the decoy worker: epoch of its document (0: none), timer armed
    counting,       \* loop dispatched and not yet counted as sent (0: none)
    surbStore, surbETAs,    \* loops by ID; [id, eta]
    sentLoops, completedLoops       \* epoch -> segment -> count

decoyVars == <<decoyBudget, decoyNow, known, lastUpdate, offered, docCache, wakeup, counting, surbStore,
               surbETAs, sentLoops, completedLoops>>
surbVars == <<surbStore, surbETAs>>
docCh == <<known, lastUpdate, offered>>

DecoyEpoch == 1 + decoyNow \div DecoyEpochLen
DecoyEpochs == 1..(1 + Max({b.until : b \in DecoyBudgets}) \div DecoyEpochLen)

DecoyInit ==
    /\ decoyBudget \in DecoyBudgets
    /\ decoyNow = 0
    /\ known = {} /\ lastUpdate = 0 /\ offered = 0
    /\ docCache = 0 /\ wakeup = FALSE /\ counting = 0
    /\ surbStore = {} /\ surbETAs = {}
    /\ sentLoops = [e \in DecoyEpochs |-> [s \in Segments |-> 0]]
    /\ completedLoops = [e \in DecoyEpochs |-> [s \in Segments |-> 0]]

DecoyTick ==
    /\ decoyNow < decoyBudget.until
    /\ decoyNow' = decoyNow + 1
    /\ UNCHANGED <<decoyBudget, docCache, wakeup, counting, sentLoops, completedLoops, docCh, surbVars>>

----------------------------------------------------------------------------
(* The PKI worker. *)

DocumentFetched(e) ==
    /\ e \in {DecoyEpoch, DecoyEpoch + 1} \ known /\ offered = 0
    /\ known' = known \cup {e}
    /\ UNCHANGED <<decoyBudget, decoyNow, lastUpdate, offered, docCache, wakeup, counting,
                   sentLoops, completedLoops, surbVars>>

\* The end of its turn: Decoy.OnNewDocument with the current epoch's document, once.
OnNewDocument ==
    /\ offered = 0 /\ DecoyEpoch # lastUpdate /\ DecoyEpoch \in known
    /\ offered' = DecoyEpoch
    /\ UNCHANGED <<decoyBudget, decoyNow, known, lastUpdate, docCache, wakeup, counting,
                   sentLoops, completedLoops, surbVars>>

----------------------------------------------------------------------------
(* The decoy worker. *)

\* sweepSURBCtxs: the contexts in the order of their ETA, up to the first still awaited.
Lost == {x \in surbETAs : x.eta <= decoyNow - DecoySlack}
SweepSURBCtxs ==
    /\ surbStore' = surbStore \ {x.id : x \in Lost}
    /\ surbETAs' = surbETAs \ Lost

\* The tail of worker's loop: suspended, or swept and scheduled again.
Rescheduled == wakeup' = (docCache' = DecoyEpoch)
TailOfLoop ==
    /\ Rescheduled
    /\ IF docCache' = DecoyEpoch THEN SweepSURBCtxs ELSE UNCHANGED surbVars

\* A document from docCh: one of another epoch is ignored, the timer left as it was.
TakesDocument ==
    /\ offered # 0 /\ counting = 0
    /\ lastUpdate' = offered /\ offered' = 0
    /\ IF offered # DecoyEpoch
       THEN UNCHANGED <<docCache, wakeup, surbVars>>
       ELSE docCache' = offered /\ TailOfLoop
    /\ UNCHANGED <<decoyBudget, decoyNow, known, counting, sentLoops, completedLoops>>

\* The timer: sendDecoyPacket when the document is still current, unless no path or provider is found.
StoreSURBCtx(l) ==
    /\ surbStore' = surbStore \cup {l}
    /\ surbETAs' = surbETAs \cup {[id |-> l, eta |-> decoyNow + Loop[l].eta]}
DecoySends(l) ==
    /\ wakeup /\ counting = 0 /\ docCache = DecoyEpoch /\ l \in decoyBudget.loops
    /\ decoyBudget' = [decoyBudget EXCEPT !.loops = @ \ {l}]
    /\ StoreSURBCtx(l)
    /\ counting' = l
    /\ UNCHANGED <<decoyNow, docCache, wakeup, sentLoops, completedLoops, docCh>>

Incremented(counts, l) == [counts EXCEPT ![DecoyEpoch] =
                             [s \in Segments |-> @[s] + (IF s \in Loop[l].segments THEN 1 ELSE 0)]]
IncrementSentSegments ==
    /\ counting # 0
    /\ sentLoops' = Incremented(sentLoops, counting)
    /\ counting' = 0
    /\ docCache' = docCache /\ TailOfLoop
    /\ UNCHANGED <<decoyBudget, decoyNow, completedLoops, docCh>>

DecoySuspends ==
    /\ wakeup /\ counting = 0 /\ docCache # DecoyEpoch
    /\ docCache' = docCache /\ TailOfLoop
    /\ UNCHANGED <<decoyBudget, decoyNow, counting, sentLoops, completedLoops, docCh>>

----------------------------------------------------------------------------
(* OnPacket, in a crypto worker. *)

Bug_LoadAndDelete(l) ==
    l \in surbStore /\ UNCHANGED surbVars

\* loadAndDeleteSURBCtx, under the lock.
LoadAndDelete(l) ==
    /\ surbStore' = surbStore \ {l}
    /\ surbETAs' = {x \in surbETAs : x.id # l}

\* A reply of this instance; an unknown ID, or a payload that does not decrypt, is dropped.
DecoyReply(l) ==
    /\ decoyBudget.replies > 0 /\ l \notin decoyBudget.loops
    /\ decoyBudget' = [decoyBudget EXCEPT !.replies = @ - 1]
    /\ IF l \in surbStore
       THEN /\ LoadAndDelete(l)
            /\ completedLoops' = IF Loop[l].decrypts THEN Incremented(completedLoops, l) ELSE completedLoops
       ELSE UNCHANGED <<surbStore, surbETAs, completedLoops>>
    /\ UNCHANGED <<decoyNow, docCache, wakeup, counting, sentLoops, docCh>>

DecoyNext ==
    \/ DecoyTick \/ OnNewDocument \/ TakesDocument \/ IncrementSentSegments \/ DecoySuspends
    \/ \E e \in DecoyEpochs : DocumentFetched(e)
    \/ \E l \in decoyBudget.loops : DecoySends(l)
    \/ \E l \in Loops : DecoyReply(l)

DecoySpec == DecoyInit /\ [][DecoyNext]_decoyVars

----------------------------------------------------------------------------
Total(counts, s) == FoldSet(LAMBDA e, k : k + counts[e][s], 0, DecoyEpochs)

\* The two indexes of the SURB contexts hold the same loops (storeSURBCtx, loadAndDeleteSURBCtx,
\* sweepSURBCtxs), and the documents are of epochs there have been.
DecoyTypeOK ==
    /\ {x.id : x \in surbETAs} = surbStore /\ Cardinality(surbETAs) = Cardinality(surbStore)
    /\ docCache \in DecoyEpochs \cup {0} /\ lastUpdate \in DecoyEpochs \cup {0}

\* The statistics rest on packets: over all epochs no segment completes more loops than were sent
\* through it, save the one dispatched and not counted yet, however often a reply is delivered.
StatsBacked ==
    \A s \in Segments :
        Total(completedLoops, s) <= Total(sentLoops, s)
                                    + (IF counting # 0 THEN Cardinality({counting} \cap {l \in Loops : s \in Loop[l].segments}) ELSE 0)

\* Decoy traffic does not stop unnoticed: once the PKI worker has handed over the current epoch's
\* document, which it does once, the decoy worker has it and its timer is armed, also when the epoch
\* turned while the document was on its way.
DecoyKeepsOn ==
    lastUpdate = DecoyEpoch => docCache = DecoyEpoch /\ (wakeup \/ counting # 0)

\* No segment has more decoy loops completed than were sent through it, and with the epoch's document
\* the worker that sends them always has its timer armed (OnPacket, sweepSURBCtxs, worker).
DecoySound == DecoyTypeOK /\ StatsBacked /\ DecoyKeepsOn
=============================================================================
