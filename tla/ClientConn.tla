----------------------------- MODULE ClientConn -----------------------------
(***************************************************************************)
(* The client daemon's connection to its gateway (client/connection.go)    *)
(* and the PKI documents it fetches over it (client/pki.go).               *)
(*                                                                         *)
(* One worker dials, runs the session and dials again.  Callers hand it    *)
(* packets (sendCh) and document requests (getConsensusCh) and wait on     *)
(* unbuffered channels for what became of them, so every result is a       *)
(* rendezvous of the worker with one caller.  The PKI worker and callers   *)
(* of CurrentDocument fetch documents; a cache and a list of epochs not to *)
(* ask for again are kept.                                                 *)
(*                                                                         *)
(* The wire is abstracted to what the worker sees of it: a command is sent *)
(* or not, an answer to a document request arrives, the session breaks.    *)
(***************************************************************************)
EXTENDS Integers, Sequences, FiniteSets

CONSTANTS
    Senders,        \* goroutines calling sendPacket
    Waiters,        \* goroutines calling CurrentDocument
    PKILoop,        \* the worker of client/pki.go
    WaitAttempts,   \* waitForCurrentDocumentAttempts
    NoCaller,
    ClBudgets       \* the workloads

ASSUME ClAssumption ==
    /\ WaitAttempts \in Nat \ {0}
    /\ NoCaller \notin Senders \cup Waiters \cup {PKILoop}
    /\ Senders \cap Waiters = {} /\ PKILoop \notin Senders \cup Waiters
    /\ ClBudgets \subseteq [sends : Nat, waits : Nat, turns : Nat, dials : Nat, breaks : Nat, until : Nat \ {0},
                            answers : SUBSET {"ok", "gone", "notFound"}, halts : BOOLEAN]

Getters == Waiters \cup {PKILoop}
Callers == Senders \cup Getters

VARIABLES
    clBudget,       \* what may still happen
    conn,           \* the worker: [at, caller, ok, code, ctx, lost];
                    \* ctx is consensusCtx, lost: its caller was given the send error
    isConnected, isShutdown,
    sendOffers, getCh,      \* senders blocked on sendCh; getConsensusCh (capacity 1)
    call,           \* where each caller is: [at, epoch, left (attempts)]
    loop,           \* the PKI worker's turn: [now, todo, did]
    clDocs, failedFetches, clEpoch

clVars == <<clBudget, conn, isConnected, isShutdown, sendOffers, getCh, call, loop, clDocs,
            failedFetches, clEpoch>>
docVars == <<loop, clDocs, failedFetches, clEpoch>>

Dialing == [at |-> "dial", caller |-> NoCaller, ok |-> TRUE, code |-> "ok", ctx |-> NoCaller, lost |-> FALSE]
IdleCall == [at |-> "idle", epoch |-> 0, left |-> 0]
NoTurn == [now |-> 0, todo |-> {}, did |-> FALSE]

ClInit ==
    /\ clBudget \in ClBudgets
    /\ conn = Dialing /\ isConnected = FALSE /\ isShutdown = FALSE
    /\ sendOffers = {} /\ getCh = <<>>
    /\ call = [c \in Callers |-> IdleCall]
    /\ loop = NoTurn /\ clDocs = {} /\ failedFetches = {} /\ clEpoch = 1

At(c, where) == call' = [call EXCEPT ![c].at = where]

----------------------------------------------------------------------------
(* The callers. *)

\* sendPacket up to its offer.
SendPacket(c) ==
    /\ call[c].at = "idle" /\ clBudget.sends > 0
    /\ clBudget' = [clBudget EXCEPT !.sends = @ - 1]
    /\ IF isConnected /\ ~isShutdown
       THEN At(c, "offer") /\ sendOffers' = sendOffers \cup {c}
       ELSE UNCHANGED <<call, sendOffers>>
    /\ UNCHANGED <<conn, isConnected, isShutdown, getCh, docVars>>

\* GetConsensus up to its offer: refused when not connected, else it waits for room.
Asks(c, e) ==
    IF isConnected THEN call' = [call EXCEPT ![c].at = "offer", ![c].epoch = e]
    ELSE call' = [call EXCEPT ![c].at = "refused", ![c].epoch = e]

\* getConsensusCh holds one request.
OffersConsensus(c) ==
    /\ call[c].at = "offer" /\ Len(getCh) = 0
    /\ getCh' = <<c>> /\ At(c, "await")
    /\ UNCHANGED <<clBudget, conn, isConnected, isShutdown, sendOffers, docVars>>

\* Every wait of a caller also watches HaltCh.
CallerLeaves(c) ==
    /\ isShutdown /\ call[c].at \in {"offer", "await", "awaitReply"}
    /\ At(c, "halted") /\ sendOffers' = sendOffers \ {c}
    /\ UNCHANGED <<clBudget, conn, isConnected, isShutdown, getCh, docVars>>

----------------------------------------------------------------------------
(* The connection worker: doConnect and onWireConn. *)

\* Dial and handshake succeed: a new link key and queue ID, then onConnStatusChange(nil).
ConnEstablished ==
    /\ conn.at = "dial" /\ clBudget.dials > 0 /\ ~isShutdown
    /\ clBudget' = [clBudget EXCEPT !.dials = @ - 1]
    /\ conn' = [Dialing EXCEPT !.at = "select"]
    /\ isConnected' = TRUE
    /\ UNCHANGED <<isShutdown, sendOffers, getCh, call, docVars>>

\* SendCommand succeeds, or fails when the wire is broken.
SendOutcome(ok) ==
    /\ ok \/ clBudget.breaks > 0
    /\ clBudget' = IF ok THEN clBudget ELSE [clBudget EXCEPT !.breaks = @ - 1]

TakesSend(c, ok) ==
    /\ conn.at = "select" /\ c \in sendOffers
    /\ SendOutcome(ok)
    /\ conn' = [conn EXCEPT !.at = "done", !.caller = c, !.ok = ok]
    /\ sendOffers' = sendOffers \ {c} /\ At(c, "await")
    /\ UNCHANGED <<isConnected, isShutdown, getCh, docVars>>

\* One GetConsensus2 may be outstanding; a second caller gets an error and the session goes on.
TakesConsensus(ok) ==
    /\ conn.at = "select" /\ getCh # <<>>
    /\ IF conn.ctx # NoCaller
       THEN /\ ~ok /\ conn' = [conn EXCEPT !.at = "busy", !.caller = Head(getCh)]
            /\ UNCHANGED clBudget
       ELSE /\ SendOutcome(ok)
            /\ conn' = [conn EXCEPT !.at = "done", !.caller = Head(getCh), !.ok = ok, !.ctx = Head(getCh)]
    /\ getCh' = <<>>
    /\ UNCHANGED <<isConnected, isShutdown, sendOffers, call, docVars>>

\* doneFn: the worker and the caller meet on errCh; after an error the session ends.
DoneFn ==
    /\ conn.at \in {"done", "busy"} /\ call[conn.caller].at = "await"
    /\ LET c == conn.caller IN
       /\ At(c, IF conn.at = "done" /\ conn.ok THEN (IF c \in Getters THEN "awaitReply" ELSE "idle")
                ELSE IF c \in Getters THEN "refused" ELSE "idle")
       /\ conn' = [conn EXCEPT !.at = IF conn.at = "busy" \/ conn.ok THEN "select" ELSE "notify",
                               !.caller = NoCaller, !.ok = TRUE,
                               !.lost = conn.at = "done" /\ ~conn.ok /\ c \in Getters]
    /\ UNCHANGED <<clBudget, isConnected, isShutdown, sendOffers, getCh, docVars>>

\* The last chunk of a document, or an error code, goes to the caller on replyCh.
ReplyArrives(code) ==
    /\ conn.at = "select" /\ conn.ctx # NoCaller /\ code \in clBudget.answers
    /\ conn' = [conn EXCEPT !.at = "reply", !.caller = conn.ctx, !.code = code]
    /\ UNCHANGED <<clBudget, isConnected, isShutdown, sendOffers, getCh, call, docVars>>

Bug_Answered == [conn EXCEPT !.at = "select", !.caller = NoCaller]

\* consensusCtx is cleared and the dechunker reset.
Answered == [conn EXCEPT !.at = "select", !.caller = NoCaller, !.ctx = NoCaller, !.code = "ok"]

ReplyTaken ==
    /\ conn.at = "reply" /\ call[conn.caller].at = "awaitReply"
    /\ At(conn.caller, conn.code)
    /\ conn' = Answered
    /\ UNCHANGED <<clBudget, isConnected, isShutdown, sendOffers, getCh, docVars>>

\* The reader fails, the peer disconnects or breaks the protocol, a callback fails.
SessionBreaks ==
    /\ conn.at = "select" /\ clBudget.breaks > 0
    /\ clBudget' = [clBudget EXCEPT !.breaks = @ - 1]
    /\ conn' = [conn EXCEPT !.at = "notify"]
    /\ UNCHANGED <<isConnected, isShutdown, sendOffers, getCh, call, docVars>>

\* The deferred notification of an outstanding document request, or halting.
Notifies ==
    /\ conn.at = "notify"
    /\ \/ conn.ctx = NoCaller /\ UNCHANGED call
       \/ conn.ctx # NoCaller /\ call[conn.ctx].at = "awaitReply" /\ At(conn.ctx, "refused")
       \/ isShutdown /\ UNCHANGED call
    /\ conn' = [Dialing EXCEPT !.at = "status"]
    /\ UNCHANGED <<clBudget, isConnected, isShutdown, sendOffers, getCh, docVars>>

\* onConnStatusChange(err), by onWireConn and again by doConnect: one sender and one document
\* request are drained each time.
StatusChange ==
    /\ conn.at \in {"status", "status2"} /\ ~isShutdown
    /\ isConnected' = FALSE
    /\ \E c \in IF sendOffers = {} THEN {NoCaller} ELSE sendOffers :
          /\ sendOffers' = sendOffers \ {c}
          /\ call' = [x \in Callers |-> IF x = c THEN [call[x] EXCEPT !.at = "idle"]
                                        ELSE IF getCh # <<>> /\ x = Head(getCh)
                                             THEN [call[x] EXCEPT !.at = "refused"] ELSE call[x]]
    /\ getCh' = <<>>
    /\ conn' = [conn EXCEPT !.at = IF @ = "status" THEN "status2" ELSE "dial"]
    /\ UNCHANGED <<clBudget, isShutdown, docVars>>

\* Shutdown: isShutdown, then Halt closes HaltCh; the worker returns from where it watches it.
ConnShutdown ==
    /\ clBudget.halts /\ ~isShutdown
    /\ isShutdown' = TRUE
    /\ UNCHANGED <<clBudget, conn, isConnected, sendOffers, getCh, call, docVars>>
WorkerReturns ==
    /\ isShutdown /\ conn.at \in {"dial", "select", "status", "status2"}
    /\ conn' = [conn EXCEPT !.at = "gone", !.ctx = NoCaller]
    /\ UNCHANGED <<clBudget, isConnected, isShutdown, sendOffers, getCh, call, docVars>>

----------------------------------------------------------------------------
(* The documents. *)

ClTick ==
    /\ clEpoch < clBudget.until
    /\ clEpoch' = clEpoch + 1
    /\ UNCHANGED <<clBudget, conn, isConnected, isShutdown, sendOffers, getCh, call, loop, clDocs, failedFetches>>

\* A turn of pki.worker: this epoch's document and, late in the epoch, the next one's.
PKIWakes(next) ==
    /\ call[PKILoop].at = "idle" /\ loop = NoTurn /\ clBudget.turns > 0 /\ ~isShutdown
    /\ clBudget' = [clBudget EXCEPT !.turns = @ - 1]
    /\ loop' = [now |-> clEpoch, did |-> FALSE, todo |-> IF next THEN {clEpoch, clEpoch + 1} ELSE {clEpoch}]
    /\ UNCHANGED <<conn, isConnected, isShutdown, sendOffers, getCh, call, clDocs, failedFetches, clEpoch>>

\* The next of them, in order: one that is cached or failed for good is skipped.
PKIFetches(e) ==
    /\ call[PKILoop].at = "idle" /\ e \in loop.todo /\ \A f \in loop.todo : e <= f
    /\ IF e \in clDocs \cup failedFetches THEN UNCHANGED call ELSE Asks(PKILoop, e)
    /\ loop' = [loop EXCEPT !.todo = @ \ {e}]
    /\ UNCHANGED <<clBudget, conn, isConnected, isShutdown, sendOffers, getCh, clDocs, failedFetches, clEpoch>>

Bug_Kept(now) == {e \in clDocs : e >= now}

\* pruneDocuments keeps the previous epoch's document; pruneFailures this and the next epoch.
Kept(now) == {e \in clDocs : e + 1 >= now}
StillFailed(now) == {e \in failedFetches : e \in {now, now + 1}}

PKITurnEnds ==
    /\ call[PKILoop].at = "idle" /\ loop # NoTurn /\ loop.todo = {}
    /\ failedFetches' = StillFailed(loop.now)
    /\ clDocs' = IF loop.did THEN Kept(loop.now) ELSE clDocs
    /\ loop' = NoTurn
    /\ UNCHANGED <<clBudget, conn, isConnected, isShutdown, sendOffers, getCh, call, clEpoch>>

\* updateDocument with the answer: Ok is cached, Gone is not asked for again by the worker.
PKIStores ==
    /\ call[PKILoop].at \in {"ok", "gone", "notFound", "refused"}
    /\ LET e == call[PKILoop].epoch IN
       /\ clDocs' = IF call[PKILoop].at = "ok" THEN clDocs \cup {e} ELSE clDocs
       /\ failedFetches' = IF call[PKILoop].at = "gone" THEN failedFetches \cup {e} ELSE failedFetches
       /\ loop' = IF call[PKILoop].at = "ok" THEN [loop EXCEPT !.did = TRUE] ELSE loop
    /\ call' = [call EXCEPT ![PKILoop] = IdleCall]
    /\ UNCHANGED <<clBudget, conn, isConnected, isShutdown, sendOffers, getCh, clEpoch>>

CurrentDocument == {clEpoch, clEpoch - 1} \cap clDocs

\* WaitForCurrentDocument: nothing to do with a document, else up to WaitAttempts fetches.
WaitForDocument(c) ==
    /\ call[c].at = "idle" /\ clBudget.waits > 0 /\ CurrentDocument = {}
    /\ clBudget' = [clBudget EXCEPT !.waits = @ - 1]
    /\ call' = [call EXCEPT ![c] = [at |-> "retry", epoch |-> 0, left |-> WaitAttempts]]
    /\ UNCHANGED <<conn, isConnected, isShutdown, sendOffers, getCh, docVars>>
WaiterAsks(c) ==
    /\ call[c].at = "retry"
    /\ IF call[c].left = 0 \/ isShutdown THEN call' = [call EXCEPT ![c] = IdleCall]
       ELSE call' = [call EXCEPT ![c] = [at |-> IF isConnected THEN "offer" ELSE "refused",
                                         epoch |-> clEpoch, left |-> call[c].left - 1]]
    /\ UNCHANGED <<clBudget, conn, isConnected, isShutdown, sendOffers, getCh, docVars>>
WaiterStores(c) ==
    /\ call[c].at \in {"ok", "gone", "notFound", "refused"}
    /\ clDocs' = IF call[c].at = "ok" THEN clDocs \cup {call[c].epoch} ELSE clDocs
    /\ call' = [call EXCEPT ![c] = IF @.at = "ok" THEN IdleCall ELSE [@ EXCEPT !.at = "retry"]]
    /\ UNCHANGED <<clBudget, conn, isConnected, isShutdown, sendOffers, getCh, loop, failedFetches, clEpoch>>

ClNext ==
    \/ ConnEstablished \/ DoneFn \/ ReplyTaken \/ SessionBreaks \/ Notifies \/ StatusChange
    \/ ConnShutdown \/ WorkerReturns \/ ClTick \/ PKIStores \/ PKITurnEnds
    \/ \E b \in BOOLEAN : TakesConsensus(b) \/ PKIWakes(b)
    \/ \E e \in loop.todo : PKIFetches(e)
    \/ \E code \in clBudget.answers : ReplyArrives(code)
    \/ \E c \in Senders : SendPacket(c) \/ TakesSend(c, TRUE) \/ TakesSend(c, FALSE)
    \/ \E c \in Getters : OffersConsensus(c)
    \/ \E c \in Waiters : WaitForDocument(c) \/ WaiterAsks(c) \/ WaiterStores(c)
    \/ \E c \in Callers : CallerLeaves(c)

ClSpec == ClInit /\ [][ClNext]_clVars

----------------------------------------------------------------------------
\* A caller the worker has taken waits for it, one request at most is in the channel, and only
\* blocked senders are on offer.
ClTypeOK ==
    /\ Len(getCh) <= 1 /\ sendOffers \subseteq {c \in Senders : call[c].at = "offer"}
    /\ conn.at \in {"dial", "select", "done", "busy", "reply", "notify", "status", "status2", "gone"}
    /\ conn.at \in {"done", "busy", "reply"} <=> conn.caller # NoCaller
    /\ conn.ctx \in Getters \cup {NoCaller}
    /\ clDocs \cup failedFetches \subseteq 1..(clBudget.until + 1)

\* While the client runs, whatever the worker hands out is awaited: it never blocks for ever on
\* the channel of a caller that has gone, save after a failed send of GetConsensus2, whose caller
\* doneFn has released already when the deferred notification waits for it (connection.go:546).
AnswersTaken ==
    ~isShutdown =>
        /\ conn.at \in {"done", "busy"} => call[conn.caller].at = "await"
        /\ conn.at = "reply" => call[conn.caller].at = "awaitReply"
        /\ conn.at = "select" /\ conn.ctx # NoCaller => call[conn.ctx].at = "awaitReply"
        /\ conn.at = "notify" /\ conn.ctx # NoCaller => call[conn.ctx].at = "awaitReply" \/ conn.lost

\* A fetched document stays available through its own epoch and the next one, whichever of the
\* worker and the callers of CurrentDocument fetched it (pruneDocuments, currentDocument).
DocumentKept == [][\A e \in clDocs : e + 1 >= clEpoch => e \in clDocs']_clVars

\* While the client runs, its connection's worker never waits on an unbuffered channel for a caller
\* that has gone, but for the document request that could not be sent (onWireConn).
ConnectionSound == ClTypeOK /\ AnswersTaken
=============================================================================
