------------------------------ MODULE Listeners ------------------------------
(***************************************************************************)
(* The incoming connections of one server: server/internal/incoming        *)
(* (mixes, gateways and service nodes) and replica/listener.go with        *)
(* replica/incoming_conn.go.  A connection is accepted, handshakes, closes *)
(* the older connections of the same peer and serves commands until it is  *)
(* closed by a newer one, fails to reauthenticate, ends or is shut down.   *)
(*                                                                         *)
(* The two programs differ in CloseOldConns: a mix server collects the old *)
(* connections under its lock and closes them after releasing it; a        *)
(* replica holds the lock all along.  Close is a rendezvous with the       *)
(* command loop of the other connection.                                   *)
(***************************************************************************)
EXTENDS Integers, Sequences, FiniteSets

CONSTANTS
    ConnPeer,       \* connection (numbered from 1, in the order of acceptance) -> its peer
    ListenBudgets   \* the workloads

ASSUME ListenAssumption ==
    /\ DOMAIN ConnPeer \subseteq Nat \ {0}
    /\ ListenBudgets \subseteq [kind : {"mix", "replica"}, accepts : Nat, leaves : Nat, delists : Nat, halts : BOOLEAN]

Conns == DOMAIN ConnPeer
NoHolder == 0

VARIABLES
    listenBudget,   \* kind of server, and what may still happen
    peerConn,       \* each connection: where its worker is, whom it has to close, whom it is closing
    initialized,    \* the connections past their handshake, in that order
    lockedBy,       \* the replica's Listener lock while CloseOldConns holds it
    peerListed,     \* the peers IsPeerValid accepts
    closeAll        \* closeAllCh is closed

listenVars == <<listenBudget, peerConn, initialized, lockedBy, peerListed, closeAll>>

ListenInit ==
    /\ listenBudget \in ListenBudgets
    /\ peerConn = [c \in Conns |-> [at |-> "none", toClose |-> {}, closing |-> NoHolder]]
    /\ initialized = <<>> /\ lockedBy = NoHolder
    /\ peerListed = {ConnPeer[c] : c \in Conns} /\ closeAll = FALSE

Goes(c, where) == peerConn' = [peerConn EXCEPT ![c].at = where]
IsInitialized(c) == \E i \in DOMAIN initialized : initialized[i] = c
Older(t, c) == \E i, j \in DOMAIN initialized : i < j /\ initialized[i] = t /\ initialized[j] = c

\* worker and onNewConn: accepted in order, put on the list, its worker started.
Accepts(c) ==
    /\ peerConn[c].at = "none" /\ ~closeAll /\ lockedBy = NoHolder
    /\ \A d \in Conns : d < c => peerConn[d].at # "none"
    /\ c <= listenBudget.accepts
    /\ Goes(c, "handshake")
    /\ UNCHANGED <<listenBudget, initialized, lockedBy, peerListed, closeAll>>

\* The session is established: PeerCredentials answers.  "dead": the reader failed, the command
\* loop has not seen it yet; "closed": the session is closed, onClosedConn is still to come.
HasSession(c) == peerConn[c].at \in {"collect", "close", "serve", "ending"}

\* Initialize succeeds with a peer that IsPeerValid accepts; onInitializedConn.
Handshake(c) ==
    /\ peerConn[c].at = "handshake" /\ ConnPeer[c] \in peerListed /\ lockedBy = NoHolder
    /\ Goes(c, "collect") /\ initialized' = Append(initialized, c)
    /\ UNCHANGED <<listenBudget, lockedBy, peerListed, closeAll>>

\* It fails: no bytes, the timeout, or a peer that is not valid.
HandshakeFails(c) ==
    /\ peerConn[c].at = "handshake" /\ (listenBudget.leaves > 0 \/ ConnPeer[c] \notin peerListed \/ closeAll)
    /\ Goes(c, "closed")
    /\ UNCHANGED <<listenBudget, initialized, lockedBy, peerListed, closeAll>>

Bug_OldConns(c) ==
    {d \in Conns \ {c} : HasSession(d) /\ peerConn[d].at = "serve" /\ ConnPeer[d] = ConnPeer[c]}

\* What CloseOldConns finds: the other sessions with the same name and key.
OldConns(c) == {d \in Conns \ {c} : HasSession(d) /\ ConnPeer[d] = ConnPeer[c]}

\* The mix server's CloseOldConns reads the list and lets the lock go.
CollectOldConns(c) ==
    /\ listenBudget.kind = "mix" /\ peerConn[c].at = "collect"
    /\ peerConn' = [peerConn EXCEPT ![c].at = "close", ![c].toClose = OldConns(c)]
    /\ UNCHANGED <<listenBudget, initialized, lockedBy, peerListed, closeAll>>

\* The replica's holds it while it walks the list.
LockAndCollect(c) ==
    /\ listenBudget.kind = "replica" /\ peerConn[c].at = "collect" /\ lockedBy = NoHolder
    /\ peerConn' = [peerConn EXCEPT ![c].at = "close", ![c].toClose = OldConns(c)]
    /\ lockedBy' = c
    /\ UNCHANGED <<listenBudget, initialized, peerListed, closeAll>>

\* The next of them, newest first as the list is kept, and the call of its Close; the replica
\* reads the credentials only now and skips a session that has ended.
NextOldConn(c, t) ==
    /\ peerConn[c].at = "close" /\ peerConn[c].closing = NoHolder
    /\ t \in peerConn[c].toClose /\ \A u \in peerConn[c].toClose : u <= t
    /\ peerConn' = [peerConn EXCEPT ![c].toClose = @ \ {t},
                            ![c].closing = IF listenBudget.kind = "mix" \/ HasSession(t) THEN t ELSE NoHolder]
    /\ UNCHANGED <<listenBudget, initialized, lockedBy, peerListed, closeAll>>

InLoop(c) == peerConn[c].at \in {"serve", "dead"}
Ended(c) == IF peerConn[c].at = "dead" THEN "closed" ELSE "ending"

Bug_CloseConn(c, t) ==
    /\ peerConn[c].at = "close" /\ peerConn[c].closing = t
    /\ peerConn' = [peerConn EXCEPT ![c].closing = NoHolder, ![t].at = IF InLoop(t) THEN Ended(t) ELSE @]
    /\ UNCHANGED <<listenBudget, initialized, lockedBy, peerListed, closeAll>>

\* Close is taken by the other connection's command loop, which returns.
CloseConn(c, t) ==
    /\ peerConn[c].at = "close" /\ peerConn[c].closing = t /\ InLoop(t)
    /\ peerConn' = [peerConn EXCEPT ![c].closing = NoHolder, ![t].at = Ended(t)]
    /\ UNCHANGED <<listenBudget, initialized, lockedBy, peerListed, closeAll>>

\* CloseOldConns returns and the command loop starts.
Serve(c) ==
    /\ peerConn[c].at = "close" /\ peerConn[c].toClose = {} /\ peerConn[c].closing = NoHolder
    /\ Goes(c, "serve")
    /\ lockedBy' = IF lockedBy = c THEN NoHolder ELSE lockedBy
    /\ UNCHANGED <<listenBudget, initialized, peerListed, closeAll>>

\* The reader fails; then the loop sees commandCh closed.
PeerLeaves(c) ==
    /\ peerConn[c].at = "serve" /\ listenBudget.leaves > 0
    /\ listenBudget' = [listenBudget EXCEPT !.leaves = @ - 1]
    /\ Goes(c, "dead")
    /\ UNCHANGED <<initialized, lockedBy, peerListed, closeAll>>
LoopEnds(c) ==
    /\ peerConn[c].at = "dead"
    /\ Goes(c, "closed")
    /\ UNCHANGED <<listenBudget, initialized, lockedBy, peerListed, closeAll>>

\* A Disconnect, or a command the connection cannot handle.
BadCommand(c) ==
    /\ peerConn[c].at = "serve" /\ listenBudget.leaves > 0
    /\ listenBudget' = [listenBudget EXCEPT !.leaves = @ - 1]
    /\ Goes(c, "ending")
    /\ UNCHANGED <<initialized, lockedBy, peerListed, closeAll>>

\* The reauthentication ticker of the command loop.
ReauthFails(c) ==
    /\ InLoop(c) /\ ConnPeer[c] \notin peerListed
    /\ Goes(c, Ended(c))
    /\ UNCHANGED <<listenBudget, initialized, lockedBy, peerListed, closeAll>>
PeerDelisted(p) ==
    /\ p \in peerListed /\ listenBudget.delists > 0
    /\ listenBudget' = [listenBudget EXCEPT !.delists = @ - 1]
    /\ peerListed' = peerListed \ {p}
    /\ UNCHANGED <<peerConn, initialized, lockedBy, closeAll>>

\* Halt closes closeAllCh, which only the command loops watch.
HaltListener ==
    /\ listenBudget.halts /\ ~closeAll
    /\ closeAll' = TRUE
    /\ UNCHANGED <<listenBudget, peerConn, initialized, lockedBy, peerListed>>
SeesHalt(c) ==
    /\ closeAll /\ InLoop(c)
    /\ Goes(c, Ended(c))
    /\ UNCHANGED <<listenBudget, initialized, lockedBy, peerListed, closeAll>>

\* The worker's deferred calls: the session's Close, then onClosedConn.
SessionCloses(c) ==
    /\ peerConn[c].at = "ending"
    /\ Goes(c, "closed")
    /\ UNCHANGED <<listenBudget, initialized, lockedBy, peerListed, closeAll>>
OnClosedConn(c) ==
    /\ peerConn[c].at = "closed" /\ lockedBy = NoHolder
    /\ Goes(c, "gone")
    /\ UNCHANGED <<listenBudget, initialized, lockedBy, peerListed, closeAll>>

ListenNext ==
    \/ HaltListener
    \/ \E p \in peerListed : PeerDelisted(p)
    \/ \E c \in Conns :
          \/ Accepts(c) \/ Handshake(c) \/ HandshakeFails(c) \/ CollectOldConns(c) \/ LockAndCollect(c)
          \/ Serve(c) \/ PeerLeaves(c) \/ LoopEnds(c) \/ BadCommand(c) \/ ReauthFails(c)
          \/ SeesHalt(c) \/ SessionCloses(c) \/ OnClosedConn(c)
          \/ \E t \in Conns : NextOldConn(c, t) \/ CloseConn(c, t)

ListenSpec == ListenInit /\ [][ListenNext]_listenVars

----------------------------------------------------------------------------
\* A connection that closes others is past its handshake and closes connections of its own peer;
\* the replica's lock is held by such a connection only.
ListenTypeOK ==
    /\ \A c \in Conns : \A t \in peerConn[c].toClose \cup ({peerConn[c].closing} \ {NoHolder}) :
          peerConn[c].at = "close" /\ t # c /\ ConnPeer[t] = ConnPeer[c] /\ IsInitialized(t) /\ IsInitialized(c)
    /\ lockedBy # NoHolder => peerConn[lockedBy].at = "close" /\ listenBudget.kind = "replica"

\* Only one connection of a peer serves commands at a time, however handshakes and closes interleave
\* ("Ensure that there's only one incoming conn from any given peer").
OneSession ==
    \A c, d \in Conns : c # d /\ ConnPeer[c] = ConnPeer[d] => ~(peerConn[c].at = "serve" /\ peerConn[d].at = "serve")

\* "Newest connection wins": the connection that makes room had completed its handshake before the
\* one it makes room for, so no late CloseOldConns cuts off a newer session.
NewestWins ==
    [][\A c, t \in Conns : peerConn[c].closing = t /\ peerConn'[c].closing = NoHolder => Older(t, c)]_listenVars

\* One connection of a peer is served at a time, and CloseOldConns closes only other connections of
\* the same peer that have finished their handshake.
SessionsSound == ListenTypeOK /\ OneSession
=============================================================================
