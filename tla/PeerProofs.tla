------------------------------ MODULE PeerProofs ------------------------------
(***************************************************************************)
(* Proofs about whom a node talks to: the incoming connections of a server *)
(* (Listeners), a client's connection to its gateway (ClientConn), and the *)
(* replicas that a box and a request for it go to (Sharding).              *)
(***************************************************************************)
EXTENDS Listeners, ClientConn, Sharding, TLAPS

----------------------------------------------------------------------------
(* Listeners *)

\* A connection's worker that will never run its command loop (again).
Past == {"dead", "ending", "closed", "gone"}

PeerConn == [at : {"none", "handshake", "collect", "close", "serve"} \cup Past,
             toClose : SUBSET Conns, closing : Conns \cup {NoHolder}]

ListenShape ==
    /\ listenBudget \in [kind : {"mix", "replica"}, accepts : Nat, leaves : Nat, delists : Nat, halts : BOOLEAN]
    /\ peerConn \in [Conns -> PeerConn]
    /\ initialized \in Seq(Conns)
    /\ lockedBy \in Conns \cup {NoHolder}

\* The connections past their handshake, and no others, are in initialized, once each.
HandshakesKept ==
    /\ \A i, j \in DOMAIN initialized : initialized[i] = initialized[j] => i = j
    /\ \A c \in Conns : peerConn[c].at \in {"none", "handshake"} => ~IsInitialized(c)
    /\ \A c \in Conns : peerConn[c].at \in {"collect", "close", "serve", "dead", "ending"} => IsInitialized(c)

\* CloseOldConns of d has still to close each older connection c of the peer, or c is past serving;
\* once d has got through it, all of them are.
OlderMakesRoom ==
    \A c, d \in Conns : ConnPeer[c] = ConnPeer[d] /\ Older(c, d) =>
        /\ peerConn[d].at = "close" =>
              c \in peerConn[d].toClose \/ peerConn[d].closing = c \/ peerConn[c].at \in Past
        /\ peerConn[d].at = "serve" \/ peerConn[d].at \in Past => peerConn[c].at \in Past

ListenInv == ListenShape /\ HandshakesKept /\ ListenTypeOK /\ OlderMakesRoom

\* Append puts the new element last and leaves the others where they are.
LEMMA AppendFacts ==
    ASSUME NEW S, NEW s \in Seq(S), NEW x \in S
    PROVE  /\ Append(s, x) \in Seq(S)
           /\ DOMAIN Append(s, x) = 1..(Len(s) + 1)
           /\ \A i \in 1..Len(s) : Append(s, x)[i] = s[i]
           /\ Append(s, x)[Len(s) + 1] = x
           /\ DOMAIN s = 1..Len(s)
  OBVIOUS

LEMMA ListenInitInv == ListenInit => ListenInv
  <1> SUFFICES ASSUME ListenInit PROVE ListenInv
    OBVIOUS
  <1>1. ListenShape
    BY ListenAssumption DEF ListenInit, ListenShape, PeerConn, Past, NoHolder
  <1>2. DOMAIN initialized = {}
    BY DEF ListenInit
  <1>3. HandshakesKept /\ OlderMakesRoom
    BY <1>2 DEF ListenInit, HandshakesKept, OlderMakesRoom, IsInitialized, Older, Past
  <1>4. ListenTypeOK
    BY DEF ListenInit, ListenTypeOK
  <1> QED
    BY <1>1, <1>3, <1>4 DEF ListenInv

\* Every step of the listeners keeps the shape of their state.
LEMMA ListenShapeStep == ListenInv /\ [ListenNext]_listenVars => ListenShape'
  <1> SUFFICES ASSUME ListenShape, [ListenNext]_listenVars PROVE ListenShape'
    BY DEF ListenInv
  <1> USE DEF ListenShape, PeerConn, Past, Goes
  <1>1. CASE HaltListener
    BY <1>1 DEF HaltListener
  <1>2. ASSUME NEW p, PeerDelisted(p) PROVE ListenShape'
    BY <1>2 DEF PeerDelisted
  <1>3. ASSUME NEW c \in Conns, Accepts(c) PROVE ListenShape'
    BY <1>3 DEF Accepts
  <1>4. ASSUME NEW c \in Conns, Handshake(c) PROVE ListenShape'
    BY <1>4, AppendFacts, SMTT(30) DEF Handshake
  <1>5. ASSUME NEW c \in Conns, HandshakeFails(c) PROVE ListenShape'
    BY <1>5, SMTT(30) DEF HandshakeFails
  <1>6. ASSUME NEW c \in Conns, CollectOldConns(c) PROVE ListenShape'
    BY <1>6, ZenonT(30) DEF CollectOldConns, OldConns
  <1>7. ASSUME NEW c \in Conns, LockAndCollect(c) PROVE ListenShape'
    BY <1>7, ZenonT(30) DEF LockAndCollect, OldConns
  <1>8. ASSUME NEW c \in Conns, Serve(c) PROVE ListenShape'
    BY <1>8 DEF Serve, NoHolder
  <1>9. ASSUME NEW c \in Conns, PeerLeaves(c) PROVE ListenShape'
    BY <1>9, SMTT(30) DEF PeerLeaves
  <1>10. ASSUME NEW c \in Conns, LoopEnds(c) PROVE ListenShape'
    BY <1>10, ZenonT(30) DEF LoopEnds
  <1>11. ASSUME NEW c \in Conns, BadCommand(c) PROVE ListenShape'
    BY <1>11, SMTT(30) DEF BadCommand
  <1>12. ASSUME NEW c \in Conns, ReauthFails(c) PROVE ListenShape'
    BY <1>12, ZenonT(30) DEF ReauthFails, Ended
  <1>13. ASSUME NEW c \in Conns, SeesHalt(c) PROVE ListenShape'
    BY <1>13, SMTT(30) DEF SeesHalt, Ended
  <1>14. ASSUME NEW c \in Conns, SessionCloses(c) PROVE ListenShape'
    BY <1>14, ZenonT(30) DEF SessionCloses
  <1>15. ASSUME NEW c \in Conns, OnClosedConn(c) PROVE ListenShape'
    BY <1>15, ZenonT(30) DEF OnClosedConn
  <1>16. ASSUME NEW c \in Conns, NEW t \in Conns, NextOldConn(c, t) PROVE ListenShape'
    <2>1. PICK r \in {t, NoHolder} :
             peerConn' = [peerConn EXCEPT ![c].toClose = @ \ {t}, ![c].closing = r]
      BY <1>16, Zenon DEF NextOldConn
    <2> DEFINE mid == [peerConn EXCEPT ![c].toClose = @ \ {t}]
    <2>2. mid \in [Conns -> PeerConn] /\ peerConn' = [mid EXCEPT ![c].closing = r]
      BY <2>1
    <2> HIDE DEF mid
    <2>3. peerConn' \in [Conns -> PeerConn]
      BY <2>2, ZenonT(30)
    <2> QED
      BY <1>16, <2>3 DEF NextOldConn
  <1>17. ASSUME NEW c \in Conns, NEW t \in Conns, CloseConn(c, t) PROVE ListenShape'
    <2>1. PICK e \in Past : peerConn' = [peerConn EXCEPT ![c].closing = NoHolder, ![t].at = e]
      BY <1>17, Zenon DEF CloseConn, Ended
    <2> DEFINE mid == [peerConn EXCEPT ![c].closing = NoHolder]
    <2>2. mid \in [Conns -> PeerConn] /\ peerConn' = [mid EXCEPT ![t].at = e]
      BY <2>1
    <2> HIDE DEF mid
    <2>3. peerConn' \in [Conns -> PeerConn]
      BY <2>2, ZenonT(30)
    <2> QED
      BY <1>17, <2>3, Zenon DEF CloseConn
  <1>18. CASE UNCHANGED listenVars
    BY <1>18 DEF listenVars
  <1> QED
    BY <1>1, <1>2, <1>3, <1>4, <1>5, <1>6, <1>7, <1>8, <1>9, <1>10, <1>11, <1>12, <1>13, <1>14, <1>15, <1>16, <1>17, <1>18 DEF ListenNext

\* A worker moves on by itself: it is accepted, its handshake fails, or it ends.
MovesOn(c, where) ==
    /\ Goes(c, where) /\ UNCHANGED <<initialized, lockedBy>>
    /\ \/ peerConn[c].at = "none" /\ where = "handshake"
       \/ peerConn[c].at = "handshake" /\ where = "closed"
       \/ peerConn[c].at = "serve" /\ where \in {"dead", "ending"}
       \/ peerConn[c].at \in Past /\ where \in {"closed", "gone"}

Collects(c) == CollectOldConns(c) \/ LockAndCollect(c)

\* What a step of the listeners does to the connections, whichever action it is.
LEMMA ListenEffects ==
    ASSUME ListenShape, [ListenNext]_listenVars
    PROVE  /\ listenBudget'.kind = listenBudget.kind
           /\ \/ UNCHANGED <<peerConn, initialized, lockedBy>>
              \/ \E c \in Conns : \/ Handshake(c) \/ Collects(c) \/ Serve(c)
                                  \/ \E where \in {"handshake"} \cup Past : MovesOn(c, where)
                                  \/ \E t \in Conns : NextOldConn(c, t) \/ CloseConn(c, t)
  <1>1. listenBudget'.kind = listenBudget.kind
    <2>1. CASE UNCHANGED listenBudget
      BY <2>1
    <2>2. ASSUME NEW p, PeerDelisted(p) PROVE listenBudget'.kind = listenBudget.kind
      BY <2>2 DEF PeerDelisted, ListenShape
    <2>3. ASSUME NEW c \in Conns, PeerLeaves(c) \/ BadCommand(c) PROVE listenBudget'.kind = listenBudget.kind
      BY <2>3 DEF PeerLeaves, BadCommand, ListenShape
    <2> QED
      BY <2>1, <2>2, <2>3, Zenon DEF ListenNext, HaltListener, Accepts, Handshake, HandshakeFails, CollectOldConns, LockAndCollect, Serve, LoopEnds, ReauthFails, SeesHalt, SessionCloses, OnClosedConn, NextOldConn, CloseConn, listenVars
  <1>2. CASE HaltListener \/ (\E p \in peerListed : PeerDelisted(p)) \/ UNCHANGED listenVars
    BY <1>1, <1>2 DEF HaltListener, PeerDelisted, listenVars
  <1>3. ASSUME NEW c \in Conns,
               \/ Accepts(c) \/ HandshakeFails(c) \/ PeerLeaves(c) \/ LoopEnds(c) \/ BadCommand(c)
               \/ ReauthFails(c) \/ SeesHalt(c) \/ SessionCloses(c) \/ OnClosedConn(c)
        PROVE  \E where \in {"handshake"} \cup Past : MovesOn(c, where)
    BY <1>3 DEF Accepts, HandshakeFails, PeerLeaves, LoopEnds, BadCommand, ReauthFails, SeesHalt, SessionCloses,
                OnClosedConn, MovesOn, Ended, InLoop, Past
  <1> QED
    BY <1>1, <1>2, <1>3 DEF ListenNext, Collects

\* A handshake puts its connection last in initialized and disturbs no order among the others.
LEMMA HandshakeOrder ==
    ASSUME ListenShape, NEW c \in Conns, Handshake(c)
    PROVE  /\ \A d \in Conns : IsInitialized(d)' <=> IsInitialized(d) \/ d = c
           /\ \A d, e \in Conns : Older(d, e)' <=> Older(d, e) \/ (IsInitialized(d) /\ e = c)
  <1> DEFINE n == Len(initialized)
  <1>1. /\ n \in Nat /\ DOMAIN initialized = 1..n /\ DOMAIN initialized' = 1..(n + 1)
        /\ \A i \in 1..n : initialized'[i] = initialized[i]
        /\ initialized'[n + 1] = c
    BY AppendFacts DEF ListenShape, Handshake
  <1> HIDE DEF n
  <1>2. ASSUME NEW d \in Conns PROVE IsInitialized(d)' <=> IsInitialized(d) \/ d = c
    BY <1>1 DEF IsInitialized
  <1>3. ASSUME NEW d \in Conns, NEW e \in Conns, Older(d, e)'
        PROVE  Older(d, e) \/ (IsInitialized(d) /\ e = c)
    <2>1. PICK i \in 1..(n + 1), j \in 1..(n + 1) : i < j /\ initialized'[i] = d /\ initialized'[j] = e
      BY <1>1, <1>3 DEF Older
    <2>2. i \in 1..n /\ initialized[i] = d
      BY <1>1, <2>1
    <2> QED
      BY <1>1, <2>1, <2>2 DEF Older, IsInitialized
  <1>4. ASSUME NEW d \in Conns, NEW e \in Conns, Older(d, e) \/ (IsInitialized(d) /\ e = c)
        PROVE  Older(d, e)'
    <2>1. PICK i \in 1..n, j \in 1..(n + 1) : i < j /\ initialized[i] = d /\ initialized'[j] = e
      BY <1>1, <1>4 DEF Older, IsInitialized
    <2> QED
      BY <1>1, <2>1 DEF Older
  <1> QED
    BY <1>2, <1>3, <1>4

\* A worker that goes on keeps what it has to close.
LEMMA GoesEffect ==
    ASSUME ListenShape, NEW c \in Conns, NEW where, Goes(c, where)
    PROVE  \A d \in Conns : /\ peerConn'[d].at = IF d = c THEN where ELSE peerConn[d].at
                            /\ peerConn'[d].toClose = peerConn[d].toClose
                            /\ peerConn'[d].closing = peerConn[d].closing
  BY DEF Goes, ListenShape, PeerConn

\* CloseOldConns begins with the other sessions of the peer.
LEMMA CollectsEffect ==
    ASSUME ListenShape, NEW c \in Conns, Collects(c)
    PROVE  \A d \in Conns : /\ peerConn'[d].at = IF d = c THEN "close" ELSE peerConn[d].at
                            /\ peerConn'[d].toClose = IF d = c THEN OldConns(c) ELSE peerConn[d].toClose
                            /\ peerConn'[d].closing = peerConn[d].closing
  BY DEF Collects, CollectOldConns, LockAndCollect, ListenShape, PeerConn

\* Close takes the other connection out of its command loop and is over.
LEMMA CloseConnEffect ==
    ASSUME ListenShape, NEW c \in Conns, NEW t \in Conns, CloseConn(c, t)
    PROVE  \A d \in Conns : /\ peerConn'[d].at = IF d = t THEN Ended(t) ELSE peerConn[d].at
                            /\ peerConn'[d].toClose = peerConn[d].toClose
                            /\ peerConn'[d].closing = IF d = c THEN NoHolder ELSE peerConn[d].closing
  <1> DEFINE mid == [peerConn EXCEPT ![c].closing = NoHolder]
             e == Ended(t)
  <1>1. /\ mid \in [Conns -> PeerConn]
        /\ \A d \in Conns : /\ mid[d].at = peerConn[d].at /\ mid[d].toClose = peerConn[d].toClose
                            /\ mid[d].closing = IF d = c THEN NoHolder ELSE peerConn[d].closing
    BY DEF ListenShape, PeerConn
  <1>2. peerConn' = [mid EXCEPT ![t].at = e]
    BY DEF CloseConn
  <1> HIDE DEF mid, e
  <1> QED
    <2>1. \A d \in Conns : /\ peerConn'[d].at = IF d = t THEN e ELSE mid[d].at
                           /\ peerConn'[d].toClose = mid[d].toClose
                           /\ peerConn'[d].closing = mid[d].closing
      BY <1>1, <1>2 DEF PeerConn
    <2> QED
      BY <1>1, <2>1 DEF e

\* The next old connection is taken off the list; the replica skips one whose session has ended.
LEMMA NextOldConnEffect ==
    ASSUME ListenShape, NEW c \in Conns, NEW t \in Conns, NextOldConn(c, t)
    PROVE  \A d \in Conns :
             /\ peerConn'[d].at = peerConn[d].at
             /\ peerConn'[d].toClose = IF d = c THEN peerConn[c].toClose \ {t} ELSE peerConn[d].toClose
             /\ d # c => peerConn'[d].closing = peerConn[d].closing
             /\ d = c => peerConn'[d].closing = t \/ (peerConn'[d].closing = NoHolder /\ ~HasSession(t))
  <1> DEFINE mid == [peerConn EXCEPT ![c].toClose = @ \ {t}]
             r == IF listenBudget.kind = "mix" \/ HasSession(t) THEN t ELSE NoHolder
  <1>1. /\ mid \in [Conns -> PeerConn]
        /\ \A d \in Conns : /\ mid[d].at = peerConn[d].at /\ mid[d].closing = peerConn[d].closing
                            /\ mid[d].toClose = IF d = c THEN peerConn[c].toClose \ {t} ELSE peerConn[d].toClose
    BY DEF ListenShape, PeerConn
  <1>2. peerConn' = [mid EXCEPT ![c].closing = r] /\ (r = t \/ (r = NoHolder /\ ~HasSession(t)))
    BY DEF NextOldConn
  <1> HIDE DEF mid, r
  <1> QED
    BY <1>1, <1>2, ZenonT(30) DEF PeerConn

\* The list of handshakes stays exact.
LEMMA HandshakesKeptStep == ListenInv /\ [ListenNext]_listenVars => HandshakesKept'
  <1> SUFFICES ASSUME ListenShape, HandshakesKept, [ListenNext]_listenVars PROVE HandshakesKept'
    BY DEF ListenInv
  <1> USE DEF ListenShape, PeerConn
  <1>1. CASE UNCHANGED <<peerConn, initialized, lockedBy>>
    BY <1>1 DEF HandshakesKept, IsInitialized
  <1>2. ASSUME NEW c \in Conns, Handshake(c) PROVE HandshakesKept'
    <2>1. \A d \in Conns : peerConn'[d].at = IF d = c THEN "collect" ELSE peerConn[d].at
      BY <1>2 DEF Handshake, Goes
    <2>2. \A i, j \in DOMAIN initialized' : initialized'[i] = initialized'[j] => i = j
      <3>1. ~IsInitialized(c)
        BY <1>2 DEF Handshake, HandshakesKept
      <3> QED
        BY <1>2, <3>1, AppendFacts DEF HandshakesKept, Handshake, IsInitialized
    <2> QED
      BY <1>2, <2>1, <2>2, HandshakeOrder DEF HandshakesKept, Handshake
  <1>3. ASSUME NEW c \in Conns, Collects(c) PROVE HandshakesKept'
    BY <1>3, SMTT(30) DEF HandshakesKept, IsInitialized, Collects, CollectOldConns, LockAndCollect
  <1>4. ASSUME NEW c \in Conns, Serve(c) PROVE HandshakesKept'
    BY <1>4 DEF HandshakesKept, IsInitialized, Serve, Goes
  <1>5. ASSUME NEW c \in Conns, NEW where, MovesOn(c, where) PROVE HandshakesKept'
    BY <1>5 DEF HandshakesKept, IsInitialized, MovesOn, Goes, Past
  <1>6. ASSUME NEW c \in Conns, NEW t \in Conns, NextOldConn(c, t) PROVE HandshakesKept'
    <2>1. UNCHANGED initialized /\ \A d \in Conns : peerConn'[d].at = peerConn[d].at
      BY <1>6, NextOldConnEffect, Zenon DEF NextOldConn
    <2> QED
      BY <2>1 DEF HandshakesKept, IsInitialized
  <1>7. ASSUME NEW c \in Conns, NEW t \in Conns, CloseConn(c, t) PROVE HandshakesKept'
    <2>1. /\ UNCHANGED initialized /\ InLoop(t)
          /\ \A d \in Conns : peerConn'[d].at = IF d = t THEN Ended(t) ELSE peerConn[d].at
      BY <1>7, CloseConnEffect DEF CloseConn
    <2> QED
      BY <2>1 DEF HandshakesKept, IsInitialized, InLoop, Ended
  <1> QED
    BY <1>1, <1>2, <1>3, <1>4, <1>5, <1>6, <1>7, ListenEffects

\* Whom a connection has to close stays a connection of the same peer past its handshake.
LEMMA ListenTypeStep == ListenInv /\ [ListenNext]_listenVars => ListenTypeOK'
  <1> SUFFICES ASSUME ListenShape, HandshakesKept, ListenTypeOK, [ListenNext]_listenVars PROVE ListenTypeOK'
    BY DEF ListenInv
  <1>0. \A c \in Conns : c # NoHolder
    BY ListenAssumption DEF Conns, NoHolder
  <1>k. listenBudget'.kind = listenBudget.kind
    BY ListenEffects
  <1>l. lockedBy \in Conns \cup {NoHolder}
    BY DEF ListenShape
  <1>1. CASE UNCHANGED <<peerConn, initialized, lockedBy>>
    BY <1>1, <1>k DEF ListenTypeOK, IsInitialized
  <1> DEFINE Rest(d) == peerConn'[d].toClose = peerConn[d].toClose /\ peerConn'[d].closing = peerConn[d].closing
             OwnPeers == \A d \in Conns : \A t \in peerConn[d].toClose \cup ({peerConn[d].closing} \ {NoHolder}) :
                            /\ t \in Conns /\ peerConn[d].at = "close" /\ t # d /\ ConnPeer[t] = ConnPeer[d]
                            /\ IsInitialized(t) /\ IsInitialized(d)
             Locker == lockedBy # NoHolder => peerConn[lockedBy].at = "close" /\ listenBudget.kind = "replica"
  <1>p. OwnPeers /\ Locker
    BY DEF ListenTypeOK, ListenShape, PeerConn
  <1>q. OwnPeers' /\ Locker' => ListenTypeOK'
    BY DEF ListenTypeOK
  <1>2. ASSUME NEW c \in Conns, Handshake(c) PROVE ListenTypeOK'
    <2>1. peerConn[c].at = "handshake" /\ lockedBy' = lockedBy /\ lockedBy = NoHolder /\ Goes(c, "collect")
      BY <1>2 DEF Handshake
    <2>2. \A d \in Conns : Rest(d) /\ peerConn'[d].at = IF d = c THEN "collect" ELSE peerConn[d].at
      BY <2>1, GoesEffect
    <2>3. \A d \in Conns : IsInitialized(d) => IsInitialized(d)'
      BY <1>2, HandshakeOrder
    <2>4. OwnPeers'
      BY <1>p, <2>1, <2>2, <2>3
    <2> QED
      BY <1>q, <2>1, <2>4
  <1>3. ASSUME NEW c \in Conns, Collects(c) PROVE ListenTypeOK'
    <2>1. /\ peerConn[c].at = "collect" /\ UNCHANGED initialized
          /\ \/ UNCHANGED lockedBy
             \/ lockedBy = NoHolder /\ lockedBy' = c /\ listenBudget.kind = "replica"
      BY <1>3 DEF Collects, CollectOldConns, LockAndCollect
    <2>2. \A t \in OldConns(c) : t \in Conns /\ t # c /\ ConnPeer[t] = ConnPeer[c] /\ IsInitialized(t)
      BY DEF OldConns, HasSession, HandshakesKept
    <2>3. IsInitialized(c) /\ peerConn[c].closing = NoHolder
      BY <1>0, <1>p, <2>1 DEF HandshakesKept
    <2>4. OwnPeers'
      BY <1>3, <1>p, <2>1, <2>2, <2>3, CollectsEffect DEF IsInitialized
    <2>5. Locker'
      BY <1>3, <1>k, <1>l, <1>p, <2>1, CollectsEffect
    <2> QED
      BY <1>q, <2>4, <2>5
  <1>4. ASSUME NEW c \in Conns, Serve(c) PROVE ListenTypeOK'
    <2>1. /\ peerConn[c].toClose = {} /\ peerConn[c].closing = NoHolder /\ UNCHANGED initialized
          /\ lockedBy' = IF lockedBy = c THEN NoHolder ELSE lockedBy
          /\ Goes(c, "serve")
      BY <1>4 DEF Serve
    <2>2. \A d \in Conns : Rest(d) /\ peerConn'[d].at = IF d = c THEN "serve" ELSE peerConn[d].at
      BY <2>1, GoesEffect
    <2>3. OwnPeers'
      BY <1>p, <2>1, <2>2 DEF IsInitialized
    <2>4. Locker'
      BY <1>k, <1>l, <1>p, <2>1, <2>2
    <2> QED
      BY <1>q, <2>3, <2>4
  <1>5. ASSUME NEW c \in Conns, NEW where, MovesOn(c, where) PROVE ListenTypeOK'
    <2>1. peerConn[c].at # "close" /\ UNCHANGED <<initialized, lockedBy>> /\ Goes(c, where)
      BY <1>5 DEF MovesOn, Past
    <2>2. \A d \in Conns : Rest(d) /\ peerConn'[d].at = IF d = c THEN where ELSE peerConn[d].at
      BY <2>1, GoesEffect
    <2>3. OwnPeers'
      BY <1>p, <2>1, <2>2 DEF IsInitialized
    <2>4. Locker'
      BY <1>k, <1>l, <1>p, <2>1, <2>2
    <2> QED
      BY <1>q, <2>3, <2>4
  <1>6. ASSUME NEW c \in Conns, NEW t \in Conns, NextOldConn(c, t) PROVE ListenTypeOK'
    <2>1. t \in peerConn[c].toClose /\ peerConn[c].at = "close" /\ UNCHANGED <<initialized, lockedBy>>
      BY <1>6 DEF NextOldConn
    <2>2. \A d \in Conns : \A u \in peerConn'[d].toClose \cup ({peerConn'[d].closing} \ {NoHolder}) :
             u \in peerConn[d].toClose \cup ({peerConn[d].closing} \ {NoHolder})
      <3>1. /\ peerConn'[c].toClose = peerConn[c].toClose \ {t}
            /\ peerConn'[c].closing \in {t, NoHolder}
            /\ \A d \in Conns : d # c => Rest(d)
        BY <1>6, NextOldConnEffect, ZenonT(30)
      <3> QED
        BY <2>1, <3>1
    <2>3. \A d \in Conns : peerConn'[d].at = peerConn[d].at
      BY <1>6, NextOldConnEffect, Zenon
    <2>4. OwnPeers'
      BY <1>p, <2>1, <2>2, <2>3 DEF IsInitialized
    <2>5. Locker'
      BY <1>k, <1>l, <1>p, <2>1, <2>3
    <2> QED
      BY <1>q, <2>4, <2>5
  <1>7. ASSUME NEW c \in Conns, NEW t \in Conns, CloseConn(c, t) PROVE ListenTypeOK'
    <2>1. peerConn[t].at # "close" /\ UNCHANGED <<initialized, lockedBy>>
      BY <1>7 DEF CloseConn, InLoop
    <2>2. OwnPeers'
      BY <1>7, <1>p, <2>1, CloseConnEffect DEF IsInitialized
    <2>3. Locker'
      BY <1>7, <1>k, <1>l, <1>p, <2>1, CloseConnEffect
    <2> QED
      BY <1>q, <2>2, <2>3
  <1> QED
    BY <1>1, <1>2, <1>3, <1>4, <1>5, <1>6, <1>7, ListenEffects

\* Past a handshake and a CloseOldConns, an older connection of the peer never serves again.
LEMMA OlderMakesRoomStep == ListenInv /\ [ListenNext]_listenVars => OlderMakesRoom'
  <1> SUFFICES ASSUME ListenShape, HandshakesKept, OlderMakesRoom, [ListenNext]_listenVars PROVE OlderMakesRoom'
    BY DEF ListenInv
  <1> DEFINE Rest(d) == peerConn'[d].toClose = peerConn[d].toClose /\ peerConn'[d].closing = peerConn[d].closing
  <1>0. \A c \in Conns : c # NoHolder
    BY ListenAssumption DEF Conns, NoHolder
  <1>t. \A c \in Conns : peerConn[c].at \in {"none", "handshake", "collect", "close", "serve"} \cup Past
    BY DEF ListenShape, PeerConn
  <1>i. \A c, d \in Conns : Older(c, d) => c # d /\ IsInitialized(c) /\ IsInitialized(d)
    <2>1. DOMAIN initialized \subseteq Nat
      BY DEF ListenShape
    <2> QED
      BY <2>1 DEF Older, IsInitialized, HandshakesKept
  <1>1. CASE UNCHANGED <<peerConn, initialized, lockedBy>>
    BY <1>1 DEF OlderMakesRoom, Older
  <1>2. ASSUME NEW c \in Conns, Handshake(c) PROVE OlderMakesRoom'
    <2>1. peerConn[c].at = "handshake" /\ Goes(c, "collect") /\ ~IsInitialized(c)
      BY <1>2 DEF Handshake, HandshakesKept
    <2>2. \A d \in Conns : Rest(d) /\ peerConn'[d].at = IF d = c THEN "collect" ELSE peerConn[d].at
      BY <2>1, GoesEffect
    <2>3. \A d, e \in Conns : Older(d, e)' => Older(d, e) \/ e = c
      BY <1>2, HandshakeOrder
    <2> QED
      BY <1>i, <2>1, <2>2, <2>3 DEF OlderMakesRoom, Past
  <1>3. ASSUME NEW c \in Conns, Collects(c) PROVE OlderMakesRoom'
    <2>1. peerConn[c].at = "collect" /\ UNCHANGED initialized
      BY <1>3 DEF Collects, CollectOldConns, LockAndCollect
    <2>2. ASSUME NEW d \in Conns, ConnPeer[d] = ConnPeer[c], Older(d, c)
          PROVE  d \in OldConns(c) \/ peerConn[d].at \in Past
      BY <1>i, <1>t, <2>2 DEF OldConns, HasSession, HandshakesKept, Past
    <2>3. \A d \in Conns : /\ peerConn'[d].at = IF d = c THEN "close" ELSE peerConn[d].at
                           /\ peerConn'[d].toClose = IF d = c THEN OldConns(c) ELSE peerConn[d].toClose
                           /\ peerConn'[d].closing = peerConn[d].closing
      BY <1>3, CollectsEffect
    <2> QED
      BY <1>i, <2>1, <2>2, <2>3 DEF OlderMakesRoom, Older, Past
  <1>4. ASSUME NEW c \in Conns, Serve(c) PROVE OlderMakesRoom'
    <2>1. /\ peerConn[c].at = "close" /\ peerConn[c].toClose = {} /\ peerConn[c].closing = NoHolder
          /\ UNCHANGED initialized /\ Goes(c, "serve")
      BY <1>4 DEF Serve
    <2>2. \A d \in Conns : Rest(d) /\ peerConn'[d].at = IF d = c THEN "serve" ELSE peerConn[d].at
      BY <2>1, GoesEffect
    <2>3. "close" \notin Past
      BY DEF Past
    <2> QED
      BY <1>0, <2>1, <2>2, <2>3 DEF OlderMakesRoom, Older
  <1>5. ASSUME NEW c \in Conns, NEW where, MovesOn(c, where) PROVE OlderMakesRoom'
    <2>1. UNCHANGED initialized /\ Goes(c, where)
      BY <1>5 DEF MovesOn
    <2>2. /\ where \notin {"close", "serve"} /\ (peerConn[c].at \in Past => where \in Past)
          /\ where \in Past => peerConn[c].at = "handshake" \/ peerConn[c].at = "serve" \/ peerConn[c].at \in Past
      BY <1>5 DEF MovesOn, Past
    <2>3. \A d \in Conns : Rest(d) /\ peerConn'[d].at = IF d = c THEN where ELSE peerConn[d].at
      BY <2>1, GoesEffect
    <2>4. peerConn[c].at = "handshake" => ~IsInitialized(c)
      BY DEF HandshakesKept
    <2> QED
      BY <1>i, <2>1, <2>2, <2>3, <2>4 DEF OlderMakesRoom, Older
  <1>6. ASSUME NEW c \in Conns, NEW t \in Conns, NextOldConn(c, t) PROVE OlderMakesRoom'
    <2>1. peerConn[c].closing = NoHolder /\ UNCHANGED initialized
      BY <1>6 DEF NextOldConn
    <2>2. /\ peerConn'[c].toClose = peerConn[c].toClose \ {t}
          /\ peerConn'[c].closing = t \/ ~HasSession(t)
          /\ \A d \in Conns : peerConn'[d].at = peerConn[d].at /\ (d # c => Rest(d))
      BY <1>6, NextOldConnEffect, ZenonT(30)
    <2>3. \A d \in Conns : Older(t, d) /\ ~HasSession(t) => peerConn[t].at \in Past
      BY <1>i, <1>t DEF HasSession, HandshakesKept, Past
    <2> QED
      BY <1>0, <2>1, <2>2, <2>3 DEF OlderMakesRoom, Older
  <1>7. ASSUME NEW c \in Conns, NEW t \in Conns, CloseConn(c, t) PROVE OlderMakesRoom'
    <2>1. /\ UNCHANGED initialized /\ Ended(t) \in Past /\ peerConn[c].closing = t
          /\ peerConn[t].at = "serve" \/ peerConn[t].at \in Past
      BY <1>7 DEF CloseConn, InLoop, Ended, Past
    <2>2. "close" \notin Past /\ "serve" \notin Past
      BY DEF Past
    <2>3. \A d \in Conns : /\ peerConn'[d].at = IF d = t THEN Ended(t) ELSE peerConn[d].at
                           /\ peerConn'[d].toClose = peerConn[d].toClose
                           /\ peerConn'[d].closing = IF d = c THEN NoHolder ELSE peerConn[d].closing
      BY <1>7, CloseConnEffect
    <2> QED
      BY <2>1, <2>2, <2>3 DEF OlderMakesRoom, Older
  <1> QED
    BY <1>1, <1>2, <1>3, <1>4, <1>5, <1>6, <1>7, ListenEffects

\* The inductive invariant of the listeners.
THEOREM ListenInvariant == ListenSpec => []ListenInv
  <1>1. ListenInv /\ [ListenNext]_listenVars => ListenInv'
    BY ListenShapeStep, HandshakesKeptStep, ListenTypeStep, OlderMakesRoomStep DEF ListenInv
  <1> QED
    BY <1>1, ListenInitInv, PTL DEF ListenSpec

\* Both connections of a peer past their handshake: one of them is the older.
LEMMA OneIsOlder ==
    ASSUME ListenShape, NEW c \in Conns, NEW d \in Conns, c # d, IsInitialized(c), IsInitialized(d)
    PROVE  Older(c, d) \/ Older(d, c)
  <1>1. PICK i \in DOMAIN initialized, j \in DOMAIN initialized : initialized[i] = c /\ initialized[j] = d
    BY DEF IsInitialized
  <1>2. i \in Nat /\ j \in Nat /\ i # j
    BY <1>1 DEF ListenShape
  <1>3. i < j \/ j < i
    BY <1>2
  <1> QED
    BY <1>1, <1>3 DEF Older

\* At most one connection of a peer serves, and CloseOldConns closes only connections of the same
\* peer that have finished their handshake (CloseOldConns, onInitializedConn), for any number of
\* connections and peers, on mixes and on replicas.
THEOREM OneSessionPerPeer == ListenSpec => []SessionsSound
  <1>1. ListenInv => OneSession
    <2> SUFFICES ASSUME ListenInv, NEW c \in Conns, NEW d \in Conns, c # d, ConnPeer[c] = ConnPeer[d],
                        peerConn[c].at = "serve", peerConn[d].at = "serve"
                 PROVE  FALSE
      BY DEF OneSession
    <2>1. IsInitialized(c) /\ IsInitialized(d)
      BY DEF ListenInv, HandshakesKept
    <2>2. Older(c, d) \/ Older(d, c)
      BY <2>1, OneIsOlder DEF ListenInv
    <2> QED
      BY <2>2 DEF ListenInv, OlderMakesRoom, Past
  <1>2. ListenInv => SessionsSound
    BY <1>1 DEF ListenInv, SessionsSound
  <1> QED
    BY <1>2, ListenInvariant, PTL

\* A Close under way ends only when the other connection takes it.
LEMMA CloseEnds ==
    ASSUME ListenShape, [ListenNext]_listenVars, NEW c \in Conns,
           peerConn[c].closing # NoHolder, peerConn'[c].closing = NoHolder
    PROVE  \E t \in Conns : CloseConn(c, t)
  <1>1. ASSUME NEW a \in Conns, NEW b \in Conns, CloseConn(a, b) PROVE a = c
    BY <1>1, CloseConnEffect
  <1>2. ASSUME NEW a \in Conns, NEW b \in Conns, NextOldConn(a, b) PROVE FALSE
    <2>1. a # c
      BY <1>2 DEF NextOldConn
    <2>2. peerConn'[c].closing = peerConn[c].closing
      BY <1>2, <2>1, NextOldConnEffect, Zenon
    <2> QED
      BY <2>2
  <1>3. ASSUME NEW a \in Conns, Collects(a) PROVE FALSE
    BY <1>3, CollectsEffect
  <1>4. ASSUME NEW a \in Conns, NEW w, Goes(a, w) PROVE FALSE
    BY <1>4, GoesEffect
  <1>5. ASSUME NEW a \in Conns, Handshake(a) \/ Serve(a) \/ \E w \in {"handshake"} \cup Past : MovesOn(a, w)
        PROVE  \E w : Goes(a, w)
    BY <1>5 DEF Handshake, Serve, MovesOn
  <1> QED
    BY <1>1, <1>2, <1>3, <1>4, <1>5, ListenEffects

\* "Newest connection wins": a Close that goes through ends a connection whose handshake came first
\* (CloseOldConns), so no late CloseOldConns cuts off a newer session.
THEOREM NewestConnectionWins == ListenSpec => NewestWins
  <1> DEFINE Step == \A c, t \in Conns : peerConn[c].closing = t /\ peerConn'[c].closing = NoHolder => Older(t, c)
  <1>1. ListenInv /\ [ListenNext]_listenVars => Step
    <2> SUFFICES ASSUME ListenInv, [ListenNext]_listenVars, NEW c \in Conns, NEW t \in Conns,
                        peerConn[c].closing = t, peerConn'[c].closing = NoHolder
                 PROVE  Older(t, c)
      OBVIOUS
    <2>1. t # NoHolder
      BY ListenAssumption DEF Conns, NoHolder
    <2>2. PICK u \in Conns : CloseConn(c, u)
      BY <2>1, CloseEnds DEF ListenInv
    <2>3. peerConn[c].at = "close" /\ peerConn[t].at \in {"serve", "dead"}
      BY <2>2 DEF CloseConn, InLoop
    <2>4. t # c /\ ConnPeer[t] = ConnPeer[c] /\ IsInitialized(t) /\ IsInitialized(c)
      BY <2>1 DEF ListenInv, ListenTypeOK
    <2>5. ~Older(c, t)
      BY <2>3, <2>4 DEF ListenInv, OlderMakesRoom, Past
    <2> QED
      BY <2>4, <2>5, OneIsOlder DEF ListenInv
  <1>2. ListenInv /\ [ListenNext]_listenVars => [Step]_listenVars
    BY <1>1
  <1> QED
    BY <1>2, ListenInvariant, PTL DEF ListenSpec, NewestWins

----------------------------------------------------------------------------
(* ClientConn *)

Workload == [sends : Nat, waits : Nat, turns : Nat, dials : Nat, breaks : Nat, until : Nat \ {0},
             answers : SUBSET {"ok", "gone", "notFound"}, halts : BOOLEAN]
Worker == [at : {"dial", "select", "done", "busy", "reply", "notify", "status", "status2", "gone"},
           caller : Callers \cup {NoCaller}, ok : BOOLEAN, code : {"ok", "gone", "notFound"},
           ctx : Getters \cup {NoCaller}, lost : BOOLEAN]
Call == [at : {"idle", "offer", "await", "awaitReply", "halted", "refused", "retry", "ok", "gone", "notFound"},
         epoch : Nat, left : Nat]

ClShape ==
    /\ clBudget \in Workload /\ conn \in Worker /\ call \in [Callers -> Call]
    /\ sendOffers \subseteq Senders /\ getCh \in Seq(Getters) /\ Len(getCh) <= 1
    /\ loop \in [now : Nat, todo : SUBSET Nat, did : BOOLEAN]
    /\ clDocs \subseteq Nat /\ failedFetches \subseteq Nat /\ clEpoch \in Nat

\* Only blocked senders are on offer, and the worker holds a caller exactly when it has an answer for it.
Held ==
    /\ \A c \in sendOffers : call[c].at = "offer"
    /\ conn.at \in {"done", "busy", "reply"} <=> conn.caller # NoCaller

\* While the client runs: the request in getConsensusCh is awaited, and so is the outcome the worker
\* holds, which is another caller's; whoever waits for a document (consensusCtx) keeps waiting for it.
Rendezvous ==
    ~isShutdown =>
        /\ getCh # <<>> => call[Head(getCh)].at = "await"
        /\ conn.at \in {"done", "busy"} =>
              call[conn.caller].at = "await" /\ (getCh # <<>> => conn.caller # Head(getCh))
        /\ conn.at = "reply" => conn.caller = conn.ctx
        /\ conn.at \in {"select", "busy", "done", "reply"} /\ conn.ctx # NoCaller =>
              call[conn.ctx].at = "awaitReply" \/ (conn.at = "done" /\ conn.caller = conn.ctx)
        /\ conn.at = "notify" /\ conn.ctx # NoCaller => call[conn.ctx].at = "awaitReply" \/ conn.lost

\* Documents are asked for and kept for epochs that have begun, and the one after; a turn of the PKI
\* worker is of an epoch that has begun.
Epochs == 1..(clBudget.until + 1)
AskedFor ==
    /\ clEpoch \in 1..clBudget.until /\ loop.now <= clEpoch /\ loop.todo \subseteq Epochs
    /\ \A c \in Getters : call[c].at \notin {"idle", "retry"} => call[c].epoch \in Epochs
    /\ clDocs \cup failedFetches \subseteq Epochs

ClInv == ClShape /\ Held /\ Rendezvous /\ AskedFor

LEMMA ClInitInv == ClInit => ClInv
  <1> SUFFICES ASSUME ClInit PROVE ClInv
    OBVIOUS
  <1>1. ClShape
    BY ClAssumption DEF ClInit, ClShape, Workload, Worker, Call, Dialing, IdleCall, NoTurn
  <1>2. conn.at = "dial" /\ conn.caller = NoCaller /\ getCh = <<>> /\ \A c \in Callers : call[c].at = "idle"
    BY DEF ClInit, Dialing, IdleCall
  <1>3. Held /\ Rendezvous
    BY <1>2 DEF ClInit, Held, Rendezvous
  <1>4. AskedFor
    <2>1. clBudget.until \in Nat \ {0}
      BY <1>1 DEF ClShape, Workload
    <2>2. \A c \in Getters : call[c].at = "idle"
      BY <1>2 DEF Callers
    <2> QED
      BY <2>1, <2>2 DEF ClInit, AskedFor, Epochs, NoTurn
  <1> QED
    BY <1>1, <1>3, <1>4 DEF ClInv

\* A step spends what the workload allows and never changes how long it lasts.
LEMMA WorkloadStep ==
    ASSUME clBudget \in Workload, [ClNext]_clVars
    PROVE  clBudget' \in Workload /\ clBudget'.until = clBudget.until
  <1> USE DEF Workload
  <1>1. CASE UNCHANGED clBudget
    BY <1>1
  <1>2. CASE ConnEstablished
    BY <1>2 DEF ConnEstablished, Dialing
  <1>3. CASE SessionBreaks
    BY <1>3 DEF SessionBreaks
  <1>4. ASSUME NEW b \in BOOLEAN, TakesConsensus(b) PROVE clBudget' \in Workload /\ clBudget'.until = clBudget.until
    BY <1>4 DEF TakesConsensus, SendOutcome
  <1>5. ASSUME NEW b \in BOOLEAN, PKIWakes(b) PROVE clBudget' \in Workload /\ clBudget'.until = clBudget.until
    BY <1>5 DEF PKIWakes
  <1>6. ASSUME NEW c \in Senders, SendPacket(c) PROVE clBudget' \in Workload /\ clBudget'.until = clBudget.until
    BY <1>6 DEF SendPacket
  <1>7. ASSUME NEW c \in Senders, NEW b \in BOOLEAN, TakesSend(c, b) PROVE clBudget' \in Workload /\ clBudget'.until = clBudget.until
    BY <1>7 DEF TakesSend, SendOutcome
  <1>8. ASSUME NEW c \in Waiters, WaitForDocument(c) PROVE clBudget' \in Workload /\ clBudget'.until = clBudget.until
    BY <1>8 DEF WaitForDocument
  <1> QED
    BY <1>1, <1>2, <1>3, <1>4, <1>5, <1>6, <1>7, <1>8, Zenon DEF ClNext, clVars, docVars, DoneFn, ReplyTaken,
       Notifies, StatusChange, ConnShutdown, WorkerReturns, ClTick, PKIStores, PKITurnEnds, PKIFetches,
       ReplyArrives, OffersConsensus, WaiterAsks, WaiterStores, CallerLeaves

\* Who calls, and who is in the channel.
LEMMA CallersFacts ==
    /\ Senders \subseteq Callers /\ Getters \subseteq Callers /\ Waiters \subseteq Getters /\ PKILoop \in Getters
    /\ NoCaller \notin Callers /\ Senders \cap Getters = {}
    /\ \A s \in Seq(Getters) : s # <<>> => Head(s) \in Getters
  BY ClAssumption DEF Callers, Getters

\* The worker's state stays one of its states.
LEMMA WorkerStep ==
    ASSUME conn \in Worker, getCh \in Seq(Getters), clBudget \in Workload, [ClNext]_clVars
    PROVE  conn' \in Worker
  <1> USE CallersFacts DEF Worker
  <1>1. CASE UNCHANGED conn
    BY <1>1
  <1>2. CASE ConnEstablished
    BY <1>2, Zenon DEF ConnEstablished, Dialing
  <1>3. CASE DoneFn
    BY <1>3, Zenon DEF DoneFn
  <1>4. CASE ReplyTaken
    BY <1>4, Zenon DEF ReplyTaken, Answered
  <1>5. CASE SessionBreaks
    BY <1>5, Zenon DEF SessionBreaks
  <1>6. CASE Notifies
    BY <1>6, Zenon DEF Notifies, Dialing
  <1>7. CASE StatusChange
    BY <1>7, Zenon DEF StatusChange
  <1>8. CASE WorkerReturns
    BY <1>8, Zenon DEF WorkerReturns
  <1>9. ASSUME NEW b \in BOOLEAN, TakesConsensus(b) PROVE conn' \in Worker
    <2>1. getCh # <<>> /\ Head(getCh) \in Getters /\ Head(getCh) \in Callers
      BY <1>9 DEF TakesConsensus
    <2> DEFINE h == Head(getCh)
    <2>2. \/ conn' = [conn EXCEPT !.at = "busy", !.caller = h]
          \/ conn' = [conn EXCEPT !.at = "done", !.caller = h, !.ok = b, !.ctx = h]
      BY <1>9 DEF TakesConsensus
    <2> HIDE DEF h
    <2>3. CASE conn' = [conn EXCEPT !.at = "busy", !.caller = h]
      BY <2>1, <2>3, Zenon DEF h
    <2>4. CASE conn' = [conn EXCEPT !.at = "done", !.caller = h, !.ok = b, !.ctx = h]
      BY <2>1, <2>4, Zenon DEF h
    <2> QED
      BY <2>2, <2>3, <2>4
  <1>10. ASSUME NEW code \in clBudget.answers, ReplyArrives(code) PROVE conn' \in Worker
    BY <1>10, Zenon DEF ReplyArrives, Workload
  <1>11. ASSUME NEW c \in Senders, NEW b \in BOOLEAN, TakesSend(c, b) PROVE conn' \in Worker
    BY <1>11, Zenon DEF TakesSend, SendOutcome
  <1> QED
    BY <1>1, <1>2, <1>3, <1>4, <1>5, <1>6, <1>7, <1>8, <1>9, <1>10, <1>11, Zenon DEF ClNext, clVars, docVars,
       ConnShutdown, ClTick, PKIStores, PKITurnEnds, PKIWakes, PKIFetches, SendPacket, OffersConsensus,
       WaitForDocument, WaiterAsks, WaiterStores, CallerLeaves

\* The callers' states stay some of theirs.
LEMMA CallStep ==
    ASSUME conn \in Worker, call \in [Callers -> Call], clEpoch \in Nat, loop.todo \subseteq Nat, [ClNext]_clVars
    PROVE  call' \in [Callers -> Call]
  <1> USE CallersFacts DEF Call, At
  <1>1. CASE UNCHANGED call
    BY <1>1
  <1>2. CASE DoneFn
    <2>1. PICK w \in {"awaitReply", "idle", "refused"} : call' = [call EXCEPT ![conn.caller].at = w]
      BY <1>2, Zenon DEF DoneFn
    <2> QED
      BY <2>1, Zenon
  <1>3. CASE ReplyTaken
    BY <1>3, ZenonT(30) DEF ReplyTaken, Answered, Worker
  <1>4. CASE Notifies
    BY <1>4, SMTT(30) DEF Notifies, Dialing
  <1>5. CASE StatusChange
    <2>1. PICK c : call' = [x \in Callers |-> IF x = c THEN [call[x] EXCEPT !.at = "idle"]
                                             ELSE IF getCh # <<>> /\ x = Head(getCh)
                                                  THEN [call[x] EXCEPT !.at = "refused"] ELSE call[x]]
      BY <1>5, Zenon DEF StatusChange
    <2>2. \A x \in Callers : [call[x] EXCEPT !.at = "idle"] \in Call /\ [call[x] EXCEPT !.at = "refused"] \in Call
      OBVIOUS
    <2> QED
      BY <2>1, <2>2
  <1>6. CASE PKIStores
    BY <1>6 DEF PKIStores, IdleCall
  <1>7. ASSUME NEW e \in loop.todo, PKIFetches(e) PROVE call' \in [Callers -> Call]
    <2>1. \/ UNCHANGED call
          \/ \E w \in {"offer", "refused"} : call' = [call EXCEPT ![PKILoop].at = w, ![PKILoop].epoch = e]
      BY <1>7, Zenon DEF PKIFetches, Asks
    <2>2. ASSUME NEW w \in {"offer", "refused"}, call' = [call EXCEPT ![PKILoop].at = w, ![PKILoop].epoch = e]
          PROVE  call' \in [Callers -> Call]
      <3> DEFINE mid == [call EXCEPT ![PKILoop].at = w]
      <3>1. mid \in [Callers -> Call] /\ call' = [mid EXCEPT ![PKILoop].epoch = e]
        BY <2>2
      <3> HIDE DEF mid
      <3> QED
        BY <3>1, Zenon
    <2> QED
      BY <2>1, <2>2, Zenon
  <1>8. ASSUME NEW c \in Senders, SendPacket(c) PROVE call' \in [Callers -> Call]
    <2>1. UNCHANGED call \/ call' = [call EXCEPT ![c].at = "offer"]
      BY <1>8 DEF SendPacket
    <2> QED
      BY <2>1
  <1>9. ASSUME NEW c \in Senders, NEW b \in BOOLEAN, TakesSend(c, b) PROVE call' \in [Callers -> Call]
    BY <1>9, Zenon DEF TakesSend, SendOutcome
  <1>10. ASSUME NEW c \in Getters, OffersConsensus(c) PROVE call' \in [Callers -> Call]
    BY <1>10, Zenon DEF OffersConsensus
  <1>11. ASSUME NEW c \in Waiters, WaitForDocument(c) PROVE call' \in [Callers -> Call]
    BY <1>11, ClAssumption DEF WaitForDocument
  <1>12. ASSUME NEW c \in Waiters, WaiterAsks(c) PROVE call' \in [Callers -> Call]
    <2>1. PICK r \in Call : call' = [call EXCEPT ![c] = r]
      <3>1. call[c].left # 0 => [at |-> IF isConnected THEN "offer" ELSE "refused",
                                 epoch |-> clEpoch, left |-> call[c].left - 1] \in Call
        OBVIOUS
      <3>2. IdleCall \in Call
        BY DEF IdleCall
      <3> QED
        BY <1>12, <3>1, <3>2, Zenon DEF WaiterAsks
    <2> QED
      BY <2>1
  <1>13. ASSUME NEW c \in Waiters, WaiterStores(c) PROVE call' \in [Callers -> Call]
    BY <1>13, SMTT(30) DEF WaiterStores, IdleCall
  <1>14. ASSUME NEW c \in Callers, CallerLeaves(c) PROVE call' \in [Callers -> Call]
    BY <1>14, SMTT(30) DEF CallerLeaves
  <1> QED
    BY <1>1, <1>2, <1>3, <1>4, <1>5, <1>6, <1>7, <1>8, <1>9, <1>10, <1>11, <1>12, <1>13, <1>14, Zenon DEF ClNext,
       clVars, docVars, ConnEstablished, SessionBreaks, ConnShutdown, WorkerReturns, ClTick, PKITurnEnds,
       TakesConsensus, PKIWakes, ReplyArrives

\* Only senders are on offer and at most one document request is in the channel.
LEMMA OffersStep ==
    ASSUME sendOffers \subseteq Senders, getCh \in Seq(Getters), Len(getCh) <= 1, [ClNext]_clVars
    PROVE  sendOffers' \subseteq Senders /\ getCh' \in Seq(Getters) /\ Len(getCh') <= 1
  <1>1. CASE UNCHANGED <<sendOffers, getCh>>
    BY <1>1
  <1>2. CASE StatusChange
    BY <1>2 DEF StatusChange
  <1>3. ASSUME NEW b \in BOOLEAN, TakesConsensus(b) PROVE sendOffers' \subseteq Senders /\ getCh' \in Seq(Getters) /\ Len(getCh') <= 1
    BY <1>3 DEF TakesConsensus, SendOutcome
  <1>4. ASSUME NEW c \in Senders, SendPacket(c) PROVE sendOffers' \subseteq Senders /\ getCh' \in Seq(Getters) /\ Len(getCh') <= 1
    BY <1>4 DEF SendPacket
  <1>5. ASSUME NEW c \in Senders, NEW b \in BOOLEAN, TakesSend(c, b) PROVE sendOffers' \subseteq Senders /\ getCh' \in Seq(Getters) /\ Len(getCh') <= 1
    BY <1>5 DEF TakesSend, SendOutcome
  <1>6. ASSUME NEW c \in Getters, OffersConsensus(c) PROVE sendOffers' \subseteq Senders /\ getCh' \in Seq(Getters) /\ Len(getCh') <= 1
    BY <1>6 DEF OffersConsensus
  <1>7. ASSUME NEW c \in Callers, CallerLeaves(c) PROVE sendOffers' \subseteq Senders /\ getCh' \in Seq(Getters) /\ Len(getCh') <= 1
    BY <1>7 DEF CallerLeaves
  <1> QED
    BY <1>1, <1>2, <1>3, <1>4, <1>5, <1>6, <1>7, Zenon DEF ClNext, clVars, docVars, ConnEstablished, DoneFn,
       ReplyTaken, SessionBreaks, Notifies, ConnShutdown, WorkerReturns, ClTick, PKIStores, PKITurnEnds,
       PKIWakes, PKIFetches, ReplyArrives, WaitForDocument, WaiterAsks, WaiterStores

\* The PKI worker's turn, the cached and the failed epochs stay of their kind.
LEMMA DocsStep ==
    ASSUME call \in [Callers -> Call], clEpoch \in Nat, loop \in [now : Nat, todo : SUBSET Nat, did : BOOLEAN],
           clDocs \subseteq Nat, failedFetches \subseteq Nat, [ClNext]_clVars
    PROVE  /\ loop' \in [now : Nat, todo : SUBSET Nat, did : BOOLEAN]
           /\ clDocs' \subseteq Nat /\ failedFetches' \subseteq Nat /\ clEpoch' \in Nat
  <1> USE CallersFacts DEF Call
  <1>1. CASE UNCHANGED <<loop, clDocs, failedFetches, clEpoch>>
    BY <1>1
  <1>2. CASE ClTick
    BY <1>2 DEF ClTick
  <1>3. CASE PKIStores
    <2>1. call[PKILoop].epoch \in Nat
      OBVIOUS
    <2>2. /\ loop' = loop \/ loop' = [loop EXCEPT !.did = TRUE]
          /\ clDocs' \in {clDocs, clDocs \cup {call[PKILoop].epoch}}
          /\ failedFetches' \in {failedFetches, failedFetches \cup {call[PKILoop].epoch}}
          /\ UNCHANGED clEpoch
      BY <1>3 DEF PKIStores
    <2> QED
      BY <2>1, <2>2, Zenon
  <1>4. CASE PKITurnEnds
    BY <1>4, Zenon DEF PKITurnEnds, StillFailed, Kept, NoTurn
  <1>5. ASSUME NEW b \in BOOLEAN, PKIWakes(b) PROVE /\ loop' \in [now : Nat, todo : SUBSET Nat, did : BOOLEAN]
           /\ clDocs' \subseteq Nat /\ failedFetches' \subseteq Nat /\ clEpoch' \in Nat
    BY <1>5 DEF PKIWakes
  <1>6. ASSUME NEW e \in loop.todo, PKIFetches(e) PROVE /\ loop' \in [now : Nat, todo : SUBSET Nat, did : BOOLEAN]
           /\ clDocs' \subseteq Nat /\ failedFetches' \subseteq Nat /\ clEpoch' \in Nat
    BY <1>6, SMTT(30) DEF PKIFetches, Asks
  <1>7. ASSUME NEW c \in Waiters, WaiterStores(c) PROVE /\ loop' \in [now : Nat, todo : SUBSET Nat, did : BOOLEAN]
           /\ clDocs' \subseteq Nat /\ failedFetches' \subseteq Nat /\ clEpoch' \in Nat
    BY <1>7 DEF WaiterStores, IdleCall
  <1> QED
    BY <1>1, <1>2, <1>3, <1>4, <1>5, <1>6, <1>7, Zenon DEF ClNext, clVars, docVars, ConnEstablished, DoneFn,
       ReplyTaken, SessionBreaks, Notifies, StatusChange, ConnShutdown, WorkerReturns, TakesConsensus,
       ReplyArrives, SendPacket, TakesSend, OffersConsensus, WaitForDocument, WaiterAsks, CallerLeaves

\* Every step of the client keeps the shape of its state.
LEMMA ClShapeStep == ClShape /\ [ClNext]_clVars => ClShape'
  <1> SUFFICES ASSUME ClShape, [ClNext]_clVars PROVE ClShape'
    OBVIOUS
  <1>1. clBudget' \in Workload /\ conn' \in Worker
    BY WorkloadStep, WorkerStep DEF ClShape
  <1>2. call' \in [Callers -> Call]
    BY CallStep DEF ClShape
  <1>3. sendOffers' \subseteq Senders /\ getCh' \in Seq(Getters) /\ Len(getCh') <= 1
    BY OffersStep DEF ClShape
  <1>4. /\ loop' \in [now : Nat, todo : SUBSET Nat, did : BOOLEAN]
        /\ clDocs' \subseteq Nat /\ failedFetches' \subseteq Nat /\ clEpoch' \in Nat
    BY DocsStep DEF ClShape
  <1> QED
    BY <1>1, <1>2, <1>3, <1>4 DEF ClShape

\* A caller that goes on keeps the epoch it asked for.
LEMMA AtEffect ==
    ASSUME call \in [Callers -> Call], NEW c, NEW w, At(c, w)
    PROVE  \A x \in Callers : /\ call'[x].at = IF x = c THEN w ELSE call[x].at
                              /\ call'[x].epoch = call[x].epoch
  BY DEF At, Call

\* A document is asked for by its epoch, or the answer is for the epoch asked before.
LEMMA EpochEffect ==
    ASSUME ClShape, Rendezvous, AskedFor, [ClNext]_clVars, NEW c \in Getters, call'[c].at \notin {"idle", "retry"}
    PROVE  call'[c].epoch \in Epochs
  <1>0. /\ call \in [Callers -> Call] /\ conn \in Worker /\ c \in Callers /\ clEpoch \in Epochs
        /\ getCh \in Seq(Getters) /\ (getCh # <<>> => Head(getCh) \in Getters)
        /\ sendOffers \subseteq Senders /\ NoCaller \notin Callers
    BY CallersFacts DEF ClShape, AskedFor, Epochs, Workload
  <1>1. CASE /\ call'[c].epoch = call[c].epoch
             /\ call'[c].at = call[c].at \/ call[c].at \in {"offer", "await", "awaitReply"}
    BY <1>1, Zenon DEF AskedFor
  <1>2. ASSUME NEW x, NEW w, At(x, w), x = c => call[c].at \in {"offer", "await", "awaitReply"}
        PROVE  call'[c].epoch \in Epochs
    BY <1>0, <1>1, <1>2, AtEffect
  <1>3. CASE DoneFn \/ ReplyTaken
    <2>1. \E x, w : At(x, w) /\ call[x].at \in {"await", "awaitReply"}
      BY <1>3 DEF DoneFn, ReplyTaken
    <2> QED
      BY <1>2, <2>1
  <1>4. CASE Notifies
    <2>1. UNCHANGED call \/ (At(conn.ctx, "refused") /\ call[conn.ctx].at = "awaitReply")
      BY <1>4 DEF Notifies
    <2> QED
      BY <1>1, <1>2, <2>1
  <1>5. CASE StatusChange
    <2>1. PICK d \in Senders \cup {NoCaller} :
            call' = [x \in Callers |-> IF x = d THEN [call[x] EXCEPT !.at = "idle"]
                                       ELSE IF getCh # <<>> /\ x = Head(getCh)
                                            THEN [call[x] EXCEPT !.at = "refused"] ELSE call[x]]
      BY <1>0, <1>5 DEF StatusChange
    <2>2. c # d
      BY <1>0, CallersFacts
    <2>3. call'[c].epoch = call[c].epoch
      BY <1>0, <2>1, <2>2 DEF Call
    <2>4. call'[c].at = call[c].at \/ (getCh # <<>> /\ c = Head(getCh))
      BY <1>0, <2>1, <2>2
    <2>5. getCh # <<>> => call[Head(getCh)].at = "await"
      BY <1>5 DEF StatusChange, Rendezvous
    <2> QED
      BY <2>3, <2>4, <2>5, <1>1
  <1>6. CASE PKIStores
    <2>1. call' = [call EXCEPT ![PKILoop] = IdleCall]
      BY <1>6 DEF PKIStores
    <2>2. c # PKILoop
      BY <1>0, <2>1 DEF IdleCall
    <2> QED
      BY <1>0, <1>1, <2>1, <2>2
  <1>7. ASSUME NEW e \in loop.todo, PKIFetches(e) PROVE call'[c].epoch \in Epochs
    <2>1. UNCHANGED call \/ \E w : call' = [call EXCEPT ![PKILoop].at = w, ![PKILoop].epoch = e]
      BY <1>7, Zenon DEF PKIFetches, Asks
    <2>2. e \in Epochs
      BY DEF AskedFor
    <2> QED
      BY <1>0, <1>1, <2>1, <2>2, ZenonT(30) DEF Call
  <1>8. ASSUME NEW d \in Senders, SendPacket(d) PROVE call'[c].epoch \in Epochs
    <2>1. c # d /\ (UNCHANGED call \/ At(d, "offer"))
      BY <1>8, CallersFacts DEF SendPacket
    <2> QED
      BY <1>1, <1>2, <2>1
  <1>9. ASSUME NEW d \in Senders, NEW b \in BOOLEAN, TakesSend(d, b) PROVE call'[c].epoch \in Epochs
    <2>1. c # d /\ At(d, "await")
      BY <1>9, CallersFacts DEF TakesSend
    <2> QED
      BY <1>2, <2>1
  <1>10. ASSUME NEW d \in Getters, OffersConsensus(d) PROVE call'[c].epoch \in Epochs
    <2>1. call[d].at = "offer" /\ At(d, "await")
      BY <1>10 DEF OffersConsensus
    <2> QED
      BY <1>2, <2>1
  <1>11. ASSUME NEW d \in Waiters, WaitForDocument(d) PROVE call'[c].epoch \in Epochs
    <2>1. call' = [call EXCEPT ![d] = [at |-> "retry", epoch |-> 0, left |-> WaitAttempts]]
      BY <1>11 DEF WaitForDocument
    <2>2. c # d
      BY <1>0, <2>1
    <2> QED
      BY <1>0, <1>1, <2>1, <2>2
  <1>12. ASSUME NEW d \in Waiters, WaiterAsks(d) PROVE call'[c].epoch \in Epochs
    <2>1. \/ call' = [call EXCEPT ![d] = IdleCall]
          \/ \E w, k : call' = [call EXCEPT ![d] = [at |-> w, epoch |-> clEpoch, left |-> k]]
      BY <1>12, SMTT(30) DEF WaiterAsks
    <2>2. CASE c # d
      BY <1>0, <1>1, <2>1, <2>2
    <2>3. CASE c = d
      BY <1>0, <2>1, <2>3 DEF IdleCall
    <2> QED
      BY <2>2, <2>3
  <1>13. ASSUME NEW d \in Waiters, WaiterStores(d) PROVE call'[c].epoch \in Epochs
    <2>1. \/ call' = [call EXCEPT ![d] = IdleCall]
          \/ call' = [call EXCEPT ![d] = [call[d] EXCEPT !.at = "retry"]]
      BY <1>13, Zenon DEF WaiterStores
    <2>2. c # d
      BY <1>0, <2>1 DEF IdleCall, Call
    <2> QED
      BY <1>0, <1>1, <2>1, <2>2
  <1>14. ASSUME NEW d \in Callers, CallerLeaves(d) PROVE call'[c].epoch \in Epochs
    <2>1. call[d].at \in {"offer", "await", "awaitReply"} /\ At(d, "halted")
      BY <1>14 DEF CallerLeaves
    <2> QED
      BY <1>2, <2>1
  <1>15. CASE UNCHANGED call
    BY <1>1, <1>15
  <1> QED
    BY <1>3, <1>4, <1>5, <1>6, <1>7, <1>8, <1>9, <1>10, <1>11, <1>12, <1>13, <1>14, <1>15, Zenon
       DEF ClNext, clVars, docVars, ConnEstablished, SessionBreaks, ConnShutdown, WorkerReturns, ClTick,
           PKITurnEnds, TakesConsensus, PKIWakes, ReplyArrives

\* The epochs asked for, cached and given up stay within the run.
LEMMA AskedForStep ==
    ASSUME ClShape, Rendezvous, AskedFor, [ClNext]_clVars
    PROVE  AskedFor'
  <1> DEFINE u == clBudget.until
  <1>0. u \in Nat \ {0} /\ clBudget'.until = u /\ Epochs' = Epochs /\ Epochs = 1..(u + 1)
    BY WorkloadStep DEF ClShape, Workload, Epochs
  <1>1. \A c \in Getters : call'[c].at \notin {"idle", "retry"} => call'[c].epoch \in Epochs
    BY EpochEffect
  <1> DEFINE Goal == /\ clEpoch' \in 1..u /\ loop'.now <= clEpoch' /\ loop'.todo \subseteq Epochs
                     /\ clDocs' \cup failedFetches' \subseteq Epochs
  <1>2. /\ clEpoch \in 1..u /\ loop.now <= clEpoch /\ loop.todo \subseteq Epochs
        /\ clDocs \cup failedFetches \subseteq Epochs
        /\ loop \in [now : Nat, todo : SUBSET Nat, did : BOOLEAN] /\ clEpoch \in Nat
    BY DEF AskedFor, ClShape
  <1> SUFFICES Goal
    BY <1>0, <1>1 DEF AskedFor
  <1> HIDE DEF u, Epochs
  <1>3. CASE UNCHANGED <<loop, clDocs, failedFetches, clEpoch>>
    BY <1>2, <1>3
  <1>4. CASE ClTick
    <2>1. clEpoch' = clEpoch + 1 /\ clEpoch < u /\ UNCHANGED <<loop, clDocs, failedFetches>>
      BY <1>4 DEF ClTick, u
    <2> QED
      BY <1>0, <1>2, <2>1
  <1>5. CASE PKIStores
    <2>1. call[PKILoop].epoch \in Epochs
      BY <1>5, CallersFacts DEF PKIStores, AskedFor
    <2>2. /\ loop' = loop \/ loop' = [loop EXCEPT !.did = TRUE]
          /\ clDocs' \in {clDocs, clDocs \cup {call[PKILoop].epoch}}
          /\ failedFetches' \in {failedFetches, failedFetches \cup {call[PKILoop].epoch}}
          /\ UNCHANGED clEpoch
      BY <1>5 DEF PKIStores
    <2>3. loop'.now = loop.now /\ loop'.todo = loop.todo
      BY <1>2, <2>2
    <2> QED
      BY <1>2, <2>1, <2>2, <2>3
  <1>6. CASE PKITurnEnds
    BY <1>2, <1>6 DEF PKITurnEnds, StillFailed, Kept, NoTurn
  <1>7. ASSUME NEW b \in BOOLEAN, PKIWakes(b) PROVE Goal
    BY <1>0, <1>2, <1>7 DEF PKIWakes
  <1>8. ASSUME NEW e \in loop.todo, PKIFetches(e) PROVE Goal
    BY <1>2, <1>8 DEF PKIFetches
  <1>9. ASSUME NEW c \in Waiters, WaiterStores(c) PROVE Goal
    <2>1. call[c].epoch \in Epochs
      BY <1>9, CallersFacts, ZenonT(30) DEF WaiterStores, AskedFor
    <2> QED
      BY <1>2, <1>9, <2>1 DEF WaiterStores
  <1> QED
    BY <1>3, <1>4, <1>5, <1>6, <1>7, <1>8, <1>9, Zenon
       DEF ClNext, clVars, docVars, ConnEstablished, DoneFn, ReplyTaken, SessionBreaks, Notifies, StatusChange,
           ConnShutdown, WorkerReturns, TakesConsensus, ReplyArrives, SendPacket, TakesSend, OffersConsensus,
           WaitForDocument, WaiterAsks, CallerLeaves

\* What the callers do on their own leaves those that wait for the worker where they are.
LEMMA OwnSteps ==
    ASSUME ClShape,
           \/ ClTick \/ PKIStores \/ PKITurnEnds \/ (\E b \in BOOLEAN : PKIWakes(b)) \/ (\E e \in loop.todo : PKIFetches(e))
           \/ (\E c \in Senders : SendPacket(c))
           \/ (\E c \in Waiters : WaitForDocument(c) \/ WaiterAsks(c) \/ WaiterStores(c))
           \/ UNCHANGED clVars
    PROVE  /\ UNCHANGED <<conn, isShutdown, getCh>>
           /\ \A x \in Callers : call[x].at \in {"await", "awaitReply"} => call'[x] = call[x]
           /\ \A x \in sendOffers' : x \in sendOffers \/ call'[x].at = "offer"
           /\ \A x \in sendOffers : x \in Senders /\ (call[x].at = "offer" => call'[x].at = "offer")
  <1>0. call \in [Callers -> Call] /\ sendOffers \subseteq Senders
    BY DEF ClShape
  <1> USE <1>0, CallersFacts
  <1>1. CASE ClTick \/ PKITurnEnds \/ (\E b \in BOOLEAN : PKIWakes(b)) \/ UNCHANGED clVars
    BY <1>1 DEF ClTick, PKITurnEnds, PKIWakes, clVars
  <1>2. CASE PKIStores
    BY <1>2 DEF PKIStores
  <1>3. ASSUME NEW e \in loop.todo, PKIFetches(e)
        PROVE  /\ UNCHANGED <<conn, isShutdown, getCh, sendOffers>> /\ call[PKILoop].at = "idle"
               /\ \A x \in Callers : x # PKILoop => call'[x] = call[x]
    BY <1>3 DEF PKIFetches, Asks
  <1>4. ASSUME NEW c \in Senders, SendPacket(c)
        PROVE  /\ UNCHANGED <<conn, isShutdown, getCh>> /\ call[c].at = "idle"
               /\ \A x \in Callers : x # c => call'[x] = call[x]
               /\ \A x \in sendOffers' : x \in sendOffers \/ call'[x].at = "offer"
    BY <1>4, SMTT(30) DEF SendPacket, At, docVars, Call
  <1>5. ASSUME NEW c \in Waiters, WaitForDocument(c) \/ WaiterAsks(c) \/ WaiterStores(c)
        PROVE  /\ UNCHANGED <<conn, isShutdown, getCh, sendOffers>>
               /\ call[c].at \notin {"await", "awaitReply"}
               /\ \A x \in Callers : x # c => call'[x] = call[x]
    BY <1>5, ZenonT(30) DEF WaitForDocument, WaiterAsks, WaiterStores
  <1> QED
    BY <1>1, <1>2, <1>3, <1>4, <1>5

\* The steps of the worker and its callers that hand something over, one by one: who moves, and
\* where to.
LEMMA MeetingEffects ==
    ASSUME ClShape
    PROVE  /\ \A c \in Getters : OffersConsensus(c) =>
                 /\ call[c].at = "offer" /\ call'[c].at = "await" /\ getCh' = <<c>>
                 /\ \A x \in Callers : x # c => call'[x] = call[x]
                 /\ UNCHANGED <<conn, isShutdown, sendOffers>>
           /\ \A c \in Callers : CallerLeaves(c) =>
                 /\ isShutdown /\ isShutdown' /\ c \notin sendOffers' /\ sendOffers' \subseteq sendOffers
                 /\ \A x \in Callers : x # c => call'[x] = call[x]
                 /\ UNCHANGED conn
           /\ \A c \in Senders, b \in BOOLEAN : TakesSend(c, b) =>
                 /\ c \in sendOffers /\ conn.at = "select" /\ call'[c].at = "await"
                 /\ \A x \in Callers : x # c => call'[x] = call[x]
                 /\ c \notin sendOffers' /\ sendOffers' \subseteq sendOffers
                 /\ conn'.at = "done" /\ conn'.caller = c /\ conn'.ctx = conn.ctx
                 /\ UNCHANGED <<isShutdown, getCh>>
           /\ \A b \in BOOLEAN : TakesConsensus(b) =>
                 /\ conn.at = "select" /\ getCh # <<>> /\ getCh' = <<>> /\ conn'.caller = Head(getCh)
                 /\ \/ conn'.at = "busy" /\ conn'.ctx = conn.ctx
                    \/ conn'.at = "done" /\ conn.ctx = NoCaller /\ conn'.ctx = Head(getCh)
                 /\ UNCHANGED <<isShutdown, call, sendOffers>>
  <1>0. call \in [Callers -> Call] /\ conn \in Worker
    BY DEF ClShape
  <1> USE <1>0, CallersFacts
  <1>1. ASSUME NEW c \in Callers, NEW w, At(c, w)
        PROVE  call'[c].at = w /\ \A x \in Callers : x # c => call'[x] = call[x]
    BY <1>1 DEF At, Call
  <1>2. ASSUME NEW c \in Getters, OffersConsensus(c)
        PROVE  /\ call[c].at = "offer" /\ getCh' = <<c>> /\ At(c, "await") /\ UNCHANGED <<conn, isShutdown, sendOffers>>
    BY <1>2 DEF OffersConsensus
  <1>3. ASSUME NEW c \in Callers, CallerLeaves(c)
        PROVE  /\ isShutdown /\ isShutdown' /\ c \notin sendOffers' /\ sendOffers' \subseteq sendOffers
               /\ At(c, "halted") /\ UNCHANGED conn
    BY <1>3 DEF CallerLeaves
  <1>4. ASSUME NEW c \in Senders, NEW b \in BOOLEAN, TakesSend(c, b)
        PROVE  /\ c \in sendOffers /\ conn.at = "select" /\ At(c, "await")
               /\ c \notin sendOffers' /\ sendOffers' \subseteq sendOffers
               /\ conn'.at = "done" /\ conn'.caller = c /\ conn'.ctx = conn.ctx
               /\ UNCHANGED <<isShutdown, getCh>>
    BY <1>4 DEF TakesSend, Worker
  <1>5. ASSUME NEW b \in BOOLEAN, TakesConsensus(b)
        PROVE  /\ conn.at = "select" /\ getCh # <<>> /\ getCh' = <<>> /\ conn'.caller = Head(getCh)
               /\ \/ conn'.at = "busy" /\ conn'.ctx = conn.ctx
                  \/ conn'.at = "done" /\ conn.ctx = NoCaller /\ conn'.ctx = Head(getCh)
               /\ UNCHANGED <<isShutdown, call, sendOffers>>
    BY <1>5, ZenonT(30) DEF TakesConsensus, Worker
  <1> QED
    BY <1>1, <1>2, <1>3, <1>4, <1>5

\* The worker's own steps: what it answers, and to whom.
LEMMA AnswerEffects ==
    ASSUME ClShape
    PROVE  /\ ConnEstablished => /\ conn'.at = "select" /\ conn'.caller = NoCaller /\ conn'.ctx = NoCaller
                                 /\ UNCHANGED <<call, isShutdown, getCh, sendOffers>>
           /\ DoneFn => /\ conn.at \in {"done", "busy"} /\ call[conn.caller].at = "await"
                        /\ conn'.at \in {"select", "notify"} /\ conn'.caller = NoCaller /\ conn'.ctx = conn.ctx
                        /\ conn'.at = "notify" => conn.at = "done" /\ conn'.lost = (conn.caller \in Getters)
                        /\ conn'.at = "select" /\ conn.at = "done" /\ conn.caller \in Getters =>
                              call'[conn.caller].at = "awaitReply"
                        /\ \A x \in Callers : x # conn.caller => call'[x] = call[x]
                        /\ UNCHANGED <<isShutdown, getCh, sendOffers>>
           /\ ReplyTaken => /\ conn.at = "reply" /\ call[conn.caller].at = "awaitReply"
                            /\ conn'.at = "select" /\ conn'.caller = NoCaller /\ conn'.ctx = NoCaller
                            /\ \A x \in Callers : x # conn.caller => call'[x] = call[x]
                            /\ UNCHANGED <<isShutdown, getCh, sendOffers>>
           /\ \A code \in clBudget.answers : ReplyArrives(code) =>
                 /\ conn.at = "select" /\ conn.ctx # NoCaller
                 /\ conn'.at = "reply" /\ conn'.caller = conn.ctx /\ conn'.ctx = conn.ctx
                 /\ UNCHANGED <<call, isShutdown, getCh, sendOffers>>
           /\ SessionBreaks => /\ conn.at = "select" /\ conn'.at = "notify"
                               /\ conn'.caller = conn.caller /\ conn'.ctx = conn.ctx
                               /\ UNCHANGED <<call, isShutdown, getCh, sendOffers>>
           /\ ConnShutdown => isShutdown' /\ UNCHANGED <<conn, call, sendOffers>>
           /\ WorkerReturns => /\ isShutdown' /\ conn.at \notin {"done", "busy", "reply"}
                               /\ conn'.at = "gone" /\ conn'.caller = conn.caller
                               /\ UNCHANGED <<call, sendOffers>>
  <1>0. call \in [Callers -> Call] /\ conn \in Worker
    BY DEF ClShape
  <1> USE <1>0, CallersFacts
  <1>1. ASSUME NEW c, NEW w, At(c, w)
        PROVE  (c \in Callers => call'[c].at = w) /\ \A x \in Callers : x # c => call'[x] = call[x]
    BY <1>1 DEF At, Call
  <1>2. ASSUME DoneFn
        PROVE  /\ conn.at \in {"done", "busy"} /\ call[conn.caller].at = "await"
               /\ conn'.at \in {"select", "notify"} /\ conn'.caller = NoCaller /\ conn'.ctx = conn.ctx
               /\ conn'.at = "notify" => conn.at = "done" /\ conn'.lost = (conn.caller \in Getters)
               /\ conn'.at = "select" /\ conn.at = "done" => conn.ok
               /\ At(conn.caller, IF conn.at = "done" /\ conn.ok
                                  THEN (IF conn.caller \in Getters THEN "awaitReply" ELSE "idle")
                                  ELSE IF conn.caller \in Getters THEN "refused" ELSE "idle")
               /\ UNCHANGED <<isShutdown, getCh, sendOffers>>
    BY <1>2 DEF DoneFn, Worker
  <1>3. ASSUME ReplyTaken
        PROVE  /\ conn.at = "reply" /\ call[conn.caller].at = "awaitReply"
               /\ conn'.at = "select" /\ conn'.caller = NoCaller /\ conn'.ctx = NoCaller
               /\ At(conn.caller, conn.code) /\ UNCHANGED <<isShutdown, getCh, sendOffers>>
    BY <1>3, ZenonT(30) DEF ReplyTaken, Answered, Worker
  <1>4. ASSUME DoneFn, conn'.at = "select", conn.at = "done", conn.caller \in Getters
        PROVE  call'[conn.caller].at = "awaitReply"
    BY <1>1, <1>2, <1>4, SMTT(30)
  <1>5. /\ DoneFn => \A x \in Callers : x # conn.caller => call'[x] = call[x]
        /\ ReplyTaken => \A x \in Callers : x # conn.caller => call'[x] = call[x]
    BY <1>1, <1>2, <1>3
  <1>6. ConnEstablished => /\ conn'.at = "select" /\ conn'.caller = NoCaller /\ conn'.ctx = NoCaller
                           /\ UNCHANGED <<call, isShutdown, getCh, sendOffers>>
    BY DEF ConnEstablished, Dialing
  <1>7. ASSUME NEW code \in clBudget.answers, ReplyArrives(code)
        PROVE  /\ conn.at = "select" /\ conn.ctx # NoCaller
               /\ conn'.at = "reply" /\ conn'.caller = conn.ctx /\ conn'.ctx = conn.ctx
               /\ UNCHANGED <<call, isShutdown, getCh, sendOffers>>
    BY <1>7 DEF ReplyArrives, Worker
  <1>8. SessionBreaks => /\ conn.at = "select" /\ conn'.at = "notify"
                         /\ conn'.caller = conn.caller /\ conn'.ctx = conn.ctx
                         /\ UNCHANGED <<call, isShutdown, getCh, sendOffers>>
    BY DEF SessionBreaks, Worker
  <1>9. ConnShutdown => isShutdown' /\ UNCHANGED <<conn, call, sendOffers>>
    BY DEF ConnShutdown
  <1>10. WorkerReturns => /\ isShutdown' /\ conn.at \notin {"done", "busy", "reply"}
                          /\ conn'.at = "gone" /\ conn'.caller = conn.caller
                          /\ UNCHANGED <<call, sendOffers>>
    BY DEF WorkerReturns, Worker
  <1> QED
    BY <1>2, <1>3, <1>4, <1>5, <1>6, <1>7, <1>8, <1>9, <1>10

\* The end of a session: the document request it leaves, then the offers it drains.
LEMMA EndEffects ==
    ASSUME ClShape
    PROVE  /\ Notifies => /\ conn.at = "notify" /\ conn'.at = "status" /\ conn'.caller = NoCaller /\ conn'.ctx = NoCaller
                          /\ \/ UNCHANGED call
                             \/ /\ conn.ctx \in Getters /\ call[conn.ctx].at = "awaitReply"
                                /\ \A x \in Callers : x # conn.ctx => call'[x] = call[x]
                          /\ UNCHANGED <<isShutdown, getCh, sendOffers>>
           /\ StatusChange => /\ conn.at \in {"status", "status2"} /\ conn'.at \in {"status2", "dial"}
                              /\ conn'.caller = conn.caller /\ conn'.ctx = conn.ctx /\ getCh' = <<>>
                              /\ \A x \in sendOffers' : x \in sendOffers /\ call'[x] = call[x]
  <1>0. call \in [Callers -> Call] /\ conn \in Worker /\ sendOffers \subseteq Senders /\ getCh \in Seq(Getters)
    BY DEF ClShape
  <1> USE <1>0, CallersFacts
  <1>1. ASSUME Notifies
        PROVE  /\ conn.at = "notify" /\ conn'.at = "status" /\ conn'.caller = NoCaller /\ conn'.ctx = NoCaller
               /\ \/ UNCHANGED call
                  \/ /\ conn.ctx # NoCaller /\ call[conn.ctx].at = "awaitReply" /\ At(conn.ctx, "refused")
               /\ UNCHANGED <<isShutdown, getCh, sendOffers>>
    BY <1>1 DEF Notifies, Dialing
  <1>2. conn.ctx # NoCaller => conn.ctx \in Getters
    BY DEF Worker
  <1>3. ASSUME At(conn.ctx, "refused") PROVE \A x \in Callers : x # conn.ctx => call'[x] = call[x]
    BY <1>3 DEF At
  <1>4. ASSUME StatusChange
        PROVE  /\ conn.at \in {"status", "status2"} /\ conn'.at \in {"status2", "dial"}
               /\ conn'.caller = conn.caller /\ conn'.ctx = conn.ctx /\ getCh' = <<>>
    BY <1>4 DEF StatusChange, Worker
  <1>5. ASSUME StatusChange, NEW x \in sendOffers' PROVE x \in sendOffers /\ call'[x] = call[x]
    <2>1. PICK c : /\ sendOffers' = sendOffers \ {c}
                   /\ call' = [y \in Callers |-> IF y = c THEN [call[y] EXCEPT !.at = "idle"]
                                                 ELSE IF getCh # <<>> /\ y = Head(getCh)
                                                      THEN [call[y] EXCEPT !.at = "refused"] ELSE call[y]]
      BY <1>5, Zenon DEF StatusChange
    <2>2. x # c /\ x \in Callers /\ ~(getCh # <<>> /\ x = Head(getCh))
      BY <1>5, <2>1
    <2> QED
      BY <1>5, <2>1, <2>2
  <1> QED
    BY <1>1, <1>2, <1>3, <1>4, <1>5

\* Only blocked senders stay on offer, and the worker holds a caller exactly while it answers one.
LEMMA HeldStep ==
    ASSUME ClShape, Held, [ClNext]_clVars
    PROVE  Held'
  <1> DEFINE Offered == \A x \in sendOffers' : call'[x].at = "offer"
             Holds == conn'.at \in {"done", "busy", "reply"} <=> conn'.caller # NoCaller
  <1>0. /\ sendOffers \subseteq Senders /\ sendOffers \subseteq Callers /\ conn \in Worker /\ getCh \in Seq(Getters)
        /\ \A x \in sendOffers : call[x].at = "offer"
        /\ conn.at \in {"done", "busy", "reply"} <=> conn.caller # NoCaller
    BY CallersFacts DEF ClShape, Held
  <1> SUFFICES Offered /\ Holds
    BY DEF Held
  <1>1. CASE ClTick \/ PKIStores \/ PKITurnEnds \/ (\E b \in BOOLEAN : PKIWakes(b)) \/ (\E e \in loop.todo : PKIFetches(e))
             \/ (\E c \in Senders : SendPacket(c))
             \/ (\E c \in Waiters : WaitForDocument(c) \/ WaiterAsks(c) \/ WaiterStores(c)) \/ UNCHANGED clVars
    BY <1>0, <1>1, OwnSteps, SMTT(30)
  <1>2. CASE ConnEstablished
    BY <1>0, <1>2, AnswerEffects, SMTT(30)
  <1>3. CASE DoneFn
    BY <1>0, <1>3, AnswerEffects
  <1>4. CASE ReplyTaken
    BY <1>0, <1>4, AnswerEffects, Zenon
  <1>5. CASE SessionBreaks \/ ConnShutdown \/ WorkerReturns
    BY <1>0, <1>5, AnswerEffects, SMTT(30)
  <1>6. ASSUME NEW code \in clBudget.answers, ReplyArrives(code) PROVE Offered /\ Holds
    BY <1>0, <1>6, AnswerEffects
  <1>7. CASE Notifies
    BY <1>0, <1>7, EndEffects, CallersFacts, Zenon
  <1>8. CASE StatusChange
    BY <1>0, <1>8, EndEffects, ZenonT(30)
  <1>9. ASSUME NEW c \in Getters, OffersConsensus(c) PROVE Offered /\ Holds
    BY <1>0, <1>9, MeetingEffects, CallersFacts
  <1>10. ASSUME NEW c \in Callers, CallerLeaves(c) PROVE Offered /\ Holds
    BY <1>0, <1>10, MeetingEffects, Zenon
  <1>11. ASSUME NEW c \in Senders, NEW b \in BOOLEAN, TakesSend(c, b) PROVE Offered /\ Holds
    BY <1>0, <1>11, MeetingEffects, CallersFacts, SMTT(30)
  <1>12. ASSUME NEW b \in BOOLEAN, TakesConsensus(b) PROVE Offered /\ Holds
    BY <1>0, <1>12, MeetingEffects, CallersFacts
  <1> QED
    BY <1>1, <1>2, <1>3, <1>4, <1>5, <1>6, <1>7, <1>8, <1>9, <1>10, <1>11, <1>12, Zenon DEF ClNext

\* Whoever the worker will answer is waiting for it, while the client runs.
LEMMA RendezvousStep ==
    ASSUME ClShape, Held, Rendezvous, [ClNext]_clVars
    PROVE  Rendezvous'
  <1>0. /\ sendOffers \subseteq Callers /\ conn \in Worker /\ getCh \in Seq(Getters)
        /\ \A x \in sendOffers : call[x].at = "offer"
        /\ conn.at \in {"done", "busy", "reply"} <=> conn.caller # NoCaller
        /\ conn.caller # NoCaller => conn.caller \in Callers
        /\ conn.ctx # NoCaller => conn.ctx \in Callers /\ conn.ctx \in Getters
        /\ getCh # <<>> => Head(getCh) \in Callers /\ Head(getCh) \in Getters
    BY CallersFacts DEF ClShape, Held, Worker
  <1> SUFFICES ASSUME ~isShutdown' PROVE Rendezvous'
    BY Zenon DEF Rendezvous
  <1> USE DEF Rendezvous
  <1>1. CASE ClTick \/ PKIStores \/ PKITurnEnds \/ (\E b \in BOOLEAN : PKIWakes(b)) \/ (\E e \in loop.todo : PKIFetches(e))
             \/ (\E c \in Senders : SendPacket(c))
             \/ (\E c \in Waiters : WaitForDocument(c) \/ WaiterAsks(c) \/ WaiterStores(c)) \/ UNCHANGED clVars
    BY <1>0, <1>1, OwnSteps, Zenon
  <1>2. CASE ConnEstablished
    BY <1>0, <1>2, AnswerEffects
  <1>3. CASE DoneFn
    BY <1>0, <1>3, AnswerEffects, ZenonT(30)
  <1>4. CASE ReplyTaken
    BY <1>0, <1>4, AnswerEffects, Zenon
  <1>5. CASE SessionBreaks \/ ConnShutdown \/ WorkerReturns
    BY <1>0, <1>5, AnswerEffects, Zenon
  <1>6. ASSUME NEW code \in clBudget.answers, ReplyArrives(code) PROVE Rendezvous'
    BY <1>0, <1>6, AnswerEffects, SMTT(30)
  <1>7. CASE Notifies
    BY <1>0, <1>7, EndEffects
  <1>8. CASE StatusChange
    BY <1>0, <1>8, EndEffects, ZenonT(30)
  <1>9. ASSUME NEW c \in Getters, OffersConsensus(c) PROVE Rendezvous'
    BY <1>0, <1>9, MeetingEffects, CallersFacts, SMTT(30)
  <1>10. ASSUME NEW c \in Callers, CallerLeaves(c) PROVE Rendezvous'
    BY <1>0, <1>10, MeetingEffects, ZenonT(30)
  <1>11. ASSUME NEW c \in Senders, NEW b \in BOOLEAN, TakesSend(c, b) PROVE Rendezvous'
    BY <1>0, <1>11, MeetingEffects, CallersFacts, SMTT(30)
  <1>12. ASSUME NEW b \in BOOLEAN, TakesConsensus(b) PROVE Rendezvous'
    BY <1>0, <1>12, MeetingEffects, CallersFacts
  <1> QED
    BY <1>1, <1>2, <1>3, <1>4, <1>5, <1>6, <1>7, <1>8, <1>9, <1>10, <1>11, <1>12, Zenon DEF ClNext

\* The inductive invariant of the connection worker, its callers and the documents.
THEOREM ClInvariant == ClSpec => []ClInv
  <1>1. ClInit => ClInv
    BY ClInitInv
  <1>2. ClInv /\ [ClNext]_clVars => ClInv'
    BY ClShapeStep, HeldStep, RendezvousStep, AskedForStep DEF ClInv
  <1> QED
    BY <1>1, <1>2, PTL DEF ClSpec

\* Whatever the daemon's callers ask of the connection worker and however sessions come and go, the
\* worker of client/connection.go never waits on an unbuffered channel for a caller that has gone,
\* but for the document request that could not be sent, for any number of callers and any workload.
THEOREM WorkerNeverWaitsInVain == ClSpec => []ConnectionSound
  <1>1. ClInv => ClTypeOK
    <2> SUFFICES ASSUME ClInv PROVE ClTypeOK
      OBVIOUS
    <2>1. conn \in Worker /\ Len(getCh) <= 1 /\ sendOffers \subseteq {c \in Senders : call[c].at = "offer"}
      BY DEF ClInv, ClShape, Held
    <2>2. conn.at \in {"done", "busy", "reply"} <=> conn.caller # NoCaller
      BY DEF ClInv, Held
    <2>3. clDocs \cup failedFetches \subseteq 1..(clBudget.until + 1)
      BY DEF ClInv, AskedFor, Epochs
    <2> QED
      BY <2>1, <2>2, <2>3 DEF ClTypeOK, Worker
  <1>2. ClInv => AnswersTaken
    <2> SUFFICES ASSUME ClInv, ~isShutdown PROVE AnswersTaken
      BY DEF AnswersTaken
    <2>1. conn.at \in {"reply"} => conn.caller # NoCaller /\ conn.caller = conn.ctx
      BY DEF ClInv, Held, Rendezvous
    <2> QED
      BY <2>1 DEF ClInv, Rendezvous, AnswersTaken
  <1> QED
    BY ClInvariant, <1>1, <1>2, PTL DEF ConnectionSound

\* A document in the cache of client/pki.go stays there through its own epoch and the next, whichever
\* goroutine fetched it and however late pruneDocuments runs: a turn never prunes by an epoch that has
\* not begun.
THEOREM DocumentsKept == ClSpec => DocumentKept
  <1>1. ClInv /\ [ClNext]_clVars => [\A e \in clDocs : e + 1 >= clEpoch => e \in clDocs']_clVars
    <2> SUFFICES ASSUME ClInv, ClNext, NEW e \in clDocs, e + 1 >= clEpoch PROVE e \in clDocs'
      OBVIOUS
    <2>1. clDocs \subseteq Nat /\ clEpoch \in Nat /\ loop.now \in Nat /\ loop.now <= clEpoch
      BY DEF ClInv, ClShape, AskedFor
    <2>2. CASE PKITurnEnds
      BY <2>1, <2>2 DEF PKITurnEnds, Kept
    <2>3. CASE clDocs \subseteq clDocs'
      BY <2>3
    <2> QED
      BY <2>2, <2>3, Zenon
         DEF ClNext, docVars, ConnEstablished, DoneFn, ReplyTaken, SessionBreaks, Notifies, StatusChange,
             ConnShutdown, WorkerReturns, TakesConsensus, ReplyArrives, SendPacket, TakesSend, OffersConsensus,
             WaitForDocument, WaiterAsks, CallerLeaves, ClTick, PKIStores, PKIWakes, PKIFetches, WaiterStores
  <1> QED
    BY ClInvariant, <1>1, PTL DEF ClSpec, DocumentKept

----------------------------------------------------------------------------
(* Sharding, for any number of replicas, any order of them in the document *)
(* and any of them online: one pass finds the two least replicas, the      *)
(* draws of the intermediate replicas can end, and keep away from the      *)
(* shards.                                                                 *)

Configured == shBudget.configured
Listed == shBudget.online

\* The types, and where each phase stands.
ShTypeOK ==
    /\ shBudget \in ShBudgets
    /\ picking \in {"start", "shard", "pick", "done", "failed"}
    /\ scanned \in Nat /\ scanned <= Len(Configured)
    /\ kept \in (0..MaxHash) \X (0..MaxHash)
    /\ picked \in Seq(0..MaxHash)

\* What Shard2's loop keeps: the pair is the least of what was scanned, filled up with MaxHash.
KeptLeast ==
    /\ kept[1] <= kept[2]
    /\ \A i \in 1..scanned : Configured[i] \in {kept[1], kept[2]} \/ kept[2] < Configured[i]
    /\ scanned = 0 => kept[1] = MaxHash
    /\ scanned <= 1 => kept[2] = MaxHash
    /\ scanned >= 1 => \E i \in 1..scanned : kept[1] = Configured[i]
    /\ scanned >= 2 => kept[1] < kept[2] /\ \E i \in 1..scanned : kept[2] = Configured[i]

\* What holds once the shards are found, and of the replicas picked.
PickedApart ==
    /\ picking \in {"start", "shard"} => picked = <<>>
    /\ picking = "shard" => Len(Configured) >= 2
    /\ picking \in {"pick", "done"} =>
          /\ scanned = Len(Configured) /\ Len(Configured) >= 2
          /\ shards = Online(kept, ToRange(Listed))
          /\ ToRange(picked) \subseteq ToRange(Listed)
          /\ Len(Listed) >= 4 => {kept[1], kept[2]} \cap ToRange(picked) = {}
    /\ picking = "pick" => shards # <<>> /\ Len(picked) <= 1
    /\ picking = "pick" /\ Len(Listed) = 2 /\ Len(picked) = 1 => picked[1] = Listed[1]
    /\ picking = "done" => Len(picked) = 2 /\ picked[1] # picked[2]

ShIInv == ShTypeOK /\ KeptLeast /\ PickedApart

----------------------------------------------------------------------------
\* Appending to a sequence adds the element to its range.
LEMMA AppendRange ==
    ASSUME NEW T, NEW s \in Seq(T), NEW e \in T
    PROVE  ToRange(Append(s, e)) = ToRange(s) \cup {e}
<1>1. DOMAIN Append(s, e) = 1..(Len(s) + 1) /\ DOMAIN s = 1..Len(s) /\ Len(s) \in Nat
  OBVIOUS
<1>2. \A i \in 1..Len(s) : Append(s, e)[i] = s[i]
  OBVIOUS
<1>3. Append(s, e)[Len(s) + 1] = e
  OBVIOUS
<1> QED BY <1>1, <1>2, <1>3 DEF ToRange

\* What GetShards returns are the shards of the pair that are online.
LEMMA OnlineRange ==
    ASSUME NEW a, NEW b, NEW S
    PROVE  /\ ToRange(Online(<<a, b>>, S)) = {a, b} \cap S
           /\ Online(<<a, b>>, S) # <<>> => Online(<<a, b>>, S)[1] \in {a, b} \cap S
<1>1. CASE a \in S /\ b \in S
  <2>1. Online(<<a, b>>, S) = Append(<<a>>, b)
    BY <1>1 DEF Online
  <2>2. <<a>> \in Seq({a, b}) /\ b \in {a, b} /\ ToRange(<<a>>) = {a}
    BY DEF ToRange
  <2>3. ToRange(Append(<<a>>, b)) = ToRange(<<a>>) \cup {b}
    BY <2>2, AppendRange, Zenon
  <2>4. Append(<<a>>, b)[1] = a
    BY <2>2
  <2> QED BY <1>1, <2>1, <2>2, <2>3, <2>4, Zenon
<1>2. CASE a \in S /\ b \notin S
  <2>1. Online(<<a, b>>, S) = <<a>>
    BY <1>2 DEF Online
  <2> QED BY <1>2, <2>1 DEF ToRange
<1>3. CASE a \notin S /\ b \in S
  <2>1. Online(<<a, b>>, S) = Append(<<>>, b)
    BY <1>3 DEF Online
  <2>2. <<>> \in Seq({b}) /\ ToRange(<<>>) = {}
    BY DEF ToRange
  <2>3. ToRange(Append(<<>>, b)) = {} \cup {b}
    BY <2>2, AppendRange, Zenon
  <2>4. Append(<<>>, b)[1] = b
    BY <2>2
  <2> QED BY <1>3, <2>1, <2>3, <2>4
<1>4. CASE a \notin S /\ b \notin S
  <2>1. Online(<<a, b>>, S) = <<>>
    BY <1>4 DEF Online
  <2> QED BY <1>4, <2>1 DEF ToRange
<1> QED BY <1>1, <1>2, <1>3, <1>4

\* The same of the pair that is kept.
LEMMA KeptOnline ==
    ASSUME ShTypeOK, shards = Online(kept, ToRange(Listed))
    PROVE  /\ ToRange(shards) = {kept[1], kept[2]} \cap ToRange(Listed)
           /\ shards # <<>> => shards[1] \in ToRange(Listed)
<1>1. kept = <<kept[1], kept[2]>>
  BY DEF ShTypeOK
<1> QED BY <1>1, OnlineRange

\* A sequence of at most one element has a range of at most one element.
LEMMA ShortRange ==
    ASSUME NEW T, NEW s \in Seq(T), Len(s) <= 1
    PROVE  \E e : ToRange(s) \subseteq {e}
<1>1. DOMAIN s = 1..Len(s) /\ Len(s) \in Nat
  OBVIOUS
<1>2. ToRange(s) \subseteq {s[1]}
  BY <1>1 DEF ToRange
<1> QED BY <1>2, SMTT(30)

\* A list without repetition that is longer than a few has a member apart from them.
LEMMA OneMore ==
    ASSUME NEW T, NEW s \in Seq(T), Injective(s), NEW a, NEW b, NEW c
    PROVE  /\ Len(s) >= 2 => ToRange(s) \ {a} # {}
           /\ Len(s) >= 4 => ToRange(s) \ {a, b, c} # {}
<1>1. DOMAIN s = 1..Len(s) /\ Len(s) \in Nat
  OBVIOUS
<1>2. Len(s) >= 2 => s[1] \in ToRange(s) /\ s[2] \in ToRange(s) /\ s[1] # s[2]
  BY <1>1 DEF ToRange, Injective
<1>3. ASSUME Len(s) >= 4
      PROVE  /\ s[1] \in ToRange(s) /\ s[2] \in ToRange(s) /\ s[3] \in ToRange(s) /\ s[4] \in ToRange(s)
             /\ s[1] # s[2] /\ s[1] # s[3] /\ s[1] # s[4] /\ s[2] # s[3] /\ s[2] # s[4] /\ s[3] # s[4]
  <2>1. 1 \in DOMAIN s /\ 2 \in DOMAIN s /\ 3 \in DOMAIN s /\ 4 \in DOMAIN s
    BY <1>1, <1>3
  <2> QED BY <2>1 DEF ToRange, Injective
<1> QED BY <1>2, <1>3

----------------------------------------------------------------------------
\* The assumption of the budget at hand.
LEMMA BudgetFacts ==
    ASSUME ShTypeOK
    PROVE  /\ MaxHash \in Nat
           /\ Configured \in Seq(0..(MaxHash - 1))
           /\ Len(Configured) \in Nat /\ DOMAIN Configured = 1..Len(Configured)
           /\ \A i \in 1..Len(Configured) : Configured[i] \in Nat /\ Configured[i] < MaxHash
           /\ \A i, j \in 1..Len(Configured) : i # j => Configured[i] # Configured[j]
           /\ ToRange(Listed) \subseteq 0..MaxHash
<1>1. /\ MaxHash \in Nat
      /\ Configured \in Seq(0..(MaxHash - 1))
      /\ \A i, j \in DOMAIN Configured : i # j => Configured[i] # Configured[j]
      /\ Listed \in Seq(ToRange(Configured))
  BY ShAssumption DEF ShTypeOK, Configured, Listed, Injective
<1>2. Len(Configured) \in Nat /\ DOMAIN Configured = 1..Len(Configured)
  BY <1>1
<1>3. \A i \in 1..Len(Configured) : Configured[i] \in Nat /\ Configured[i] < MaxHash
  BY <1>1, <1>2
<1>4. ToRange(Configured) \subseteq 0..MaxHash
  BY <1>1, <1>2, <1>3 DEF ToRange
<1>5. ToRange(Listed) \subseteq ToRange(Configured)
  <2> DEFINE T == ToRange(Configured)
  <2>1. Listed \in Seq(T)
    BY <1>1
  <2> HIDE DEF T
  <2>2. ToRange(Listed) \subseteq T
    BY <2>1 DEF ToRange
  <2> QED BY <2>2 DEF T
<1> QED BY <1>1, <1>2, <1>3, <1>4, <1>5, Zenon

\* The replicas listed are distinct, and numReplicas counts them unless there are 256.
LEMMA ListedFacts ==
    ASSUME ShTypeOK
    PROVE  /\ Listed \in Seq(ToRange(Configured)) /\ Injective(Listed)
           /\ Len(Listed) \in Nat /\ DOMAIN Listed = 1..Len(Listed)
           /\ numReplicas = IF Len(Listed) = 256 THEN 0 ELSE Len(Listed)
<1>1. Listed \in Seq(ToRange(Configured)) /\ Injective(Listed) /\ Len(Listed) <= 256
  BY ShAssumption DEF ShTypeOK, Configured, Listed
<1>2. Len(Listed) \in Nat /\ DOMAIN Listed = 1..Len(Listed)
  BY <1>1
<1>3. \A n \in Nat : n <= 256 => n % 256 = IF n = 256 THEN 0 ELSE n
  OBVIOUS
<1> QED BY <1>1, <1>2, <1>3, Zenon DEF numReplicas, Listed

\* One iteration of Shard2 keeps the two least.
LEMMA Shard2Keeps ==
    ASSUME ShTypeOK, KeptLeast, Shard2
    PROVE  KeptLeast' /\ kept' \in (0..MaxHash) \X (0..MaxHash)
<1> DEFINE h == Configured[scanned + 1]
<1>1. /\ scanned \in Nat /\ scanned + 1 <= Len(Configured) /\ scanned' = scanned + 1 /\ Configured' = Configured
      /\ kept' = Keep(kept, h)
  BY DEF Shard2, ShTypeOK, Configured
<1>2. h \in Nat /\ h < MaxHash /\ MaxHash \in Nat
  BY <1>1, BudgetFacts
<1>3. \A i \in 1..scanned : Configured[i] # h /\ Configured[i] \in Nat /\ Configured[i] < MaxHash
  BY <1>1, BudgetFacts
<1>4. kept[1] \in Nat /\ kept[2] \in Nat /\ kept[1] <= MaxHash /\ kept[2] <= MaxHash /\ kept = <<kept[1], kept[2]>>
  BY <1>2 DEF ShTypeOK
<1>5. /\ 1..scanned' = (1..scanned) \cup {scanned + 1}
  BY <1>1
<1> HIDE DEF h
<1>6. kept[1] # h /\ kept[2] # h
  BY <1>1, <1>2, <1>3, SMTT(30) DEF KeptLeast
<1>7. CASE kept[2] < h
  <2>1. kept' = kept
    BY <1>1, <1>7 DEF Keep
  <2>2. scanned >= 2
    BY <1>1, <1>2, <1>4, <1>7, SMTT(30) DEF KeptLeast
  <2> QED BY <1>1, <1>2, <1>3, <1>4, <1>5, <1>7, <2>1, <2>2, SMTT(30) DEF KeptLeast, ShTypeOK, h
<1>8. CASE ~(kept[2] < h) /\ kept[1] < h
  <2>1. kept' = <<kept[1], h>>
    BY <1>1, <1>8 DEF Keep
  <2>2. scanned >= 1
    BY <1>1, <1>2, <1>4, <1>8 DEF KeptLeast
  <2>3. kept'[1] = kept[1] /\ kept'[2] = h
    BY <2>1
  <2>4. kept' \in (0..MaxHash) \X (0..MaxHash)
    BY <1>2, <1>4, <2>1
  <2>5. \A i \in 1..scanned' : Configured'[i] \in {kept'[1], kept'[2]} \/ kept'[2] < Configured'[i]
    <3> SUFFICES ASSUME NEW i \in 1..scanned'
                 PROVE  Configured[i] \in {kept[1], h} \/ h < Configured[i]
      BY <1>1, <2>3
    <3>1. CASE i = scanned + 1
      BY <3>1 DEF h
    <3>2. CASE i \in 1..scanned
      BY <1>2, <1>3, <1>4, <1>6, <1>8, <3>2 DEF KeptLeast
    <3> QED BY <1>5, <3>1, <3>2
  <2>6. h = Configured'[scanned'] /\ scanned' \in 1..scanned' /\ scanned' >= 1
    BY <1>1 DEF h
  <2>7. \E i \in 1..scanned' : kept[1] = Configured'[i]
    BY <1>1, <1>5, <2>2, SMTT(30) DEF KeptLeast
  <2> QED BY <1>1, <1>2, <1>4, <1>6, <1>8, <2>3, <2>4, <2>5, <2>6, <2>7, SMTT(30) DEF KeptLeast
<1>9. CASE ~(kept[2] < h) /\ ~(kept[1] < h)
  <2>1. kept' = <<h, kept[1]>>
    BY <1>1, <1>9 DEF Keep
  <2>3. kept'[1] = h /\ kept'[2] = kept[1]
    BY <2>1
  <2>4. kept' \in (0..MaxHash) \X (0..MaxHash)
    BY <1>2, <1>4, <2>1
  <2>5. \A i \in 1..scanned' : Configured'[i] \in {kept'[1], kept'[2]} \/ kept'[2] < Configured'[i]
    <3> SUFFICES ASSUME NEW i \in 1..scanned'
                 PROVE  Configured[i] \in {h, kept[1]} \/ kept[1] < Configured[i]
      BY <1>1, <2>3
    <3>1. CASE i = scanned + 1
      BY <3>1 DEF h
    <3>2. CASE i \in 1..scanned
      BY <1>2, <1>3, <1>4, <1>6, <1>9, <3>2 DEF KeptLeast
    <3> QED BY <1>5, <3>1, <3>2
  <2>6. h = Configured'[scanned'] /\ scanned' \in 1..scanned' /\ scanned' >= 1
    BY <1>1 DEF h
  <2>7. scanned >= 1 => \E i \in 1..scanned' : kept[1] = Configured'[i]
    BY <1>1, <1>5 DEF KeptLeast
  <2> QED BY <1>1, <1>2, <1>4, <1>6, <1>9, <2>3, <2>4, <2>5, <2>6, <2>7 DEF KeptLeast
<1> QED BY <1>7, <1>8, <1>9

\* What is kept at the end is what Shard returns.
LEMMA KeptIsShard ==
    ASSUME ShTypeOK, KeptLeast, scanned = Len(Configured), Len(Configured) >= 2
    PROVE  Shard(ToRange(Configured)) = kept
<1> DEFINE R == ToRange(Configured)
<1> DEFINE Least(pair) == pair[1] < pair[2] /\ \A r \in R : r \in {pair[1], pair[2]} \/ pair[2] < r
<1>1. /\ R = {Configured[i] : i \in 1..scanned}
      /\ R \subseteq Nat
  BY BudgetFacts, SMTT(30) DEF ToRange
<1>2. kept \in R \X R /\ Least(kept)
  <2>1. kept[1] \in R /\ kept[2] \in R
    BY <1>1 DEF KeptLeast, ShTypeOK
  <2>2. kept = <<kept[1], kept[2]>>
    BY DEF ShTypeOK
  <2>3. Least(kept)
    BY <1>1 DEF KeptLeast, ShTypeOK
  <2> QED BY <2>1, <2>2, <2>3
<1>3. ASSUME NEW p \in R \X R, Least(p)
      PROVE  p = kept
  <2>1. p = <<p[1], p[2]>> /\ p[1] \in R /\ p[2] \in R /\ kept = <<kept[1], kept[2]>> /\ kept[1] \in R /\ kept[2] \in R
    BY <1>2
  <2>2. /\ p[1] < p[2] /\ kept[1] < kept[2]
        /\ kept[1] \in {p[1], p[2]} \/ p[2] < kept[1]
        /\ kept[2] \in {p[1], p[2]} \/ p[2] < kept[2]
        /\ p[1] \in {kept[1], kept[2]} \/ kept[2] < p[1]
        /\ p[2] \in {kept[1], kept[2]} \/ kept[2] < p[2]
    BY <1>2, <1>3, <2>1
  <2>3. p[1] \in Nat /\ p[2] \in Nat /\ kept[1] \in Nat /\ kept[2] \in Nat
    BY <1>1, <2>1
  <2>4. p[1] = kept[1] /\ p[2] = kept[2]
    BY <2>2, <2>3
  <2> QED BY <2>1, <2>4
<1>4. Shard(R) = CHOOSE pair \in R \X R : Least(pair)
  BY DEF Shard
<1> HIDE DEF Least, R
<1>5. (CHOOSE pair \in R \X R : Least(pair)) \in R \X R /\ Least(CHOOSE pair \in R \X R : Least(pair))
  BY <1>2
<1> QED BY <1>3, <1>4, <1>5 DEF R

\* A draw can end: with four replicas or more at most three are excluded, with fewer at most one.
LEMMA CandidatesLeft ==
    ASSUME ShTypeOK, PickedApart, picking = "pick", numReplicas >= 2
    PROVE  Candidates # {}
<1> DEFINE n == numReplicas
<1>1. /\ n = Len(Listed) /\ n \in Nat /\ DOMAIN Listed = 1..n
      /\ Listed \in Seq(ToRange(Configured)) /\ Injective(Listed)
  BY ListedFacts
<1>2. /\ ToRange(shards) \subseteq {kept[1], kept[2]}
      /\ shards[1] \in ToRange(Listed)
  BY KeptOnline DEF PickedApart
<1>3. PICK e : ToRange(picked) \subseteq {e}
  BY ShortRange, SMTT(30) DEF ShTypeOK, PickedApart
<1>4. CASE n = 2
  <2>1. Candidates = {Listed[Len(picked) + 1]} \ ToRange(picked)
    BY <1>1, <1>4 DEF Candidates, Given, Exclude, Listed
  <2>2. picked \in Seq(0..MaxHash) /\ Len(picked) \in {0, 1} /\ DOMAIN picked = 1..Len(picked)
    <3>1. picked \in Seq(0..MaxHash)
      BY DEF ShTypeOK
    <3>2. Len(picked) <= 1
      BY DEF PickedApart
    <3>3. Len(picked) \in Nat /\ DOMAIN picked = 1..Len(picked)
      BY <3>1
    <3> QED BY <3>1, <3>2, <3>3
  <2>3. Listed[1] # Listed[2]
    BY <1>1, <1>4 DEF Injective
  <2>4. Len(picked) = 1 => picked[1] = Listed[1]
    BY <1>1, <1>4 DEF PickedApart
  <2>5. Listed[Len(picked) + 1] \notin ToRange(picked)
    BY <2>2, <2>3, <2>4 DEF ToRange
  <2> QED BY <2>1, <2>5
<1>5. CASE n = 3 /\ picked = <<>>
  <2>1. ToRange(picked) = {}
    BY <1>5 DEF ToRange
  <2> QED BY <1>1, <1>2, <1>5, <2>1 DEF Candidates, Given, Exclude
<1>6. CASE n = 3 /\ picked # <<>>
  <2>1. Candidates = ToRange(Listed) \ ToRange(picked)
    BY <1>1, <1>6 DEF Candidates, Given, Exclude, Listed
  <2>2. ToRange(Listed) \ {e} # {}
    BY <1>1, <1>6, OneMore, Zenon
  <2> QED BY <1>3, <2>1, <2>2
<1>7. CASE n >= 4
  <2>1. Candidates = ToRange(Listed) \ (ToRange(picked) \cup ToRange(shards))
    <3>1. numReplicas # 2 /\ numReplicas # 3 /\ numReplicas >= 4
      BY <1>1, <1>7
    <3> QED BY <3>1 DEF Candidates, Given, Exclude, Listed
  <2>2. ToRange(Listed) \ {e, kept[1], kept[2]} # {}
    BY <1>1, <1>7, OneMore, Zenon
  <2> QED BY <1>2, <1>3, <2>1, <2>2
<1> QED BY <1>1, <1>4, <1>5, <1>6, <1>7

----------------------------------------------------------------------------
\* A budget is chosen and nothing is scanned.
LEMMA ShInitIInv == ShInit => ShIInv
<1> SUFFICES ASSUME ShInit PROVE ShIInv
  OBVIOUS
<1>1. MaxHash \in Nat /\ Configured \in Seq(0..(MaxHash - 1)) /\ Len(Configured) \in Nat
  BY ShAssumption DEF ShInit, Configured
<1> QED BY <1>1 DEF ShInit, ShIInv, ShTypeOK, KeptLeast, PickedApart

\* A pick is online and new, and with four replicas or more not a shard.
LEMMA PickKeeps ==
    ASSUME ShIInv, PickRandomReplicaID
    PROVE  ShIInv'
<1>1. PICK r \in Candidates : picked' = Append(picked, r)
  BY DEF PickRandomReplicaID
<1>2. /\ shBudget' = shBudget /\ scanned' = scanned /\ kept' = kept /\ shards' = shards /\ picking = "pick"
      /\ picking' = IF Len(picked') < 2 THEN "pick" ELSE IF ToRange(picked') \subseteq shBudget.keyed THEN "done" ELSE "failed"
  BY SMTT(30) DEF PickRandomReplicaID
<1>3. /\ ToRange(shards) = {kept[1], kept[2]} \cap ToRange(Listed)
      /\ shards[1] \in ToRange(Listed)
  BY <1>2, KeptOnline DEF ShIInv, PickedApart
<1>4. /\ r \in ToRange(Listed) /\ r \notin ToRange(picked)
      /\ Len(Listed) >= 4 => r \notin {kept[1], kept[2]}
      /\ Len(Listed) = 2 /\ Len(picked) = 0 => r = Listed[1]
  <2>1. /\ Len(Listed) \in Nat /\ DOMAIN Listed = 1..Len(Listed)
        /\ numReplicas = Len(Listed) /\ numReplicas >= 2
    BY ListedFacts DEF ShIInv, PickRandomReplicaID
  <2>2. Len(picked) \in Nat /\ Len(picked) <= 1
    <3>1. picked \in Seq(0..MaxHash) /\ Len(picked) <= 1
      BY <1>2 DEF ShIInv, ShTypeOK, PickedApart
    <3>2. Len(picked) \in Nat
      BY <3>1
    <3> QED BY <3>1, <3>2
  <2>3. r \in Given(numReplicas) /\ r \notin Exclude(numReplicas)
    BY DEF Candidates
  <2>4. r \in ToRange(Listed)
    <3>1. CASE numReplicas = 2
      <4>1. r = Listed[Len(picked) + 1]
        BY <2>3, <3>1 DEF Given, Listed
      <4>2. Len(picked) + 1 \in DOMAIN Listed
        <5>1. DOMAIN Listed = 1..2
          BY <2>1, <3>1, Zenon
        <5>2. Len(picked) + 1 \in 1..2
          BY <2>2
        <5> QED BY <5>1, <5>2
      <4> QED BY <4>1, <4>2 DEF ToRange
    <3>2. CASE numReplicas # 2
      BY <1>3, <2>3, <3>2 DEF Given, Listed
    <3> QED BY <3>1, <3>2
  <2>5. r \notin ToRange(picked) /\ (Len(Listed) >= 4 => r \notin ToRange(shards))
    BY <2>1, <2>3 DEF Exclude
  <2>6. Len(Listed) = 2 /\ Len(picked) = 0 => r = Listed[1]
    BY <2>1, <2>3, SMTT(30) DEF Given, Listed
  <2> QED BY <1>3, <2>4, <2>5, <2>6, Zenon
<1>5. r \in 0..MaxHash /\ picked \in Seq(0..MaxHash) /\ Len(picked) \in Nat /\ Len(picked) <= 1
  BY <1>2, <1>4, BudgetFacts DEF ShIInv, ShTypeOK, PickedApart
<1>6. ToRange(picked') = ToRange(picked) \cup {r}
  <2> DEFINE T == 0..MaxHash
  <2>1. picked \in Seq(T) /\ r \in T
    BY <1>5
  <2> HIDE DEF T
  <2>2. ToRange(Append(picked, r)) = ToRange(picked) \cup {r}
    BY <2>1, AppendRange
  <2> QED BY <1>1, <2>2, Zenon
<1>7. ShTypeOK'
  BY <1>1, <1>2, <1>5, SMTT(30) DEF ShIInv, ShTypeOK, Configured
<1>8. KeptLeast'
  BY <1>2 DEF ShIInv, KeptLeast, Configured
<1>9. picking' = "done" => Len(picked') = 2 /\ picked'[1] # picked'[2]
  <2> SUFFICES ASSUME picking' = "done" PROVE Len(picked') = 2 /\ picked'[1] # picked'[2]
    OBVIOUS
  <2>1. Len(picked') = Len(picked) + 1
    BY <1>1, <1>5
  <2>2. ~(Len(picked') < 2)
    BY <1>2
  <2>3. Len(picked) \in Nat /\ Len(picked) <= 1
    BY <1>5
  <2>4. Len(picked) = 1
    BY <2>1, <2>2, <2>3
  <2>5. Len(picked) = 1 /\ Len(picked') = 2
    BY <2>1, <2>4
  <2>6. picked'[2] = r /\ picked'[1] = picked[1]
    BY <1>1, <1>5, <2>5
  <2>7. picked[1] \in ToRange(picked)
    BY <1>5, <2>5 DEF ToRange
  <2> QED BY <1>4, <2>5, <2>6, <2>7
<1>10. picking' = "pick" => Len(picked') <= 1
  BY <1>1, <1>2, <1>5
<1>11. picking' = "pick" /\ Len(Listed) = 2 /\ Len(picked') = 1 => picked'[1] = Listed[1]
  <2> SUFFICES ASSUME Len(Listed) = 2, Len(picked') = 1 PROVE picked'[1] = Listed[1]
    OBVIOUS
  <2>1. Len(picked) = 0 /\ picked'[1] = r
    BY <1>1, <1>5, SMTT(30)
  <2> QED BY <1>4, <2>1
<1>12. PickedApart'
  <2>1. picking' \in {"pick", "done", "failed"}
    BY <1>2, Zenon
  <2>2. /\ scanned = Len(Configured) /\ Len(Configured) >= 2 /\ shards = Online(kept, ToRange(Listed)) /\ shards # <<>>
        /\ ToRange(picked) \subseteq ToRange(Listed)
        /\ Len(Listed) >= 4 => {kept[1], kept[2]} \cap ToRange(picked) = {}
    BY <1>2, SMTT(30) DEF ShIInv, PickedApart
  <2>3. /\ ToRange(picked') \subseteq ToRange(Listed)
        /\ Len(Listed) >= 4 => {kept[1], kept[2]} \cap ToRange(picked') = {}
    BY <1>4, <1>6, <2>2
  <2> QED BY <1>2, <1>9, <1>10, <1>11, <2>1, <2>2, <2>3 DEF PickedApart, Configured, Listed
<1> QED BY <1>7, <1>8, <1>12 DEF ShIInv

\* Every step keeps the invariant.
LEMMA ShNextIInv == ShIInv /\ [ShNext]_shVars => ShIInv'
<1> SUFFICES ASSUME ShIInv, [ShNext]_shVars PROVE ShIInv'
  OBVIOUS
<1> USE DEF ShIInv
<1>1. CASE GetConfiguredReplicaKeys
  <2>1. ShTypeOK' /\ KeptLeast'
    BY <1>1, Zenon DEF GetConfiguredReplicaKeys, ShTypeOK, KeptLeast, Configured
  <2>2. PickedApart'
    BY <1>1, BudgetFacts DEF GetConfiguredReplicaKeys, PickedApart, Configured, Listed, K
  <2> QED BY <2>1, <2>2
<1>2. CASE Shard2
  <2>1. KeptLeast' /\ kept' \in (0..MaxHash) \X (0..MaxHash)
    BY <1>2, Shard2Keeps, Zenon
  <2>2. ShTypeOK'
    BY <1>2, <2>1, BudgetFacts, SMTT(30) DEF Shard2, ShTypeOK, Configured
  <2>3. PickedApart'
    BY <1>2, Zenon DEF Shard2, PickedApart, Configured, Listed
  <2> QED BY <2>1, <2>2, <2>3
<1>3. CASE GetShards
  <2>1. ShTypeOK'
    BY <1>3, Zenon DEF GetShards, ShTypeOK, Configured
  <2>2. KeptLeast'
    BY <1>3, Zenon DEF GetShards, KeptLeast, Configured
  <2>3. picked' = <<>> /\ ToRange(picked') = {} /\ Len(picked') = 0
    BY <1>3, SMTT(30) DEF GetShards, PickedApart, ToRange
  <2>4. PickedApart'
    BY <1>3, <2>3 DEF GetShards, PickedApart, Configured, Listed
  <2> QED BY <2>1, <2>2, <2>4
<1>4. CASE PickRandomReplicaID
  BY <1>4, PickKeeps, Zenon
<1>5. CASE TooFewReplicas
  BY <1>5, Zenon DEF TooFewReplicas, ShTypeOK, KeptLeast, PickedApart, Configured, Listed
<1>6. CASE UNCHANGED shVars
  BY <1>6, ZenonT(30) DEF shVars, ShTypeOK, KeptLeast, PickedApart, Configured, Listed
<1> QED BY <1>1, <1>2, <1>3, <1>4, <1>5, <1>6 DEF ShNext

\* The strengthened invariant of the whole walk.
THEOREM ShInvariant == ShSpec => []ShIInv
BY ShInitIInv, ShNextIInv, PTL DEF ShSpec

\* Shard2 agrees with Shard for any replicas in any order, and GetShards returns those online.
THEOREM ShardsCorrect == ShSpec => []ShardsAreSmallest
<1>1. ShIInv => ShardsAreSmallest
  BY KeptIsShard DEF ShIInv, PickedApart, ShardsAreSmallest, Configured, Listed
<1> QED BY <1>1, ShInvariant, PTL

\* pickRandomReplicaID can always return, with any replicas offline.
THEOREM DrawsEnd == ShSpec => []DrawEnds
<1>1. ShIInv => DrawEnds
  BY CandidatesLeft, SMTT(30) DEF ShIInv, DrawEnds
<1> QED BY <1>1, ShInvariant, PTL

\* GetRandomIntermediateReplicas returns two different online replicas that, with four or more
\* online, are none of the box's shards.
THEOREM IntermediatesCorrect == ShSpec => []IntermediatesApart
<1>1. ShIInv => IntermediatesApart
  BY KeptIsShard DEF ShIInv, PickedApart, IntermediatesApart, Configured, Listed
<1> QED BY <1>1, ShInvariant, PTL

\* What Sharding promises as a whole (Shard2, GetShards, GetRandomIntermediateReplicas).
THEOREM ShardingCorrect == ShSpec => []ShardingSound
BY ShardsCorrect, DrawsEnd, IntermediatesCorrect, PTL DEF ShardingSound
=============================================================================
