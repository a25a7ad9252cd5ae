------------------------------ MODULE MCStorage ------------------------------
(***************************************************************************)
(* The storage side of the network, model-checked together: the courier,   *)
(* the replicas' network, and the nodes' PKI workers.  They share no       *)
(* state, so a behaviour gives work to one of them.                        *)
(***************************************************************************)
EXTENDS Courier, ReplicaNet, NodePKI, TLC
CONSTANTS e1, e2, k1, k2, c1, c2,
          rp, rq, w1, w2, w3, t1, r1, r2, b1, b2, b3,
          a1, a2

(* the courier *)
\* One stream has two envelopes in its only box, the other has a box too many.
TwoStreams == k1 :> << <<c1, c2>> >> @@ k2 :> << <<>>, <<>> >>
InOrder == [i \in 0..1 |-> i]
Reversed == [i \in 0..1 |-> 1 - i]
BothWays == [h \in {e1, c1, c2} |-> InOrder] @@ [h \in {e2} |-> Reversed]
LastAndNext == e1 :> 0 @@ e2 :> 2

Budget(queries, polls, troubles, clock) ==
    [queries |-> queries, polls |-> polls, troubles |-> troubles, clock |-> clock]
EnvelopeRuns == {Budget(2, 0, 1, 1), Budget(3, 0, 1, 0), Budget(2, 0, 2, 0)}
CopyRuns == {Budget(0, 2, 1, 0), Budget(0, 2, 0, 1)}
NoQueries == Budget(0, 0, 0, 0)
Clients == EnvelopeRuns \cup CopyRuns \cup {NoQueries}

(* the replicas' network *)
MCBoxOf == w1 :> b1 @@ w2 :> b2 @@ w3 :> b3 @@ t1 :> b1
MCShardPeer == [c \in {w1, w2, t1, r1, r2} |-> rp] @@ [c \in {w3} |-> rq]
Load(commands, members, faults, changes) ==
    [commands |-> commands, members |-> members, faults |-> faults, changes |-> changes]
NoLoad == Load({}, {}, 0, 0)
\* A membership change with a failure; a tombstone behind its write with a short
\* queue; repeated failures; two peers; a peer that joins late, or leaves.
Loads == {Load({w1}, {rp}, 1, 2), Load({w1, w2, t1}, {rp}, 1, 0), Load({w1, t1}, {rp}, 2, 0),
          Load({r1}, {rp}, 3, 0), Load({w1, w3}, {rp, rq}, 1, 0), Load({w1, w2, t1}, {}, 0, 1),
          Load({w1, w2}, {rp}, 0, 1), Load({r2, w1}, {rp}, 0, 1), NoLoad}

(* the PKI workers *)
Node(kind, from, until, faults, restarts) ==
    [role |-> kind, from |-> FirstEpoch * Phases + from, until |-> FirstEpoch * Phases + until,
     faults |-> faults, restarts |-> restarts]
NoNode == Node("none", 0, 0, 0, 0)
\* A mix that restarts, and one that lives into the next epoch; replicas that
\* fail to reach the authorities, see two weeks pass, or crash twice; a courier.
Nodes == {Node("mix", 0, 6, 1, 1), Node("mix", 0, 7, 1, 0), Node("replica", 0, 5, 1, 1),
          Node("replica", 1, 16, 0, 0), Node("replica", 1, 6, 0, 2), Node("courier", 0, 5, 2, 0), NoNode}

Working == (IF courierBudget = NoQueries THEN 0 ELSE 1) + (IF netBudget = NoLoad THEN 0 ELSE 1)
             + (IF pkiBudget = NoNode THEN 0 ELSE 1)
StorageInit == CourierInit /\ NetInit /\ PKIInit /\ Working = 1
StorageNext == \/ CourierNext /\ UNCHANGED <<netVars, pkiVars>>
               \/ NetNext /\ UNCHANGED <<courierVars, pkiVars>>
               \/ PKINext /\ UNCHANGED <<courierVars, netVars>>
StorageSpec == StorageInit /\ [][StorageNext]_<<courierVars, netVars, pkiVars>>
=============================================================================
