------------------------------- MODULE MCTraffic -------------------------------
(***************************************************************************)
(* The parts that carry traffic, side by side: the packet pipeline, the    *)
(* gateway, the service node, the decoy loops, the listeners and the life  *)
(* cycle of a mix server, the connection and thin client library of the    *)
(* client, the topology with its routes, the shards of a box and the copy  *)
(* streams.  Each has its own workloads; in one behaviour one of them      *)
(* works and the others rest.                                              *)
(***************************************************************************)
EXTENDS MixPacket, GatewaySpool, ClientConn, MixService, MixDecoy, Listeners, ServerLifecycle, ThinClient,
        Topology, Sharding, CopyStream, TLC

CONSTANTS n1, n2, s1, s2, w1, echo, plugin, peer1, peer2, sphinx1, sphinx2, app1, app2

VARIABLE focus      \* the component that works

----------------------------------------------------------------------------
(* The packets of the pipeline and its workloads. *)

MCPkt(src, kind, epoch, tag, hop, delay) ==
    [src |-> src, kind |-> kind, epoch |-> epoch, tag |-> tag, hop |-> hop, delay |-> delay]
MCPacket == <<MCPkt("mix", "forward", 1, 1, n1, 2), MCPkt("mix", "forward", 1, 1, n1, 2),
              MCPkt("client", "forward", 1, 3, n1, 0), MCPkt("reply", "forward", 1, 4, n1, 1),
              MCPkt("mix", "user", 1, 5, n1, 0), MCPkt("decoy", "forward", 1, 6, n1, 0),
              MCPkt("mix", "forward", 2, 7, n2, 1), MCPkt("retrieve", "forward", 1, 8, n1, 1),
              MCPkt("mix", "malformed", 1, 9, n1, 1), MCPkt("mix", "decoyReply", 1, 10, n1, 0),
              MCPkt("mix", "forward", 1, 11, n1, 9)>>
MCOne == [n \in {n1, n2} |-> IF n = n1 THEN "yes" ELSE "no"]
MCBoth == [n \in {n1, n2} |-> "yes"]
MCMixLoad(role, store, arrive, from, until, lst, rot, moves, faults, mds, halts) ==
    [role |-> role, queue |-> store, arrive |-> arrive, all |-> arrive, from |-> from, until |-> until,
     listed |-> lst, rotations |-> rot, moves |-> moves, faults |-> faults, maxDelays |-> mds,
     halts |-> halts, closing |-> FALSE]
NoMix == MCMixLoad("mix", "mem", {}, 4, 4, MCOne, 0, 0, 0, {}, FALSE)
MCMixBudgets ==
    {NoMix,
     MCMixLoad("mix", "bolt", {1, 3}, 4, 7, MCOne, 0, 0, 0, {}, FALSE),
     MCMixLoad("mix", "bolt", {1, 3, 4}, 5, 6, MCOne, 0, 0, 0, {}, FALSE),
     MCMixLoad("mix", "mem", {1, 2}, 6, 8, MCOne, 1, 0, 0, {}, FALSE),
     MCMixLoad("mix", "mem", {1, 4}, 5, 7, MCOne, 0, 0, 1, {}, FALSE),
     MCMixLoad("gateway", "mem", {3, 5}, 5, 6, MCOne, 0, 1, 1, {}, TRUE),
     MCMixLoad("mix", "bolt", {4, 7}, 5, 8, MCBoth, 0, 0, 0, {}, FALSE),
     MCMixLoad("service", "mem", {1, 5, 8, 9}, 4, 5, MCOne, 0, 0, 0, {}, FALSE),
     MCMixLoad("mix", "mem", {10, 11}, 4, 5, MCOne, 0, 0, 0, {0, 1}, FALSE),
     MCMixLoad("mix", "mem", {6}, 4, 5, MCOne, 0, 3, 1, {}, TRUE)}

----------------------------------------------------------------------------
(* The gateway's clients and streams. *)

MCIt(to, kind) == [to |-> to, kind |-> kind]
MCItem == <<MCIt(1, "message"), MCIt(1, "surb"), MCIt(1, "surb"), MCIt(9, "surb"), MCIt(9, "surb"),
            MCIt(2, "message"), MCIt(2, "malformed")>>
MCStreams == [s1 |-> [to |-> 9, mode |-> "wait"], s2 |-> [to |-> 9, mode |-> "receive"],
              s3 |-> [to |-> 9, mode |-> "wait"]]
MCLimit(i, b) == [incr |-> i, burst |-> b]
MCGwLoad(arrive, late, clients, fetches, breaks, sweeps, streams, timeouts, packets, until, lim, new) ==
    [arrive |-> arrive, late |-> late, clients |-> clients, fetches |-> fetches, breaks |-> breaks,
     sweeps |-> sweeps, streams |-> streams, timeouts |-> timeouts, packets |-> packets, until |-> until,
     limits |-> lim, newLimits |-> new]
NoGw == MCGwLoad({}, 0, {}, 0, 0, 0, {}, 0, 0, 0, MCLimit(0, 0), {})
MCGwBudgets ==
    {NoGw,
     MCGwLoad({1, 2, 3}, 0, {1}, 5, 1, 0, {}, 0, 0, 0, MCLimit(0, 0), {}),
     MCGwLoad({1, 2, 6}, 0, {1, 2}, 3, 1, 1, {}, 0, 0, 0, MCLimit(0, 0), {}),
     MCGwLoad({4, 5}, 0, {}, 0, 0, 1, {"s1", "s2", "s3"}, 2, 0, 0, MCLimit(0, 0), {}),
     MCGwLoad({}, 0, {1}, 0, 0, 0, {}, 0, 5, 5, MCLimit(2, 2), {MCLimit(1, 1), MCLimit(0, 2), MCLimit(2, 0)}),
     MCGwLoad({2, 7}, 1, {1}, 1, 1, 0, {}, 0, 0, 0, MCLimit(0, 0), {})}

----------------------------------------------------------------------------
(* The client's connection. *)

MCClLoad(sends, waits, turns, dials, breaks, until, answers, halts) ==
    [sends |-> sends, waits |-> waits, turns |-> turns, dials |-> dials, breaks |-> breaks, until |-> until,
     answers |-> answers, halts |-> halts]
NoCl == MCClLoad(0, 0, 0, 0, 0, 1, {}, FALSE)
MCClBudgets ==
    {NoCl,
     MCClLoad(2, 0, 1, 2, 2, 1, {"ok"}, FALSE),
     MCClLoad(0, 1, 2, 1, 1, 2, {"ok", "gone"}, FALSE),
     MCClLoad(1, 0, 1, 1, 1, 1, {"ok", "notFound"}, TRUE),
     MCClLoad(0, 1, 1, 2, 1, 1, {"ok"}, FALSE)}

----------------------------------------------------------------------------
(* The service node and the decoy loops. *)

MCReq(to, surbReply, valid, surb) == [to |-> to, surbReply |-> surbReply, valid |-> valid, surb |-> surb]
MCRequest == <<MCReq(echo, FALSE, TRUE, TRUE), MCReq(plugin, FALSE, TRUE, TRUE), MCReq(plugin, FALSE, TRUE, FALSE),
               MCReq(plugin, TRUE, TRUE, FALSE), MCReq(plugin, FALSE, FALSE, TRUE), MCReq(plugin, FALSE, TRUE, TRUE)>>
MCSvcLoad(arrive, late, stops, starts, failures, crashes, closes) ==
    [arrive |-> arrive, late |-> late, stops |-> stops, starts |-> starts, failures |-> failures,
     crashes |-> crashes, closes |-> closes]
NoSvc == MCSvcLoad({}, FALSE, 0, 0, 0, 0, 0)
MCSvcBudgets ==
    {NoSvc,
     MCSvcLoad({1, 2, 4, 5}, TRUE, 0, 1, 0, 0, 0),
     MCSvcLoad({2, 3}, FALSE, 1, 2, 1, 0, 1),
     MCSvcLoad({2, 3, 6}, FALSE, 0, 2, 0, 1, 0),
     MCSvcLoad({1}, FALSE, 1, 1, 0, 0, 0)}

MCLoop == <<[segments |-> {"a", "b"}, eta |-> 1, decrypts |-> TRUE], [segments |-> {"b"}, eta |-> 2, decrypts |-> TRUE],
            [segments |-> {"a"}, eta |-> 0, decrypts |-> FALSE]>>
NoDecoy == [until |-> 1, loops |-> {}, replies |-> 0]
MCDecoyBudgets ==
    {NoDecoy, [until |-> 5, loops |-> {1, 2}, replies |-> 3], [until |-> 4, loops |-> {1, 3}, replies |-> 2]}

----------------------------------------------------------------------------
(* The listeners, the life cycle and the thin client. *)

MCConnPeer == <<peer1, peer1, peer1, peer2>>
MCListenLoad(kind, accepts, leaves, delists, halts) ==
    [kind |-> kind, accepts |-> accepts, leaves |-> leaves, delists |-> delists, halts |-> halts]
NoListen == MCListenLoad("mix", 0, 0, 0, FALSE)
MCListenBudgets ==
    {NoListen} \cup {MCListenLoad(k, 4, 0, 0, FALSE) : k \in {"mix", "replica"}}
               \cup {MCListenLoad(k, 3, 0, 1, FALSE) : k \in {"mix", "replica"}}
               \cup {MCListenLoad(k, 3, 2, 0, TRUE) : k \in {"mix", "replica"}}

MCSphinx == <<sphinx1, sphinx2>>
MCRoles == {"mix", "gateway", "service"}
MCLifeLoad(role, failsAt, packets, documents, sends) ==
    [role |-> role, failsAt |-> failsAt, packets |-> packets, documents |-> documents, sends |-> sends]
NoLife == MCLifeLoad("mix", "mixKeys", 0, 0, 0)
MCLifeBudgets ==
    {NoLife} \cup {MCLifeLoad(r, "none", 2, 1, 1) : r \in MCRoles}
             \cup {MCLifeLoad(r, f, 0, 0, 0) : r \in MCRoles,
                   f \in {"pki", "gateway", "service", "scheduler", "decoy", "listeners"}}

MCThinLoad(first, second, news, breaks, restarts, halts) ==
    [calls |-> (app1 :> first @@ app2 :> second), target |-> app1, news |-> news, breaks |-> breaks,
     restarts |-> restarts, halts |-> halts]
NoThin == MCThinLoad("none", "none", 0, 0, 0, 0)
MCThinBudgets ==
    {NoThin} \cup {MCThinLoad(k, "none", 1, 0, 0, 0) : k \in Queries}
             \cup {MCThinLoad(k, "none", 0, 1, 1, 0) : k \in Resends}
             \cup {MCThinLoad("NewKeypair", "EncryptRead", 1, 0, 0, 0),
                   MCThinLoad("StartResendingEncryptedMessage", "none", 0, 1, 2, 0),
                   MCThinLoad("StartResendingEncryptedMessage", "CancelResendingEncryptedMessage", 1, 0, 0, 0),
                   MCThinLoad("StartResendingEncryptedMessage", "CancelResendingEncryptedMessage", 0, 0, 1, 0),
                   MCThinLoad("StartResendingCopyCommand", "CancelResendingCopyCommand", 0, 1, 0, 0),
                   MCThinLoad("BlockingSendMessage", "none", 2, 1, 0, 1)}

----------------------------------------------------------------------------
(* The mixes that upload, epoch by epoch, and the sources of routes. *)

MCTopoLoad(layers, fixed, lst, shuffles, misses, sources, delays, until) ==
    [layers |-> layers, fixed |-> fixed, listed |-> lst, shuffles |-> shuffles, misses |-> misses,
     sources |-> sources, delays |-> delays, until |-> until]
NoTopo == MCTopoLoad(1, <<>>, <<>>, {}, {}, {}, {}, 0)
MCOrders == {<<1, 2, 3, 4, 5>>, <<3, 1, 5, 2, 4>>}
MCTopoBudgets ==
    {NoTopo,
     MCTopoLoad(2, <<>>, <<{1, 2, 3}, {1, 2, 3, 4, 5}, {2, 4, 5}, {1}>>, MCOrders, {1, 3}, {}, {}, 4),
     MCTopoLoad(3, <<>>, <<{1, 2, 3, 4, 5}, {2, 3, 5}, {1, 2, 4, 5}>>, MCOrders, {2}, {}, {}, 4),
     MCTopoLoad(2, <<<<1, 3>>, <<2>>>>, <<{1, 2, 3}, {2, 3, 4}, {2}>>, {<<1, 2, 3, 4, 5>>}, {}, {Gateway}, {0}, 5),
     MCTopoLoad(2, <<>>, <<{1, 2}, {1, 2}>>, {<<1, 2>>, <<2, 1>>}, {1, 2}, {TheClient}, {0, 3}, 5),
     MCTopoLoad(2, <<>>, <<{1, 2, 3}, {1, 2, 3}>>, MCOrders, {}, {1, Service}, {0, 3}, 6)}

----------------------------------------------------------------------------
(* The replicas of a box, and the calls that make a copy stream. *)

MCShLoad(configured, online, keyed) == [configured |-> configured, online |-> online, keyed |-> keyed]
MCPermutations(S) == {s \in [1..Cardinality(S) -> S] : \A i, j \in DOMAIN s : i # j => s[i] # s[j]}
MCListed(s, on) == MCShLoad(s, SelectSeq(s, LAMBDA r : r \in on), on)
NoSh == MCShLoad(<<>>, <<>>, {})
MCShBudgets ==
    {NoSh, MCShLoad(<<1>>, <<1>>, {1}), MCShLoad(<<2, 1, 3>>, <<3, 2, 1>>, {1, 3}), MCShLoad(<<2, 1, 3>>, <<3, 1>>, {1, 3}),
     MCListed([i \in 1..256 |-> (i * 37) % 256], 0..255)}
        \cup {MCListed(s, on) : s \in MCPermutations(1..4), on \in SUBSET (1..4)}
        \cup {MCListed(<<3, 5, 1, 4, 2>>, on) : on \in SUBSET (1..5)}

MCCsLoad(size, envelope, calls, counts, kinds) ==
    [box |-> size, envelope |-> envelope, calls |-> calls, counts |-> counts, kinds |-> kinds]
NoCs == MCCsLoad(0, 0, 0, {}, {})
MCCsBudgets ==
    {NoCs} \cup {MCCsLoad(size, 2, 3, {0, 1, 2}, kinds) :
                    size \in {8, 9, 11, 12}, kinds \in {{"payload", "payloads"}, {"payloads", "tombstones"}}}

----------------------------------------------------------------------------
Works(component, budget, none) == (focus = component) <=> (budget # none)

TrafficInit ==
    /\ focus \in {"packets", "gateway", "client", "service", "decoy", "listeners", "life", "thin", "routes", "shards",
                 "copies"}
    /\ MixInit /\ Works("packets", mixBudget, NoMix)
    /\ GwInit /\ Works("gateway", gwBudget, NoGw)
    /\ ClInit /\ Works("client", clBudget, NoCl)
    /\ SvcInit /\ Works("service", svcBudget, NoSvc)
    /\ DecoyInit /\ Works("decoy", decoyBudget, NoDecoy)
    /\ ListenInit /\ Works("listeners", listenBudget, NoListen)
    /\ LifeInit /\ Works("life", lifeBudget, NoLife)
    /\ ThinInit /\ Works("thin", thinBudget, NoThin)
    /\ TopoInit /\ Works("routes", routeBudget, NoTopo)
    /\ ShInit /\ Works("shards", shBudget, NoSh)
    /\ CsInit /\ Works("copies", csBudget, NoCs)

TrafficNext ==
    \/ focus = "packets" /\ MixNext
          /\ UNCHANGED <<focus, gwVars, clVars, svcVars, decoyVars, listenVars, lifeVars, thinVars, topoVars, shVars, csVars>>
    \/ focus = "gateway" /\ GwNext
          /\ UNCHANGED <<focus, mixVars, clVars, svcVars, decoyVars, listenVars, lifeVars, thinVars, topoVars, shVars, csVars>>
    \/ focus = "client" /\ ClNext
          /\ UNCHANGED <<focus, mixVars, gwVars, svcVars, decoyVars, listenVars, lifeVars, thinVars, topoVars, shVars, csVars>>
    \/ focus = "service" /\ SvcNext
          /\ UNCHANGED <<focus, mixVars, gwVars, clVars, decoyVars, listenVars, lifeVars, thinVars, topoVars, shVars, csVars>>
    \/ focus = "decoy" /\ DecoyNext
          /\ UNCHANGED <<focus, mixVars, gwVars, clVars, svcVars, listenVars, lifeVars, thinVars, topoVars, shVars, csVars>>
    \/ focus = "listeners" /\ ListenNext
          /\ UNCHANGED <<focus, mixVars, gwVars, clVars, svcVars, decoyVars, lifeVars, thinVars, topoVars, shVars, csVars>>
    \/ focus = "life" /\ LifeNext
          /\ UNCHANGED <<focus, mixVars, gwVars, clVars, svcVars, decoyVars, listenVars, thinVars, topoVars, shVars, csVars>>
    \/ focus = "thin" /\ ThinNext
          /\ UNCHANGED <<focus, mixVars, gwVars, clVars, svcVars, decoyVars, listenVars, lifeVars, topoVars, shVars, csVars>>
    \/ focus = "routes" /\ TopoNext
          /\ UNCHANGED <<focus, mixVars, gwVars, clVars, svcVars, decoyVars, listenVars, lifeVars, thinVars, shVars, csVars>>
    \/ focus = "shards" /\ ShNext
          /\ UNCHANGED <<focus, mixVars, gwVars, clVars, svcVars, decoyVars, listenVars, lifeVars, thinVars, topoVars, csVars>>
    \/ focus = "copies" /\ CsNext
          /\ UNCHANGED <<focus, mixVars, gwVars, clVars, svcVars, decoyVars, listenVars, lifeVars, thinVars, topoVars, shVars>>

trafficVars == <<focus, mixVars, gwVars, clVars, svcVars, decoyVars, listenVars, lifeVars, thinVars, topoVars, shVars, csVars>>
TrafficSpec == TrafficInit /\ [][TrafficNext]_trafficVars
=============================================================================
