------------------------------- MODULE Topology -------------------------------
(***************************************************************************)
(* The layered topology and the routes through it.  Every epoch each       *)
(* authority assigns the tallied mixes to layers (authority/voting/server/ *)
(* state.go), starting from the previous document if it has it; nodes      *)
(* derive from the published documents whom they accept and dial           *)
(* (pkicache, AuthenticateConnection); clients and decoys pick one mix of  *)
(* every layer and a key for every hop (core/sphinx/path).                 *)
(*                                                                         *)
(* Mixes are numbers in the order of their public keys.  Votes, shared     *)
(* randomness and signatures are those of Voting: here an authority is     *)
(* given the tally and the shared random value.  All Perm calls that one   *)
(* value seeds follow the order of one permutation.                        *)
(***************************************************************************)
EXTENDS Integers, Sequences, FiniteSets, TLC
LOCAL INSTANCE SequencesExt

CONSTANTS
    RouteAuthorities,   \* 1..n
    RouteThreshold,
    Gateway, Service,   \* numbers that are no mix's
    RoutePeriod,        \* ticks of an epoch
    RouteKeys,          \* NumMixKeys
    MaxAttempts,        \* of path.New
    MaxPathAttempts,    \* of ComposeSphinxPacket and sendLoopPacket
    RouteBudgets        \* layers, listed mixes by epoch, shuffles, and routes

ASSUME RouteAssumption == RouteKeys >= 1 /\ RoutePeriod >= 1

VARIABLES
    routeBudget,
    routeClock,     \* in ticks; epoch 0 is the first
    published,      \* published[e]: the topology of epoch e's document, <<>> if there is none
    drafts,         \* what every authority made for the coming epoch: [from, topology]
    hasPrior,       \* the authorities that hold the newest document
    route           \* the route under construction, or the last one built

topoVars == <<routeBudget, routeClock, published, drafts, hasPrior, route>>

LayerGateway == 255
LayerService == 254
NoDraft == [from |-> "none", topology |-> <<>>]
TheClient == 0
NoRoute == [at |-> "none", self |-> -1, doc |-> 0, start |-> 0, then |-> 0, hops |-> <<>>,
            keys |-> <<>>, tries |-> 0, rolls |-> 0, missing |-> <<>>]

EpochAt(t) == t \div RoutePeriod
NextVote == Len(published) + 1
MixesOf(layer) == {layer[i] : i \in DOMAIN layer}
AllMixes(topology) == UNION {MixesOf(topology[l]) : l \in DOMAIN topology}

TopoInit ==
    /\ routeBudget \in RouteBudgets
    /\ routeClock = 0 /\ published = <<>> /\ hasPrior = {}
    /\ drafts = [a \in RouteAuthorities |-> NoDraft] /\ route = NoRoute

----------------------------------------------------------------------------
(* The authorities. *)

\* The order in which a Go map of mixes is ranged over differs between processes.
RangeOver(S, a) == IF a = 1 THEN SetToSortSeq(S, <) ELSE SetToSortSeq(S, >)

Bug_SortNodesByPublicKey(nodes) == nodes
SortNodesByPublicKey(nodes) == SortSeq(nodes, <)

\* rng.Perm: the order a shuffle gives to the indexes of a sequence.
Perm(nodes, srv) == LET order == SelectSeq(srv, LAMBDA i : i <= Len(nodes))
                    IN  [i \in DOMAIN nodes |-> nodes[order[i]]]

\* Every Layers-th of the nodes goes to the same layer.
RoundRobin(nodes, layers) ==
    [l \in 1..layers |-> [k \in 1..Cardinality({i \in DOMAIN nodes : i % layers = l % layers}) |->
                             nodes[(k - 1) * layers + l]]]

GenerateRandomTopology(nodes, srv, layers) == RoundRobin(Perm(nodes, srv), layers)

\* Of a layer of the previous document, the mixes that are still listed, up to the target size.
StillListed(layer, listed, srv, target) ==
    LET s == SelectSeq(Perm(layer, srv), LAMBDA n : n \in listed)
    IN  SubSeq(s, 1, IF Len(s) < target THEN Len(s) ELSE target)

\* How many pending mixes the layers before l take to reach the target.
FillFrom(stay, target, l) ==
    FoldSeq(LAMBDA s, n : n + target - Len(s), 0, SubSeq(stay, 1, l - 1))

\* generateTopology: keep, fill every layer up to the target, deal out the remaining mixes.
GenerateTopology(nodes, prior, srv, layers, a) ==
    LET listed  == MixesOf(nodes)
        target  == Len(nodes) \div layers
        stay    == [l \in 1..layers |-> StillListed(prior[l], listed, srv, target)]
        pending == Perm(SortNodesByPublicKey(RangeOver(listed \ AllMixes(stay), a)), srv)
        filled  == FillFrom(stay, target, layers + 1)
        rest    == RoundRobin(SubSeq(pending, filled + 1, Len(pending)), layers)
    IN  [l \in 1..layers |->
            stay[l] \o SubSeq(pending, FillFrom(stay, target, l) + 1,
                                       FillFrom(stay, target, l) + target - Len(stay[l])) \o rest[l]]

\* generateFixedTopology: the configured layers, without the mixes that did not upload.
GenerateFixedTopology(nodes, config) ==
    [l \in DOMAIN config |-> SelectSeq(config[l], LAMBDA n : n \in MixesOf(nodes))]

\* getDocument, as far as the topology goes.  The shared random value hashes in the previous
\* document's, so an authority without it shuffles differently.
MakeDraft(a, listed, srv) ==
    LET nodes == SortNodesByPublicKey(RangeOver(listed, a))
    IN  CASE routeBudget.fixed # <<>> ->
               [from |-> "config", topology |-> GenerateFixedTopology(nodes, routeBudget.fixed)]
          [] routeBudget.fixed = <<>> /\ a \in hasPrior ->
               [from |-> "prior", topology |-> GenerateTopology(nodes, published[Len(published)], srv,
                                                                routeBudget.layers, a)]
          [] OTHER ->
               [from |-> "random", topology |-> GenerateRandomTopology(nodes, Reverse(srv), routeBudget.layers)]

\* The vote for the coming epoch, once an epoch, with the mixes that uploaded a descriptor.
GenerateDocuments(srv) ==
    /\ NextVote = EpochAt(routeClock) + 1 /\ NextVote <= Len(routeBudget.listed)
    /\ drafts = [a \in RouteAuthorities |-> NoDraft]
    /\ drafts' = [a \in RouteAuthorities |-> MakeDraft(a, routeBudget.listed[NextVote], srv)]
    /\ UNCHANGED <<routeBudget, routeClock, published, hasPrior, route>>

\* A document nobody can use is malformed.
WellFormed(topology) == topology # <<>> /\ \A l \in DOMAIN topology : topology[l] # <<>>

\* A threshold of equal documents is the consensus.  Authorities that made another one, or went
\* down meanwhile, fetch it in the background, or do not.
Publishes(missing) ==
    /\ drafts # [a \in RouteAuthorities |-> NoDraft] /\ missing \subseteq routeBudget.misses
    /\ LET made  == {drafts[a].topology : a \in RouteAuthorities}
           agree(t) == Cardinality({a \in RouteAuthorities : drafts[a].topology = t}) >= RouteThreshold
           good  == {t \in made : WellFormed(t) /\ agree(t)}
       IN  IF good = {} THEN published' = Append(published, <<>>) /\ hasPrior' = {}
                        ELSE /\ published' = Append(published, CHOOSE t \in good : TRUE)
                             /\ hasPrior' = RouteAuthorities \ missing
    /\ drafts' = [a \in RouteAuthorities |-> NoDraft]
    /\ UNCHANGED <<routeBudget, routeClock, route>>

RouteTick ==
    /\ routeClock < routeBudget.until
    /\ routeClock' = routeClock + 1
    /\ EpochAt(routeClock') # EpochAt(routeClock) =>
          NextVote > EpochAt(routeClock') \/ NextVote > Len(routeBudget.listed)
    /\ UNCHANGED <<routeBudget, published, drafts, hasPrior, route>>

----------------------------------------------------------------------------
(* The nodes. *)

HasDocument(e) == e \in DOMAIN published /\ published[e] # <<>>
IsListed(n, e) == HasDocument(e) /\ n \in {Gateway, Service} \cup AllMixes(published[e])

GetMixLayer(n, topology) ==
    CASE n = Gateway -> LayerGateway
      [] n = Service -> LayerService
      [] OTHER -> (CHOOSE l \in DOMAIN topology : n \in MixesOf(topology[l])) - 1

\* The layers that connect to a node, and the ones it connects to.
IncomingLayer(n, topology) ==
    LET layer == GetMixLayer(n, topology)
    IN  CASE layer \in {LayerGateway, LayerService} -> {Len(topology) - 1}
          [] layer = 0 -> {LayerGateway, LayerService}
          [] OTHER -> {layer - 1}

OutgoingLayer(n, topology) ==
    LET layer == GetMixLayer(n, topology)
    IN  CASE layer = Len(topology) - 1 -> {LayerService, LayerGateway}
          [] layer \in {LayerGateway, LayerService} -> {0}
          [] OTHER -> {layer + 1}

\* appendMap
NodesIn(layers, topology) ==
    UNION {CASE l = LayerGateway -> {Gateway}
             [] l = LayerService -> {Service}
             [] OTHER -> MixesOf(topology[l + 1]) : l \in layers}

Peers(self, e, isOutgoing) ==
    NodesIn(IF isOutgoing THEN OutgoingLayer(self, published[e]) ELSE IncomingLayer(self, published[e]), published[e])

Bug_CanSend(self, peer, isOutgoing, now) ==
    IsListed(self, now) /\ peer \in Peers(self, now, isOutgoing)

\* AuthenticateConnection lets a node send: the peer is on the right side of it in the document of
\* the current epoch, or in one whose mix keys are still valid if the current one lists it as well.
CanSend(self, peer, isOutgoing, now) ==
    \E e \in (now - RouteKeys + 1)..now :
        /\ IsListed(self, e) /\ peer \in Peers(self, e, isOutgoing)
        /\ e = now \/ (IsListed(self, now) /\ IsListed(peer, now))

----------------------------------------------------------------------------
(* The routes. *)

\* selectHops: one mix of every layer on the way, from the source (which a client's packet visits,
\* and a decoy's or a reply does not) to the destination.
SelectHops(topology, src, dst, fromClient, forward) ==
    LET srcLayer == GetMixLayer(src, topology)
        dstLayer == GetMixLayer(dst, topology)
        start    == IF forward /\ srcLayer \notin {LayerGateway, LayerService} THEN srcLayer + 1 ELSE 0
        end      == IF dstLayer \in {LayerGateway, LayerService} THEN Len(topology) ELSE dstLayer
        through  == SubSeq(topology, start + 1, end)
        picks    == {p \in [DOMAIN through -> AllMixes(topology)] : \A i \in DOMAIN through : p[i] \in MixesOf(through[i])}
    IN  {(IF forward /\ fromClient THEN <<src>> ELSE <<>>) \o p \o <<dst>> : p \in picks}

\* When hop i of a path is reached: the hops before it delay the packet.
ReachedAt(base, delays, i) == FoldSeq(LAMBDA d, t : t + d, base, SubSeq(delays, 1, i - 1))

\* The epochs for which a descriptor in the document of epoch e has a mix key.
MixKeys(e) == e..(e + RouteKeys - 1)

Begin(self, e, rolls) == [NoRoute EXCEPT !.at = "forward", !.self = self, !.doc = e, !.rolls = rolls,
                                         !.start = routeClock, !.then = routeClock]

\* The forward path is followed by the reverse one.  When both are there, a client that sees the
\* epoch end meanwhile starts over, and everybody does when the delays add up to two epochs.
Found(forward, r) ==
    LET redo == \/ r.then - r.start >= 2 * RoutePeriod
                \/ r.self = TheClient /\ EpochAt(routeClock) # EpochAt(r.start)
    IN  route' = CASE forward -> [r EXCEPT !.at = "reverse"]
                   [] ~forward /\ ~redo -> [r EXCEPT !.at = "built"]
                   [] ~forward /\ redo /\ r.rolls + 1 < MaxPathAttempts -> Begin(r.self, r.doc, r.rolls + 1)
                   [] OTHER -> [r EXCEPT !.at = "failed"]

\* path.New.  A hop without a key for the epoch in which it is reached makes it select again, a few
\* times; the last hop of a reply does not delay it.
PathNew(e, src, dst, fromClient, forward) ==
    \E hops \in SelectHops(published[e], src, dst, fromClient, forward) :
    \E delays \in [DOMAIN hops -> routeBudget.delays] :
        LET at(i) == ReachedAt(route.then, delays, i)
            lacks == {i \in DOMAIN hops : EpochAt(at(i)) \notin MixKeys(e)}
            first == CHOOSE i \in lacks : \A j \in lacks : i <= j
        IN  /\ ~forward => delays[Len(hops)] = 0
            /\ IF lacks # {}
               THEN route' = [route EXCEPT !.tries = @ + 1, !.doc = e,
                                           !.missing = <<at(first) - route.start>>,
                                           !.at = IF route.tries + 1 = MaxAttempts THEN "failed" ELSE @]
               ELSE Found(forward, [route EXCEPT !.tries = 0, !.doc = e, !.missing = <<>>,
                                                 !.hops = @ \o hops, !.then = at(Len(hops) + 1),
                                                 !.keys = @ \o [i \in DOMAIN hops |-> EpochAt(at(i))]])

\* The loop of ComposeSphinxPacket, or of sendLoopPacket, is entered.
StartRoute(self) ==
    /\ route = NoRoute /\ self \in routeBudget.sources
    /\ self # TheClient => IsListed(self, EpochAt(routeClock))
    /\ route' = Begin(self, EpochAt(routeClock), 0)
    /\ UNCHANGED <<routeBudget, routeClock, published, drafts, hasPrior>>

\* makePath looks the document up for each path: the one of the current epoch or, as long as the
\* client lacks that, the one before.
ClientDocuments == {e \in {EpochAt(routeClock), EpochAt(routeClock) - 1} : HasDocument(e)}

NoClientDocument ==
    /\ route.self = TheClient /\ route.at \in {"forward", "reverse"}
    /\ route.tries = 0 /\ ClientDocuments = {}
    /\ route' = [route EXCEPT !.at = "failed"]
    /\ UNCHANGED <<routeBudget, routeClock, published, drafts, hasPrior>>

\* ComposeSphinxPacket and ComposeSphinxPacketForQuery: a request from the gateway to the service
\* node, and the SURB for its reply.
ComposeSphinxPacket(e) ==
    /\ route.self = TheClient /\ route.at \in {"forward", "reverse"}
    /\ IF route.tries > 0 THEN e = route.doc
       ELSE e \in ClientDocuments /\ (route.at = "reverse" => e >= route.doc)
    /\ \/ route.at = "forward" /\ PathNew(e, Gateway, Service, TRUE, TRUE)
       \/ route.at = "reverse" /\ PathNew(e, Service, Gateway, TRUE, FALSE)
    /\ UNCHANGED <<routeBudget, routeClock, published, drafts, hasPrior>>

\* sendLoopPacket: a decoy from a node to a service node and back, with one document.
SendLoopPacket ==
    /\ route.self \notin {-1, TheClient} /\ route.at \in {"forward", "reverse"}
    /\ \/ route.at = "forward" /\ PathNew(route.doc, route.self, Service, FALSE, TRUE)
       \/ route.at = "reverse" /\ PathNew(route.doc, Service, route.self, FALSE, FALSE)
    /\ UNCHANGED <<routeBudget, routeClock, published, drafts, hasPrior>>

TopoNext ==
    \/ RouteTick \/ SendLoopPacket \/ NoClientDocument
    \/ \E srv \in routeBudget.shuffles : GenerateDocuments(srv)
    \/ \E missing \in SUBSET RouteAuthorities : Publishes(missing)
    \/ \E self \in routeBudget.sources : StartRoute(self)
    \/ \E e \in DOMAIN published : ComposeSphinxPacket(e)

TopoSpec == TopoInit /\ [][TopoNext]_topoVars

----------------------------------------------------------------------------
(* Properties. *)

\* Without a configured topology every tallied mix is in exactly one layer, and the layers differ by
\* at most one mix, whatever the previous document and the uploads were: what generateTopology keeps,
\* fills up and deals out neither loses a mix nor places it twice.
EveryMixPlaced ==
    \A a \in RouteAuthorities : drafts[a].from \in {"prior", "random"} =>
        LET t == drafts[a].topology IN
        /\ AllMixes(t) = routeBudget.listed[NextVote]
        /\ \A l, k \in DOMAIN t : /\ Len(t[l]) - Len(t[k]) \in {-1, 0, 1}
                                 /\ \A i \in DOMAIN t[l], j \in DOMAIN t[k] : t[l][i] = t[k][j] => <<l, i>> = <<k, j>>

\* A mix that stays in the network stays in its layer, unless the target number of that layer's mixes
\* stays already ("as many nodes as possible retain their existing layer assignment").
LayersKept ==
    \A a \in RouteAuthorities : drafts[a].from = "prior" =>
        LET old == published[Len(published)]
            new == drafts[a].topology
        IN  \A l \in DOMAIN new : \A n \in (MixesOf(old[l]) \cap AllMixes(new)) \ MixesOf(new[l]) :
                Cardinality(MixesOf(old[l]) \cap MixesOf(new[l])) >= Cardinality(AllMixes(new)) \div Len(new)

\* Authorities that start from the same document reach the same topology, in whatever order their
\* maps are ranged over; so the ones that hold the last document can agree on the next.
TopologyAgreed ==
    \A a, b \in RouteAuthorities : drafts[a].from = drafts[b].from => drafts[a].topology = drafts[b].topology

\* When a packet on a built route is due to leave for the next hop, the node that holds it may send to
\* that hop and the hop takes it, though the layers may have changed since the route was built, as
\* long as the current document lists both.
RouteHonored ==
    route.at = "built" =>
        LET now  == EpochAt(routeClock)
            hops == IF route.self = TheClient THEN route.hops ELSE <<route.self>> \o route.hops
            keys == IF route.self = TheClient THEN route.keys ELSE <<now>> \o route.keys
        IN  \A i \in 1..(Len(hops) - 1) :
                keys[i + 1] = now /\ IsListed(hops[i], now) /\ IsListed(hops[i + 1], now) =>
                    /\ CanSend(hops[i], hops[i + 1], TRUE, now)
                    /\ CanSend(hops[i + 1], hops[i], FALSE, now)

\* A hop lacks a mix key only if it is reached two epochs' time after the base time, which the
\* caller would not have accepted either, or one if the document is the previous epoch's; or if the
\* epoch ended between the two paths, when the newer document has no key for the time before it.
KeysSuffice ==
    route.missing # <<>> =>
        \/ route.missing[1] > (2 - (EpochAt(route.start) - route.doc)) * RoutePeriod
        \/ route.doc > EpochAt(route.start)

\* Authorities that start from the same document lay out the same topology, with every mix in one
\* layer, layers that differ by one at most and no mix moved without need, over epochs of mixes that join and leave.
TopologySound == EveryMixPlaced /\ LayersKept /\ TopologyAgreed

\* A route picked from a document works to its end while the document in force lists its hops: each
\* may send to the next, and a hop lacks a key only when it is reached too late to be accepted, or when
\* the epoch ended between the choice of the two paths.
RoutesSound == RouteHonored /\ KeysSuffice
=============================================================================
