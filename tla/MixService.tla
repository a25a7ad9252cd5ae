----------------------------- MODULE MixService -----------------------------
(***************************************************************************)
(* The back end of a service node: server/internal/service (the worker and *)
(* the management commands), service/kaetzchen (the built-in services and  *)
(* the CBOR plugins) and server/cborplugin (one plugin process).           *)
(*                                                                         *)
(* A packet goes from the node's channel to the worker of the built-in     *)
(* services, or to the channel of the plugin registered for its recipient; *)
(* a reply leaves through the scheduler.  Plugins are processes: they      *)
(* crash, close their socket, are stopped and are started again while      *)
(* packets are under way.  Every start of a plugin is a generation with a  *)
(* channel, a client and a worker of its own.                              *)
(*                                                                         *)
(* A capability stands for its endpoint as well; the time a packet has     *)
(* spent in a queue is a choice (late).                                    *)
(***************************************************************************)
EXTENDS Integers, Sequences, FiniteSets

CONSTANTS
    Request,        \* packet -> [to, surbReply, valid, surb]
    BuiltIns, Plugins,      \* the configured capabilities
    ServiceWorkers,
    ServiceChanSize,        \* InboundPacketsChannelSize
    Gens,           \* 1..n, the starts a run allows
    NoRequest,
    SvcBudgets      \* the workloads

ASSUME SvcAssumption ==
    /\ ServiceChanSize \in Nat \ {0} /\ BuiltIns \cap Plugins = {}
    /\ DOMAIN Request \subseteq Nat /\ NoRequest \notin Nat

Requests == DOMAIN Request

VARIABLES
    svcBudget,      \* what may still happen
    svcCh, svcHand, \* serviceNode.ch; what each service worker is handing on: [pkt, to]
    builtIn, kCh,   \* KaetzchenWorker.kaetzchen and .ch
    pluginChans,    \* capability -> generation whose channel is registered, 0 for none
    chanQ,          \* the channel of each generation
    client,         \* each generation: [cap, listed, halted, socket, failed, told]
    pluginWorker,   \* each generation: [at, pkt, reads]
    atPlugin,       \* requests written to each generation's process
    haltedAll,      \* haltOnce has run haltAllClients
    replies, svcEnded  \* SURB replies handed to the scheduler; packets disposed of

svcVars == <<svcBudget, svcCh, svcHand, builtIn, kCh, pluginChans, chanQ, client, pluginWorker,
             atPlugin, haltedAll, replies, svcEnded>>
routeVars == <<svcCh, svcHand, kCh>>
pluginVars == <<pluginChans, client, haltedAll>>

NoClient == [cap |-> NoRequest, listed |-> FALSE, halted |-> FALSE, socket |-> FALSE,
             failed |-> FALSE, told |-> FALSE]
NoWorker == [at |-> "none", pkt |-> NoRequest, reads |-> 0]
EmptyHand == [pkt |-> NoRequest, to |-> 0]
BuiltInWorker == -1
Undecided == -2

Launched(c) == [NoClient EXCEPT !.cap = c, !.listed = TRUE, !.socket = TRUE]

\* New: the built-in services; the plugins are started one by one, as register does.
SvcInit ==
    /\ svcBudget \in SvcBudgets
    /\ svcCh = <<>> /\ svcHand = [w \in ServiceWorkers |-> EmptyHand]
    /\ builtIn = BuiltIns /\ kCh = <<>>
    /\ pluginChans = [c \in Plugins |-> 0]
    /\ chanQ = [g \in Gens |-> <<>>]
    /\ client = [g \in Gens |-> NoClient] /\ pluginWorker = [g \in Gens |-> NoWorker]
    /\ atPlugin = [g \in Gens |-> {}]
    /\ haltedAll = FALSE /\ replies = [p \in Requests |-> 0] /\ svcEnded = {}

Disposed(p) == svcEnded' = svcEnded \cup {p}

----------------------------------------------------------------------------
(* serviceNode: OnPacket and worker. *)

SvcArrives(p) ==
    /\ p \in svcBudget.arrive /\ Len(svcCh) < ServiceChanSize
    /\ svcBudget' = [svcBudget EXCEPT !.arrive = @ \ {p}]
    /\ svcCh' = Append(svcCh, p)
    /\ UNCHANGED <<svcHand, kCh, builtIn, chanQ, pluginWorker, atPlugin, replies, svcEnded, pluginVars>>

\* Late packets, SURB replies to a service and unknown recipients are dropped; built-in services
\* come first.
SvcTakes(w, late) ==
    /\ svcHand[w] = EmptyHand /\ svcCh # <<>> /\ (late => svcBudget.late)
    /\ LET p == Head(svcCh)
           to == Request[p].to
           found == to \in builtIn \/ (to \in Plugins /\ pluginChans[to] # 0)
       IN IF late \/ ~found \/ Request[p].surbReply
          THEN Disposed(p) /\ UNCHANGED svcHand
          ELSE /\ svcHand' = [svcHand EXCEPT ![w] = [pkt |-> p, to |-> IF to \in builtIn THEN BuiltInWorker
                                                                       ELSE Undecided]]
               /\ UNCHANGED svcEnded
    /\ svcCh' = Tail(svcCh)
    /\ UNCHANGED <<svcBudget, kCh, builtIn, chanQ, pluginWorker, atPlugin, replies, pluginVars>>

\* CBORPluginWorker.OnKaetzchen looks the channel up again, under the lock.
OnKaetzchen(w) ==
    /\ svcHand[w].to = Undecided
    /\ LET p == svcHand[w].pkt
           g == pluginChans[Request[p].to]
       IN IF g = 0 THEN svcHand' = [svcHand EXCEPT ![w] = EmptyHand] /\ Disposed(p)
          ELSE svcHand' = [svcHand EXCEPT ![w].to = g] /\ UNCHANGED svcEnded
    /\ UNCHANGED <<svcBudget, svcCh, kCh, builtIn, chanQ, pluginWorker, atPlugin, replies, pluginVars>>

\* The send, which waits while the channel is full; the lock is not held any more.
SvcGives(w) ==
    /\ svcHand[w].to \in Gens \cup {BuiltInWorker}
    /\ LET g == svcHand[w].to IN
       IF g = BuiltInWorker
       THEN /\ Len(kCh) < ServiceChanSize
            /\ kCh' = Append(kCh, svcHand[w].pkt) /\ UNCHANGED chanQ
       ELSE /\ Len(chanQ[g]) < ServiceChanSize
            /\ chanQ' = [chanQ EXCEPT ![g] = Append(@, svcHand[w].pkt)] /\ UNCHANGED kCh
    /\ svcHand' = [svcHand EXCEPT ![w] = EmptyHand]
    /\ UNCHANGED <<svcBudget, svcCh, builtIn, pluginWorker, atPlugin, replies, svcEnded, pluginVars>>

\* KaetzchenWorker.worker and processKaetzchen: the service may have been stopped meanwhile.
KaetzchenTakes(late) ==
    /\ kCh # <<>> /\ (late => svcBudget.late)
    /\ kCh' = Tail(kCh)
    /\ LET p == Head(kCh) IN
       /\ Disposed(p)
       /\ replies' = IF ~late /\ Request[p].valid /\ Request[p].to \in builtIn /\ Request[p].surb
                     THEN [replies EXCEPT ![p] = @ + 1] ELSE replies
    /\ UNCHANGED <<svcBudget, svcCh, svcHand, builtIn, chanQ, pluginWorker, atPlugin, pluginVars>>

----------------------------------------------------------------------------
(* The plugins. *)

\* worker(endpoint, client), once register has released the lock: it reads whatever channel is
\* registered then; with none it returns, and haltAllClients runs once.
PluginWorkerStarts(g) ==
    /\ pluginWorker[g].at = "start"
    /\ LET r == pluginChans[client[g].cap] IN
       /\ pluginWorker' = [pluginWorker EXCEPT ![g].at = IF r = 0 THEN "gone" ELSE "idle", ![g].reads = r]
       /\ haltedAll' = (haltedAll \/ r = 0)
       /\ client' = IF r = 0 /\ ~haltedAll
                    THEN [h \in Gens |-> IF client[h].listed THEN [client[h] EXCEPT !.halted = TRUE] ELSE client[h]]
                    ELSE client
    /\ UNCHANGED <<svcBudget, builtIn, chanQ, pluginChans, atPlugin, replies, svcEnded, routeVars>>

Bug_PluginTakes(g, late) ==
    /\ pluginWorker[g].at = "idle" /\ (late => svcBudget.late)
    /\ LET r == pluginWorker[g].reads
           p == Head(chanQ[r])
       IN /\ chanQ[r] # <<>>
          /\ chanQ' = [chanQ EXCEPT ![r] = Tail(@)]
          /\ svcEnded' = IF late THEN svcEnded \cup {p} ELSE svcEnded
          /\ pluginWorker' = [pluginWorker EXCEPT ![g].at = "write", ![g].pkt = p]
    /\ UNCHANGED <<svcBudget, builtIn, atPlugin, replies, routeVars, pluginVars>>

\* A packet from the channel: dropped when late or malformed, else a request is made of it.
PluginTakes(g, late) ==
    /\ pluginWorker[g].at = "idle" /\ (late => svcBudget.late)
    /\ LET r == pluginWorker[g].reads
           p == Head(chanQ[r])
       IN /\ chanQ[r] # <<>>
          /\ chanQ' = [chanQ EXCEPT ![r] = Tail(@)]
          /\ IF late \/ ~Request[p].valid THEN Disposed(p) /\ UNCHANGED pluginWorker
             ELSE /\ pluginWorker' = [pluginWorker EXCEPT ![g].at = "write", ![g].pkt = p]
                  /\ UNCHANGED svcEnded
    /\ UNCHANGED <<svcBudget, builtIn, atPlugin, replies, routeVars, pluginVars>>

\* WriteChan is read by the socket's writer while the socket is up.
PluginWrites(g) ==
    /\ pluginWorker[g].at = "write" /\ client[g].socket
    /\ atPlugin' = [atPlugin EXCEPT ![g] = @ \cup {pluginWorker[g].pkt}]
    /\ Disposed(pluginWorker[g].pkt)
    /\ pluginWorker' = [pluginWorker EXCEPT ![g].at = "idle", ![g].pkt = NoRequest]
    /\ UNCHANGED <<svcBudget, builtIn, chanQ, replies, routeVars, pluginVars>>

\* sendworker: a response becomes a packet when it carries a SURB and is not too long.
SendWorker(g, p, tooLong) ==
    /\ p \in atPlugin[g] /\ client[g].socket
    /\ atPlugin' = [atPlugin EXCEPT ![g] = @ \ {p}]
    /\ replies' = IF Request[p].surb /\ ~tooLong THEN [replies EXCEPT ![p] = @ + 1] ELSE replies
    /\ UNCHANGED <<svcBudget, builtIn, chanQ, pluginWorker, svcEnded, routeVars, pluginVars>>

\* The process exits: its stderr closes, which halts the client (logPluginStderr).
PluginCrashes(g) ==
    /\ svcBudget.crashes > 0 /\ client[g].listed /\ client[g].socket
    /\ svcBudget' = [svcBudget EXCEPT !.crashes = @ - 1]
    /\ client' = [client EXCEPT ![g].halted = TRUE, ![g].socket = FALSE]
    /\ UNCHANGED <<builtIn, pluginChans, chanQ, pluginWorker, atPlugin, haltedAll, replies, svcEnded, routeVars>>

\* Only the socket fails: reader and writer end, the client stays.
SocketCloses(g) ==
    /\ svcBudget.closes > 0 /\ client[g].socket
    /\ svcBudget' = [svcBudget EXCEPT !.closes = @ - 1]
    /\ client' = [client EXCEPT ![g].socket = FALSE]
    /\ UNCHANGED <<builtIn, pluginChans, chanQ, pluginWorker, atPlugin, haltedAll, replies, svcEnded, routeVars>>

\* The reaper sends SIGTERM after HaltCh is closed.
Reaper(g) ==
    /\ client[g].halted /\ client[g].socket
    /\ client' = [client EXCEPT ![g].socket = FALSE]
    /\ UNCHANGED <<svcBudget, builtIn, pluginChans, chanQ, pluginWorker, atPlugin, haltedAll, replies, svcEnded, routeVars>>

\* unregister, by the goroutine that waits for the client's HaltCh.
Delisted(g) == [client EXCEPT ![g].told = TRUE, ![g].listed = FALSE]
Unregister(g) ==
    /\ client[g].halted /\ ~client[g].told
    /\ client' = Delisted(g)
    /\ pluginChans' = [pluginChans EXCEPT ![client[g].cap] = 0]
    /\ UNCHANGED <<svcBudget, builtIn, chanQ, pluginWorker, atPlugin, haltedAll, replies, svcEnded, routeVars>>

----------------------------------------------------------------------------
(* STOP_KAETZCHEN and START_KAETZCHEN. *)

\* onStopKaetzchen: the client of a plugin is told to halt, and is unregistered when it has.
StopKaetzchen(c) ==
    /\ svcBudget.stops > 0
    /\ svcBudget' = [svcBudget EXCEPT !.stops = @ - 1]
    /\ builtIn' = builtIn \ {c}
    /\ client' = IF c \in Plugins /\ pluginChans[c] # 0
                 THEN [g \in Gens |-> IF client[g].listed /\ client[g].cap = c
                                      THEN [client[g] EXCEPT !.halted = TRUE] ELSE client[g]]
                 ELSE client
    /\ UNCHANGED <<pluginChans, chanQ, pluginWorker, atPlugin, haltedAll, replies, svcEnded, routeVars>>

StartBuiltIn(c) ==
    /\ c \in BuiltIns \ builtIn /\ svcBudget.starts > 0
    /\ svcBudget' = [svcBudget EXCEPT !.starts = @ - 1]
    /\ builtIn' = builtIn \cup {c}
    /\ UNCHANGED <<chanQ, pluginWorker, atPlugin, replies, svcEnded, routeVars, pluginVars>>

\* register refuses an endpoint whose channel is registered.
MayRegister(c) == pluginChans[c] = 0

\* register: the channel first, then the process; when that fails the channel stays.
StartPlugin(c, g, ok) ==
    /\ MayRegister(c) /\ svcBudget.starts > 0 /\ client[g] = NoClient
    /\ \A h \in Gens : client[h] = NoClient => g <= h
    /\ ok \/ svcBudget.failures > 0
    /\ svcBudget' = [svcBudget EXCEPT !.starts = @ - 1, !.failures = IF ok THEN @ ELSE @ - 1]
    /\ pluginChans' = [pluginChans EXCEPT ![c] = g]
    /\ client' = [client EXCEPT ![g] = IF ok THEN Launched(c) ELSE [NoClient EXCEPT !.cap = c, !.failed = TRUE]]
    /\ pluginWorker' = IF ok THEN [pluginWorker EXCEPT ![g].at = "start"] ELSE pluginWorker
    /\ UNCHANGED <<builtIn, chanQ, atPlugin, haltedAll, replies, svcEnded, routeVars>>

SvcNext ==
    \/ \E p \in Requests : SvcArrives(p)
    \/ \E w \in ServiceWorkers : OnKaetzchen(w) \/ SvcGives(w) \/ \E late \in BOOLEAN : SvcTakes(w, late)
    \/ \E late \in BOOLEAN : KaetzchenTakes(late)
    \/ \E g \in Gens :
          \/ PluginWorkerStarts(g) \/ PluginWrites(g) \/ PluginCrashes(g) \/ SocketCloses(g)
          \/ Reaper(g) \/ Unregister(g)
          \/ \E b \in BOOLEAN : PluginTakes(g, b) \/ \E p \in Requests : SendWorker(g, p, b)
          \/ \E c \in Plugins, ok \in BOOLEAN : StartPlugin(c, g, ok)
    \/ \E c \in BuiltIns \cup Plugins : StopKaetzchen(c) \/ StartBuiltIn(c)

SvcSpec == SvcInit /\ [][SvcNext]_svcVars

----------------------------------------------------------------------------
\* The channels stay within their capacity and a worker reads the channel of a started plugin.
SvcTypeOK ==
    /\ Len(svcCh) <= ServiceChanSize /\ Len(kCh) <= ServiceChanSize
    /\ \A g \in Gens : /\ Len(chanQ[g]) <= ServiceChanSize
                       /\ pluginWorker[g].at \in {"none", "start", "idle", "write", "gone"}
                       /\ pluginWorker[g].at \in {"idle", "write"} => pluginWorker[g].reads \in Gens
    /\ builtIn \subseteq BuiltIns /\ \A c \in Plugins : pluginChans[c] \in Gens \cup {0}

\* What KaetzchenForPKI advertises can be reached, and what can be reached is advertised: a listed
\* client is the one whose channel is registered for its endpoint, so never two of one capability,
\* through crashes, stops and restarts; a failed launch alone leaves a channel with no client.
AdvertisedRoutable ==
    /\ \A g \in Gens : client[g].listed => pluginChans[client[g].cap] = g
    /\ \A c \in Plugins : pluginChans[c] # 0 => client[pluginChans[c]].listed \/ client[pluginChans[c]].failed

InHands == {svcHand[w].pkt : w \in ServiceWorkers} \cup {pluginWorker[g].pkt : g \in Gens}

\* A packet is disposed of once and leads to one SURB reply at most: a packet a worker holds, in a
\* channel or in hand, has neither been disposed of nor answered, also in the channel of a plugin
\* that has gone or when a restarted plugin's channel has two readers.
RepliesOnce ==
    /\ \A p \in Requests : replies[p] <= (IF Request[p].surb THEN 1 ELSE 0)
    /\ \A p \in svcEnded : /\ p \notin InHands \cup svcBudget.arrive
                        /\ \A q \in {svcCh, kCh} \cup {chanQ[g] : g \in Gens} : \A i \in DOMAIN q : q[i] # p

\* What the node advertises can be reached, and a request is disposed of once with one reply at most,
\* through plugins that die, are stopped and are started again (KaetzchenForPKI, the plugin workers).
ServiceSound == SvcTypeOK /\ AdvertisedRoutable /\ RepliesOnce
=============================================================================
