--------------------------- MODULE ServerLifecycle ---------------------------
(***************************************************************************)
(* Starting and stopping a mix server (server/server.go): New brings the   *)
(* components up one by one and shuts down what it has built when one      *)
(* fails; halt takes them down in an order its comment calls deliberate.   *)
(* The goroutines that call from one component into another go on until    *)
(* their own component is halted, so the order decides whether one of them *)
(* meets a component that is gone, a closed channel, or a channel nobody   *)
(* reads any more.                                                         *)
(*                                                                         *)
(* A goroutine is at "none" (not started), "idle" (in its select, where it *)
(* sees HaltCh), "exited", or at the component it is calling.              *)
(***************************************************************************)
EXTENDS Integers, Sequences, FiniteSets

CONSTANTS
    SphinxWorkers,  \* the sequence of crypto workers
    InboundCap,     \* InboundPacketsChannelSize
    LifeBudgets     \* role, the component that fails to start, and the traffic

VARIABLES
    lifeBudget,
    phase,          \* "starting", "running", "halting", "halted"
    step,           \* position in StartOrder, later in HaltOrder
    up,             \* components that are constructed and not yet set to nil
    haltCh,         \* components whose HaltCh or closeAllCh is closed
    at,             \* where every goroutine is
    inQueue,        \* packets in inboundPackets
    backendCh,      \* packets in the channel of the gateway or service node
    ready,          \* of the decoy and scheduler workers, those that have something to send
    chClosed        \* closed channels, by the component that owns them

lifeVars == <<lifeBudget, phase, step, up, haltCh, at, inQueue, backendCh, ready, chClosed>>

\* The goroutines that matter: an incoming connection, a WebTransport control stream, a gateway
\* or service worker, the decoy's, the scheduler's and the PKI's worker, and the crypto workers.
Sphinx == {SphinxWorkers[i] : i \in DOMAIN SphinxWorkers}
Routine == {"conn", "web", "backend", "decoyWorker", "schedWorker", "pkiWorker"} \cup Sphinx
Backend == IF lifeBudget.role = "mix" THEN {} ELSE {lifeBudget.role}

Bug_StartOrder == <<"mixKeys", "pki", lifeBudget.role, "scheduler">> \o SphinxWorkers
                  \o <<"connector", "listeners", "decoy", "pkiStart", "periodic">>

\* New: the order of construction.
StartOrder == <<"mixKeys", "pki", lifeBudget.role, "scheduler">> \o SphinxWorkers
              \o <<"connector", "decoy", "listeners", "pkiStart", "periodic">>

\* halt: "The ordering of operations here is deliberate".
HaltOrder == <<"periodic", "decoy", "listeners", "connector">> \o SphinxWorkers
             \o <<lifeBudget.role, "scheduler", "pki", "mixKeys", "inbound">>

\* Which goroutines each component's Halt waits for; a control stream belongs to nobody.
Owned(c) == CASE c = "listeners" -> {"conn"}
              [] c \in Sphinx -> {c}
              [] c \in Backend -> {"backend"}
              [] c = "decoy" -> {"decoyWorker"}
              [] c = "scheduler" -> {"schedWorker"}
              [] c = "pki" -> {"pkiWorker"}
              [] OTHER -> {}
WithWorkers == {"listeners", "decoy", "scheduler"} \cup Backend \cup Sphinx
Owner(r) == CHOOSE c \in WithWorkers \cup {"pki"} : r \in Owned(c)

LifeInit ==
    /\ lifeBudget \in LifeBudgets
    /\ phase = "starting" /\ step = 1 /\ up = {} /\ haltCh = {}
    /\ at = [r \in Routine |-> "none"]
    /\ inQueue = 0 /\ backendCh = 0 /\ ready = {} /\ chClosed = {}

Moves(r, where) == at' = [at EXCEPT ![r] = where]
Spends(what) == /\ lifeBudget[what] > 0
                /\ lifeBudget' = [lifeBudget EXCEPT ![what] = @ - 1]

\* One step of New.  The PKI worker starts only once everything it calls exists.
StartsNext ==
    /\ phase = "starting"
    /\ LET c == StartOrder[step] IN
       /\ c # lifeBudget.failsAt
       /\ up' = up \cup ({c} \ {"pkiStart", "mix"})
       /\ at' = [r \in Routine |->
                    IF \/ c # "pki" /\ r \in Owned(c)
                       \/ c = "pkiStart" /\ r = "pkiWorker"
                       \/ c = "listeners" /\ r = "web" /\ lifeBudget.role = "gateway"
                    THEN "idle" ELSE at[r]]
    /\ IF step = Len(StartOrder) THEN phase' = "running" /\ step' = 1
                                 ELSE phase' = phase /\ step' = step + 1
    /\ UNCHANGED <<lifeBudget, haltCh, inQueue, backendCh, ready, chClosed>>

\* A step fails: the deferred function shuts the half-built server down.
StartFails ==
    /\ phase = "starting" /\ StartOrder[step] = lifeBudget.failsAt
    /\ phase' = "halting" /\ step' = 1
    /\ UNCHANGED <<lifeBudget, up, haltCh, at, inQueue, backendCh, ready, chClosed>>

\* Shutdown: the operator's, or the fatal error watcher's.
Shutdown ==
    /\ phase = "running"
    /\ phase' = "halting" /\ step' = 1
    /\ UNCHANGED <<lifeBudget, up, haltCh, at, inQueue, backendCh, ready, chClosed>>

Stopping == HaltOrder[step]
Passes == IF step = Len(HaltOrder) THEN phase' = "halted" /\ step' = step
                                   ELSE phase' = phase /\ step' = step + 1

\* A component that was never built is skipped; inboundPackets is closed last, if it exists.
HaltSkips ==
    /\ phase = "halting" /\ Stopping \notin up
    /\ chClosed' = IF Stopping = "inbound" /\ haltCh \cap Sphinx # {} THEN chClosed \cup {"inbound"} ELSE chClosed
    /\ Passes
    /\ UNCHANGED <<lifeBudget, up, haltCh, at, inQueue, backendCh, ready>>

\* Halt closes the component's channel ...
HaltSignals ==
    /\ phase = "halting" /\ Stopping \in up \ haltCh
    /\ haltCh' = haltCh \cup {Stopping}
    /\ UNCHANGED <<lifeBudget, phase, step, up, at, inQueue, backendCh, ready, chClosed>>

Returned(c) == \A r \in Owned(c) : at[r] \in {"none", "exited"}

\* ... and waits for its goroutines; the component is set to nil, except that the connector and
\* the decoy stay until the PKI is gone.  The backends and the scheduler close their channel.
HaltReturns ==
    /\ phase = "halting" /\ Stopping \in up \cap haltCh /\ Returned(Stopping)
    /\ up' = CASE Stopping \in {"connector", "decoy"} -> up
               [] Stopping = "pki" -> up \ {"pki", "connector", "decoy"}
               [] OTHER -> up \ {Stopping}
    /\ chClosed' = chClosed \cup ({Stopping} \cap {"gateway", "service", "scheduler"})
    /\ Passes
    /\ UNCHANGED <<lifeBudget, haltCh, at, inQueue, backendCh, ready>>

----------------------------------------------------------------------------
(* The goroutines. *)

\* A worker in its select sees the closed channel and returns.
WorkerExits(r) ==
    /\ r # "web" /\ at[r] = "idle" /\ Owner(r) \in haltCh
    /\ Moves(r, "exited")
    /\ UNCHANGED <<lifeBudget, phase, step, up, haltCh, inQueue, backendCh, ready, chClosed>>

\* onSendPacket and injectClientPacket: a plain send on inboundPackets.
PacketComes(r) ==
    /\ r \in {"conn", "web"} /\ at[r] = "idle" /\ Spends("packets")
    /\ Moves(r, "inbound")
    /\ UNCHANGED <<phase, step, up, haltCh, inQueue, backendCh, ready, chClosed>>
Injects(r) ==
    /\ r \in {"conn", "web"} /\ at[r] = "inbound" /\ inQueue < InboundCap /\ "inbound" \notin chClosed
    /\ inQueue' = inQueue + 1 /\ Moves(r, "idle")
    /\ UNCHANGED <<lifeBudget, phase, step, up, haltCh, backendCh, ready, chClosed>>

\* The crypto worker unwraps a packet and routes it.
Routes(r) ==
    /\ r \in Sphinx /\ at[r] = "idle" /\ inQueue > 0
    /\ inQueue' = inQueue - 1
    /\ \E c \in {"scheduler", "decoy"} \cup Backend : Moves(r, c)
    /\ UNCHANGED <<lifeBudget, phase, step, up, haltCh, backendCh, ready, chClosed>>

\* OnPacket of the gateway gives up when halted, the service node's does not.  (The
\* Sphinx workers are halted before the gateway, so that way out is never needed.)
ToBackend(r) ==
    /\ r \in Sphinx /\ at[r] \in Backend
    /\ LET halted == at[r] = "gateway" /\ "gateway" \in haltCh
       IN  /\ halted \/ (backendCh < InboundCap /\ at[r] \notin chClosed)
           /\ backendCh' = IF halted THEN backendCh ELSE backendCh + 1
    /\ Moves(r, "idle")
    /\ UNCHANGED <<lifeBudget, phase, step, up, haltCh, inQueue, ready, chClosed>>

\* The scheduler's OnPacket, the decoy's OnPacket and the connector's DispatchPacket end.
CallReturns(r) ==
    /\ r # "pkiWorker" /\ at[r] \in {"scheduler", "decoy", "connector"} /\ at[r] \in up
    /\ Moves(r, "idle")
    /\ ready' = IF at[r] = "scheduler" THEN ready \cup {"schedWorker"} ELSE ready
    /\ UNCHANGED <<lifeBudget, phase, step, up, haltCh, inQueue, backendCh, chClosed>>

\* A backend worker takes a packet and hands a SURB reply or an ACK to the scheduler; the decoy
\* worker sends a loop through the connector; the scheduler dispatches a packet to it.
BackendWorks ==
    /\ at["backend"] = "idle" /\ backendCh > 0
    /\ backendCh' = backendCh - 1 /\ Moves("backend", "scheduler")
    /\ UNCHANGED <<lifeBudget, phase, step, up, haltCh, inQueue, ready, chClosed>>
Dispatches(r) ==
    /\ r \in ready /\ at[r] = "idle" /\ Spends("sends")
    /\ Moves(r, "connector")
    /\ UNCHANGED <<phase, step, up, haltCh, inQueue, backendCh, ready, chClosed>>

\* The PKI worker's turn: key rotation, then the connector, scheduler, listeners and decoy.
PKIOrder == SphinxWorkers \o <<"connector", "scheduler", "listeners", "decoy">>
PKITurn ==
    /\ at["pkiWorker"] = "idle" /\ Spends("documents")
    /\ \E c \in {PKIOrder[1], "connector"} : Moves("pkiWorker", c)
    /\ UNCHANGED <<phase, step, up, haltCh, inQueue, backendCh, ready, chClosed>>
After(c) == LET i == CHOOSE j \in DOMAIN PKIOrder : PKIOrder[j] = c
            IN  IF i = Len(PKIOrder) THEN "idle" ELSE PKIOrder[i + 1]

\* reshadowCryptoWorkers waits for one crypto worker after the other to be in its select; OnNewDocument for the
\* decoy's; the other calls do not block.
PKICalls ==
    /\ at["pkiWorker"] \in up
    /\ at["pkiWorker"] \in Sphinx => at[at["pkiWorker"]] = "idle"
    /\ at["pkiWorker"] = "decoy" => at["decoyWorker"] = "idle"
    /\ Moves("pkiWorker", After(at["pkiWorker"]))
    /\ ready' = IF at["pkiWorker"] = "decoy" THEN ready \cup {"decoyWorker"} ELSE ready
    /\ UNCHANGED <<lifeBudget, phase, step, up, haltCh, inQueue, backendCh, chClosed>>

\* Canceled mid-post or mid-fetch: the turn ends there.
PKICanceled ==
    /\ "pki" \in haltCh /\ at["pkiWorker"] = "connector"
    /\ Moves("pkiWorker", "exited")
    /\ UNCHANGED <<lifeBudget, phase, step, up, haltCh, inQueue, backendCh, ready, chClosed>>

Steps ==
    \/ HaltSkips \/ HaltSignals \/ HaltReturns \/ BackendWorks \/ PKICalls \/ PKICanceled
    \/ \E r \in Routine : WorkerExits(r) \/ Injects(r) \/ Routes(r) \/ ToBackend(r) \/ CallReturns(r)
Inputs ==
    \/ StartsNext \/ StartFails \/ Shutdown \/ PKITurn
    \/ \E r \in Routine : PacketComes(r) \/ Dispatches(r)
LifeNext == Steps \/ Inputs
LifeSpec == LifeInit /\ [][LifeNext]_lifeVars

----------------------------------------------------------------------------
\* Nothing runs before its component exists, and no component is nil while its goroutines run.
LifeTypeOK ==
    /\ inQueue \in 0..InboundCap /\ backendCh \in 0..InboundCap
    /\ \A c \in WithWorkers : c \notin up => \A r \in Owned(c) : at[r] \in {"none", "exited"}

\* The order of halt protects every caller it is meant for: an incoming connection never sends on
\* the closed inboundPackets, a crypto worker never meets a closed backend, a nil scheduler or
\* decoy, a backend worker never a nil scheduler, the decoy and the scheduler never a nil connector,
\* and the PKI worker never a nil connector or decoy.
CallsLive ==
    /\ at["conn"] = "inbound" => "inbound" \notin chClosed
    /\ \A r \in Routine \ {"conn", "web", "pkiWorker"} :
          at[r] \in {"scheduler", "decoy", "connector"} \cup Backend => at[r] \in up /\ at[r] \notin chClosed
    /\ at["pkiWorker"] \in {"connector", "decoy"} => at["pkiWorker"] \in up

\* The only thing that can keep halt from finishing is the PKI worker in the middle of its turn:
\* it waits for the decoy or for crypto workers that are gone, or has met a component that is nil.
HaltEnds ==
    phase = "halting" /\ ~ENABLED Steps =>
        Stopping = "pki" /\ at["pkiWorker"] \in {"scheduler", "listeners", "decoy"} \cup Sphinx

\* The order in which a server is taken down serves its purpose: no goroutine calls into a part that
\* is gone, and halt ends or stands still where the PKI worker does.
ShutdownSound == LifeTypeOK /\ CallsLive /\ HaltEnds
=============================================================================
