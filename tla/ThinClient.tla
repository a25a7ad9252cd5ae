------------------------------ MODULE ThinClient ------------------------------
(***************************************************************************)
(* The thin client library (client/thin): application threads call         *)
(* blocking functions over one connection to the client daemon.            *)
(*                                                                         *)
(* Every call subscribes a channel of capacity 1 to the events, writes its *)
(* request, reads events until the reply with its query ID comes, and      *)
(* unsubscribes.  One goroutine reads the connection into eventSink, one   *)
(* fans every event out to all subscribers.  When the connection breaks    *)
(* the reader redials, and replays the tracked Start calls if it finds     *)
(* another daemon instance.                                                *)
(*                                                                         *)
(* The handshake is one step: a request written while redial is in the     *)
(* middle of it is not modelled.  Which messages the daemon sends, and     *)
(* when, is left open.                                                     *)
(***************************************************************************)
EXTENDS Integers, Sequences, FiniteSets

CONSTANTS
    Threads,        \* the application threads
    NoThread,
    SinkCap,        \* capacity of eventSink
    ThinBudgets     \* what the threads call, and what happens to the daemon

VARIABLES
    thinBudget,
    app,            \* each thread's call: [at, got, left]
    tracked,        \* inFlightResends, by the thread that stored the request
    drains,         \* the subscribed channels
    box,            \* what is in each of them
    eventSink,      \* the events between the reader and the fan-out
    fan,            \* [busy, event, todo]: the fan-out worker
    reader,         \* the connection worker: [at, event, todo]
    socket,         \* the connection: [up, wire], wire = messages to the client
    daemon,         \* [instance, pending, online], pending = requests it works on
    token,          \* daemonInstanceToken
    thinConnected,  \* the client's copy of the daemon's status
    haltedThin,     \* Close or Disconnect was called
    serial,         \* history: events given to eventSink so far
    given,          \* history: the last event each subscriber was given
    answered,       \* history: calls whose current request some daemon answered
    writtenTo       \* history: requests written to each daemon instance

thinVars == <<thinBudget, app, tracked, drains, box, eventSink, fan, reader, socket, daemon, token,
              thinConnected, haltedThin, serial, given, answered, writtenTo>>

callVars == <<app, tracked, drains, box>>
connVars == <<reader, socket, daemon, token, thinConnected>>

Event(kind, for, on) == [kind |-> kind, for |-> for, on |-> on, n |-> 0]
NoEvent == Event("none", NoThread, FALSE)

Queries == {"NewKeypair", "EncryptRead", "EncryptWrite", "NextMessageBoxIndex", "GetMessageBoxIndexCounter",
            "CreateCourierEnvelopesFromPayload", "CreateCourierEnvelopesFromMultiPayload",
            "CreateCourierEnvelopesFromTombstoneRange", "GetPKIDocumentRaw", "TombstoneRange"}
Resends == {"StartResendingEncryptedMessage", "StartResendingCopyCommand", "StartResendingCopyCommandWithCourier"}
Cancels == {"CancelResendingEncryptedMessage", "CancelResendingCopyCommand"}

Kind(c) == thinBudget.calls[c]

ThinInit ==
    /\ thinBudget \in ThinBudgets
    /\ app = [c \in Threads |-> [at |-> "idle", got |-> "nothing", left |-> 1]]
    /\ tracked = {} /\ drains = {} /\ box = [c \in Threads |-> <<>>]
    /\ eventSink = <<>> /\ fan = [busy |-> FALSE, event |-> NoEvent, todo |-> {}]
    /\ reader = [at |-> "new", event |-> NoEvent, todo |-> {}]
    /\ socket = [up |-> FALSE, wire |-> <<>>]
    /\ daemon = [instance |-> 1, pending |-> {}, online |-> TRUE]
    /\ token = 0 /\ thinConnected = FALSE /\ haltedThin = FALSE
    /\ serial = 0 /\ given = [c \in Threads |-> 0] /\ answered = {} /\ writtenTo = {}

SpendsThin(what) == /\ thinBudget[what] > 0
                    /\ thinBudget' = [thinBudget EXCEPT ![what] = @ - 1]

----------------------------------------------------------------------------
(* The calls. *)

Begins(c) == app[c].at = "idle" /\ reader.at # "new" /\ Kind(c) # "none"
Enters(c, where, rounds) == app' = [app EXCEPT ![c] = [at |-> where, got |-> "nothing", left |-> rounds]]
QuietCall == UNCHANGED <<thinBudget, drains, box, eventSink, fan, connVars, haltedThin, serial, given, answered, writtenTo>>

Query(c, kind) == Begins(c) /\ Kind(c) = kind /\ Enters(c, "subscribe", 1) /\ UNCHANGED tracked /\ QuietCall
NewKeypair(c) == Query(c, "NewKeypair")
EncryptRead(c) == Query(c, "EncryptRead")
EncryptWrite(c) == Query(c, "EncryptWrite")
NextMessageBoxIndex(c) == Query(c, "NextMessageBoxIndex")
GetMessageBoxIndexCounter(c) == Query(c, "GetMessageBoxIndexCounter")
CreateCourierEnvelopesFromPayload(c) == Query(c, "CreateCourierEnvelopesFromPayload")
CreateCourierEnvelopesFromMultiPayload(c) == Query(c, "CreateCourierEnvelopesFromMultiPayload")
CreateCourierEnvelopesFromTombstoneRange(c) == Query(c, "CreateCourierEnvelopesFromTombstoneRange")
GetPKIDocumentRaw(c) == Query(c, "GetPKIDocumentRaw")

\* One EncryptWrite per box of the range.
TombstoneRange(c) ==
    /\ Begins(c) /\ Kind(c) = "TombstoneRange" /\ Enters(c, "subscribe", 2)
    /\ UNCHANGED tracked /\ QuietCall

\* The Start calls store their request for replay before they send it.
Tracks(c, kind) ==
    /\ Begins(c) /\ Kind(c) = kind /\ Enters(c, "subscribe", 1)
    /\ tracked' = tracked \cup {c} /\ QuietCall
StartResendingEncryptedMessage(c) == Tracks(c, "StartResendingEncryptedMessage")
StartResendingCopyCommand(c) == Tracks(c, "StartResendingCopyCommand")
StartResendingCopyCommandWithCourier(c) == Tracks(c, "StartResendingCopyCommandWithCourier")

\* The Cancel calls forget it, and return at once when the daemon is not connected.
Untracks(c, kind) ==
    /\ Begins(c) /\ Kind(c) = kind
    /\ tracked' = tracked \ {thinBudget.target}
    /\ IF thinConnected THEN Enters(c, "subscribe", 1)
                      ELSE app' = [app EXCEPT ![c] = [at |-> "done", got |-> "cancelled", left |-> 0]]
    /\ QuietCall
CancelResendingEncryptedMessage(c) == Untracks(c, "CancelResendingEncryptedMessage")
CancelResendingCopyCommand(c) == Untracks(c, "CancelResendingCopyCommand")

\* BlockingSendMessage and SendMessage refuse while the daemon is offline.
BlockingSendMessage(c) ==
    /\ Begins(c) /\ Kind(c) = "BlockingSendMessage"
    /\ IF thinConnected THEN Enters(c, "subscribe", 1)
                      ELSE app' = [app EXCEPT ![c] = [at |-> "done", got |-> "error", left |-> 0]]
    /\ UNCHANGED tracked /\ QuietCall

\* EventSink: the fan-out worker must be in its select to take the channel.
EventSink(c) ==
    /\ app[c].at = "subscribe" /\ ~fan.busy /\ ~haltedThin
    /\ drains' = drains \cup {c} /\ app' = [app EXCEPT ![c].at = "write"]
    /\ given' = [given EXCEPT ![c] = serial - Len(eventSink)]
    /\ UNCHANGED <<thinBudget, tracked, box, eventSink, fan, connVars, haltedThin, serial, answered, writtenTo>>

\* writeMessage: the request reaches the daemon; on a connection that is gone it fails, or is
\* swallowed by a socket nobody reads.
WriteMessage(c) ==
    /\ app[c].at = "write"
    /\ \/ /\ socket.up /\ daemon' = [daemon EXCEPT !.pending = @ \cup {c}]
          /\ writtenTo' = writtenTo \cup {<<c, token>>} /\ app' = [app EXCEPT ![c].at = "wait"]
       \/ /\ ~socket.up /\ reader.at \in {"reading", "dispatch", "replay"} /\ UNCHANGED daemon
          /\ writtenTo' = writtenTo \cup {<<c, token>>} /\ app' = [app EXCEPT ![c].at = "wait"]
       \/ /\ ~socket.up /\ app' = [app EXCEPT ![c].at = "leave", ![c].got = "error", ![c].left = 1]
          /\ UNCHANGED <<daemon, writtenTo>>
    /\ UNCHANGED <<thinBudget, tracked, drains, box, eventSink, fan, reader, socket, token, thinConnected,
                   haltedThin, serial, given, answered>>

\* The reply's type and QueryID (or SURB ID) are the call's.
IsMine(c, e) == e.kind = "reply" /\ e.for = c

\* The event loop of every call.
TakesEvent(c) ==
    /\ app[c].at = "wait" /\ box[c] # <<>>
    /\ LET e == Head(box[c]) IN
       /\ app' = CASE IsMine(c, e) -> [app EXCEPT ![c].at = "leave", ![c].got = "reply"]
                    [] e.kind = "status" /\ ~e.on /\ Kind(c) = "BlockingSendMessage" ->
                         [app EXCEPT ![c].at = "leave", ![c].got = "error"]
                    [] OTHER -> app
       /\ thinConnected' = IF e.kind = "status" /\ Kind(c) # "BlockingSendMessage" THEN e.on ELSE thinConnected
    /\ box' = [box EXCEPT ![c] = Tail(@)]
    /\ UNCHANGED <<thinBudget, tracked, drains, eventSink, fan, reader, socket, daemon, token, haltedThin,
                   serial, given, answered, writtenTo>>

\* HaltCh, or the context of BlockingSendMessage.
GivesUp(c) ==
    /\ app[c].at = "wait"
    /\ haltedThin \/ Kind(c) = "BlockingSendMessage"
    /\ app' = [app EXCEPT ![c].at = "leave", ![c].got = "error", ![c].left = 1]
    /\ UNCHANGED <<thinBudget, tracked, drains, box, eventSink, fan, connVars, haltedThin, serial, given, answered, writtenTo>>

\* The deferred StopEventSink, again a rendezvous with the fan-out, and the deferred Delete.
StopEventSink(c) ==
    /\ app[c].at = "leave" /\ ~fan.busy /\ ~haltedThin
    /\ drains' = drains \ {c} /\ box' = [box EXCEPT ![c] = <<>>]
    /\ tracked' = tracked \ {c}
    /\ app' = [app EXCEPT ![c].at = IF app[c].left = 1 THEN "done" ELSE "subscribe",
                            ![c].got = IF app[c].left = 1 THEN @ ELSE "nothing", ![c].left = @ - 1]
    /\ answered' = IF app[c].left = 1 THEN answered ELSE answered \ {c}
    /\ UNCHANGED <<thinBudget, eventSink, fan, connVars, haltedThin, serial, given, writtenTo>>

----------------------------------------------------------------------------
(* eventSinkWorker *)

FanTakes ==
    /\ ~fan.busy /\ eventSink # <<>> /\ ~haltedThin
    /\ fan' = [busy |-> drains # {}, event |-> Head(eventSink), todo |-> drains]
    /\ eventSink' = Tail(eventSink)
    /\ UNCHANGED <<thinBudget, callVars, connVars, haltedThin, serial, given, answered, writtenTo>>

Bug_FanDelivers(c) ==
    /\ fan.busy /\ c \in fan.todo
    /\ IF box[c] = <<>> THEN /\ box' = [box EXCEPT ![c] = <<fan.event>>]
                             /\ given' = [given EXCEPT ![c] = fan.event.n]
                        ELSE UNCHANGED <<box, given>>
    /\ fan' = [fan EXCEPT !.todo = @ \ {c}, !.busy = fan.todo # {c}]
    /\ UNCHANGED <<thinBudget, app, tracked, drains, eventSink, connVars, haltedThin, serial, answered, writtenTo>>

\* "Deliver to every subscriber, blocking as long as necessary."
FanDelivers(c) ==
    /\ fan.busy /\ c \in fan.todo /\ box[c] = <<>>
    /\ box' = [box EXCEPT ![c] = <<fan.event>>]
    /\ fan' = [fan EXCEPT !.todo = @ \ {c}, !.busy = fan.todo # {c}]
    /\ given' = [given EXCEPT ![c] = fan.event.n]
    /\ UNCHANGED <<thinBudget, app, tracked, drains, eventSink, connVars, haltedThin, serial, answered, writtenTo>>

----------------------------------------------------------------------------
(* worker, readUntilDisconnect, redial and replayInFlightResends *)

\* Dial and its handshake; the workers start.
Dial ==
    /\ reader.at = "new"
    /\ reader' = [reader EXCEPT !.at = "reading"]
    /\ socket' = [up |-> TRUE, wire |-> <<>>]
    /\ token' = daemon.instance /\ thinConnected' = daemon.online
    /\ UNCHANGED <<thinBudget, callVars, eventSink, fan, daemon, haltedThin, serial, given, answered, writtenTo>>

ReadMessage ==
    /\ reader.at = "reading" /\ socket.wire # <<>> /\ ~haltedThin
    /\ reader' = [reader EXCEPT !.at = "dispatch", !.event = Head(socket.wire)]
    /\ socket' = [socket EXCEPT !.wire = Tail(@)]
    /\ UNCHANGED <<thinBudget, callVars, eventSink, fan, daemon, token, thinConnected, haltedThin, serial, given, answered, writtenTo>>

\* A send on eventSink.
Pushes(e) ==
    /\ Len(eventSink) < SinkCap
    /\ eventSink' = Append(eventSink, [e EXCEPT !.n = serial + 1]) /\ serial' = serial + 1

\* dispatchMessage: the status is stored, then the event is handed on.
DispatchMessage ==
    /\ reader.at = "dispatch" /\ ~haltedThin /\ Pushes(reader.event)
    /\ thinConnected' = IF reader.event.kind = "status" THEN reader.event.on ELSE thinConnected
    /\ reader' = [reader EXCEPT !.at = "reading", !.event = NoEvent]
    /\ UNCHANGED <<thinBudget, callVars, fan, socket, daemon, token, haltedThin, given, answered, writtenTo>>

\* The read fails: the DaemonDisconnectedEvent goes out before redial.
Disconnected ==
    /\ reader.at = "reading" /\ socket.wire = <<>> /\ ~socket.up /\ ~haltedThin
    /\ Pushes(Event("disconnected", NoThread, FALSE))
    /\ thinConnected' = FALSE /\ reader' = [reader EXCEPT !.at = "redial"]
    /\ UNCHANGED <<thinBudget, callVars, fan, socket, daemon, token, haltedThin, given, answered, writtenTo>>

\* The instance token told in the handshake differs from the one before the disconnect.
NewInstance == daemon.instance # token

\* redial succeeds and the tracked requests are replayed to a daemon that cannot know them.
Redial ==
    /\ reader.at = "redial" /\ ~haltedThin
    /\ socket' = [up |-> TRUE, wire |-> <<>>]
    /\ token' = daemon.instance /\ thinConnected' = daemon.online
    /\ reader' = IF NewInstance THEN [reader EXCEPT !.at = "replay", !.todo = tracked]
                                ELSE [reader EXCEPT !.at = "reading"]
    /\ UNCHANGED <<thinBudget, callVars, eventSink, fan, daemon, haltedThin, serial, given, answered, writtenTo>>

\* One request of the replay; a failed write is only logged.
Replays(c) ==
    /\ reader.at = "replay" /\ c \in reader.todo
    /\ reader' = [reader EXCEPT !.todo = @ \ {c}]
    /\ daemon' = IF socket.up /\ c \in tracked THEN [daemon EXCEPT !.pending = @ \cup {c}] ELSE daemon
    /\ writtenTo' = IF c \in tracked THEN writtenTo \cup {<<c, token>>} ELSE writtenTo
    /\ UNCHANGED <<thinBudget, callVars, eventSink, fan, socket, token, thinConnected, haltedThin, serial, given, answered>>
ReplayEnds ==
    /\ reader.at = "replay" /\ reader.todo = {}
    /\ reader' = [reader EXCEPT !.at = "reading"]
    /\ UNCHANGED <<thinBudget, callVars, eventSink, fan, socket, daemon, token, thinConnected, haltedThin, serial, given, answered, writtenTo>>

\* Close and Disconnect: HaltCh ends the workers; no channel is closed.
Halts ==
    /\ reader.at # "new" /\ ~haltedThin /\ SpendsThin("halts")
    /\ haltedThin' = TRUE
    /\ UNCHANGED <<callVars, eventSink, fan, connVars, serial, given, answered, writtenTo>>

----------------------------------------------------------------------------
(* The daemon, as the thin client sees it. *)

Sends(msgs) == socket' = [socket EXCEPT !.wire = IF socket.up THEN @ \o msgs ELSE @]
QuietDaemon == UNCHANGED <<callVars, eventSink, fan, reader, token, thinConnected, haltedThin, serial, given, writtenTo>>

\* It answers a request; a Cancel also ends the request it is about.
DaemonAnswers(c) ==
    /\ c \in daemon.pending
    /\ LET ends == IF Kind(c) \in Cancels THEN {thinBudget.target} \cap daemon.pending ELSE {}
           told == IF ends = {} THEN <<>> ELSE <<Event("reply", thinBudget.target, FALSE)>>
       IN  /\ daemon' = [daemon EXCEPT !.pending = @ \ ({c} \cup ends)]
           /\ Sends(told \o <<Event("reply", c, FALSE)>>)
           /\ answered' = answered \cup {c} \cup ends
    /\ UNCHANGED thinBudget /\ QuietDaemon
DaemonStatus ==
    /\ SpendsThin("news")
    /\ daemon' = [daemon EXCEPT !.online = ~@]
    /\ Sends(<<Event("status", NoThread, ~daemon.online)>>) /\ UNCHANGED answered /\ QuietDaemon
DaemonDocument ==
    /\ SpendsThin("news") /\ UNCHANGED daemon
    /\ Sends(<<Event("document", NoThread, FALSE)>>) /\ UNCHANGED answered /\ QuietDaemon

\* The connection breaks, with or without what was under way; the daemon keeps the session's work.
LinkBreaks ==
    /\ socket.up /\ SpendsThin("breaks")
    /\ \E n \in 0..Len(socket.wire) : socket' = [up |-> FALSE, wire |-> SubSeq(socket.wire, 1, n)]
    /\ UNCHANGED daemon /\ UNCHANGED answered /\ QuietDaemon

\* The daemon restarts and knows nothing.
DaemonRestarts ==
    /\ SpendsThin("restarts")
    /\ daemon' = [daemon EXCEPT !.instance = @ + 1, !.pending = {}]
    /\ socket' = [socket EXCEPT !.up = FALSE] /\ UNCHANGED answered /\ QuietDaemon

ThinNext ==
    \/ Dial \/ ReadMessage \/ DispatchMessage \/ Disconnected \/ Redial \/ ReplayEnds \/ Halts \/ FanTakes
    \/ DaemonStatus \/ DaemonDocument \/ LinkBreaks \/ DaemonRestarts
    \/ \E c \in Threads :
          \/ NewKeypair(c) \/ EncryptRead(c) \/ EncryptWrite(c) \/ NextMessageBoxIndex(c)
          \/ GetMessageBoxIndexCounter(c) \/ CreateCourierEnvelopesFromPayload(c)
          \/ CreateCourierEnvelopesFromMultiPayload(c) \/ CreateCourierEnvelopesFromTombstoneRange(c)
          \/ GetPKIDocumentRaw(c) \/ TombstoneRange(c) \/ StartResendingEncryptedMessage(c)
          \/ StartResendingCopyCommand(c) \/ StartResendingCopyCommandWithCourier(c)
          \/ CancelResendingEncryptedMessage(c) \/ CancelResendingCopyCommand(c) \/ BlockingSendMessage(c)
          \/ EventSink(c) \/ WriteMessage(c) \/ TakesEvent(c) \/ GivesUp(c) \/ StopEventSink(c)
          \/ FanDelivers(c) \/ Replays(c) \/ DaemonAnswers(c)

ThinSpec == ThinInit /\ [][ThinNext]_thinVars

----------------------------------------------------------------------------
\* Buffers hold what they can, subscribers are calls under way, tracked requests are Start calls.
ThinTypeOK ==
    /\ Len(eventSink) <= SinkCap /\ \A c \in Threads : Len(box[c]) <= 1
    /\ \A c \in drains : app[c].at \in {"write", "wait", "leave"}
    /\ \A c \in tracked : Kind(c) \in Resends /\ app[c].at \notin {"idle", "done"}

\* "Events are never silently dropped": every subscriber has been given every event since it
\* subscribed, up to the one being fanned out, in order and without a gap.
NoSilentLoss ==
    \A c \in drains :
        given[c] = IF fan.busy THEN (IF c \in fan.todo THEN fan.event.n - 1 ELSE fan.event.n)
                              ELSE serial - Len(eventSink)

\* A call that returns a reply returns the reply to its own request, though every call sees the
\* replies to all of them and a replayed request may be answered twice.
ReplyIsOwn == \A c \in Threads : app[c].got = "reply" => c \in answered

\* While the client reads from a daemon instance, every Start call that waits and was not cancelled
\* has written its request to that very instance, whatever reconnects and restarts came before.
Replayed ==
    \A c \in tracked : app[c].at = "wait" /\ reader.at \in {"reading", "dispatch"} => <<c, token>> \in writtenTo

\* A reply that a call returns is its own, the fan-out skips no event for a subscriber, and every
\* waiting Start call has been written to the daemon instance the client is connected to
\* (eventSinkWorker, redial, replayInFlightResends).
ThinSound == ThinTypeOK /\ NoSilentLoss /\ ReplyIsOwn /\ Replayed
=============================================================================
