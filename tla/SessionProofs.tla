---------------------------- MODULE SessionProofs ----------------------------
(***************************************************************************)
(* Whose is what in ClientSessions, for every number of clients and        *)
(* connections: connections, AppIDs, tokens, routes and queued replies     *)
(* belong to one thin client (OwnInv), whatever the clients do, and so a   *)
(* reply never reaches anybody else.                                       *)
(***************************************************************************)
EXTENDS ClientSessions, TLAPS

\* The AppID a and the connection c belong to the same thin client.
Owned(a, c) == conn[a].client = conn[c].client /\ conn[c].client # None

\* The AppIDs of c's client, and the queues that hold replies only to AppIDs of A.
AppsOf(c) == {a \in AppIDs : Owned(a, c)}
AllReplies(q, A) == \A i \in 1..Len(q) : q[i].type = "reply" => q[i].app \in A

\* A connection in use has a client, and an AppID of that client; the token of a client leads to its AppIDs, ...
OwnConns ==
    /\ \A c \in Conns : conn[c].pc = "none" => conn[c].client = None /\ conn[c].appID = None
    /\ \A c \in Conns : conn[c].pc # "none" => /\ conn[c].client \in Clients /\ conn[c].appID \in AppIDs
                                               /\ Owned(conn[c].appID, c)
    /\ tokenLock # None => conn[tokenLock].pc # "none"
OwnTokens == \A k \in Clients : clientTokens[k] # None => conn[clientTokens[k]].client = k
\* ... an AppID to its client's connection, in conns and in the ingress worker's hands, ...
OwnRoutes ==
    /\ \A a \in AppIDs : conns[a] # None => Owned(a, conns[a])
    /\ ingress.conn # None => ingress.app \in AppIDs /\ Owned(ingress.app, ingress.conn)
\* ... and the queues hold replies to their own client only.
OwnQueues ==
    /\ \A a \in AppIDs : disconnectedSessions[a] # None => AllReplies(disconnectedSessions[a].queue, {a})
    /\ \A c \in Conns : AllReplies(sendQueue[c], AppsOf(c))
OwnInv == OwnConns /\ OwnTokens /\ OwnRoutes /\ OwnQueues

ConnTypes == [pc : {"none", "new", "greeted", "open", "leaving", "left", "forgetting", "closed"},
              client : Clients \cup {None}, appID : AppIDs \cup {None},
              clientToken : BOOLEAN, explicitClose : BOOLEAN, done : BOOLEAN,
              requestCh : Int, resendCh : Int]
SessionTypes == [timer : Conns, queue : Seq(Messages)]

\* The shape of the maps; the counters of the channels are left open.
Shape ==
    /\ conn \in [Conns -> ConnTypes]
    /\ conns \in [AppIDs -> Conns \cup {None}]
    /\ clientTokens \in [Clients -> AppIDs \cup {None}]
    /\ tokenLock \in Conns \cup {None}
    /\ disconnectedSessions \in [AppIDs -> SessionTypes \cup {None}]
    /\ timer \in [Conns -> {"off", "armed", "fired", "forgetting", "cleaning"}]
    /\ sendQueue \in [Conns -> Seq(Messages)]
    /\ ingress \in [app : AppIDs \cup {None}, conn : Conns \cup {None}]
    /\ ingress # Idle => ingress.app \in AppIDs

\* The null value is none of the names, and the messages have their type.
LEMMA Constants ==
    /\ None \notin Clients /\ None \notin Conns /\ None \notin AppIDs /\ AppIDs = Conns
    /\ \A s \in SessionTypes : s # None
    /\ {Event("status"), Event("doc"), Event("token")} \subseteq Messages
    /\ \A a \in AppIDs : Reply(a) \in Messages
<1>1. None \notin Clients /\ None \notin Conns /\ None \notin AppIDs /\ AppIDs = Conns
    BY SessionAssumption DEF Conns, AppIDs
<1>2. {Event("status"), Event("doc"), Event("token")} \subseteq Messages
    BY DEF Event, Messages
<1>3. \A a \in AppIDs : Reply(a) \in Messages
    BY DEF Reply, Messages
<1>4. \A s \in SessionTypes : s # None
    BY SessionAssumption DEF SessionTypes
<1> QED
    BY <1>1, <1>2, <1>3, <1>4

\* What is sent to a connection goes behind what waits there, unless it is closed.
LEMMA SentTypes ==
    ASSUME Shape, NEW c \in Conns, NEW q \in Seq(Messages)
    PROVE  Sent(c, q) \in Seq(Messages)
BY DEF Shape, Sent

\* One message makes a queue.
LEMMA SingleTypes ==
    ASSUME NEW m \in Messages PROVE <<m>> \in Seq(Messages) /\ \A A : m.type # "reply" \/ m.app \in A => AllReplies(<<m>>, A)
<1>1. <<m>> \in Seq(Messages) /\ Len(<<m>>) = 1 /\ <<m>>[1] = m
    OBVIOUS
<1> QED
    BY <1>1 DEF AllReplies

\* f differs from g in the record of connection c, which becomes this as far as the proofs look at it.
Alike(f, g, c, pc, a, t) ==
    /\ f \in [Conns -> ConnTypes]
    /\ \A d \in Conns \ {c} : f[d] = g[d]
    /\ f[c].pc = pc /\ f[c].appID = a /\ f[c].clientToken = t
    /\ f[c].client = g[c].client
Becomes(c, pc, a, t) == Alike(conn', conn, c, pc, a, t)

\* Nobody's record changes, as far as the proofs look at it.
Quiet ==
    /\ conn' \in [Conns -> ConnTypes]
    /\ \A d \in Conns : /\ conn'[d].pc = conn[d].pc /\ conn'[d].appID = conn[d].appID
                         /\ conn'[d].clientToken = conn[d].clientToken /\ conn'[d].client = conn[d].client

\* The assignments to one field of a connection's record.
LEMMA FieldUpdates ==
    ASSUME NEW f \in [Conns -> ConnTypes], NEW c \in Conns
    PROVE  /\ \A v \in {"greeted", "open", "leaving", "left", "forgetting", "closed"} :
                 Alike([f EXCEPT ![c].pc = v], f, c, v, f[c].appID, f[c].clientToken)
           /\ \A v \in AppIDs : Alike([f EXCEPT ![c].appID = v], f, c, f[c].pc, v, f[c].clientToken)
           /\ \A v \in BOOLEAN : Alike([f EXCEPT ![c].clientToken = v], f, c, f[c].pc, f[c].appID, v)
           /\ \A v \in BOOLEAN : Alike([f EXCEPT ![c].explicitClose = v], f, c, f[c].pc, f[c].appID, f[c].clientToken)
           /\ \A v \in BOOLEAN : Alike([f EXCEPT ![c].done = v], f, c, f[c].pc, f[c].appID, f[c].clientToken)
           /\ \A v \in Int : Alike([f EXCEPT ![c].requestCh = v], f, c, f[c].pc, f[c].appID, f[c].clientToken)
           /\ \A v \in Int : Alike([f EXCEPT ![c].resendCh = v], f, c, f[c].pc, f[c].appID, f[c].clientToken)
<1>1. f[c] \in ConnTypes
    OBVIOUS
<1>2. ASSUME NEW r \in ConnTypes, r.client = f[c].client
      PROVE  Alike([f EXCEPT ![c] = r], f, c, r.pc, r.appID, r.clientToken)
    BY <1>2 DEF Alike
<1>3. ASSUME NEW v \in {"greeted", "open", "leaving", "left", "forgetting", "closed"}
      PROVE  Alike([f EXCEPT ![c].pc = v], f, c, v, f[c].appID, f[c].clientToken)
  <2> DEFINE q == [f[c] EXCEPT !.pc = v]
  <2>1. /\ q \in ConnTypes /\ q.client = f[c].client
        /\ q.pc = v /\ q.appID = f[c].appID /\ q.clientToken = f[c].clientToken
      BY <1>1 DEF ConnTypes
  <2>2. [f EXCEPT ![c].pc = v] = [f EXCEPT ![c] = q]
      OBVIOUS
  <2> HIDE DEF q
  <2> QED
      BY <1>2, <2>1, <2>2, Zenon
<1>4. ASSUME NEW v \in AppIDs
      PROVE  Alike([f EXCEPT ![c].appID = v], f, c, f[c].pc, v, f[c].clientToken)
  <2> DEFINE q == [f[c] EXCEPT !.appID = v]
  <2>1. /\ q \in ConnTypes /\ q.client = f[c].client
        /\ q.pc = f[c].pc /\ q.appID = v /\ q.clientToken = f[c].clientToken
      BY <1>1 DEF ConnTypes
  <2>2. [f EXCEPT ![c].appID = v] = [f EXCEPT ![c] = q]
      OBVIOUS
  <2> HIDE DEF q
  <2> QED
      BY <1>2, <2>1, <2>2, Zenon
<1>5. ASSUME NEW v \in BOOLEAN
      PROVE  Alike([f EXCEPT ![c].clientToken = v], f, c, f[c].pc, f[c].appID, v)
  <2> DEFINE q == [f[c] EXCEPT !.clientToken = v]
  <2>1. /\ q \in ConnTypes /\ q.client = f[c].client
        /\ q.pc = f[c].pc /\ q.appID = f[c].appID /\ q.clientToken = v
      BY <1>1 DEF ConnTypes
  <2>2. [f EXCEPT ![c].clientToken = v] = [f EXCEPT ![c] = q]
      OBVIOUS
  <2> HIDE DEF q
  <2> QED
      BY <1>2, <2>1, <2>2, Zenon
<1>6. ASSUME NEW v \in BOOLEAN
      PROVE  Alike([f EXCEPT ![c].explicitClose = v], f, c, f[c].pc, f[c].appID, f[c].clientToken)
  <2> DEFINE q == [f[c] EXCEPT !.explicitClose = v]
  <2>1. /\ q \in ConnTypes /\ q.client = f[c].client
        /\ q.pc = f[c].pc /\ q.appID = f[c].appID /\ q.clientToken = f[c].clientToken
      BY <1>1 DEF ConnTypes
  <2>2. [f EXCEPT ![c].explicitClose = v] = [f EXCEPT ![c] = q]
      OBVIOUS
  <2> HIDE DEF q
  <2> QED
      BY <1>2, <2>1, <2>2, Zenon
<1>7. ASSUME NEW v \in BOOLEAN
      PROVE  Alike([f EXCEPT ![c].done = v], f, c, f[c].pc, f[c].appID, f[c].clientToken)
  <2> DEFINE q == [f[c] EXCEPT !.done = v]
  <2>1. /\ q \in ConnTypes /\ q.client = f[c].client
        /\ q.pc = f[c].pc /\ q.appID = f[c].appID /\ q.clientToken = f[c].clientToken
      BY <1>1 DEF ConnTypes
  <2>2. [f EXCEPT ![c].done = v] = [f EXCEPT ![c] = q]
      OBVIOUS
  <2> HIDE DEF q
  <2> QED
      BY <1>2, <2>1, <2>2, Zenon
<1>8. ASSUME NEW v \in Int
      PROVE  Alike([f EXCEPT ![c].requestCh = v], f, c, f[c].pc, f[c].appID, f[c].clientToken)
  <2> DEFINE q == [f[c] EXCEPT !.requestCh = v]
  <2>1. /\ q \in ConnTypes /\ q.client = f[c].client
        /\ q.pc = f[c].pc /\ q.appID = f[c].appID /\ q.clientToken = f[c].clientToken
      BY <1>1 DEF ConnTypes
  <2>2. [f EXCEPT ![c].requestCh = v] = [f EXCEPT ![c] = q]
      OBVIOUS
  <2> HIDE DEF q
  <2> QED
      BY <1>2, <2>1, <2>2, Zenon
<1>9. ASSUME NEW v \in Int
      PROVE  Alike([f EXCEPT ![c].resendCh = v], f, c, f[c].pc, f[c].appID, f[c].clientToken)
  <2> DEFINE q == [f[c] EXCEPT !.resendCh = v]
  <2>1. /\ q \in ConnTypes /\ q.client = f[c].client
        /\ q.pc = f[c].pc /\ q.appID = f[c].appID /\ q.clientToken = f[c].clientToken
      BY <1>1 DEF ConnTypes
  <2>2. [f EXCEPT ![c].resendCh = v] = [f EXCEPT ![c] = q]
      OBVIOUS
  <2> HIDE DEF q
  <2> QED
      BY <1>2, <2>1, <2>2, Zenon
<1> QED
    BY <1>3, <1>4, <1>5, <1>6, <1>7, <1>8, <1>9

\* What each step does to the connections.
LEMMA ConnSteps ==
    ASSUME Shape
    PROVE  /\ \A c \in Conns : Greet(c) =>
                 \/ conn[c].pc = "new" /\ Becomes(c, "greeted", conn[c].appID, conn[c].clientToken)
                 \/ conn[c].pc = "greeted" /\ Becomes(c, "open", conn[c].appID, conn[c].clientToken)
           /\ \A c \in Conns : RegisterToken(c) => Becomes(c, conn[c].pc, conn[c].appID, TRUE)
           /\ \A c \in Conns : FlushQueuedReplies(c) => Becomes(c, conn[c].pc, conn[c].appID, TRUE)
           /\ \A c \in Conns : ResumeSession(c) /\ conn[c].client \in Clients =>
                 Becomes(c, conn[c].pc, clientTokens[conn[c].client], conn[c].clientToken)
           /\ \A c \in Conns : Leave(c, TRUE) \/ Leave(c, FALSE) =>
                 Becomes(c, "leaving", conn[c].appID, conn[c].clientToken)
           /\ \A c \in Conns : unregisterConn(c) => Becomes(c, "left", conn[c].appID, conn[c].clientToken)
           /\ \A c \in Conns : Settle(c) =>
                 \/ conn[c].clientToken /\ Becomes(c, "forgetting", conn[c].appID, TRUE)
                 \/ Becomes(c, "closed", conn[c].appID, FALSE)
           /\ \A c \in Conns : Closed(c) => Becomes(c, "closed", conn[c].appID, FALSE)
           /\ \A c \in Conns : ForgetToken(c) => Becomes(c, "closed", conn[c].appID, FALSE)
           /\ \A c \in Conns : Write(c) \/ WriteFails(c) \/ Request(c) \/ Fire(c) \/ ExpireSession(c)
                               \/ ExpireToken(c) \/ ExpireState(c) => Quiet
           /\ \A a \in AppIDs : EnqueueResend(a) \/ LookUpConnection(a) => Quiet
           /\ PickNextRequest => Quiet
           /\ DeliverReply => Quiet
           /\ \A type \in {"status", "doc"} : Broadcast(type) => Quiet
           /\ UNCHANGED vars => Quiet
<1> USE DEF Becomes
<1>0. conn \in [Conns -> ConnTypes]
    BY DEF Shape
<1>1. ASSUME NEW c \in Conns, Greet(c)
      PROVE  \/ conn[c].pc = "new" /\ Becomes(c, "greeted", conn[c].appID, conn[c].clientToken)
             \/ conn[c].pc = "greeted" /\ Becomes(c, "open", conn[c].appID, conn[c].clientToken)
    BY <1>0, <1>1, FieldUpdates, Zenon DEF Greet
<1>2. ASSUME NEW c \in Conns, RegisterToken(c) PROVE Becomes(c, conn[c].pc, conn[c].appID, TRUE)
    BY <1>0, <1>2, FieldUpdates, Zenon DEF RegisterToken
<1>3. ASSUME NEW c \in Conns, FlushQueuedReplies(c) PROVE Becomes(c, conn[c].pc, conn[c].appID, TRUE)
    BY <1>0, <1>3, FieldUpdates, Zenon DEF FlushQueuedReplies
<1>4. ASSUME NEW c \in Conns, ResumeSession(c), conn[c].client \in Clients
      PROVE  Becomes(c, conn[c].pc, clientTokens[conn[c].client], conn[c].clientToken)
  <2>1. clientTokens[conn[c].client] \in AppIDs /\ conn' = [conn EXCEPT ![c].appID = clientTokens[conn[c].client]]
      BY <1>4 DEF ResumeSession, Shape
  <2> QED
      BY <1>0, <2>1, FieldUpdates, Zenon
<1>5. ASSUME NEW c \in Conns, NEW e \in BOOLEAN, Leave(c, e)
      PROVE  Becomes(c, "leaving", conn[c].appID, conn[c].clientToken)
  <2> DEFINE f == [conn EXCEPT ![c].pc = "leaving"]
             g == [f EXCEPT ![c].done = TRUE]
             h == [g EXCEPT ![c].explicitClose = e]
  <2>1. conn' = h
      BY <1>5 DEF Leave
  <2>2. Alike(f, conn, c, "leaving", conn[c].appID, conn[c].clientToken)
      BY <1>0, FieldUpdates, Zenon
  <2> HIDE DEF f
  <2>3. Alike(g, f, c, f[c].pc, f[c].appID, f[c].clientToken)
    <3>1. f \in [Conns -> ConnTypes]
        BY <2>2 DEF Alike
    <3> QED
        BY <3>1, FieldUpdates, Zenon
  <2> HIDE DEF g
  <2>4. Alike(h, g, c, g[c].pc, g[c].appID, g[c].clientToken)
    <3>1. g \in [Conns -> ConnTypes]
        BY <2>3 DEF Alike
    <3> QED
        BY <3>1, FieldUpdates, Zenon
  <2> HIDE DEF h
  <2> QED
      BY <2>1, <2>2, <2>3, <2>4 DEF Alike
<1>6. ASSUME NEW c \in Conns, unregisterConn(c)
      PROVE  Becomes(c, "left", conn[c].appID, conn[c].clientToken)
  <2> DEFINE f == [conn EXCEPT ![c].pc = "left"]
             g == [f EXCEPT ![c].requestCh = 0]
             h == [g EXCEPT ![c].resendCh = 0]
  <2>1. conn' = h
      BY <1>6 DEF unregisterConn
  <2>2. Alike(f, conn, c, "left", conn[c].appID, conn[c].clientToken)
      BY <1>0, FieldUpdates, Zenon
  <2> HIDE DEF f
  <2>3. Alike(g, f, c, f[c].pc, f[c].appID, f[c].clientToken)
    <3>1. f \in [Conns -> ConnTypes]
        BY <2>2 DEF Alike
    <3>2. \A v \in Int : Alike([f EXCEPT ![c].requestCh = v], f, c, f[c].pc, f[c].appID, f[c].clientToken)
        BY <3>1, FieldUpdates, Zenon
    <3>3. 0 \in Int
        OBVIOUS
    <3> QED
        BY <3>2, <3>3, Zenon
  <2> HIDE DEF g
  <2>4. Alike(h, g, c, g[c].pc, g[c].appID, g[c].clientToken)
    <3>1. g \in [Conns -> ConnTypes]
        BY <2>3 DEF Alike
    <3>2. \A v \in Int : Alike([g EXCEPT ![c].resendCh = v], g, c, g[c].pc, g[c].appID, g[c].clientToken)
        BY <3>1, FieldUpdates, Zenon
    <3>3. 0 \in Int
        OBVIOUS
    <3> QED
        BY <3>2, <3>3, Zenon
  <2> HIDE DEF h
  <2> QED
      BY <2>1, <2>2, <2>3, <2>4 DEF Alike
<1>7. ASSUME NEW c \in Conns, Closed(c) PROVE Becomes(c, "closed", conn[c].appID, FALSE)
  <2> DEFINE f == [conn EXCEPT ![c].pc = "closed"]
             g == [f EXCEPT ![c].clientToken = FALSE]
             h == [g EXCEPT ![c].explicitClose = FALSE]
  <2>1. conn' = h
      BY <1>7 DEF Closed
  <2>2. Alike(f, conn, c, "closed", conn[c].appID, conn[c].clientToken)
      BY <1>0, FieldUpdates, Zenon
  <2> HIDE DEF f
  <2>3. Alike(g, f, c, f[c].pc, f[c].appID, FALSE)
    <3>1. f \in [Conns -> ConnTypes]
        BY <2>2 DEF Alike
    <3> QED
        BY <3>1, FieldUpdates, Zenon
  <2> HIDE DEF g
  <2>4. Alike(h, g, c, g[c].pc, g[c].appID, g[c].clientToken)
    <3>1. g \in [Conns -> ConnTypes]
        BY <2>3 DEF Alike
    <3> QED
        BY <3>1, FieldUpdates, Zenon
  <2> HIDE DEF h
  <2> QED
      BY <2>1, <2>2, <2>3, <2>4 DEF Alike
<1>8. ASSUME NEW c \in Conns, Settle(c)
      PROVE  \/ conn[c].clientToken /\ Becomes(c, "forgetting", conn[c].appID, TRUE)
             \/ Becomes(c, "closed", conn[c].appID, FALSE)
  <2>1. Closed(c) \/ (conn[c].clientToken /\ conn' = [conn EXCEPT ![c].pc = "forgetting"])
      BY <1>8, Zenon DEF Settle
  <2>2. conn[c].clientToken \in BOOLEAN
      BY <1>0 DEF ConnTypes
  <2>3. CASE Closed(c)
      BY <1>7, <2>3, Zenon
  <2>4. CASE conn[c].clientToken /\ conn' = [conn EXCEPT ![c].pc = "forgetting"]
    <3>1. Becomes(c, "forgetting", conn[c].appID, conn[c].clientToken)
        BY <1>0, <2>4, FieldUpdates, Zenon
    <3> QED
        BY <2>2, <2>4, <3>1, Zenon
  <2> QED
      BY <2>1, <2>3, <2>4, Zenon
<1>9. ASSUME NEW c \in Conns, ForgetToken(c) PROVE Becomes(c, "closed", conn[c].appID, FALSE)
    BY <1>7, <1>9, Zenon DEF ForgetToken
<1>q. ASSUME NEW c \in Conns, Becomes(c, conn[c].pc, conn[c].appID, conn[c].clientToken) PROVE Quiet
    BY <1>q DEF Alike, Quiet
<1>s. ASSUME UNCHANGED conn PROVE Quiet
    BY <1>0, <1>s DEF Quiet
<1>10. ASSUME NEW c \in Conns, \/ Write(c) \/ WriteFails(c) \/ Request(c) \/ Fire(c) \/ ExpireSession(c)
                              \/ ExpireToken(c) \/ ExpireState(c)
       PROVE  Quiet
  <2>1. UNCHANGED conn \/ conn' = [conn EXCEPT ![c].done = TRUE] \/ conn' = [conn EXCEPT ![c].requestCh = @ + 1]
      BY <1>10 DEF Write, WriteFails, Request, Fire, ExpireSession, ExpireToken, ExpireState
  <2>2. conn[c].requestCh + 1 \in Int
      BY <1>0 DEF ConnTypes
  <2>3. CASE conn' = [conn EXCEPT ![c].done = TRUE]
    <3>1. Becomes(c, conn[c].pc, conn[c].appID, conn[c].clientToken)
        BY <1>0, <2>3, FieldUpdates, Zenon
    <3> QED
        BY <1>q, <3>1, Zenon
  <2>4. CASE conn' = [conn EXCEPT ![c].requestCh = @ + 1]
    <3>1. Becomes(c, conn[c].pc, conn[c].appID, conn[c].clientToken)
        BY <1>0, <2>2, <2>4, FieldUpdates, Zenon
    <3> QED
        BY <1>q, <3>1, Zenon
  <2> QED
      BY <1>s, <2>1, <2>3, <2>4, Zenon
<1>11. ASSUME NEW a \in AppIDs, EnqueueResend(a) \/ LookUpConnection(a) PROVE Quiet
  <2>1. conns[a] \in Conns \cup {None}
      BY DEF Shape
  <2>2. conn' = conn \/ (conns[a] # None /\ conn' = [conn EXCEPT ![conns[a]].resendCh = @ + 1])
      BY <1>11 DEF EnqueueResend, LookUpConnection
  <2>3. \A c \in Conns : conn[c].resendCh + 1 \in Int
      BY <1>0 DEF ConnTypes
  <2>4. ASSUME conns[a] \in Conns, conn' = [conn EXCEPT ![conns[a]].resendCh = @ + 1]
        PROVE  Quiet
    <3> DEFINE c == conns[a]
    <3>1. conn' = [conn EXCEPT ![c].resendCh = conn[c].resendCh + 1] /\ conn[c].resendCh + 1 \in Int /\ c \in Conns
        BY <2>3, <2>4
    <3> HIDE DEF c
    <3>2. Becomes(c, conn[c].pc, conn[c].appID, conn[c].clientToken)
        BY <1>0, <3>1, FieldUpdates, Zenon
    <3> QED
        BY <1>q, <3>1, <3>2
  <2> QED
      BY <1>s, <2>1, <2>2, <2>4
<1>12. ASSUME PickNextRequest PROVE Quiet
  <2>1. \/ conn' = conn
        \/ \E c : conn' = [conn EXCEPT ![c].resendCh = @ - 1] \/ conn' = [conn EXCEPT ![c].requestCh = @ - 1]
      BY <1>12, Zenon DEF PickNextRequest
  <2>2. \A c \in Conns : conn[c].resendCh - 1 \in Int /\ conn[c].requestCh - 1 \in Int
      BY <1>0 DEF ConnTypes
  <2>3. ASSUME NEW c, c \notin Conns, \/ conn' = [conn EXCEPT ![c].resendCh = @ - 1]
                                      \/ conn' = [conn EXCEPT ![c].requestCh = @ - 1]
        PROVE  conn' = conn
      BY <1>0, <2>3
  <2>4. ASSUME NEW c \in Conns, \/ conn' = [conn EXCEPT ![c].resendCh = @ - 1]
                                 \/ conn' = [conn EXCEPT ![c].requestCh = @ - 1]
        PROVE  Quiet
    <3>1. Becomes(c, conn[c].pc, conn[c].appID, conn[c].clientToken)
        BY <1>0, <2>2, <2>4, FieldUpdates, ZenonT(30)
    <3> QED
        BY <1>q, <3>1
  <2> QED
      BY <1>s, <2>1, <2>3, <2>4
<1>13. ASSUME DeliverReply \/ (\E type \in {"status", "doc"} : Broadcast(type)) \/ UNCHANGED vars PROVE Quiet
    BY <1>13, <1>s, Zenon DEF DeliverReply, Broadcast, vars
<1> HIDE DEF Becomes
<1> QED
    BY <1>1, <1>2, <1>3, <1>4, <1>5, <1>6, <1>7, <1>8, <1>9, <1>10, <1>11, <1>12, <1>13, Zenon

\* A connection is accepted: it gets its client and an AppID of its own.
Joins(k, c) ==
    /\ conn' \in [Conns -> ConnTypes]
    /\ \A d \in Conns \ {c} : conn'[d] = conn[d]
    /\ conn'[c].pc = "new" /\ conn'[c].client = k /\ conn'[c].appID = c /\ conn'[c].clientToken = FALSE

\* newIncomingConn and registerConn work on a connection that was not there before.
LEMMA NewConnStep ==
    ASSUME Shape, NEW k \in Clients, NEW c \in Conns, onNewConn(k, c)
    PROVE  Joins(k, c) /\ conn[c].pc = "none"
<1> DEFINE r == [Unused EXCEPT !.pc = "new"]
           q == [r EXCEPT !.client = k]
           n == [q EXCEPT !.appID = c]
<1>1. conn' = [conn EXCEPT ![c] = n] /\ conn[c].pc = "none"
    BY DEF onNewConn
<1>2. Unused \in ConnTypes /\ Unused.clientToken = FALSE
    BY DEF Unused, ConnTypes
<1>3. r \in ConnTypes /\ r.pc = "new" /\ r.clientToken = FALSE
    BY <1>2 DEF ConnTypes
<1> HIDE DEF r
<1>4. q \in ConnTypes /\ q.pc = "new" /\ q.client = k /\ q.clientToken = FALSE
    BY <1>3 DEF ConnTypes
<1> HIDE DEF q
<1>5. n \in ConnTypes /\ n.pc = "new" /\ n.client = k /\ n.appID = c /\ n.clientToken = FALSE
    BY <1>4 DEF ConnTypes, AppIDs
<1> HIDE DEF n
<1> QED
    BY <1>1, <1>5 DEF Shape, Joins

\* The daemon starts with empty maps.
LEMMA InitShape == ASSUME Init PROVE Shape
<1>1. conn \in [Conns -> ConnTypes]
    BY DEF Init, Unused, ConnTypes
<1>2. sendQueue \in [Conns -> Seq(Messages)]
    BY DEF Init
<1>3. ingress \in [app : AppIDs \cup {None}, conn : Conns \cup {None}]
    BY DEF Init, Idle
<1> QED
    BY <1>1, <1>2, <1>3 DEF Init, Shape

\* Connections.
LEMMA ConnShape ==
    ASSUME Shape, OwnConns, [Next]_vars
    PROVE  conn' \in [Conns -> ConnTypes]
<1>0. conn \in [Conns -> ConnTypes] /\ clientTokens \in [Clients -> AppIDs \cup {None}]
    BY DEF Shape
<1>1. ASSUME NEW k \in Clients, NEW c \in Conns, onNewConn(k, c) PROVE conn' \in [Conns -> ConnTypes]
    BY <1>1, NewConnStep, Zenon DEF Joins
<1>2. ASSUME NEW c \in Conns, ResumeSession(c) PROVE conn' \in [Conns -> ConnTypes]
  <2>1. conn[c].client \in Clients
      BY <1>2 DEF OwnConns, ResumeSession, SendsToken
  <2> QED
      BY <1>2, <2>1, ConnSteps DEF Becomes, Alike
<1> QED
    BY <1>1, <1>2, ConnSteps, Zenon DEF Next, Becomes, Alike, Quiet

\* The maps of AppIDs to connections, of tokens to AppIDs and of timers.
LEMMA MapShape ==
    ASSUME Shape, [Next]_vars
    PROVE  /\ conns' \in [AppIDs -> Conns \cup {None}]
           /\ clientTokens' \in [Clients -> AppIDs \cup {None}]
           /\ tokenLock' \in Conns \cup {None}
           /\ timer' \in [Conns -> {"off", "armed", "fired", "forgetting", "cleaning"}]
<1>0. /\ conns \in [AppIDs -> Conns \cup {None}] /\ clientTokens \in [Clients -> AppIDs \cup {None}]
      /\ tokenLock \in Conns \cup {None} /\ timer \in [Conns -> {"off", "armed", "fired", "forgetting", "cleaning"}]
      /\ \A c \in Conns : conn[c].appID \in AppIDs \cup {None}
    BY DEF Shape, ConnTypes
<1>1. conns' \in [AppIDs -> Conns \cup {None}]
  <2>1. \/ UNCHANGED conns
        \/ \E c \in Conns : conns' = [conns EXCEPT ![c] = c]
        \/ \E c \in Conns : \E x, y : conns' = [conns EXCEPT ![x] = None, ![y] = c]
        \/ \E x : conns' = [conns EXCEPT ![x] = None]
      BY ZenonT(30) DEF Next, vars, rotation, onNewConn, Greet, Write, WriteFails, Request, RegisterToken, ResumeSession,
         FlushQueuedReplies, Leave, unregisterConn, Settle, ForgetToken, Fire, ExpireSession, ExpireToken, ExpireState,
         EnqueueResend, LookUpConnection, PickNextRequest, DeliverReply, Broadcast
  <2> QED
      BY <1>0, <2>1
<1>2. clientTokens' \in [Clients -> AppIDs \cup {None}]
  <2>1. \/ UNCHANGED clientTokens
        \/ \E c \in Conns : clientTokens' = [clientTokens EXCEPT ![conn[c].client] = conn[c].appID]
        \/ \E x : clientTokens' = [clientTokens EXCEPT ![x] = None]
      BY ZenonT(30) DEF Next, vars, sessionVars, onNewConn, Greet, Write, WriteFails, Request, RegisterToken, ResumeSession,
         FlushQueuedReplies, Leave, unregisterConn, Settle, ForgetToken, Fire, ExpireSession, ExpireToken, ExpireState,
         EnqueueResend, LookUpConnection, PickNextRequest, DeliverReply, Broadcast
  <2> QED
      BY <1>0, <2>1
<1>3. tokenLock' \in Conns \cup {None}
    BY <1>0, ZenonT(30) DEF Next, vars, sessionVars, onNewConn, Greet, Write, WriteFails, Request, RegisterToken, ResumeSession,
       FlushQueuedReplies, Leave, unregisterConn, Settle, ForgetToken, Fire, ExpireSession, ExpireToken, ExpireState,
       EnqueueResend, LookUpConnection, PickNextRequest, DeliverReply, Broadcast
<1>4. timer' \in [Conns -> {"off", "armed", "fired", "forgetting", "cleaning"}]
  <2>1. \/ UNCHANGED timer
        \/ \E x : \E s \in {"off", "armed", "fired", "forgetting", "cleaning"} : timer' = [timer EXCEPT ![x] = s]
    <3>1. CASE \E c \in Conns : Settle(c) \/ Fire(c) \/ ExpireToken(c) \/ ExpireState(c)
        BY <3>1, Zenon DEF Settle, Fire, ExpireToken, ExpireState
    <3>2. CASE \E c \in Conns : FlushQueuedReplies(c) \/ ExpireSession(c)
        BY <3>2 DEF FlushQueuedReplies, ExpireSession
    <3>3. CASE UNCHANGED timer
        BY <3>3
    <3> QED
        BY <3>1, <3>2, <3>3, Zenon DEF Next, vars, sessionVars, onNewConn, Greet, Write, WriteFails, Request,
           RegisterToken, ResumeSession, Leave, unregisterConn, ForgetToken,
           EnqueueResend, LookUpConnection, PickNextRequest, DeliverReply, Broadcast
  <2> QED
      BY <1>0, <2>1
<1> QED
    BY <1>1, <1>2, <1>3, <1>4

\* The queues, and the reply the ingress worker holds.
LEMMA QueueShape ==
    ASSUME Shape, OwnConns, [Next]_vars
    PROVE  /\ disconnectedSessions' \in [AppIDs -> SessionTypes \cup {None}]
           /\ sendQueue' \in [Conns -> Seq(Messages)]
           /\ ingress' \in [app : AppIDs \cup {None}, conn : Conns \cup {None}]
           /\ ingress' # Idle => ingress'.app \in AppIDs
<1>0. /\ disconnectedSessions \in [AppIDs -> SessionTypes \cup {None}] /\ sendQueue \in [Conns -> Seq(Messages)]
      /\ ingress \in [app : AppIDs \cup {None}, conn : Conns \cup {None}]
      /\ ingress # Idle => ingress.app \in AppIDs
      /\ conns \in [AppIDs -> Conns \cup {None}]
      /\ \A c \in Conns : conn[c].appID \in AppIDs \cup {None}
    BY DEF Shape, ConnTypes
<1>1. disconnectedSessions' \in [AppIDs -> SessionTypes \cup {None}]
  <2>1. ASSUME NEW x PROVE [disconnectedSessions EXCEPT ![x] = None] \in [AppIDs -> SessionTypes \cup {None}]
      BY <1>0, Zenon
  <2>2. ASSUME NEW x, NEW c \in Conns
        PROVE  [disconnectedSessions EXCEPT ![x] = [timer |-> c, queue |-> <<>>]] \in [AppIDs -> SessionTypes \cup {None}]
    <3>1. [timer |-> c, queue |-> <<>>] \in SessionTypes
        BY DEF SessionTypes
    <3> QED
        BY <1>0, <3>1, Zenon
  <2>3. CASE DeliverReply
    <3> DEFINE a == ingress.app
    <3>1. a \in AppIDs
      <4>1. ingress # Idle
          BY <2>3, Zenon DEF DeliverReply
      <4> QED
          BY <1>0, <4>1
    <3>2. \/ UNCHANGED disconnectedSessions
          \/ /\ disconnectedSessions[a] # None
             /\ disconnectedSessions' = [disconnectedSessions EXCEPT ![a].queue = Append(@, Reply(a))]
        BY <2>3 DEF DeliverReply
    <3>3. CASE /\ disconnectedSessions[a] # None
               /\ disconnectedSessions' = [disconnectedSessions EXCEPT ![a].queue = Append(@, Reply(a))]
      <4>1. disconnectedSessions[a] \in SessionTypes /\ Reply(a) \in Messages
          BY <1>0, <3>1, <3>3, Constants
      <4> HIDE DEF a
      <4>2. [disconnectedSessions[a] EXCEPT !.queue = Append(@, Reply(a))] \in SessionTypes
          BY <4>1, SMTT(30) DEF SessionTypes
      <4> QED
          BY <1>0, <3>3, <4>2, Zenon
    <3> QED
        BY <1>0, <3>2, <3>3
  <2>4. CASE UNCHANGED disconnectedSessions
      BY <1>0, <2>4
  <2>5. ASSUME NEW c \in Conns, Settle(c) \/ FlushQueuedReplies(c) \/ ExpireSession(c)
        PROVE  disconnectedSessions' \in [AppIDs -> SessionTypes \cup {None}]
      BY <1>0, <2>1, <2>2, <2>5 DEF Settle, FlushQueuedReplies, ExpireSession
  <2> QED
      BY <2>3, <2>4, <2>5, ZenonT(30) DEF Next, vars, sessionVars, onNewConn, Greet, Write, WriteFails, Request,
         RegisterToken, ResumeSession, Leave, unregisterConn, ForgetToken, Fire, ExpireToken, ExpireState,
         EnqueueResend, LookUpConnection, PickNextRequest, Broadcast
<1>2. sendQueue' \in [Conns -> Seq(Messages)]
  <2>1. ASSUME NEW c \in Conns, NEW m \in Messages PROVE Sent(c, <<m>>) \in Seq(Messages)
      BY SentTypes, SingleTypes, Zenon
  <2>2. ASSUME NEW c, NEW q \in Seq(Messages) PROVE [sendQueue EXCEPT ![c] = q] \in [Conns -> Seq(Messages)]
      BY <1>0, Zenon
  <2>3. ASSUME NEW c \in Conns, Greet(c) \/ RegisterToken(c) PROVE sendQueue' \in [Conns -> Seq(Messages)]
      BY <2>1, <2>2, <2>3, Constants DEF Greet, RegisterToken, SendResponse
  <2>4. ASSUME NEW c \in Conns, Write(c) \/ WriteFails(c) \/ Leave(c, TRUE) \/ Leave(c, FALSE)
        PROVE  sendQueue' \in [Conns -> Seq(Messages)]
    <3>1. <<>> \in Seq(Messages)
        OBVIOUS
    <3> QED
      <4>1. sendQueue' = [sendQueue EXCEPT ![c] = <<>>]
          BY <2>4, Zenon DEF Write, WriteFails, Leave
      <4> QED
          BY <2>2, <3>1, <4>1, Zenon
  <2>5. ASSUME NEW c \in Conns, FlushQueuedReplies(c) PROVE sendQueue' \in [Conns -> Seq(Messages)]
    <3> DEFINE s == disconnectedSessions[conn[c].appID]
               q == IF s = None THEN <<>> ELSE s.queue
    <3>1. q \in Seq(Messages)
      <4>1. conn[c].appID \in AppIDs
          BY <2>5, Constants DEF FlushQueuedReplies, OwnConns
      <4> QED
          BY <1>0, <4>1 DEF SessionTypes
    <3>2. sendQueue' = [sendQueue EXCEPT ![c] = Sent(c, Append(q, Event("token")))]
        BY <2>5, Zenon DEF FlushQueuedReplies
    <3> HIDE DEF q
    <3>3. Append(q, Event("token")) \in Seq(Messages)
        BY <3>1, Constants
    <3> QED
        BY <2>2, <3>2, <3>3, SentTypes, Zenon
  <2>6. CASE DeliverReply
    <3>1. ingress.app \in AppIDs /\ ingress.conn \in Conns \cup {None}
        BY <1>0, <2>6 DEF DeliverReply
    <3> QED
        BY <1>0, <2>1, <2>2, <2>6, <3>1, Constants DEF DeliverReply, SendResponse
  <2>7. ASSUME NEW type \in {"status", "doc"}, Broadcast(type) PROVE sendQueue' \in [Conns -> Seq(Messages)]
    <3>1. \A c \in Conns : Sent(c, <<Event(type)>>) \in Seq(Messages)
        BY <2>1, Constants
    <3> QED
        BY <1>0, <2>7, <3>1 DEF Broadcast
  <2> QED
      BY <1>0, <2>3, <2>4, <2>5, <2>6, <2>7, Zenon DEF Next, vars, onNewConn, Request, ResumeSession, unregisterConn, Settle,
         ForgetToken, Fire, ExpireSession, ExpireToken, ExpireState, EnqueueResend, LookUpConnection, PickNextRequest
<1>3. \/ UNCHANGED ingress \/ ingress' = Idle
      \/ \E a \in AppIDs : ingress' = [app |-> a, conn |-> conns[a]]
    BY ZenonT(30) DEF Next, vars, onNewConn, Greet, Write, WriteFails, Request, RegisterToken, ResumeSession,
       FlushQueuedReplies, Leave, unregisterConn, Settle, ForgetToken, Fire, ExpireSession, ExpireToken, ExpireState,
       EnqueueResend, LookUpConnection, PickNextRequest, DeliverReply, Broadcast
<1>4. /\ ingress' \in [app : AppIDs \cup {None}, conn : Conns \cup {None}]
      /\ ingress' # Idle => ingress'.app \in AppIDs
    BY <1>0, <1>3 DEF Idle
<1> QED
    BY <1>1, <1>2, <1>4

\* Every step keeps the shape of the maps.
LEMMA StepShape ==
    ASSUME Shape, OwnConns, [Next]_vars
    PROVE  Shape'
<1>1. ConnTypes' = ConnTypes /\ SessionTypes' = SessionTypes /\ Idle' = Idle
    BY DEF ConnTypes, SessionTypes, Idle
<1> QED
    BY ConnShape, MapShape, QueueShape DEF Shape

\* Queues of replies.
LEMMA RepliesJoined ==
    ASSUME NEW A, NEW q \in Seq(Messages), NEW r \in Seq(Messages), AllReplies(q, A), AllReplies(r, A)
    PROVE  AllReplies(q \o r, A)
<1> SUFFICES ASSUME NEW i \in 1..Len(q \o r), (q \o r)[i].type = "reply" PROVE (q \o r)[i].app \in A
    BY DEF AllReplies
<1>1. Len(q \o r) = Len(q) + Len(r) /\ Len(q) \in Nat /\ Len(r) \in Nat
    OBVIOUS
<1>2. (q \o r)[i] = IF i <= Len(q) THEN q[i] ELSE r[i - Len(q)]
    BY <1>1
<1>3. CASE i <= Len(q)
    BY <1>1, <1>2, <1>3 DEF AllReplies
<1>4. CASE i > Len(q)
  <2>1. i - Len(q) \in 1..Len(r)
      BY <1>1, <1>4
  <2> QED
      BY <1>1, <1>2, <1>4, <2>1 DEF AllReplies
<1> QED
    BY <1>1, <1>3, <1>4

\* A message is put behind a queue.
LEMMA RepliesAppended ==
    ASSUME NEW A, NEW q \in Seq(Messages), NEW m \in Messages, AllReplies(q, A), m.type # "reply" \/ m.app \in A
    PROVE  AllReplies(Append(q, m), A)
<1>1. Append(q, m) = q \o <<m>> /\ <<m>> \in Seq(Messages)
    OBVIOUS
<1>2. AllReplies(<<m>>, A)
    BY SingleTypes
<1> QED
    BY <1>1, <1>2, RepliesJoined, Zenon

\* sendResponse: what is sent goes behind what waits at the connection.
LEMMA RepliesSent ==
    ASSUME Shape, NEW A, NEW c \in Conns, NEW q \in Seq(Messages), AllReplies(sendQueue[c], A), AllReplies(q, A)
    PROVE  AllReplies(Sent(c, q), A)
<1>1. sendQueue[c] \in Seq(Messages)
    BY DEF Shape
<1> QED
    BY <1>1, RepliesJoined DEF Sent

\* Events are not replies.
LEMMA MessageTypes ==
    /\ \A t : Event(t).type = t
    /\ \A a : Reply(a).type = "reply" /\ Reply(a).app = a
BY DEF Event, Reply

\* A connection keeps the client it was accepted from.
LEMMA ClientsKept ==
    ASSUME Shape, OwnConns, [Next]_vars
    PROVE  /\ \A c \in Conns : conn[c].pc # "none" => conn'[c].pc # "none" /\ conn'[c].client = conn[c].client
           /\ \A c \in Conns : conn'[c].pc = "none" => /\ conn[c].pc = "none" /\ conn'[c].client = conn[c].client
                                                       /\ conn'[c].appID = conn[c].appID
           /\ \A a, c \in Conns : Owned(a, c) => Owned(a, c)' /\ conn'[a].client = conn[a].client
<1>1. ASSUME NEW k \in Clients, NEW c \in Conns, onNewConn(k, c)
      PROVE  \A d \in Conns : \/ conn'[d] = conn[d]
                              \/ conn[d].pc = "none" /\ conn'[d].pc # "none"
    BY <1>1, NewConnStep, Zenon DEF Joins
<1>2. ASSUME NEW c \in Conns, NEW pc, NEW a, NEW t, Becomes(c, pc, a, t), pc # "none", conn[c].pc # "none"
      PROVE  \A d \in Conns : /\ conn'[d].client = conn[d].client /\ (conn'[d].pc = "none" <=> conn[d].pc = "none")
                              /\ conn[d].pc = "none" => conn'[d].appID = conn[d].appID
    BY <1>2 DEF Becomes, Alike
<1>3. ASSUME NEW c \in Conns, ResumeSession(c) PROVE conn[c].client \in Clients /\ conn[c].pc = "open"
    BY <1>3 DEF OwnConns, ResumeSession, SendsToken
<1>4. ASSUME NEW c \in Conns, \/ Greet(c) \/ RegisterToken(c) \/ ResumeSession(c) \/ FlushQueuedReplies(c)
                              \/ Leave(c, TRUE) \/ Leave(c, FALSE) \/ unregisterConn(c) \/ Settle(c) \/ ForgetToken(c)
      PROVE  \A d \in Conns : /\ conn'[d].client = conn[d].client /\ (conn'[d].pc = "none" <=> conn[d].pc = "none")
                              /\ conn[d].pc = "none" => conn'[d].appID = conn[d].appID
  <2>1. conn[c].pc # "none"
      BY <1>4, Constants, Zenon DEF Greet, RegisterToken, ResumeSession, SendsToken, FlushQueuedReplies, OwnConns, Leave,
         unregisterConn, Settle, ForgetToken
  <2>2. \E pc, a, t : pc # "none" /\ Becomes(c, pc, a, t)
      BY <1>3, <1>4, <2>1, ConnSteps, Zenon
  <2> QED
      BY <1>2, <2>1, <2>2, ZenonT(30)
<1>5. ASSUME Quiet
      PROVE  \A d \in Conns : /\ conn'[d].client = conn[d].client /\ (conn'[d].pc = "none" <=> conn[d].pc = "none")
                              /\ conn[d].pc = "none" => conn'[d].appID = conn[d].appID
    BY <1>5 DEF Quiet
<1>6. \A d \in Conns : \/ /\ conn'[d].client = conn[d].client /\ (conn'[d].pc = "none" <=> conn[d].pc = "none")
                          /\ conn[d].pc = "none" => conn'[d].appID = conn[d].appID
                       \/ conn[d].pc = "none" /\ conn'[d].pc # "none"
    BY <1>1, <1>4, <1>5, ConnSteps, Zenon DEF Next
<1>7. \A c \in Conns : conn[c].client # None => conn[c].pc # "none"
    BY DEF OwnConns
<1> QED
    BY <1>6, <1>7 DEF Owned

\* Nobody owns anything at the start.
LEMMA InitOwn == ASSUME Init PROVE OwnInv
<1>1. \A c \in Conns : conn[c].pc = "none" /\ conn[c].client = None /\ conn[c].appID = None
    BY DEF Init, Unused
<1>2. ingress.conn = None /\ tokenLock = None
    BY DEF Init, Idle
<1>3. \A c \in Conns : AllReplies(sendQueue[c], AppsOf(c))
    BY DEF Init, AllReplies
<1> QED
    BY <1>1, <1>2, <1>3 DEF Init, OwnInv, OwnConns, OwnTokens, OwnRoutes, OwnQueues

\* A connection keeps its client; the AppID it takes over in handleSessionToken is its client's.
LEMMA StepOwnConns ==
    ASSUME Shape, OwnConns, OwnTokens, [Next]_vars
    PROVE  OwnConns'
<1>1. ASSUME NEW c \in Conns, conn'[c].pc = "none" PROVE conn'[c].client = None /\ conn'[c].appID = None
    BY <1>1, ClientsKept DEF OwnConns
<1>2. ASSUME NEW c \in Conns, conn'[c].pc # "none"
      PROVE  /\ conn'[c].client \in Clients /\ conn'[c].appID \in AppIDs
             /\ conn'[conn'[c].appID].client = conn'[c].client
  <2>1. ASSUME conn[c].pc # "none", conn'[c].appID = conn[c].appID
        PROVE  /\ conn'[c].client \in Clients /\ conn'[c].appID \in AppIDs
             /\ conn'[conn'[c].appID].client = conn'[c].client
    <3>1. conn[c].client \in Clients /\ conn[c].appID \in AppIDs /\ Owned(conn[c].appID, c)
        BY <2>1 DEF OwnConns
    <3>2. Owned(conn[c].appID, c) => conn'[conn[c].appID].client = conn'[c].client /\ conn'[c].client # None
        BY <3>1, ClientsKept, Constants DEF Owned
    <3> QED
        BY <2>1, <3>1, <3>2, ClientsKept DEF Owned
  <2>2. ASSUME NEW k \in Clients, NEW d \in Conns, onNewConn(k, d)
        PROVE  /\ conn'[c].client \in Clients /\ conn'[c].appID \in AppIDs
             /\ conn'[conn'[c].appID].client = conn'[c].client
    <3>1. CASE c = d
      <4>1. conn'[d].client = k /\ conn'[d].appID = d
        <5>1. Joins(k, d)
            BY <2>2, NewConnStep
        <5> QED
            BY <5>1 DEF Joins
      <4> QED
          BY <3>1, <4>1, Constants
    <3>2. CASE c # d
        BY <1>2, <2>1, <2>2, <3>2, NewConnStep, Zenon DEF Joins
    <3> QED
        BY <3>1, <3>2
  <2>3. ASSUME ResumeSession(c)
        PROVE  /\ conn'[c].client \in Clients /\ conn'[c].appID \in AppIDs
             /\ conn'[conn'[c].appID].client = conn'[c].client
    <3> DEFINE a == clientTokens[conn[c].client]
    <3>1. conn[c].pc = "open" /\ conn[c].client \in Clients /\ a # None
        BY <2>3 DEF OwnConns, ResumeSession, SendsToken
    <3>2. a \in AppIDs /\ conn[a].client = conn[c].client
        BY <3>1, ZenonT(30) DEF Shape, OwnTokens
    <3>3. conn'[c].appID = a /\ conn'[c].client = conn[c].client
        BY <2>3, <3>1, ConnSteps, Zenon DEF Becomes, Alike
    <3>4. Owned(a, c)
        BY <3>1, <3>2, Constants DEF Owned
    <3> HIDE DEF a
    <3>5. conn'[a].client = conn[a].client
        BY <3>2, <3>4, ClientsKept, Constants, ZenonT(30)
    <3> QED
        BY <3>1, <3>2, <3>3, <3>5, Constants DEF Owned
  <2>4. ASSUME NEW d \in Conns, d # c, ResumeSession(d) PROVE conn'[c] = conn[c]
    <3>1. conn[d].client \in Clients
        BY <2>4 DEF OwnConns, ResumeSession, SendsToken
    <3> QED
        BY <2>4, <3>1, ConnSteps DEF Becomes, Alike
  <2>5. ASSUME NEW d \in Conns, \/ Greet(d) \/ RegisterToken(d) \/ FlushQueuedReplies(d) \/ Leave(d, TRUE)
                                \/ Leave(d, FALSE) \/ unregisterConn(d) \/ Settle(d) \/ ForgetToken(d)
        PROVE  conn'[c].appID = conn[c].appID
    <3>1. \E pc, t : Becomes(d, pc, conn[d].appID, t)
        BY <2>5, ConnSteps, Zenon
    <3> QED
        BY <3>1 DEF Becomes, Alike
  <2>6. ASSUME Quiet PROVE conn'[c].appID = conn[c].appID
      BY <2>6 DEF Quiet
  <2>7. conn[c].pc # "none" \/ \E k \in Clients, d \in Conns : onNewConn(k, d)
    <3>1. ASSUME ~\E k \in Clients, d \in Conns : onNewConn(k, d) PROVE conn[c].pc # "none"
      <4>1. ASSUME NEW d \in Conns, \/ Greet(d) \/ RegisterToken(d) \/ ResumeSession(d) \/ FlushQueuedReplies(d)
                                    \/ Leave(d, TRUE) \/ Leave(d, FALSE) \/ unregisterConn(d) \/ Settle(d) \/ ForgetToken(d)
            PROVE  conn[d].pc # "none" /\ (c # d => conn'[c] = conn[c])
        <5>1. conn[d].pc # "none"
            BY <4>1, Constants, Zenon DEF Greet, RegisterToken, ResumeSession, SendsToken, FlushQueuedReplies, OwnConns, Leave,
               unregisterConn, Settle, ForgetToken
        <5>2. \E pc, a, t : Becomes(d, pc, a, t)
            BY <4>1, <5>1, ConnSteps, Zenon DEF OwnConns
        <5> QED
            BY <5>1, <5>2 DEF Becomes, Alike
      <4>2. ASSUME Quiet PROVE conn[c].pc # "none"
          BY <1>2, <4>2 DEF Quiet
      <4> QED
          BY <1>2, <3>1, <4>1, <4>2, ConnSteps, Zenon DEF Next
    <3> QED
        BY <3>1
  <2> QED
      BY <2>1, <2>2, <2>3, <2>4, <2>5, <2>6, <2>7, ConnSteps, Zenon DEF Next
<1>3. tokenLock' # None => conn'[tokenLock'].pc # "none"
  <2>1. \/ UNCHANGED tokenLock \/ tokenLock' = None
        \/ \E c \in Conns : conn[c].pc = "open" /\ tokenLock' = c
      BY ZenonT(30) DEF Next, vars, sessionVars, onNewConn, Greet, Write, WriteFails, Request, RegisterToken, ResumeSession,
         SendsToken, FlushQueuedReplies, Leave, unregisterConn, Settle, ForgetToken, Fire, ExpireSession, ExpireToken,
         ExpireState, EnqueueResend, LookUpConnection, PickNextRequest, DeliverReply, Broadcast
  <2>2. tokenLock \in Conns \cup {None}
      BY DEF Shape
  <2> QED
      BY <2>1, <2>2, ClientsKept DEF OwnConns
<1> QED
    BY <1>1, <1>2, <1>3, Constants DEF OwnConns, Owned

\* handleSessionToken registers for a client an AppID of its own.
LEMMA StepOwnTokens ==
    ASSUME Shape, OwnConns, OwnTokens, [Next]_vars
    PROVE  OwnTokens'
<1> SUFFICES ASSUME NEW k \in Clients, clientTokens'[k] # None PROVE conn'[clientTokens'[k]].client = k
    BY DEF OwnTokens
<1>1. clientTokens \in [Clients -> AppIDs \cup {None}]
    BY DEF Shape
<1>2. \/ UNCHANGED clientTokens
      \/ \E c \in Conns : /\ conn[c].pc = "open"
                          /\ clientTokens' = [clientTokens EXCEPT ![conn[c].client] = conn[c].appID]
      \/ \E x : clientTokens' = [clientTokens EXCEPT ![x] = None]
    BY ZenonT(30) DEF Next, vars, sessionVars, onNewConn, Greet, Write, WriteFails, Request, RegisterToken, SendsToken,
       ResumeSession, FlushQueuedReplies, Leave, unregisterConn, Settle, ForgetToken, Fire, ExpireSession, ExpireToken,
       ExpireState, EnqueueResend, LookUpConnection, PickNextRequest, DeliverReply, Broadcast
<1>3. clientTokens'[k] \in AppIDs /\ conn[clientTokens'[k]].client = k
  <2>1. CASE clientTokens'[k] = clientTokens[k]
      BY <1>1, <2>1 DEF OwnTokens
  <2>2. ASSUME NEW c \in Conns, conn[c].pc = "open", conn[c].client = k,
               clientTokens' = [clientTokens EXCEPT ![conn[c].client] = conn[c].appID]
        PROVE  clientTokens'[k] \in AppIDs /\ conn[clientTokens'[k]].client = k
      BY <1>1, <2>2 DEF OwnConns, Owned
  <2> QED
      BY <1>1, <1>2, <2>1, <2>2
<1>4. Owned(clientTokens'[k], clientTokens'[k])
    BY <1>3, Constants DEF Owned
<1> QED
    BY <1>3, <1>4, ClientsKept, Constants

\* registerConn and handleSessionToken lead an AppID to a connection of its client only.
LEMMA StepOwnRoutes ==
    ASSUME Shape, OwnConns, OwnTokens, OwnRoutes, [Next]_vars
    PROVE  OwnRoutes'
<1>0. /\ conns \in [AppIDs -> Conns \cup {None}] /\ clientTokens \in [Clients -> AppIDs \cup {None}]
      /\ ingress \in [app : AppIDs \cup {None}, conn : Conns \cup {None}] /\ AppIDs = Conns
    BY Constants DEF Shape
<1>1. ASSUME NEW a \in AppIDs, conns'[a] # None
      PROVE  conns'[a] \in Conns /\ conn'[a].client = conn'[conns'[a]].client /\ conn'[a].client # None
  <2>1. ASSUME conns'[a] = conns[a]
        PROVE  conns'[a] \in Conns /\ conn'[a].client = conn'[conns'[a]].client /\ conn'[a].client # None
    <3>1. PICK c \in Conns : c = conns[a] /\ Owned(a, c)
        BY <1>0, <1>1, <2>1 DEF OwnRoutes
    <3>2. Owned(a, c)'
        BY <1>0, <3>1, ClientsKept
    <3> QED
        BY <2>1, <3>1, <3>2 DEF Owned
  <2>2. ASSUME NEW k \in Clients, NEW c \in Conns, onNewConn(k, c), a = c
        PROVE  conns'[a] = c /\ conn'[c].client = k
      BY <1>0, <2>2, NewConnStep, Zenon DEF onNewConn, Joins
  <2>3. ASSUME NEW c \in Conns, ResumeSession(c), a = clientTokens[conn[c].client]
        PROVE  conns'[a] = c /\ Owned(a, c)
    <3>1. conn[c].client \in Clients
        BY <2>3 DEF OwnConns, ResumeSession, SendsToken
    <3>2. conn[a].client = conn[c].client
        BY <1>0, <2>3, <3>1, Constants DEF OwnTokens
    <3>3. conns' = [conns EXCEPT ![conn[c].appID] = None, ![a] = c]
        BY <2>3 DEF ResumeSession
    <3> QED
        BY <1>0, <3>1, <3>2, <3>3, Constants DEF Owned
  <2>4. ASSUME NEW c \in Conns, ResumeSession(c), a # clientTokens[conn[c].client]
        PROVE  conns'[a] \in {None, conns[a]}
    <3> DEFINE f == [conns EXCEPT ![conn[c].appID] = None]
    <3>1. conns' = [f EXCEPT ![clientTokens[conn[c].client]] = c] /\ f[a] \in {None, conns[a]}
        BY <1>0, <2>4 DEF ResumeSession
    <3>2. f \in [AppIDs -> Conns \cup {None}]
        BY <1>0, Zenon
    <3> HIDE DEF f
    <3> QED
        BY <2>4, <3>1, <3>2
  <2>5. ASSUME NEW c \in Conns, unregisterConn(c) PROVE conns'[a] \in {None, conns[a]}
      BY <1>0, <2>5 DEF unregisterConn
  <2>6. ASSUME NEW k \in Clients, NEW c \in Conns, onNewConn(k, c), a # c PROVE conns'[a] = conns[a]
      BY <1>0, <2>6 DEF onNewConn
  <2>7. \/ UNCHANGED conns
        \/ \E k \in Clients, c \in Conns : onNewConn(k, c)
        \/ \E c \in Conns : ResumeSession(c) \/ unregisterConn(c)
      BY Zenon DEF Next, vars, rotation, Greet, Write, WriteFails, Request, RegisterToken,
         FlushQueuedReplies, Leave, Settle, ForgetToken, Fire, ExpireSession, ExpireToken, ExpireState,
         EnqueueResend, LookUpConnection, PickNextRequest, DeliverReply, Broadcast
  <2>8. CASE \E k \in Clients, c \in Conns : onNewConn(k, c)
      BY <2>1, <2>2, <2>6, <2>8, Constants
  <2>9. ASSUME NEW c \in Conns, ResumeSession(c)
        PROVE  conns'[a] \in Conns /\ conn'[a].client = conn'[conns'[a]].client /\ conn'[a].client # None
    <3>1. CASE a = clientTokens[conn[c].client]
      <4>1. conns'[a] = c /\ Owned(a, c)'
          BY <1>0, <2>3, <2>9, <3>1, ClientsKept
      <4> QED
          BY <4>1 DEF Owned
    <3>2. CASE a # clientTokens[conn[c].client]
        BY <1>1, <2>1, <2>4, <2>9, <3>2
    <3> QED
        BY <3>1, <3>2
  <2> QED
      BY <1>1, <2>1, <2>5, <2>7, <2>8, <2>9
<1>2. ASSUME ingress'.conn # None
      PROVE  /\ ingress'.app \in AppIDs /\ ingress'.conn \in Conns
             /\ conn'[ingress'.app].client = conn'[ingress'.conn].client /\ conn'[ingress'.conn].client # None
  <2>1. \/ UNCHANGED ingress \/ ingress' = Idle
        \/ \E a \in AppIDs : ingress' = [app |-> a, conn |-> conns[a]]
      BY ZenonT(30) DEF Next, vars, onNewConn, Greet, Write, WriteFails, Request, RegisterToken, ResumeSession,
         FlushQueuedReplies, Leave, unregisterConn, Settle, ForgetToken, Fire, ExpireSession, ExpireToken, ExpireState,
         EnqueueResend, LookUpConnection, PickNextRequest, DeliverReply, Broadcast
  <2>2. Idle.conn = None
      BY DEF Idle
  <2>3. ingress'.app \in AppIDs /\ ingress'.conn \in Conns /\ Owned(ingress'.app, ingress'.conn)
      BY <1>0, <1>2, <2>1, <2>2 DEF OwnRoutes
  <2>4. \A a, c \in Conns : Owned(a, c) => conn'[a].client = conn'[c].client /\ conn'[c].client # None
      BY ClientsKept DEF Owned
  <2> QED
      BY <1>0, <2>3, <2>4
<1> QED
    BY <1>1, <1>2 DEF OwnRoutes, Owned

\* A reply is sent or queued under the AppID it is for, and a queue is flushed to the connection that took it over.
LEMMA StepOwnQueues ==
    ASSUME Shape, OwnInv, [Next]_vars
    PROVE  OwnQueues'
<1>0. /\ disconnectedSessions \in [AppIDs -> SessionTypes \cup {None}] /\ sendQueue \in [Conns -> Seq(Messages)]
      /\ ingress \in [app : AppIDs \cup {None}, conn : Conns \cup {None}]
      /\ ingress # Idle => ingress.app \in AppIDs
      /\ AppIDs = Conns
    BY Constants DEF Shape
<1>1. ASSUME NEW a \in AppIDs, disconnectedSessions'[a] # None
      PROVE  AllReplies(disconnectedSessions'[a].queue, {a})
  <2>1. ASSUME disconnectedSessions'[a] \in {disconnectedSessions[a], None}
        PROVE  AllReplies(disconnectedSessions'[a].queue, {a})
      BY <1>1, <2>1 DEF OwnInv, OwnQueues
  <2>2. ASSUME NEW x, disconnectedSessions' = [disconnectedSessions EXCEPT ![x] = None]
        PROVE  disconnectedSessions'[a] \in {disconnectedSessions[a], None}
      BY <1>0, <2>2
  <2>3. ASSUME NEW x, NEW c, disconnectedSessions' = [disconnectedSessions EXCEPT ![x] = [timer |-> c, queue |-> <<>>]]
        PROVE  AllReplies(disconnectedSessions'[a].queue, {a})
    <3>1. disconnectedSessions'[a] = disconnectedSessions[a] \/ disconnectedSessions'[a] = [timer |-> c, queue |-> <<>>]
        BY <1>0, <2>3
    <3>2. AllReplies(<<>>, {a})
        BY DEF AllReplies
    <3> QED
        BY <2>1, <3>1, <3>2
  <2>4. CASE DeliverReply
    <3> DEFINE b == ingress.app
    <3>1. b \in AppIDs
      <4>1. ingress # Idle
          BY <2>4, Zenon DEF DeliverReply
      <4> QED
          BY <1>0, <4>1
    <3>2. \/ UNCHANGED disconnectedSessions
          \/ /\ disconnectedSessions[b] # None
             /\ disconnectedSessions' = [disconnectedSessions EXCEPT ![b].queue = Append(@, Reply(b))]
        BY <2>4 DEF DeliverReply
    <3> HIDE DEF b
    <3>3. ASSUME disconnectedSessions[b] # None, b = a,
                 disconnectedSessions' = [disconnectedSessions EXCEPT ![b].queue = Append(@, Reply(b))]
          PROVE  AllReplies(disconnectedSessions'[a].queue, {a})
      <4>1. disconnectedSessions[a] \in SessionTypes /\ AllReplies(disconnectedSessions[a].queue, {a})
          BY <1>0, <3>3, Zenon DEF OwnInv, OwnQueues
      <4>2. disconnectedSessions'[a].queue = Append(disconnectedSessions[a].queue, Reply(a))
            /\ disconnectedSessions[a].queue \in Seq(Messages)
          BY <1>0, <3>3, <4>1 DEF SessionTypes
      <4> QED
          BY <4>1, <4>2, RepliesAppended, MessageTypes, Constants
    <3>4. ASSUME b # a, disconnectedSessions' = [disconnectedSessions EXCEPT ![b].queue = Append(@, Reply(b))]
          PROVE  disconnectedSessions'[a] = disconnectedSessions[a]
        BY <1>0, <3>4
    <3> QED
        BY <2>1, <3>2, <3>3, <3>4
  <2>5. CASE UNCHANGED disconnectedSessions
      BY <2>1, <2>5
  <2>6. ASSUME NEW c \in Conns, Settle(c) PROVE AllReplies(disconnectedSessions'[a].queue, {a})
      BY <2>3, <2>5, <2>6, Zenon DEF Settle
  <2>7. ASSUME NEW c \in Conns, FlushQueuedReplies(c) \/ ExpireSession(c)
        PROVE  AllReplies(disconnectedSessions'[a].queue, {a})
      BY <2>1, <2>2, <2>7, Zenon DEF FlushQueuedReplies, ExpireSession
  <2> QED
      BY <2>4, <2>5, <2>6, <2>7, ZenonT(30) DEF Next, vars, sessionVars, onNewConn, Greet, Write, WriteFails, Request,
         RegisterToken, ResumeSession, Leave, unregisterConn, ForgetToken, Fire, ExpireToken, ExpireState,
         EnqueueResend, LookUpConnection, PickNextRequest, Broadcast
<1>2. ASSUME NEW d \in Conns PROVE AllReplies(sendQueue'[d], AppsOf(d)')
  <2> DEFINE Sends == \/ sendQueue'[d] = sendQueue[d] \/ sendQueue'[d] = <<>>
                      \/ \E q \in Seq(Messages) : AllReplies(q, AppsOf(d)) /\ sendQueue'[d] = Sent(d, q)
  <2>1. AppsOf(d) \subseteq AppsOf(d)'
      BY <1>0, ClientsKept DEF OwnInv, AppsOf
  <2>2. AllReplies(sendQueue[d], AppsOf(d))
      BY DEF OwnInv, OwnQueues
  <2>3. Sends
    <3>1. \A m \in Messages : m.type # "reply" => <<m>> \in Seq(Messages) /\ AllReplies(<<m>>, AppsOf(d))
        BY SingleTypes, Zenon
    <3>2. ASSUME NEW c \in Conns, NEW t \in {"status", "doc", "token"},
                 sendQueue' = [sendQueue EXCEPT ![c] = Sent(c, <<Event(t)>>)]
          PROVE  Sends
      <4>1. Event(t) \in Messages /\ Event(t).type # "reply"
          BY Constants, MessageTypes
      <4> QED
          BY <1>0, <3>1, <3>2, <4>1, Zenon
    <3>3. ASSUME NEW c \in Conns, Greet(c) \/ RegisterToken(c) PROVE Sends
      <4>1. \E t \in {"status", "doc", "token"} : sendQueue' = [sendQueue EXCEPT ![c] = Sent(c, <<Event(t)>>)]
          BY <3>3 DEF Greet, RegisterToken, SendResponse
      <4> QED
          BY <3>2, <4>1, Zenon
    <3>4. ASSUME NEW c \in Conns, Write(c) \/ WriteFails(c) \/ Leave(c, TRUE) \/ Leave(c, FALSE) PROVE Sends
      <4>1. sendQueue' = [sendQueue EXCEPT ![c] = <<>>]
          BY <3>4, Zenon DEF Write, WriteFails, Leave
      <4> QED
          BY <1>0, <4>1
    <3>5. ASSUME NEW type \in {"status", "doc"}, Broadcast(type) PROVE Sends
      <4>1. sendQueue'[d] \in {sendQueue[d], Sent(d, <<Event(type)>>)}
          BY <3>5 DEF Broadcast
      <4>2. Event(type) \in Messages /\ Event(type).type # "reply"
          BY Constants, MessageTypes
      <4> QED
          BY <3>1, <4>1, <4>2, Zenon
    <3>6. CASE DeliverReply
      <4> DEFINE a == ingress.app
                 c == ingress.conn
      <4>1. \/ UNCHANGED sendQueue
            \/ c # None /\ sendQueue' = [sendQueue EXCEPT ![c] = Sent(c, <<Reply(a)>>)]
          BY <3>6, Zenon DEF DeliverReply, SendResponse
      <4>2. c # None => a \in AppIDs /\ Owned(a, c)
          BY DEF OwnInv, OwnRoutes
      <4> HIDE DEF a, c
      <4>3. a \in AppIDs /\ Owned(a, d) => <<Reply(a)>> \in Seq(Messages) /\ AllReplies(<<Reply(a)>>, AppsOf(d))
          BY SingleTypes, Constants, MessageTypes DEF AppsOf
      <4> QED
          BY <1>0, <4>1, <4>2, <4>3, Zenon
    <3>7. ASSUME NEW c \in Conns, FlushQueuedReplies(c) PROVE Sends
      <4> DEFINE s == disconnectedSessions[conn[c].appID]
                 q == IF s = None THEN <<>> ELSE s.queue
      <4>1. conn[c].appID \in AppIDs /\ Owned(conn[c].appID, c)
          BY <3>7, Constants DEF FlushQueuedReplies, OwnInv, OwnConns
      <4>2. q \in Seq(Messages)
          BY <1>0, <4>1 DEF SessionTypes
      <4>3. AllReplies(q, AppsOf(c))
        <5>1. CASE s = None
            BY <5>1 DEF AllReplies
        <5>2. CASE s # None
          <6>1. AllReplies(s.queue, {conn[c].appID})
              BY <4>1, <5>2 DEF OwnInv, OwnQueues
          <6> QED
              BY <4>1, <5>2, <6>1 DEF AllReplies, AppsOf
        <5> QED
            BY <5>1, <5>2
      <4>4. sendQueue' = [sendQueue EXCEPT ![c] = Sent(c, Append(q, Event("token")))]
          BY <3>7, Zenon DEF FlushQueuedReplies
      <4> HIDE DEF q
      <4>5. Append(q, Event("token")) \in Seq(Messages) /\ AllReplies(Append(q, Event("token")), AppsOf(c))
          BY <4>2, <4>3, RepliesAppended, MessageTypes, Constants
      <4> QED
          BY <1>0, <4>4, <4>5, Zenon
    <3>8. CASE UNCHANGED sendQueue
        BY <3>8
    <3> HIDE DEF Sends
    <3> QED
        BY <3>3, <3>4, <3>5, <3>6, <3>7, <3>8, Zenon DEF Next, vars, onNewConn, Request, ResumeSession, unregisterConn, Settle,
           ForgetToken, Fire, ExpireSession, ExpireToken, ExpireState, EnqueueResend, LookUpConnection, PickNextRequest
  <2>4. AllReplies(sendQueue'[d], AppsOf(d))
    <3>1. AllReplies(<<>>, AppsOf(d))
        BY DEF AllReplies
    <3> QED
        BY <2>2, <2>3, <3>1, RepliesSent
  <2> QED
      BY <2>1, <2>4 DEF AllReplies
<1> QED
    BY <1>1, <1>2 DEF OwnQueues

\* Ownership is an invariant, however clients and timers interleave.
LEMMA InvariantOwn == Spec => [](Shape /\ OwnInv)
<1>1. Init => Shape /\ OwnInv
    BY InitShape, InitOwn
<1>2. Shape /\ OwnInv /\ [Next]_vars => (Shape /\ OwnInv)'
    BY StepShape, StepOwnConns, StepOwnTokens, StepOwnRoutes, StepOwnQueues DEF OwnInv
<1> QED
    BY <1>1, <1>2, PTL DEF Spec

\* A reply only ever goes to the thin client that asked for it (handleReply, queueReply, handleSessionToken),
\* whatever connections a client opens, resumes or abandons in the meantime.
THEOREM RepliesToOwner == Spec => []RepliesReachOwner
<1>1. Shape /\ OwnInv => RepliesReachOwner
  <2> SUFFICES ASSUME Shape, OwnInv, NEW c \in Conns, NEW i \in 1..Len(sendQueue[c]), sendQueue[c][i].type = "reply"
               PROVE  conn[sendQueue[c][i].app].client = conn[c].client
      BY DEF RepliesReachOwner
  <2> QED
      BY DEF OwnInv, OwnQueues, AllReplies, AppsOf, Owned
<1> QED
    BY <1>1, InvariantOwn, PTL
=============================================================================
