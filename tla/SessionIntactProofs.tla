------------------------- MODULE SessionIntactProofs -------------------------
(***************************************************************************)
(* The sessions of ClientSessions stay whole, for every number of clients  *)
(* and connections.  SInv says in which of four situations a connection in *)
(* use is, and what the grace timers stand for; it holds for clients that  *)
(* come back only when their last connection has been torn down and not    *)
(* while its grace period is just expiring.                                *)
(***************************************************************************)
EXTENDS SessionProofs

Alive(c) == conn[c].pc \notin {"none", "closed"}
Token(c) == clientTokens[conn[c].client]

\* A thin client has one connection at a time.
OneAlive == \A c, d \in Conns : Alive(c) /\ Alive(d) /\ conn[c].client = conn[d].client => c = d

\* A grace timer belongs to the session its connection left behind; once it
\* has fired its client is not connected.
TimerInv ==
    \A c \in Conns : timer[c] # "off" =>
        /\ conn[c].pc = "closed"
        /\ timer[c] \in {"armed", "fired"} =>
              disconnectedSessions[conn[c].appID] # None /\ disconnectedSessions[conn[c].appID].timer = c
        /\ timer[c] # "armed" => \A d \in Conns : conn[d].client = conn[c].client => conn[d].pc = "closed"
        /\ timer[c] = "cleaning" => Token(c) = None

DisconnectedInv ==
    \A a \in AppIDs : LET s == disconnectedSessions[a] IN
        s # None => timer[s.timer] \in {"armed", "fired"} /\ conn[s.timer].appID = a

\* A token leads to state that is not cleaned up, but for the moment after a
\* ThinClose in which it is being forgotten.
TokenInv ==
    \A k \in Clients : clientTokens[k] \in cleaned =>
        \E c \in Conns : conn[c].client = k /\ conn[c].pc = "forgetting"

\* A connection before, while and after it takes up a session.
FreshConn(c) ==
    /\ conn[c].appID = c /\ c \notin cleaned /\ disconnectedSessions[c] = None /\ Token(c) # c
    /\ conn[c].pc # "left" => conns[c] = c
    /\ \A d \in Conns \ {c} : conn[d].appID # c
TakingOver(c) ==
    LET a == conn[c].appID IN
    conn[c].pc = "open" /\ ~conn[c].clientToken /\ Token(c) = a /\ conns[a] = c /\ a \notin cleaned
HasSession(c) ==
    LET a == conn[c].appID IN
    /\ conn[c].pc \notin {"new", "greeted"} /\ Token(c) = a
    /\ disconnectedSessions[a] = None /\ a \notin cleaned
    /\ conn[c].pc # "left" => conns[a] = c

ConnInv ==
    \A c \in Conns : Alive(c) =>
        \/ conn[c].pc = "forgetting" /\ conn[c].clientToken /\ tokenLock # c /\ conn[c].appID \in cleaned
        \/ conn[c].pc # "forgetting" /\ conn[c].clientToken /\ tokenLock # c /\ HasSession(c)
        \/ conn[c].pc # "forgetting" /\ ~conn[c].clientToken /\ tokenLock # c /\ FreshConn(c)
        \/ tokenLock = c /\ TakingOver(c)

CleanedInv == cleaned \subseteq AppIDs /\ \A a \in cleaned : conn[a].client # None
LockInv == tokenLock # None => Alive(tokenLock)

SInv == OneAlive /\ TimerInv /\ DisconnectedInv /\ TokenInv /\ ConnInv /\ CleanedInv /\ LockInv /\ KeptStateHasTimer

\* What the proofs below need of the invariants of ownership.
LEMMA OwnFacts ==
    ASSUME Shape, OwnInv
    PROVE  /\ \A c \in Conns : conn[c].pc = "none" => conn[c].client = None /\ conn[c].appID = None
           /\ \A c \in Conns : conn[c].pc # "none" => /\ conn[c].client \in Clients /\ conn[c].appID \in Conns
                                                      /\ conn[conn[c].appID].client = conn[c].client
           /\ \A k \in Clients : clientTokens[k] # None => clientTokens[k] \in Conns /\ conn[clientTokens[k]].client = k
           /\ None \notin Clients /\ None \notin Conns /\ AppIDs = Conns
BY Constants DEF OwnInv, OwnConns, OwnTokens, Owned, Shape

\* A step that does not touch the sessions.
Restful ==
    /\ Quiet
    /\ UNCHANGED <<conns, clientTokens, tokenLock, timer, cleaned>>
    /\ \A a \in AppIDs : /\ disconnectedSessions'[a] = None <=> disconnectedSessions[a] = None
                         /\ disconnectedSessions[a] # None => disconnectedSessions'[a].timer = disconnectedSessions[a].timer

\* The writers, the scheduler, the ingress worker and the broadcasts do not touch the sessions.
LEMMA RestfulSteps ==
    ASSUME Shape,
           \/ \E c \in Conns : Write(c) \/ WriteFails(c) \/ Request(c)
           \/ \E a \in AppIDs : EnqueueResend(a) \/ LookUpConnection(a)
           \/ PickNextRequest \/ DeliverReply
           \/ \E type \in {"status", "doc"} : Broadcast(type)
           \/ UNCHANGED vars
    PROVE  Restful
<1>1. Quiet
    BY ConnSteps, Zenon
<1>2. UNCHANGED <<conns, clientTokens, tokenLock, timer, cleaned>>
    BY Zenon DEF vars, rotation, sessionVars, Write, WriteFails, Request, EnqueueResend, LookUpConnection,
       PickNextRequest, DeliverReply, Broadcast
<1>3. CASE DeliverReply
  <2>0. disconnectedSessions \in [AppIDs -> SessionTypes \cup {None}]
      BY DEF Shape
  <2>1. \/ UNCHANGED disconnectedSessions
        \/ /\ disconnectedSessions[ingress.app] # None
           /\ disconnectedSessions' = [disconnectedSessions EXCEPT ![ingress.app].queue = Append(@, Reply(ingress.app))]
      BY <1>3 DEF DeliverReply
  <2>2. ASSUME NEW b \in AppIDs, NEW m \in Messages, disconnectedSessions[b] # None,
               disconnectedSessions' = [disconnectedSessions EXCEPT ![b].queue = Append(@, m)]
        PROVE  \A a \in AppIDs : /\ disconnectedSessions'[a] = None <=> disconnectedSessions[a] = None
                                 /\ disconnectedSessions[a] # None =>
                                       disconnectedSessions'[a].timer = disconnectedSessions[a].timer
    <3> DEFINE s == disconnectedSessions[b]
    <3>1. s \in SessionTypes
        BY <2>0, <2>2
    <3>2. /\ disconnectedSessions'[b] = [s EXCEPT !.queue = Append(@, m)]
          /\ \A a \in AppIDs \ {b} : disconnectedSessions'[a] = disconnectedSessions[a]
        BY <2>0, <2>2
    <3>3. [s EXCEPT !.queue = Append(@, m)].timer = s.timer
        BY <3>1 DEF SessionTypes
    <3>4. disconnectedSessions'[b] # None
      <4>1. [s EXCEPT !.queue = Append(@, m)] \in SessionTypes
          BY <3>1, SMTT(30) DEF SessionTypes
      <4> QED
          BY <3>2, <4>1, Constants
    <3> QED
        BY <2>2, <3>2, <3>3, <3>4
  <2>3. ingress.app \in AppIDs
    <3>1. ingress # Idle
        BY <1>3, Zenon DEF DeliverReply
    <3> QED
        BY <3>1 DEF Shape
  <2> QED
      BY <1>1, <1>2, <2>1, <2>2, <2>3, Constants DEF Restful
<1>4. CASE UNCHANGED disconnectedSessions
    BY <1>1, <1>2, <1>4, Zenon DEF Restful
<1> QED
    BY <1>3, <1>4, Zenon DEF vars, sessionVars, Write, WriteFails, Request, EnqueueResend, LookUpConnection,
       PickNextRequest, Broadcast

\* Such a step keeps the sessions as they are.
LEMMA RestfulPreserves ==
    ASSUME Shape, OwnInv, SInv, Restful
    PROVE  SInv'
<1>0. /\ \A d \in Conns : /\ conn'[d].pc = conn[d].pc /\ conn'[d].appID = conn[d].appID
                          /\ conn'[d].clientToken = conn[d].clientToken /\ conn'[d].client = conn[d].client
      /\ conns' = conns /\ clientTokens' = clientTokens /\ tokenLock' = tokenLock /\ timer' = timer /\ cleaned' = cleaned
      /\ \A a \in AppIDs : /\ disconnectedSessions'[a] = None <=> disconnectedSessions[a] = None
                           /\ disconnectedSessions[a] # None => disconnectedSessions'[a].timer = disconnectedSessions[a].timer
      /\ AppIDs = Conns /\ tokenLock \in Conns \cup {None}
      /\ \A c \in Conns : conn[c].pc # "none" => conn[c].appID \in AppIDs
      /\ \A a \in AppIDs : disconnectedSessions[a] # None => disconnectedSessions[a].timer \in Conns
    BY OwnFacts, SMTT(30) DEF Restful, Quiet, Shape, SessionTypes
<1>1. OneAlive'
    BY <1>0 DEF SInv, OneAlive, Alive
<1>2. TimerInv'
    BY <1>0 DEF SInv, TimerInv, Token
<1>3. DisconnectedInv'
    BY <1>0 DEF SInv, DisconnectedInv
<1>4. TokenInv'
    BY <1>0 DEF SInv, TokenInv
<1>5. ConnInv'
    BY <1>0 DEF SInv, ConnInv, Alive, Token, FreshConn, TakingOver, HasSession
<1>6. CleanedInv' /\ LockInv'
    BY <1>0 DEF SInv, CleanedInv, LockInv, Alive
<1>7. KeptStateHasTimer'
    BY <1>0 DEF SInv, KeptStateHasTimer
<1> QED
    BY <1>1, <1>2, <1>3, <1>4, <1>5, <1>6, <1>7 DEF SInv

\* A connection is accepted: the AppID drawn for it is nobody else's.
LEMMA AcceptPreserves ==
    ASSUME Shape, OwnInv, SInv, ~Overlap, ~CloseCalls, NEW k \in Clients, NEW c \in Conns, onNewConn(k, c)
    PROVE  SInv'
<1>0. /\ \A d \in Conns \ {c} : conn'[d] = conn[d]
      /\ conn[c].pc = "none" /\ conn[c].client = None /\ conn[c].appID = None
      /\ conn'[c].pc = "new" /\ conn'[c].client = k /\ conn'[c].appID = c /\ ~conn'[c].clientToken
      /\ clientTokens' = clientTokens /\ tokenLock' = tokenLock /\ timer' = timer /\ cleaned' = cleaned
      /\ disconnectedSessions' = disconnectedSessions
  <2>1. Joins(k, c) /\ conn[c].pc = "none"
      BY NewConnStep
  <2> QED
      BY <2>1, OwnFacts DEF Joins, onNewConn, sessionVars
<1>1. /\ \A d \in Conns : conn[d].client = k => conn[d].pc = "closed" /\ timer[d] \in {"off", "armed"}
      /\ conns'[c] = c /\ \A a \in AppIDs \ {c} : conns'[a] = conns[a]
    BY OwnFacts DEF onNewConn, OfClient, Expiring, Shape
<1>2. /\ \A d \in Conns : conn[d].pc # "none" => conn[d].appID \in Conns \ {c}
      /\ \A j \in Clients : clientTokens[j] # c
      /\ \A d \in Conns : conn[d].appID # c
    BY <1>0, OwnFacts
<1>3. c \notin cleaned /\ disconnectedSessions[c] = None /\ tokenLock # c
  <2>1. c \notin cleaned
      BY <1>0, SMTT(30) DEF SInv, CleanedInv
  <2>2. disconnectedSessions[c] = None
      BY <1>2, OwnFacts DEF SInv, DisconnectedInv, Shape, SessionTypes
  <2>3. tokenLock # c
      BY <1>0, OwnFacts DEF SInv, LockInv, Alive
  <2> QED
      BY <2>1, <2>2, <2>3
<1>4. /\ AppIDs = Conns /\ tokenLock \in Conns \cup {None} /\ None \notin Conns
      /\ \A a \in AppIDs : disconnectedSessions[a] # None => disconnectedSessions[a].timer \in Conns
    BY OwnFacts DEF Shape, SessionTypes
<1>5. OneAlive'
    BY <1>0, <1>1 DEF SInv, OneAlive, Alive
<1>6. TimerInv'
    BY <1>0, <1>1, <1>2, <1>4, SMTT(30) DEF SInv, TimerInv, Token
<1>7. DisconnectedInv'
    BY <1>0, <1>2, <1>4 DEF SInv, DisconnectedInv
<1>8. TokenInv'
    BY <1>0, SMTT(30) DEF SInv, TokenInv
<1>9. ConnInv'
    BY <1>0, <1>1, <1>2, <1>3, <1>4, SMTT(30) DEF SInv, ConnInv, Alive, Token, FreshConn, TakingOver, HasSession
<1>10. CleanedInv' /\ LockInv'
    BY <1>0, <1>3, <1>4, OwnFacts DEF SInv, CleanedInv, LockInv, Alive
<1>11. KeptStateHasTimer'
    BY <1>0, <1>2, <1>4 DEF SInv, KeptStateHasTimer, TimerInv
<1> QED
    BY <1>5, <1>6, <1>7, <1>8, <1>9, <1>10, <1>11 DEF SInv

\* An accepted connection is greeted; a reader returns; a connection is unregistered.
LEMMA StagePreserves ==
    ASSUME Shape, OwnInv, SInv, NEW c \in Conns,
           Greet(c) \/ Leave(c, TRUE) \/ Leave(c, FALSE) \/ unregisterConn(c)
    PROVE  SInv'
<1>0. /\ \A d \in Conns \ {c} : conn'[d] = conn[d]
      /\ conn'[c].client = conn[c].client /\ conn'[c].appID = conn[c].appID /\ conn'[c].clientToken = conn[c].clientToken
      /\ \/ conn[c].pc \in {"new", "greeted"} /\ conn'[c].pc \in {"greeted", "open"}
         \/ conn[c].pc = "open" /\ conn'[c].pc = "leaving" /\ tokenLock # c
         \/ conn[c].pc = "leaving" /\ conn'[c].pc = "left"
    BY ConnSteps, ZenonT(30) DEF Becomes, Alike, Leave, unregisterConn
<1>1. /\ clientTokens' = clientTokens /\ tokenLock' = tokenLock /\ timer' = timer /\ cleaned' = cleaned
      /\ disconnectedSessions' = disconnectedSessions
    BY DEF sessionVars, Greet, Leave, unregisterConn
<1>2. /\ \A a \in AppIDs \ {conn[c].appID} : conns'[a] = conns[a]
      /\ conn'[c].pc # "left" => conns' = conns
    BY <1>0 DEF rotation, Greet, Leave, unregisterConn, Shape
<1>3. /\ AppIDs = Conns /\ tokenLock \in Conns \cup {None} /\ None \notin Conns
      /\ \A a \in AppIDs : disconnectedSessions[a] # None => disconnectedSessions[a].timer \in Conns
      /\ \A d \in Conns : conn[d].pc # "none" => conn[d].appID \in Conns
    BY OwnFacts, SMTT(30) DEF Shape, SessionTypes
<1>4. \A d \in Conns \ {c} : Alive(d) => conn[d].appID # conn[c].appID
    BY <1>0, OwnFacts, SMTT(30) DEF SInv, OneAlive, Alive
<1>5. OneAlive'
    BY <1>0 DEF SInv, OneAlive, Alive
<1>6. TimerInv'
    BY <1>0, <1>1, SMTT(30) DEF SInv, TimerInv, Token
<1>7. DisconnectedInv'
    BY <1>0, <1>1, <1>3, SMTT(30) DEF SInv, DisconnectedInv
<1>8. TokenInv'
    BY <1>0, <1>1, Zenon DEF SInv, TokenInv
<1>9. ConnInv'
    BY <1>0, <1>1, <1>2, <1>3, <1>4, SMTT(30) DEF SInv, ConnInv, Alive, Token, FreshConn, TakingOver, HasSession
<1>10. CleanedInv' /\ LockInv'
    BY <1>0, <1>1, <1>3 DEF SInv, CleanedInv, LockInv, Alive
<1>11. KeptStateHasTimer'
    BY <1>0, <1>1 DEF SInv, KeptStateHasTimer, TimerInv
<1> QED
    BY <1>5, <1>6, <1>7, <1>8, <1>9, <1>10, <1>11 DEF SInv

\* Another connection in use belongs to another client, and so does its AppID.
LEMMA Strangers ==
    ASSUME Shape, OwnInv, SInv, NEW c \in Conns, Alive(c)
    PROVE  \A d \in Conns \ {c} : Alive(d) => /\ conn[d].client # conn[c].client /\ conn[d].appID # conn[c].appID
                                              /\ conn[d].client \in Clients /\ conn[d].appID \in Conns
BY OwnFacts DEF SInv, OneAlive, Alive

\* A new token is registered for a connection that has an AppID of its own.
LEMMA RegisterPreserves ==
    ASSUME Shape, OwnInv, SInv, NEW c \in Conns, RegisterToken(c)
    PROVE  SInv'
<1> DEFINE k == conn[c].client
<1>0. /\ \A d \in Conns \ {c} : conn'[d] = conn[d]
      /\ conn'[c].client = k /\ conn'[c].appID = conn[c].appID /\ conn'[c].clientToken /\ conn'[c].pc = conn[c].pc
    BY ConnSteps, Zenon DEF Becomes, Alike
<1>1. /\ conn[c].pc = "open" /\ ~conn[c].clientToken /\ tokenLock = None /\ clientTokens[k] = None
      /\ tokenLock' = tokenLock /\ timer' = timer /\ cleaned' = cleaned /\ conns' = conns
      /\ disconnectedSessions' = disconnectedSessions
    BY DEF rotation, RegisterToken, SendsToken
<1>2. k \in Clients /\ Alive(c) /\ conn[c].appID \in Conns /\ AppIDs = Conns /\ None \notin Conns
    BY <1>1, OwnFacts DEF Alive
<1>3. clientTokens'[k] = conn[c].appID /\ \A j \in Clients \ {k} : clientTokens'[j] = clientTokens[j]
    BY <1>2 DEF RegisterToken, Shape
<1>4. FreshConn(c)
    BY <1>1, <1>2 DEF SInv, ConnInv
<1>5. \A a \in AppIDs : disconnectedSessions[a] # None => disconnectedSessions[a].timer \in Conns
    BY DEF Shape, SessionTypes
<1>6. OneAlive'
    BY <1>0, SMTT(30) DEF SInv, OneAlive, Alive
<1>7. TimerInv'
    BY <1>0, <1>1, <1>2, <1>3, OwnFacts, SMTT(30) DEF SInv, TimerInv, Token
<1>8. DisconnectedInv'
    BY <1>0, <1>1, <1>5 DEF SInv, DisconnectedInv
<1>9. TokenInv'
    BY <1>0, <1>1, <1>3, <1>4, SMTT(30) DEF SInv, TokenInv, FreshConn
<1>10. ConnInv'
    BY <1>0, <1>1, <1>2, <1>3, <1>4, Strangers, SMTT(60) DEF SInv, ConnInv, Alive, Token, FreshConn, TakingOver, HasSession
<1>11. CleanedInv' /\ LockInv'
    BY <1>0, <1>1, <1>2, Zenon DEF SInv, CleanedInv, LockInv, Alive
<1>12. KeptStateHasTimer'
    BY <1>0, <1>1 DEF SInv, KeptStateHasTimer
<1> QED
    BY <1>6, <1>7, <1>8, <1>9, <1>10, <1>11, <1>12 DEF SInv

\* A connection takes over the AppID its token leads to: its own is forgotten.
LEMMA ResumePreserves ==
    ASSUME Shape, OwnInv, SInv, NEW c \in Conns, ResumeSession(c)
    PROVE  SInv'
<1> DEFINE k == conn[c].client
           a == clientTokens[k]
<1>1. /\ conn[c].pc = "open" /\ ~conn[c].clientToken /\ tokenLock = None /\ a # None
      /\ tokenLock' = c /\ timer' = timer /\ cleaned' = cleaned /\ clientTokens' = clientTokens
      /\ disconnectedSessions' = disconnectedSessions
    BY DEF ResumeSession, SendsToken
<1>2. /\ k \in Clients /\ Alive(c) /\ conn[c].appID \in Conns /\ AppIDs = Conns /\ None \notin Conns
      /\ a \in Conns /\ conn[a].client = k
    BY <1>1, OwnFacts DEF Alive
<1>3. /\ \A d \in Conns \ {c} : conn'[d] = conn[d]
      /\ conn'[c].client = k /\ conn'[c].appID = a /\ conn'[c].clientToken = conn[c].clientToken
      /\ conn'[c].pc = conn[c].pc
    BY <1>2, ConnSteps, Zenon DEF Becomes, Alike
<1>4. FreshConn(c) /\ conn[c].appID = c
    BY <1>1, <1>2, Zenon DEF SInv, ConnInv, FreshConn
<1>5. conns'[a] = c /\ \A b \in AppIDs \ {a, conn[c].appID} : conns'[b] = conns[b]
  <2> DEFINE f == [conns EXCEPT ![conn[c].appID] = None]
  <2>1. conns' = [f EXCEPT ![a] = c]
      BY DEF ResumeSession
  <2>2. f \in [AppIDs -> Conns \cup {None}] /\ \A b \in AppIDs \ {conn[c].appID} : f[b] = conns[b]
      BY Zenon DEF Shape
  <2> HIDE DEF f
  <2> QED
      BY <1>2, <2>1, <2>2
<1>6. \A b \in AppIDs : disconnectedSessions[b] # None => disconnectedSessions[b].timer \in Conns
    BY DEF Shape, SessionTypes
<1>7. a \notin cleaned
    BY <1>1, <1>2, Zenon DEF SInv, TokenInv, OneAlive, Alive
<1>8. \A d \in Conns \ {c} : Alive(d) => /\ conn[d].client # k /\ conn[d].appID \notin {a, conn[c].appID}
                                         /\ conn[d].client \in Clients /\ conn[d].appID \in Conns /\ d # a
    BY <1>2, Strangers, OwnFacts DEF Alive
<1> HIDE DEF a, k
<1>9. OneAlive'
    BY <1>3, <1>1 DEF SInv, OneAlive, Alive, k
<1>10. TimerInv'
    BY <1>1, <1>3 DEF SInv, TimerInv, Token, k
<1>11. DisconnectedInv'
    BY <1>1, <1>3, <1>6 DEF SInv, DisconnectedInv, TimerInv
<1>12. TokenInv'
    BY <1>1, <1>3 DEF SInv, TokenInv, k
<1>13. ConnInv'
  <2>1. ASSUME NEW d \in Conns \ {c}, Alive(d)
        PROVE  \/ conn[d].pc = "forgetting" /\ conn[d].clientToken /\ conn[d].appID \in cleaned
               \/ conn[d].pc # "forgetting" /\ conn[d].clientToken /\ HasSession(d)'
               \/ conn[d].pc # "forgetting" /\ ~conn[d].clientToken /\ FreshConn(d)'
      BY <1>1, <1>2, <1>3, <1>5, <1>8, <2>1 DEF SInv, ConnInv, Token, FreshConn, TakingOver, HasSession
  <2>2. TakingOver(c)'
      BY <1>1, <1>3, <1>5, <1>7 DEF TakingOver, Token, a, k
  <2> QED
      BY <1>1, <1>3, <2>1, <2>2, Zenon DEF ConnInv, Alive
<1>14. CleanedInv' /\ LockInv'
    BY <1>1, <1>2, <1>3, Zenon DEF SInv, CleanedInv, LockInv, Alive, k
<1>15. KeptStateHasTimer'
    BY <1>1, <1>3, <1>4 DEF SInv, KeptStateHasTimer, FreshConn
<1> QED
    BY <1>9, <1>10, <1>11, <1>12, <1>13, <1>14, <1>15 DEF SInv

\* The session a connection has taken over is no longer treated as disconnected.
LEMMA FlushPreserves ==
    ASSUME Shape, OwnInv, SInv, NEW c \in Conns, FlushQueuedReplies(c)
    PROVE  SInv'
<1> DEFINE k == conn[c].client
           a == conn[c].appID
           s == disconnectedSessions[a]
<1>0. /\ \A d \in Conns \ {c} : conn'[d] = conn[d]
      /\ conn'[c].client = k /\ conn'[c].appID = a /\ conn'[c].clientToken /\ conn'[c].pc = conn[c].pc
    BY ConnSteps, Zenon DEF Becomes, Alike
<1>1. /\ tokenLock = c /\ tokenLock' = None /\ cleaned' = cleaned /\ clientTokens' = clientTokens /\ conns' = conns
      /\ disconnectedSessions' = [disconnectedSessions EXCEPT ![a] = None]
      /\ timer' = IF s # None /\ timer[s.timer] = "armed" THEN [timer EXCEPT ![s.timer] = "off"] ELSE timer
    BY DEF rotation, FlushQueuedReplies
<1>2. Alive(c) /\ TakingOver(c) /\ None \notin Conns /\ AppIDs = Conns
    BY <1>1, OwnFacts, Zenon DEF SInv, LockInv, ConnInv
<1>3. k \in Clients /\ a \in Conns /\ conn[a].client = k
    BY <1>2, OwnFacts, Zenon DEF Alive
<1>4. disconnectedSessions'[a] = None /\ \A b \in AppIDs \ {a} : disconnectedSessions'[b] = disconnectedSessions[b]
    BY <1>1, <1>2, <1>3, Zenon DEF Shape
<1>5. \A b \in AppIDs : disconnectedSessions[b] # None => disconnectedSessions[b].timer \in Conns
    BY DEF Shape, SessionTypes
<1>6. \A d \in Conns : /\ timer'[d] = timer[d] \/ (timer'[d] = "off" /\ s # None /\ d = s.timer)
                       /\ s # None /\ d = s.timer /\ timer[d] = "armed" => timer'[d] = "off"
    BY <1>1, <1>3, <1>5 DEF Shape
<1>7. \A d \in Conns : conn[d].pc = "closed" /\ conn[d].appID = a => conn[d].client = k
    BY <1>3, OwnFacts
<1> HIDE DEF a, k, s
<1>8. OneAlive'
    BY <1>0, SMTT(30) DEF SInv, OneAlive, Alive, k
<1>9. TimerInv'
  <2> SUFFICES ASSUME NEW d \in Conns, timer'[d] # "off"
               PROVE  /\ conn'[d].pc = "closed"
                      /\ timer'[d] \in {"armed", "fired"} => /\ disconnectedSessions'[conn'[d].appID] # None
                                                             /\ disconnectedSessions'[conn'[d].appID].timer = d
                      /\ timer'[d] # "armed" => \A e \in Conns : conn'[e].client = conn'[d].client => conn'[e].pc = "closed"
                      /\ timer'[d] = "cleaning" => clientTokens'[conn'[d].client] = None
      BY Zenon DEF TimerInv, Token
  <2>1. timer'[d] = timer[d] /\ conn[d].pc = "closed" /\ d # c /\ conn'[d] = conn[d]
      BY <1>0, <1>2, <1>6, SMTT(30) DEF SInv, TimerInv, Alive
  <2>2. conn[d].appID \in Conns
      BY <2>1, OwnFacts, Zenon
  <2>3. ASSUME timer[d] \in {"armed", "fired"} PROVE conn[d].appID # a
      BY <1>2, <1>6, <1>7, <2>1, <2>3 DEF SInv, TimerInv, Alive, s, k
  <2> QED
      BY <1>0, <1>1, <1>2, <1>4, <2>1, <2>2, <2>3, SMTT(30) DEF SInv, TimerInv, Token, k
<1>10. DisconnectedInv'
    BY <1>0, <1>2, <1>3, <1>4, <1>5, <1>6 DEF SInv, DisconnectedInv, a, s
<1>11. TokenInv'
    BY <1>0, <1>1, SMTT(30) DEF SInv, TokenInv, k
<1>12. ConnInv'
    BY <1>0, <1>1, <1>2, <1>3, <1>4, Strangers, SMTT(60) DEF SInv, ConnInv, Alive, Token, FreshConn, TakingOver, HasSession, a, k
<1>13. CleanedInv' /\ LockInv'
    BY <1>0, <1>1, <1>2 DEF SInv, CleanedInv, LockInv, k
<1>14. KeptStateHasTimer'
  <2> SUFFICES ASSUME NEW e \in Conns, conn'[e].pc = "closed", conn'[e].appID \notin cleaned'
               PROVE  \E d \in Conns : /\ conn'[d].appID = conn'[e].appID
                                       /\ timer'[d] # "off" \/ conn'[d].pc \in {"open", "leaving", "left"}
      BY DEF KeptStateHasTimer
  <2>1. conn[e].pc = "closed" /\ conn[e].appID = conn'[e].appID /\ conn[e].appID \notin cleaned
      BY <1>0, <1>1 DEF a
  <2>2. PICK d \in Conns : /\ conn[d].appID = conn[e].appID
                           /\ timer[d] # "off" \/ conn[d].pc \in {"open", "leaving", "left"}
      BY <2>1, Zenon DEF SInv, KeptStateHasTimer
  <2>3. CASE conn[d].appID = a
      BY <1>0, <1>2, <2>1, <2>2, <2>3 DEF TakingOver
  <2>4. CASE conn[d].appID # a
    <3>1. timer'[d] = timer[d]
        BY <1>3, <1>6, <2>4, OwnFacts, SMTT(30) DEF SInv, DisconnectedInv, s
    <3> QED
        BY <1>0, <2>1, <2>2, <2>4, <3>1, Zenon DEF a
  <2> QED
      BY <2>3, <2>4
<1> QED
    BY <1>8, <1>9, <1>10, <1>11, <1>12, <1>13, <1>14 DEF SInv

\* A connection is torn down: its state goes, or is left to the grace timer.
LEMMA SettlePreserves ==
    ASSUME Shape, OwnInv, SInv, NEW c \in Conns, Settle(c)
    PROVE  SInv'
<1> DEFINE k == conn[c].client
           a == conn[c].appID
<1>0. /\ conn[c].pc = "left" /\ tokenLock' = tokenLock /\ clientTokens' = clientTokens /\ conns' = conns
      /\ k \in Clients /\ a \in Conns /\ conn[a].client = k /\ Alive(c) /\ None \notin Conns /\ AppIDs = Conns
    BY OwnFacts DEF Settle, rotation, Alive
<1>1. /\ \A d \in Conns \ {c} : conn'[d] = conn[d]
      /\ conn'[c].client = k /\ conn'[c].appID = a
      /\ \/ conn[c].clientToken /\ conn'[c].clientToken /\ conn'[c].pc = "forgetting"
         \/ conn'[c].pc = "closed"
    BY ConnSteps, Zenon DEF Becomes, Alike
<1>2. \/ /\ cleaned' = cleaned \cup {a} /\ disconnectedSessions' = disconnectedSessions /\ timer' = timer
         /\ conn[c].clientToken => conn'[c].pc = "forgetting"
      \/ /\ cleaned' = cleaned /\ conn[c].clientToken /\ conn'[c].pc = "closed"
         /\ disconnectedSessions' = [disconnectedSessions EXCEPT ![a] = [timer |-> c, queue |-> <<>>]]
         /\ timer' = [timer EXCEPT ![c] = "armed"]
  <2>1. conn \in [Conns -> ConnTypes]
      BY DEF Shape
  <2>2. Closed(c) => conn'[c].pc = "closed"
      BY ConnSteps, Zenon DEF Becomes, Alike
  <2>3. conn' = [conn EXCEPT ![c].pc = "forgetting"] => conn'[c].pc = "forgetting"
      BY <2>1 DEF ConnTypes
  <2> QED
      BY <2>2, <2>3, Zenon DEF Settle, CleanUp
<1>3. \/ conn[c].clientToken /\ clientTokens[k] = a /\ disconnectedSessions[a] = None
      \/ ~conn[c].clientToken /\ clientTokens[k] # a
    BY <1>0, Zenon DEF SInv, ConnInv, HasSession, FreshConn, TakingOver, Token
<1>4. tokenLock # c
    BY <1>0, Zenon DEF SInv, ConnInv, TakingOver
<1>5. \A b \in AppIDs : disconnectedSessions[b] # None => disconnectedSessions[b].timer \in Conns
    BY DEF Shape, SessionTypes
<1>6. \A d \in Conns \ {c} : Alive(d) => /\ conn[d].client # k /\ conn[d].appID # a /\ d # a
                                         /\ conn[d].client \in Clients /\ conn[d].appID \in Conns
    BY <1>0, Strangers, OwnFacts, SMTT(30) DEF Alive
<1>7. \A j \in Clients : clientTokens[j] = a => j = k
    BY <1>0, OwnFacts, Zenon
<1>8. timer[c] = "off" /\ \A d \in Conns : conn[d].client = k => timer[d] \in {"off", "armed"}
    BY <1>0, Zenon DEF SInv, TimerInv, Shape
<1>9. ASSUME cleaned' = cleaned \cup {a}, disconnectedSessions' = disconnectedSessions, timer' = timer,
             conn[c].clientToken => conn'[c].pc = "forgetting"
      PROVE  SInv'
  <2> HIDE DEF a, k
  <2>1. OneAlive'
      BY <1>0, <1>1 DEF SInv, OneAlive, Alive, k
  <2>2. TimerInv'
      BY <1>0, <1>1, <1>8, <1>9, SMTT(30) DEF SInv, TimerInv, Token, a, k
  <2>3. DisconnectedInv'
      BY <1>1, <1>5, <1>9, Zenon DEF SInv, DisconnectedInv, a
  <2>4. TokenInv'
      BY <1>0, <1>1, <1>3, <1>7, <1>9, SMTT(30) DEF SInv, TokenInv, k
  <2>5. ConnInv'
      BY <1>0, <1>1, <1>4, <1>6, <1>9 DEF SInv, ConnInv, Alive, Token, FreshConn, TakingOver, HasSession, a, k
  <2>6. CleanedInv' /\ LockInv'
    <3>1. \A b \in Conns : conn[b].client # None => conn'[b].client # None
        BY <1>1, Zenon DEF k
    <3>2. conn[a].client # None /\ a \in AppIDs
        BY <1>0, OwnFacts DEF a, k
    <3>3. CleanedInv'
        BY <1>0, <1>9, <3>1, <3>2, Zenon DEF SInv, CleanedInv
    <3>4. LockInv'
        BY <1>0, <1>1, <1>4, Zenon DEF SInv, LockInv, Alive, Shape
    <3> QED
        BY <3>3, <3>4
  <2>7. KeptStateHasTimer'
      BY <1>0, <1>1, <1>8, <1>9 DEF SInv, KeptStateHasTimer, a
  <2> QED
      BY <2>1, <2>2, <2>3, <2>4, <2>5, <2>6, <2>7 DEF SInv
<1>10. ASSUME cleaned' = cleaned, conn[c].clientToken, conn'[c].pc = "closed",
              disconnectedSessions' = [disconnectedSessions EXCEPT ![a] = [timer |-> c, queue |-> <<>>]],
              timer' = [timer EXCEPT ![c] = "armed"]
       PROVE  SInv'
  <2>1. timer'[c] = "armed" /\ \A d \in Conns \ {c} : timer'[d] = timer[d]
      BY <1>10, Zenon DEF Shape
  <2>2. /\ disconnectedSessions'[a] # None /\ disconnectedSessions'[a].timer = c
        /\ \A b \in AppIDs \ {a} : disconnectedSessions'[b] = disconnectedSessions[b]
    <3>1. [timer |-> c, queue |-> <<>>] \in SessionTypes /\ [timer |-> c, queue |-> <<>>].timer = c
        BY DEF SessionTypes
    <3> QED
        BY <1>0, <1>10, <3>1, Constants, Zenon DEF Shape
  <2>3. disconnectedSessions[a] = None
      BY <1>3, <1>10, ZenonT(30)
  <2> HIDE DEF a, k
  <2>4. OneAlive'
      BY <1>0, <1>1, <1>10, SMTT(30) DEF SInv, OneAlive, Alive, k
  <2>5. TimerInv'
      BY <1>0, <1>1, <1>8, <1>10, <2>1, <2>2, <2>3, OwnFacts, SMTT(30) DEF SInv, TimerInv, Token, a, k
  <2>6. DisconnectedInv'
      BY <1>0, <1>1, <1>5, <1>8, <2>1, <2>2, SMTT(60) DEF SInv, DisconnectedInv, a
  <2>7. TokenInv'
      BY <1>0, <1>1, <1>10, SMTT(60) DEF SInv, TokenInv, k
  <2>8. ConnInv'
      BY <1>0, <1>1, <1>4, <1>6, <1>10, <2>2, SMTT(30) DEF SInv, ConnInv, Alive, Token, FreshConn, TakingOver, HasSession, a, k
  <2>9. CleanedInv' /\ LockInv'
      BY <1>0, <1>1, <1>4, <1>10, ZenonT(30) DEF SInv, CleanedInv, LockInv, Alive, k, Shape
  <2>10. KeptStateHasTimer'
      BY <1>0, <1>1, <1>8, <1>10, <2>1 DEF SInv, KeptStateHasTimer, a
  <2> QED
      BY <2>4, <2>5, <2>6, <2>7, <2>8, <2>9, <2>10 DEF SInv
<1> QED
    BY <1>2, <1>9, <1>10

\* After a ThinClose the token is forgotten.
LEMMA ForgetPreserves ==
    ASSUME Shape, OwnInv, SInv, NEW c \in Conns, ForgetToken(c)
    PROVE  SInv'
<1> DEFINE k == conn[c].client
<1>0. /\ conn[c].pc = "forgetting" /\ tokenLock = None /\ tokenLock' = tokenLock /\ conns' = conns /\ timer' = timer
      /\ cleaned' = cleaned /\ disconnectedSessions' = disconnectedSessions
      /\ k \in Clients /\ Alive(c) /\ None \notin Conns /\ AppIDs = Conns
    BY OwnFacts DEF ForgetToken, rotation, Alive
<1>1. /\ \A d \in Conns \ {c} : conn'[d] = conn[d]
      /\ conn'[c].client = k /\ conn'[c].appID = conn[c].appID /\ conn'[c].pc = "closed"
    BY ConnSteps, Zenon DEF Becomes, Alike
<1>2. clientTokens'[k] = None /\ \A j \in Clients \ {k} : clientTokens'[j] = clientTokens[j]
    BY <1>0 DEF ForgetToken, Shape
<1>3. conn[c].appID \in cleaned /\ timer[c] = "off"
    BY <1>0, Zenon DEF SInv, ConnInv, TimerInv, TakingOver
<1>4. \A b \in AppIDs : disconnectedSessions[b] # None => disconnectedSessions[b].timer \in Conns
    BY DEF Shape, SessionTypes
<1> HIDE DEF k
<1>5. OneAlive'
    BY <1>1, Zenon DEF SInv, OneAlive, Alive, k
<1>6. TimerInv'
    BY <1>0, <1>1, <1>2, OwnFacts, SMTT(30) DEF SInv, TimerInv, Token, k
<1>7. DisconnectedInv'
    BY <1>0, <1>1, <1>4, Zenon DEF SInv, DisconnectedInv
<1>8. TokenInv'
  <2>1. None \notin cleaned
      BY <1>0, Zenon DEF SInv, CleanedInv
  <2> QED
      BY <1>0, <1>1, <1>2, <2>1, SMTT(30) DEF SInv, TokenInv, k
<1>9. ConnInv'
    BY <1>0, <1>1, <1>2, Strangers, SMTT(60) DEF SInv, ConnInv, Alive, Token, FreshConn, TakingOver, HasSession, k
<1>10. CleanedInv' /\ LockInv'
    BY <1>0, <1>1, ZenonT(30) DEF SInv, CleanedInv, LockInv, k
<1>11. KeptStateHasTimer'
    BY <1>0, <1>1, <1>3 DEF SInv, KeptStateHasTimer
<1> QED
    BY <1>5, <1>6, <1>7, <1>8, <1>9, <1>10, <1>11 DEF SInv

\* What a step of a grace timer does: it leaves the connections alone; its client is gone; one of four things happens to
\* what the client left; and nobody else's token or session is touched.
SameConns ==
    /\ \A d \in Conns : /\ conn'[d].pc = conn[d].pc /\ conn'[d].appID = conn[d].appID
                        /\ conn'[d].clientToken = conn[d].clientToken /\ conn'[d].client = conn[d].client
    /\ tokenLock' = tokenLock /\ conns' = conns
Gone(c, k, a) ==
    /\ timer[c] # "off" /\ conn[c].pc = "closed" /\ conn[c].client = k /\ conn[c].appID = a
    /\ k \in Clients /\ a \in Conns /\ conn[a].client = k /\ None \notin Conns /\ AppIDs = Conns
    /\ \A d \in Conns : conn[d].client = k => conn[d].pc = "closed"
    /\ \A d \in Conns : Alive(d) => /\ conn[d].client # k /\ conn[d].appID # a /\ d # a
                                    /\ conn[d].client \in Clients /\ conn[d].appID \in Conns
TimerTurns(c, a) ==
    /\ \A d \in Conns \ {c} : timer'[d] = timer[d]
    /\ \/ timer[c] = "armed" /\ timer'[c] = "fired" /\ cleaned' = cleaned
       \/ timer[c] = "fired" /\ timer'[c] = "forgetting" /\ cleaned' = cleaned
       \/ timer[c] = "forgetting" /\ timer'[c] = "cleaning" /\ cleaned' = cleaned
       \/ timer[c] = "cleaning" /\ timer'[c] = "off" /\ cleaned' = cleaned \cup {a}
TokenGoes(c, k) ==
    /\ \A j \in Clients \ {k} : clientTokens'[j] = clientTokens[j]
    /\ clientTokens'[k] \in {None, clientTokens[k]}
    /\ timer'[c] = "cleaning" => clientTokens'[k] = None
SessionGoes(c, a) ==
    /\ \A b \in AppIDs \ {a} : disconnectedSessions'[b] = disconnectedSessions[b]
    /\ disconnectedSessions'[a] \in {None, disconnectedSessions[a]}
    /\ timer'[c] # "forgetting" => disconnectedSessions'[a] = disconnectedSessions[a]
    /\ timer'[c] = "forgetting" => disconnectedSessions'[a] = None
    /\ \A b \in AppIDs : disconnectedSessions[b] # None => disconnectedSessions[b].timer \in Conns

\* The timer fires, and its callback forgets the session, the token and the state (onClosedConn).
LEMMA GraceFacts ==
    ASSUME Shape, OwnInv, SInv, ~CloseCalls, NEW c \in Conns,
           Fire(c) \/ ExpireSession(c) \/ ExpireToken(c) \/ ExpireState(c)
    PROVE  \E k, a : SameConns /\ Gone(c, k, a) /\ TimerTurns(c, a) /\ TokenGoes(c, k) /\ SessionGoes(c, a)
<1> DEFINE k == conn[c].client
           a == conn[c].appID
<1>0. SameConns
    BY Zenon DEF SameConns, Fire, ExpireSession, ExpireToken, ExpireState, rotation
<1>1. /\ timer[c] # "off" /\ conn[c].pc = "closed" /\ k \in Clients /\ a \in Conns /\ conn[a].client = k
      /\ None \notin Conns /\ AppIDs = Conns
    BY OwnFacts, Zenon DEF Fire, ExpireSession, ExpireToken, ExpireState, SInv, TimerInv
<1>2. \A d \in Conns : conn[d].client = k => conn[d].pc = "closed"
    BY Zenon DEF Fire, ExpireSession, ExpireToken, ExpireState, SInv, TimerInv, OfClient
<1>3. \A d \in Conns : Alive(d) => /\ conn[d].client # k /\ conn[d].appID # a /\ d # a
                                   /\ conn[d].client \in Clients /\ conn[d].appID \in Conns
    BY <1>1, <1>2, OwnFacts, SMTT(60) DEF Alive
<1>4. \A d \in Conns \ {c} : timer'[d] = timer[d]
    BY Zenon DEF Fire, ExpireSession, ExpireToken, ExpireState, Shape
<1>5. \/ /\ timer[c] = "armed" /\ timer'[c] = "fired"
         /\ clientTokens' = clientTokens /\ cleaned' = cleaned /\ disconnectedSessions' = disconnectedSessions
      \/ /\ timer[c] = "fired" /\ timer'[c] = "forgetting" /\ disconnectedSessions' = [disconnectedSessions EXCEPT ![a] = None]
         /\ clientTokens' = clientTokens /\ cleaned' = cleaned
      \/ /\ timer[c] = "forgetting" /\ timer'[c] = "cleaning" /\ clientTokens' = [clientTokens EXCEPT ![k] = None]
         /\ cleaned' = cleaned /\ disconnectedSessions' = disconnectedSessions
      \/ /\ timer[c] = "cleaning" /\ timer'[c] = "off" /\ cleaned' = cleaned \cup {a}
         /\ clientTokens' = clientTokens /\ disconnectedSessions' = disconnectedSessions
  <2>1. timer[c] = "fired" => disconnectedSessions[a] # None
      BY DEF SInv, TimerInv
  <2> QED
      BY <2>1, Zenon DEF Fire, ExpireSession, ExpireToken, ExpireState, CleanUp, Shape
<1>6. Gone(c, k, a)
    BY <1>1, <1>2, <1>3, Zenon DEF Gone
<1>7. TimerTurns(c, a)
    BY <1>4, <1>5, Zenon DEF TimerTurns
<1>8. TokenGoes(c, k)
    BY <1>1, <1>5, Zenon DEF TokenGoes, Shape
<1>9. SessionGoes(c, a)
  <2>1. \A b \in AppIDs : disconnectedSessions[b] # None => disconnectedSessions[b].timer \in Conns
      BY DEF Shape, SessionTypes
  <2> QED
      BY <1>1, <1>5, <2>1, Zenon DEF SessionGoes, Shape
<1> QED
    BY <1>0, <1>6, <1>7, <1>8, <1>9, Zenon

\* The grace timers still stand for the sessions they belong to.
LEMMA GraceTimers ==
    ASSUME Shape, OwnInv, SInv, NEW c \in Conns, NEW k, NEW a,
           SameConns, Gone(c, k, a), TimerTurns(c, a), TokenGoes(c, k), SessionGoes(c, a)
    PROVE  TimerInv' /\ DisconnectedInv' /\ KeptStateHasTimer'
<1>1. TimerInv'
  <2> SUFFICES ASSUME NEW d \in Conns, timer'[d] # "off"
               PROVE  /\ conn'[d].pc = "closed"
                      /\ timer'[d] \in {"armed", "fired"} => /\ disconnectedSessions'[conn'[d].appID] # None
                                                             /\ disconnectedSessions'[conn'[d].appID].timer = d
                      /\ timer'[d] # "armed" => \A e \in Conns : conn'[e].client = conn'[d].client => conn'[e].pc = "closed"
                      /\ timer'[d] = "cleaning" => clientTokens'[conn'[d].client] = None
      BY Zenon DEF TimerInv, Token
  <2>1. CASE d = c
      BY <2>1, SMTT(60) DEF SInv, TimerInv, SameConns, Gone, TimerTurns, TokenGoes, SessionGoes
  <2>2. CASE d # c
    <3>1. timer'[d] = timer[d] /\ conn[d].pc = "closed" /\ conn[d].appID \in Conns /\ conn[d].client \in Clients
        BY <2>2, OwnFacts, Zenon DEF SInv, TimerInv, TimerTurns
    <3>2. ASSUME timer[d] \in {"armed", "fired"}
          PROVE  disconnectedSessions'[conn[d].appID] # None /\ disconnectedSessions'[conn[d].appID].timer = d
        BY <2>2, <3>1, <3>2, SMTT(60) DEF SInv, TimerInv, Gone, TimerTurns, SessionGoes
    <3> QED
        BY <3>1, <3>2, SMTT(60) DEF SInv, TimerInv, Token, SameConns, TokenGoes
  <2> QED
      BY <2>1, <2>2, Zenon
<1>2. DisconnectedInv'
    BY SMTT(60) DEF SInv, DisconnectedInv, SameConns, Gone, TimerTurns, SessionGoes
<1>3. KeptStateHasTimer'
    BY SMTT(60) DEF SInv, KeptStateHasTimer, SameConns, Gone, TimerTurns
<1> QED
    BY <1>1, <1>2, <1>3

\* The tokens lead to what is kept.
LEMMA GraceTokens ==
    ASSUME Shape, OwnInv, SInv, NEW c \in Conns, NEW k, NEW a,
           SameConns, Gone(c, k, a), TimerTurns(c, a), TokenGoes(c, k)
    PROVE  TokenInv' /\ CleanedInv'
<1>0. cleaned' \subseteq cleaned \cup {a}
    BY Zenon DEF TimerTurns
<1>1. CleanedInv'
  <2>1. a \in AppIDs /\ conn[a].client # None
      BY Constants, Zenon DEF Gone
  <2>2. \A b \in cleaned \cup {a} : b \in AppIDs /\ conn[b].client # None
      BY <2>1, Zenon DEF SInv, CleanedInv
  <2> QED
      BY <1>0, <2>2, Zenon DEF CleanedInv, SameConns, Gone
<1>2. None \notin cleaned'
    BY <1>1, ZenonT(30) DEF CleanedInv, Gone
<1>3. ASSUME NEW j \in Clients, clientTokens'[j] = a PROVE cleaned' = cleaned
    BY <1>3, OwnFacts, SMTT(60) DEF SInv, TimerInv, Token, Gone, TimerTurns, TokenGoes
<1>4. \A j \in Clients : clientTokens'[j] \in cleaned' => clientTokens[j] \in cleaned /\ clientTokens'[j] = clientTokens[j]
  <2> SUFFICES ASSUME NEW j \in Clients, clientTokens'[j] \in cleaned'
               PROVE  clientTokens[j] \in cleaned /\ clientTokens'[j] = clientTokens[j]
      OBVIOUS
  <2>1. clientTokens'[j] = clientTokens[j]
      BY <1>2, Zenon DEF TokenGoes
  <2> QED
      BY <1>0, <1>3, <2>1, Zenon
<1>5. TokenInv'
    BY <1>4, SMTT(60) DEF SInv, TokenInv, SameConns
<1> QED
    BY <1>1, <1>5

\* The connections in use are other clients'.
LEMMA GraceConns ==
    ASSUME SInv, NEW c \in Conns, NEW k, NEW a,
           SameConns, Gone(c, k, a), TimerTurns(c, a), TokenGoes(c, k), SessionGoes(c, a)
    PROVE  ConnInv'
<1> SUFFICES ASSUME NEW d \in Conns, Alive(d)'
             PROVE  \/ (conn[d].pc = "forgetting" /\ conn[d].clientToken /\ tokenLock # d /\ conn[d].appID \in cleaned)'
                    \/ (conn[d].pc # "forgetting" /\ conn[d].clientToken /\ tokenLock # d /\ HasSession(d))'
                    \/ (conn[d].pc # "forgetting" /\ ~conn[d].clientToken /\ tokenLock # d /\ FreshConn(d))'
                    \/ (tokenLock = d /\ TakingOver(d))'
    BY Zenon DEF ConnInv
<1>1. /\ Alive(d) /\ conn[d].client \in Clients \ {k} /\ conn[d].appID \in Conns \ {a} /\ d # a
      /\ conn'[d].pc = conn[d].pc /\ conn'[d].appID = conn[d].appID
      /\ conn'[d].clientToken = conn[d].clientToken /\ conn'[d].client = conn[d].client
    BY Zenon DEF Alive, SameConns, Gone
<1>2. Token(d)' = Token(d)
    BY <1>1, Zenon DEF Token, TokenGoes
<1>3. /\ disconnectedSessions'[d] = disconnectedSessions[d]
      /\ disconnectedSessions'[conn[d].appID] = disconnectedSessions[conn[d].appID]
    BY <1>1, Zenon DEF Gone, SessionGoes
<1>4. /\ d \in cleaned' <=> d \in cleaned
      /\ conn[d].appID \in cleaned' <=> conn[d].appID \in cleaned
    BY <1>1, Zenon DEF TimerTurns
<1>5. (HasSession(d) => HasSession(d)') /\ (TakingOver(d) => TakingOver(d)')
    BY <1>1, <1>2, <1>3, <1>4, Zenon DEF HasSession, TakingOver, SameConns
<1>6. FreshConn(d) => FreshConn(d)'
    BY <1>1, <1>2, <1>3, <1>4, Zenon DEF FreshConn, SameConns
<1> QED
    BY <1>1, <1>4, <1>5, <1>6, Zenon DEF SInv, ConnInv, SameConns

\* The grace period ends (onClosedConn).
LEMMA GracePreserves ==
    ASSUME Shape, OwnInv, SInv, ~CloseCalls, NEW c \in Conns,
           Fire(c) \/ ExpireSession(c) \/ ExpireToken(c) \/ ExpireState(c)
    PROVE  SInv'
<1>1. PICK k, a : SameConns /\ Gone(c, k, a) /\ TimerTurns(c, a) /\ TokenGoes(c, k) /\ SessionGoes(c, a)
    BY GraceFacts, Zenon
<1>2. OneAlive'
    BY <1>1, Zenon DEF SInv, OneAlive, Alive, SameConns
<1>3. LockInv'
    BY <1>1, Zenon DEF SInv, LockInv, Alive, Shape, SameConns
<1> QED
    BY <1>1, <1>2, <1>3, GraceTimers, GraceTokens, GraceConns, Zenon DEF SInv

\* No session exists at the start.
LEMMA InitS == ASSUME Init PROVE SInv
<1>1. \A c \in Conns : conn[c].pc = "none" /\ conn[c].appID = None
    BY DEF Init, Unused
<1> QED
    BY <1>1, Zenon DEF Init, SInv, OneAlive, TimerInv, DisconnectedInv, TokenInv, ConnInv, CleanedInv, LockInv,
       KeptStateHasTimer, Alive

\* Every step keeps the sessions' invariant.
LEMMA StepS ==
    ASSUME Shape, OwnInv, SInv, ~Overlap, ~CloseCalls, [Next]_vars
    PROVE  SInv'
BY AcceptPreserves, StagePreserves, RegisterPreserves, ResumePreserves, FlushPreserves, SettlePreserves, ForgetPreserves,
   GracePreserves, RestfulSteps, RestfulPreserves, Zenon DEF Next

\* The sessions' invariant, for clients that neither overlap their connections nor cut the grace period close.
LEMMA InvariantS == ASSUME ~Overlap, ~CloseCalls PROVE Spec => [](Shape /\ OwnInv /\ SInv)
<1>1. Init => SInv
    BY InitS
<1>2. Shape /\ OwnInv /\ SInv /\ [Next]_vars => SInv'
    BY StepS
<1> QED
    BY <1>1, <1>2, InvariantOwn, PTL DEF Spec

\* A session in use is whole (handleSessionToken, onClosedConn and the grace timer), as long as a client comes back only
\* after its lost connection has been torn down and not while its grace period is just expiring: the code has no defence
\* against either.
THEOREM SessionsStayIntact == ASSUME ~Overlap, ~CloseCalls PROVE Spec => []SessionIntact
<1>1. Shape /\ OwnInv /\ SInv => SessionIntact
    BY DEF SInv, ConnInv, Alive, HasSession, TakingOver, Token, SessionIntact
<1> QED
    BY <1>1, InvariantS, PTL

\* Nothing is kept for ever: what a closed connection left behind is in use again, or a grace timer is going to clean it
\* up (onClosedConn, handleSessionToken); under the same provisos.
THEOREM KeptStateIsTimed == ASSUME ~Overlap, ~CloseCalls PROVE Spec => []KeptStateHasTimer
<1>1. Shape /\ OwnInv /\ SInv => KeptStateHasTimer
    BY DEF SInv
<1> QED
    BY <1>1, InvariantS, PTL
=============================================================================
