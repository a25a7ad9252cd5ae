-------------------------- MODULE VotingBackingProofs --------------------------
(***************************************************************************)
(* What a document of Voting rests on, for any set of authorities, any     *)
(* number of epochs and any lost, late and repeated messages, stalls and   *)
(* crashes: every vote, commit and certificate an authority holds or has   *)
(* sent was cast by its author in a vote for that epoch (TablesInv and     *)
(* CastInv), so what an authority signs is backed by a threshold of votes  *)
(* and of commits.                                                         *)
(***************************************************************************)
EXTENDS VotingProofs

\* Somebody's vote for epoch e with this commit.
CastCommit(b, e, c) == \E v \in voted[b] : v.epoch = e /\ v.commit = c
CastVote(b, e, mixes) == \E v \in voted[b] : v.epoch = e /\ v.mixes = mixes

\* The maps of votes, commits and certificates have the shape of their Go counterparts.
Table(f) == [a \in Auth |-> [b \in Auth |-> f[a][b]]]
TablesInv ==
    /\ votes = Table(votes) /\ commits = Table(commits) /\ certificates = Table(certificates)
    /\ voted = [a \in Auth |-> voted[a]]

\* Whatever an authority holds of a peer for its round, the peer cast; so did what is on its way; and
\* an authority that has not voted in its round holds no vote of its own.
CastInv ==
    /\ \A a, b \in Auth :
          /\ votes[a][b] # None => CastVote(b, votingEpoch[a], votes[a][b])
          /\ commits[a][b] # 0 => CastCommit(b, votingEpoch[a], commits[a][b])
          /\ certificates[a][b] # None =>
                \A c \in Auth : certificates[a][b][c] # 0 => CastCommit(c, votingEpoch[a], certificates[a][b][c])
    /\ \A m \in net :
          /\ m.type = "vote" => CastVote(m.from, m.epoch, m.mixes) /\ CastCommit(m.from, m.epoch, m.value)
          /\ m.type = "cert" => \A c \in Auth : m.seen[c] # 0 => CastCommit(c, m.epoch, m.seen[c])
    /\ \A a \in Auth :
          /\ fsm[a] \in {"bootstrap", "accept_desc"} => votes[a][a] = None
          /\ fsm[a] # "bootstrap" => votingEpoch[a] # 0

\* A signed document is backed by votes and commits of a threshold of authorities.
BackedByVotes(d) ==
    /\ \A x \in d.mixes : Cardinality(VotedFor(d.epoch, x)) >= threshold
    /\ \A r \in d.srv.reveals : r[1] \in Auth /\ CastCommit(r[1], d.epoch, r[2])
    /\ Cardinality({r[1] : r \in d.srv.reveals}) >= threshold
SignedBacked == \A a \in Auth : \A d \in signed[a] : BackedByVotes(d)

BInv == IInv /\ TablesInv /\ CastInv /\ SignedBacked

\* No vote is ever forgotten: the history only grows, by the vote of an authority in stateAcceptDescriptor.
LEMMA VotedGrows ==
    ASSUME TablesInv, [Next]_vars
    PROVE  voted' = [a \in Auth |-> voted'[a]] /\ \A a \in Auth : voted[a] \subseteq voted'[a]
<1>1. CASE UNCHANGED voted
    BY <1>1 DEF TablesInv
<1>2. ASSUME NEW b \in Auth, AcceptDescriptor(b)
      PROVE  voted' = [a \in Auth |-> voted'[a]] /\ \A a \in Auth : voted[a] \subseteq voted'[a]
  <2>1. PICK mixes : GetVote(b, mixes)
      BY <1>2 DEF AcceptDescriptor
  <2>2. UNCHANGED voted \/ \E v : voted' = [voted EXCEPT ![b] = @ \cup {v}]
      BY <2>1, Zenon DEF GetVote
  <2>3. ASSUME NEW v, voted' = [voted EXCEPT ![b] = @ \cup {v}]
        PROVE  voted' = [a \in Auth |-> IF a = b THEN voted[a] \cup {v} ELSE voted[a]]
      BY <2>3 DEF TablesInv
  <2> QED
      BY <1>1, <2>2, <2>3
<1>3. [Next]_vars => UNCHANGED voted \/ \E b \in Auth : AcceptDescriptor(b)
    BY Zenon DEF Next, vars, history, Bootstrap, AcceptCert, AcceptVote, AcceptReveal,
           AcceptSignature, Crash, Restart, FetchConsensus, OnVoteUpload, OnRevealUpload,
           OnCertUpload, OnSigUpload, Receive, ClockTick, AtHorizon
<1> QED
    BY <1>1, <1>2, <1>3

\* What was cast stays cast.
LEMMA CastKept ==
    ASSUME TablesInv, [Next]_vars, NEW b \in Auth, NEW e, NEW x
    PROVE  (CastVote(b, e, x) => CastVote(b, e, x)') /\ (CastCommit(b, e, x) => CastCommit(b, e, x)')
BY VotedGrows DEF CastVote, CastCommit

\* A step that casts and receives nothing keeps every entry of a round, or clears it.
KeepsOrClears ==
    /\ votes' = Table(votes') /\ commits' = Table(commits') /\ certificates' = Table(certificates')
    /\ \A a, b \in Auth :
          /\ votes'[a][b] = None \/ (votes'[a][b] = votes[a][b] /\ votingEpoch'[a] = votingEpoch[a])
          /\ commits'[a][b] = 0 \/ (commits'[a][b] = commits[a][b] /\ votingEpoch'[a] = votingEpoch[a])
          /\ certificates'[a][b] = None \/ (certificates'[a][b] = certificates[a][b] /\ votingEpoch'[a] = votingEpoch[a])

LEMMA EnterRoundKeeps ==
    ASSUME TablesInv, votingEpoch \in [Auth -> Epochs], NEW a \in Auth, NEW e, EnterRound(a, e)
    PROVE  /\ KeepsOrClears
           /\ votingEpoch'[a] = e
           /\ \A b \in Auth : b # a => votingEpoch'[b] = votingEpoch[b]
           /\ \A b \in Auth : b # a => votes'[b] = votes[b]
           /\ votingEpoch[a] # e => votes'[a][a] = None
           /\ votingEpoch[a] = e => votes'[a] = votes[a]
<1>1. /\ votingEpoch' = [votingEpoch EXCEPT ![a] = e]
      /\ votes' = [votes EXCEPT ![a] = IF votingEpoch[a] = e THEN votes[a] ELSE Nothing]
      /\ commits' = [commits EXCEPT ![a] = IF votingEpoch[a] = e THEN commits[a] ELSE Zero]
      /\ certificates' = [certificates EXCEPT ![a] = IF votingEpoch[a] = e THEN certificates[a] ELSE Nothing]
    BY DEF EnterRound
<1>2. /\ votes' = [b \in Auth |-> IF b = a THEN (IF votingEpoch[a] = e THEN votes[a] ELSE Nothing) ELSE votes[b]]
      /\ commits' = [b \in Auth |-> IF b = a THEN (IF votingEpoch[a] = e THEN commits[a] ELSE Zero) ELSE commits[b]]
      /\ certificates' = [b \in Auth |-> IF b = a THEN (IF votingEpoch[a] = e THEN certificates[a] ELSE Nothing)
                                         ELSE certificates[b]]
    BY <1>1, Zenon DEF TablesInv, Table
<1>3. /\ \A b \in Auth : votes[b] = [c \in Auth |-> votes[b][c]] /\ commits[b] = [c \in Auth |-> commits[b][c]]
                           /\ certificates[b] = [c \in Auth |-> certificates[b][c]]
      /\ Nothing = [c \in Auth |-> Nothing[c]] /\ Zero = [c \in Auth |-> Zero[c]]
    BY DEF TablesInv, Table, Nothing, Zero
<1>4. votes' = Table(votes') /\ commits' = Table(commits') /\ certificates' = Table(certificates')
    BY <1>2, <1>3, Zenon DEF Table
<1>5. \A b \in Auth : votingEpoch'[b] = IF b = a THEN e ELSE votingEpoch[b]
    BY <1>1
<1> QED
    BY <1>2, <1>4, <1>5 DEF KeepsOrClears, Nothing, Zero

LEMMA RoundKept == ASSUME TablesInv, UNCHANGED <<votingEpoch, votes, commits, certificates>> PROVE KeepsOrClears
BY DEF TablesInv, KeepsOrClears, Table

\* How a step may change what the authorities hold of a round.
LEMMA TableMoves ==
    ASSUME IInv, TablesInv, [Next]_vars
    PROVE  \/ KeepsOrClears
           \/ \E a \in Auth : AcceptDescriptor(a) \/ AcceptReveal(a)
           \/ \E m \in net : OnVoteUpload(m) \/ OnCertUpload(m)
<1>0. votingEpoch \in [Auth -> Epochs]
    BY DEF IInv, TypeOK
<1>1. ASSUME NEW a \in Auth, (\E e : EnterRound(a, e)) PROVE KeepsOrClears
    BY <1>0, <1>1, EnterRoundKeeps
<1>2. ASSUME NEW a \in Auth, Bootstrap(a) \/ AcceptSignature(a) \/ Stop(a) PROVE \E e : EnterRound(a, e)
    BY <1>2 DEF Bootstrap, AcceptSignature, Stop
<1>3. ASSUME NEW a \in Auth, AcceptVote(a) \/ Crash(a), ~Stop(a) PROVE KeepsOrClears
    BY <1>3, RoundKept DEF AcceptVote, Crash, roundVars
<1>4. CASE UNCHANGED <<votingEpoch, votes, commits, certificates>>
    BY <1>4, RoundKept
<1> QED
    BY <1>1, <1>2, <1>3, <1>4, Zenon
    DEF Next, vars, fsmVars, roundVars, AcceptCert, Restart,
        FetchConsensus, OnRevealUpload, OnSigUpload, Receive, ClockTick, AtHorizon

\* Writing one entry of a table changes that entry and keeps the shape.
Written(f, a, b, x) == [f EXCEPT ![a][b] = x]
LEMMA EntryWritten ==
    ASSUME NEW f, f = Table(f), NEW a \in Auth, NEW b \in Auth, NEW x
    PROVE  /\ Written(f, a, b, x) = Table(Written(f, a, b, x))
           /\ \A c, d \in Auth : Written(f, a, b, x)[c][d] = IF c = a /\ d = b THEN x ELSE f[c][d]
<1> DEFINE g == Written(f, a, b, x)
<1>1. f = [c \in Auth |-> f[c]] /\ \A c \in Auth : f[c] = [d \in Auth |-> f[c][d]]
    BY DEF Table
<1>2. g = [c \in Auth |-> IF c = a THEN [f[a] EXCEPT ![b] = x] ELSE f[c]]
    BY <1>1 DEF Written
<1>3. [f[a] EXCEPT ![b] = x] = [d \in Auth |-> IF d = b THEN x ELSE f[a][d]]
    BY <1>1
<1>4. \A c \in Auth : g[c] = [d \in Auth |-> IF c = a /\ d = b THEN x ELSE f[c][d]]
    BY <1>1, <1>2, <1>3
<1> HIDE DEF g
<1>5. ASSUME NEW c \in Auth, NEW d \in Auth PROVE g[c][d] = IF c = a /\ d = b THEN x ELSE f[c][d]
    BY <1>4, Zenon
<1>6. g = [c \in Auth |-> g[c]] /\ \A c \in Auth : g[c] = [d \in Auth |-> g[c][d]]
    BY <1>2, <1>4, <1>5, ZenonT(30)
<1>7. g = Table(g)
    BY <1>6 DEF Table
<1> QED
    BY <1>5, <1>7 DEF g

\* An authority that votes commits to the value it votes with; one that is too late does neither.
LEMMA VoteEffect ==
    ASSUME TablesInv, CastInv, NEW a \in Auth, AcceptDescriptor(a)
    PROVE  /\ \/ UNCHANGED <<votes, commits, voted, net>>
              \/ \E mixes, c, e :
                   /\ votes' = Written(votes, a, a, mixes) /\ commits' = Written(commits, a, a, c)
                   /\ e = votingEpoch[a] /\ c = random[a] /\ CastVote(a, e, mixes)' /\ CastCommit(a, e, c)'
                   /\ net' = net \cup
                        {[Message(a, b, "vote") EXCEPT !.mixes = mixes, !.value = random[a]] : b \in Peers(a)}
           /\ UNCHANGED <<votingEpoch, certificates>>
<1>1. PICK mixes \in Uploads : GetVote(a, mixes)
    BY DEF AcceptDescriptor
<1>2. votes[a][a] = None /\ UNCHANGED <<votingEpoch, certificates>>
    BY DEF AcceptDescriptor, Wakes, CastInv
<1>3. CASE Expired(votingEpoch[a])
    BY <1>1, <1>2, <1>3 DEF GetVote
<1>4. CASE ~Expired(votingEpoch[a])
  <2> DEFINE v == [epoch |-> votingEpoch[a], mixes |-> mixes, commit |-> random[a]]
  <2>1. /\ votes' = Written(votes, a, a, mixes) /\ commits' = Written(commits, a, a, random[a])
        /\ voted' = [voted EXCEPT ![a] = @ \cup {v}]
        /\ net' = net \cup
             {[Message(a, b, "vote") EXCEPT !.mixes = mixes, !.value = random[a]] : b \in Peers(a)}
      BY <1>1, <1>2, <1>4, Zenon DEF GetVote, Written
  <2>2. v \in voted'[a] /\ v.epoch = votingEpoch[a] /\ v.mixes = mixes /\ v.commit = random[a]
      BY <2>1, Zenon DEF TablesInv
  <2>3. \E f, d : f = votingEpoch[a] /\ d = random[a]
      OBVIOUS
  <2>4. PICK f, d : f = votingEpoch[a] /\ d = random[a]
      BY <2>3
  <2>5. CastVote(a, f, mixes)' /\ CastCommit(a, f, d)'
      BY <2>2, <2>4 DEF CastVote, CastCommit
  <2>6. commits' = Written(commits, a, a, d)
      BY <2>1, <2>4, Zenon
  <2> QED
      BY <1>2, <2>1, <2>4, <2>5, <2>6, Zenon
<1> QED
    BY <1>3, <1>4, Zenon

\* The tables keep their shape.
LEMMA StepTables == ASSUME BInv, [Next]_vars PROVE TablesInv'
<1>0. votes = Table(votes) /\ commits = Table(commits) /\ certificates = Table(certificates) /\ TablesInv /\ CastInv
      /\ voted' = [a \in Auth |-> voted'[a]]
    BY VotedGrows DEF BInv, TablesInv
<1> DEFINE Shape == votes' = Table(votes') /\ commits' = Table(commits') /\ certificates' = Table(certificates')
<1> SUFFICES Shape
    BY <1>0 DEF TablesInv, Table
<1>1. CASE KeepsOrClears
    BY <1>1 DEF KeepsOrClears
<1>2. ASSUME NEW a \in Auth, AcceptDescriptor(a) PROVE Shape
  <2>1. UNCHANGED certificates /\ (UNCHANGED <<votes, commits>>
          \/ \E x, y : votes' = Written(votes, a, a, x) /\ commits' = Written(commits, a, a, y))
      BY <1>0, <1>2, VoteEffect, Zenon
  <2>2. CASE UNCHANGED <<votes, commits>>
      BY <1>0, <2>1, <2>2 DEF Table
  <2>3. ASSUME NEW x, NEW y, votes' = Written(votes, a, a, x), commits' = Written(commits, a, a, y) PROVE Shape
    <3>1. votes' = Table(votes') /\ commits' = Table(commits')
        BY <1>0, <2>3, EntryWritten
    <3> QED
        BY <1>0, <2>1, <3>1 DEF Table
  <2> QED
      BY <2>1, <2>2, <2>3
<1>3. ASSUME NEW a \in Auth, AcceptReveal(a) PROVE Shape
  <2>1. UNCHANGED <<votes, commits>> /\ (UNCHANGED certificates \/ certificates' = Written(certificates, a, a, commits[a]))
      BY <1>3 DEF AcceptReveal, GetCertificate, Written
  <2>2. certificates' = Table(certificates')
      BY <1>0, <2>1, EntryWritten, SMTT(30) DEF Table
  <2> QED
      BY <1>0, <2>1, <2>2 DEF Table
<1>4. ASSUME NEW m \in net, OnVoteUpload(m) PROVE Shape
  <2>0. m.from \in Auth /\ m.to \in Auth
      BY DEF BInv, IInv, TypeOK
  <2>1. /\ UNCHANGED certificates
        /\ UNCHANGED votes \/ votes' = Written(votes, m.to, m.from, m.mixes)
        /\ UNCHANGED commits \/ commits' = Written(commits, m.to, m.from, m.value)
      BY <1>4 DEF OnVoteUpload, Written
  <2>2. votes' = Table(votes')
    <3>1. CASE UNCHANGED votes
        BY <1>0, <3>1
    <3>2. CASE votes' = Written(votes, m.to, m.from, m.mixes)
        BY <1>0, <2>0, <3>2, EntryWritten
    <3> QED
        BY <2>1, <3>1, <3>2
  <2>3. commits' = Table(commits')
    <3>1. CASE UNCHANGED commits
        BY <1>0, <3>1
    <3>2. CASE commits' = Written(commits, m.to, m.from, m.value)
        BY <1>0, <2>0, <3>2, EntryWritten
    <3> QED
        BY <2>1, <3>1, <3>2
  <2> QED
      BY <1>0, <2>1, <2>2, <2>3 DEF Table
<1>5. ASSUME NEW m \in net, OnCertUpload(m) PROVE Shape
  <2>0. m.from \in Auth /\ m.to \in Auth
      BY DEF BInv, IInv, TypeOK
  <2>1. /\ UNCHANGED <<votes, commits>>
        /\ UNCHANGED certificates \/ certificates' = Written(certificates, m.to, m.from, m.seen)
      BY <1>5 DEF OnCertUpload, Written
  <2>2. certificates' = Table(certificates')
    <3>1. CASE UNCHANGED certificates
        BY <1>0, <3>1
    <3>2. CASE certificates' = Written(certificates, m.to, m.from, m.seen)
        BY <1>0, <2>0, <3>2, EntryWritten, SMTT(30)
    <3> QED
        BY <2>1, <3>1, <3>2
  <2> QED
      BY <1>0, <2>1, <2>2 DEF Table
<1> QED
    BY <1>1, <1>2, <1>3, <1>4, <1>5, TableMoves DEF BInv

\* What an authority holds of a peer for its round, the peer cast.
HeldCast ==
    \A a, b \in Auth :
       /\ votes[a][b] # None => CastVote(b, votingEpoch[a], votes[a][b])
       /\ commits[a][b] # 0 => CastCommit(b, votingEpoch[a], commits[a][b])
       /\ certificates[a][b] # None =>
             \A c \in Auth : certificates[a][b][c] # 0 => CastCommit(c, votingEpoch[a], certificates[a][b][c])
LEMMA StepHeldCast == ASSUME BInv, [Next]_vars PROVE HeldCast'
<1>0. /\ votes = Table(votes) /\ commits = Table(commits) /\ certificates = Table(certificates)
      /\ TablesInv /\ CastInv /\ HeldCast /\ IInv /\ votingEpoch \in [Auth -> Epochs]
    BY DEF BInv, TablesInv, CastInv, HeldCast, IInv, TypeOK
<1>00. \A b \in Auth : \A e, x : (CastVote(b, e, x) => CastVote(b, e, x)') /\ (CastCommit(b, e, x) => CastCommit(b, e, x)')
    BY <1>0, CastKept
<1> SUFFICES ASSUME NEW a \in Auth, NEW b \in Auth, NEW e, e = votingEpoch'[a]
             PROVE  /\ \A x : x = votes'[a][b] /\ x # None => CastVote(b, e, x)'
                    /\ \A x : x = commits'[a][b] /\ x # 0 => CastCommit(b, e, x)'
                    /\ certificates'[a][b] # None => \A c \in Auth : \A x :
                          x = certificates'[a][b][c] /\ x # 0 => CastCommit(c, e, x)'
    BY DEF HeldCast, CastVote, CastCommit
<1> DEFINE V == \A x : x = votes'[a][b] /\ x # None => CastVote(b, e, x)'
           C == \A x : x = commits'[a][b] /\ x # 0 => CastCommit(b, e, x)'
           D == certificates'[a][b] # None =>
                  \A c \in Auth : \A x : x = certificates'[a][b][c] /\ x # 0 => CastCommit(c, e, x)'
<1>01. ASSUME votingEpoch'[a] = votingEpoch[a]
       PROVE  /\ votes'[a][b] = votes[a][b] => V
              /\ commits'[a][b] = commits[a][b] => C
              /\ certificates'[a][b] = certificates[a][b] => D
    BY <1>0, <1>00, <1>01 DEF HeldCast
<1>1. CASE KeepsOrClears
  <2>1. /\ votes'[a][b] = None \/ (votes'[a][b] = votes[a][b] /\ votingEpoch'[a] = votingEpoch[a])
        /\ commits'[a][b] = 0 \/ (commits'[a][b] = commits[a][b] /\ votingEpoch'[a] = votingEpoch[a])
        /\ certificates'[a][b] = None \/ (certificates'[a][b] = certificates[a][b] /\ votingEpoch'[a] = votingEpoch[a])
      BY <1>1 DEF KeepsOrClears
  <2> QED
      BY <1>01, <2>1
<1>2. ASSUME NEW p \in Auth, AcceptDescriptor(p) PROVE V /\ C /\ D
  <2>0. UNCHANGED <<votingEpoch, certificates>>
      BY <1>0, <1>2, VoteEffect, Zenon
  <2>1. CASE UNCHANGED <<votes, commits>>
      BY <1>01, <2>0, <2>1
  <2>2. ASSUME NEW mixes, NEW y, NEW f,
               votes' = Written(votes, p, p, mixes), commits' = Written(commits, p, p, y),
               f = votingEpoch[p], CastVote(p, f, mixes)', CastCommit(p, f, y)'
        PROVE  V /\ C
    <3>1. /\ votes'[a][b] = (IF a = p /\ b = p THEN mixes ELSE votes[a][b])
          /\ commits'[a][b] = (IF a = p /\ b = p THEN y ELSE commits[a][b])
        BY <1>0, <2>2, EntryWritten
    <3> QED
        BY <1>01, <2>0, <2>2, <3>1
  <2> QED
      BY <1>0, <1>01, <1>2, <2>0, <2>1, <2>2, VoteEffect, Zenon
<1>3. ASSUME NEW p \in Auth, AcceptReveal(p) PROVE V /\ C /\ D
  <2>1. /\ UNCHANGED <<votingEpoch, votes, commits>>
        /\ UNCHANGED certificates \/ certificates' = Written(certificates, p, p, commits[p])
      BY <1>3 DEF AcceptReveal, GetCertificate, Written
  <2>2. certificates'[a][b] = certificates[a][b] \/ (a = p /\ certificates'[a][b] = commits[a])
      BY <1>0, <2>1, EntryWritten
  <2>3. ASSUME NEW c \in Auth, NEW x, x = commits[a][c], x # 0 PROVE CastCommit(c, e, x)'
      BY <1>0, <1>00, <2>1, <2>3 DEF HeldCast
  <2> QED
      BY <1>01, <2>1, <2>2, <2>3
<1>4. ASSUME NEW m \in net, OnVoteUpload(m) PROVE V /\ C /\ D
  <2>0. m.from \in Auth /\ m.to \in Auth
      BY <1>0 DEF IInv, TypeOK
  <2>1. /\ UNCHANGED <<certificates, votingEpoch>>
        /\ \/ UNCHANGED <<votes, commits>>
           \/ /\ m.type = "vote" /\ m.epoch = votingEpoch[m.to]
              /\ votes' = Written(votes, m.to, m.from, m.mixes) /\ commits' = Written(commits, m.to, m.from, m.value)
      BY <1>4 DEF OnVoteUpload, Receive, fsmVars, InRound, Written
  <2>2. CASE UNCHANGED <<votes, commits>>
      BY <1>01, <2>1, <2>2
  <2>3. CASE /\ m.type = "vote" /\ m.epoch = votingEpoch[m.to]
             /\ votes' = Written(votes, m.to, m.from, m.mixes) /\ commits' = Written(commits, m.to, m.from, m.value)
    <3>1. \A f, x : f = m.epoch => (x = m.mixes => CastVote(m.from, f, x)') /\ (x = m.value => CastCommit(m.from, f, x)')
        BY <1>0, <1>00, <2>0, <2>3 DEF CastInv
    <3>2. /\ votes'[a][b] = (IF a = m.to /\ b = m.from THEN m.mixes ELSE votes[a][b])
          /\ commits'[a][b] = (IF a = m.to /\ b = m.from THEN m.value ELSE commits[a][b])
        BY <1>0, <2>0, <2>3, EntryWritten, SMTT(30)
    <3>3. CASE a = m.to /\ b = m.from
        BY <1>01, <2>1, <2>3, <3>1, <3>2, <3>3, SMTT(30)
    <3>4. CASE ~(a = m.to /\ b = m.from)
        BY <1>01, <2>1, <3>2, <3>4, SMTT(30)
    <3> QED
        BY <3>3, <3>4, SMTT(30)
  <2> QED
      BY <2>1, <2>2, <2>3
<1>5. ASSUME NEW m \in net, OnCertUpload(m) PROVE V /\ C /\ D
  <2>0. m.from \in Auth /\ m.to \in Auth
      BY <1>0 DEF IInv, TypeOK
  <2>1. /\ UNCHANGED <<votes, commits, votingEpoch>>
        /\ \/ UNCHANGED certificates
           \/ /\ m.type = "cert" /\ m.epoch = votingEpoch[m.to]
              /\ certificates' = Written(certificates, m.to, m.from, m.seen)
      BY <1>5 DEF OnCertUpload, Receive, fsmVars, InRound, Written
  <2>2. CASE UNCHANGED certificates
      BY <1>01, <2>1, <2>2, SMTT(30)
  <2>3. CASE /\ m.type = "cert" /\ m.epoch = votingEpoch[m.to]
             /\ certificates' = Written(certificates, m.to, m.from, m.seen)
    <3>1. \A c \in Auth : \A f, x : f = m.epoch /\ x = m.seen[c] /\ x # 0 => CastCommit(c, f, x)'
        BY <1>0, <1>00, <2>0, <2>3 DEF CastInv
    <3>2. certificates'[a][b] = (IF a = m.to /\ b = m.from THEN m.seen ELSE certificates[a][b])
        BY <1>0, <2>0, <2>3, EntryWritten, SMTT(30)
    <3>3. CASE a = m.to /\ b = m.from
        BY <1>01, <2>1, <2>3, <3>1, <3>2, <3>3, SMTT(30)
    <3>4. CASE ~(a = m.to /\ b = m.from)
        BY <1>01, <2>1, <3>2, <3>4
    <3> QED
        BY <3>3, <3>4
  <2> QED
      BY <2>1, <2>2, <2>3, SMTT(30)
<1> QED
    BY <1>0, <1>1, <1>2, <1>3, <1>4, <1>5, TableMoves, SMTT(30)
\* What is on its way was cast.
LEMMA NewMessageFields ==
    ASSUME NEW a, NEW b, NEW x, NEW y
    PROVE  /\ LET n == [Message(a, b, "vote") EXCEPT !.mixes = x, !.value = y]
              IN  n.type = "vote" /\ n.from = a /\ n.epoch = votingEpoch[a] /\ n.mixes = x /\ n.value = y
           /\ LET n == [Message(a, b, "reveal") EXCEPT !.value = y] IN n.type = "reveal"
           /\ LET n == [Message(a, b, "cert") EXCEPT !.seen = y]
              IN  n.type = "cert" /\ n.from = a /\ n.epoch = votingEpoch[a] /\ n.seen = y
           /\ LET n == [Message(a, b, "sig") EXCEPT !.doc = y] IN n.type = "sig"
BY DEF Message

LEMMA StepNetCast ==
    ASSUME BInv, [Next]_vars, NEW m \in net'
    PROVE  /\ m.type = "vote" => CastVote(m.from, m.epoch, m.mixes)' /\ CastCommit(m.from, m.epoch, m.value)'
           /\ m.type = "cert" => \A c \in Auth : m.seen[c] # 0 => CastCommit(c, m.epoch, m.seen[c])'
<1> DEFINE Fine(n) ==
        /\ n.type = "vote" => CastVote(n.from, n.epoch, n.mixes)' /\ CastCommit(n.from, n.epoch, n.value)'
        /\ n.type = "cert" => \A c \in Auth : n.seen[c] # 0 => CastCommit(c, n.epoch, n.seen[c])'
<1>0. TablesInv /\ CastInv /\ IInv
    BY DEF BInv
<1>00. \A b \in Auth : \A e, x : (CastVote(b, e, x) => CastVote(b, e, x)') /\ (CastCommit(b, e, x) => CastCommit(b, e, x)')
    BY <1>0, CastKept
<1>1. CASE m \in net
  <2>1. m.from \in Auth
      BY <1>0, <1>1, SMTT(30) DEF IInv, TypeOK
  <2>2. /\ m.type = "vote" => CastVote(m.from, m.epoch, m.mixes) /\ CastCommit(m.from, m.epoch, m.value)
        /\ m.type = "cert" => \A c \in Auth : m.seen[c] # 0 => CastCommit(c, m.epoch, m.seen[c])
      BY <1>0, <1>1 DEF CastInv
  <2> QED
      BY <1>00, <2>1, <2>2
<1>2. ASSUME NEW a \in Auth, AcceptDescriptor(a), m \notin net PROVE Fine(m)
  <2>1. PICK mixes, c, e :
             /\ e = votingEpoch[a] /\ c = random[a] /\ CastVote(a, e, mixes)' /\ CastCommit(a, e, c)'
             /\ net' = net \cup
                  {[Message(a, b, "vote") EXCEPT !.mixes = mixes, !.value = random[a]] : b \in Peers(a)}
      BY <1>0, <1>2, VoteEffect, Zenon
  <2>2. PICK b \in Peers(a) : m = [Message(a, b, "vote") EXCEPT !.mixes = mixes, !.value = random[a]]
      BY <1>2, <2>1, Zenon
  <2>3. m.type = "vote" /\ m.from = a /\ m.epoch = e /\ m.mixes = mixes /\ m.value = c
      BY <2>1, <2>2, Zenon DEF Message
  <2> QED
      BY <2>1, <2>3, Zenon
<1>3. ASSUME NEW a \in Auth, AcceptVote(a), m \notin net PROVE Fine(m)
  <2>1. PICK b \in Peers(a) : m = [Message(a, b, "reveal") EXCEPT !.value = reveals[a][a]]
      BY <1>3 DEF AcceptVote, Stop
  <2>2. m.type = "reveal"
      BY <2>1, NewMessageFields
  <2> QED
      BY <2>2
<1>4. ASSUME NEW a \in Auth, AcceptReveal(a), m \notin net PROVE Fine(m)
  <2>1. PICK b \in Peers(a) : m = [Message(a, b, "cert") EXCEPT !.seen = commits[a]]
      BY <1>4 DEF AcceptReveal, GetCertificate
  <2>2. m.type = "cert" /\ m.from = a /\ m.epoch = votingEpoch[a] /\ m.seen = commits[a]
      BY <2>1, NewMessageFields
  <2>3. \A c \in Auth : commits[a][c] # 0 => CastCommit(c, votingEpoch[a], commits[a][c])
      BY <1>0 DEF CastInv
  <2>4. ASSUME NEW c \in Auth, m.seen[c] # 0 PROVE CastCommit(c, m.epoch, m.seen[c])'
    <3>1. CastCommit(c, m.epoch, m.seen[c])
        BY <2>2, <2>3, <2>4
    <3> QED
        BY <1>00, <3>1
  <2> QED
      BY <2>2, <2>4
<1>5. ASSUME NEW a \in Auth, AcceptCert(a), m \notin net PROVE Fine(m)
  <2>1. UNCHANGED net \/ \E doc : Sign(a, doc)
      BY <1>5 DEF AcceptCert, GetMyConsensus
  <2>2. PICK doc : Sign(a, doc)
      BY <1>5, <2>1
  <2>3. PICK b \in Peers(a) : m = [Message(a, b, "sig") EXCEPT !.doc = doc]
      BY <1>5, <2>2 DEF Sign
  <2>4. m.type = "sig"
      BY <2>3, NewMessageFields
  <2> QED
      BY <2>4
<1>6. [Next]_vars => \/ net' \subseteq net
                    \/ \E a \in Auth : AcceptDescriptor(a) \/ AcceptVote(a) \/ AcceptReveal(a) \/ AcceptCert(a)
    BY Zenon DEF Next, vars, Bootstrap, AcceptSignature, Crash, Stop, Restart, FetchConsensus, OnVoteUpload,
        OnRevealUpload, OnCertUpload, OnSigUpload, Receive, ClockTick, InFlight, AtHorizon
<1> QED
    BY <1>1, <1>2, <1>3, <1>4, <1>5, <1>6

\* An authority enters a round without a vote of its own.
LEMMA StepOwnVote ==
    ASSUME BInv, [Next]_vars, NEW a \in Auth
    PROVE  /\ fsm'[a] \in {"bootstrap", "accept_desc"} => votes'[a][a] = None
           /\ fsm'[a] # "bootstrap" => votingEpoch'[a] # 0
<1> DEFINE Own == fsm'[a] \in {"bootstrap", "accept_desc"} => votes'[a][a] = None
<1>0. /\ TablesInv /\ CastInv /\ IInv /\ votes = Table(votes)
      /\ votingEpoch \in [Auth -> Epochs] /\ fsm \in [Auth -> States] /\ epoch \in Nat /\ phase \in 0..5
      /\ \A b \in Auth : votingEpoch[b] \in Nat
  <2>1. votingEpoch \in [Auth -> Epochs] /\ fsm \in [Auth -> States] /\ epoch \in 1..MaxEpoch /\ phase \in 0..5
      BY DEF BInv, IInv, TypeOK
  <2>2. TablesInv /\ CastInv /\ IInv /\ votes = Table(votes)
      BY DEF BInv, TablesInv
  <2>3. \A n \in Epochs : n \in Nat
      BY DEF Epochs
  <2>4. epoch \in Nat
      BY <2>1, VotingConstants, SMTT(30)
  <2> QED
      BY <2>1, <2>2, <2>3, <2>4
<1>1. fsm'[a] # "bootstrap" => votingEpoch'[a] # 0
  <2>1. Moves(a)
      BY <1>0, StepMoves, SMTT(30)
  <2> QED
      BY <1>0, <2>1 DEF Moves, Resets, Begins, Publishes, Advances, Restarts, CastInv
<1>2. ASSUME votes'[a][a] = votes[a][a], fsm'[a] = fsm[a] PROVE Own
    BY <1>0, <1>2, SMTT(30) DEF CastInv
<1>3. ASSUME NEW b \in Auth, NEW e, EnterRound(b, e), b # a, fsm' = [fsm EXCEPT ![b] = fsm'[b]] PROVE Own
    BY <1>0, <1>2, <1>3, EnterRoundKeeps
<1>4. ASSUME NEW e, EnterRound(a, e), votes[a][a] = None \/ votingEpoch[a] # e PROVE Own
    BY <1>0, <1>4, EnterRoundKeeps, SMTT(30)
<1>5. ASSUME NEW b \in Auth, Bootstrap(b) PROVE Own
  <2>1. fsm[b] = "bootstrap" /\ fsm' = [fsm EXCEPT ![b] = fsm'[b]] /\ \E e : EnterRound(b, e)
      BY <1>0, <1>5 DEF Bootstrap, Wakes, SetState
  <2> QED
      BY <1>0, <1>3, <1>4, <2>1 DEF CastInv
<1>6. ASSUME NEW b \in Auth, AcceptSignature(b) PROVE Own
  <2>1. /\ fsm[b] = "accept_signature" /\ fsm' = [fsm EXCEPT ![b] = fsm'[b]]
        /\ EnterRound(b, votingEpoch[b] + 1) \/ EnterRound(b, epoch + 2)
      BY <1>0, <1>6 DEF AcceptSignature, Wakes, SetState
  <2>2. Now >= Tick(votingEpoch[b] - 1, 1)
      BY <1>0, <2>1 DEF IInv, RoundInv, VotingStates
  <2>3. votingEpoch[b] # epoch + 2 /\ votingEpoch[b] # votingEpoch[b] + 1
      BY <1>0, <2>2 DEF Now, Tick
  <2> QED
      BY <1>3, <1>4, <2>1, <2>3, SMTT(30)
<1>7. ASSUME NEW b \in Auth, Stop(b) PROVE Own
  <2>1. fsm' = [fsm EXCEPT ![b] = fsm'[b]] /\ EnterRound(b, 0)
      BY <1>0, <1>7, SMTT(30) DEF Stop
  <2>2. votes[b][b] = None \/ votingEpoch[b] # 0
      BY <1>0 DEF CastInv
  <2> QED
      BY <1>3, <1>4, <2>1, <2>2
<1>8. ASSUME NEW b \in Auth, AcceptDescriptor(b) PROVE Own
  <2>1. fsm' = [fsm EXCEPT ![b] = "accept_vote"] /\ (votes' = votes \/ \E x : votes' = Written(votes, b, b, x))
      BY <1>0, <1>8, VoteEffect, Zenon DEF AcceptDescriptor, SetState
  <2>2. b # a => votes'[a][a] = votes[a][a]
      BY <1>0, <2>1, EntryWritten
  <2> QED
      BY <1>0, <1>2, <2>1, <2>2
<1>9. ASSUME NEW b \in Auth, AcceptVote(b) \/ AcceptReveal(b) \/ AcceptCert(b), ~Stop(b) PROVE Own
  <2>1. votes' = votes /\ \E x \in {"accept_reveal", "accept_cert", "accept_signature"} : fsm' = [fsm EXCEPT ![b] = x]
      BY <1>9 DEF AcceptVote, AcceptReveal, AcceptCert, SetState, roundVars
  <2> QED
      BY <1>0, <1>2, <2>1
<1>10. ASSUME NEW m \in net, OnVoteUpload(m) PROVE Own
  <2>1. /\ m.from \in Auth /\ m.to \in Auth /\ m.from # m.to /\ fsm' = fsm
        /\ votes' = votes \/ votes' = Written(votes, m.to, m.from, m.mixes)
      BY <1>0, <1>10, SMTT(30) DEF IInv, TypeOK, OnVoteUpload, Receive, fsmVars, Written
  <2>2. votes'[a][a] = votes[a][a]
      BY <1>0, <2>1, EntryWritten
  <2> QED
      BY <1>2, <2>1, <2>2, SMTT(30)
<1>11. ASSUME UNCHANGED <<votes, fsm>> PROVE Own
    BY <1>2, <1>11
<1>12. Own
    BY <1>5, <1>6, <1>7, <1>8, <1>9, <1>10, <1>11, ZenonT(30)
    DEF Next, vars, fsmVars, roundVars, Crash, Restart,
        FetchConsensus, OnRevealUpload, OnCertUpload, OnSigUpload, Receive, ClockTick, AtHorizon
<1> QED
    BY <1>1, <1>12

\* The entries verifyCommits agrees on are one per authority, and each was cast as a commit.
LEMMA RevealedCast ==
    ASSUME CastInv, NEW a \in Auth, NEW revealed \in VerifyCommits(a)
    PROVE  /\ \A r \in revealed : r[1] \in Auth /\ CastCommit(r[1], votingEpoch[a], r[2])
           /\ \A r, q \in revealed : r[1] = q[1] => r = q
<1> DEFINE own == IF certificates[a][a] = None THEN {} ELSE Entries(commits[a])
           complete == {x \in own : reveals[a][x[1]] = x[2]}
           visited == IF complete = own THEN {own} ELSE SUBSET complete
           bad == IF complete = own THEN {} ELSE {a}
<1>1. CASE revealed = {}
    BY <1>1
<1>2. CASE revealed # {}
  <2>1. PICK seen \in visited : revealed = {x \in Agreed(PeerEntries(a) \cup seen) : x[1] \notin bad}
      BY <1>2, Zenon DEF VerifyCommits
  <2>2. seen \subseteq own
      BY SMTT(30) DEF visited, complete
  <2>3. \A x \in revealed : x \in PeerEntries(a) \cup seen
      BY <2>1, SMTT(30) DEF Agreed
  <2>4. \A r, q \in revealed : r[1] = q[1] => r = q
      BY <2>1, SMTT(30) DEF Agreed
  <2>5. ASSUME NEW r \in own PROVE r[1] \in Auth /\ CastCommit(r[1], votingEpoch[a], r[2])
    <3>1. PICK c \in Auth : r = <<c, commits[a][c]>> /\ commits[a][c] # 0
        BY <2>5 DEF own, Entries
    <3>2. r[1] = c /\ r[2] = commits[a][c]
        BY <3>1, SMTT(30)
    <3> QED
        BY <3>1, <3>2, SMTT(30) DEF CastInv
  <2>6. ASSUME NEW r \in PeerEntries(a) PROVE r[1] \in Auth /\ CastCommit(r[1], votingEpoch[a], r[2])
    <3>1. PICK p \in Auth : certificates[a][p] # None /\ r \in Entries(certificates[a][p])
        BY <2>6, SMTT(30) DEF PeerEntries, Peers
    <3>2. PICK c \in Auth : r = <<c, certificates[a][p][c]>> /\ certificates[a][p][c] # 0
        BY <3>1, SMTT(30) DEF Entries
    <3>3. r[1] = c /\ r[2] = certificates[a][p][c]
        BY <3>2, SMTT(30)
    <3> QED
        BY <3>1, <3>2, <3>3 DEF CastInv
  <2> QED
      BY <2>2, <2>3, <2>4, <2>5, <2>6, Zenon
<1> QED
    BY <1>1, <1>2

\* What an authority signs is backed when it signs it.
LEMMA SignsBacked ==
    ASSUME CastInv, NEW a \in Auth, NEW revealed \in VerifyCommits(a), NEW srv, NEW prior,
           srv = ComputeSharedRandom(a, revealed), Cardinality(revealed) >= threshold
    PROVE  BackedByVotes(GetDocument(a, srv, prior))
<1> DEFINE d == GetDocument(a, srv, prior)
<1>1. d.epoch = votingEpoch[a] /\ d.mixes = TallyVotes(a) /\ d.srv.reveals = revealed
    BY DEF GetDocument, ComputeSharedRandom
<1>2. ASSUME NEW x \in TallyVotes(a) PROVE Cardinality(VotedFor(votingEpoch[a], x)) >= threshold
  <2> DEFINE S == {b \in Voters(a) : x \in votes[a][b]}
  <2>1. Cardinality(S) >= threshold
      BY <1>2, SMTT(30) DEF TallyVotes
  <2>2. S \subseteq VotedFor(votingEpoch[a], x) /\ VotedFor(votingEpoch[a], x) \subseteq Auth
      BY DEF Voters, VotedFor, CastInv, CastVote
  <2>3. IsFiniteSet(VotedFor(votingEpoch[a], x)) /\ IsFiniteSet(Auth)
      BY <2>2, FS_Subset, VotingConstants, SMTT(30)
  <2>4. Cardinality(S) <= Cardinality(VotedFor(votingEpoch[a], x))
      BY <2>2, <2>3, FS_Subset, SMTT(30)
  <2>5. Cardinality(S) \in Nat /\ Cardinality(VotedFor(votingEpoch[a], x)) \in Nat /\ Cardinality(Auth) \in Nat
      BY <2>2, <2>3, FS_Subset, FS_CardinalityType, SMTT(30)
  <2> HIDE DEF S
  <2> QED
      BY <2>1, <2>4, <2>5 DEF threshold
<1>3. \A r \in revealed : r[1] \in Auth /\ CastCommit(r[1], votingEpoch[a], r[2])
    BY RevealedCast
<1>4. Cardinality({r[1] : r \in revealed}) >= threshold
  <2> DEFINE T == {r[1] : r \in revealed}
             f == [r \in revealed |-> r[1]]
  <2>1. T \subseteq Auth
      BY RevealedCast
  <2>2. IsFiniteSet(T)
      BY <2>1, FS_Subset, VotingConstants
  <2>3. f \in Injection(revealed, T)
    <3>1. f \in [revealed -> T]
        OBVIOUS
    <3>2. \A r, q \in revealed : f[r] = f[q] => r = q
        BY RevealedCast
    <3> QED
        BY <3>1, <3>2 DEF Injection, IsInjective
  <2>4. IsFiniteSet(revealed) /\ Cardinality(revealed) <= Cardinality(T)
      BY <2>2, <2>3, FS_Injection
  <2>5. Cardinality(revealed) \in Nat /\ Cardinality(T) \in Nat /\ Cardinality(Auth) \in Nat
      BY <2>2, <2>4, FS_CardinalityType, VotingConstants
  <2> HIDE DEF T
  <2>6. Cardinality(T) >= threshold
      BY <2>4, <2>5, SMTT(30) DEF threshold
  <2> QED
      BY <2>6 DEF T
<1> QED
    BY <1>1, <1>2, <1>3, <1>4, SMTT(30) DEF BackedByVotes

\* What backs a document stays.
LEMMA BackingKept ==
    ASSUME TablesInv, [Next]_vars, NEW d, BackedByVotes(d)
    PROVE  BackedByVotes(d)'
<1>1. ASSUME NEW x \in d.mixes PROVE Cardinality(VotedFor(d.epoch, x)') >= threshold
  <2> DEFINE S == VotedFor(d.epoch, x)
             T == VotedFor(d.epoch, x)'
  <2>1. S \subseteq T /\ T \subseteq Auth
      BY VotedGrows DEF VotedFor
  <2>2. IsFiniteSet(T) /\ IsFiniteSet(Auth)
      BY <2>1, FS_Subset, VotingConstants, SMTT(30)
  <2>3. Cardinality(S) <= Cardinality(T) /\ Cardinality(S) \in Nat /\ Cardinality(T) \in Nat /\ Cardinality(Auth) \in Nat
      BY <2>1, <2>2, FS_Subset, FS_CardinalityType
  <2>4. Cardinality(S) >= threshold
      BY <1>1 DEF BackedByVotes
  <2> HIDE DEF S
  <2>5. Cardinality(T) >= threshold
      BY <2>3, <2>4, SMTT(30) DEF threshold
  <2> QED
      BY <2>5
<1>2. \A r \in d.srv.reveals : r[1] \in Auth /\ CastCommit(r[1], d.epoch, r[2])'
    BY CastKept DEF BackedByVotes
<1> QED
    BY <1>1, <1>2, SMTT(30) DEF BackedByVotes, threshold

\* Every signed document is backed.
LEMMA StepSignedBacked == ASSUME BInv, [Next]_vars PROVE SignedBacked'
<1>0. TablesInv /\ CastInv /\ IInv /\ SignedBacked
    BY DEF BInv
<1> SUFFICES ASSUME NEW a \in Auth, NEW d \in signed'[a] PROVE BackedByVotes(d)'
    BY DEF SignedBacked
<1>1. CASE d \in signed[a]
    BY <1>0, <1>1, BackingKept DEF SignedBacked
<1>2. ASSUME NEW b \in Auth, AcceptCert(b), d \notin signed[a] PROVE BackedByVotes(d)
  <2>1. PICK revealed \in VerifyCommits(b) : GetMyConsensus(b, revealed)
      BY <1>2, SMTT(30) DEF AcceptCert
  <2> DEFINE srv == ComputeSharedRandom(b, revealed)
             doc == GetDocument(b, srv, RotateSRV(b, srv))
  <2>2. UNCHANGED signed \/ (Cardinality(revealed) >= threshold /\ Sign(b, doc))
      BY <2>1 DEF GetMyConsensus
  <2>3. Cardinality(revealed) >= threshold /\ signed' = [signed EXCEPT ![b] = @ \cup {doc}]
      BY <1>2, <2>2 DEF Sign
  <2>4. d = doc
      BY <1>0, <1>2, <2>3, SMTT(30) DEF IInv, SigsInv
  <2> QED
      BY <1>0, <2>3, <2>4, SignsBacked, SMTT(30)
<1>3. [Next]_vars => UNCHANGED signed \/ \E b \in Auth : AcceptCert(b)
    BY Zenon DEF Next, vars, history, Bootstrap, AcceptDescriptor, AcceptVote, AcceptReveal,
           AcceptSignature, Crash, Restart, FetchConsensus, OnVoteUpload, OnRevealUpload,
           OnCertUpload, OnSigUpload, Receive, ClockTick, AtHorizon
<1>4. CASE d \notin signed[a]
  <2>1. BackedByVotes(d)
      BY <1>2, <1>3, <1>4
  <2> QED
      BY <1>0, <2>1, BackingKept, Zenon
<1> QED
    BY <1>1, <1>4

LEMMA InvariantBInv == Spec => []BInv
<1>1. Init => BInv
  <2> SUFFICES ASSUME Init PROVE BInv
      OBVIOUS
  <2>1. TablesInv
      BY SMTT(30) DEF Init, TablesInv, Table, Nothing, Zero
  <2>2. CastInv /\ SignedBacked
      BY DEF Init, CastInv, SignedBacked, Nothing, Zero
  <2> QED
      BY <2>1, <2>2, InitIInv DEF BInv
<1>2. BInv /\ [Next]_vars => BInv'
  <2> SUFFICES ASSUME BInv, [Next]_vars PROVE BInv'
      OBVIOUS
  <2>1. IInv'
      BY StepTypeOK, StepSigsInv, StepRoundInv, StepSignedInv, StepDocsInv, SMTT(30) DEF IInv, BInv
  <2>2. CastInv'
    <3>1. HeldCast'
        BY StepHeldCast, SMTT(30)
    <3>2. \A m \in net' :
          /\ m.type = "vote" => CastVote(m.from, m.epoch, m.mixes)' /\ CastCommit(m.from, m.epoch, m.value)'
          /\ m.type = "cert" => \A c \in Auth : m.seen[c] # 0 => CastCommit(c, m.epoch, m.seen[c])'
        BY StepNetCast, SMTT(30)
    <3>3. \A a \in Auth : /\ fsm'[a] \in {"bootstrap", "accept_desc"} => votes'[a][a] = None
                          /\ fsm'[a] # "bootstrap" => votingEpoch'[a] # 0
        BY StepOwnVote
    <3> QED
        BY <3>1, <3>2, <3>3 DEF HeldCast, CastInv
  <2> QED
      BY <2>1, <2>2, StepTables, StepSignedBacked DEF BInv
<1> QED
    BY <1>1, <1>2, PTL DEF Spec

(* Every descriptor of a published document was voted for by a threshold of *)
(* the authorities (tallyVotes), and its shared random value combines the   *)
(* commits of a threshold of them, each cast with a vote for that epoch     *)
(* (verifyCommits, computeSharedRandom), for any number of authorities,     *)
(* lost, late and repeated messages, stalls and crashes.                    *)
THEOREM DocumentsBacked == Spec => []DocumentBacked
<1>1. BInv => DocumentBacked
  <2> SUFFICES ASSUME BInv, NEW a \in Auth, NEW e \in Epochs, documents[a][e] # None
               PROVE  LET doc == documents[a][e] IN
                      /\ \A x \in doc.mixes : Cardinality(VotedFor(e, x)) >= threshold
                      /\ \A r \in doc.srv.reveals : \E v \in voted[r[1]] : v.epoch = e /\ v.commit = r[2]
                      /\ Cardinality({r[1] : r \in doc.srv.reveals}) >= threshold
      BY SMTT(30) DEF DocumentBacked
  <2> DEFINE doc == documents[a][e]
  <2>1. PICK b \in Auth : doc \in signed[b]
      BY DEF BInv, IInv, TypeOK
  <2>2. doc.epoch = e
      BY SMTT(30) DEF BInv, IInv, DocsInv, Certified
  <2>3. BackedByVotes(doc)
      BY <2>1 DEF BInv, SignedBacked
  <2> HIDE DEF doc
  <2>4. /\ \A x \in doc.mixes : Cardinality(VotedFor(e, x)) >= threshold
        /\ \A r \in doc.srv.reveals : \E v \in voted[r[1]] : v.epoch = e /\ v.commit = r[2]
        /\ Cardinality({r[1] : r \in doc.srv.reveals}) >= threshold
      BY <2>2, <2>3 DEF BackedByVotes, CastCommit
  <2> QED
      BY <2>4, SMTT(30) DEF doc
<1> QED
    BY <1>1, InvariantBInv, PTL

=============================================================================
