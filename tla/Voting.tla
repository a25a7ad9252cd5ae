-------------------------------- MODULE Voting --------------------------------
(***************************************************************************)
(* The directory authorities' voting protocol                              *)
(* (authority/voting/server/state.go).                                     *)
(*                                                                         *)
(* Every epoch the authorities vote on the document of the next one.  The  *)
(* epoch is divided in eighths by the clock; phases 0..4 are the first     *)
(* five, phase 5 stands for the last three.  At the end of each phase an   *)
(* authority wakes up and takes one step of its state machine (fsm):       *)
(*                                                                         *)
(*   phase 1  vote, with a commit to a random value                        *)
(*   phase 2  reveal the random value                                      *)
(*   phase 3  certify all commits and reveals seen                         *)
(*   phase 4  compute the consensus document, sign it                      *)
(*   phase 5  count the signatures, publish or go back to bootstrap        *)
(*                                                                         *)
(* What a step sends travels in messages that may be late, duplicated or   *)
(* lost; a step may be late; an authority may crash and restart from its   *)
(* disk.  All of these are counted in faults and crashes and bounded.      *)
(***************************************************************************)
EXTENDS Integers, FiniteSets, Sequences

CONSTANTS
    Auth,          \* cfg.Authorities
    Descs,         \* mix descriptors, each the full complement of nodes
    Uploads,       \* sets of descriptors an authority may hold when it votes
    MaxEpoch,      \* last epoch of the clock explored
    WeekOfEpochs,  \* epochs between two rotations of the weekly random values
    MaxFaults,     \* bound on late, duplicated and lost messages and slow fetches
    MaxStalls,     \* bound on phases an authority sleeps past its timer
    MaxCrashes,    \* bound on crashes
    None,          \* nothing stored
    Zeros          \* the all-zero shared random value

preserveForPastEpochs == 3
Epochs == 0..(MaxEpoch + 2)

ASSUME VotingConstants ==
    /\ IsFiniteSet(Auth) /\ Auth # {}
    /\ Uploads \subseteq SUBSET Descs
    /\ MaxEpoch \in Nat \ {0}
    /\ WeekOfEpochs \in Nat \ {0}
    /\ MaxFaults \in Nat /\ MaxStalls \in Nat /\ MaxCrashes \in Nat

VARIABLES
    epoch, phase,  \* epochtime.Now()
    up,            \* which authorities run
    fsm,           \* state.state
    votingEpoch, genesisEpoch, priorSRV,
    due,           \* the tick at which each authority's fsm timer fires
    votes,         \* state.votes[votingEpoch]: descriptors voted for, or None
    commits,       \* state.commits[votingEpoch]: 0, or the committed value
    reveals,       \* state.reveals[votingEpoch]: 0, or the revealed value
    certificates,  \* state.certificates[votingEpoch]: commits certified, or None
    myconsensus,   \* state.myconsensus[votingEpoch]
    signatures,    \* state.signatures[votingEpoch]: the document signed, or None
    documents,     \* state.documents
    disk,          \* the documents bucket of persistence.db
    fetching,      \* epochs whose document backgroundFetchConsensus is fetching
    random,        \* the next random value of each authority
    net,           \* messages on their way
    faults, stalls, crashes,
    lastFault,     \* history: the last epoch in which anything went wrong
    voted, signed  \* history: every vote cast and every document signed

clockVars == <<epoch, phase>>
fsmVars   == <<fsm, votingEpoch, due>>
srvVars   == <<genesisEpoch, priorSRV>>
roundVars == <<votes, commits, reveals, certificates, myconsensus, signatures>>
docVars   == <<documents, disk>>
faultVars == <<faults, stalls, crashes, lastFault>>
history   == <<voted, signed>>
vars == <<clockVars, up, fsmVars, srvVars, roundVars, docVars, fetching, random,
          net, faultVars, history>>

Bug_HalfIsEnough == Cardinality(Auth) \div 2
threshold == Cardinality(Auth) \div 2 + 1
Tick(e, p) == 6 * e + p
Now == Tick(epoch, phase)

NoDocs  == [e \in Epochs |-> None]
Nothing == [b \in Auth |-> None]
Zero    == [b \in Auth |-> 0]
-----------------------------------------------------------------------------
Init ==
    /\ epoch = 1 /\ phase = 0
    /\ up = [a \in Auth |-> TRUE]
    /\ fsm = [a \in Auth |-> "bootstrap"]
    /\ votingEpoch = Zero /\ genesisEpoch = Zero
    /\ priorSRV = [a \in Auth |-> <<>>]
    /\ due = [a \in Auth |-> Now]
    /\ votes = [a \in Auth |-> Nothing]
    /\ commits = [a \in Auth |-> Zero]
    /\ reveals = [a \in Auth |-> Zero]
    /\ certificates = [a \in Auth |-> Nothing]
    /\ myconsensus = Nothing
    /\ signatures = [a \in Auth |-> Nothing]
    /\ documents = [a \in Auth |-> NoDocs]
    /\ disk = [a \in Auth |-> NoDocs]
    /\ fetching = [a \in Auth |-> {}]
    /\ random = [a \in Auth |-> 1]
    /\ net = {}
    /\ faults = 0 /\ stalls = 0 /\ crashes = 0 /\ lastFault = 0
    /\ voted = [a \in Auth |-> {}] /\ signed = [a \in Auth |-> {}]

\* The fsm of a is in state s and its timer has fired.
Wakes(a, s) == up[a] /\ fsm[a] = s /\ Now >= due[a]

\* setState, and the sleep until phase p of epoch e.
SetState(a, s, e, p) ==
    /\ fsm' = [fsm EXCEPT ![a] = s]
    /\ due' = [due EXCEPT ![a] = Tick(e, p)]

\* The per-epoch maps are indexed by votingEpoch, which never returns to an
\* earlier value: a new votingEpoch starts with empty maps.
EnterRound(a, e) ==
    LET New(old, empty) == [old EXCEPT ![a] = IF votingEpoch[a] = e THEN @ ELSE empty] IN
    /\ votingEpoch' = [votingEpoch EXCEPT ![a] = e]
    /\ votes' = New(votes, Nothing)
    /\ commits' = New(commits, Zero)
    /\ reveals' = New(reveals, Zero)
    /\ certificates' = New(certificates, Nothing)
    /\ myconsensus' = New(myconsensus, None)
    /\ signatures' = New(signatures, Nothing)

\* pruneDocuments, which ends every fsm step.
Prune(docs) == [e \in Epochs |-> IF e + preserveForPastEpochs < epoch THEN None ELSE docs[e]]
PruneDocuments(a) ==
    /\ documents' = [documents EXCEPT ![a] = Prune(@)]
    /\ disk' = [disk EXCEPT ![a] = Prune(@)]

\* A message of a to every other authority, sent by sendCommandToPeerWithDeadline.
\* Fields a kind of message does not use keep their default.
Message(a, b, type) ==
    [type |-> type, from |-> a, to |-> b, epoch |-> votingEpoch[a], at |-> Now,
     mixes |-> {}, value |-> 0, seen |-> Zero, doc |-> None]
Peers(a) == Auth \ {a}
-----------------------------------------------------------------------------
(* The process ends, by a crash or a fatal error: its memory and what it    *)
(* was still sending are gone.                                              *)
Stop(a) ==
    /\ up' = [up EXCEPT ![a] = FALSE]
    /\ fsm' = [fsm EXCEPT ![a] = "bootstrap"]
    /\ EnterRound(a, 0)
    /\ genesisEpoch' = [genesisEpoch EXCEPT ![a] = 0]
    /\ priorSRV' = [priorSRV EXCEPT ![a] = <<>>]
    /\ documents' = [documents EXCEPT ![a] = NoDocs]
    /\ fetching' = [fetching EXCEPT ![a] = {}]
    /\ net' = {m \in net : m.from # a}
    /\ lastFault' = epoch

(* stateBootstrap.                                                          *)
TooLateToVote == phase >= 1

Bug_FetchPreviousOnly(a) == {e \in {epoch - 1} : documents[a][e] = None}
FetchEpochs(a) == {e \in {epoch - 1, epoch} : documents[a][e] = None}

Bootstrap(a) ==
    /\ Wakes(a, "bootstrap")
    /\ genesisEpoch' = [genesisEpoch EXCEPT ![a] = 0]
    /\ fetching' = [fetching EXCEPT ![a] = @ \cup FetchEpochs(a)]
    /\ \/ /\ TooLateToVote
          /\ EnterRound(a, epoch + 2)
          /\ SetState(a, "bootstrap", epoch + 1, 0)
       \/ /\ ~TooLateToVote
          /\ EnterRound(a, epoch + 1)
          /\ SetState(a, "accept_desc", epoch, 1)
    /\ PruneDocuments(a)
    /\ UNCHANGED <<clockVars, up, priorSRV, random, net, faultVars, history>>

(* stateAcceptDescriptor: getVote and sendVoteToAuthorities.  doCommit      *)
(* fails once the voting epoch has begun: the commit would be expired when  *)
(* it is signed.                                                            *)
Expired(e) == epoch >= e

GetVote(a, mixes) ==
    LET e == votingEpoch[a]
        vote == [epoch |-> e, mixes |-> mixes, commit |-> random[a]]
    IN  IF Expired(e)
        THEN UNCHANGED <<votes, commits, reveals, random, net, voted>>
        ELSE /\ commits' = [commits EXCEPT ![a][a] = random[a]]
             /\ reveals' = [reveals EXCEPT ![a][a] = random[a]]
             /\ random' = [random EXCEPT ![a] = @ + 1]
             /\ IF votes[a][a] # None
                THEN UNCHANGED <<votes, net, voted>>
                ELSE /\ votes' = [votes EXCEPT ![a][a] = mixes]
                     /\ voted' = [voted EXCEPT ![a] = @ \cup {vote}]
                     /\ net' = net \cup
                          {[Message(a, b, "vote") EXCEPT !.mixes = mixes, !.value = random[a]] : b \in Peers(a)}

AcceptDescriptor(a) ==
    /\ Wakes(a, "accept_desc")
    /\ LET prior == documents[a][votingEpoch[a] - 1] IN
       /\ genesisEpoch' = [genesisEpoch EXCEPT ![a] = IF prior = None THEN votingEpoch[a] ELSE prior.genesis]
       /\ priorSRV' = [priorSRV EXCEPT ![a] = IF prior = None THEN @ ELSE prior.prior]
    /\ \E mixes \in Uploads : GetVote(a, mixes)
    /\ SetState(a, "accept_vote", epoch, 2)
    /\ PruneDocuments(a)
    /\ UNCHANGED <<clockVars, up, votingEpoch, certificates, myconsensus, signatures,
                   fetching, faultVars, signed>>

(* stateAcceptVote: reveal and sendRevealToAuthorities.  An authority that  *)
(* has no reveal of its own shuts down.                                     *)
AcceptVote(a) ==
    /\ Wakes(a, "accept_vote")
    /\ \/ /\ reveals[a][a] # 0
          /\ net' = net \cup {[Message(a, b, "reveal") EXCEPT !.value = reveals[a][a]] : b \in Peers(a)}
          /\ SetState(a, "accept_reveal", epoch, 3)
          /\ PruneDocuments(a)
          /\ UNCHANGED <<up, votingEpoch, srvVars, roundVars, fetching, lastFault>>
       \/ /\ reveals[a][a] = 0
          /\ Stop(a)
          /\ UNCHANGED <<due, disk>>
    /\ UNCHANGED <<clockVars, random, faults, stalls, crashes, history>>

(* tallyVotes: the descriptors a threshold of the votes received agree on.  *)
(* The consensus parameters are configured alike everywhere and tally       *)
(* whenever there are enough votes.                                         *)
Voters(a) == {b \in Auth : votes[a][b] # None}
EnoughVotes(a) == Cardinality(Voters(a)) >= threshold
Bug_AnyVoteTallies(a) == UNION {votes[a][b] : b \in Voters(a)}
TallyVotes(a) == {x \in Descs : Cardinality({b \in Voters(a) : x \in votes[a][b]}) >= threshold}

(* IsDocumentWellFormed, on the fields getDocument fills.                   *)
IsDocumentWellFormed(doc) ==
    /\ doc.mixes # {}
    /\ doc.genesis # 0
    /\ doc.prior # <<>> \/ doc.genesis = doc.epoch

GetDocument(a, srv, prior) ==
    [epoch |-> votingEpoch[a], genesis |-> genesisEpoch[a], mixes |-> TallyVotes(a),
     srv |-> srv, prior |-> prior]

(* IsDocumentWellFormed, on the commits and reveals of a certificate.  One  *)
(* commit must have no reveal, several must each have theirs, and neither   *)
(* may have expired.                                                        *)
Committed(a) == {b \in Auth : commits[a][b] # 0}
Revealed(a)  == {b \in Auth : reveals[a][b] # 0}
CompleteReveals(a) ==
    /\ ~Expired(votingEpoch[a])
    /\ Cardinality(Committed(a)) = 1 => Revealed(a) = {}
    /\ Cardinality(Committed(a)) # 1 => reveals[a] = commits[a]

(* stateAcceptReveal: getCertificate and sendCertToAuthorities.  The        *)
(* document is filled before priorSRV changes, and priorSRV changes even    *)
(* when the certificate turns out malformed.                                *)
GetCertificate(a) ==
    LET e == votingEpoch[a]
        Rotated == CASE priorSRV[a] = <<>> -> <<Zeros, Zeros>>
                     [] priorSRV[a] # <<>> /\ e % WeekOfEpochs = 0 -> <<Zeros, priorSRV[a][1]>>
                     [] OTHER -> priorSRV[a]
        sound == /\ EnoughVotes(a)
                 /\ IsDocumentWellFormed(GetDocument(a, Zeros, priorSRV[a]))
                 /\ CompleteReveals(a)
                 /\ certificates[a][a] = None
    IN  /\ priorSRV' = [priorSRV EXCEPT ![a] = IF EnoughVotes(a) THEN Rotated ELSE @]
        /\ certificates' = IF sound THEN [certificates EXCEPT ![a][a] = commits[a]] ELSE certificates
        /\ net' = IF sound
                  THEN net \cup {[Message(a, b, "cert") EXCEPT !.seen = commits[a]] : b \in Peers(a)}
                  ELSE net

AcceptReveal(a) ==
    /\ Wakes(a, "accept_reveal")
    /\ GetCertificate(a)
    /\ SetState(a, "accept_cert", epoch, 4)
    /\ PruneDocuments(a)
    /\ UNCHANGED <<clockVars, up, votingEpoch, genesisEpoch, votes, commits, reveals, myconsensus,
                   signatures, fetching, random, faultVars, history>>

(* verifyCommits: the commits on which all certificates agree.  A           *)
(* certificate of a peer was complete when it was sent.  The authority's    *)
(* own one shares its maps with state.commits and state.reveals: a vote     *)
(* that came since may have left it without a reveal.  Go then visits its   *)
(* entries in any order until it meets the gap, and drops the authority's   *)
(* own commit.                                                              *)
Entries(cert) == {<<b, cert[b]>> : b \in {c \in Auth : cert[c] # 0}}
PeerEntries(a) == UNION {Entries(certificates[a][p]) : p \in {q \in Peers(a) : certificates[a][q] # None}}
Agreed(entries) == {x \in entries : \A y \in entries : y[1] = x[1] => y = x}

VerifyCommits(a) ==
    LET own == IF certificates[a][a] = None THEN {} ELSE Entries(commits[a])
        complete == {x \in own : reveals[a][x[1]] = x[2]}
        visited == IF complete = own THEN {own} ELSE SUBSET complete
        bad == IF complete = own THEN {} ELSE {a}
    IN  IF Expired(votingEpoch[a])
        THEN {{}}
        ELSE {{x \in Agreed(PeerEntries(a) \cup seen) : x[1] \notin bad} : seen \in visited}

(* computeSharedRandom: a hash of the epoch, the reveals and the shared     *)
(* random value of the previous document.                                   *)
ComputeSharedRandom(a, revealed) ==
    LET e == votingEpoch[a]
        prior == documents[a][e - 1]
    IN  [epoch |-> e, reveals |-> revealed, base |-> IF prior = None THEN Zeros ELSE prior.srv]

(* stateAcceptCert: getMyConsensus and sendSigToAuthorities.                *)
Certifiers(a) == {b \in Auth : certificates[a][b] # None}

RotateSRV(a, srv) ==
    LET e == votingEpoch[a] IN
    CASE e = genesisEpoch[a] -> <<srv, srv>>
      [] e # genesisEpoch[a] /\ e % WeekOfEpochs = 0 -> <<srv, priorSRV[a][1]>>
      [] OTHER -> priorSRV[a]

Sign(a, doc) ==
    /\ myconsensus' = [myconsensus EXCEPT ![a] = doc]
    /\ signed' = [signed EXCEPT ![a] = @ \cup {doc}]
    /\ net' = net \cup {[Message(a, b, "sig") EXCEPT !.doc = doc] : b \in Peers(a)}

GetMyConsensus(a, revealed) ==
    LET enough == Cardinality(Certifiers(a)) >= threshold /\ Cardinality(revealed) >= threshold
        srv == ComputeSharedRandom(a, revealed)
        prior == RotateSRV(a, srv)
        doc == GetDocument(a, srv, prior)
    IN  /\ priorSRV' = [priorSRV EXCEPT ![a] = IF enough THEN prior ELSE @]
        /\ \/ /\ enough /\ EnoughVotes(a) /\ IsDocumentWellFormed(doc)
              /\ Sign(a, doc)
           \/ /\ ~(enough /\ EnoughVotes(a) /\ IsDocumentWellFormed(doc))
              /\ UNCHANGED <<myconsensus, signed, net>>

AcceptCert(a) ==
    /\ Wakes(a, "accept_cert")
    /\ \E revealed \in VerifyCommits(a) : GetMyConsensus(a, revealed)
    /\ SetState(a, "accept_signature", epoch, 5)
    /\ PruneDocuments(a)
    /\ UNCHANGED <<clockVars, up, votingEpoch, genesisEpoch, votes, commits, reveals, certificates,
                   signatures, fetching, random, faultVars, voted>>

(* stateAcceptSignature: getThresholdConsensus.                             *)
Bug_AnySignatureCounts(a) == {b \in Auth : b = a \/ signatures[a][b] # None}
Signers(a) == {b \in Auth : b = a \/ signatures[a][b] = myconsensus[a]}
ThresholdConsensus(a) == myconsensus[a] # None /\ Cardinality(Signers(a)) >= threshold

AcceptSignature(a) ==
    /\ Wakes(a, "accept_signature")
    /\ \/ /\ ThresholdConsensus(a)
          /\ LET e == votingEpoch[a]
                 Publish(docs) == Prune([docs EXCEPT ![e] = myconsensus[a]])
             IN  /\ documents' = [documents EXCEPT ![a] = Publish(@)]
                 /\ disk' = [disk EXCEPT ![a] = Publish(@)]
                 /\ EnterRound(a, e + 1)
                 /\ SetState(a, "accept_desc", epoch + 1, 1)
       \/ /\ ~ThresholdConsensus(a)
          /\ PruneDocuments(a)
          /\ EnterRound(a, epoch + 2)
          /\ SetState(a, "bootstrap", epoch + 1, 0)
    /\ UNCHANGED <<clockVars, up, srvVars, fetching, random, net, faultVars, history>>
-----------------------------------------------------------------------------
(* A message reaches its peer.  When the answer is lost on the way back the *)
(* sender tries again: the message stays.                                   *)
Receive(m, type) ==
    /\ m.type = type
    /\ up[m.to]
    /\ \/ /\ net' = net \ {m}
          /\ UNCHANGED <<faults, lastFault>>
       \/ /\ faults < MaxFaults
          /\ faults' = faults + 1 /\ lastFault' = epoch
          /\ UNCHANGED net
    /\ UNCHANGED <<clockVars, up, fsmVars, srvVars, myconsensus, docVars, fetching, random,
                   stalls, crashes, history>>

InRound(m) == m.epoch = votingEpoch[m.to]

OnVoteUpload(m) ==
    LET fresh == InRound(m) /\ votes[m.to][m.from] = None IN
    /\ Receive(m, "vote")
    /\ votes' = IF fresh THEN [votes EXCEPT ![m.to][m.from] = m.mixes] ELSE votes
    /\ commits' = IF fresh THEN [commits EXCEPT ![m.to][m.from] = m.value] ELSE commits
    /\ UNCHANGED <<reveals, certificates, signatures>>

OnRevealUpload(m) ==
    LET fresh == /\ ~Expired(m.epoch) /\ InRound(m)
                 /\ commits[m.to][m.from] # 0 /\ reveals[m.to][m.from] = 0
    IN
    /\ Receive(m, "reveal")
    /\ reveals' = IF fresh THEN [reveals EXCEPT ![m.to][m.from] = m.value] ELSE reveals
    /\ UNCHANGED <<votes, commits, certificates, signatures>>

OnCertUpload(m) ==
    LET fresh == InRound(m) /\ votes[m.to][m.from] # None /\ certificates[m.to][m.from] = None IN
    /\ Receive(m, "cert")
    /\ certificates' = IF fresh THEN [certificates EXCEPT ![m.to][m.from] = m.seen] ELSE certificates
    /\ UNCHANGED <<votes, commits, reveals, signatures>>

Bug_CosignsPeerDocument(m) ==
    /\ m.type = "sig" /\ up[m.to]
    /\ net' = net \ {m}
    /\ signatures' = [signatures EXCEPT ![m.to][m.from] = m.doc]
    /\ signed' = [signed EXCEPT ![m.to] = @ \cup {m.doc}]
    /\ UNCHANGED <<clockVars, up, fsmVars, srvVars, votes, commits, reveals, certificates, myconsensus,
                   docVars, fetching, random, faultVars, voted>>

OnSigUpload(m) ==
    LET fresh == InRound(m) /\ ~Expired(m.epoch) /\ signatures[m.to][m.from] = None IN
    /\ Receive(m, "sig")
    /\ signatures' = IF fresh THEN [signatures EXCEPT ![m.to][m.from] = m.doc] ELSE signatures
    /\ UNCHANGED <<votes, commits, reveals, certificates>>

(* A fetch of backgroundFetchConsensus succeeds: b has the document of e.   *)
FetchConsensus(a, b, e) ==
    /\ up[a] /\ up[b] /\ a # b
    /\ e \in fetching[a]
    /\ documents[b][e] # None
    /\ documents' = [documents EXCEPT ![a][e] = IF @ = None THEN documents[b][e] ELSE @]
    /\ fetching' = [fetching EXCEPT ![a] = @ \ {e}]
    /\ UNCHANGED <<clockVars, up, fsmVars, srvVars, roundVars, disk, random, net, faultVars, history>>

Crash(a) ==
    /\ up[a]
    /\ crashes < MaxCrashes
    /\ crashes' = crashes + 1
    /\ Stop(a)
    /\ UNCHANGED <<clockVars, due, disk, random, faults, stalls, history>>

(* newState and restorePersistence.                                         *)
Restart(a) ==
    /\ ~up[a]
    /\ up' = [up EXCEPT ![a] = TRUE]
    /\ due' = [due EXCEPT ![a] = Now]
    /\ documents' = [documents EXCEPT ![a] =
          [e \in Epochs |-> IF e \in (epoch - 1)..(epoch + 1) THEN disk[a][e] ELSE None]]
    /\ lastFault' = epoch
    /\ UNCHANGED <<clockVars, fsm, votingEpoch, srvVars, roundVars, disk, fetching, random, net,
                   faults, stalls, crashes, history>>

(* The clock enters the next phase.  A message sent in the phase that ends  *)
(* is lost or, at most, one phase late; an authority whose timer has fired  *)
(* and that has not stepped stalls; a fetch lasts to the end of phase 1.    *)
Overdue == {a \in Auth : up[a] /\ Now >= due[a]}
InFlight == {m \in net : up[m.to] /\ m.at = Now}
SlowFetches ==
    {a \in Auth : phase = 0 /\ \E e \in fetching[a], b \in Peers(a) : up[b] /\ documents[b][e] # None}
Horizon == Tick(MaxEpoch, 5)

ClockTick ==
    LET slow == Cardinality(InFlight) + Cardinality(SlowFetches)
        stalled == Cardinality(Overdue)
    IN
    /\ Now < Horizon
    /\ faults + slow <= MaxFaults
    /\ stalls + stalled <= MaxStalls
    /\ faults' = faults + slow
    /\ stalls' = stalls + stalled
    /\ lastFault' = IF slow + stalled > 0 \/ \E a \in Auth : ~up[a] THEN epoch ELSE lastFault
    /\ \E late \in SUBSET InFlight : net' = late
    /\ phase' = IF phase = 5 THEN 0 ELSE phase + 1
    /\ epoch' = IF phase = 5 THEN epoch + 1 ELSE epoch
    /\ fetching' = IF phase = 0 THEN fetching ELSE [a \in Auth |-> {}]
    /\ UNCHANGED <<up, fsmVars, srvVars, roundVars, docVars, random, crashes, history>>

\* The end of the explored time.
AtHorizon == Now = Horizon /\ Overdue = {} /\ UNCHANGED vars

Next ==
    \/ \E a \in Auth :
          \/ Bootstrap(a) \/ AcceptDescriptor(a) \/ AcceptVote(a)
          \/ AcceptReveal(a) \/ AcceptCert(a) \/ AcceptSignature(a)
          \/ Crash(a) \/ Restart(a)
    \/ \E a, b \in Auth, e \in Epochs : FetchConsensus(a, b, e)
    \/ \E m \in net :
          \/ OnVoteUpload(m) \/ OnRevealUpload(m) \/ OnCertUpload(m) \/ OnSigUpload(m)
    \/ ClockTick
    \/ AtHorizon

Spec == Init /\ [][Next]_vars
-----------------------------------------------------------------------------
States == {"bootstrap", "accept_desc", "accept_vote", "accept_reveal", "accept_cert", "accept_signature"}

(* The shape of the state: the clock, the state machines and the message    *)
(* bookkeeping of every authority.                                          *)
TypeOK ==
    /\ epoch \in 1..MaxEpoch /\ phase \in 0..5
    /\ up \in [Auth -> BOOLEAN]
    /\ fsm \in [Auth -> States]
    /\ votingEpoch \in [Auth -> Epochs]
    /\ due \in [Auth -> Nat]
    /\ documents \in [Auth -> [Epochs -> (UNION {signed[a] : a \in Auth}) \cup {None}]]
    /\ disk \in [Auth -> [Epochs -> (UNION {signed[a] : a \in Auth}) \cup {None}]]
    /\ \A m \in net : m.from \in Auth /\ m.to \in Auth /\ m.from # m.to

(* The consensus of an epoch is unique: two authorities that serve or have  *)
(* stored a document for an epoch (getThresholdConsensus,                   *)
(* backgroundFetchConsensus, restorePersistence) have the same one.         *)
Agreement ==
    \A a, b \in Auth, e \in Epochs :
        /\ documents[a][e] # None /\ documents[b][e] # None => documents[a][e] = documents[b][e]
        /\ documents[a][e] # None /\ disk[b][e] # None => documents[a][e] = disk[b][e]

(* An authority never signs two different consensus documents for the same  *)
(* epoch (getMyConsensus), even when it crashes and restarts in between.    *)
OneSignaturePerEpoch ==
    \A a \in Auth : \A c, d \in signed[a] : c.epoch = d.epoch => c = d

(* Every descriptor of a published document was voted for by a threshold of *)
(* authorities (tallyVotes), and its shared random value combines reveals   *)
(* of a threshold of them, each the value its authority committed to before *)
(* any reveal was sent (verifyCommits, computeSharedRandom).                *)
VotedFor(e, x) == {a \in Auth : \E v \in voted[a] : v.epoch = e /\ x \in v.mixes}
DocumentBacked ==
    \A a \in Auth, e \in Epochs :
        LET doc == documents[a][e] IN
        doc # None =>
            /\ \A x \in doc.mixes : Cardinality(VotedFor(e, x)) >= threshold
            /\ \A r \in doc.srv.reveals : \E v \in voted[r[1]] : v.epoch = e /\ v.commit = r[2]
            /\ Cardinality({r[1] : r \in doc.srv.reveals}) >= threshold

(* Once nothing has gone wrong for a whole epoch, every authority ends it   *)
(* with the document of the next one, whatever happened before: the network *)
(* recovers from a failed round in one epoch (stateBootstrap,               *)
(* backgroundFetchConsensus).                                               *)
CleanEpochPublishes ==
    (phase = 5 /\ lastFault < epoch /\ Overdue = {}) =>
        \A a \in Auth : documents[a][epoch + 1] # None

(* What the voting protocol promises, as DirectoryConsensus states it: the  *)
(* document a threshold of authorities has signed is the one chosen for its *)
(* epoch, for ever, and no authority serves another, then or later.         *)
Backers(doc) == {a \in Auth : doc \in signed[a]}
Backed(e) ==
    {doc \in UNION {signed[a] : a \in Auth} : doc.epoch = e /\ Cardinality(Backers(doc)) >= threshold}
Chosen == [e \in Epochs |-> IF Backed(e) = {} THEN None ELSE CHOOSE doc \in Backed(e) : TRUE]
Directory == INSTANCE DirectoryConsensus WITH chosen <- Chosen, served <- documents
ImplementsDirectory == Directory!Spec

(* README: the authorities "can tolerate (1/2 * n)-1 node outages".  With   *)
(* no other fault than that many crashed authorities, the others end every  *)
(* epoch with the document of the next one.                                 *)
ToleratesOutages ==
    (phase = 5 /\ Overdue = {} /\ 2 * crashes <= Cardinality(Auth) - 2) =>
        \A a \in Auth : up[a] => documents[a][epoch + 1] # None

(* getMyConsensus "rotate[s] the weekly epochs": the document of an epoch   *)
(* that starts a week carries the new shared random value and the one of    *)
(* the week before, which its predecessor carried first.                    *)
WeeklyRotationKeepsPrevious ==
    \A a \in Auth, e \in Epochs \ {0} :
        LET doc == documents[a][e]
            before == documents[a][e - 1]
        IN  (doc # None /\ before # None /\ doc.genesis # e /\ e % WeekOfEpochs = 0) =>
                doc.prior = <<doc.srv, before.prior[1]>>
=============================================================================
