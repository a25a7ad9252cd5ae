----------------------------- MODULE VotingProofs -----------------------------
(***************************************************************************)
(* Proofs about Voting, for any set of authorities, any number of epochs   *)
(* and any number of lost, late and repeated messages, stalls and crashes: *)
(* an authority signs one document per epoch, and the documents of an      *)
(* epoch that any two authorities publish, fetch or restore are the same.  *)
(***************************************************************************)
EXTENDS Voting, FiniteSetTheorems, TLAPS

VotingStates == {"accept_vote", "accept_reveal", "accept_cert", "accept_signature"}

\* Every document ever signed.
Documents == UNION {signed[a] : a \in Auth}

\* The maps of signatures have the shape of their Go counterparts, and what
\* they hold has been signed by its owner; so does the network.
SigsInv ==
    /\ signed = [a \in Auth |-> signed[a]]
    /\ myconsensus \in [Auth -> Documents \cup {None}]
    /\ signatures \in [Auth -> [Auth -> Documents \cup {None}]]
    /\ \A a \in Auth : myconsensus[a] # None =>
          myconsensus[a] \in signed[a] /\ myconsensus[a].epoch = votingEpoch[a]
    /\ \A a, b \in Auth : signatures[a][b] # None => signatures[a][b] \in signed[b]
    /\ \A m \in net : m.type = "sig" => m.doc \in signed[m.from]

\* An authority votes for an epoch only once the publication deadline of the
\* epoch before has passed.
RoundInv ==
    \A a \in Auth :
        /\ ~up[a] => fsm[a] = "bootstrap"
        /\ votingEpoch[a] <= epoch + 2
        /\ fsm[a] = "accept_desc" => due[a] >= Tick(votingEpoch[a] - 1, 1)
        /\ fsm[a] \in VotingStates => Now >= Tick(votingEpoch[a] - 1, 1)

\* What has been signed is for a round that began after its deadline, and for
\* a round before the current one unless it was signed in this very round.
SignedInv ==
    \A a \in Auth : \A d \in signed[a] :
        /\ d.epoch \in Nat
        /\ Now >= Tick(d.epoch - 1, 1)
        /\ fsm[a] = "accept_signature" => d.epoch <= votingEpoch[a]
        /\ fsm[a] \in {"accept_desc"} \cup (VotingStates \ {"accept_signature"}) => d.epoch < votingEpoch[a]

\* A document is stored only with a threshold of signatures.
Certified(d, e) == d.epoch = e /\ Cardinality(Backers(d)) >= threshold
DocsInv ==
    \A a \in Auth, e \in Epochs :
        /\ documents[a][e] # None => Certified(documents[a][e], e)
        /\ disk[a][e] # None => Certified(disk[a][e], e)

IInv == TypeOK /\ SigsInv /\ RoundInv /\ SignedInv /\ OneSignaturePerEpoch /\ DocsInv
-----------------------------------------------------------------------------
\* The invariant holds when the authorities start.
LEMMA InitIInv == Init => IInv
<1> SUFFICES ASSUME Init PROVE IInv
    OBVIOUS
<1> USE VotingConstants
<1>1. TypeOK
  <2>1. /\ epoch \in 1..MaxEpoch /\ phase \in 0..5
        /\ due \in [Auth -> Nat] /\ votingEpoch \in [Auth -> Epochs]
        /\ up \in [Auth -> BOOLEAN] /\ fsm \in [Auth -> States] /\ net = {}
      BY DEF Init, Zero, Epochs, Now, Tick, States
  <2>2. \A S : [a \in Auth |-> NoDocs] \in [Auth -> [Epochs -> S \cup {None}]]
      BY DEF NoDocs
  <2>3. documents = [a \in Auth |-> NoDocs] /\ disk = [a \in Auth |-> NoDocs]
      BY DEF Init
  <2> QED
      BY <2>1, <2>2, <2>3 DEF TypeOK
<1>2. SigsInv
    BY DEF Init, Nothing, SigsInv, Documents
<1>3. RoundInv
    BY DEF Init, Zero, RoundInv, VotingStates
<1>4. SignedInv /\ OneSignaturePerEpoch /\ DocsInv
    BY DEF Init, NoDocs, SignedInv, OneSignaturePerEpoch, DocsInv
<1> QED
    BY <1>1, <1>2, <1>3, <1>4 DEF IInv

\* Nothing signed is ever forgotten: the history only grows, by documents for
\* the current round of an authority in stateAcceptCert.
LEMMA SignedGrows ==
    ASSUME IInv, [Next]_vars, NEW a \in Auth
    PROVE  /\ signed' = [b \in Auth |-> signed'[b]]
           /\ signed[a] \subseteq signed'[a]
           /\ \A d \in signed'[a] : d \in signed[a]
                \/ /\ fsm[a] = "accept_cert" /\ fsm'[a] = "accept_signature"
                   /\ d.epoch = votingEpoch[a] /\ votingEpoch' = votingEpoch
                   /\ signed'[a] = signed[a] \cup {d}
                   /\ UNCHANGED <<epoch, phase>>
<1> USE DEF IInv, SigsInv
<1>1. CASE UNCHANGED signed
    BY <1>1
<1>2. ASSUME NEW b \in Auth, AcceptCert(b), ~UNCHANGED signed
      PROVE  /\ signed' = [c \in Auth |-> signed'[c]]
             /\ signed[a] \subseteq signed'[a]
             /\ \A d \in signed'[a] : d \in signed[a]
                \/ /\ fsm[a] = "accept_cert" /\ fsm'[a] = "accept_signature"
                   /\ d.epoch = votingEpoch[a] /\ votingEpoch' = votingEpoch
                   /\ signed'[a] = signed[a] \cup {d}
                   /\ UNCHANGED <<epoch, phase>>
  <2>1. PICK doc : Sign(b, doc) /\ doc.epoch = votingEpoch[b]
    <3>1. PICK revealed : GetMyConsensus(b, revealed)
        BY <1>2 DEF AcceptCert
    <3> QED
        BY <3>1, <1>2 DEF GetMyConsensus, GetDocument
  <2>2. /\ fsm[b] = "accept_cert" /\ fsm' = [fsm EXCEPT ![b] = "accept_signature"]
        /\ UNCHANGED <<votingEpoch, epoch, phase>>
      BY <1>2 DEF AcceptCert, Wakes, SetState, clockVars
  <2>3. signed' = [signed EXCEPT ![b] = @ \cup {doc}]
      BY <2>1 DEF Sign
  <2> QED
      BY <2>1, <2>2, <2>3, Zenon DEF TypeOK
<1>3. [Next]_vars => UNCHANGED signed \/ \E b \in Auth : AcceptCert(b)
    BY Zenon DEF Next, vars, history, Bootstrap, AcceptDescriptor, AcceptVote, AcceptReveal,
           AcceptSignature, Crash, Restart, FetchConsensus, OnVoteUpload, OnRevealUpload,
           OnCertUpload, OnSigUpload, Receive, ClockTick, AtHorizon
<1> QED
    BY <1>1, <1>2, <1>3

\* The clock never goes back.
LEMMA ClockMonotone ==
    ASSUME TypeOK, [Next]_vars
    PROVE  /\ epoch' \in 1..MaxEpoch /\ phase' \in 0..5
           /\ epoch' >= epoch /\ Now' >= Now
<1> USE VotingConstants DEF TypeOK, Now, Tick
<1>1. CASE ClockTick
    BY <1>1 DEF ClockTick, Horizon
<1>2. CASE UNCHANGED clockVars
    BY <1>2 DEF clockVars
<1>3. [Next]_vars => ClockTick \/ UNCHANGED clockVars
    BY Zenon DEF Next, vars, Bootstrap, AcceptDescriptor, AcceptVote, AcceptReveal, AcceptCert,
           AcceptSignature, Crash, Restart, FetchConsensus, OnVoteUpload, OnRevealUpload,
           OnCertUpload, OnSigUpload, Receive, AtHorizon
<1> QED
    BY <1>1, <1>2, <1>3

\* How one authority's state machine may move.
Resets(a) == fsm'[a] = "bootstrap" /\ votingEpoch'[a] \in {0, epoch + 2}
Begins(a) ==
    /\ fsm[a] = "bootstrap" /\ phase = 0
    /\ fsm'[a] = "accept_desc" /\ votingEpoch'[a] = epoch + 1 /\ due'[a] = Tick(epoch, 1)
Publishes(a) ==
    /\ fsm[a] = "accept_signature" /\ fsm'[a] = "accept_desc"
    /\ votingEpoch'[a] = votingEpoch[a] + 1 /\ due'[a] = Tick(epoch + 1, 1)
Advances(a) ==
    /\ Now >= due[a]
    /\ <<fsm[a], fsm'[a]>> \in {<<"accept_desc", "accept_vote">>, <<"accept_vote", "accept_reveal">>,
          <<"accept_reveal", "accept_cert">>, <<"accept_cert", "accept_signature">>}
    /\ votingEpoch'[a] = votingEpoch[a]
Restarts(a) == fsm[a] = "bootstrap" /\ UNCHANGED <<fsm[a], votingEpoch[a]>>
Moves(a) ==
    \/ UNCHANGED <<fsm[a], votingEpoch[a], due[a]>>
    \/ UNCHANGED clockVars /\ (Resets(a) \/ Begins(a) \/ Publishes(a) \/ Advances(a) \/ Restarts(a))

FsmTypes ==
    /\ fsm' \in [Auth -> States] /\ votingEpoch' \in [Auth -> Nat] /\ due' \in [Auth -> Nat]

\* Every step moves every state machine as fsm() does; a stopped authority is
\* back in bootstrap.
LEMMA StepMoves ==
    ASSUME IInv, [Next]_vars
    PROVE  FsmTypes /\ \A a \in Auth : Moves(a)
<1>0. /\ fsm \in [Auth -> States] /\ votingEpoch \in [Auth -> Nat] /\ due \in [Auth -> Nat]
      /\ epoch \in Nat /\ phase \in Nat
      /\ Tick(epoch, 1) \in Nat /\ Tick(epoch + 1, 0) \in Nat /\ Tick(epoch + 1, 1) \in Nat
      /\ Now \in Nat /\ \A p \in Nat : Tick(epoch, p) \in Nat
      /\ \A b \in Auth : ~up[b] => fsm[b] = "bootstrap"
  <2>1. Epochs \subseteq Nat
      BY DEF Epochs
  <2>2. epoch \in Nat /\ phase \in Nat
      BY VotingConstants DEF IInv, TypeOK
  <2>3. /\ Tick(epoch, 1) \in Nat /\ Tick(epoch + 1, 0) \in Nat /\ Tick(epoch + 1, 1) \in Nat
        /\ Now \in Nat /\ \A p \in Nat : Tick(epoch, p) \in Nat
      BY <2>2 DEF Tick, Now
  <2>4. /\ fsm \in [Auth -> States] /\ votingEpoch \in [Auth -> Nat] /\ due \in [Auth -> Nat]
      BY <2>1, Zenon DEF IInv, TypeOK
  <2>5. \A b \in Auth : ~up[b] => fsm[b] = "bootstrap"
      BY DEF IInv, RoundInv
  <2> QED
      BY <2>2, <2>3, <2>4, <2>5
<1> USE DEF FsmTypes
<1>1. CASE UNCHANGED fsmVars
    BY <1>0, <1>1 DEF fsmVars, Moves
<1>2. ASSUME NEW a \in Auth, Bootstrap(a)
      PROVE  FsmTypes /\ \A b \in Auth : Moves(b)
  <2>1. CASE TooLateToVote
    <3>1. /\ fsm' = [fsm EXCEPT ![a] = "bootstrap"] /\ due' = [due EXCEPT ![a] = Tick(epoch + 1, 0)]
          /\ EnterRound(a, epoch + 2)
          /\ UNCHANGED clockVars
        BY <1>2, <2>1 DEF Bootstrap, SetState
    <3>2. votingEpoch' = [votingEpoch EXCEPT ![a] = epoch + 2]
        BY <3>1 DEF EnterRound
    <3> QED
        BY <1>0, <3>2, <3>1 DEF Moves, Resets, Begins, Publishes, Advances, States
  <2>2. CASE ~TooLateToVote
    <3>1. /\ fsm[a] = "bootstrap"
          /\ fsm' = [fsm EXCEPT ![a] = "accept_desc"] /\ due' = [due EXCEPT ![a] = Tick(epoch, 1)]
          /\ EnterRound(a, epoch + 1)
          /\ UNCHANGED clockVars
        BY <1>2, <2>2 DEF Bootstrap, Wakes, SetState
    <3>2. votingEpoch' = [votingEpoch EXCEPT ![a] = epoch + 1]
        BY <3>1 DEF EnterRound
    <3> QED
        BY <1>0, <3>2, <2>2, <3>1 DEF Moves, Resets, Begins, Publishes, Advances, States, TooLateToVote
  <2> QED
      BY <2>1, <2>2
<1>3. ASSUME NEW a \in Auth, AcceptDescriptor(a) \/ AcceptReveal(a) \/ AcceptCert(a)
      PROVE  FsmTypes /\ \A b \in Auth : Moves(b)
  <2>1. PICK t \in {"accept_vote", "accept_cert", "accept_signature"}, p \in Nat :
          /\ <<fsm[a], t>> \in {<<"accept_desc", "accept_vote">>, <<"accept_reveal", "accept_cert">>,
                                <<"accept_cert", "accept_signature">>}
          /\ Now >= due[a]
          /\ fsm' = [fsm EXCEPT ![a] = t] /\ due' = [due EXCEPT ![a] = Tick(epoch, p)]
          /\ UNCHANGED <<votingEpoch, clockVars>>
    <3>1. CASE AcceptDescriptor(a)
        BY <3>1, Zenon DEF AcceptDescriptor, Wakes, SetState
    <3>2. CASE AcceptReveal(a)
        BY <3>2, Zenon DEF AcceptReveal, Wakes, SetState
    <3>3. CASE AcceptCert(a)
        BY <3>3, Zenon DEF AcceptCert, Wakes, SetState
    <3> QED
        BY <1>3, <3>1, <3>2, <3>3
  <2> QED
      BY <1>0, <2>1 DEF Moves, Resets, Begins, Publishes, Advances, States
<1>4. ASSUME NEW a \in Auth, AcceptVote(a)
      PROVE  FsmTypes /\ \A b \in Auth : Moves(b)
  <2>1. CASE reveals[a][a] # 0
    <3>1. /\ fsm[a] = "accept_vote" /\ Now >= due[a]
          /\ fsm' = [fsm EXCEPT ![a] = "accept_reveal"] /\ due' = [due EXCEPT ![a] = Tick(epoch, 3)]
          /\ UNCHANGED <<votingEpoch, clockVars>>
        BY <1>4, <2>1 DEF AcceptVote, Wakes, SetState
    <3> QED
        BY <1>0, <3>1 DEF Moves, Resets, Begins, Publishes, Advances, States
  <2>2. CASE reveals[a][a] = 0
    <3>1. /\ fsm' = [fsm EXCEPT ![a] = "bootstrap"] /\ votingEpoch' = [votingEpoch EXCEPT ![a] = 0]
          /\ UNCHANGED <<due, clockVars>>
        BY <1>4, <2>2 DEF AcceptVote, Stop, EnterRound
    <3> QED
        BY <1>0, <3>1 DEF Moves, Resets, Begins, Publishes, Advances, States
  <2> QED
      BY <2>1, <2>2
<1>5. ASSUME NEW a \in Auth, AcceptSignature(a)
      PROVE  FsmTypes /\ \A b \in Auth : Moves(b)
  <2>1. CASE ThresholdConsensus(a)
    <3>1. /\ fsm[a] = "accept_signature"
          /\ fsm' = [fsm EXCEPT ![a] = "accept_desc"] /\ due' = [due EXCEPT ![a] = Tick(epoch + 1, 1)]
          /\ EnterRound(a, votingEpoch[a] + 1)
          /\ UNCHANGED clockVars
        BY <1>5, <2>1 DEF AcceptSignature, Wakes, SetState
    <3>2. votingEpoch' = [votingEpoch EXCEPT ![a] = votingEpoch[a] + 1]
        BY <3>1 DEF EnterRound
    <3> QED
        BY <1>0, <3>2, <3>1 DEF Moves, Resets, Begins, Publishes, Advances, States
  <2>2. CASE ~ThresholdConsensus(a)
    <3>1. /\ fsm' = [fsm EXCEPT ![a] = "bootstrap"] /\ due' = [due EXCEPT ![a] = Tick(epoch + 1, 0)]
          /\ EnterRound(a, epoch + 2)
          /\ UNCHANGED clockVars
        BY <1>5, <2>2 DEF AcceptSignature, SetState
    <3>2. votingEpoch' = [votingEpoch EXCEPT ![a] = epoch + 2]
        BY <3>1 DEF EnterRound
    <3> QED
        BY <1>0, <3>2, <3>1 DEF Moves, Resets, Begins, Publishes, Advances, States
  <2> QED
      BY <2>1, <2>2
<1>6. ASSUME NEW a \in Auth, Crash(a)
      PROVE  FsmTypes /\ \A b \in Auth : Moves(b)
  <2>1. /\ fsm' = [fsm EXCEPT ![a] = "bootstrap"] /\ votingEpoch' = [votingEpoch EXCEPT ![a] = 0]
        /\ UNCHANGED <<due, clockVars>>
      BY <1>6 DEF Crash, Stop, EnterRound
  <2> QED
      BY <1>0, <2>1 DEF Moves, Resets, Begins, Publishes, Advances, States
<1>7. ASSUME NEW a \in Auth, Restart(a)
      PROVE  FsmTypes /\ \A b \in Auth : Moves(b)
    BY <1>0, <1>7 DEF Restart, Moves, Restarts
<1> QED
    BY <1>1, <1>2, <1>3, <1>4, <1>5, <1>6, <1>7, Zenon
    DEF Next, vars, FetchConsensus, OnVoteUpload, OnRevealUpload, OnCertUpload,
        OnSigUpload, Receive, ClockTick, AtHorizon

\* The state machines keep to their rounds.
LEMMA StepRoundInv == ASSUME IInv, [Next]_vars PROVE RoundInv'
<1>1. FsmTypes /\ \A a \in Auth : Moves(a)
    BY StepMoves
<1>2. /\ epoch \in Nat /\ phase \in 0..5 /\ epoch' \in Nat /\ phase' \in 0..5
      /\ epoch' >= epoch /\ Now' >= Now /\ Now \in Nat /\ Now' \in Nat
    BY ClockMonotone, VotingConstants DEF IInv, TypeOK, Now, Tick
<1>3. /\ fsm \in [Auth -> States] /\ votingEpoch \in [Auth -> Nat] /\ due \in [Auth -> Nat]
  <2>1. Epochs \subseteq Nat
      BY DEF Epochs
  <2> QED
      BY <2>1, Zenon DEF IInv, TypeOK
<1>4. ASSUME NEW a \in Auth
      PROVE  /\ (votingEpoch[a] <= epoch + 2)'
             /\ (fsm[a] = "accept_desc" => due[a] >= Tick(votingEpoch[a] - 1, 1))'
             /\ (fsm[a] \in VotingStates => Now >= Tick(votingEpoch[a] - 1, 1))'
  <2>1. /\ votingEpoch[a] <= epoch + 2
        /\ fsm[a] = "accept_desc" => due[a] >= Tick(votingEpoch[a] - 1, 1)
        /\ fsm[a] \in VotingStates => Now >= Tick(votingEpoch[a] - 1, 1)
      BY DEF IInv, RoundInv
  <2>2. Moves(a) /\ FsmTypes
      BY <1>1
  <2>3. CASE UNCHANGED <<fsm[a], votingEpoch[a], due[a]>>
      BY <1>2, <1>3, <2>1, <2>3 DEF Tick
  <2>4. CASE UNCHANGED clockVars /\ Resets(a)
      BY <1>2, <1>3, <2>1, <2>4 DEF Resets, VotingStates, Tick, Now, clockVars
  <2>5. CASE UNCHANGED clockVars /\ Begins(a)
      BY <1>2, <1>3, <2>1, <2>5 DEF Begins, VotingStates, Tick, Now, clockVars
  <2>6. CASE UNCHANGED clockVars /\ Publishes(a)
      BY <1>2, <1>3, <2>1, <2>6 DEF Publishes, VotingStates, Tick, Now, clockVars
  <2>7. CASE UNCHANGED clockVars /\ Advances(a)
      BY <1>2, <1>3, <2>1, <2>7 DEF Advances, VotingStates, Tick, Now, clockVars
  <2>8. CASE UNCHANGED clockVars /\ Restarts(a)
      BY <1>2, <1>3, <2>1, <2>8 DEF Restarts, VotingStates, Tick, Now, clockVars
  <2> QED
      BY <2>2, <2>3, <2>4, <2>5, <2>6, <2>7, <2>8 DEF Moves
<1>5. ASSUME NEW a \in Auth
      PROVE  (~up[a] => fsm[a] = "bootstrap")'
  <2>1. up \in [Auth -> BOOLEAN] /\ fsm \in [Auth -> States]
      BY DEF IInv, TypeOK
  <2>2. \A b \in Auth : ~up[b] => fsm[b] = "bootstrap"
      BY DEF IInv, RoundInv
  <2>3. CASE UNCHANGED <<up, fsm>>
      BY <2>2, <2>3
  <2>4. ASSUME NEW b \in Auth, up[b], UNCHANGED up, \A c \in Auth \ {b} : fsm'[c] = fsm[c]
        PROVE  (~up[a] => fsm[a] = "bootstrap")'
      BY <2>2, <2>4
  <2>5. ASSUME NEW b \in Auth, Stop(b)
        PROVE  (~up[a] => fsm[a] = "bootstrap")'
      BY <2>1, <2>2, <2>5 DEF Stop
  <2>6. ASSUME NEW b \in Auth, Restart(b)
        PROVE  (~up[a] => fsm[a] = "bootstrap")'
      BY <2>1, <2>2, <2>6 DEF Restart
  <2>7. ASSUME NEW b \in Auth, NEW s, NEW e, NEW p, SetState(b, s, e, p)
        PROVE  \A c \in Auth \ {b} : fsm'[c] = fsm[c]
      BY <2>1, <2>7 DEF SetState
  <2>8. ASSUME NEW b \in Auth, Bootstrap(b) \/ AcceptDescriptor(b) \/ AcceptReveal(b)
                                \/ AcceptCert(b) \/ AcceptSignature(b)
        PROVE  (~up[a] => fsm[a] = "bootstrap")'
    <3>1. up[b] /\ UNCHANGED up /\ \E s : fsm' = [fsm EXCEPT ![b] = s]
        BY <2>8 DEF Bootstrap, AcceptDescriptor, AcceptReveal, AcceptCert, AcceptSignature,
                    Wakes, SetState
    <3> QED
        BY <2>1, <2>4, <3>1
  <2>9. ASSUME NEW b \in Auth, AcceptVote(b)
        PROVE  (~up[a] => fsm[a] = "bootstrap")'
    <3>1. Stop(b) \/ (up[b] /\ UNCHANGED up /\ \E s : fsm' = [fsm EXCEPT ![b] = s])
        BY <2>9 DEF AcceptVote, Wakes, SetState
    <3> QED
        BY <2>1, <2>4, <2>5, <3>1
  <2> QED
      BY <2>3, <2>5, <2>6, <2>8, <2>9, Zenon
      DEF Next, vars, fsmVars, FetchConsensus, OnVoteUpload, OnRevealUpload, OnCertUpload,
          OnSigUpload, Receive, ClockTick, AtHorizon, Crash
<1> QED
    BY <1>4, <1>5 DEF RoundInv

\* Signatures are for rounds already begun, one in each round.
LEMMA StepSignedInv ==
    ASSUME IInv, [Next]_vars PROVE SignedInv' /\ OneSignaturePerEpoch'
<1>1. /\ FsmTypes /\ \A a \in Auth : Moves(a)
    BY StepMoves
<1>2. /\ epoch \in Nat /\ phase \in 0..5 /\ epoch' \in Nat /\ phase' \in 0..5
      /\ Now' >= Now /\ Now \in Nat /\ Now' \in Nat
    BY ClockMonotone, VotingConstants DEF IInv, TypeOK, Now, Tick
<1>3. /\ fsm \in [Auth -> States] /\ votingEpoch \in [Auth -> Nat] /\ due \in [Auth -> Nat]
  <2>1. Epochs \subseteq Nat
      BY DEF Epochs
  <2> QED
      BY <2>1, Zenon DEF IInv, TypeOK
<1>4. ASSUME NEW a \in Auth, NEW d \in signed'[a]
      PROVE  /\ d.epoch \in Nat
             /\ (Now >= Tick(d.epoch - 1, 1))'
             /\ (fsm[a] = "accept_signature" => d.epoch <= votingEpoch[a])'
             /\ (fsm[a] \in {"accept_desc"} \cup (VotingStates \ {"accept_signature"}) => d.epoch < votingEpoch[a])'
  <2>1. CASE d \in signed[a]
    <3>1. /\ d.epoch \in Nat /\ Now >= Tick(d.epoch - 1, 1)
          /\ fsm[a] = "accept_signature" => d.epoch <= votingEpoch[a]
          /\ fsm[a] \in {"accept_desc"} \cup (VotingStates \ {"accept_signature"}) => d.epoch < votingEpoch[a]
        BY <2>1 DEF IInv, SignedInv
    <3>2. Moves(a) /\ FsmTypes
        BY <1>1
    <3>3. CASE UNCHANGED <<fsm[a], votingEpoch[a], due[a]>>
        BY <1>2, <1>3, <3>1, <3>3 DEF Tick
    <3>4. CASE UNCHANGED clockVars /\ Resets(a)
        BY <1>2, <1>3, <3>1, <3>4 DEF Resets, VotingStates, Tick, Now, clockVars
    <3>5. CASE UNCHANGED clockVars /\ Begins(a)
        BY <1>2, <1>3, <3>1, <3>5 DEF Begins, VotingStates, Tick, Now, clockVars
    <3>6. CASE UNCHANGED clockVars /\ Publishes(a)
        BY <1>2, <1>3, <3>1, <3>6 DEF Publishes, VotingStates, Tick, Now, clockVars
    <3>7. CASE UNCHANGED clockVars /\ Advances(a)
        BY <1>2, <1>3, <3>1, <3>7 DEF Advances, VotingStates, Tick, Now, clockVars
    <3>8. CASE UNCHANGED clockVars /\ Restarts(a)
        BY <1>2, <1>3, <3>1, <3>8 DEF Restarts, VotingStates, Tick, Now, clockVars
    <3> QED
        BY <3>2, <3>3, <3>4, <3>5, <3>6, <3>7, <3>8 DEF Moves
  <2>2. CASE d \notin signed[a]
    <3>1. /\ fsm[a] = "accept_cert" /\ fsm'[a] = "accept_signature"
          /\ d.epoch = votingEpoch[a] /\ votingEpoch' = votingEpoch
          /\ UNCHANGED <<epoch, phase>>
        BY <2>2, SignedGrows
    <3>2. Now >= Tick(votingEpoch[a] - 1, 1)
        BY <3>1 DEF IInv, RoundInv, VotingStates
    <3> QED
        BY <1>2, <1>3, <3>1, <3>2 DEF VotingStates, Tick, Now
  <2> QED
      BY <2>1, <2>2
<1>5. ASSUME NEW a \in Auth, NEW c \in signed'[a], NEW d \in signed'[a], c.epoch = d.epoch
      PROVE  c = d
  <2>1. ASSUME NEW x \in signed'[a], x \notin signed[a], NEW y \in signed'[a], y.epoch = x.epoch
        PROVE  y = x
    <3>1. /\ fsm[a] = "accept_cert" /\ x.epoch = votingEpoch[a]
          /\ signed'[a] = signed[a] \cup {x}
        BY <2>1, SignedGrows
    <3>2. \A z \in signed[a] : z.epoch < votingEpoch[a] /\ z.epoch \in Nat
        BY <3>1 DEF IInv, SignedInv, VotingStates
    <3> QED
        BY <1>3, <2>1, <3>1, <3>2
  <2>2. CASE c \in signed[a] /\ d \in signed[a]
      BY <1>5, <2>2 DEF IInv, OneSignaturePerEpoch
  <2> QED
      BY <1>5, <2>1, <2>2
<1> QED
    BY <1>4, <1>5 DEF SignedInv, OneSignaturePerEpoch

\* What EnterRound does to the signature maps: nothing, or it clears them.
Clears(a) ==
    \/ UNCHANGED <<votingEpoch, myconsensus, signatures>>
    \/ /\ myconsensus' = [myconsensus EXCEPT ![a] = None]
       /\ signatures' = [signatures EXCEPT ![a] = Nothing]
       /\ \E e : votingEpoch' = [votingEpoch EXCEPT ![a] = e]

LEMMA EnterRoundClears ==
    ASSUME votingEpoch \in [Auth -> Epochs], SigsInv, NEW a \in Auth, NEW e, EnterRound(a, e)
    PROVE  Clears(a)
<1>1. CASE votingEpoch[a] = e
    BY <1>1 DEF EnterRound, Clears, SigsInv
<1>2. CASE votingEpoch[a] # e
    BY <1>2, Zenon DEF EnterRound, Clears, SigsInv
<1> QED
    BY <1>1, <1>2

\* How a step may change the signature maps.
LEMMA SigMoves ==
    ASSUME IInv, [Next]_vars
    PROVE  \/ UNCHANGED <<votingEpoch, myconsensus, signatures>>
           \/ \E a \in Auth : Clears(a)
           \/ \E a \in Auth : AcceptCert(a)
           \/ \E m \in net : OnSigUpload(m)
<1>0. votingEpoch \in [Auth -> Epochs] /\ SigsInv
    BY DEF IInv, TypeOK
<1>1. ASSUME NEW a \in Auth, Bootstrap(a) PROVE Clears(a)
    BY <1>0, <1>1, EnterRoundClears DEF Bootstrap
<1>2. ASSUME NEW a \in Auth, AcceptSignature(a) PROVE Clears(a)
    BY <1>0, <1>2, EnterRoundClears DEF AcceptSignature
<1>3. ASSUME NEW a \in Auth, Stop(a) PROVE Clears(a)
    BY <1>0, <1>3, EnterRoundClears DEF Stop
<1> QED
    BY <1>1, <1>2, <1>3, ZenonT(30)
    DEF Next, vars, fsmVars, roundVars, AcceptDescriptor, AcceptVote, AcceptReveal, Crash, Restart,
        FetchConsensus, OnVoteUpload, OnRevealUpload, OnCertUpload, Receive, ClockTick, AtHorizon

LEMMA MessageFields ==
    ASSUME NEW a, NEW b, NEW type, NEW x, NEW y
    PROVE  /\ LET n == [Message(a, b, type) EXCEPT !.mixes = x, !.value = y]
              IN  n.type = type /\ n.from = a /\ n.to = b
           /\ LET n == [Message(a, b, type) EXCEPT !.value = y]
              IN  n.type = type /\ n.from = a /\ n.to = b
           /\ LET n == [Message(a, b, type) EXCEPT !.seen = y]
              IN  n.type = type /\ n.from = a /\ n.to = b
           /\ LET n == [Message(a, b, type) EXCEPT !.doc = y]
              IN  n.type = type /\ n.from = a /\ n.to = b /\ n.doc = y
BY DEF Message

\* Whoever sends a signature has signed what it sends.
LEMMA NetMoves ==
    ASSUME IInv, [Next]_vars, NEW m \in net'
    PROVE  /\ m.from \in Auth /\ m.to \in Auth /\ m.from # m.to
           /\ m.type = "sig" => m.doc \in signed'[m.from]
<1> DEFINE Fine(n) == /\ n.from \in Auth /\ n.to \in Auth /\ n.from # n.to
                      /\ n.type = "sig" => n.doc \in signed'[n.from]
<1>1. \A n \in net : Fine(n)
    BY SignedGrows DEF IInv, TypeOK, SigsInv
<1>2. CASE net' \subseteq net
    BY <1>1, <1>2
<1>3. ASSUME NEW a \in Auth, AcceptDescriptor(a) PROVE Fine(m)
  <2>1. PICK mixes \in Uploads : GetVote(a, mixes)
      BY <1>3 DEF AcceptDescriptor
  <2>2. CASE m \notin net
    <3>0. \/ net' = net
          \/ net' = net \cup
               {[Message(a, b, "vote") EXCEPT !.mixes = mixes, !.value = random[a]] : b \in Peers(a)}
        BY <2>1, Zenon DEF GetVote
    <3>1. PICK b \in Peers(a) : m = [Message(a, b, "vote") EXCEPT !.mixes = mixes, !.value = random[a]]
        BY <3>0, <2>2, Zenon
    <3>2. m.type = "vote" /\ m.from = a /\ m.to = b
        BY <3>1, MessageFields
    <3> QED
        BY <3>2 DEF Peers
  <2> QED
      BY <1>1, <2>2
<1>4. ASSUME NEW a \in Auth, AcceptVote(a) PROVE Fine(m)
  <2>1. CASE m \notin net
    <3>1. PICK b \in Peers(a) : m = [Message(a, b, "reveal") EXCEPT !.value = reveals[a][a]]
        BY <1>4, <2>1 DEF AcceptVote, Stop
    <3>2. m.type = "reveal" /\ m.from = a /\ m.to = b
        BY <3>1, MessageFields
    <3> QED
        BY <3>2 DEF Peers
  <2> QED
      BY <1>1, <2>1
<1>5. ASSUME NEW a \in Auth, AcceptReveal(a) PROVE Fine(m)
  <2>1. CASE m \notin net
    <3>1. PICK b \in Peers(a) : m = [Message(a, b, "cert") EXCEPT !.seen = commits[a]]
        BY <1>5, <2>1 DEF AcceptReveal, GetCertificate
    <3>2. m.type = "cert" /\ m.from = a /\ m.to = b
        BY <3>1, MessageFields
    <3> QED
        BY <3>2 DEF Peers
  <2> QED
      BY <1>1, <2>1
<1>6. ASSUME NEW a \in Auth, AcceptCert(a) PROVE Fine(m)
  <2>1. UNCHANGED net \/ \E doc : Sign(a, doc)
      BY <1>6 DEF AcceptCert, GetMyConsensus
  <2>2. ASSUME NEW doc, Sign(a, doc), m \notin net PROVE Fine(m)
    <3>1. PICK b \in Peers(a) : m = [Message(a, b, "sig") EXCEPT !.doc = doc]
        BY <2>2 DEF Sign
    <3>2. m.type = "sig" /\ m.from = a /\ m.to = b /\ m.doc = doc
        BY <3>1, MessageFields
    <3>3. doc \in signed'[a]
        BY <2>2 DEF Sign, IInv, SigsInv
    <3> QED
        BY <3>2, <3>3 DEF Peers
  <2> QED
      BY <1>1, <2>1, <2>2
<1>7. [Next]_vars => \/ net' \subseteq net
                    \/ \E a \in Auth : AcceptDescriptor(a) \/ AcceptVote(a) \/ AcceptReveal(a) \/ AcceptCert(a)
    BY Zenon DEF Next, vars, Bootstrap, AcceptSignature, Crash, Stop, Restart, FetchConsensus, OnVoteUpload,
        OnRevealUpload, OnCertUpload, OnSigUpload, Receive, ClockTick, InFlight, AtHorizon
<1> QED
    BY <1>2, <1>3, <1>4, <1>5, <1>6, <1>7

\* Stored signatures are genuine.
LEMMA StepSigsInv == ASSUME IInv, [Next]_vars PROVE SigsInv'
<1>0. /\ signed' = [a \in Auth |-> signed'[a]]
      /\ \A a \in Auth : signed[a] \subseteq signed'[a]
      /\ \A a \in Auth : signed'[a] \subseteq Documents'
  <2>1. \A a \in Auth : signed[a] \subseteq signed'[a] /\ signed' = [b \in Auth |-> signed'[b]]
      BY SignedGrows
  <2>2. Auth # {}
      BY VotingConstants
  <2> QED
      BY <2>1, <2>2 DEF Documents
<1>1. Documents \subseteq Documents'
    BY <1>0 DEF Documents
<1>2. /\ myconsensus \in [Auth -> Documents \cup {None}]
      /\ signatures \in [Auth -> [Auth -> Documents \cup {None}]]
      /\ \A a \in Auth : myconsensus[a] # None =>
            myconsensus[a] \in signed[a] /\ myconsensus[a].epoch = votingEpoch[a]
      /\ \A a, b \in Auth : signatures[a][b] # None => signatures[a][b] \in signed[b]
      /\ votingEpoch \in [Auth -> Epochs]
    BY DEF IInv, SigsInv, TypeOK
<1> DEFINE Maps ==
      /\ myconsensus' \in [Auth -> Documents' \cup {None}]
      /\ signatures' \in [Auth -> [Auth -> Documents' \cup {None}]]
      /\ \A a \in Auth : myconsensus'[a] # None =>
            myconsensus'[a] \in signed'[a] /\ myconsensus'[a].epoch = votingEpoch'[a]
      /\ \A a, b \in Auth : signatures'[a][b] # None => signatures'[a][b] \in signed'[b]
<1>3. ASSUME UNCHANGED <<votingEpoch, myconsensus, signatures>> PROVE Maps
    BY <1>0, <1>1, <1>2, <1>3
<1>4. ASSUME NEW a \in Auth, Clears(a) PROVE Maps
  <2>1. CASE UNCHANGED <<votingEpoch, myconsensus, signatures>>
      BY <1>3, <2>1
  <2>2. CASE /\ myconsensus' = [myconsensus EXCEPT ![a] = None]
             /\ signatures' = [signatures EXCEPT ![a] = Nothing]
             /\ \E e : votingEpoch' = [votingEpoch EXCEPT ![a] = e]
      BY <1>0, <1>1, <1>2, <2>2, SMTT(30) DEF Nothing
  <2> QED
      BY <1>4, <2>1, <2>2 DEF Clears
<1>5. ASSUME NEW a \in Auth, AcceptCert(a) PROVE Maps
  <2>1. UNCHANGED <<votingEpoch, signatures>>
      BY <1>5 DEF AcceptCert
  <2>2. UNCHANGED myconsensus \/ \E doc : Sign(a, doc) /\ doc.epoch = votingEpoch[a]
    <3>1. PICK revealed : GetMyConsensus(a, revealed)
        BY <1>5, Zenon DEF AcceptCert
    <3> DEFINE srv == ComputeSharedRandom(a, revealed)
               doc == GetDocument(a, srv, RotateSRV(a, srv))
    <3>2. doc.epoch = votingEpoch[a]
        BY DEF GetDocument
    <3>3. Sign(a, doc) \/ UNCHANGED myconsensus
        BY <3>1, Zenon DEF GetMyConsensus
    <3> HIDE DEF doc
    <3> QED
        BY <3>2, <3>3, Zenon
  <2>3. CASE UNCHANGED myconsensus
      BY <1>3, <2>1, <2>3
  <2>4. ASSUME NEW doc, Sign(a, doc), doc.epoch = votingEpoch[a] PROVE Maps
    <3>1. doc \in signed'[a] /\ myconsensus' = [myconsensus EXCEPT ![a] = doc]
        BY <2>4 DEF Sign, IInv, SigsInv
    <3> QED
        BY <1>0, <1>1, <1>2, <2>1, <2>4, <3>1
  <2> QED
      BY <2>2, <2>3, <2>4
<1>6. ASSUME NEW m \in net, OnSigUpload(m) PROVE Maps
  <2>1. m.type = "sig" /\ m.doc \in signed[m.from] /\ m.from \in Auth /\ m.to \in Auth
      BY <1>6 DEF OnSigUpload, Receive, IInv, SigsInv, TypeOK
  <2>2. /\ UNCHANGED <<votingEpoch, myconsensus>>
        /\ signatures' = signatures \/ signatures' = [signatures EXCEPT ![m.to][m.from] = m.doc]
      BY <1>6 DEF OnSigUpload, Receive, fsmVars
  <2>3. CASE signatures' = signatures
      BY <1>3, <2>2, <2>3
  <2>4. CASE signatures' = [signatures EXCEPT ![m.to][m.from] = m.doc]
    <3>1. m.doc \in Documents' /\ m.doc \in signed'[m.from]
        BY <1>0, <2>1
    <3>2. signatures' \in [Auth -> [Auth -> Documents' \cup {None}]]
        BY <1>1, <1>2, <2>1, <2>4, <3>1
    <3>3. \A a, b \in Auth : signatures'[a][b] # None => signatures'[a][b] \in signed'[b]
        BY <1>0, <1>2, <2>1, <2>4, <3>1
    <3> QED
        BY <1>0, <1>1, <1>2, <2>2, <3>2, <3>3
  <2> QED
      BY <2>2, <2>3, <2>4
<1>7. Maps
    BY <1>3, <1>4, <1>5, <1>6, SigMoves
<1>8. \A m \in net' : m.type = "sig" => m.doc \in signed'[m.from]
    BY NetMoves
<1> QED
    BY <1>0, <1>7, <1>8 DEF SigsInv

\* Where a document stored by a step comes from.
Origin(x, a, e) ==
    \/ x = None
    \/ \E b \in Auth : x = documents[b][e]
    \/ x = disk[a][e]
    \/ ThresholdConsensus(a) /\ x = myconsensus[a] /\ e = votingEpoch[a]
TableOf(table) ==
    /\ table = [b \in Auth |-> table[b]]
    /\ \A b \in Auth : table[b] = [e \in Epochs |-> table[b][e]]
    /\ \A b \in Auth, e \in Epochs : Origin(table[b][e], b, e)
DocStep(a) ==
    /\ TableOf(documents') /\ TableOf(disk')
    /\ \A b \in Auth \ {a} : documents'[b] = documents[b]

\* A step changes the documents of one authority, and takes them from another
\* authority, from its disk or from a threshold consensus.
LEMMA StepDocs ==
    ASSUME IInv, [Next]_vars
    PROVE  \E a \in Auth : DocStep(a)
<1>0. /\ documents = [b \in Auth |-> documents[b]] /\ \A b \in Auth : documents[b] = [e \in Epochs |-> documents[b][e]]
      /\ disk = [b \in Auth |-> disk[b]] /\ \A b \in Auth : disk[b] = [e \in Epochs |-> disk[b][e]]
    BY DEF IInv, TypeOK
<1>1. ASSUME NEW a \in Auth, UNCHANGED docVars PROVE DocStep(a)
    BY <1>0, <1>1 DEF DocStep, TableOf, Origin, docVars
<1>2. ASSUME NEW a \in Auth, PruneDocuments(a) PROVE DocStep(a)
  <2>1. TableOf(documents')
      BY <1>0, <1>2, Zenon DEF PruneDocuments, Prune, TableOf, Origin
  <2>2. TableOf(disk')
      BY <1>0, <1>2, SMTT(30) DEF PruneDocuments, Prune, TableOf, Origin
  <2> QED
      BY <1>0, <1>2, <2>1, <2>2 DEF PruneDocuments, DocStep
<1>3. ASSUME NEW a \in Auth, Stop(a), UNCHANGED disk PROVE DocStep(a)
  <2>1. documents' = [documents EXCEPT ![a] = NoDocs]
      BY <1>3 DEF Stop
  <2> QED
      BY <1>0, <1>3, <2>1, SMTT(30) DEF NoDocs, DocStep, TableOf, Origin
<1>4. ASSUME NEW a \in Auth, AcceptSignature(a) PROVE DocStep(a)
  <2>1. CASE ThresholdConsensus(a)
    <3>1. /\ documents' = [documents EXCEPT ![a] = Prune([documents[a] EXCEPT ![votingEpoch[a]] = myconsensus[a]])]
          /\ disk' = [disk EXCEPT ![a] = Prune([disk[a] EXCEPT ![votingEpoch[a]] = myconsensus[a]])]
        BY <1>0, <1>4, <2>1 DEF AcceptSignature
    <3>2. TableOf(documents')
        BY <1>0, <2>1, <3>1, Zenon DEF Prune, TableOf, Origin
    <3>3. TableOf(disk')
        BY <1>0, <2>1, <3>1, Zenon DEF Prune, TableOf, Origin
    <3> QED
        BY <1>0, <3>1, <3>2, <3>3 DEF DocStep
  <2>2. CASE ~ThresholdConsensus(a)
      BY <1>2, <1>4, <2>2 DEF AcceptSignature
  <2> QED
      BY <2>1, <2>2
<1>5. ASSUME NEW a \in Auth, NEW b \in Auth, NEW e \in Epochs, FetchConsensus(a, b, e) PROVE DocStep(a)
  <2>1. /\ documents' = [documents EXCEPT ![a][e] = IF @ = None THEN documents[b][e] ELSE @]
        /\ UNCHANGED disk
      BY <1>5 DEF FetchConsensus
  <2>2. TableOf(documents')
      BY <1>0, <2>1, Zenon DEF TableOf, Origin
  <2>3. TableOf(disk')
      BY <1>0, <2>1 DEF TableOf, Origin
  <2> QED
      BY <1>0, <2>1, <2>2, <2>3 DEF DocStep
<1>6. ASSUME NEW a \in Auth, Restart(a) PROVE DocStep(a)
  <2>1. /\ documents' = [documents EXCEPT ![a] =
             [e \in Epochs |-> IF e \in (epoch - 1)..(epoch + 1) THEN disk[a][e] ELSE None]]
        /\ UNCHANGED disk
      BY <1>6, Zenon DEF Restart
  <2> QED
      BY <1>0, <2>1, Zenon DEF DocStep, TableOf, Origin
<1>7. ASSUME NEW a \in Auth, AcceptVote(a) \/ Crash(a) PROVE DocStep(a)
    BY <1>2, <1>3, <1>7 DEF AcceptVote, Crash
<1>8. ASSUME NEW a \in Auth, Bootstrap(a) \/ AcceptDescriptor(a) \/ AcceptReveal(a) \/ AcceptCert(a)
      PROVE  DocStep(a)
    BY <1>2, <1>8 DEF Bootstrap, AcceptDescriptor, AcceptReveal, AcceptCert
<1>9. Auth # {}
    BY VotingConstants
<1>10. [Next]_vars =>
         \/ UNCHANGED docVars
         \/ \E a \in Auth : \/ AcceptSignature(a) \/ Restart(a) \/ AcceptVote(a) \/ Crash(a)
                            \/ Bootstrap(a) \/ AcceptDescriptor(a) \/ AcceptReveal(a) \/ AcceptCert(a)
         \/ \E a, b \in Auth, e \in Epochs : FetchConsensus(a, b, e)
    BY Zenon DEF Next, vars, OnVoteUpload, OnRevealUpload, OnCertUpload, OnSigUpload, Receive, ClockTick, AtHorizon
<1> QED
    BY <1>1, <1>4, <1>5, <1>6, <1>7, <1>8, <1>9, <1>10, SMTT(30)

\* A certified document stays certified, and a threshold consensus is one.
LEMMA CertifiedKept ==
    ASSUME IInv, [Next]_vars, NEW a \in Auth, NEW e \in Epochs, NEW x, Origin(x, a, e), x # None
    PROVE  /\ x \in Documents /\ Certified(x, e)
           /\ x \in Documents' /\ Certified(x, e)'
<1>0. IsFiniteSet(Auth)
    BY VotingConstants
<1>1. \A b \in Auth : signed[b] \subseteq signed'[b]
    BY SignedGrows
<1>2. /\ Backers(x) \subseteq Backers(x)' /\ Backers(x)' \subseteq Auth /\ Backers(x) \subseteq Auth
      /\ Documents \subseteq Documents'
    BY <1>1 DEF Backers, Documents
<1>3. x \in Documents /\ Certified(x, e)
  <2>1. CASE \E b \in Auth : x = documents[b][e]
      BY <2>1 DEF IInv, TypeOK, DocsInv, Documents
  <2>2. CASE x = disk[a][e]
      BY <2>2 DEF IInv, TypeOK, DocsInv, Documents
  <2>3. CASE ThresholdConsensus(a) /\ x = myconsensus[a] /\ e = votingEpoch[a]
    <3>1. x \in signed[a] /\ x.epoch = e
        BY <2>3 DEF IInv, SigsInv
    <3>2. Signers(a) \subseteq Backers(x)
        BY <2>3, <3>1 DEF Signers, Backers, IInv, SigsInv
    <3>3. IsFiniteSet(Backers(x)) /\ Cardinality(Signers(a)) <= Cardinality(Backers(x))
        BY <1>0, <1>2, <3>2, FS_Subset
    <3>4. Cardinality(Signers(a)) \in Nat /\ Cardinality(Backers(x)) \in Nat /\ threshold \in Nat
        BY <1>0, <3>2, <3>3, FS_Subset, FS_CardinalityType DEF threshold
    <3> QED
        BY <2>3, <3>1, <3>3, <3>4 DEF ThresholdConsensus, Certified, Documents
  <2> QED
      BY <2>1, <2>2, <2>3, SMTT(30) DEF Origin
<1>4. /\ IsFiniteSet(Backers(x)') /\ Cardinality(Backers(x)) <= Cardinality(Backers(x)')
      /\ Cardinality(Backers(x)) \in Nat /\ Cardinality(Backers(x)') \in Nat /\ threshold \in Nat
  <2>1. IsFiniteSet(Backers(x)') /\ IsFiniteSet(Backers(x))
      BY <1>0, <1>2, FS_Subset
  <2> QED
      BY <1>0, <1>2, <2>1, FS_Subset, FS_CardinalityType DEF threshold
<1>5. threshold' = threshold
    BY DEF threshold
<1> QED
    BY <1>2, <1>3, <1>4, <1>5 DEF Certified

LEMMA StepDocsInv == ASSUME IInv, [Next]_vars PROVE DocsInv'
<1>1. \A a \in Auth, e \in Epochs : Origin(documents'[a][e], a, e) /\ Origin(disk'[a][e], a, e)
    BY StepDocs DEF DocStep, TableOf
<1>2. \A a \in Auth, e \in Epochs : \A x : Origin(x, a, e) /\ x # None =>
        x.epoch = e /\ Cardinality({b \in Auth : x \in signed'[b]}) >= threshold
  <2>1. ASSUME NEW a \in Auth, NEW e \in Epochs, NEW x, Origin(x, a, e), x # None
        PROVE  x.epoch = e /\ Cardinality({b \in Auth : x \in signed'[b]}) >= threshold
      BY <2>1, CertifiedKept, Zenon DEF Certified, Backers, threshold
  <2> QED
      BY <2>1
<1>3. ASSUME NEW a \in Auth, NEW e \in Epochs
      PROVE  /\ (documents[a][e] # None => Certified(documents[a][e], e))'
             /\ (disk[a][e] # None => Certified(disk[a][e], e))'
  <2>1. PICK x, y : x = documents'[a][e] /\ y = disk'[a][e]
      OBVIOUS
  <2>2. Origin(x, a, e) /\ Origin(y, a, e)
      BY <1>1, <2>1, Zenon
  <2>3. /\ x # None => x.epoch = e /\ Cardinality({b \in Auth : x \in signed'[b]}) >= threshold
        /\ y # None => y.epoch = e /\ Cardinality({b \in Auth : y \in signed'[b]}) >= threshold
      BY <1>2, <2>2, Zenon
  <2> QED
      BY <2>1, <2>3 DEF Certified, Backers, threshold
<1> QED
    BY <1>3 DEF DocsInv

LEMMA StepTypeOK == ASSUME IInv, [Next]_vars PROVE TypeOK'
<1>1. epoch' \in 1..MaxEpoch /\ phase' \in 0..5
    BY ClockMonotone DEF IInv
<1>2. fsm' \in [Auth -> States] /\ votingEpoch' \in [Auth -> Nat] /\ due' \in [Auth -> Nat]
    BY StepMoves DEF FsmTypes
<1>3. votingEpoch' \in [Auth -> Epochs]
  <2>1. \A a \in Auth : votingEpoch'[a] <= epoch' + 2
      BY StepRoundInv DEF RoundInv
  <2> QED
      BY <1>1, <1>2, <2>1, VotingConstants DEF Epochs
<1>4. up' \in [Auth -> BOOLEAN]
  <2>1. \/ UNCHANGED up
        \/ \E a \in Auth : up' = [up EXCEPT ![a] = TRUE] \/ up' = [up EXCEPT ![a] = FALSE]
      BY Zenon DEF Next, vars, Bootstrap, AcceptDescriptor, AcceptVote, AcceptReveal, AcceptCert, AcceptSignature,
             Stop, Crash, Restart, FetchConsensus, OnVoteUpload, OnRevealUpload, OnCertUpload,
             OnSigUpload, Receive, ClockTick, AtHorizon
  <2> QED
      BY <2>1, Zenon DEF IInv, TypeOK
<1>5. /\ documents' \in [Auth -> [Epochs -> Documents' \cup {None}]]
      /\ disk' \in [Auth -> [Epochs -> Documents' \cup {None}]]
  <2>1. TableOf(documents') /\ TableOf(disk')
      BY StepDocs DEF DocStep
  <2>2. \A a \in Auth, e \in Epochs : \A x : Origin(x, a, e) => x \in Documents' \cup {None}
      BY CertifiedKept
  <2> QED
      BY <2>1, <2>2 DEF TableOf
<1>6. \A m \in net' : m.from \in Auth /\ m.to \in Auth /\ m.from # m.to
    BY NetMoves
<1> QED
    BY <1>1, <1>2, <1>3, <1>4, <1>5, <1>6 DEF TypeOK, Documents

LEMMA InvariantIInv == Spec => []IInv
<1>1. IInv /\ [Next]_vars => IInv'
    BY StepTypeOK, StepSigsInv, StepRoundInv, StepSignedInv, StepDocsInv DEF IInv
<1> QED
    BY InitIInv, <1>1, PTL DEF Spec
-----------------------------------------------------------------------------
\* Two documents certified for one epoch share a signer, who signed only one.
LEMMA CertifiedUnique ==
    ASSUME OneSignaturePerEpoch, NEW e, NEW c, NEW d, Certified(c, e), Certified(d, e)
    PROVE  c = d
<1>1. IsFiniteSet(Auth) /\ Backers(c) \subseteq Auth /\ Backers(d) \subseteq Auth
    BY VotingConstants DEF Backers
<1>2. /\ Cardinality(Auth) \in Nat /\ Cardinality(Backers(c)) \in Nat /\ Cardinality(Backers(d)) \in Nat
    BY <1>1, FS_Subset, FS_CardinalityType
<1>3. Cardinality(Backers(c)) + Cardinality(Backers(d)) > Cardinality(Auth)
    BY <1>2 DEF Certified, threshold
<1>4. PICK b \in Auth : b \in Backers(c) /\ b \in Backers(d)
    BY <1>1, <1>3, FS_MajoritiesIntersect
<1> QED
    BY <1>4 DEF Certified, Backers, OneSignaturePerEpoch

(* Every state reachable by the voting protocol is well-formed: the state   *)
(* machines stay in their states and every stored document has been signed. *)
THEOREM VotingTypeCorrect == Spec => []TypeOK
BY InvariantIInv, PTL DEF IInv

(* An authority signs at most one consensus document for an epoch, through  *)
(* any number of crashes and restarts: bootstrap does not join a round      *)
(* whose deadline has passed.                                               *)
THEOREM SignsOncePerEpoch == Spec => []OneSignaturePerEpoch
BY InvariantIInv, PTL DEF IInv

(* Any two authorities that have a document for an epoch have the same one, *)
(* for any number of authorities, lost or late messages and crashes.        *)
THEOREM ConsensusAgreement == Spec => []Agreement
<1>1. IInv => Agreement
    BY CertifiedUnique DEF IInv, DocsInv, Agreement
<1> QED
    BY <1>1, InvariantIInv, PTL
-----------------------------------------------------------------------------
\* The refinement mapping: the certified document of an epoch is the chosen
\* one, and only chosen documents are served.
MapInv ==
    \A e \in Epochs :
        /\ \A d \in Backed(e) : Chosen[e] = d
        /\ Backed(e) = {} => Chosen[e] = None
        /\ \A a \in Auth : documents[a][e] # None => documents[a][e] = Chosen[e]

LEMMA MapInvHolds == IInv => MapInv
<1> SUFFICES ASSUME IInv, NEW e \in Epochs
             PROVE  /\ \A d \in Backed(e) : Chosen[e] = d
                    /\ Backed(e) = {} => Chosen[e] = None
                    /\ \A a \in Auth : documents[a][e] # None => documents[a][e] = Chosen[e]
    BY DEF MapInv
<1>1. \A c, d \in Backed(e) : c = d
    BY CertifiedUnique DEF IInv, Backed, Certified
<1>2. ASSUME NEW d \in Backed(e) PROVE Chosen[e] = d
  <2>1. Chosen[e] = CHOOSE doc \in Backed(e) : TRUE
      BY DEF Chosen
  <2> QED
      BY <1>1, <2>1
<1>3. Backed(e) = {} => Chosen[e] = None
    BY DEF Chosen
<1>4. \A a \in Auth : documents[a][e] # None => documents[a][e] \in Backed(e)
    BY DEF IInv, TypeOK, DocsInv, Certified, Backed
<1> QED
    BY <1>2, <1>3, <1>4

\* Documents stay certified; a step certifies documents of one epoch only.
LEMMA StepBacked ==
    ASSUME IInv, [Next]_vars
    PROVE  /\ \A e \in Epochs : Backed(e) \subseteq Backed(e)'
           /\ \/ \A e \in Epochs : Backed(e)' = Backed(e)
              \/ \E f \in Epochs : \A e \in Epochs \ {f} : Backed(e)' = Backed(e)
<1>0. IsFiniteSet(Auth) /\ threshold \in Nat /\ threshold' = threshold
    BY VotingConstants, FS_CardinalityType DEF threshold
<1>1. \A a \in Auth : signed[a] \subseteq signed'[a]
    BY SignedGrows
<1>2. ASSUME NEW e \in Epochs, NEW d \in Backed(e) PROVE d \in Backed(e)'
  <2>1. /\ Backers(d) \subseteq Backers(d)' /\ Backers(d)' \subseteq Auth /\ d \in UNION {signed'[a] : a \in Auth}
      BY <1>1, <1>2 DEF Backers, Backed
  <2>2. IsFiniteSet(Backers(d)') /\ IsFiniteSet(Backers(d))
      BY <1>0, <2>1, FS_Subset, SMTT(30)
  <2>3. /\ Cardinality(Backers(d)) <= Cardinality(Backers(d)')
        /\ Cardinality(Backers(d)) \in Nat /\ Cardinality(Backers(d)') \in Nat
      BY <2>1, <2>2, FS_Subset, FS_CardinalityType, SMTT(30)
  <2> QED
      BY <1>0, <1>2, <2>1, <2>3 DEF Backed
<1>3. CASE UNCHANGED signed
    BY <1>2, <1>3 DEF Backed, Backers, threshold
<1>4. ASSUME NEW a \in Auth, AcceptCert(a), ~UNCHANGED signed
      PROVE  \E f \in Epochs : \A e \in Epochs \ {f} : Backed(e)' = Backed(e)
  <2>1. PICK doc : signed' = [signed EXCEPT ![a] = @ \cup {doc}] /\ doc.epoch = votingEpoch[a]
    <3>1. PICK revealed : GetMyConsensus(a, revealed)
        BY <1>4 DEF AcceptCert
    <3> QED
        BY <3>1, <1>4 DEF GetMyConsensus, GetDocument, Sign
  <2>2. signed = [b \in Auth |-> signed[b]] /\ votingEpoch[a] \in Epochs
      BY DEF IInv, SigsInv, TypeOK
  <2>3. ASSUME NEW e \in Epochs \ {votingEpoch[a]}, NEW d, d.epoch = e
        PROVE  Backers(d)' = Backers(d) /\ (d \in UNION {signed'[b] : b \in Auth} <=> d \in UNION {signed[b] : b \in Auth})
      BY <2>1, <2>2, <2>3 DEF Backers
  <2>4. \A e \in Epochs \ {votingEpoch[a]} : Backed(e)' = Backed(e)
      BY <2>3, <1>0 DEF Backed
  <2> QED
      BY <2>2, <2>4
<1>5. UNCHANGED signed \/ \E a \in Auth : AcceptCert(a)
    BY Zenon DEF Next, vars, history, Bootstrap, AcceptDescriptor, AcceptVote, AcceptReveal,
           AcceptSignature, Crash, Restart, FetchConsensus, OnVoteUpload, OnRevealUpload,
           OnCertUpload, OnSigUpload, Receive, ClockTick, AtHorizon
<1> QED
    BY <1>2, <1>3, <1>4, <1>5

\* Every step of the protocol is a step of the directory.
LEMMA StepRefines ==
    ASSUME IInv, IInv', MapInv, MapInv', [Next]_vars
    PROVE  [Directory!Next]_<<Chosen, documents>>
<1>1. /\ Chosen = [e \in Epochs |-> Chosen[e]]
      /\ Chosen' = [e \in Epochs |-> Chosen'[e]]
    BY DEF Chosen
<1>2. ASSUME NEW e \in Epochs, Backed(e)' = Backed(e) PROVE Chosen'[e] = Chosen[e]
    BY <1>2 DEF MapInv
<1>3. ASSUME NEW e \in Epochs, Chosen[e] # None PROVE Chosen'[e] = Chosen[e]
    BY <1>3, StepBacked DEF MapInv
<1>4. UNCHANGED Chosen \/ \E e \in Epochs : Directory!Choose(e)
  <2>1. CASE \A e \in Epochs : Backed(e)' = Backed(e)
      BY <1>1, <1>2, <2>1
  <2>2. ASSUME NEW f \in Epochs, \A e \in Epochs \ {f} : Backed(e)' = Backed(e)
        PROVE  UNCHANGED Chosen \/ \E e \in Epochs : Directory!Choose(e)
    <3>1. \A e \in Epochs \ {f} : Chosen'[e] = Chosen[e]
        BY <1>2, <2>2
    <3>2. CASE Chosen[f] = None
      <4>1. Chosen' = [Chosen EXCEPT ![f] = Chosen'[f]]
          BY <1>1, <3>1
      <4> QED
          BY <3>2, <4>1 DEF Directory!Choose
    <3>3. CASE Chosen[f] # None
        BY <1>1, <1>3, <3>1, <3>3
    <3> QED
        BY <3>2, <3>3
  <2> QED
      BY <2>1, <2>2, StepBacked
<1>5. \E a \in Auth, known \in SUBSET Epochs : Directory!Serve(a, known)
  <2>1. PICK a \in Auth : DocStep(a)
      BY StepDocs
  <2>2. PICK known \in SUBSET Epochs : \A e \in Epochs : e \in known <=> documents'[a][e] # None
    <3>1. {e \in Epochs : documents'[a][e] # None} \in SUBSET Epochs
        OBVIOUS
    <3> QED
        BY <3>1, Zenon
  <2>3. \A e \in Epochs : documents'[a][e] = IF e \in known THEN Chosen'[e] ELSE None
      BY <2>2, SMTT(30) DEF MapInv
  <2>4. /\ documents = [b \in Auth |-> documents[b]] /\ documents' = [b \in Auth |-> documents'[b]]
        /\ documents'[a] = [e \in Epochs |-> documents'[a][e]]
        /\ \A b \in Auth \ {a} : documents'[b] = documents[b]
      BY <2>1 DEF DocStep, TableOf, IInv, TypeOK
  <2>5. documents'[a] = [e \in Epochs |-> IF e \in known THEN Chosen'[e] ELSE None]
      BY <2>3, <2>4
  <2>6. documents' = [documents EXCEPT ![a] = [e \in Epochs |-> IF e \in known THEN Chosen'[e] ELSE None]]
      BY <2>4, <2>5
  <2> QED
      BY <2>6, Zenon DEF Directory!Serve
<1> QED
    BY <1>4, <1>5 DEF Directory!Next

(* The voting protocol implements the directory: the document a threshold   *)
(* of authorities has signed for an epoch never changes, and it is the only *)
(* one any authority ever serves for that epoch (getThresholdConsensus,     *)
(* backgroundFetchConsensus, restorePersistence, pruneDocuments).           *)
THEOREM VotingImplementsDirectory == Spec => ImplementsDirectory
<1>1. Init => Directory!Init
  <2> SUFFICES ASSUME Init PROVE Directory!Init
      OBVIOUS
  <2>1. \A e \in Epochs : Backed(e) = {}
      BY DEF Init, Backed
  <2> QED
      BY <2>1 DEF Init, NoDocs, Chosen, Directory!Init, Directory!NoDocument
<1>2. Spec => [](IInv /\ MapInv)
    BY InvariantIInv, MapInvHolds, PTL
<1>3. IInv /\ MapInv /\ (IInv /\ MapInv)' /\ [Next]_vars => [Directory!Next]_<<Chosen, documents>>
    BY StepRefines
<1> QED
    BY <1>1, <1>2, <1>3, PTL DEF Spec, ImplementsDirectory, Directory!Spec
=============================================================================
