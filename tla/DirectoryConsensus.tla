------------------------- MODULE DirectoryConsensus -------------------------
(***************************************************************************)
(* What the directory authorities promise their users, whatever they do to *)
(* get there: there is at most one consensus document for an epoch, it     *)
(* never changes once it exists, and it is the only one served for that    *)
(* epoch.  An authority may forget documents (it prunes old ones and loses *)
(* its memory in a crash) and learn them again.                            *)
(***************************************************************************)
CONSTANTS Auth, Epochs, None

VARIABLES
    chosen,  \* the consensus document of each epoch
    served   \* the documents each authority serves

NoDocument == [e \in Epochs |-> None]

Init ==
    /\ chosen = NoDocument
    /\ served = [a \in Auth |-> NoDocument]

Choose(e) ==
    /\ chosen[e] = None
    /\ chosen' = [chosen EXCEPT ![e] = chosen'[e]]

\* Authority a now serves the consensus documents of the epochs in known.
Serve(a, known) ==
    served' = [served EXCEPT ![a] = [e \in Epochs |-> IF e \in known THEN chosen'[e] ELSE None]]

Next ==
    /\ UNCHANGED chosen \/ \E e \in Epochs : Choose(e)
    /\ UNCHANGED served \/ \E a \in Auth, known \in SUBSET Epochs : Serve(a, known)

Spec == Init /\ [][Next]_<<chosen, served>>
=============================================================================
