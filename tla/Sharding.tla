------------------------------- MODULE Sharding -------------------------------
(***************************************************************************)
(* Which replicas keep a box, and which ones a client's envelope goes      *)
(* through (replica/common/shard.go, pigeonhole/pki.go).  A replica is the *)
(* number that orders the hash of its key and the box, so the shards of    *)
(* the box are the two least configured replicas.  The loops are walked    *)
(* one iteration at a time.                                                *)
(***************************************************************************)
EXTENDS Integers, Sequences

CONSTANTS
    MaxHash,        \* above every replica
    ShBudgets       \* configured: the order in the document; online: its StorageReplicas, those with
                    \* a descriptor; keyed: those with an envelope key of this epoch

ToRange(s) == {s[i] : i \in DOMAIN s}
Injective(s) == \A i, j \in DOMAIN s : i # j => s[i] # s[j]

\* The authorities' configurations name a replica once, by a ReplicaID of one byte, and take one
\* descriptor of each.
ASSUME ShAssumption ==
    /\ MaxHash \in Nat
    /\ \A b \in ShBudgets :
          /\ b.configured \in Seq(0..(MaxHash - 1)) /\ Injective(b.configured)
          /\ b.online \in Seq(ToRange(b.configured)) /\ Injective(b.online) /\ Len(b.online) <= 256

VARIABLES
    shBudget,
    picking,    \* where GetRandomIntermediateReplicas is
    scanned,    \* replicas that Shard2 has looked at
    kept,       \* the two least of them, in order
    shards,     \* those of the two that are online
    picked      \* intermediate replicas so far

shVars == <<shBudget, picking, scanned, kept, shards, picked>>

K == 2

\* The two replicas kept at first are no replica, with the largest hash.
ShInit ==
    /\ shBudget \in ShBudgets
    /\ picking = "start" /\ scanned = 0 /\ kept = <<MaxHash, MaxHash>> /\ shards = <<>> /\ picked = <<>>

GetConfiguredReplicaKeys ==
    /\ picking = "start"
    /\ picking' = IF Len(shBudget.configured) < K THEN "failed" ELSE "shard"
    /\ UNCHANGED <<shBudget, scanned, kept, shards, picked>>

Bug_Keep(pair, hash) == IF pair[2] < hash THEN pair ELSE <<hash, pair[1]>>

\* The body of Shard2's loop.
Keep(pair, hash) ==
    IF pair[2] < hash THEN pair ELSE IF pair[1] < hash THEN <<pair[1], hash>> ELSE <<hash, pair[1]>>

Shard2 ==
    /\ picking = "shard" /\ scanned < Len(shBudget.configured)
    /\ scanned' = scanned + 1
    /\ kept' = Keep(kept, shBudget.configured[scanned + 1])
    /\ UNCHANGED <<shBudget, picking, shards, picked>>

\* The shards that have a descriptor, in order.
Online(pair, online) ==
    LET first == IF pair[1] \in online THEN <<pair[1]>> ELSE <<>>
    IN  IF pair[2] \in online THEN Append(first, pair[2]) ELSE first

\* One shard has to be online.
GetShards ==
    /\ picking = "shard" /\ scanned = Len(shBudget.configured)
    /\ shards' = Online(kept, ToRange(shBudget.online))
    /\ picking' = IF shards' = <<>> THEN "failed" ELSE "pick"
    /\ UNCHANGED <<shBudget, scanned, kept, picked>>

\* uint8(len(doc.StorageReplicas))
numReplicas == Len(shBudget.online) % 256

\* The replicas that are not picked: with three, only the second choice is free.
Exclude(n) == ToRange(picked) \cup (IF n >= 4 THEN ToRange(shards) ELSE {})

\* With two replicas both are taken, in the order of the document; with three a shard is the first.
Given(n) ==
    IF n = 2 THEN {shBudget.online[Len(picked) + 1]}
    ELSE IF n = 3 /\ picked = <<>> THEN {shards[1]} ELSE ToRange(shBudget.online)

\* What pickRandomReplicaID may return: it draws again while the replica is excluded.
Candidates == Given(numReplicas) \ Exclude(numReplicas)

\* Once two are picked, both need an envelope key of this replica epoch.
PickRandomReplicaID ==
    /\ picking = "pick" /\ numReplicas >= 2
    /\ \E r \in Candidates : picked' = Append(picked, r)
    /\ picking' = IF Len(picked') < 2 THEN "pick" ELSE IF ToRange(picked') \subseteq shBudget.keyed THEN "done" ELSE "failed"
    /\ UNCHANGED <<shBudget, scanned, kept, shards>>

TooFewReplicas ==
    /\ picking = "pick" /\ numReplicas < 2
    /\ picking' = "failed"
    /\ UNCHANGED <<shBudget, scanned, kept, shards, picked>>

ShNext == GetConfiguredReplicaKeys \/ Shard2 \/ GetShards \/ PickRandomReplicaID \/ TooFewReplicas
ShSpec == ShInit /\ [][ShNext]_shVars

----------------------------------------------------------------------------
(* Properties. *)

\* Shard, slower and the reference: the first two in the order of their hashes.
Shard(replicas) ==
    CHOOSE pair \in replicas \X replicas :
        pair[1] < pair[2] /\ \A r \in replicas : r \in {pair[1], pair[2]} \/ pair[2] < r

\* The one pass of Shard2 finds what sorting finds, whatever the order of the replicas in the
\* document, so everybody with the same replicas configured looks for a box at the same ones.
ShardsAreSmallest ==
    picking \in {"pick", "done"} => shards = Online(Shard(ToRange(shBudget.configured)), ToRange(shBudget.online))

\* The loop that draws an intermediate replica can end: whatever is offline, it never excludes all
\* replicas there are.
DrawEnds == picking = "pick" /\ numReplicas >= 2 => Candidates # {}

\* The two intermediate replicas are different and online, and with four replicas or more neither
\* is one of the two shards that keep the box.
IntermediatesApart ==
    picking = "done" =>
        /\ picked[1] # picked[2] /\ ToRange(picked) \subseteq ToRange(shBudget.online)
        /\ Len(shBudget.online) >= 4 =>
              LET pair == Shard(ToRange(shBudget.configured)) IN {pair[1], pair[2]} \cap ToRange(picked) = {}

\* Everybody finds the same shards for a box, and the intermediate replicas that hide them are drawn
\* in finite time, differ, and are not the shards (Shard2, GetShards, GetRandomIntermediateReplicas).
ShardingSound == ShardsAreSmallest /\ DrawEnds /\ IntermediatesApart
=============================================================================
