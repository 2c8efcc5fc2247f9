--------------------------- MODULE RoutingTableSet ---------------------------
(***************************************************************************)
(* What the routing table promises its users (spec.md sections 3 and 8):  *)
(* membership is a set of peer records, at most one record per node id,   *)
(* at most K records per k-bucket, never the local node; a record enters  *)
(* atomically when its bucket has room and leaves, together with every    *)
(* record of the same node id, when it is dropped.                        *)
(***************************************************************************)
EXTENDS FiniteSets, Naturals

CONSTANTS
    Cands,       \* peer records (NodeInfo) the table may learn about
    NodeId,      \* Cands -> node id
    Bucket,      \* Cands -> k-bucket index relative to the local id
    Admissible,  \* records that pass the nat-type, self-id and validity checks
    K            \* kKadParamK

VARIABLE members

IdsOf(S) == {NodeId[c] : c \in S}

InBucket(S, b) == Cardinality({c \in S : Bucket[c] = b})

Init == members = {}

Add(c) ==
    /\ c \in Admissible
    /\ NodeId[c] \notin IdsOf(members)
    /\ InBucket(members, Bucket[c]) < K
    /\ members' = members \cup {c}

Drop(c) ==
    members' = {d \in members : NodeId[d] # NodeId[c]}

Next == \E c \in Cands : Add(c) \/ Drop(c)

Spec == Init /\ [][Next]_members

=============================================================================
