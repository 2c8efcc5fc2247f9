--------------------------- MODULE KadRoutingTable ---------------------------
(***************************************************************************)
(* Membership of one RoutingTable (src/src/routing_table.cc).  The table   *)
(* keeps three indexes, each behind its own mutex: the vector nodes_, the *)
(* map node_id_map_ (node id -> record) and node_hash_map_ (hash64 of the *)
(* xid -> record), plus a lock-free snapshot no_lock_for_use_nodes_.       *)
(* AddNode and DropNode update them one lock at a time, so every handler  *)
(* is split into one action per critical section.                          *)
(*                                                                         *)
(* Worker threads run the message handlers that end in AddNode            *)
(* (handshake, bootstrap and find-nodes responses) and HandleNodeQuit;     *)
(* the heartbeat thread runs OnHeartbeatFailed.  Peer records are model    *)
(* values; a record carries a node id, a hash64, an endpoint and a bucket. *)
(* nodes_ is a bag: std::partial_sort reorders it on every AddNode, so the *)
(* "first match" DropNode erases is any entry with the id.                 *)
(***************************************************************************)
EXTENDS Naturals, FiniteSets, Bags, BagsExt, FiniteSetsExt

CONSTANTS
    Workers,     \* message-handling worker threads
    HbThread,    \* the thread that delivers heartbeat failures
    Cands,       \* peer records (NodeInfo) a handler may build
    NodeId,      \* Cands -> node id
    Hash,        \* Cands -> hash64 = digest(xid)
    Ep,          \* Cands -> public ip:port
    Bucket,      \* Cands -> bucket_index (SetNodeBucket of the id)
    BadCands,    \* records with nat_type Unknown or an invalid id/endpoint
    SelfId,      \* local_node_ptr_->id()
    SelfHash,    \* local_node_ptr_->hash64(), digest(global xid)
    K,           \* kKadParamK
    Self,        \* the record Init stores for the local node
    None         \* absent map entry / null snapshot

Threads == Workers \cup {HbThread}

Ids == {NodeId[c] : c \in Cands}
Hashes == {Hash[c] : c \in Cands} \cup {SelfHash}
Eps == {Ep[c] : c \in Cands}

VARIABLES
    nodes,      \* nodes_, a bag of records
    idMap,      \* node_id_map_
    hashMap,    \* node_hash_map_
    snapshot,   \* no_lock_for_use_nodes_ (None after reset())
    pc,         \* per-thread position inside a handler
    arg,        \* the NodeInfoPtr the thread's AddNode/DropNode works on
    copy,       \* the vector nodes() returned, before it is published
    todo,       \* OnHeartbeatFailed's failed_nodes still to drop
    ret         \* the last AddNode/DropNode result of each thread

vars == <<nodes, idMap, hashMap, snapshot, pc, arg, copy, todo, ret>>

Results == {"none", "Success", "Failed", "HasAdded"}
PCs == {"idle", "add_lock", "add_idmap", "add_hash", "reset", "copy",
        "publish", "hb_next", "drop_vec", "drop_idmap", "drop_hash"}

\* Number of entries of nodes_ in bucket b (NewNodeReplaceOldNode's sum).
BucketCount(b) ==
    MapThenSumSet(LAMBDA c : CopiesIn(c, nodes),
                  {c \in BagToSet(nodes) : Bucket[c] = b})

\* Records that pass AddNode's nat-type, self-id and ValidNode checks.
Admissible == {c \in Cands : c \notin BadCands /\ NodeId[c] # SelfId}

\* Mutation of HasNode: looks the record up instead of its node id.
HasNodeByRecord(c) == idMap[NodeId[c]] = c

\* HasNode: node_id_map_.find(node_id) != end()
HasNode(c) == idMap[NodeId[c]] # None

\* The two std::map::insert calls: a no-op when the key is present.
MapInsert(m, key, val) == IF m[key] = None THEN [m EXCEPT ![key] = val] ELSE m

Init ==
    /\ nodes = EmptyBag
    /\ idMap = [i \in Ids |-> None]
    /\ hashMap = [h \in Hashes |-> IF h = SelfHash THEN Self ELSE None]
    /\ snapshot = None
    /\ pc = [t \in Threads |-> "idle"]
    /\ arg = [t \in Threads |-> None]
    /\ copy = [t \in Threads |-> EmptyBag]
    /\ todo = [t \in Threads |-> EmptyBag]
    /\ ret = [t \in Threads |-> "none"]

-----------------------------------------------------------------------------
(* AddNode, routing_table.cc 755-828. *)

\* The unlocked checks: nat type, self id, ValidNode, HasNode, SetNodeBucket.
AddNodeRejected(t, c) ==
    /\ pc[t] = "idle"
    /\ \/ c \in BadCands
       \/ NodeId[c] = SelfId
    /\ ret' = [ret EXCEPT ![t] = "Failed"]
    /\ UNCHANGED <<nodes, idMap, hashMap, snapshot, pc, arg, copy, todo>>

AddNodeHasNode(t, c) ==
    /\ pc[t] = "idle"
    /\ c \notin BadCands
    /\ NodeId[c] # SelfId
    /\ HasNode(c)
    /\ ret' = [ret EXCEPT ![t] = "HasAdded"]
    /\ UNCHANGED <<nodes, idMap, hashMap, snapshot, pc, arg, copy, todo>>

\* Mutation of AddNodeStart: the nat_type Unknown check is missing.
AddNodeStartNoNatCheck(t, c) ==
    /\ pc[t] = "idle"
    /\ NodeId[c] # SelfId
    /\ ~HasNode(c)
    /\ pc' = [pc EXCEPT ![t] = "add_lock"]
    /\ arg' = [arg EXCEPT ![t] = c]
    /\ UNCHANGED <<nodes, idMap, hashMap, snapshot, copy, todo, ret>>

AddNodeStart(t, c) ==
    /\ pc[t] = "idle"
    /\ c \notin BadCands
    /\ NodeId[c] # SelfId
    /\ ~HasNode(c)
    /\ pc' = [pc EXCEPT ![t] = "add_lock"]
    /\ arg' = [arg EXCEPT ![t] = c]
    /\ UNCHANGED <<nodes, idMap, hashMap, snapshot, copy, todo, ret>>

\* NewNodeReplaceOldNode: false when the k-bucket is full.
NewNodeReplaceOldNode(c) == BucketCount(Bucket[c]) < K

\* Under nodes_mutex_: capacity check, HasNode again, push_back.
AddNodeLocked(t) ==
    LET c == arg[t] IN
    /\ pc[t] = "add_lock"
    /\ \/ /\ ~NewNodeReplaceOldNode(c)
          /\ ret' = [ret EXCEPT ![t] = "Failed"]
          /\ pc' = [pc EXCEPT ![t] = "idle"]
          /\ UNCHANGED nodes
       \/ /\ NewNodeReplaceOldNode(c)
          /\ HasNode(c)
          /\ ret' = [ret EXCEPT ![t] = "HasAdded"]
          /\ pc' = [pc EXCEPT ![t] = "idle"]
          /\ UNCHANGED nodes
       \/ /\ NewNodeReplaceOldNode(c)
          /\ ~HasNode(c)
          /\ nodes' = BagAdd(nodes, c)
          /\ pc' = [pc EXCEPT ![t] = "add_idmap"]
          /\ UNCHANGED ret
    /\ UNCHANGED <<idMap, hashMap, snapshot, arg, copy, todo>>

\* Under node_id_map_mutex_: node_id_map_.insert.
AddNodeIdMap(t) ==
    /\ pc[t] = "add_idmap"
    /\ idMap' = MapInsert(idMap, NodeId[arg[t]], arg[t])
    /\ pc' = [pc EXCEPT ![t] = "add_hash"]
    /\ UNCHANGED <<nodes, hashMap, snapshot, arg, copy, todo, ret>>

\* Under node_hash_map_mutex_: node_hash_map_->insert.
AddNodeHashMap(t) ==
    /\ pc[t] = "add_hash"
    /\ hashMap' = MapInsert(hashMap, Hash[arg[t]], arg[t])
    /\ pc' = [pc EXCEPT ![t] = "reset"]
    /\ UNCHANGED <<nodes, idMap, snapshot, arg, copy, todo, ret>>

-----------------------------------------------------------------------------
(* The snapshot refresh that ends both AddNode and DropNode:              *)
(*   no_lock_for_use_nodes_.reset();                                      *)
(*   no_lock_for_use_nodes_ = make_shared<vector>(nodes());               *)
(* nodes() copies nodes_ under nodes_mutex_; the two writes to the shared *)
(* pointer are unsynchronised, so the last writer wins.                    *)

RefreshReset(t) ==
    /\ pc[t] = "reset"
    /\ snapshot' = None
    /\ pc' = [pc EXCEPT ![t] = "copy"]
    /\ UNCHANGED <<nodes, idMap, hashMap, arg, copy, todo, ret>>

RefreshCopy(t) ==
    /\ pc[t] = "copy"
    /\ copy' = [copy EXCEPT ![t] = nodes]
    /\ pc' = [pc EXCEPT ![t] = "publish"]
    /\ UNCHANGED <<nodes, idMap, hashMap, snapshot, arg, todo, ret>>

\* Both AddNode and DropNode return kKadSuccess here; the heartbeat thread
\* goes on with the next failed node.
RefreshPublish(t) ==
    /\ pc[t] = "publish"
    /\ snapshot' = copy[t]
    /\ copy' = [copy EXCEPT ![t] = EmptyBag]
    /\ ret' = [ret EXCEPT ![t] = "Success"]
    /\ pc' = [pc EXCEPT ![t] = IF todo[t] = EmptyBag THEN "idle" ELSE "hb_next"]
    /\ arg' = [arg EXCEPT ![t] = None]
    /\ UNCHANGED <<nodes, idMap, hashMap, todo>>

-----------------------------------------------------------------------------
(* DropNode, routing_table.cc 889-927, and its two callers.  DropDxip is  *)
(* a no-op outside client mode (node_dxip_map_ is only filled by a client *)
(* node's bootstrap response) and security_join_ptr_ is never set.         *)

\* OnHeartbeatFailed(ip, port), 1827-1851: collect the entries of nodes_
\* with that endpoint under nodes_mutex_, then DropNode each of them.
OnHeartbeatFailed(t, e) ==
    LET failed == [c \in {d \in BagToSet(nodes) : Ep[d] = e} |-> nodes[c]] IN
    /\ pc[t] = "idle"
    /\ failed # EmptyBag
    /\ todo' = [todo EXCEPT ![t] = failed]
    /\ pc' = [pc EXCEPT ![t] = "hb_next"]
    /\ UNCHANGED <<nodes, idMap, hashMap, snapshot, arg, copy, ret>>

OnHeartbeatFailedNext(t) ==
    /\ pc[t] = "hb_next"
    /\ \E c \in BagToSet(todo[t]) :
          /\ todo' = [todo EXCEPT ![t] = BagRemove(todo[t], c)]
          /\ arg' = [arg EXCEPT ![t] = c]
    /\ pc' = [pc EXCEPT ![t] = "drop_vec"]
    /\ UNCHANGED <<nodes, idMap, hashMap, snapshot, copy, ret>>

\* HandleNodeQuit, 1853-1864: DropNode of a record built from the message's
\* src_node_id and xid.
HandleNodeQuit(t, c) ==
    /\ pc[t] = "idle"
    /\ arg' = [arg EXCEPT ![t] = c]
    /\ pc' = [pc EXCEPT ![t] = "drop_vec"]
    /\ UNCHANGED <<nodes, idMap, hashMap, snapshot, copy, todo, ret>>

\* Under nodes_mutex_: erase the first entry with the node id, if any.
DropNodeVec(t) ==
    LET match == {d \in BagToSet(nodes) : NodeId[d] = NodeId[arg[t]]} IN
    /\ pc[t] = "drop_vec"
    /\ \/ \E d \in match : nodes' = BagRemove(nodes, d)
       \/ match = {} /\ UNCHANGED nodes
    /\ pc' = [pc EXCEPT ![t] = "drop_idmap"]
    /\ UNCHANGED <<idMap, hashMap, snapshot, arg, copy, todo, ret>>

\* Mutation of DropNodeIdMap: the node_id_map_ erase is missing.
DropNodeIdMapMissing(t) ==
    /\ pc[t] = "drop_idmap"
    /\ pc' = [pc EXCEPT ![t] = "drop_hash"]
    /\ UNCHANGED <<nodes, idMap, hashMap, snapshot, arg, copy, todo, ret>>

\* Under node_id_map_mutex_: erase by node id.
DropNodeIdMap(t) ==
    /\ pc[t] = "drop_idmap"
    /\ idMap' = [idMap EXCEPT ![NodeId[arg[t]]] = None]
    /\ pc' = [pc EXCEPT ![t] = "drop_hash"]
    /\ UNCHANGED <<nodes, hashMap, snapshot, arg, copy, todo, ret>>

\* Under node_hash_map_mutex_: erase by the record's hash64, whichever
\* record the entry holds.
DropNodeHashMap(t) ==
    /\ pc[t] = "drop_hash"
    /\ hashMap' = [hashMap EXCEPT ![Hash[arg[t]]] = None]
    /\ pc' = [pc EXCEPT ![t] = "reset"]
    /\ UNCHANGED <<nodes, idMap, snapshot, arg, copy, todo, ret>>

-----------------------------------------------------------------------------

Step(t) ==
    \/ AddNodeLocked(t) \/ AddNodeIdMap(t) \/ AddNodeHashMap(t)
    \/ RefreshReset(t) \/ RefreshCopy(t) \/ RefreshPublish(t)
    \/ OnHeartbeatFailedNext(t)
    \/ DropNodeVec(t) \/ DropNodeIdMap(t) \/ DropNodeHashMap(t)

Next ==
    \/ \E t \in Workers, c \in Cands :
          \/ AddNodeRejected(t, c) \/ AddNodeHasNode(t, c) \/ AddNodeStart(t, c)
          \/ HandleNodeQuit(t, c)
    \/ \E e \in Eps : OnHeartbeatFailed(HbThread, e)
    \/ \E t \in Threads : Step(t)

Spec == Init /\ [][Next]_vars

-----------------------------------------------------------------------------

TypeOK ==
    /\ IsABag(nodes) /\ BagToSet(nodes) \subseteq Admissible
    /\ idMap \in [Ids -> Cands \cup {None}]
    /\ hashMap \in [Hashes -> Cands \cup {Self, None}]
    /\ snapshot = None \/ (IsABag(snapshot) /\ BagToSet(snapshot) \subseteq Cands)
    /\ pc \in [Threads -> PCs]
    /\ arg \in [Threads -> Cands \cup {None}]
    /\ \A t \in Threads : IsABag(copy[t]) /\ IsABag(todo[t])
    /\ ret \in [Threads -> Results]

Quiescent == \A t \in Threads : pc[t] = "idle"

\* Once no handler is between two of its critical sections, nodes_ and
\* node_id_map_ hold the same node ids (spec.md section 5: the indexes "are
\* always mutated together").  An id only in node_id_map_ makes every later
\* AddNode of the node return kKadNodeHasAdded while OnHeartbeatFailed,
\* which scans nodes_, never removes it; an id only in nodes_ lets AddNode
\* push a second entry for it.
IndexConsistent ==
    Quiescent =>
        {NodeId[c] : c \in BagToSet(nodes)} = {i \in Ids : idMap[i] # None}

\* nodes_ holds at most one entry per node id (spec.md 8.5, duplicate
\* rejection), whatever the interleaving of concurrent AddNode calls.
NoDuplicateId ==
    \A c, d \in BagToSet(nodes) :
        NodeId[c] = NodeId[d] => c = d /\ CopiesIn(c, nodes) = 1

\* The local node's own node_hash_map_ entry, inserted by Init, survives
\* every AddNode/DropNode (spec.md 8.6: AddNode then DropNode restores the
\* index sizes).  DropNode erases node_hash_map_ by hash64 even when the
\* entry belongs to another record with the same xid.
SelfHashKept ==
    hashMap[SelfHash] = Self

\* Implementation: nodes_, as a set, behaves as the abstract routing table.
Abstract == INSTANCE RoutingTableSet WITH members <- BagToSet(nodes)

RefinesRoutingTableSet == Abstract!Spec

=============================================================================
