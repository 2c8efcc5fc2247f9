----------------------------- MODULE KadLookup -----------------------------
(***************************************************************************)
(* Neighbour discovery of the routing table of src/src/routing_table.cc   *)
(* once every node has joined: the FindNeighbours timer, the find-nodes    *)
(* request and response handlers, the connect request a node behind a NAT *)
(* is sent through the node that named it, and its hop-by-hop relay       *)
(* (SendToClosestNode / RecursiveSend).  The XOR-metric helpers           *)
(* SetNodeBucket and CloserToTarget are operators over byte sequences,    *)
(* checked against the metric of the specification (8.1, 8.4).            *)
(*                                                                         *)
(* A node's table is the set of nodes it holds; the node-detection map is *)
(* pending[n] and a handshake is abstracted to its outcome (the detection  *)
(* itself is the NodeDetection module).  The network is a set of           *)
(* messages taken in any order.  A lost find-nodes message only leaves a   *)
(* round without its answer, which the next timer round makes good; loss  *)
(* is left to KadJoin.                                                     *)
(***************************************************************************)
EXTENDS Naturals, FiniteSets, Sequences, Bitwise

CONSTANTS
    Nodes,          \* the nodes, model values
    First,          \* the first (seed) node
    NatType,        \* NatType[n] in {"public", "cone", "coneAbnormal"}
    Id,             \* Id[n], the node id as a sequence of IdSize bytes
    Addr,           \* Addr[n], the public ip:port of n
    IdSize,         \* kNodeIdSize, in bytes
    BucketK,        \* kKadParamK
    Targets,        \* ids, as byte sequences, a query may name
    MaxDrops        \* bound on heartbeat failures

VARIABLES table, pending, net, drops

vars == <<table, pending, net, drops>>

Alpha == 2          \* kKadParamAlpha
AlphaRandom == 1    \* kKadParamAlphaRandom
SelfBucketIndex == 0

Seq2Set(s) == {s[i] : i \in DOMAIN s}

-----------------------------------------------------------------------------
(* The XOR metric.                                                          *)

Bit(b, i) == (b \div 2^i) % 2

\* bit_index: the first bit, from the most significant, where two bytes differ
RECURSIVE BitIndexFrom(_, _, _)
BitIndexFrom(h, n, i) ==
    IF i = 8 \/ Bit(h, 7 - i) # Bit(n, 7 - i) THEN i ELSE BitIndexFrom(h, n, i + 1)

\* mutant: the byte position taken as if id_bit_index were 1-based
SetNodeBucketOffByOne(self, id) ==
    LET RECURSIVE Loop(_)
        Loop(j) == IF j > IdSize THEN SelfBucketIndex
                   ELSE IF self[j] # id[j]
                        THEN 8 * (IdSize - j) - BitIndexFrom(self[j], id[j], 0)
                        ELSE Loop(j + 1)
    IN Loop(1)

\* bucket_index of id seen from self: the loop over the bytes (id_bit_index)
\* stops at the first that differs; kSelfBucketIndex when none does
SetNodeBucket(self, id) ==
    LET RECURSIVE Loop(_)
        Loop(j) == IF j > IdSize THEN SelfBucketIndex
                   ELSE IF self[j] # id[j]
                        THEN 8 * (IdSize - (j - 1)) - BitIndexFrom(self[j], id[j], 0)
                        ELSE Loop(j + 1)
    IN Loop(1)

\* mutant: the XOR of two bytes compared as a signed char
CloserToTargetSigned(id1, id2, t) ==
    LET Signed(b) == IF b >= 128 THEN b - 256 ELSE b
        RECURSIVE Cmp(_)
        Cmp(i) == IF i > IdSize THEN FALSE
                  ELSE LET r1 == id1[i] ^^ t[i]
                           r2 == id2[i] ^^ t[i]
                       IN IF r1 # r2 THEN Signed(r1) < Signed(r2) ELSE Cmp(i + 1)
    IN Cmp(1)

\* id1 is strictly closer to t than id2: bytewise unsigned XOR comparison
CloserToTarget(id1, id2, t) ==
    LET RECURSIVE Cmp(_)
        Cmp(i) == IF i > IdSize THEN FALSE
                  ELSE LET r1 == id1[i] ^^ t[i]
                           r2 == id2[i] ^^ t[i]
                       IN IF r1 # r2 THEN r1 < r2 ELSE Cmp(i + 1)
    IN Cmp(1)

\* The ids are fixed, so both relations are tabulated over the nodes once.
Bucket == [n \in Nodes |-> [x \in Nodes |-> SetNodeBucket(Id[n], Id[x])]]
Closer == [t \in Nodes |-> [p \in Nodes \X Nodes |-> CloserToTarget(Id[p[1]], Id[p[2]], Id[t])]]
CloserToId == [tid \in Targets |-> [p \in Nodes \X Nodes |-> CloserToTarget(Id[p[1]], Id[p[2]], tid)]]

\* the head of the list SortNodesByTargetXid leaves: the member of S closest to t
ClosestTo(S, t) == CHOOSE c \in S : \A d \in S \ {c} : Closer[t][<<c, d>>]

\* the first Alpha nodes after SortNodesByTargetXid(local id, kKadParamAlpha)
AlphaClosest(n) ==
    {x \in table[n] : Cardinality({y \in table[n] : Closer[n][<<y, x>>]}) < Alpha}

-----------------------------------------------------------------------------
(* Messages.                                                                *)

FindReq(src, dst, bloom) == [type |-> "find_req", src |-> src, dst |-> dst, bloom |-> bloom]
FindRes(src, dst, found) == [type |-> "find_res", src |-> src, dst |-> dst, found |-> found]
\* a connect request from src for des, now at node at, with the relays so far
ConnReq(src, des, at, hops) == [type |-> "conn", src |-> src, des |-> des, at |-> at, hops |-> hops]

\* CanAddNode, and the same checks at the head of AddNode
CanAddNode(n, x) ==
    /\ x # n
    /\ x \notin table[n]
    /\ Bucket[n][x] # SelfBucketIndex
    /\ Cardinality({y \in table[n] : Bucket[n][y] = Bucket[n][x]}) < BucketK

\* both ends behind an abnormal cone NAT: they cannot reach each other
ConeAbnormalPair(n, x) == NatType[n] = "coneAbnormal" /\ NatType[x] = "coneAbnormal"

Init ==
    /\ table = [n \in Nodes |-> IF n = First THEN Nodes \ {First} ELSE {First}]
    /\ pending = [n \in Nodes |-> {}]
    /\ net = {}
    /\ drops = 0

-----------------------------------------------------------------------------
(* FindNeighbours timer of node n: FindClosestNodes(1, ...) queries the     *)
(* nodes GetClosestAlphaNodes picks (the whole table when it holds at most *)
(* Alpha + AlphaRandom nodes, else the Alpha closest and one other at       *)
(* random), each with a bloom filter of the whole table.                   *)
QueryChoices(n) ==
    IF Cardinality(table[n]) <= Alpha + AlphaRandom
    THEN {table[n]}
    ELSE {AlphaClosest(n) \cup {r} : r \in table[n] \ AlphaClosest(n)}

\* The timer period is taken to exceed a round trip: n's previous requests
\* and their answers are no longer in the network when its timer fires.
RoundOver(n) ==
    \A m \in net : ~(m.type = "find_req" /\ m.src = n) /\ ~(m.type = "find_res" /\ m.dst = n)

\* GetExistsNodesBloomfilter, 1470-1479: the ids of the nodes given.  The
\* filter answers membership exactly here; its false positives are left out.
GetExistsNodesBloomfilter(nodes) == nodes

FindNeighbours(n) ==
    /\ RoundOver(n)
    /\ table[n] # {}
    /\ \E q \in QueryChoices(n) :
          net' = net \cup {FindReq(n, x, GetExistsNodesBloomfilter(table[n])) : x \in q}
    /\ UNCHANGED <<table, pending, drops>>

\* mutant: the public requester is not added to the responder's table
HandleFindNodesRequestNoAdd(m) ==
    LET q == m.dst
        n == m.src
        found == {x \in {q} \cup table[q] : x # n /\ x \notin m.bloom}
    IN /\ m \in net
       /\ m.type = "find_req"
       /\ net' = (net \ {m}) \cup (IF found = {} THEN {} ELSE {FindRes(q, n, found)})
       /\ UNCHANGED <<table, pending, drops>>

\* HandleFindNodesRequest at m.dst: a public requester is added, then the
\* responder offers itself and its closest nodes, leaving out the requester
\* and whatever the bloom filter holds; nothing is sent when nothing is left.
HandleFindNodesRequest(m) ==
    LET q == m.dst
        n == m.src
        t1 == IF NatType[n] = "public" /\ CanAddNode(q, n) THEN table[q] \cup {n} ELSE table[q]
        found == {x \in {q} \cup t1 : x # n /\ x \notin m.bloom}
    IN /\ m \in net
       /\ m.type = "find_req"
       /\ table' = [table EXCEPT ![q] = t1]
       /\ net' = (net \ {m}) \cup (IF found = {} THEN {} ELSE {FindRes(q, n, found)})
       /\ UNCHANGED <<pending, drops>>

\* HandleFindNodesResponse at m.dst: of the nodes it may add, one at its own
\* address or a public one is added, an abnormal-cone pair is skipped, and
\* any other goes to node detection with a connect request sent straight to
\* the responder, which relays it.
HandleFindNodesResponse(m) ==
    LET n == m.dst
        ok == {x \in m.found : CanAddNode(n, x)}
        direct == {x \in ok : Addr[x] = Addr[n] \/ (~ConeAbnormalPair(n, x) /\ NatType[x] = "public")}
        detect == {x \in ok \ direct : ~ConeAbnormalPair(n, x)}
    IN /\ m \in net
       /\ m.type = "find_res"
       /\ table' = [table EXCEPT ![n] = @ \cup direct]
       /\ pending' = [pending EXCEPT ![n] = @ \cup detect]
       /\ net' = (net \ {m}) \cup {ConnReq(n, x, m.src, <<>>) : x \in detect}
       /\ UNCHANGED drops

\* SendData(message, node): the message goes to node's local ip:port when it
\* shares the VLAN, else its public one; either way node receives it.
SendData(m, hops, node) == ConnReq(m.src, m.des, node, hops)

\* mutant: the hops of the message are not excluded from the next hop
RecursiveSendNoExclude(r, m, hops) ==
    LET ready == {y \in table[r] : y # r /\ Addr[y] # Addr[r]}
    IN IF Cardinality(Seq2Set(hops)) < Len(hops) \/ ready = {} THEN {}
       ELSE {SendData(m, hops, ClosestTo(ready, m.des))}

\* RecursiveSend at r: a message that already passed a node is dropped, else
\* it goes to the node closest to des that is not r, not at r's address and
\* not one of the hops, if there is one.
RecursiveSend(r, m, hops) ==
    LET ready == {y \in table[r] : y # r /\ Addr[y] # Addr[r] /\ y \notin Seq2Set(hops)}
    IN IF Cardinality(Seq2Set(hops)) < Len(hops) \/ ready = {} THEN {}
       ELSE {SendData(m, hops, ClosestTo(ready, m.des))}

\* the head of GetClosestNodes(target id): the member of S whose id
\* SortNodesByTargetXid puts first toward the id tid
ClosestToId(S, tid) == CHOOSE c \in S : \A d \in S \ {c} : CloserToId[tid][<<c, d>>]

\* GetClosestNode(target, not_self = true, exclude) at n over the node list
\* tbl: the first entry of GetClosestNodes that is neither n nor excluded,
\* "none" for nullptr
GetClosestNode(n, tbl, tid, exclude) ==
    LET S == tbl \ ({n} \cup exclude)
    IN IF S = {} THEN "none" ELSE ClosestToId(S, tid)

\* mutant: closest when the nearest entry is nearer than n, not n nearer
ClosestToTargetSwapped(n, tbl, tid) ==
    LET c == GetClosestNode(n, tbl, tid, {})
    IN CASE tid = Id[n]  -> [ret |-> "failed", closest |-> FALSE]
         [] tbl = {} -> [ret |-> "success", closest |-> TRUE]
         [] c = "none"    -> [ret |-> "success", closest |-> TRUE]
         [] OTHER         -> [ret |-> "success",
                              closest |-> Bucket[n][c] = SelfBucketIndex
                                          \/ CloserToId[tid][<<c, n>>]]

\* ClosestToTarget(target, closest) at n, whose node list is tbl: fails for n's own id; an empty
\* table, or no entry other than n, makes n the closest; else n is closest
\* when the nearest entry is n itself or n's id is nearer to the target.
\* (The size check on target never fires: every id has IdSize bytes.)
ClosestToTarget(n, tbl, tid) ==
    LET c == GetClosestNode(n, tbl, tid, {})
    IN CASE tid = Id[n]  -> [ret |-> "failed", closest |-> FALSE]
         [] tbl = {} -> [ret |-> "success", closest |-> TRUE]
         [] c = "none"    -> [ret |-> "success", closest |-> TRUE]
         [] OTHER         -> [ret |-> "success",
                              closest |-> Bucket[n][c] = SelfBucketIndex
                                          \/ CloserToId[tid][<<n, c>>]]

\* IsDestination(des id, check_closest) at r: r's own id, or, when asked,
\* a successful ClosestToTarget that names r the closest.
IsDestination(r, tbl, tid, check_closest) ==
    \/ tid = Id[r]
    \/ /\ check_closest
       /\ ClosestToTarget(r, tbl, tid).ret = "success"
       /\ ClosestToTarget(r, tbl, tid).closest

\* SendToClosestNode(message) at r: a message for r itself is dropped, r
\* appends itself to the hops (add_hop) and RecursiveSend picks the next
\* hop.  The "!first_node && !joined_" return never fires here: every node
\* has joined.
SendToClosestNode(r, m) ==
    IF IsDestination(r, table[r], Id[m.des], FALSE) THEN {} ELSE RecursiveSend(r, m, Append(m.hops, r))

\* HandleConnectRequest at m.at: a relay appends itself to the hops and
\* forwards (SendToClosestNode); the destination starts detecting the source
\* unless both are behind an abnormal cone NAT.
HandleConnectRequest(m) ==
    LET r == m.at
    IN /\ m \in net
       /\ m.type = "conn"
       /\ IF ~IsDestination(r, table[r], Id[m.des], FALSE)
          THEN /\ net' = (net \ {m}) \cup SendToClosestNode(r, m)
               /\ UNCHANGED pending
          ELSE /\ net' = net \ {m}
               /\ pending' = IF ConeAbnormalPair(r, m.src) THEN pending
                             ELSE [pending EXCEPT ![r] = @ \cup {m.src}]
       /\ UNCHANGED <<table, drops>>

\* The handshake of a detected node answers: HandleHandshake adds it.
DetectionSucceeds(n, x) ==
    /\ x \in pending[n]
    /\ pending' = [pending EXCEPT ![n] = @ \ {x}]
    /\ table' = IF CanAddNode(n, x) THEN [table EXCEPT ![n] = @ \cup {x}] ELSE table
    /\ UNCHANGED <<net, drops>>

\* The detection of x gives up unanswered.
DetectionExpires(n, x) ==
    /\ x \in pending[n]
    /\ pending' = [pending EXCEPT ![n] = @ \ {x}]
    /\ UNCHANGED <<table, net, drops>>

\* OnHeartbeatFailed at n for the address of x: every entry there is dropped.
OnHeartbeatFailed(n, x) ==
    /\ drops < MaxDrops
    /\ x \in table[n]
    /\ table' = [table EXCEPT ![n] = {y \in @ : Addr[y] # Addr[x]}]
    /\ drops' = drops + 1
    /\ UNCHANGED <<pending, net>>

\* KadMessageHandler::Init / AddBaseHandlers (kad_message_handler.cc):
\* the transport hands a message to the processor registered for its type,
\* which calls the RoutingTable handler of that name.
Dispatch(m) ==
    CASE m.type = "find_req" -> HandleFindNodesRequest(m)
      [] m.type = "find_res" -> HandleFindNodesResponse(m)
      [] m.type = "conn"     -> HandleConnectRequest(m)

Next ==
    \/ \E n \in Nodes : FindNeighbours(n)
    \/ \E m \in net : Dispatch(m)
    \/ \E n, x \in Nodes : DetectionSucceeds(n, x) \/ DetectionExpires(n, x)
                           \/ OnHeartbeatFailed(n, x)

\* The timer fires; the transport hands every find-nodes message to its
\* handler, relays go on, and a detection ends.  RoundOver keeps n from
\* sending a request before all its earlier requests and their answers have
\* been handled, so fairness for "some request from n" and "some answer to
\* n" already starves none of them: it is fairness per message.
Fairness ==
    /\ \A n \in Nodes : WF_vars(FindNeighbours(n))
    /\ \A n \in Nodes :
          WF_vars(\E m \in net : m.type = "find_req" /\ m.src = n /\ HandleFindNodesRequest(m))
    /\ \A n \in Nodes :
          WF_vars(\E m \in net : m.type = "find_res" /\ m.dst = n /\ HandleFindNodesResponse(m))
    /\ WF_vars(\E m \in net : HandleConnectRequest(m))
    /\ WF_vars(\E n, x \in Nodes : DetectionSucceeds(n, x) \/ DetectionExpires(n, x))

Spec == Init /\ [][Next]_vars /\ Fairness

-----------------------------------------------------------------------------
(* Properties.                                                              *)

FindMsgs ==
    {FindReq(s, d, bl) : s, d \in Nodes, bl \in SUBSET Nodes}
    \cup {FindRes(s, d, fd) : s, d \in Nodes, fd \in SUBSET Nodes}

TypeOK ==
    /\ table \in [Nodes -> SUBSET Nodes]
    /\ pending \in [Nodes -> SUBSET Nodes]
    /\ \A m \in net : m \in FindMsgs \/ (m.type = "conn" /\ m.src \in Nodes /\ m.des \in Nodes
                                     /\ m.at \in Nodes /\ Seq2Set(m.hops) \subseteq Nodes)
    /\ drops \in 0..MaxDrops
    /\ \A n \in Nodes : \A x \in table[n] : Bucket[n][x] \in 1..8 * IdSize

\* The metric of the specification: the XOR of two ids read as a number.
IdValue(id) == LET RECURSIVE V(_)
                   V(j) == IF j = 0 THEN 0 ELSE 256 * V(j - 1) + id[j]
               IN V(IdSize)
XorIdDistance(i1, i2) == IdValue([j \in 1..IdSize |-> i1[j] ^^ i2[j]])
\* tabulated once over the nodes, as the ids are fixed
XorDistanceOf == [x \in Nodes |-> [y \in Nodes |-> XorIdDistance(Id[x], Id[y])]]
XorDistance(x, y) == XorDistanceOf[x][y]
BitLength(v) == CHOOSE L \in 0..8 * IdSize : v < 2^L /\ (L = 0 \/ 2^(L - 1) <= v)

\* Every entry a node holds sits in the bucket the specification (8.1)
\* gives it, the bit length of its XOR distance, as SetNodeBucket's byte
\* and bit loops must compute it.
BucketMatchesSpec ==
    \A n \in Nodes : \A x \in table[n] : Bucket[n][x] = BitLength(XorDistance(n, x))

\* The entry a node ranks first toward its own id, as FindNeighbours and
\* GetClosestAlphaNodes sort the table (SortNodesByTargetXid(local id)), is
\* the one nearest by XOR distance (8.4), as CloserToTarget's bytewise
\* comparison must order them.
CloserMatchesXorDistance ==
    \A n \in Nodes : table[n] # {} =>
        \A y \in table[n] : XorDistance(ClosestTo(table[n], n), n) <= XorDistance(y, n)

\* IsDestination(id, check_closest = true), by which a node takes for itself
\* a message for an id no node holds (a dynamic address), says yes exactly
\* when the node's own id is nearer to that id by XOR distance than every
\* entry of its node list: the closest node of the specification (4, 9).
\* GetClosestNode, ClosestToTarget's two branches and CloserToTarget must
\* agree for this.  The verdict is computed once for every node list
\* without the node itself, and looked up for the lists nodes hold.
TargetDistance == [tid \in Targets |-> [n \in Nodes |-> XorIdDistance(Id[n], tid)]]
DestinationAgrees(n, tbl) ==
    \A tid \in Targets :
        IsDestination(n, tbl, tid, TRUE)
            <=> \A x \in tbl : TargetDistance[tid][n] < TargetDistance[tid][x]
DestinationVerdicts ==
    UNION {{<<n, tbl, DestinationAgrees(n, tbl)>> : tbl \in SUBSET (Nodes \ {n})} : n \in Nodes}
IsDestinationMatchesSpec ==
    \A n \in Nodes : <<n, table[n] \ {n}, TRUE>> \in DestinationVerdicts

\* A relayed connect request never reaches a node it already passed: the
\* hops are distinct and the node holding it is not among them, so the
\* duplicate check of RecursiveSend never has to fire.
RelayNeverRevisits ==
    \A m \in net : m.type = "conn" =>
        /\ Cardinality(Seq2Set(m.hops)) = Len(m.hops)
        /\ m.at \notin Seq2Set(m.hops)

\* Discovery converges: once the losses and heartbeat failures are over,
\* every public node comes to hold every other public node for good.
Publics == {n \in Nodes : NatType[n] = "public"}
PublicDiscovery ==
    <>[](\A p, q \in Publics : p # q => q \in table[p])
====
