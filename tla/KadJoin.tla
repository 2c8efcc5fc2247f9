------------------------------- MODULE KadJoin -------------------------------
(***************************************************************************)
(* The join protocol of RoutingTable (src/src/routing_table.cc) seen from *)
(* one joining node B and its bootstrap peers (first_node = true).        *)
(*                                                                         *)
(* Threads of B: the application thread calls MultiJoin once with the     *)
(* configured endpoints; the rejoin timer (every kRejoinPeriod = 3 s,     *)
(* single-threaded) runs Rejoin, which may itself call MultiJoin and is   *)
(* blocked in it until it returns; workers run the message handlers; the  *)
(* heartbeat manager drops dead peers.  MultiJoin blocks on              *)
(* bootstrap_cond_ with the predicate joined_, so its wait is split into  *)
(* the wait itself and the re-check of joined_ after wait_for returns.    *)
(*                                                                         *)
(* Virtual nodes are routing-table entries that carry B's own public and  *)
(* local ip:port (routing tables of other services in B's process).  They *)
(* reach B's table through handshake responses, whose branch of           *)
(* HandleHandshake also calls SetJoin.  Bootstrap peers are the only      *)
(* real peers of the model.                                                *)
(*                                                                         *)
(* The bootstrap cache Rejoin reads is public_endpoints_ of               *)
(* BootstrapCacheHelper: loaded at start from storage (stubbed, empty)    *)
(* and replaced every 60 s by the table's public nodes plus              *)
(* bootstrap_ip_, the address SetJoin last recorded.                      *)
(*                                                                         *)
(* Left out: the FindClosestNodes call and WakeBootstrap after SetJoin    *)
(* (the first is the lookup protocol; the second only shortens a wait     *)
(* whose predicate is joined_, which an untimed model does not tell       *)
(* apart), message ids, addresses and payload fields.                     *)
(***************************************************************************)
EXTENDS Naturals, FiniteSets

CONSTANTS
    Boots,           \* bootstrap peers (first nodes)
    Virtuals,        \* virtual nodes of B's own address
    SelfAddr,        \* B's own public ip:port
    AppEndpoints,    \* endpoints the application passes to MultiJoin
    SelfPublic,      \* B's nat_type is kNatTypePublic (its virtual nodes share it)
    JoinRetryTimes,  \* kJoinRetryTimes = 5
    FirstWait,       \* initial wait_time = 4 (seconds)
    MaxWait,         \* cap of wait_time = 128 (seconds)
    VirtualLimit,    \* Rejoin's "nodes_.size() <= 5"
    MaxLoss,         \* bound on lost datagrams
    MaxDrops,        \* bound on heartbeat drops of B's entries
    MaxShakes,       \* bound on handshake responses from virtual nodes
    ClientMode,      \* B's local_node_ptr_->client_mode()
    MaxDxips,        \* bound on dynamic xips a peer dispatches
    EmptyDxip        \* the empty dxip field of a response that carries none

ASSUME AppEndpoints \subseteq Boots /\ SelfAddr \notin Boots

\* Addresses B may send a BootstrapJoinRequest to: its own is one of them
\* once the cache or bootstrap_nodes_ holds it.
Addrs == Boots \cup {SelfAddr}

JoinThreads == {"app", "rejoin"}

\* Dynamic xips: the one peer a dispatches k-th (DispatchDynamicXip
\* overwrites the process, router, switch and local ids of a's xip with
\* the bits of ++atom_xip_manager_id_), and the empty one.
Dxips == {EmptyDxip} \cup (Addrs \X (1..MaxDxips))

VARIABLES
    joined,      \* joined_
    afterJoin,   \* after_join_
    tableB,      \* B's nodes_ (bootstrap peers and virtual nodes)
    tableA,      \* Boots -> whether the peer's nodes_ holds B
    bootNodes,   \* bootstrap_nodes_ of B, as a set of addresses
    bootAddr,    \* bootstrap_ip_:bootstrap_port_ of B ("none" while empty)
    pubEps,      \* BootstrapCacheHelper::public_endpoints_ of B
    net,         \* datagrams in flight
    mj,          \* JoinThreads -> the thread's frame in MultiJoin
    lost, drops, shakes,
    clientDxip,  \* B's node_dxip_map_: node id -> dxip ("none" when absent)
    dxipNode,    \* B's dxip_node_map_: dxip -> node id ("none" when absent)
    dyMap,       \* dy_xip_map_ of each peer's DynamicXipManager: its keys
    xipId,       \* atom_xip_manager_id_ of each peer
    destroyed,   \* destroy_ of B's RoutingTable
    helperOn     \* inited_ of B's BootstrapCacheHelper (its dump timer runs)

vars == <<joined, afterJoin, tableB, tableA, bootNodes, bootAddr, pubEps,
          net, mj, lost, drops, shakes, clientDxip, dxipNode, dyMap, xipId,
          destroyed, helperOn>>

dxVars == <<clientDxip, dxipNode, dyMap, xipId>>
lifeVars == <<destroyed, helperOn>>

\* Bootstrap, 1320-1358: in client mode the request gets client_id and
\* relay_flag, never client_msg (SetSpeClientMessage, 2431-2433, is
\* empty), so the flag every peer tests is false.
BootstrapClientMsg == FALSE

JoinReq(a) == [type |-> "join_req", peer |-> a, client |-> BootstrapClientMsg]
JoinRes(a, d) == [type |-> "join_res", peer |-> a, dxip |-> d]
\* The two join types AddBaseHandlers (kad_message_handler.cc 52-61)
\* dispatches to the handlers below.
Msgs == {JoinReq(a) : a \in Addrs} \cup {JoinRes(a, d) : a \in Addrs, d \in Dxips}

\* A frame: pc, retried_times (saturated at JoinRetryTimes + 1, past which
\* the code only compares it with kJoinRetryTimes), wait_time, endpoints.
Frame(pc, eps) == [pc |-> pc, retried |-> 0, wait |-> FirstWait, eps |-> eps]

\* BootstrapCacheManager::GetCache (bootstrap_cache.cc 132-156): the ledger
\* read is commented out, so the call succeeds with no endpoints.
StoredEndpoints == {}

\* LoadBootstrapCache (bootstrap_cache_helper.cc 293-319), run by Start:
\* public_endpoints_ becomes the stored endpoints without duplicates.
LoadBootstrapCache == StoredEndpoints

\* BootstrapCacheHelper::Start (bootstrap_cache_helper.cc 18-59), called
\* by StartBootstrapCacheSaver: the cache is loaded and the dump timer
\* started.  The cache-service timer and get_service_public_nodes_ are
\* set only for the kRoot network and nothing here feeds them.
HelperStart == pubEps = LoadBootstrapCache /\ helperOn = TRUE

\* StartBootstrapCacheSaver runs before the application thread enters
\* MultiJoin (test_routing_table.cc); bootstrap_ip_ is empty.
\* RoutingTable's constructor, 54-91: joined_, after_join_ and destroy_
\* false, no nodes, no bootstrap nodes, bootstrap_ip_ empty.
Constructed ==
    /\ joined = FALSE
    /\ afterJoin = FALSE
    /\ destroyed = FALSE
    /\ tableB = {}
    /\ bootNodes = {}
    /\ bootAddr = "none"

Init ==
    /\ Constructed
    /\ tableA = [a \in Boots |-> FALSE]
    /\ HelperStart
    /\ net = {}
    /\ mj = [t \in JoinThreads |->
               IF t = "app" THEN Frame("start", AppEndpoints)
                            ELSE Frame("idle", {})]
    /\ lost = 0 /\ drops = 0 /\ shakes = 0
    /\ clientDxip = [n \in Addrs |-> "none"]
    /\ dxipNode = [d \in Dxips |-> "none"]
    /\ dyMap = [a \in Addrs |-> {}]
    /\ xipId = [a \in Addrs |-> 0]   \* never initialised: the start only shifts the ids

-----------------------------------------------------------------------------
(* Backoff of MultiJoin, 311-317: after a failed round retried_times is  *)
(* incremented, and once it exceeds kJoinRetryTimes wait_time doubles,    *)
(* capped at 128.                                                          *)
\* Mutation of NextWait: the cap of 128 s is left out.
NextWaitNoCap(retried, wait) ==
    IF retried > JoinRetryTimes THEN wait * 2 ELSE wait

NextWait(retried, wait) ==
    IF retried > JoinRetryTimes
      THEN IF wait * 2 > MaxWait THEN MaxWait ELSE wait * 2
      ELSE wait

\* The end of a failed round: retried_times += 1 and the backoff.
FailRound(f) ==
    LET r == f.retried + 1   \* the round's log line, 318-325, changes nothing
    IN [f EXCEPT !.pc = "send",
                 !.retried = IF r > JoinRetryTimes + 1 THEN JoinRetryTimes + 1
                                                       ELSE r,
                 !.wait = NextWait(r, f.wait)]

\* Mutant: SetJoin without its joined_ test, so a later join overwrites
\* bootstrap_ip_.
SetJoinNoJoinedCheck(addr) ==
    /\ joined' = TRUE
    /\ afterJoin' = TRUE
    /\ bootAddr' = addr

(* SetJoin, 355-372: first join wins under joined_mutex_; the winner's *)
(* address becomes bootstrap_ip_:bootstrap_port_.                         *)
SetJoin(addr) ==
    IF joined THEN UNCHANGED <<joined, afterJoin, bootAddr>>
    ELSE /\ joined' = TRUE
         /\ afterJoin' = TRUE
         /\ bootAddr' = addr

-----------------------------------------------------------------------------
(* MultiJoin, 279-329, for thread t.                                       *)

\* Entry: "if (joined_) return kKadFailed", else the first round.
MultiJoinStart(t) ==
    /\ mj[t].pc = "start"
    /\ mj' = [mj EXCEPT ![t] = IF joined THEN Frame("idle", {})
                                         ELSE Frame("send", @.eps)]
    /\ UNCHANGED <<joined, afterJoin, tableB, tableA, bootNodes, bootAddr, pubEps, net,
                   lost, drops, shakes, dxVars, lifeVars>>

\* SendData(message, ip, port), 443-476: the message is serialized and
\* handed to the transport as one UDP datagram per address.
SendDatagrams(S) == net' = net \cup S

\* Bootstrap(peer) to every endpoint, 292-298.
MultiJoinSend(t) ==
    /\ mj[t].pc = "send"
    /\ SendDatagrams({JoinReq(a) : a \in mj[t].eps})
    /\ mj' = [mj EXCEPT ![t].pc = "wait"]
    /\ UNCHANGED <<joined, afterJoin, tableB, tableA, bootNodes, bootAddr, pubEps,
                   lost, drops, shakes, dxVars, lifeVars>>

\* wait_for returns true: joined_ held under bootstrap_mutex_.
MultiJoinWake(t) ==
    /\ mj[t].pc = "wait"
    /\ joined
    /\ mj' = [mj EXCEPT ![t].pc = "check"]
    /\ UNCHANGED <<joined, afterJoin, tableB, tableA, bootNodes, bootAddr, pubEps, net,
                   lost, drops, shakes, dxVars, lifeVars>>

\* Mutation of MultiJoinTimeout: the next round waits again without
\* sending the Bootstrap requests.
MultiJoinTimeoutNoResend(t) ==
    /\ mj[t].pc = "wait"
    /\ ~joined
    /\ mj' = [mj EXCEPT ![t] = [FailRound(@) EXCEPT !.pc = "wait"]]
    /\ UNCHANGED <<joined, afterJoin, tableB, tableA, bootNodes, bootAddr, pubEps, net,
                   lost, drops, shakes, dxVars, lifeVars>>

\* wait_for times out with joined_ false: a failed round.
MultiJoinTimeout(t) ==
    /\ mj[t].pc = "wait"
    /\ ~joined
    /\ mj' = [mj EXCEPT ![t] = FailRound(@)]
    /\ UNCHANGED <<joined, afterJoin, tableB, tableA, bootNodes, bootAddr, pubEps, net,
                   lost, drops, shakes, dxVars, lifeVars>>

\* "if (joined_) return kKadSuccess", re-read after wait_for returned; a
\* SetUnJoin in between makes the round a failed one.
MultiJoinCheck(t) ==
    /\ mj[t].pc = "check"
    /\ mj' = [mj EXCEPT ![t] = IF joined THEN Frame("idle", {})
                                         ELSE FailRound(@)]
    /\ UNCHANGED <<joined, afterJoin, tableB, tableA, bootNodes, bootAddr, pubEps, net,
                   lost, drops, shakes, dxVars, lifeVars>>

\* MultiJoinAsync, 331-350, the application's non-blocking alternative:
\* unless joined_, kJoinRetryTimes rounds of Bootstrap to every endpoint
\* back to back (identical datagrams), then return without waiting.
MultiJoinAsync ==
    /\ mj["app"].pc = "start"
    /\ net' = IF joined THEN net ELSE net \cup {JoinReq(a) : a \in mj["app"].eps}
    /\ mj' = [mj EXCEPT !["app"] = Frame("idle", {})]
    /\ UNCHANGED <<joined, afterJoin, tableB, tableA, bootNodes, bootAddr, pubEps,
                   lost, drops, shakes, dxVars, lifeVars>>

-----------------------------------------------------------------------------
(* Rejoin, 634-703, on the rejoin timer; skipped after UnInit (destroy_,  *)
(* 635), before the first join (after_join_) and while the timer thread  *)
(* is still inside MultiJoin.                                             *)
(* Under nodes_mutex_ it clears joined_ when nodes_ is empty or holds at  *)
(* most five entries, all with B's own addresses; then, if joined_ is    *)
(* false, it calls MultiJoin with the bootstrap cache and                 *)
(* bootstrap_nodes_.                                                       *)
Offline(table) ==
    \/ table = {}
    \/ Cardinality(table) <= VirtualLimit /\ table \subseteq Virtuals

\* GetBootstrapCache (2398-2400, BootstrapCacheHelper::GetPublicEndpoints
\* 98-101: public_endpoints_ parsed into ip:port pairs) joined with the
\* addresses of bootstrap_nodes_, 687-694.
GetBootstrapCache == pubEps
RejoinEndpoints == GetBootstrapCache \cup bootNodes

\* Mutation of Rejoin: only an empty nodes_ clears joined_.
RejoinEmptyOnly ==
    /\ ~destroyed
    /\ afterJoin
    /\ mj["rejoin"].pc = "idle"
    /\ LET j == joined /\ tableB # {}
       IN /\ joined' = j
          /\ mj' = IF j THEN mj
                   ELSE [mj EXCEPT !["rejoin"] = Frame("start", RejoinEndpoints)]
    /\ UNCHANGED <<afterJoin, tableB, tableA, bootNodes, bootAddr, pubEps, net, lost, drops, shakes, dxVars, lifeVars>>

\* Mutation of Rejoin: the all-virtual loop is left out, so any table of
\* at most five entries clears joined_.
RejoinNoOfflineCheck ==
    /\ ~destroyed
    /\ afterJoin
    /\ mj["rejoin"].pc = "idle"
    /\ LET j == joined /\ Cardinality(tableB) > VirtualLimit
       IN /\ joined' = j
          /\ mj' = IF j THEN mj
                   ELSE [mj EXCEPT !["rejoin"] = Frame("start", RejoinEndpoints)]
    /\ UNCHANGED <<afterJoin, tableB, tableA, bootNodes, bootAddr, pubEps, net, lost, drops, shakes, dxVars, lifeVars>>

\* SetUnJoin, 374-377: joined_ = false under joined_mutex_.
SetUnJoin == joined' = FALSE

Rejoin ==
    /\ ~destroyed
    /\ afterJoin
    /\ mj["rejoin"].pc = "idle"
    /\ IF joined /\ ~Offline(tableB)
         THEN UNCHANGED <<joined, mj>>
         ELSE /\ SetUnJoin
              /\ mj' = [mj EXCEPT !["rejoin"] = Frame("start", RejoinEndpoints)]
    /\ UNCHANGED <<afterJoin, tableB, tableA, bootNodes, bootAddr, pubEps, net, lost, drops, shakes, dxVars, lifeVars>>

-----------------------------------------------------------------------------
(* Handlers.                                                               *)

(* LocalNodeInfo (local_node_info.cc) of B.  AddDxip, 111-120, sets     *)
(* node_dxip_map_[n] and dxip_node_map_[d]; DropDxip, 122-145, erases     *)
(* node_dxip_map_[n] and the dxip_node_map_ entry of the dxip it held.    *)
(* Both take the two map locks one after the other; B's worker and        *)
(* heartbeat thread are not interleaved inside them here.                 *)
AddDxip(n, d) ==
    /\ clientDxip' = [clientDxip EXCEPT ![n] = d]
    /\ dxipNode' = [dxipNode EXCEPT ![d] = n]

DropDxip(n) ==
    IF clientDxip[n] = "none" THEN UNCHANGED <<clientDxip, dxipNode>>
    ELSE /\ clientDxip' = [clientDxip EXCEPT ![n] = "none"]
         /\ dxipNode' = [dxipNode EXCEPT ![clientDxip[n]] = "none"]

\* GetXipParser, 90-109: a client's xip is the first key of
\* dxip_node_map_ (the empty string sorts first), a default xip while the
\* map is empty.  The order of two dispatched dxips is not modelled.
GetXipParser ==
    LET held == {d \in Dxips : dxipNode[d] # "none"}
    IN IF held = {} THEN "default"
       ELSE IF EmptyDxip \in held THEN EmptyDxip
       ELSE CHOOSE d \in held : TRUE

\* DispatchDynamicXip, dynamic_xip_manager.cc 28-40, at peer a.
DispatchDynamicXip(a) == <<a, xipId[a] + 1>>

\* DynamicXipManager::AddClientNode: the peer records the dxip it dispatched.
AddClientNode(a, d) == dyMap' = [dyMap EXCEPT ![a] = @ \cup {d}]

(* HandleBootstrapJoinRequest, 2005-2048, at the owner of address a: the *)
(* response is sent (SendBootstrapJoinResponse, 2050-2109), which for a   *)
(* request with client_msg dispatches a dxip and records it with          *)
(* AddClientNode (dynamic_xip_manager.cc 42-46); then B is added unless   *)
(* the request had client_msg.  A request B sent to its own address       *)
(* reaches B, whose AddNode rejects its own node id.                      *)
HandleBootstrapJoinRequest(a) ==
    LET m == JoinReq(a)
        d == IF m.client THEN DispatchDynamicXip(a) ELSE EmptyDxip
    IN /\ m \in net
       /\ m.client => xipId[a] < MaxDxips
       /\ net' = (net \ {m}) \cup {JoinRes(a, d)}
       /\ xipId' = IF m.client THEN [xipId EXCEPT ![a] = @ + 1] ELSE xipId
       /\ IF m.client THEN AddClientNode(a, d) ELSE UNCHANGED dyMap
       /\ tableA' = IF a \in Boots /\ ~m.client THEN [tableA EXCEPT ![a] = TRUE]
                    ELSE tableA
       /\ UNCHANGED <<joined, afterJoin, tableB, bootNodes, bootAddr, pubEps, mj,
                      lost, drops, shakes, clientDxip, dxipNode, lifeVars>>

(* HandleBootstrapJoinResponse, 2111-2194, at B: in client mode        *)
(* AddDxip(a, dxip), then AddNode(a) (success or kKadNodeHasAdded),       *)
(* bootstrap_nodes_.push_back(a), then SetJoin with the sender's address.  *)
(* B's answer to itself fails AddNode's self-id check after the           *)
(* push_back, and returns before SetJoin.                                 *)
HandleBootstrapJoinResponse(a, d) ==
    /\ JoinRes(a, d) \in net
    /\ net' = net \ {JoinRes(a, d)}
    /\ IF ClientMode THEN AddDxip(a, d) ELSE UNCHANGED <<clientDxip, dxipNode>>
    /\ bootNodes' = bootNodes \cup {a}
    /\ IF a \in Boots
         THEN /\ tableB' = tableB \cup {a}
              /\ SetJoin(a)
         ELSE UNCHANGED <<tableB, joined, afterJoin, bootAddr>>
    /\ UNCHANGED <<tableA, pubEps, mj, lost, drops, shakes, dyMap, xipId, lifeVars>>

(* The response branch of HandleHandshake, 1940-1964, for a virtual node *)
(* v: AddNode(v), then "if (!joined_) SetJoin(...)" with the handshake's  *)
(* public ip:port, which is B's own.                                      *)
HandleHandshakeResponse(v) ==
    /\ shakes < MaxShakes
    /\ shakes' = shakes + 1
    /\ tableB' = tableB \cup {v}
    /\ SetJoin(SelfAddr)
    /\ UNCHANGED <<tableA, bootNodes, pubEps, net, mj, lost, drops, dxVars, lifeVars>>

(* OnHeartbeatFailed(ip, port), 1827-1851: every entry of B's table with *)
(* that public address is dropped (DropNode, 889-932, which also calls   *)
(* DropDxip with the node's id).  The address is a bootstrap peer's or    *)
(* B's own, which all virtual nodes share; no dxip is held under a        *)
(* virtual node's id.                                                      *)
AddrEntries(e) == IF e \in Boots THEN {e} ELSE Virtuals

\* HeartbeatManagerIntf::OnHeartbeatCallback and HeartbeatManager::
\* OnHeartbeatFailed (heartbeat_manager.cc 16-32): the transport reports a
\* dead ip:port, and every table RoutingTable::Init registered (line 151)
\* is called with it under mutex_; B's table is the one modelled.
HeartbeatFailures == Boots \cup {SelfAddr}

OnHeartbeatFailed(e) ==
    /\ tableB \cap AddrEntries(e) # {}
    /\ drops < MaxDrops
    /\ drops' = drops + 1
    /\ tableB' = tableB \ AddrEntries(e)
    /\ IF e \in Boots THEN DropDxip(e) ELSE UNCHANGED <<clientDxip, dxipNode>>
    /\ UNCHANGED <<joined, afterJoin, tableA, bootNodes, bootAddr, pubEps, net, mj, lost,
                   shakes, dyMap, xipId, lifeVars>>

(* DumpPublicEndpoints, bootstrap_cache_helper.cc 264-291, every         *)
(* kDumpBootstrapPeriod: public_endpoints_ is rebuilt from the            *)
(* get_public_nodes lambda of StartBootstrapCacheSaver (2367-2393): the   *)
(* public entries of nodes_ and, once SetJoin set it, bootstrap_ip_.      *)
(* Bootstrap peers are public; virtual nodes carry B's nat type and        *)
(* address.  SetCache is a no-op (bootstrap_cache.cc 111-130).            *)
PublicNodeAddrs ==
    {x \in tableB : x \in Boots} \cup
    (IF SelfPublic /\ tableB \cap Virtuals # {} THEN {SelfAddr} ELSE {}) \cup
    (IF bootAddr = "none" THEN {} ELSE {bootAddr})

\* BootstrapCacheManager::SetCache (bootstrap_cache.cc 110-131): the ledger
\* write is commented out, so the call succeeds and stores nothing, and
\* StoredEndpoints stays empty.
SetCache(eps) == TRUE

DumpPublicEndpoints ==
    /\ helperOn
    /\ pubEps' = PublicNodeAddrs
    /\ PublicNodeAddrs # {} => SetCache(PublicNodeAddrs)
    /\ UNCHANGED <<joined, afterJoin, tableB, tableA, bootNodes, bootAddr, net, mj,
                   lost, drops, shakes, dxVars, lifeVars>>

(* UnInit, 217-243, called once by the owner of B: TellNeighborsDropAllNode *)
(* returns at its first line (1805-1812); destroy_ is set, the routing     *)
(* timers are released, and BootstrapCacheHelper::Stop (bootstrap_cache_   *)
(* helper.cc 68-93) clears inited_ and joins the dump timer.  Nothing is   *)
(* unregistered: the message handlers, the heartbeat callback and a        *)
(* MultiJoin in progress go on.                                            *)
TellNeighborsDropAllNode == TRUE

BootstrapCacheHelperStop == helperOn' = FALSE

UnInit ==
    /\ ~destroyed
    /\ TellNeighborsDropAllNode
    /\ destroyed' = TRUE
    /\ BootstrapCacheHelperStop
    /\ UNCHANGED <<joined, afterJoin, tableB, tableA, bootNodes, bootAddr, pubEps, net, mj,
                   lost, drops, shakes, dxVars>>

\* An uninitialised B may have nothing left to do.
Halted == destroyed /\ UNCHANGED vars

Lose(msg) ==
    /\ msg \in net
    /\ lost < MaxLoss
    /\ lost' = lost + 1
    /\ net' = net \ {msg}
    /\ UNCHANGED <<joined, afterJoin, tableB, tableA, bootNodes, bootAddr, pubEps, mj, drops, shakes, dxVars, lifeVars>>

-----------------------------------------------------------------------------

Next ==
    \/ \E t \in JoinThreads :
          \/ MultiJoinStart(t) \/ MultiJoinSend(t) \/ MultiJoinWake(t)
          \/ MultiJoinTimeout(t) \/ MultiJoinCheck(t)
    \/ MultiJoinAsync
    \/ Rejoin
    \/ \E a \in Addrs : HandleBootstrapJoinRequest(a)
    \/ \E a \in Addrs, d \in Dxips : HandleBootstrapJoinResponse(a, d)
    \/ DumpPublicEndpoints
    \/ \E v \in Virtuals : HandleHandshakeResponse(v)
    \/ \E e \in HeartbeatFailures : OnHeartbeatFailed(e)
    \/ UnInit \/ Halted
    \/ \E msg \in Msgs : Lose(msg)

\* MultiJoin's steps are code that runs on; wait_for times out after
\* wait_time seconds; the rejoin timer fires every 3 s; workers handle
\* every datagram that is not lost.  Drops, losses and handshakes from
\* virtual nodes are the environment and need not happen.
Fairness ==
    /\ \A t \in JoinThreads :
          /\ WF_vars(MultiJoinStart(t)) /\ WF_vars(MultiJoinSend(t))
          /\ WF_vars(MultiJoinWake(t)) /\ WF_vars(MultiJoinTimeout(t))
          /\ WF_vars(MultiJoinCheck(t))
    /\ WF_vars(Rejoin)
    /\ WF_vars(DumpPublicEndpoints)
    /\ \A a \in Addrs : WF_vars(HandleBootstrapJoinRequest(a))
    /\ \A a \in Addrs, d \in Dxips : WF_vars(HandleBootstrapJoinResponse(a, d))

Spec == Init /\ [][Next]_vars /\ Fairness

-----------------------------------------------------------------------------

TypeOK ==
    /\ joined \in BOOLEAN /\ afterJoin \in BOOLEAN
    /\ tableB \subseteq Boots \cup Virtuals
    /\ tableA \in [Boots -> BOOLEAN]
    /\ bootNodes \subseteq Addrs
    /\ bootAddr \in Addrs \cup {"none"}
    /\ pubEps \subseteq Addrs
    /\ net \subseteq Msgs
    /\ \A t \in JoinThreads :
          /\ mj[t].pc \in {"idle", "start", "send", "wait", "check"}
          /\ mj[t].retried \in 0..(JoinRetryTimes + 1)
          /\ mj[t].wait \in FirstWait..MaxWait
          /\ mj[t].eps \subseteq Addrs
    /\ lost \in 0..MaxLoss /\ drops \in 0..MaxDrops /\ shakes \in 0..MaxShakes
    /\ clientDxip \in [Addrs -> Dxips \cup {"none"}]
    /\ dxipNode \in [Dxips -> Addrs \cup {"none"}]
    /\ dyMap \in [Addrs -> SUBSET Dxips] /\ xipId \in [Addrs -> 0..MaxDxips]
    /\ destroyed \in BOOLEAN /\ helperOn \in BOOLEAN

\* B has no real peer: no bootstrap peer is in its table.
Isolated == tableB \cap Boots = {}

\* The join state of B as JoinState sees it: joined_, the bootstrap peers
\* in nodes_ (virtual nodes are no live peer) and bootstrap_ip_.
JS == INSTANCE JoinState
          WITH Peers <- Boots, Endpoints <- Addrs,
               joined <- joined, live <- tableB \cap Boots, boot <- bootAddr

\* RoutingTable implements the join state of spec.md 4.2: the first
\* SetJoin wins and fixes bootstrap_ip_ until B is unjoined again (the
\* joined_ test of SetJoin, 355-372, against every handler that calls
\* it), and Joined -> Unjoined happens only when the live node set is
\* observed empty: Rejoin's check of nodes_ and SetUnJoin happen under
\* nodes_mutex_, so a bootstrap response adding a peer cannot slip in
\* between.
ImplementsJoinState == JS!Spec

\* A node without real peers eventually has one again (spec.md 4.2: Rejoin
\* "re-runs MultiJoin against a cached bootstrap endpoint set unioned with
\* previously-successful bootstrap nodes", and MultiJoin retries forever
\* "since the network depends on eventual connectivity"), for as long as
\* the table is not uninitialised.
IsolationEnds == Isolated ~> (~Isolated \/ destroyed)

\* A real bootstrap peer B has had a BootstrapJoinResponse from.
KnowsBootPeer == bootNodes \cap Boots # {}

\* An isolated node that once had a bootstrap response reconnects: Rejoin
\* clears joined_ on an empty or all-virtual table and its MultiJoin,
\* given bootstrap_nodes_, retries the peer over lost requests and
\* heartbeat drops, until UnInit stops the rejoin timer.
IsolationEndsWithBootPeer == Isolated /\ KnowsBootPeer ~> (~Isolated \/ destroyed)

\* Every MultiJoin call, the application's and Rejoin's, that was given a
\* real bootstrap peer returns.
MultiJoinReturns ==
    \A t \in JoinThreads :
        mj[t].pc # "idle" /\ mj[t].eps \cap Boots # {} ~> mj[t].pc = "idle"

\* A client that has a real peer addresses itself with a dynamic xip one
\* of its peers dispatched to it (spec.md section 3: client nodes "are assigned
\* ephemeral overlay addresses by a bootstrap node"; the bootstrap-join
\* exchange of Bootstrap, SendBootstrapJoinResponse and
\* HandleBootstrapJoinResponse is where the assignment happens).
ClientAddressed ==
    ClientMode /\ ~Isolated => GetXipParser \in UNION {dyMap[a] : a \in Boots}

=============================================================================
