---------------------------- MODULE NodeDetection ----------------------------
(***************************************************************************)
(* NodeDetectionManager (src/src/node_detection_manager.cc) of a few      *)
(* peers, together with the handshake handler of the routing table that   *)
(* feeds it (RoutingTable::HandleHandshake and HandleConnectRequest,       *)
(* src/src/routing_table.cc).                                              *)
(*                                                                         *)
(* Each peer keeps detection_nodes_map_, keyed by the candidate's public  *)
(* ip:port, with a delay and a probe count per entry.  Its 600 ms timer   *)
(* runs DoTetection under the map's mutex: it ticks down the delay, then  *)
(* sends one handshake request per tick until kDetectionTimes have gone   *)
(* out, and erases the entry on the tick after that.  A handshake request *)
(* makes the receiver start detecting the sender (if CanAddNode) and      *)
(* answer; a handshake response removes the detection entry and admits    *)
(* the sender with AddNode.  Handshakes go over UDP (SendPing) and may be  *)
(* lost.  Each peer is a model value standing for its ip:port key and its *)
(* node id; routing-table admission is abstracted to the HasNode check.   *)
(***************************************************************************)
EXTENDS Naturals

CONSTANTS
    Peers,           \* peers, each with one public ip:port
    ConeAbnormal,    \* peers whose nat_type is kNatTypeConeAbnormal
    DetectionTimes,  \* kDetectionTimes (routing_utils.h)
    ConeDelay,       \* detection_delay_count given to ConeAbnormal peers
    MaxConnects,     \* bound on connect requests / find-node results
    MaxLoss,         \* bound on datagrams lost in the network
    MaxDrops         \* bound on heartbeat drops from the routing table

VARIABLES
    pend,      \* pend[n]: keys in n's detection_nodes_map_
    delay,     \* delay[n][m]: detection_delay_count of n's entry for m
    count,     \* count[n][m]: detection_count of n's entry for m
    table,     \* table[n]: peers in n's routing table
    destroy,   \* destroy[n]: NodeDetectionManager::destroy_
    net,       \* handshake datagrams in flight (identical ones coalesce)
    waited,    \* waited[n][m]: timer ticks since n inserted m, up to ConeDelay+1
    connects, lost, drops   \* how much of each bound is used

vars == <<pend, delay, count, table, destroy, net, waited,
          connects, lost, drops>>

\* kKadHandshake, dispatched to HandleHandshake (kad_message_handler.cc
\* 47-51), with its type field Request or Response.
Msg == [type : {"request", "response"}, from : Peers, to : Peers]

Request(n, m) == [type |-> "request", from |-> n, to |-> m]
Response(n, m) == [type |-> "response", from |-> n, to |-> m]

Init ==
    /\ pend = [n \in Peers |-> {}]
    /\ delay = [n \in Peers |-> [m \in Peers |-> 0]]
    /\ count = [n \in Peers |-> [m \in Peers |-> 0]]
    /\ table = [n \in Peers |-> {}]
    /\ destroy = [n \in Peers |-> FALSE]
    /\ net = {}
    /\ waited = [n \in Peers |-> [m \in Peers |-> 0]]
    /\ connects = 0 /\ lost = 0 /\ drops = 0

-----------------------------------------------------------------------------
(* AddDetectionNode, 70-90: nothing after Join; the delay is 3 for a      *)
(* ConeAbnormal candidate, else 0; map insert fails for a key present.    *)
(* A fresh NodeInfo has detection_count 0.                                *)
AddDetectionNode(n, m) ==
    IF destroy[n] \/ m \in pend[n]
      THEN UNCHANGED <<pend, delay, count, waited>>
      ELSE /\ pend' = [pend EXCEPT ![n] = @ \cup {m}]
           /\ delay' = [delay EXCEPT ![n][m] =
                          IF m \in ConeAbnormal THEN ConeDelay ELSE 0]
           /\ count' = [count EXCEPT ![n][m] = 0]
           /\ waited' = [waited EXCEPT ![n][m] = 0]

\* CanAddNode, routing_table.cc 849-877, reduced to its HasNode check.
CanAddNode(n, m) == m \notin table[n]

(* HandleConnectRequest, 1866-1898, and the NAT branch of                *)
(* HandleFindNodesResponse, 1699-1722: a candidate behind NAT is handed  *)
(* to detection, unless both ends are ConeAbnormal.                      *)
ConnectRequest(n, m) ==
    /\ connects < MaxConnects
    /\ ~(n \in ConeAbnormal /\ m \in ConeAbnormal)
    /\ AddDetectionNode(n, m)
    /\ connects' = connects + 1
    /\ UNCHANGED <<table, destroy, net, lost, drops>>

(* DoTetection, 160-188, one timer tick of peer n: the whole loop runs   *)
(* under detection_nodes_map_mutex_.  An entry with a delay counts it    *)
(* down and is skipped; one with kDetectionTimes probes is erased; any   *)
(* other gets a Handshake (101-158, a SendPing of a request to its       *)
(* public ip:port) and its count is incremented.  A tick of an empty map *)
(* or after Join changes nothing and is left out.                        *)
Probed(n) ==
    {m \in pend[n] : delay[n][m] = 0 /\ count[n][m] < DetectionTimes}

Expiring(n) ==
    {m \in pend[n] : delay[n][m] = 0 /\ count[n][m] >= DetectionTimes}

\* The ghost waited counts the ticks an entry has seen.
Tick(n) ==
    waited' = [waited EXCEPT ![n] =
                 [m \in Peers |-> IF m \in pend[n] /\ @[m] <= ConeDelay
                                    THEN @[m] + 1 ELSE @[m]]]

ProbeAll(n, probed) ==
    net' = net \cup {Request(n, m) : m \in probed}

\* Mutation of DoTetection: the delay is never counted down.
DoTetectionNoDelayTick(n) ==
    /\ ~destroy[n]
    /\ pend[n] # {}
    /\ pend' = [pend EXCEPT ![n] = @ \ Expiring(n)]
    /\ count' = [count EXCEPT ![n] =
                   [m \in Peers |-> IF m \in Probed(n) THEN @[m] + 1 ELSE @[m]]]
    /\ ProbeAll(n, Probed(n)) /\ Tick(n)
    /\ UNCHANGED <<delay, table, destroy, connects, lost, drops>>

\* Mutation of DoTetection: the entry is erased only once count exceeds
\* kDetectionTimes.
DoTetectionOffByOne(n) ==
    LET probed == {m \in pend[n] : delay[n][m] = 0 /\ count[n][m] <= DetectionTimes}
        expiring == {m \in pend[n] : delay[n][m] = 0 /\ count[n][m] > DetectionTimes}
    IN
    /\ ~destroy[n]
    /\ pend[n] # {}
    /\ delay' = [delay EXCEPT ![n] =
                   [m \in Peers |-> IF m \in pend[n] /\ @[m] > 0 THEN @[m] - 1 ELSE @[m]]]
    /\ pend' = [pend EXCEPT ![n] = @ \ expiring]
    /\ count' = [count EXCEPT ![n] =
                   [m \in Peers |-> IF m \in probed THEN @[m] + 1 ELSE @[m]]]
    /\ ProbeAll(n, probed) /\ Tick(n)
    /\ UNCHANGED <<table, destroy, connects, lost, drops>>

\* Mutation of DoTetection: no "continue" after the decrement, so the
\* tick that brings the delay to zero also probes.
DoTetectionNoContinue(n) ==
    LET probed == {m \in pend[n] : delay[n][m] <= 1 /\ count[n][m] < DetectionTimes}
    IN
    /\ ~destroy[n]
    /\ pend[n] # {}
    /\ delay' = [delay EXCEPT ![n] =
                   [m \in Peers |-> IF m \in pend[n] /\ @[m] > 0 THEN @[m] - 1 ELSE @[m]]]
    /\ pend' = [pend EXCEPT ![n] = @ \ Expiring(n)]
    /\ count' = [count EXCEPT ![n] =
                   [m \in Peers |-> IF m \in probed THEN @[m] + 1 ELSE @[m]]]
    /\ ProbeAll(n, probed) /\ Tick(n)
    /\ UNCHANGED <<table, destroy, connects, lost, drops>>

DoTetection(n) ==
    /\ ~destroy[n]
    /\ pend[n] # {}
    /\ delay' = [delay EXCEPT ![n] =
                   [m \in Peers |-> IF m \in pend[n] /\ @[m] > 0 THEN @[m] - 1 ELSE @[m]]]
    /\ pend' = [pend EXCEPT ![n] = @ \ Expiring(n)]
    /\ count' = [count EXCEPT ![n] =
                   [m \in Peers |-> IF m \in Probed(n) THEN @[m] + 1 ELSE @[m]]]
    /\ ProbeAll(n, Probed(n)) /\ Tick(n)
    /\ UNCHANGED <<table, destroy, connects, lost, drops>>

(* HandleHandshake, 1900-1998, request branch: start detecting the      *)
(* sender if CanAddNode, then answer with a handshake response.         *)
HandleHandshakeRequest(n, m) ==
    /\ Request(m, n) \in net
    /\ IF CanAddNode(n, m)
         THEN AddDetectionNode(n, m)
         ELSE UNCHANGED <<pend, delay, count, waited>>
    /\ net' = (net \ {Request(m, n)}) \cup {Response(n, m)}
    /\ UNCHANGED <<table, destroy, connects, lost, drops>>

(* HandleHandshake, response branch, 1940-1965: RemoveDetection (92-99)  *)
(* of the sender's key, then AddNode of the sender.  SetJoin is modelled *)
(* with the join protocol.                                               *)
\* Mutation of HandleHandshakeResponse: the sender is not admitted (as if
\* every response carried client_msg).
HandleHandshakeResponseNoAdd(n, m) ==
    /\ Response(m, n) \in net
    /\ pend' = [pend EXCEPT ![n] = @ \ {m}]
    /\ net' = net \ {Response(m, n)}
    /\ UNCHANGED <<delay, count, table, destroy, waited, connects, lost, drops>>

\* RemoveDetection(ip, port), 92-100: the entry under m's address key is
\* erased from detection_nodes_map_ if there is one.
RemoveDetection(n, m) == pend' = [pend EXCEPT ![n] = @ \ {m}]

HandleHandshakeResponse(n, m) ==
    /\ Response(m, n) \in net
    /\ RemoveDetection(n, m)
    /\ table' = [table EXCEPT ![n] = @ \cup {m}]
    /\ net' = net \ {Response(m, n)}
    /\ UNCHANGED <<delay, count, destroy, waited, connects, lost, drops>>

\* SendPing is a UDP datagram: it may be lost.
Lose(msg) ==
    /\ lost < MaxLoss
    /\ msg \in net
    /\ net' = net \ {msg}
    /\ lost' = lost + 1
    /\ UNCHANGED <<pend, delay, count, table, destroy, waited, connects, drops>>

\* The routing table drops m after a heartbeat failure (KadRoutingTable).
HeartbeatDrop(n, m) ==
    /\ drops < MaxDrops
    /\ m \in table[n]
    /\ table' = [table EXCEPT ![n] = @ \ {m}]
    /\ drops' = drops + 1
    /\ UNCHANGED <<pend, delay, count, destroy, net, waited, connects, lost>>

\* Join, 45-56: destroy_ is set and the map cleared.
Join(n) ==
    /\ ~destroy[n]
    /\ destroy' = [destroy EXCEPT ![n] = TRUE]
    /\ pend' = [pend EXCEPT ![n] = {}]
    /\ UNCHANGED <<delay, count, table, net, waited, connects, lost, drops>>

-----------------------------------------------------------------------------

Next ==
    \/ \E n, m \in Peers : n # m /\
          \/ ConnectRequest(n, m)
          \/ HandleHandshakeRequest(n, m)
          \/ HandleHandshakeResponse(n, m)
          \/ HeartbeatDrop(n, m)
    \/ \E n \in Peers : DoTetection(n) \/ Join(n)
    \/ \E msg \in net : Lose(msg)

\* The TimerRepeated fires every 600 ms, and the worker threads handle
\* every datagram that arrives; arrival itself is not assumed.
Fairness ==
    /\ \A n \in Peers : WF_vars(DoTetection(n))
    /\ \A n, m \in Peers :
          /\ WF_vars(HandleHandshakeRequest(n, m))
          /\ WF_vars(HandleHandshakeResponse(n, m))

Spec == Init /\ [][Next]_vars /\ Fairness

-----------------------------------------------------------------------------

\* count stays within 0..kDetectionTimes: this is the budget of "up to
\* kDetectionTimes probes" per entry (spec.md 4.3).
TypeOK ==
    /\ pend \in [Peers -> SUBSET Peers]
    /\ delay \in [Peers -> [Peers -> 0..ConeDelay]]
    /\ count \in [Peers -> [Peers -> 0..DetectionTimes]]
    /\ table \in [Peers -> SUBSET Peers]
    /\ destroy \in [Peers -> BOOLEAN]
    /\ net \subseteq Msg
    /\ waited \in [Peers -> [Peers -> 0..ConeDelay + 1]]

\* The grace period of a ConeAbnormal candidate (spec.md 4.3): n sends
\* no handshake to such a candidate before its entry has seen ConeDelay
\* timer ticks without a probe, whatever connect requests and handshakes
\* insert, remove and re-insert the entry in between.
ConeDelayHonoured ==
    \A n \in Peers, m \in ConeAbnormal :
        m \in pend[n] /\ count[n][m] > 0 => waited[n][m] > ConeDelay

\* Every detection entry leaves the map: DoTetection counts the delay
\* down, probes kDetectionTimes times and erases the entry, unless a
\* response removes it first.
DetectionEnds ==
    \A n, m \in Peers : m \in pend[n] ~> m \notin pend[n]

\* The mutual handshakes settle: once connect requests, losses and drops
\* stop, the two peers' detections and answers to each other do not go on
\* forever, because a response admits its sender and a request from an
\* admitted peer starts no new detection.
HandshakesSettle ==
    <>[](net = {} /\ \A n \in Peers : pend[n] = {})

=============================================================================
