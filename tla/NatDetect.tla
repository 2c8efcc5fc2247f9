------------------------------ MODULE NatDetect ------------------------------
(***************************************************************************)
(* NAT classification (src/src/nat_manager.cc, nat_handshake_manager.cc):  *)
(* a node that is not the first node sends NatDetectRequest to its boot    *)
(* peers and waits up to 3 s for nat_type_ to be set.  A boot peer answers *)
(* Public when the node's declared local ip:port is the one it sees;       *)
(* otherwise it answers with its detect port and starts probing the node   *)
(* with Handshake2Node through the node's NAT.  The node, on a non-public  *)
(* answer, probes the boot peer (Handshake2Boot) and arms a 1.5 s timer    *)
(* whose expiry classifies it ConeAbnormal; a Handshake2Node that gets     *)
(* through classifies it ConeNormal.  The first classification wins.       *)
(*                                                                         *)
(* Every party runs a NatManager thread (ThreadProc) draining a bounded    *)
(* message queue and a NatHandshakeManager whose 50 ms timer runs          *)
(* DetectProc: it copies peers_ under the mutex, then walks the copy       *)
(* unlocked, counting down delay_count, sending one handshake per tick     *)
(* while detect_count > 0 and erasing the key once it reaches 0.  The      *)
(* copy shares the NatDetectStruct objects with peers_.  Time is not       *)
(* modelled: timers fire and waits expire at any point.                    *)
(***************************************************************************)
EXTENDS Naturals, Sequences, FiniteSets

CONSTANTS
    Node,         \* the node classifying its NAT
    Boots,        \* its boot peers (first nodes, already Public)
    NatKinds,     \* NATs the node may sit behind: "public", "cone", "symmetric"
    DetectCount,  \* kDetectCount: handshakes per NatDetectStruct
    NodeDelay,    \* delay_count of the node's Handshake2Boot detection
    QueueLimit,   \* MessageQueue drops a message when size() > QueueLimit
    MaxStructs,   \* bound on NatDetectStructs created
    MaxLoss,      \* bound on datagrams lost
    MaxDup,       \* bound on datagrams delivered twice
    MaxFaults,    \* bound on losses and duplicates together
    None

Parties == {Node} \cup Boots
Structs == 1..MaxStructs
\* enum NatType, nat_defines.h 10-15.
NatTypes == {"unknown", "public", "cone_normal", "cone_abnormal"}
\* The five types AddBaseHandlers (kad_message_handler.cc 86-110) hands
\* to PushMessage; a response is told apart by the nat_type it carries.
MsgTypes == {"request", "response_public", "response", "handshake2node",
             "handshake2boot", "finish"}
Msg == [type : MsgTypes, from : Parties, to : Parties]

M(t, f, d) == [type |-> t, from |-> f, to |-> d]

VARIABLES
    kind,      \* the NAT the node sits behind (fixed)
    natType,   \* the node's nat_type_
    mpc,       \* the node's Start/MultiNatDetect: "start", "wait", "finish", "done", "failed"
    toFinish,  \* boot endpoints the finish loop has still to visit
    timer,     \* the node's timer_ is armed
    net,       \* datagrams in flight (identical ones coalesce)
    queue,     \* queue[p]: MessageQueue of party p
    peers,     \* peers[p][k]: the NatDetectStruct in p's peers_ under key k
    sdelay, scount, stype,  \* fields of each NatDetectStruct
    sstate,    \* "free", "in" (in peers_), "done", "removed", "replaced"
    nextS,     \* structs created so far
    dpc,       \* dpc[p]: DetectProc of p is "idle" or walking its copy
    dcopy,     \* dcopy[p]: the copy's entries <<key, struct>> still to visit
    lost, dups

vars == <<kind, natType, mpc, toFinish, timer, net, queue, peers, sdelay,
          scount, stype, sstate, nextS, dpc, dcopy, lost, dups>>

hsVars == <<peers, sdelay, scount, stype, sstate, nextS>>

\* NatHandshakeManager::Start, nat_handshake_manager.cc 75-90, at every
\* party: peers_ cleared and the DetectProc timer started, no walk begun.
HandshakeStart ==
    /\ peers = [p \in Parties |-> [k \in Parties |-> None]]
    /\ dpc = [p \in Parties |-> "idle"]
    /\ dcopy = [p \in Parties |-> {}]

\* NatManager::Start of a node that is not the first node, up to MultiNatDetect.
Init ==
    /\ kind \in NatKinds
    /\ natType = "unknown"
    /\ mpc = "start"
    /\ toFinish = {}
    /\ timer = FALSE
    /\ net = {}
    /\ queue = [p \in Parties |-> <<>>]
    /\ HandshakeStart
    /\ sdelay = [s \in Structs |-> 0]
    /\ scount = [s \in Structs |-> 0]
    /\ stype = [s \in Structs |-> "handshake2node"]
    /\ sstate = [s \in Structs |-> "free"]
    /\ nextS = 0
    /\ lost = 0 /\ dups = 0

-----------------------------------------------------------------------------
(* NatHandshakeManager::AddDetection, 37-60: a new struct with            *)
(* detect_count = kDetectCount replaces whatever is under the key.        *)
AddDetection(p, k, type, delay) ==
    LET s == nextS + 1 IN
    /\ nextS < MaxStructs
    /\ nextS' = s
    /\ peers' = [peers EXCEPT ![p][k] = s]
    /\ sdelay' = [sdelay EXCEPT ![s] = delay]
    /\ scount' = [scount EXCEPT ![s] = DetectCount]
    /\ stype' = [stype EXCEPT ![s] = type]
    /\ sstate' = IF peers[p][k] = None THEN [sstate EXCEPT ![s] = "in"]
                 ELSE [sstate EXCEPT ![s] = "in", ![peers[p][k]] = "replaced"]

\* NatHandshakeManager::RemoveDetection, 62-68.
RemoveDetection(p, k) ==
    /\ peers' = [peers EXCEPT ![p][k] = None]
    /\ sstate' = IF peers[p][k] = None THEN sstate
                 ELSE [sstate EXCEPT ![peers[p][k]] = "removed"]
    /\ UNCHANGED <<sdelay, scount, stype, nextS>>

\* NatManager::SetNatTypeAndNotify, 263-272: only the first one sets.
SetNatTypeAndNotify(t) ==
    natType' = IF natType = "unknown" THEN t ELSE natType

\* Mutation of PushMessage: the limit is compared after one more message.
PushOffByOne(q, msg) == IF Len(q) > QueueLimit + 1 THEN q ELSE Append(q, msg)

\* MessageQueue::PushMessage, 17-28: drop when size() > 1000.
Push(q, msg) == IF Len(q) > QueueLimit THEN q ELSE Append(q, msg)

\* SendNatDetectRequest, 274-307, and SendNatDetectFinish, 309-341: one
\* datagram to the boot peer b; the serialized fields are abstracted away.
SendNatDetectRequest(b) == M("request", Node, b)

SendNatDetectFinish(b) == M("finish", Node, b)

-----------------------------------------------------------------------------
(* MultiNatDetect, 73-116, on the thread that called Start.               *)
StartDetect ==
    /\ mpc = "start"
    /\ net' = net \cup {SendNatDetectRequest(b) : b \in Boots}
    /\ mpc' = "wait"
    /\ UNCHANGED <<kind, natType, toFinish, timer, queue, hsVars, dpc, dcopy, lost, dups>>

\* cond_.wait_for(3 s) returns with the predicate true ...
WaitClassified ==
    /\ mpc = "wait"
    /\ natType # "unknown"
    /\ mpc' = "finish"
    /\ toFinish' = Boots
    /\ UNCHANGED <<kind, natType, timer, net, queue, hsVars, dpc, dcopy, lost, dups>>

\* ... or times out: "nat detect failed", and Start goes on.
WaitTimeout ==
    /\ mpc = "wait"
    /\ natType = "unknown"
    /\ mpc' = "failed"
    /\ UNCHANGED <<kind, natType, toFinish, timer, net, queue, hsVars, dpc, dcopy, lost, dups>>

\* One iteration of the loop at 110-113: SendNatDetectFinish, RemoveDetection.
FinishBoot(b) ==
    /\ mpc = "finish"
    /\ b \in toFinish
    /\ net' = net \cup {SendNatDetectFinish(b)}
    /\ RemoveDetection(Node, b)
    /\ toFinish' = toFinish \ {b}
    /\ mpc' = IF toFinish' = {} THEN "done" ELSE mpc
    /\ UNCHANGED <<kind, natType, timer, queue, dpc, dcopy, lost, dups>>

-----------------------------------------------------------------------------
(* The network.  A Handshake2Node reaches the node only through a cone    *)
(* NAT; other NATs discard it.                                            *)
Deliver(msg) ==
    /\ msg \in net
    /\ net' = net \ {msg}
    /\ queue' = IF msg.type = "handshake2node" /\ kind # "cone" THEN queue
                ELSE [queue EXCEPT ![msg.to] = Push(@, msg)]
    /\ UNCHANGED <<kind, natType, mpc, toFinish, timer, hsVars, dpc, dcopy, lost, dups>>

DeliverTwice(msg) ==
    /\ dups < MaxDup /\ lost + dups < MaxFaults
    /\ msg \in net
    /\ msg.type # "handshake2node" \/ kind = "cone"
    /\ queue' = [queue EXCEPT ![msg.to] = Push(@, msg)]
    /\ dups' = dups + 1
    /\ UNCHANGED <<kind, natType, mpc, toFinish, timer, net, hsVars, dpc, dcopy, lost>>

Lose(msg) ==
    /\ lost < MaxLoss /\ lost + dups < MaxFaults
    /\ msg \in net
    /\ net' = net \ {msg}
    /\ lost' = lost + 1
    /\ UNCHANGED <<kind, natType, mpc, toFinish, timer, queue, hsVars, dpc, dcopy, dups>>

-----------------------------------------------------------------------------
(* ThreadProc, 429-458: the NatManager thread of p takes the head of its  *)
(* queue and runs the handler for its type.                               *)
Pop(p) == queue' = [queue EXCEPT ![p] = Tail(@)]

Head1(p, t) == queue[p] # <<>> /\ Head(queue[p]).type = t

HandleNatDetectRequest(p) ==
    LET n == Head(queue[p]).from IN
    /\ Head1(p, "request")
    /\ Pop(p)
    /\ IF kind = "public"
         THEN /\ net' = net \cup {M("response_public", p, n)}
              /\ UNCHANGED hsVars
         ELSE /\ net' = net \cup {M("response", p, n)}
              /\ AddDetection(p, n, "handshake2node", 0)
    /\ UNCHANGED <<kind, natType, mpc, toFinish, timer, dpc, dcopy, lost, dups>>

(* HandleNatDetectResponse, 197-232: Public is final; otherwise probe the *)
(* boot peer after 500 ms and replace timer_ by a new 1.5 s timeout.      *)
HandleNatDetectResponsePublic(p) ==
    /\ Head1(p, "response_public")
    /\ Pop(p)
    /\ SetNatTypeAndNotify("public")
    /\ UNCHANGED <<kind, mpc, toFinish, timer, net, hsVars, dpc, dcopy, lost, dups>>

\* Mutation of HandleNatDetectResponse: the timeout is never armed.
HandleNatDetectResponseNoTimer(p) ==
    /\ Head1(p, "response")
    /\ Pop(p)
    /\ AddDetection(p, Head(queue[p]).from, "handshake2boot", NodeDelay)
    /\ UNCHANGED <<kind, natType, mpc, toFinish, timer, net, dpc, dcopy, lost, dups>>

HandleNatDetectResponse(p) ==
    /\ Head1(p, "response")
    /\ Pop(p)
    /\ AddDetection(p, Head(queue[p]).from, "handshake2boot", NodeDelay)
    /\ timer' = TRUE
    /\ UNCHANGED <<kind, natType, mpc, toFinish, net, dpc, dcopy, lost, dups>>

\* HandleNatDetectHandshake2Node, 234-243.
HandleNatDetectHandshake2Node(p) ==
    /\ Head1(p, "handshake2node")
    /\ Pop(p)
    /\ SetNatTypeAndNotify("cone_normal")
    /\ UNCHANGED <<kind, mpc, toFinish, timer, net, hsVars, dpc, dcopy, lost, dups>>

\* HandleNatDetectHandshake2Boot, 245-250, only logs.
HandleNatDetectHandshake2Boot(p) ==
    /\ Head1(p, "handshake2boot")
    /\ Pop(p)
    /\ UNCHANGED <<kind, natType, mpc, toFinish, timer, net, hsVars, dpc, dcopy, lost, dups>>

\* HandleNatDetectFinish, 252-261.
HandleNatDetectFinish(p) ==
    /\ Head1(p, "finish")
    /\ Pop(p)
    /\ RemoveDetection(p, Head(queue[p]).from)
    /\ UNCHANGED <<kind, natType, mpc, toFinish, timer, net, dpc, dcopy, lost, dups>>

\* OnTimerNatDetectTimeout, 190-195.
OnTimerNatDetectTimeout ==
    /\ timer
    /\ timer' = FALSE
    /\ SetNatTypeAndNotify("cone_abnormal")
    /\ UNCHANGED <<kind, mpc, toFinish, net, queue, hsVars, dpc, dcopy, lost, dups>>

-----------------------------------------------------------------------------
(* DetectProc, 133-163, on p's 50 ms timer.  The copy of peers_ is taken  *)
(* under the mutex; a copy of an empty map changes nothing and is left    *)
(* out.                                                                   *)
DetectProcCopy(p) ==
    /\ dpc[p] = "idle"
    /\ \E k \in Parties : peers[p][k] # None
    /\ dcopy' = [dcopy EXCEPT ![p] = {<<k, peers[p][k]>> : k \in {x \in Parties : peers[p][x] # None}}]
    /\ dpc' = [dpc EXCEPT ![p] = "loop"]
    /\ UNCHANGED <<kind, natType, mpc, toFinish, timer, net, queue, hsVars, lost, dups>>

(* One iteration over the copy, unlocked: count the delay down, or send   *)
(* one handshake (DoHandshake, 105-131) and decrement detect_count, and   *)
(* at zero erase the key from peers_ under the mutex, whatever struct it  *)
(* holds by now.                                                          *)
\* Mutation of DetectProc: detect_count is not decremented.
DetectProcStepNoDecrement(p, e) ==
    LET k == e[1]
        s == e[2]
    IN
    /\ e \in dcopy[p]
    /\ dcopy' = [dcopy EXCEPT ![p] = @ \ {e}]
    /\ dpc' = [dpc EXCEPT ![p] = IF dcopy'[p] = {} THEN "idle" ELSE "loop"]
    /\ IF sdelay[s] > 0
         THEN /\ sdelay' = [sdelay EXCEPT ![s] = @ - 1]
              /\ UNCHANGED <<net, peers, scount, sstate>>
         ELSE /\ net' = IF scount[s] > 0 THEN net \cup {M(stype[s], p, k)} ELSE net
              /\ UNCHANGED <<sdelay, peers, scount, sstate>>
    /\ UNCHANGED <<kind, natType, mpc, toFinish, timer, queue, stype, nextS, lost, dups>>

DetectProcStep(p, e) ==
    LET k == e[1]
        s == e[2]
        left == IF scount[s] > 0 THEN scount[s] - 1 ELSE scount[s]
    IN
    /\ e \in dcopy[p]
    /\ dcopy' = [dcopy EXCEPT ![p] = @ \ {e}]
    /\ dpc' = [dpc EXCEPT ![p] = IF dcopy'[p] = {} THEN "idle" ELSE "loop"]
    /\ IF sdelay[s] > 0
         THEN /\ sdelay' = [sdelay EXCEPT ![s] = @ - 1]
              /\ UNCHANGED <<net, peers, scount, sstate>>
         ELSE /\ net' = IF scount[s] > 0 THEN net \cup {M(stype[s], p, k)} ELSE net
              /\ scount' = [scount EXCEPT ![s] = left]
              /\ IF left <= 0
                   THEN /\ peers' = [peers EXCEPT ![p][k] = None]
                        /\ sstate' = [sstate EXCEPT ![s] = "done"]
                   ELSE UNCHANGED <<peers, sstate>>
              /\ UNCHANGED sdelay
    /\ UNCHANGED <<kind, natType, mpc, toFinish, timer, queue, stype, nextS, lost, dups>>

-----------------------------------------------------------------------------

Next ==
    \/ StartDetect \/ WaitClassified \/ WaitTimeout
    \/ \E b \in Boots : FinishBoot(b)
    \/ \E msg \in net : Deliver(msg) \/ DeliverTwice(msg) \/ Lose(msg)
    \/ \E p \in Parties :
          \/ HandleNatDetectRequest(p) \/ HandleNatDetectResponsePublic(p)
          \/ HandleNatDetectResponse(p) \/ HandleNatDetectHandshake2Node(p)
          \/ HandleNatDetectHandshake2Boot(p) \/ HandleNatDetectFinish(p)
          \/ DetectProcCopy(p)
          \/ \E e \in dcopy[p] : DetectProcStep(p, e)
    \/ OnTimerNatDetectTimeout

\* The calling thread, each NatManager thread and each timer run their
\* code to completion (the 3 s wait_for always returns); the network
\* delivers what it does not lose.
Fairness ==
    /\ WF_vars(StartDetect) /\ WF_vars(WaitClassified \/ WaitTimeout)
    /\ WF_vars(\E b \in Boots : FinishBoot(b))
    /\ WF_vars(OnTimerNatDetectTimeout)
    /\ \A msg \in Msg : WF_vars(Deliver(msg))
    /\ \A p \in Parties :
          /\ WF_vars(HandleNatDetectRequest(p) \/ HandleNatDetectResponsePublic(p)
                     \/ HandleNatDetectResponse(p) \/ HandleNatDetectHandshake2Node(p)
                     \/ HandleNatDetectHandshake2Boot(p) \/ HandleNatDetectFinish(p))
          /\ WF_vars(DetectProcCopy(p))
          /\ WF_vars(\E e \in dcopy[p] : DetectProcStep(p, e))

Spec == Init /\ [][Next]_vars /\ Fairness

-----------------------------------------------------------------------------

\* The queue holds at most QueueLimit + 1 messages: PushMessage compares
\* size() > 1000 before appending, so the queue holds 1001.
TypeOK ==
    /\ kind \in NatKinds /\ natType \in NatTypes
    /\ mpc \in {"start", "wait", "finish", "done", "failed"}
    /\ toFinish \subseteq Boots /\ timer \in BOOLEAN
    /\ net \subseteq Msg
    /\ \A p \in Parties : queue[p] \in Seq(Msg) /\ Len(queue[p]) <= QueueLimit + 1
    /\ peers \in [Parties -> [Parties -> Structs \cup {None}]]
    /\ sdelay \in [Structs -> Nat] /\ scount \in [Structs -> 0..DetectCount]
    /\ sstate \in [Structs -> {"free", "in", "done", "removed", "replaced"}]
    /\ nextS \in 0..MaxStructs
    /\ dpc \in [Parties -> {"idle", "loop"}]
    /\ dcopy \in [Parties -> SUBSET (Parties \X Structs)]

\* The classifications a node behind each NAT may end with (spec.md 4.4):
\* Public only when the boot peer saw the declared address, ConeNormal
\* only when the boot peer's unsolicited Handshake2Node got through, and
\* otherwise the ConeAbnormal timeout.
SoundTypes(k) ==
    CASE k = "public"    -> {"public"}
      [] k = "cone"      -> {"cone_normal", "cone_abnormal"}
      [] k = "symmetric" -> {"cone_abnormal"}

PeersBusy == \E p, k \in Parties : peers[p][k] # None
PeersDrain == PeersBusy ~> ~PeersBusy

\* A struct leaves peers_ only by running out, by RemoveDetection or by
\* being replaced ("overlap old one"): the detection that AddDetection
\* put under a key is the one peers_ holds until then.
EntryAccounted ==
    {s \in Structs : sstate[s] = "in"} =
        {peers[p][k] : p, k \in Parties} \ {None}

\* The node's NAT gets classified (spec.md 4.4: WaitingForResponse leads
\* to Public, ConeNormal or, after the timeout, ConeAbnormal) when no
\* datagram is lost: nothing resends a lost NatDetect datagram, so a loss
\* may leave the node unknown for good.
EventuallyClassified ==
    [](lost = 0) => <>(natType # "unknown")

=============================================================================
