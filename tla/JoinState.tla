------------------------------ MODULE JoinState ------------------------------
(***************************************************************************)
(* What RoutingTable promises about its join state (spec.md 4.2), with    *)
(* the protocol that reaches it left out.  A node is joined or not; the   *)
(* first join wins and records the endpoint it came through (SetJoin's    *)
(* bootstrap_ip_), later joins change nothing; the node leaves the joined *)
(* state only when it has no live real peer.  Which real peers it holds   *)
(* changes by steps of the environment (responses, heartbeat drops).      *)
(***************************************************************************)
CONSTANTS
    Peers,       \* real peers the node may hold
    Endpoints    \* endpoints a join may be recorded through

VARIABLES
    joined,      \* the node counts itself joined
    live,        \* the real peers it holds
    boot         \* endpoint of the join that won ("none" before any)

jsVars == <<joined, live, boot>>

Init ==
    /\ joined = FALSE
    /\ live = {}
    /\ boot = "none"

\* The first join: taken only while unjoined, it records its endpoint.
Join(e) ==
    /\ ~joined
    /\ joined' = TRUE
    /\ boot' = e
    /\ live' \in SUBSET Peers

\* Leaving the joined state needs an empty set of live peers.
Unjoin ==
    /\ joined
    /\ live = {}
    /\ joined' = FALSE
    /\ UNCHANGED <<live, boot>>

\* Peers come and go without touching the join state.
Churn ==
    /\ live' \in SUBSET Peers
    /\ UNCHANGED <<joined, boot>>

Next == (\E e \in Endpoints : Join(e)) \/ Unjoin \/ Churn

Spec == Init /\ [][Next]_jsVars
==============================================================================
