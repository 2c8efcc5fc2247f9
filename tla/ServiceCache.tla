----------------------------- MODULE ServiceCache -----------------------------
(***************************************************************************)
(* The service public-node cache of BootstrapCacheHelper                   *)
(* (src/src/bootstrap_cache_helper.cc), spec.md 4.6: on a root-level node  *)
(* it keeps, per tracked service type, a rolling vector of public nodes   *)
(* that a caller-supplied function (get_service_public_nodes_) returns.   *)
(*                                                                         *)
(* Threads: the application calls SetCacheServiceType and                 *)
(* GetCacheServicePublicNodes; the timer thread runs                       *)
(* RepeatCacheServicePublicNodes every kCacheServiceBootstrapPeriod.  The *)
(* timer's refresh checks cache_service_types_ under its mutex, calls the *)
(* function with no lock held, and appends under                          *)
(* service_public_nodes_mutex_, so it is split at the call.               *)
(*                                                                         *)
(* A vector is abstracted to its length: the refresh appends a whole      *)
(* batch at the end and erases from the front, and only how many entries  *)
(* it holds is asked of it.  A batch is the number of nodes the function  *)
(* returns, any number up to FetchMax.                                     *)
(***************************************************************************)
EXTENDS Naturals

CONSTANTS
    Types,          \* service types the application may track or ask for
    IsRoot,         \* kad_key->xnetwork_id() == kRoot, with a function given
    CacheSize,      \* kCacheServiceNodesSize = 8
    DeleteSize,     \* kCacheServiceNodesDeleteSize = 4
    FetchMax,       \* most nodes one call of get_service_public_nodes_ returns
    MaxRounds,      \* bound on refreshes and fetches
    Absent          \* no entry in service_public_nodes_

VARIABLES
    inited,         \* inited_
    hasFetch,       \* get_service_public_nodes_ is set
    timerOn,        \* timer_Cache_Service_public_endpoints_ is running
    types,          \* cache_service_types_
    cache,          \* service_public_nodes_: type -> vector length, or Absent
    tpc,            \* the timer thread: "idle", or the type it is fetching for
    rounds

vars == <<inited, hasFetch, timerOn, types, cache, tpc, rounds>>

Batches == 1..FetchMax

\* BootstrapCacheHelper(timer_manager): nothing started, nothing cached.
Init ==
    /\ inited = FALSE
    /\ hasFetch = FALSE
    /\ timerOn = FALSE
    /\ types = {}
    /\ cache = [t \in Types |-> Absent]
    /\ tpc = "idle"
    /\ rounds = 0

\* The service branch of Start: only a root table keeps the function and
\* starts the 3 s refresh timer; a second Start returns at inited_.
Start ==
    /\ ~inited
    /\ inited' = TRUE
    /\ hasFetch' = IsRoot
    /\ timerOn' = IsRoot
    /\ UNCHANGED <<types, cache, tpc, rounds>>

\* Stop: clears inited_, joins the timers (so a refresh in progress ends
\* first) and drops the function.
Stop ==
    /\ inited
    /\ tpc = "idle"
    /\ inited' = FALSE
    /\ timerOn' = FALSE
    /\ hasFetch' = FALSE
    /\ UNCHANGED <<types, cache, tpc, rounds>>

SetCacheServiceType(t) ==
    /\ types' = types \cup {t}
    /\ UNCHANGED <<inited, hasFetch, timerOn, cache, tpc, rounds>>

\* The types GetRandomCacheServiceType may pick (a random index into
\* cache_service_types_); none without the function or a tracked type.
GetRandomCacheServiceType == IF hasFetch THEN types ELSE {}

\* The timer fires: RepeatCacheServicePublicNodes picks a type, and
\* CacheServicePublicNodes re-checks it is tracked and calls the function
\* with no lock held.
RepeatCacheServicePublicNodes(t) ==
    /\ timerOn
    /\ tpc = "idle"
    /\ rounds < MaxRounds
    /\ t \in GetRandomCacheServiceType
    /\ tpc' = t
    /\ UNCHANGED <<inited, hasFetch, timerOn, types, cache, rounds>>

\* Appending a batch of n, as CacheServicePublicNodes does once the
\* function has returned: the entry is created if missing, the batch goes
\* at the end, and one erase of DeleteSize from the front follows when the
\* vector exceeds CacheSize.
Refreshed(len, n) ==
    LET grown == len + n
    IN IF grown > CacheSize THEN grown - DeleteSize ELSE grown

\* The function's answer arrives: an empty one is dropped, any other is
\* appended under service_public_nodes_mutex_.
CacheServicePublicNodes(n) ==
    /\ tpc \in Types
    /\ LET t == tpc
           len == IF cache[t] = Absent THEN 0 ELSE cache[t]
       IN cache' = IF n = 0 THEN cache ELSE [cache EXCEPT ![t] = Refreshed(len, n)]
    /\ tpc' = "idle"
    /\ rounds' = rounds + 1
    /\ UNCHANGED <<inited, hasFetch, timerOn, types>>

\* GetCacheServicePublicNodes(t), all under service_public_nodes_mutex_:
\* a non-empty vector is answered from; otherwise the entry is created if
\* missing and, with the function set, a batch of n is fetched and
\* appended with no trim.
GetCacheServicePublicNodes(t, n) ==
    /\ rounds < MaxRounds
    /\ cache[t] = Absent \/ cache[t] = 0
    /\ LET len == IF cache[t] = Absent THEN 0 ELSE cache[t]
       IN cache' = [cache EXCEPT ![t] = IF hasFetch THEN len + n ELSE len]
    /\ rounds' = rounds + 1
    /\ UNCHANGED <<inited, hasFetch, timerOn, types, tpc>>

Next ==
    \/ Start \/ Stop
    \/ \E t \in Types : SetCacheServiceType(t) \/ RepeatCacheServicePublicNodes(t)
    \/ \E n \in 0..FetchMax : CacheServicePublicNodes(n)
    \/ \E t \in Types, n \in 0..FetchMax : GetCacheServicePublicNodes(t, n)

Spec == Init /\ [][Next]_vars

-----------------------------------------------------------------------------

TypeOK ==
    /\ inited \in BOOLEAN /\ hasFetch \in BOOLEAN /\ timerOn \in BOOLEAN
    /\ types \subseteq Types
    /\ cache \in [Types -> Nat \cup {Absent}]
    /\ tpc \in Types \cup {"idle"}
    /\ rounds \in 0..MaxRounds

\* The rolling cache keeps its capacity (spec.md 4.6: "capacity 8, evict
\* oldest 4 when exceeded"; the comments on kCacheServiceNodesSize, "keep 8
\* nodes enough", and kCacheServiceNodesDeleteSize): no service type's
\* vector ever holds more than kCacheServiceNodesSize nodes, whatever the
\* refreshes of the timer and the application's fetches return.
CacheBounded ==
    \A t \in Types : cache[t] # Absent => cache[t] <= CacheSize
==============================================================================
