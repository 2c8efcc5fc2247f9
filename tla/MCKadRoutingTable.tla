------------------------- MODULE MCKadRoutingTable -------------------------
(***************************************************************************)
(* Model for KadRoutingTable.  Peer records:                               *)
(*   ca, cb  two nodes behind one endpoint e1, same k-bucket               *)
(*   cc      a third node of that bucket, at e2                           *)
(*   cd      node n1 again, reached at endpoint e2                        *)
(*   cv      a virtual node of the local process: HandleFindNodesResponse *)
(*           gives it the local global_xid, so its hash64 is the local one *)
(*   cs      a record carrying the local node id                          *)
(*   cx      a record of node n1 with nat_type Unknown                    *)
(* K = 2 makes the shared bucket overflow with three nodes.               *)
(***************************************************************************)
EXTENDS KadRoutingTable

CONSTANTS ca, cb, cc, cd, cv, cs, cx, w1, w2, hb

MCWorkers1 == {w1}
MCWorkers2 == {w1, w2}
MCCands == {ca, cb, cc, cd, cv, cs, cx}

\* The heartbeat failure delivered on the single worker: one handler at a
\* time, the way the unit tests drive the table.
MCHbSequential == w1

MCNodeId == (ca :> "n1" @@ cb :> "n2" @@ cc :> "n3" @@ cd :> "n1" @@ cv :> "n4"
             @@ cs :> "self" @@ cx :> "n1")
MCHash   == (ca :> "h1" @@ cb :> "h2" @@ cc :> "h3" @@ cd :> "h1" @@ cv :> "hself"
             @@ cs :> "hs" @@ cx :> "h1")
MCEp     == (ca :> "e1" @@ cb :> "e1" @@ cc :> "e2" @@ cd :> "e2" @@ cv :> "e0"
             @@ cs :> "e0" @@ cx :> "e1")
MCBucket == (ca :> 1 @@ cb :> 1 @@ cc :> 1 @@ cd :> 1 @@ cv :> 2 @@ cs :> 0 @@ cx :> 1)
MCBadCands == {cx}
MCSelfId == "self"
MCSelfHash == "hself"
MCK == 2
=============================================================================
