-------------------------- MODULE MCNodeDetection --------------------------
(***************************************************************************)
(* Model for NodeDetection: two peers, pb behind a ConeAbnormal NAT so    *)
(* that its entries wait out the delay; the real kDetectionTimes (4) and  *)
(* delay (3).  Two connect requests, two lost datagrams and one heartbeat *)
(* drop let entries expire, be answered late and be inserted again.       *)
(***************************************************************************)
EXTENDS NodeDetection

CONSTANTS pa, pb

MCPeers == {pa, pb}
MCConeAbnormal == {pb}
=============================================================================
