---------------------------- MODULE MCNatDetect ----------------------------
(***************************************************************************)
(* Model for NatDetect: the node and one boot peer; the node's NAT is any *)
(* of public, cone and symmetric.                                         *)
(***************************************************************************)
EXTENDS NatDetect

CONSTANTS n, b1

MCBoots == {b1}
MCNatKinds == {"public", "cone", "symmetric"}
MCCone == {"cone"}
=============================================================================
