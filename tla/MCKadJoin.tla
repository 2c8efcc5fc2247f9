------------------------------ MODULE MCKadJoin ------------------------------
(* One joining node, one bootstrap peer a1 and one virtual node v1.       *)
EXTENDS KadJoin

CONSTANTS a1, v1

MCBoots == {a1}
MCVirtuals == {v1}
=============================================================================
