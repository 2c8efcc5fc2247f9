---------------------------- MODULE MCKadLookup ----------------------------
(* Three joined nodes: the seed f and a with public addresses, c behind a  *)
(* cone NAT.  Two-byte ids: a and c differ only in the second byte, and    *)
(* from a, f is at a first-byte distance with its top bit set, which a     *)
(* signed byte compare would take for the nearer one.                      *)
EXTENDS KadLookup, TLC

CONSTANTS f, a, c

MCNodes == {f, a, c}
MCNatType == (f :> "public" @@ a :> "public" @@ c :> "cone")
MCId == (f :> <<16, 0>> @@ a :> <<200, 1>> @@ c :> <<200, 0>>)
MCAddr == [n \in MCNodes |-> n]
\* the node ids and ids no node holds, on either side of them
MCTargets == {MCId[n] : n \in MCNodes} \cup {<<0, 0>>, <<200, 128>>, <<255, 255>>, <<128, 7>>}

====
