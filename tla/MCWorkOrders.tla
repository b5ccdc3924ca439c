---------------------------- MODULE MCWorkOrders ----------------------------
(* Instances of WorkOrders for TLC.  gate is the merge gate, dev an agent  *)
(* of the reviewed lane who owns only the server repo, solo self-managed.  *)
EXTENDS WorkOrders, TLC

CONSTANTS o1, o2, gate, dev, solo, human, server, d1, d2

MCOwns == [a \in Agents |-> IF a = dev THEN {server} ELSE {}]
MCRepoOf == [o \in Orders |-> IF o = o1 THEN server ELSE None]

(* Deliveries are only compared with one another.                         *)
DeliverySymmetry == Permutations(Deliveries)
=============================================================================
