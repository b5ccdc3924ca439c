---------------------------- MODULE MCSessionLock ----------------------------
(* Instances of SessionLock for TLC.                                       *)
EXTENDS SessionLock, TLC

CONSTANTS p1, p2, p3, p4, s1, s2, w1, w2

OwnPid    == [p \in Procs |-> p]
ReusedPid == [p \in Procs |-> IF p = p4 THEN p1 ELSE p]
Interchangeable == Permutations(Procs)

OneEach   == [s \in Sessions |-> IF s = s1 THEN w1 ELSE w2]
=============================================================================
