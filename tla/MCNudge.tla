------------------------------ MODULE MCNudge ------------------------------
(* Instances of Nudge for TLC.                                             *)
EXTENDS Nudge

CONSTANTS ann, ben, gate, o1, o2
=============================================================================
