------------------------------ MODULE MCThreads ------------------------------
(* An instance of Threads for TLC: a has a plan, b and c are only linked.  *)
EXTENDS Threads, TLC

CONSTANTS a, b, c, x, y

Interchangeable == Permutations({b, c}) \cup Permutations({x, y})
=============================================================================
