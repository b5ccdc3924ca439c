------------------------------ MODULE MCSidecar -----------------------------
(* Instances of Sidecar for TLC.                                           *)
EXTENDS Sidecar

CONSTANTS d1, d2, g1, g2, w1, w2, a, b

OneSender == [w \in Wakes |-> "local"]

World(dms, posts, wakes, queue, passes, fails) ==
  [dms |-> dms, posts |-> posts, wakes |-> wakes, queue |-> queue,
   passes |-> passes, faults |-> fails]

(* Overlapping passes, and a crash; a full disk, a kill in the middle of a *)
(* save or a restart of the server; direct messages that merge or go       *)
(* together when the process is killed, or that push each other out;       *)
(* posts; wakes that merge.                                                *)
Worlds == {World(1, 0, 0, 1, 2, {"crash"}), World(1, 0, 0, 1, 1, {"crash", "disk"}),
           World(1, 0, 0, 1, 1, {"restart"}), World(1, 0, 0, 1, 1, {"cut", "disk"}),
           World(2, 0, 0, 2, 1, {"torn"}),
           World(2, 0, 0, 1, 1, {}), World(0, 2, 0, 2, 1, {}),
           World(1, 1, 0, 2, 1, {}), World(1, 0, 1, 2, 1, {}),
           World(0, 0, 2, 2, 1, {"disk"}), World(0, 0, 1, 1, 1, {"crash", "disk"}),
           World(0, 0, 1, 1, 1, {"cut", "disk"})}

(* Small enough for the liveness check.                                    *)
Endings == {World(1, 0, 0, 1, 2, {}), World(2, 0, 0, 2, 1, {}),
            World(1, 0, 0, 1, 1, {"crash"})}
=============================================================================
