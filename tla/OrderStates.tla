---------------------------- MODULE OrderStates ----------------------------
(***************************************************************************)
(* The work-order state machine of src/lib/order-state-machine.js: the ten *)
(* statuses, the transition table, which closes are cancellations, where a *)
(* paused order returns to and which statuses can still reach `closed`.    *)
(* Constant operators only; WorkOrders builds its actions from them.       *)
(***************************************************************************)

EXTENDS Naturals

STATES == {"draft", "assigned", "in_progress", "submitted", "auditing",
           "pending_restart", "paused", "accepted", "rejected", "closed"}

(* Where a pause may return to, and the mistaken form that forgets reviews. *)
ResumeTargetsNoReview == {"in_progress", "assigned"}
ResumeTargets == {"in_progress", "assigned", "auditing"}

(* The table is the whole specification: an edge that is not here is       *)
(* refused.                                                                *)
TRANSITIONS ==
  [draft           |-> {"assigned", "in_progress", "closed"},
   assigned        |-> {"in_progress", "paused", "closed"},
   in_progress     |-> {"submitted", "paused", "draft", "closed"},
   submitted       |-> {"auditing", "accepted", "rejected", "closed"},
   auditing        |-> {"pending_restart", "closed", "rejected",
                        "in_progress", "paused"},
   pending_restart |-> {"closed", "in_progress"},
   paused          |-> ResumeTargets \cup {"closed"},
   accepted        |-> {"closed"},
   rejected        |-> {"in_progress", "draft", "closed"},
   closed          |-> {}]

(* Sources whose close edge is marked `cancel`, and the ones whose close    *)
(* edge needs the caller to say `cancelled` before it means cancellation.  *)
CancelEdges       == {"draft", "assigned", "in_progress", "paused"}
CancelIntentEdges == {"draft", "auditing"}

IsCancelClose(from, to, cancelled) ==
  /\ to = "closed"
  /\ cancelled \/ from \in CancelEdges \ CancelIntentEdges

(* Where an order goes back to, given the `from` of its last `paused`      *)
(* timeline entry (anything that is no status when it has none).           *)
ResumeTargetFrom(from) ==
  IF from \in TRANSITIONS.paused THEN from ELSE "in_progress"

(* The statuses from which a walk over the table meets an edge into        *)
(* `closed`, found backwards; a walk passes each of the ten at most once.  *)
CanReachClosed ==
  LET walk[n \in 0..9] ==
        IF n = 0
        THEN {s \in STATES : "closed" \in TRANSITIONS[s]}
        ELSE LET found == walk[n - 1]
             IN found \cup {s \in STATES : TRANSITIONS[s] \cap found # {}}
  IN walk[9]

=============================================================================
