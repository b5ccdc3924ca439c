---------------------------- MODULE WakeFreshness ----------------------------
(***************************************************************************)
(* src/lib/wake-freshness.js: whether a wake-up written when an order had  *)
(* some status still concerns its recipient when it is handed over.        *)
(* Constant operators only; an order is its status, its assignee and the   *)
(* status it was last paused from.                                         *)
(***************************************************************************)
EXTENDS OrderStates

CONSTANTS
  MergeGate,    \* the agent that owes the action on an order in review
  SelfManaged,  \* agents whose orders no gate reviews
  None

(* ownerOf: who owes the action on order o; None when nobody does.         *)
OwnerOf(o) ==
  LET status == IF o.status = "paused" THEN ResumeTargetFrom(o.from) ELSE o.status
  IN CASE status \in {"assigned", "in_progress", "rejected"} -> o.assignee
       [] status \in {"submitted", "auditing"} ->
            IF o.assignee \in SelfManaged THEN None ELSE MergeGate
       [] OTHER -> None

(* makeWakeFreshness: skip a wake-up whose order has another status than   *)
(* the one it was queued with, or another owner than its recipient.        *)
SkipByStatus(o, enqueued, recipient) == o.status # enqueued
Skip(o, enqueued, recipient) ==
  o.status # enqueued \/ OwnerOf(o) # recipient
=============================================================================
