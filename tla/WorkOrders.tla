----------------------------- MODULE WorkOrders -----------------------------
(***************************************************************************)
(* The work-order server: src/routes/orders.js over the SQLite row of      *)
(* src/db.js, with the state machine (order-state-machine.js), the review  *)
(* freeze (audit-freeze.js) and the roster rules (workspace.js) it calls.  *)
(*                                                                         *)
(* Express runs one handler at a time and better-sqlite3 is synchronous,   *)
(* so a request is one step.  What interleaves is the requests, sent by    *)
(* actors who act on what they read earlier: a reviewer reads an order,    *)
(* and decides later, perhaps after the order was withdrawn, changed and   *)
(* frozen again.  A kill of the server can fall between the two writes of  *)
(* /pause and of /resume, which do not share a transaction.                *)
(*                                                                         *)
(* Some definitions follow a deliberately mistaken form of themselves,     *)
(* which nothing here uses: the mutations that show the properties bite.   *)
(***************************************************************************)
EXTENDS OrderStates

CONSTANTS
  Orders,        \* order ids
  Agents,        \* the roster of the configuration
  Humans,        \* actors who are not on the roster
  MergeGate,     \* the agent with canMerge, or None
  SelfManaged,   \* the agents with selfManaged
  Repos,         \* repository names
  Owns,          \* Owns[a]: the repos list of agent a, {} when it has none
  RepoOf,        \* RepoOf[o]: the repo o is created with; no statement updates it
  Deliveries,    \* what commit_hash, git_branch and files_changed may hold together
  LegacyReview,  \* orders in review when the freeze columns were added
  MaxRev,        \* bound on audit_revision
  None

ASSUME RosterAssumption ==
  /\ MergeGate \in Agents \cup {None}
  /\ SelfManaged \subseteq Agents
  /\ Agents \cap Humans = {}
  /\ None \notin Agents \cup Humans \cup Repos \cup Orders \cup Deliveries
  /\ Owns \in [Agents -> SUBSET Repos]
  /\ RepoOf \in [Orders -> Repos \cup {None}]

ASSUME BoundAssumption == LegacyReview \subseteq Orders /\ MaxRev \in Nat

VARIABLES
  status,      \* work_orders.status, or Absent before the row exists
  assignee,    \* work_orders.assignee
  createdBy,   \* work_orders.created_by
  blockedBy,   \* work_orders.blocked_by
  frozen,      \* work_orders.frozen
  auditRev,    \* work_orders.audit_revision
  delivery,    \* commit_hash, git_branch and files_changed, None when all are NULL
  pausedFrom,  \* timeline: `from` of the last `paused` entry
  entered,     \* timeline: which of Milestones it has an entry for
  closing,     \* timeline: the entry that closed the order
  revisions,   \* the rows of order_revisions
  seen,        \* what the reviewer's last GET of the order showed
  decided      \* history: the review decision that last moved the order

orderVars == <<status, frozen, auditRev, delivery, pausedFrom, entered,
               closing, revisions>>
vars == <<orderVars, assignee, createdBy, blockedBy, seen, decided>>

-----------------------------------------------------------------------------
Absent == "absent"
Actors == Agents \cup Humans
Milestones == {"submitted", "auditing"}

Delivery == Deliveries \cup {None}

Revision == [order : Orders, rev : Nat, delivery : Delivery]
Review   == [rev : Nat, delivery : Delivery]
Decision == [rev : Nat, delivery : Delivery, by : Actors]
Closing  == [from : STATES, by : Actors, cancelled : BOOLEAN]

(* None is no timeline entry and no status.                                *)
ASSUME NoneIsNothing == None \notin Closing \cup STATES

Exists(o) == status[o] # Absent

-----------------------------------------------------------------------------
(* workspace.js                                                            *)

CanWork(a, repo) ==
  a \in Agents /\ (repo = None \/ Owns[a] = {} \/ repo \in Owns[a])

CanMerge(a) == MergeGate # None /\ a = MergeGate

IsSelfManaged(a) == a \in SelfManaged

-----------------------------------------------------------------------------
ResumeTarget(o) == ResumeTargetFrom(pausedFrom[o])

(* The waiters the close of the orders of S releases: transition() looks   *)
(* them up after S itself is closed, and skips them on a cancellation.     *)
(* Mistaken form: a cancelled blocker releases too.                      *)
ReleasedAlways(S, to, cancelled) ==
  {w \in Orders \ S : status[w] = "paused" /\ blockedBy[w] \in S /\ to = "closed"}

Released(S, to, cancelled) ==
  {w \in Orders \ S :
     /\ status[w] = "paused"
     /\ \E o \in S : /\ blockedBy[w] = o
                    /\ to = "closed" /\ ~ IsCancelClose(status[o], to, cancelled)}

After(S, to, cancelled) ==
  [x \in Orders |-> IF x \in S THEN to
                    ELSE IF x \in Released(S, to, cancelled) THEN ResumeTarget(x)
                    ELSE status[x]]

(* applyOnTransition: what a move brings into review, auto-resumed orders  *)
(* included, and what it takes out.                                        *)
(* Mistaken form: auto-resumed orders are forgotten.                     *)
EnteringOnRequest(S, to, cancelled) ==
  {x \in S : to = "auditing" /\ status[x] # "auditing"}

Entering(S, to, cancelled) ==
  {x \in Orders : After(S, to, cancelled)[x] = "auditing" /\ status[x] # "auditing"}

(* Mistaken form: a pause keeps the freeze.                              *)
LeavingForGood(S, to) == {x \in S : status[x] = "auditing" /\ to \notin {"auditing", "paused"}}

Leaving(S, to) == {x \in S : status[x] = "auditing" /\ to # "auditing"}

(* The number a freeze gives.                                              *)
(* Mistaken form: a resumed review keeps its number.                     *)
RevisionKeptByPause(x) == IF pausedFrom[x] = "auditing" THEN auditRev[x] ELSE auditRev[x] + 1

NextRevision(x) == auditRev[x] + 1

(* What a freeze stores: the row as it is after the backfill.              *)
(* Mistaken form: freezes the row before the backfill.                   *)
SnapshotBeforeBackfill(x, newDelivery) ==
  [order |-> x, rev |-> NextRevision(x), delivery |-> delivery[x]]

Snapshot(x, newDelivery) ==
  [order |-> x, rev |-> NextRevision(x), delivery |-> newDelivery[x]]

(* moveOrder: one transaction that backfills the delivery, moves every     *)
(* order of S to `to`, releases waiters, and freezes or unfreezes whatever *)
(* entered or left review.  The blocked_by column is left to the caller.   *)
Move(S, to, by, cancelled, newDelivery) ==
  LET entering == Entering(S, to, cancelled)
  IN /\ \A x \in S : to \in TRANSITIONS[status[x]]
     /\ \A x \in entering : auditRev[x] < MaxRev
     /\ status' = After(S, to, cancelled)
     /\ delivery' = newDelivery
     /\ frozen' = [x \in Orders |-> (frozen[x] \/ x \in entering) /\ x \notin Leaving(S, to)]
     /\ auditRev' = [x \in Orders |-> IF x \in entering THEN NextRevision(x) ELSE auditRev[x]]
     /\ revisions' = revisions \cup {Snapshot(x, newDelivery) : x \in entering}
     /\ pausedFrom' = [x \in Orders |-> IF x \in S /\ to = "paused"
                                        THEN status[x] ELSE pausedFrom[x]]
     /\ entered' = [x \in Orders |->
                      entered[x] \cup ({After(S, to, cancelled)[x]} \cap Milestones)]
     /\ closing' = [x \in Orders |->
          IF x \in S /\ to = "closed"
          THEN [from |-> status[x], by |-> by,
                cancelled |-> IsCancelClose(status[x], to, cancelled)]
          ELSE closing[x]]

(* The release writes blocked_by = NULL along with the waiter's status.    *)
(* Mistaken form: the release forgets blocked_by.                        *)
BlockersKept(S, to, cancelled) == blockedBy

Unblocked(S, to, cancelled) ==
  [x \in Orders |->
     IF x \in Released(S, to, cancelled) THEN None ELSE blockedBy[x]]

-----------------------------------------------------------------------------
(* Guards of the endpoints.                                                *)

(* claimFor and checkClaimOwner: who may take an order up.                 *)
Taking(o, to) ==
  \/ status[o] \in {"draft", "assigned", "rejected"} /\ to = "in_progress"
  \/ status[o] = "submitted" /\ to = "auditing"

ClaimOwner(o) ==
  CASE status[o] # "submitted"    -> assignee[o]
    [] IsSelfManaged(assignee[o]) -> None
    [] OTHER                      -> MergeGate

ClaimOwnerAgrees(o, to, a) ==
  Taking(o, to) => ClaimOwner(o) # None /\ a = ClaimOwner(o)

(* checkResumeTarget                                                       *)
ResumesWhereItStopped(o, to) ==
  status[o] = "paused" /\ to # "closed" => to = ResumeTarget(o)

(* freezeBlocks: a frozen order takes no delivery fields.                  *)
(* Mistaken form: a frozen order takes a delivery.                       *)
FreezeIgnored(o, d) == FALSE

FreezeBlocks(o, d) == frozen[o] /\ d # None

(* checkRevision: the decisions that must name the revision they are for.  *)
BindsDecision(o, to, cancelled) ==
  /\ status[o] = "auditing"
  /\ to \in {"pending_restart", "rejected"} \/ (to = "closed" /\ ~cancelled)
  /\ auditRev[o] > 0

(* Mistaken form: any revision will do.                                  *)
RevisionGiven(o, to, cancelled) ==
  BindsDecision(o, to, cancelled) => seen[o] # None

RevisionAgrees(o, to, cancelled) ==
  BindsDecision(o, to, cancelled) =>
    seen[o] # None /\ seen[o].rev = auditRev[o]

(* Only the merge gate takes an order out of review, or voids one that was *)
(* paused in review.                                                       *)
(* Mistaken form: forgets orders paused in review.                       *)
NeedsGateInReview(o, to, cancelled) ==
  \/ to = "pending_restart"
  \/ status[o] = "auditing" /\ to = "closed"

NeedsGate(o, to, cancelled) ==
  \/ to = "pending_restart"
  \/ status[o] = "auditing" /\ to = "closed"
  \/ /\ IsCancelClose(status[o], to, cancelled)
     /\ status[o] = "paused" /\ ResumeTarget(o) = "auditing"

(* Mistaken form: only submitted work may not be closed directly.        *)
LaneAllowsRejected(o, to) ==
  LET unreviewed == IsSelfManaged(assignee[o]) \/ MergeGate = None
  IN /\ status[o] = "submitted" /\ to = "closed" => unreviewed
     /\ to = "auditing" => ~unreviewed
     /\ to = "accepted" => unreviewed

(* The review lane and the acceptance lane exclude each other.             *)
LaneAllows(o, to) ==
  LET unreviewed == IsSelfManaged(assignee[o]) \/ MergeGate = None
  IN /\ status[o] \in {"submitted", "rejected"} /\ to = "closed" => unreviewed
     /\ to = "auditing" => ~unreviewed
     /\ to = "accepted" => unreviewed

-----------------------------------------------------------------------------
(* The endpoints.                                                          *)

Create(o, a, who) ==
  /\ ~ Exists(o)
  /\ who # None => CanWork(who, RepoOf[o])
  /\ status' = [status EXCEPT ![o] = "draft"]
  /\ assignee' = [assignee EXCEPT ![o] = who]
  /\ createdBy' = [createdBy EXCEPT ![o] = a]
  /\ UNCHANGED <<blockedBy, frozen, auditRev, delivery, pausedFrom, entered,
                 closing, revisions, seen, decided>>

(* Dispatching an assigned order again only repeats its notice.            *)
Dispatch(o, a) ==
  /\ status[o] = "draft"
  /\ assignee[o] # None
  /\ Move({o}, "assigned", a, FALSE, delivery)
  /\ UNCHANGED <<assignee, createdBy, blockedBy, seen, decided>>

Accept(o, a) ==
  /\ status[o] \in {"assigned", "rejected", "submitted"}
  /\ LET to == IF status[o] = "submitted" THEN "auditing" ELSE "in_progress"
     IN /\ ClaimOwnerAgrees(o, to, a)
        /\ Move({o}, to, a, FALSE, delivery)
  /\ UNCHANGED <<assignee, createdBy, blockedBy, seen, decided>>

(* Cancellations are sent with the reason they need.  d is what a request  *)
(* that reports a commit or a branch leaves in the delivery columns        *)
(* (backfill), None for one that reports nothing.                          *)
Transition(o, to, a, cancelled, d) ==
  /\ Exists(o)
  /\ to \in TRANSITIONS[status[o]]
  /\ ResumesWhereItStopped(o, to)
  /\ ~ (status[o] = "auditing" /\ to = "in_progress")
  /\ cancelled => to = "closed"
  /\ ~ FreezeBlocks(o, d)
  /\ RevisionAgrees(o, to, cancelled)
  /\ NeedsGate(o, to, cancelled) => CanMerge(a)
  /\ LaneAllows(o, to)
  /\ ClaimOwnerAgrees(o, to, a)
  /\ Move({o}, to, a, cancelled,
          IF d = None THEN delivery ELSE [delivery EXCEPT ![o] = d])
  /\ blockedBy' = Unblocked({o}, to, cancelled)
  /\ decided' = IF BindsDecision(o, to, cancelled)
                THEN [decided EXCEPT ![o] = [rev |-> seen[o].rev,
                                             delivery |-> seen[o].delivery, by |-> a]]
                ELSE decided
  /\ UNCHANGED <<assignee, createdBy, seen>>

(* /pause checks the blocker, moves, then writes the block fields in a     *)
(* second statement; a kill in between leaves the old blocked_by.          *)
Pause(o, a, blocker, killed) ==
  /\ Exists(o)
  /\ blocker # None => status[blocker] \in CanReachClosed
  /\ Move({o}, "paused", a, FALSE, delivery)
  /\ blockedBy' = IF killed THEN blockedBy ELSE [blockedBy EXCEPT ![o] = blocker]
  /\ UNCHANGED <<assignee, createdBy, seen, decided>>

Resume(o, a, killed) ==
  /\ status[o] = "paused"
  /\ Move({o}, ResumeTarget(o), a, FALSE, delivery)
  /\ blockedBy' = IF killed THEN blockedBy ELSE [blockedBy EXCEPT ![o] = None]
  /\ UNCHANGED <<assignee, createdBy, seen, decided>>

Unfreeze(o, a) ==
  /\ status[o] = "auditing"
  /\ a \in {assignee[o], MergeGate, createdBy[o]} \ {None}
  /\ Move({o}, "in_progress", a, FALSE, delivery)
  /\ UNCHANGED <<assignee, createdBy, blockedBy, seen, decided>>

Assign(o, who) ==
  /\ Exists(o)
  /\ status[o] \notin {"closed", "accepted"}
  /\ CanWork(who, RepoOf[o])
  /\ assignee' = [assignee EXCEPT ![o] = who]
  /\ UNCHANGED <<orderVars, createdBy, blockedBy, seen, decided>>

(* The bulk close after a restart.  S is what is left of the queue after   *)
(* the ids of the request, the orders whose commit is not in the deployed  *)
(* tree, and a kill between two of the loop's transactions.                *)
RestartDone(S, a) ==
  /\ a \in Agents => CanMerge(a)
  /\ S # {} /\ \A o \in S : status[o] = "pending_restart"
  /\ Move(S, "closed", a, FALSE, delivery)
  /\ blockedBy' = Unblocked(S, "closed", FALSE)
  /\ UNCHANGED <<assignee, createdBy, seen, decided>>

(* GET /api/orders/:id by the reviewer, who decides on what it shows.      *)
ReadOrder(o) ==
  /\ Exists(o)
  /\ seen' = [seen EXCEPT ![o] = [rev |-> auditRev[o], delivery |-> delivery[o]]]
  /\ UNCHANGED <<orderVars, assignee, createdBy, blockedBy, decided>>

-----------------------------------------------------------------------------
(* A database of an earlier version holds orders in review with revision 0 *)
(* and no freeze: the ALTER TABLEs give both columns their default.        *)
Init ==
  /\ status = [o \in Orders |-> IF o \in LegacyReview THEN "auditing" ELSE Absent]
  /\ assignee \in {f \in [Orders -> Agents \cup {None}] :
                     \A o \in Orders : IF o \in LegacyReview
                                       THEN CanWork(f[o], RepoOf[o])
                                       ELSE f[o] = None}
  /\ createdBy \in {f \in [Orders -> Actors \cup {None}] :
                      \A o \in Orders : f[o] = None <=> o \notin LegacyReview}
  /\ blockedBy = [o \in Orders |-> None]
  /\ frozen = [o \in Orders |-> FALSE]
  /\ auditRev = [o \in Orders |-> 0]
  /\ delivery = [o \in Orders |-> None]
  /\ pausedFrom = [o \in Orders |-> None]
  /\ entered = [o \in Orders |-> IF o \in LegacyReview THEN Milestones ELSE {}]
  /\ closing = [o \in Orders |-> None]
  /\ revisions = {}
  /\ seen = [o \in Orders |-> None]
  /\ decided = [o \in Orders |-> None]

Next ==
  \/ \E o \in Orders, a \in Actors, who \in Agents \cup {None} : Create(o, a, who)
  \/ \E o \in Orders, a \in Actors : Dispatch(o, a)
  \/ \E o \in Orders, a \in Actors : Accept(o, a)
  \/ \E o \in Orders, to \in STATES, a \in Actors, c \in BOOLEAN,
        d \in Deliveries \cup {None} : Transition(o, to, a, c, d)
  \/ \E o \in Orders, a \in Actors, b \in Orders \cup {None}, k \in BOOLEAN :
       Pause(o, a, b, k)
  \/ \E o \in Orders, a \in Actors, k \in BOOLEAN : Resume(o, a, k)
  \/ \E o \in Orders, a \in Actors : Unfreeze(o, a)
  \/ \E o \in Orders, who \in Agents : Assign(o, who)
  \/ \E S \in SUBSET Orders, a \in Actors : RestartDone(S, a)
  \/ \E o \in Orders : ReadOrder(o)

Spec == Init /\ [][Next]_vars

-----------------------------------------------------------------------------
(* Types.  pausedFrom says a little more: whatever can be paused can be    *)
(* resumed to where it was.                                                *)
TypeOK ==
  /\ status \in [Orders -> STATES \cup {Absent}]
  /\ assignee \in [Orders -> Agents \cup {None}]
  /\ createdBy \in [Orders -> Actors \cup {None}]
  /\ blockedBy \in [Orders -> Orders \cup {None}]
  /\ frozen \in [Orders -> BOOLEAN]
  /\ auditRev \in [Orders -> Nat]
  /\ delivery \in [Orders -> Delivery]
  /\ pausedFrom \in [Orders -> ResumeTargets \cup {None}]
  /\ entered \in [Orders -> SUBSET Milestones]
  /\ closing \in [Orders -> Closing \cup {None}]
  /\ revisions \subseteq Revision
  /\ seen \in [Orders -> Review \cup {None}]
  /\ decided \in [Orders -> Decision \cup {None}]

(* "A review state and its freeze flag are one fact" (orders.js:102): an   *)
(* order is frozen exactly while it is in review, on every way in and out  *)
(* of review, the automatic resume included.  Only reviews that began      *)
(* before the freeze existed (revision 0) are not frozen.                  *)
ReviewIsFrozen ==
  \A o \in Orders :
    frozen[o] <=> status[o] = "auditing" /\ auditRev[o] > 0

(* While an order is frozen, its delivery columns are those of the         *)
(* snapshot of its current revision: no endpoint slips a commit or a       *)
(* branch under a review in progress.                                      *)
FrozenMatchesSnapshot ==
  \A o \in Orders :
    frozen[o] =>
      [order |-> o, rev |-> auditRev[o], delivery |-> delivery[o]] \in revisions

(* A revision number names one delivery for good, however often the order  *)
(* goes in and out of review: what makes the number enough to bind a       *)
(* decision.                                                               *)
OneSnapshotPerRevision ==
  \A r, s \in revisions : r.order = s.order /\ r.rev = s.rev => r = s

(* A pass or rejection that the server took is of a delivery that was      *)
(* frozen under the revision it names, the very one the reviewer read,     *)
(* however late it arrived and whatever happened to the order meanwhile.   *)
DecisionIsOfSnapshot ==
  \A o \in Orders :
    decided[o] # None =>
      [order |-> o, rev |-> decided[o].rev, delivery |-> decided[o].delivery]
        \in revisions

(* What waits for a restart is what the merge gate passed: the row's       *)
(* delivery, at its current revision, is the one the reviewer had read.    *)
MergedIsReviewed ==
  \A o \in Orders :
    status[o] = "pending_restart" /\ auditRev[o] > 0 =>
      decided[o] = [rev |-> auditRev[o], delivery |-> delivery[o], by |-> MergeGate]

(* A review ends in `closed`, whether directly or after a pause in review, *)
(* only by the hand of the merge gate.                                     *)
OnlyGateEndsReview ==
  \A o \in Orders :
    /\ closing[o] # None
    /\ \/ closing[o].from = "auditing"
       \/ closing[o].from = "paused" /\ ResumeTarget(o) = "auditing"
    => closing[o].by = MergeGate

(* With a merge gate, work of the reviewed lane that was ever submitted    *)
(* completes only after an `auditing' entry (README.md:439-441), except    *)
(* by one way round the edges that are refused: back to draft and closed   *)
(* from there.  Whoever the order belongs to meanwhile, no other way       *)
(* through resubmission, pauses, dispatch and reassignment avoids review.  *)
OnlyDraftSkipsReview ==
  \A o \in Orders :
    closing[o] # None /\ "submitted" \in entered[o] =>
      \/ closing[o].cancelled \/ "auditing" \in entered[o]
      \/ MergeGate = None \/ IsSelfManaged(assignee[o])
      \/ closing[o].from = "draft"

Completes(o) == closing[o] = None /\ closing'[o] # None /\ ~ closing'[o].cancelled

(* When an order completes, nobody is left paused on it: every waiter is   *)
(* back where it was paused from, in the same step.                        *)
CompletionReleasesWaiters ==
  [][\A b, w \in Orders :
       Completes(b) /\ status[w] = "paused" /\ blockedBy[w] = b /\ w # b =>
         status'[w] = ResumeTarget(w) /\ blockedBy'[w] = None]_vars

(* A step of another order moves a waiter only by completing its blocker:  *)
(* a cancelled dependency never releases what waited for it.               *)
OnlyCompletionReleases ==
  [][\A w \in Orders :
       status'[w] # status[w] =>
         \/ \A o \in Orders \ {w} : status'[o] = status[o]
         \/ Completes(w)
         \/ status[w] = "paused" /\ blockedBy[w] # None /\ Completes(blockedBy[w])]_vars

=============================================================================
