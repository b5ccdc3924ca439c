-------------------------- MODULE WorkOrdersProofs --------------------------
(***************************************************************************)
(* Theorems about WorkOrders, for every roster, every set of orders and    *)
(* deliveries and every bound.                                             *)
(***************************************************************************)
EXTENDS WorkOrders, TLAPS

-----------------------------------------------------------------------------
(* The transition table.                                                   *)

(* Every edge of the table joins two of the ten statuses.                  *)
LEMMA EdgesJoinStates ==
  ASSUME NEW s \in STATES, NEW t \in TRANSITIONS[s]
  PROVE  t \in STATES
BY DEF STATES, TRANSITIONS, ResumeTargets

(* Whatever may be paused, may be resumed to where it was.                 *)
LEMMA PausableIsResumable ==
  ASSUME NEW s \in STATES, "paused" \in TRANSITIONS[s]
  PROVE  s \in ResumeTargets
BY DEF STATES, TRANSITIONS, ResumeTargets

(* A resume target is a status.                                            *)
LEMMA ResumeTargetIsStatus ==
  ASSUME TypeOK, NEW x \in Orders
  PROVE  ResumeTarget(x) \in STATES
BY DEF TypeOK, ResumeTarget, ResumeTargetFrom, TRANSITIONS, ResumeTargets, STATES

(* What the endpoints pass to moveOrder.                                   *)
MoveArgs(S, to, by, cancelled, newDelivery) ==
  /\ S \subseteq Orders /\ \A x \in S : status[x] \in STATES
  /\ to \in STATES /\ by \in Actors /\ cancelled \in BOOLEAN
  /\ newDelivery \in [Orders -> Delivery]

(* moveOrder keeps the types of what it writes.                            *)
LEMMA MoveTypes ==
  ASSUME TypeOK, NEW S, NEW to, NEW by, NEW cancelled, NEW newDelivery,
         MoveArgs(S, to, by, cancelled, newDelivery),
         Move(S, to, by, cancelled, newDelivery)
  PROVE  /\ status' \in [Orders -> STATES \cup {Absent}]
         /\ frozen' \in [Orders -> BOOLEAN]
         /\ auditRev' \in [Orders -> Nat]
         /\ delivery' \in [Orders -> Delivery]
         /\ pausedFrom' \in [Orders -> ResumeTargets \cup {None}]
         /\ entered' \in [Orders -> SUBSET Milestones]
         /\ closing' \in [Orders -> Closing \cup {None}]
         /\ revisions' \subseteq Revision
<1> USE DEF MoveArgs
<1>1. After(S, to, cancelled) \in [Orders -> STATES \cup {Absent}]
  BY ResumeTargetIsStatus DEF After, TypeOK
<1>2. Entering(S, to, cancelled) \subseteq Orders
  BY DEF Entering
<1>3. \A x \in Orders : NextRevision(x) \in Nat
  BY DEF NextRevision, TypeOK
<1>4. status' \in [Orders -> STATES \cup {Absent}]
  BY <1>1 DEF Move
<1>5. frozen' \in [Orders -> BOOLEAN]
  BY DEF Move, TypeOK
<1>6. auditRev' \in [Orders -> Nat]
  BY <1>3 DEF Move, TypeOK
<1>7. delivery' \in [Orders -> Delivery]
  BY DEF Move
<1>8. pausedFrom' \in [Orders -> ResumeTargets \cup {None}]
  <2>1. ASSUME NEW x \in Orders
        PROVE  pausedFrom'[x] \in ResumeTargets \cup {None}
    <3>1. CASE x \in S /\ to = "paused"
      <4>1. "paused" \in TRANSITIONS[status[x]] BY <3>1 DEF Move
      <4>2. status[x] \in ResumeTargets BY <3>1, <4>1, PausableIsResumable
      <4> QED BY <3>1, <4>2 DEF Move
    <3>2. CASE ~ (x \in S /\ to = "paused")
      BY <3>2 DEF Move, TypeOK
    <3> QED BY <3>1, <3>2
  <2> QED BY <2>1 DEF Move
<1>9. entered' \in [Orders -> SUBSET Milestones]
  BY DEF Move, TypeOK
<1>10. closing' \in [Orders -> Closing \cup {None}]
  <2>1. \A x \in S : IsCancelClose(status[x], to, cancelled) \in BOOLEAN
    BY DEF IsCancelClose
  <2> QED BY <2>1 DEF Move, TypeOK, Closing
<1>11. revisions' \subseteq Revision
  BY <1>2, <1>3 DEF Move, TypeOK, Snapshot, Revision
<1> QED BY <1>4, <1>5, <1>6, <1>7, <1>8, <1>9, <1>10, <1>11

-----------------------------------------------------------------------------
(* Type correctness.                                                       *)

LEMMA InitTypeOK == Init => TypeOK
BY BoundAssumption
   DEF Init, TypeOK, STATES, Delivery, Actors, Milestones, Revision, Review, Decision, Closing,
       CanWork

(* A request to move one existing order passes proper arguments.           *)
LEMMA MoveArgsOne ==
  ASSUME TypeOK, NEW o \in Orders, Exists(o), NEW to \in STATES, NEW a \in Actors,
         NEW c \in BOOLEAN, NEW d \in [Orders -> Delivery]
  PROVE  MoveArgs({o}, to, a, c, d)
BY DEF MoveArgs, TypeOK, Exists, Absent, STATES

(* The columns moveOrder leaves alone, beside those it writes.             *)
LEMMA TypeOKFromMove ==
  ASSUME TypeOK, NEW S, NEW to, NEW by, NEW cancelled, NEW newDelivery,
         MoveArgs(S, to, by, cancelled, newDelivery),
         Move(S, to, by, cancelled, newDelivery),
         UNCHANGED <<assignee, createdBy, seen>>,
         blockedBy' \in [Orders -> Orders \cup {None}],
         decided' \in [Orders -> Decision \cup {None}]
  PROVE  TypeOK'
<1>1. /\ status' \in [Orders -> STATES \cup {Absent}]
      /\ frozen' \in [Orders -> BOOLEAN]
      /\ auditRev' \in [Orders -> Nat]
      /\ delivery' \in [Orders -> Delivery]
      /\ pausedFrom' \in [Orders -> ResumeTargets \cup {None}]
      /\ entered' \in [Orders -> SUBSET Milestones]
      /\ closing' \in [Orders -> Closing \cup {None}]
      /\ revisions' \subseteq Revision
  BY MoveTypes
<1> QED BY <1>1 DEF TypeOK

LEMMA TransitionTypeOK ==
  ASSUME TypeOK, NEW o \in Orders, NEW to \in STATES, NEW a \in Actors, NEW c \in BOOLEAN,
         NEW d \in Deliveries \cup {None}, Transition(o, to, a, c, d)
  PROVE  TypeOK'
<1> DEFINE nd == IF d = None THEN delivery ELSE [delivery EXCEPT ![o] = d]
<1>1. nd \in [Orders -> Delivery]
  BY DEF TypeOK, Delivery
<1>2. MoveArgs({o}, to, a, c, nd)
  BY <1>1, MoveArgsOne DEF Transition
<1>3. Move({o}, to, a, c, nd)
  BY DEF Transition
<1>4. UNCHANGED <<assignee, createdBy, seen>>
  BY DEF Transition
<1>5. blockedBy' \in [Orders -> Orders \cup {None}]
  BY DEF Transition, Unblocked, TypeOK
<1>6. decided' \in [Orders -> Decision \cup {None}]
  <2>1. CASE BindsDecision(o, to, c)
    <3>1. seen[o] \in Review
      BY <2>1 DEF Transition, RevisionAgrees, TypeOK
    <3>2. [rev |-> seen[o].rev, delivery |-> seen[o].delivery, by |-> a] \in Decision
      BY <3>1 DEF Review, Decision
    <3> QED BY <2>1, <3>2 DEF Transition, TypeOK
  <2>2. CASE ~ BindsDecision(o, to, c)
    BY <2>2 DEF Transition, TypeOK
  <2> QED BY <2>1, <2>2
<1> HIDE DEF nd
<1> QED BY <1>2, <1>3, <1>4, <1>5, <1>6, TypeOKFromMove

LEMMA NextTypeOK == TypeOK /\ [Next]_vars => TypeOK'
<1> SUFFICES ASSUME TypeOK, [Next]_vars PROVE TypeOK'
  OBVIOUS
<1> USE DEF Exists
<1>0. delivery \in [Orders -> Delivery]
  BY DEF TypeOK
<1>s. /\ "assigned" \in STATES /\ "in_progress" \in STATES /\ "paused" \in STATES
      /\ "auditing" \in STATES /\ "closed" \in STATES /\ "draft" \in STATES
      /\ "pending_restart" \in STATES /\ Absent \notin STATES
  BY DEF STATES, Absent
<1>1. ASSUME NEW o \in Orders, NEW a \in Actors, NEW who \in Agents \cup {None},
             Create(o, a, who)
      PROVE  TypeOK'
  BY <1>1, <1>s DEF Create, TypeOK
<1>2. ASSUME NEW o \in Orders, NEW a \in Actors, Dispatch(o, a)
      PROVE  TypeOK'
  <2>1. Exists(o) BY <1>2 DEF Dispatch, Absent
  <2>2. MoveArgs({o}, "assigned", a, FALSE, delivery)
    BY <1>0, <1>s, <2>1, MoveArgsOne
  <2> QED BY <1>2, <2>2, TypeOKFromMove DEF Dispatch, TypeOK
<1>3. ASSUME NEW o \in Orders, NEW a \in Actors, Accept(o, a)
      PROVE  TypeOK'
  <2> DEFINE to == IF status[o] = "submitted" THEN "auditing" ELSE "in_progress"
  <2>1. Exists(o) BY <1>3 DEF Accept, Absent
  <2>2. to \in STATES BY <1>s
  <2>3. MoveArgs({o}, to, a, FALSE, delivery)
    BY <1>0, <2>1, <2>2, MoveArgsOne
  <2>4. Move({o}, to, a, FALSE, delivery)
    BY <1>3 DEF Accept
  <2> HIDE DEF to
  <2> QED BY <1>3, <2>3, <2>4, TypeOKFromMove DEF Accept, TypeOK
<1>4. ASSUME NEW o \in Orders, NEW to \in STATES, NEW a \in Actors, NEW c \in BOOLEAN,
             NEW d \in Deliveries \cup {None}, Transition(o, to, a, c, d)
      PROVE  TypeOK'
  BY <1>4, TransitionTypeOK
<1>5. ASSUME NEW o \in Orders, NEW a \in Actors, NEW b \in Orders \cup {None},
             NEW k \in BOOLEAN, Pause(o, a, b, k)
      PROVE  TypeOK'
  <2>1. MoveArgs({o}, "paused", a, FALSE, delivery)
    BY <1>5, <1>0, <1>s, MoveArgsOne DEF Pause
  <2>2. blockedBy' \in [Orders -> Orders \cup {None}]
    BY <1>5 DEF Pause, TypeOK
  <2> QED BY <1>5, <2>1, <2>2, TypeOKFromMove DEF Pause, TypeOK
<1>6. ASSUME NEW o \in Orders, NEW a \in Actors, NEW k \in BOOLEAN, Resume(o, a, k)
      PROVE  TypeOK'
  <2>1. Exists(o) BY <1>6 DEF Resume, Absent
  <2>2. MoveArgs({o}, ResumeTarget(o), a, FALSE, delivery)
    BY <1>0, <2>1, ResumeTargetIsStatus, MoveArgsOne
  <2>3. blockedBy' \in [Orders -> Orders \cup {None}]
    BY <1>6 DEF Resume, TypeOK
  <2> QED BY <1>6, <2>2, <2>3, TypeOKFromMove DEF Resume, TypeOK
<1>7. ASSUME NEW o \in Orders, NEW a \in Actors, Unfreeze(o, a)
      PROVE  TypeOK'
  <2>1. Exists(o) BY <1>7 DEF Unfreeze, Absent
  <2>2. MoveArgs({o}, "in_progress", a, FALSE, delivery)
    BY <1>0, <1>s, <2>1, MoveArgsOne
  <2> QED BY <1>7, <2>2, TypeOKFromMove DEF Unfreeze, TypeOK
<1>8. ASSUME NEW o \in Orders, NEW who \in Agents, Assign(o, who)
      PROVE  TypeOK'
  BY <1>8 DEF Assign, TypeOK, orderVars
<1>9. ASSUME NEW S \in SUBSET Orders, NEW a \in Actors, RestartDone(S, a)
      PROVE  TypeOK'
  <2>1. MoveArgs(S, "closed", a, FALSE, delivery)
    BY <1>9, <1>0, <1>s DEF RestartDone, MoveArgs
  <2>2. blockedBy' \in [Orders -> Orders \cup {None}]
    BY <1>9 DEF RestartDone, Unblocked, TypeOK
  <2> QED BY <1>9, <2>1, <2>2, TypeOKFromMove DEF RestartDone, TypeOK
<1>10. ASSUME NEW o \in Orders, ReadOrder(o)
       PROVE  TypeOK'
  BY <1>10 DEF ReadOrder, TypeOK, Review, orderVars
<1>11. CASE UNCHANGED vars
  BY <1>11 DEF vars, orderVars, TypeOK
<1> QED
  BY <1>1, <1>2, <1>3, <1>4, <1>5, <1>6, <1>7, <1>8, <1>9, <1>10, <1>11 DEF Next

(* The variables keep their types on every run of the server, and whatever *)
(* can be paused can be resumed to where it was.                           *)
THEOREM TypeCorrect == Spec => []TypeOK
<1>1. Init => TypeOK BY InitTypeOK
<1>2. TypeOK /\ [Next]_vars => TypeOK' BY NextTypeOK
<1> QED BY <1>1, <1>2, PTL DEF Spec

-----------------------------------------------------------------------------
(* The review freeze.  The properties are not inductive by themselves:     *)
(* that a late decision is of the frozen delivery rests on revision        *)
(* numbers never going back, so that a number read before a freeze cannot  *)
(* equal the number the freeze gives.                                      *)

SnapshotsCounted == \A r \in revisions : r.rev <= auditRev[r.order]

ReadsCounted == \A o \in Orders : seen[o] # None => seen[o].rev <= auditRev[o]

ReadsUnderFreeze ==
  \A o \in Orders :
    seen[o] # None /\ frozen[o] /\ seen[o].rev = auditRev[o] =>
      seen[o].delivery = delivery[o]

FreezeInv == /\ ReviewIsFrozen /\ FrozenMatchesSnapshot
             /\ OneSnapshotPerRevision /\ SnapshotsCounted

ReviewInv == /\ FreezeInv
             /\ ReadsCounted /\ ReadsUnderFreeze
             /\ DecisionIsOfSnapshot /\ MergedIsReviewed

(* A request changes the delivery of the orders it moves, if not frozen.   *)
FreezeRespected(S, newDelivery) ==
  \A x \in Orders : newDelivery[x] # delivery[x] => x \in S /\ ~ frozen[x]

(* An order enters review with a fresh revision or is not touched by it.   *)
LEMMA MoveOnFreeze ==
  ASSUME TypeOK, ReviewIsFrozen, NEW S, NEW to, NEW by, NEW cancelled, NEW newDelivery,
         MoveArgs(S, to, by, cancelled, newDelivery),
         FreezeRespected(S, newDelivery),
         Move(S, to, by, cancelled, newDelivery),
         NEW x \in Orders
  PROVE  \/ /\ x \in Entering(S, to, cancelled)
            /\ status'[x] = "auditing" /\ frozen'[x]
            /\ auditRev'[x] = auditRev[x] + 1
            /\ [order |-> x, rev |-> auditRev[x] + 1, delivery |-> delivery'[x]] \in revisions'
         \/ /\ x \notin Entering(S, to, cancelled)
            /\ auditRev'[x] = auditRev[x]
            /\ frozen'[x] => frozen[x] /\ delivery'[x] = delivery[x]
            /\ frozen'[x] <=> status'[x] = "auditing" /\ auditRev[x] > 0
<1> USE DEF MoveArgs
<1>1. status'[x] = After(S, to, cancelled)[x]
  BY DEF Move
<1>2. frozen'[x] <=> (frozen[x] \/ x \in Entering(S, to, cancelled)) /\ x \notin Leaving(S, to)
  BY DEF Move, TypeOK
<1>3. auditRev[x] \in Nat /\ frozen[x] \in BOOLEAN
  BY DEF TypeOK
<1>4. delivery' = newDelivery
  BY DEF Move
<1>5. CASE x \in Entering(S, to, cancelled)
  <2>1. status'[x] = "auditing" /\ status[x] # "auditing"
    BY <1>1, <1>5 DEF Entering
  <2>2. frozen'[x]
    BY <1>2, <1>5, <2>1 DEF Leaving
  <2>3. auditRev'[x] = auditRev[x] + 1
    BY <1>5 DEF Move, NextRevision
  <2>4. Snapshot(x, newDelivery) \in revisions'
    BY <1>5 DEF Move
  <2> QED BY <1>4, <1>5, <2>1, <2>2, <2>3, <2>4 DEF Snapshot, NextRevision
<1>6. CASE x \notin Entering(S, to, cancelled)
  <2>1. auditRev'[x] = auditRev[x]
    BY <1>6 DEF Move
  <2>2. frozen'[x] => frozen[x] /\ delivery'[x] = delivery[x]
    BY <1>2, <1>4, <1>6 DEF FreezeRespected
  <2>3. frozen[x] <=> status[x] = "auditing" /\ auditRev[x] > 0
    BY DEF ReviewIsFrozen
  <2>4. CASE status[x] = "auditing" /\ x \in S
    <3>1. status'[x] = to
      BY <1>1, <2>4 DEF After
    <3>2. x \in Leaving(S, to) <=> to # "auditing"
      BY <2>4 DEF Leaving
    <3> QED BY <1>2, <1>6, <2>1, <2>2, <2>3, <2>4, <3>1, <3>2
  <2>5. CASE status[x] = "auditing" /\ x \notin S
    <3>1. status'[x] = "auditing"
      BY <1>1, <2>5 DEF After, Released
    <3>2. x \notin Leaving(S, to)
      BY <2>5 DEF Leaving
    <3> QED BY <1>2, <1>6, <2>1, <2>2, <2>3, <2>5, <3>1, <3>2
  <2>6. CASE status[x] # "auditing"
    <3>1. status'[x] # "auditing"
      BY <1>1, <1>6, <2>6 DEF Entering
    <3> QED BY <1>2, <1>6, <2>1, <2>2, <2>3, <2>6, <3>1
  <2> QED BY <2>4, <2>5, <2>6
<1> QED BY <1>5, <1>6

(* moveOrder keeps the freeze invariant, and forgets no snapshot.          *)
LEMMA MoveKeepsFreezeInv ==
  ASSUME TypeOK, FreezeInv, NEW S, NEW to, NEW by, NEW cancelled, NEW newDelivery,
         MoveArgs(S, to, by, cancelled, newDelivery),
         FreezeRespected(S, newDelivery),
         Move(S, to, by, cancelled, newDelivery)
  PROVE  FreezeInv' /\ revisions \subseteq revisions'
<1> DEFINE Enters(x) == x \in Entering(S, to, cancelled)
<1>0. auditRev \in [Orders -> Nat] /\ revisions \subseteq Revision
  BY DEF TypeOK
<1>1. revisions \subseteq revisions'
  BY DEF Move
<1>2. \A x \in Orders :
        \/ /\ Enters(x)
           /\ status'[x] = "auditing" /\ frozen'[x]
           /\ auditRev'[x] = auditRev[x] + 1
           /\ [order |-> x, rev |-> auditRev[x] + 1, delivery |-> delivery'[x]] \in revisions'
        \/ /\ ~ Enters(x)
           /\ auditRev'[x] = auditRev[x]
           /\ frozen'[x] => frozen[x] /\ delivery'[x] = delivery[x]
           /\ frozen'[x] <=> status'[x] = "auditing" /\ auditRev[x] > 0
  BY MoveOnFreeze DEF FreezeInv
<1>3. \A r \in revisions' : \/ r \in revisions
                            \/ /\ r.order \in Orders /\ Enters(r.order)
                               /\ r.rev = auditRev[r.order] + 1
                               /\ r = [order |-> r.order, rev |-> auditRev[r.order] + 1,
                                       delivery |-> newDelivery[r.order]]
  BY DEF Move, Snapshot, NextRevision, Entering
<1> HIDE DEF Enters
<1>4. ReviewIsFrozen'
  <2>1. ASSUME NEW x \in Orders
        PROVE  frozen'[x] <=> status'[x] = "auditing" /\ auditRev'[x] > 0
    <3>0. auditRev[x] \in Nat BY <1>0
    <3>1. CASE Enters(x)
      <4>1. status'[x] = "auditing" /\ frozen'[x] /\ auditRev'[x] = auditRev[x] + 1
        BY <1>2, <3>1
      <4>2. auditRev'[x] > 0 BY <3>0, <4>1
      <4> QED BY <4>1, <4>2
    <3>2. CASE ~ Enters(x) BY <1>2, <3>2
    <3> QED BY <3>1, <3>2
  <2> QED BY <2>1 DEF ReviewIsFrozen
<1>5. FrozenMatchesSnapshot'
  <2>1. ASSUME NEW x \in Orders, frozen'[x]
        PROVE  [order |-> x, rev |-> auditRev'[x], delivery |-> delivery'[x]] \in revisions'
    <3>1. CASE Enters(x) BY <1>2, <3>1
    <3>2. CASE ~ Enters(x)
      BY <1>1, <1>2, <2>1, <3>2 DEF FreezeInv, FrozenMatchesSnapshot
    <3> QED BY <3>1, <3>2
  <2> QED BY <2>1 DEF FrozenMatchesSnapshot
<1>6. SnapshotsCounted'
  <2>1. ASSUME NEW r \in revisions' PROVE r.rev <= auditRev'[r.order]
    <3>1. CASE r \in revisions
      <4>1. r.order \in Orders /\ r.rev \in Nat /\ r.rev <= auditRev[r.order]
        BY <1>0, <3>1 DEF FreezeInv, SnapshotsCounted, Revision
      <4>2. auditRev[r.order] \in Nat BY <1>0, <4>1
      <4>3. auditRev'[r.order] \in {auditRev[r.order], auditRev[r.order] + 1}
        BY <1>2, <4>1
      <4> QED BY <4>1, <4>2, <4>3
    <3>2. CASE r \notin revisions
      <4>1. r.order \in Orders /\ Enters(r.order) /\ r.rev = auditRev[r.order] + 1
        BY <1>3, <3>2
      <4>2. auditRev[r.order] \in Nat BY <1>0, <4>1
      <4>3. auditRev'[r.order] = auditRev[r.order] + 1
        BY <1>2, <4>1
      <4> QED BY <4>1, <4>2, <4>3
    <3> QED BY <3>1, <3>2
  <2> QED BY <2>1 DEF SnapshotsCounted
<1>7. OneSnapshotPerRevision'
  <2>1. ASSUME NEW r \in revisions', NEW s \in revisions', r.order = s.order, r.rev = s.rev
        PROVE  r = s
    <3>1. CASE r \in revisions /\ s \in revisions
      BY <2>1, <3>1 DEF FreezeInv, OneSnapshotPerRevision
    <3>2. CASE r \notin revisions /\ s \notin revisions
      BY <1>3, <2>1, <3>2
    <3>3. \A t \in revisions : t.order \in Orders /\ t.rev \in Nat /\ t.rev <= auditRev[t.order]
      BY <1>0 DEF FreezeInv, SnapshotsCounted, Revision
    <3>4. CASE r \in revisions /\ s \notin revisions
      BY <1>0, <1>3, <2>1, <3>3, <3>4
    <3>5. CASE r \notin revisions /\ s \in revisions
      BY <1>0, <1>3, <2>1, <3>3, <3>5
    <3> QED BY <3>1, <3>2, <3>4, <3>5
  <2> QED BY <2>1 DEF OneSnapshotPerRevision
<1> QED BY <1>1, <1>4, <1>5, <1>6, <1>7 DEF FreezeInv

(* What the reviewer read stays true of a frozen order.                    *)
LEMMA MoveKeepsReads ==
  ASSUME TypeOK, ReviewInv, NEW S, NEW to, NEW by, NEW cancelled, NEW newDelivery,
         MoveArgs(S, to, by, cancelled, newDelivery),
         FreezeRespected(S, newDelivery),
         Move(S, to, by, cancelled, newDelivery),
         seen' = seen
  PROVE  ReadsCounted' /\ ReadsUnderFreeze'
<1>1. ASSUME NEW x \in Orders, seen[x] # None
      PROVE  /\ seen[x].rev <= auditRev'[x]
             /\ frozen'[x] /\ seen[x].rev = auditRev'[x] => seen[x].delivery = delivery'[x]
  <2>1. seen[x].rev \in Nat /\ auditRev[x] \in Nat /\ seen[x].rev <= auditRev[x]
    BY <1>1 DEF ReviewInv, ReadsCounted, TypeOK, Review
  <2>2. CASE auditRev'[x] = auditRev[x] + 1
    BY <2>1, <2>2
  <2>3. CASE /\ auditRev'[x] = auditRev[x]
             /\ frozen'[x] => frozen[x] /\ delivery'[x] = delivery[x]
    BY <1>1, <2>1, <2>3 DEF ReviewInv, ReadsUnderFreeze
  <2> QED BY <2>2, <2>3, MoveOnFreeze DEF ReviewInv, FreezeInv
<1> QED BY <1>1 DEF ReadsCounted, ReadsUnderFreeze

(* An order waiting for the restart that the move is not about is left     *)
(* alone by it.                                                            *)
LEMMA OthersStayPending ==
  ASSUME TypeOK, NEW S, NEW to, NEW by, NEW cancelled, NEW newDelivery,
         MoveArgs(S, to, by, cancelled, newDelivery),
         FreezeRespected(S, newDelivery),
         Move(S, to, by, cancelled, newDelivery),
         NEW x \in Orders \ S, status'[x] = "pending_restart"
  PROVE  /\ status[x] = "pending_restart"
         /\ auditRev'[x] = auditRev[x] /\ delivery'[x] = delivery[x]
<1>1. status'[x] = After(S, to, cancelled)[x]
  BY DEF Move
<1>2. ResumeTarget(x) # "pending_restart"
  BY DEF ResumeTarget, ResumeTargetFrom, TRANSITIONS, ResumeTargets
<1>3. status[x] = "pending_restart"
  BY <1>1, <1>2 DEF After
<1>4. x \notin Entering(S, to, cancelled)
  BY <1>1 DEF Entering
<1> QED BY <1>3, <1>4 DEF Move, FreezeRespected

(* A move that is no review decision and ends in no merge.                 *)
LEMMA OtherMovesKeepReviewInv ==
  ASSUME TypeOK, ReviewInv, NEW S, NEW to, NEW by, NEW cancelled, NEW newDelivery,
         MoveArgs(S, to, by, cancelled, newDelivery),
         FreezeRespected(S, newDelivery),
         Move(S, to, by, cancelled, newDelivery),
         to # "pending_restart", UNCHANGED <<seen, decided>>
  PROVE  ReviewInv'
<1>1. FreezeInv' /\ revisions \subseteq revisions'
  BY MoveKeepsFreezeInv DEF ReviewInv
<1>2. ReadsCounted' /\ ReadsUnderFreeze'
  BY MoveKeepsReads
<1>3. DecisionIsOfSnapshot'
  BY <1>1 DEF ReviewInv, DecisionIsOfSnapshot
<1>4. MergedIsReviewed'
  <2>1. ASSUME NEW x \in Orders, status'[x] = "pending_restart", auditRev'[x] > 0
        PROVE  decided[x] = [rev |-> auditRev'[x], delivery |-> delivery'[x], by |-> MergeGate]
    <3>1. x \notin S
      BY <2>1 DEF Move, After
    <3>2. /\ status[x] = "pending_restart"
          /\ auditRev'[x] = auditRev[x] /\ delivery'[x] = delivery[x]
      BY <2>1, <3>1, OthersStayPending
    <3> QED BY <2>1, <3>2 DEF ReviewInv, MergedIsReviewed
  <2> QED BY <2>1 DEF MergedIsReviewed
<1> QED BY <1>1, <1>2, <1>3, <1>4 DEF ReviewInv

(* Only a review leads to a merge.                                         *)
LEMMA MergeComesFromReview ==
  ASSUME NEW s \in STATES, "pending_restart" \in TRANSITIONS[s]
  PROVE  s = "auditing"
BY DEF STATES, TRANSITIONS, ResumeTargets

LEMMA TransitionKeepsReviewInv ==
  ASSUME TypeOK, ReviewInv, NEW o \in Orders, NEW to \in STATES, NEW a \in Actors,
         NEW c \in BOOLEAN, NEW d \in Deliveries \cup {None}, Transition(o, to, a, c, d)
  PROVE  ReviewInv'
<1> DEFINE nd == IF d = None THEN delivery ELSE [delivery EXCEPT ![o] = d]
<1>1. nd \in [Orders -> Delivery]
  BY DEF TypeOK, Delivery
<1>2. MoveArgs({o}, to, a, c, nd)
  BY <1>1, MoveArgsOne DEF Transition
<1>3. Move({o}, to, a, c, nd)
  BY DEF Transition
<1>4. FreezeRespected({o}, nd)
  BY DEF Transition, FreezeBlocks, FreezeRespected, TypeOK
<1>5. frozen[o] => nd = delivery
  BY DEF Transition, FreezeBlocks
<1> HIDE DEF nd
<1>6. CASE BindsDecision(o, to, c)
  <2> DEFINE verdict == [rev |-> seen[o].rev, delivery |-> seen[o].delivery, by |-> a]
  <2>1. frozen[o]
    BY <1>6 DEF BindsDecision, ReviewInv, FreezeInv, ReviewIsFrozen
  <2>2. seen[o] # None /\ seen[o].rev = auditRev[o] /\ seen[o].delivery = delivery[o]
    BY <1>6, <2>1 DEF Transition, RevisionAgrees, ReviewInv, ReadsUnderFreeze
  <2>3. decided' = [decided EXCEPT ![o] = verdict]
    BY <1>6 DEF Transition
  <2>4. verdict = [rev |-> auditRev[o], delivery |-> delivery[o], by |-> a]
    BY <2>2
  <2>5. FreezeInv' /\ revisions \subseteq revisions'
    BY <1>2, <1>3, <1>4, MoveKeepsFreezeInv DEF ReviewInv
  <2>6. ReadsCounted' /\ ReadsUnderFreeze'
    BY <1>2, <1>3, <1>4, MoveKeepsReads DEF Transition
  <2>7. DecisionIsOfSnapshot'
    <3>1. [order |-> o, rev |-> auditRev[o], delivery |-> delivery[o]] \in revisions
      BY <2>1 DEF ReviewInv, FreezeInv, FrozenMatchesSnapshot
    <3>2. ASSUME NEW x \in Orders, decided'[x] # None
          PROVE  [order |-> x, rev |-> decided'[x].rev, delivery |-> decided'[x].delivery]
                   \in revisions'
      <4>1. CASE x = o
        <5>1. decided'[o] = verdict BY <2>3 DEF TypeOK
        <5> QED BY <2>4, <2>5, <3>1, <4>1, <5>1
      <4>2. CASE x # o
        <5>1. decided'[x] = decided[x] BY <2>3, <4>2 DEF TypeOK
        <5> QED BY <2>5, <3>2, <5>1 DEF ReviewInv, DecisionIsOfSnapshot
      <4> QED BY <4>1, <4>2
    <3> QED BY <3>2 DEF DecisionIsOfSnapshot
  <2>8. MergedIsReviewed'
    <3>1. ASSUME NEW x \in Orders, status'[x] = "pending_restart", auditRev'[x] > 0
          PROVE  decided'[x] = [rev |-> auditRev'[x], delivery |-> delivery'[x],
                                by |-> MergeGate]
      <4>1. CASE x = o
        <5>1. to = "pending_restart"
          BY <1>3, <3>1, <4>1 DEF Move, After
        <5>2. a = MergeGate
          BY <5>1 DEF Transition, NeedsGate, CanMerge
        <5>3. auditRev'[o] = auditRev[o]
          BY <1>3, <5>1 DEF Move, Entering, After
        <5>4. delivery'[o] = delivery[o]
          BY <1>3, <1>5, <2>1 DEF Move
        <5>5. decided'[o] = verdict
          BY <2>3 DEF TypeOK
        <5> QED BY <2>4, <4>1, <5>2, <5>3, <5>4, <5>5
      <4>2. CASE x # o
        <5>1. /\ status[x] = "pending_restart"
              /\ auditRev'[x] = auditRev[x] /\ delivery'[x] = delivery[x]
          BY <1>2, <1>3, <1>4, <3>1, <4>2, OthersStayPending
        <5>2. decided'[x] = decided[x] BY <2>3, <4>2 DEF TypeOK
        <5> QED BY <3>1, <5>1, <5>2 DEF ReviewInv, MergedIsReviewed
      <4> QED BY <4>1, <4>2
    <3> QED BY <3>1 DEF MergedIsReviewed
  <2> QED BY <2>5, <2>6, <2>7, <2>8 DEF ReviewInv
<1>7. CASE ~ BindsDecision(o, to, c)
  <2>1. UNCHANGED <<seen, decided>>
    BY <1>7 DEF Transition
  <2>2. CASE to # "pending_restart"
    BY <1>2, <1>3, <1>4, <2>1, <2>2, OtherMovesKeepReviewInv
  <2>3. CASE to = "pending_restart"
    <3>1. status[o] = "auditing"
      <4>1. status[o] \in STATES BY DEF Transition, Exists, TypeOK
      <4> QED BY <2>3, <4>1, MergeComesFromReview DEF Transition
    <3>2. ~ (auditRev[o] > 0)
      BY <1>7, <2>3, <3>1 DEF BindsDecision
    <3>3. auditRev'[o] = auditRev[o]
      BY <1>3, <2>3 DEF Move, Entering, After
    <3>4. FreezeInv' /\ revisions \subseteq revisions'
      BY <1>2, <1>3, <1>4, MoveKeepsFreezeInv DEF ReviewInv
    <3>5. ReadsCounted' /\ ReadsUnderFreeze'
      BY <1>2, <1>3, <1>4, <2>1, MoveKeepsReads
    <3>6. DecisionIsOfSnapshot'
      BY <2>1, <3>4 DEF ReviewInv, DecisionIsOfSnapshot
    <3>7. ASSUME NEW x \in Orders, status'[x] = "pending_restart", auditRev'[x] > 0
          PROVE  decided'[x] = [rev |-> auditRev'[x], delivery |-> delivery'[x],
                                by |-> MergeGate]
      <4>1. x # o BY <3>2, <3>3, <3>7
      <4>2. /\ status[x] = "pending_restart"
            /\ auditRev'[x] = auditRev[x] /\ delivery'[x] = delivery[x]
        BY <1>2, <1>3, <1>4, <3>7, <4>1, OthersStayPending
      <4> QED BY <2>1, <3>7, <4>2 DEF ReviewInv, MergedIsReviewed
    <3>8. MergedIsReviewed' BY <3>7 DEF MergedIsReviewed
    <3> QED BY <3>4, <3>5, <3>6, <3>8 DEF ReviewInv
  <2> QED BY <2>2, <2>3
<1> QED BY <1>6, <1>7

LEMMA InitReviewInv == Init => ReviewInv
BY DEF Init, ReviewInv, FreezeInv, ReviewIsFrozen, FrozenMatchesSnapshot,
       OneSnapshotPerRevision, SnapshotsCounted, ReadsCounted, ReadsUnderFreeze,
       DecisionIsOfSnapshot, MergedIsReviewed

LEMMA NextKeepsReviewInv == TypeOK /\ ReviewInv /\ [Next]_vars => ReviewInv'
<1> SUFFICES ASSUME TypeOK, ReviewInv, [Next]_vars PROVE ReviewInv'
  OBVIOUS
<1>0. delivery \in [Orders -> Delivery] /\ \A S : FreezeRespected(S, delivery)
  BY DEF TypeOK, FreezeRespected
<1>s. /\ "assigned" \in STATES /\ "in_progress" \in STATES /\ "paused" \in STATES
      /\ "auditing" \in STATES /\ "closed" \in STATES
  BY DEF STATES
<1>1. ASSUME NEW o \in Orders, NEW a \in Actors, NEW who \in Agents \cup {None},
             Create(o, a, who)
      PROVE  ReviewInv'
  <2>1. /\ status[o] = Absent /\ status' = [status EXCEPT ![o] = "draft"]
        /\ UNCHANGED <<frozen, auditRev, delivery, revisions, seen, decided>>
    BY <1>1 DEF Create, Exists
  <2>2. FreezeInv'
    BY <2>1 DEF ReviewInv, FreezeInv, ReviewIsFrozen, FrozenMatchesSnapshot,
                OneSnapshotPerRevision, SnapshotsCounted, TypeOK, Absent
  <2>3. ReadsCounted' /\ ReadsUnderFreeze' /\ DecisionIsOfSnapshot'
    BY <2>1 DEF ReviewInv, ReadsCounted, ReadsUnderFreeze, DecisionIsOfSnapshot
  <2>4. MergedIsReviewed'
    BY <2>1 DEF ReviewInv, MergedIsReviewed, TypeOK
  <2> QED BY <2>2, <2>3, <2>4 DEF ReviewInv
<1>2. ASSUME NEW o \in Orders, NEW a \in Actors, Dispatch(o, a)
      PROVE  ReviewInv'
  <2>1. MoveArgs({o}, "assigned", a, FALSE, delivery)
    BY <1>2, <1>0, <1>s, MoveArgsOne DEF Dispatch, Exists, Absent
  <2> QED BY <1>2, <1>0, <2>1, OtherMovesKeepReviewInv DEF Dispatch
<1>3. ASSUME NEW o \in Orders, NEW a \in Actors, Accept(o, a)
      PROVE  ReviewInv'
  <2> DEFINE to == IF status[o] = "submitted" THEN "auditing" ELSE "in_progress"
  <2>1. MoveArgs({o}, to, a, FALSE, delivery)
    BY <1>3, <1>0, <1>s, MoveArgsOne DEF Accept, Exists, Absent
  <2>2. Move({o}, to, a, FALSE, delivery) /\ to # "pending_restart"
    BY <1>3 DEF Accept
  <2> HIDE DEF to
  <2> QED BY <1>3, <1>0, <2>1, <2>2, OtherMovesKeepReviewInv DEF Accept
<1>4. ASSUME NEW o \in Orders, NEW to \in STATES, NEW a \in Actors, NEW c \in BOOLEAN,
             NEW d \in Deliveries \cup {None}, Transition(o, to, a, c, d)
      PROVE  ReviewInv'
  BY <1>4, TransitionKeepsReviewInv
<1>5. ASSUME NEW o \in Orders, NEW a \in Actors, NEW b \in Orders \cup {None},
             NEW k \in BOOLEAN, Pause(o, a, b, k)
      PROVE  ReviewInv'
  <2>1. MoveArgs({o}, "paused", a, FALSE, delivery)
    BY <1>5, <1>0, <1>s, MoveArgsOne DEF Pause
  <2> QED BY <1>5, <1>0, <2>1, OtherMovesKeepReviewInv DEF Pause
<1>6. ASSUME NEW o \in Orders, NEW a \in Actors, NEW k \in BOOLEAN, Resume(o, a, k)
      PROVE  ReviewInv'
  <2>1. MoveArgs({o}, ResumeTarget(o), a, FALSE, delivery)
    BY <1>6, <1>0, ResumeTargetIsStatus, MoveArgsOne DEF Resume, Exists, Absent
  <2>2. ResumeTarget(o) # "pending_restart"
    BY DEF ResumeTarget, ResumeTargetFrom, TRANSITIONS, ResumeTargets
  <2> QED BY <1>6, <1>0, <2>1, <2>2, OtherMovesKeepReviewInv DEF Resume
<1>7. ASSUME NEW o \in Orders, NEW a \in Actors, Unfreeze(o, a)
      PROVE  ReviewInv'
  <2>1. MoveArgs({o}, "in_progress", a, FALSE, delivery)
    BY <1>7, <1>0, <1>s, MoveArgsOne DEF Unfreeze, Exists, Absent
  <2> QED BY <1>7, <1>0, <2>1, OtherMovesKeepReviewInv DEF Unfreeze
<1>8. ASSUME NEW S \in SUBSET Orders, NEW a \in Actors, RestartDone(S, a)
      PROVE  ReviewInv'
  <2>1. MoveArgs(S, "closed", a, FALSE, delivery)
    BY <1>8, <1>0, <1>s DEF RestartDone, MoveArgs, STATES
  <2> QED BY <1>8, <1>0, <2>1, OtherMovesKeepReviewInv DEF RestartDone
<1>9. ASSUME NEW o \in Orders, ReadOrder(o)
      PROVE  ReviewInv'
  <2>1. /\ seen' = [seen EXCEPT ![o] = [rev |-> auditRev[o], delivery |-> delivery[o]]]
        /\ UNCHANGED <<status, frozen, auditRev, delivery, revisions, decided>>
    BY <1>9 DEF ReadOrder, orderVars
  <2>2. FreezeInv' /\ DecisionIsOfSnapshot' /\ MergedIsReviewed'
    BY <2>1 DEF ReviewInv, FreezeInv, ReviewIsFrozen, FrozenMatchesSnapshot,
                OneSnapshotPerRevision, SnapshotsCounted, DecisionIsOfSnapshot,
                MergedIsReviewed
  <2>3. ReadsCounted' /\ ReadsUnderFreeze'
    BY <2>1 DEF ReviewInv, ReadsCounted, ReadsUnderFreeze, TypeOK
  <2> QED BY <2>2, <2>3 DEF ReviewInv
<1>10. ASSUME UNCHANGED <<status, frozen, auditRev, delivery, revisions, seen, decided>>
       PROVE  ReviewInv'
  BY <1>10 DEF ReviewInv, FreezeInv, ReviewIsFrozen, FrozenMatchesSnapshot,
               OneSnapshotPerRevision, SnapshotsCounted, ReadsCounted, ReadsUnderFreeze,
               DecisionIsOfSnapshot, MergedIsReviewed
<1>11. ASSUME NEW o \in Orders, NEW who \in Agents, Assign(o, who)
       PROVE  ReviewInv'
  BY <1>10, <1>11 DEF Assign, orderVars
<1>12. CASE UNCHANGED vars
  BY <1>10, <1>12 DEF vars, orderVars
<1> QED
  BY <1>1, <1>2, <1>3, <1>4, <1>5, <1>6, <1>7, <1>8, <1>9, <1>11, <1>12 DEF Next

LEMMA ReviewInvariant == Spec => []ReviewInv
<1>1. Init => ReviewInv BY InitReviewInv
<1>2. TypeOK /\ ReviewInv /\ [Next]_vars => ReviewInv' BY NextKeepsReviewInv
<1> QED BY <1>1, <1>2, TypeCorrect, PTL DEF Spec

(* An order is frozen exactly while it is in review, whatever way it came  *)
(* in or left.                                                             *)
THEOREM FreezeCorrect == Spec => []ReviewIsFrozen
<1>1. ReviewInv => ReviewIsFrozen
  BY DEF ReviewInv, FreezeInv
<1> QED BY <1>1, ReviewInvariant, PTL

(* The delivery of a frozen order is the one of its snapshot: no PATCH,    *)
(* pause or reassignment changes it under the reviewer.                    *)
THEOREM FrozenDeliveryStays == Spec => []FrozenMatchesSnapshot
<1>1. ReviewInv => FrozenMatchesSnapshot
  BY DEF ReviewInv, FreezeInv
<1> QED BY <1>1, ReviewInvariant, PTL

(* A revision number names one delivery for good.                          *)
THEOREM RevisionsAreUnique == Spec => []OneSnapshotPerRevision
<1>1. ReviewInv => OneSnapshotPerRevision
  BY DEF ReviewInv, FreezeInv
<1> QED BY <1>1, ReviewInvariant, PTL

(* A late decision cannot release what the reviewer did not read.          *)
THEOREM DecisionsAreOfSnapshots == Spec => []DecisionIsOfSnapshot
<1>1. ReviewInv => DecisionIsOfSnapshot
  BY DEF ReviewInv
<1> QED BY <1>1, ReviewInvariant, PTL

(* What waits for a restart is what the merge gate read and passed.        *)
THEOREM MergesAreReviewed == Spec => []MergedIsReviewed
<1>1. ReviewInv => MergedIsReviewed
  BY DEF ReviewInv
<1> QED BY <1>1, ReviewInvariant, PTL

-----------------------------------------------------------------------------
(* How orders close: whose hand ends a review, what gets round one, and    *)
(* whom a close releases.                                                  *)

(* Nothing happens to an order after the entry that closed it.             *)
ClosedForGood == \A x \in Orders : closing[x] # None => status[x] = "closed"

(* Review leaves its entry in the timeline.                                *)
ReviewsAreEntered ==
  \A x \in Orders :
    status[x] \in {"auditing", "pending_restart"} => "auditing" \in entered[x]

(* What is accepted belongs to somebody whose work no gate reviews, and    *)
(* changes hands no more.                                                  *)
Unreviewed(x) == IsSelfManaged(assignee[x]) \/ MergeGate = None
AcceptedUnreviewed == \A x \in Orders : status[x] = "accepted" => Unreviewed(x)

ClosingInv == /\ ClosedForGood /\ ReviewsAreEntered /\ AcceptedUnreviewed
              /\ OnlyGateEndsReview /\ OnlyDraftSkipsReview

(* What an endpoint has checked when it moves the orders of S.             *)
ByGate(S, to, by) ==
  \A x \in S : /\ to = "closed"
               /\ \/ status[x] = "auditing"
                  \/ status[x] = "paused" /\ ResumeTarget(x) = "auditing"
               => by = MergeGate
InLane(S, to) ==
  \A x \in S : \/ to = "accepted"
               \/ to = "closed" /\ status[x] \in {"submitted", "rejected"}
               => Unreviewed(x)

(* moveOrder, for one order: it is moved, released, or left where it is.   *)
Closes(x, by, cancelled) ==
  closing'[x] = [from |-> status[x], by |-> by,
                 cancelled |-> IsCancelClose(status[x], "closed", cancelled)]
Stays(x) == closing'[x] = closing[x]

LEMMA Entered ==
  ASSUME TypeOK, NEW S \in SUBSET Orders, NEW to \in STATES, NEW by, NEW cancelled,
         NEW newDelivery, Move(S, to, by, cancelled, newDelivery), NEW x \in Orders
  PROVE  entered'[x] = entered[x] \cup ({status'[x]} \cap Milestones)
BY DEF Move, After

LEMMA MoveOfMember ==
  ASSUME TypeOK, NEW S \in SUBSET Orders, NEW to \in STATES, NEW by, NEW cancelled,
         NEW newDelivery, MoveArgs(S, to, by, cancelled, newDelivery),
         Move(S, to, by, cancelled, newDelivery), NEW x \in S
  PROVE  /\ status[x] \in STATES /\ to \in TRANSITIONS[status[x]] /\ status'[x] = to
         /\ to # "paused" => pausedFrom'[x] = pausedFrom[x]
         /\ to = "closed" => Closes(x, by, cancelled)
         /\ to # "closed" => Stays(x)
BY DEF Move, After, MoveArgs, Closes, Stays

LEMMA MoveOfOther ==
  ASSUME TypeOK, NEW S \in SUBSET Orders, NEW to \in STATES, NEW by, NEW cancelled,
         NEW newDelivery, Move(S, to, by, cancelled, newDelivery), NEW x \in Orders \ S
  PROVE  /\ Stays(x) /\ pausedFrom'[x] = pausedFrom[x]
         /\ \/ x \in Released(S, to, cancelled) /\ status[x] = "paused"
               /\ status'[x] = ResumeTarget(x)
            \/ x \notin Released(S, to, cancelled) /\ status'[x] = status[x]
<1>1. x \in Released(S, to, cancelled) => status[x] = "paused"
  BY DEF Released
<1>2. status'[x] = IF x \in Released(S, to, cancelled) THEN ResumeTarget(x) ELSE status[x]
  BY DEF Move, After
<1> QED
  BY <1>1, <1>2 DEF Move, Stays

(* The edges into and out of the statuses that matter here.                *)
LEMMA EdgesOfClosing ==
  ASSUME NEW s \in STATES, NEW t \in TRANSITIONS[s]
  PROVE  /\ s # "closed"
         /\ t = "pending_restart" => s = "auditing"
         /\ s = "accepted" => t = "closed"
BY DEF STATES, TRANSITIONS, ResumeTargets

LEMMA ResumeTargetIsOpen ==
  ASSUME TypeOK, NEW x \in Orders
  PROVE  ResumeTarget(x) \in ResumeTargets
BY NoneIsNothing DEF TypeOK, ResumeTarget, ResumeTargetFrom, TRANSITIONS, ResumeTargets, STATES

-----------------------------------------------------------------------------
(* moveOrder keeps ClosingInv, if the endpoint has asked the gate and kept *)
(* to the lanes.                                                           *)
LEMMA MoveKeepsClosing ==
  ASSUME TypeOK, ClosingInv, NEW S \in SUBSET Orders, NEW to \in STATES, NEW by \in Actors,
         NEW cancelled \in BOOLEAN, NEW newDelivery,
         MoveArgs(S, to, by, cancelled, newDelivery),
         Move(S, to, by, cancelled, newDelivery),
         ByGate(S, to, by), InLane(S, to), assignee' = assignee
  PROVE  ClosingInv'
<1>1. ASSUME NEW x \in Orders
      PROVE  /\ closing'[x] # None => status'[x] = "closed"
             /\ status'[x] \in {"auditing", "pending_restart"} => "auditing" \in entered'[x]
             /\ status'[x] = "accepted" => Unreviewed(x)
  <2>0. entered'[x] = entered[x] \cup ({status'[x]} \cap Milestones)
    BY Entered
  <2>1. CASE x \in S
    <3>1. /\ status[x] \in STATES /\ to \in TRANSITIONS[status[x]] /\ status'[x] = to
          /\ to # "closed" => Stays(x)
      BY <2>1, MoveOfMember
    <3>2. /\ status[x] # "closed" /\ (to = "pending_restart" => status[x] = "auditing")
      BY <3>1, EdgesOfClosing
    <3>3. to # "closed" => closing'[x] = None
      BY <3>1, <3>2 DEF Stays, ClosingInv, ClosedForGood
    <3>4. to = "accepted" => Unreviewed(x)
      BY <2>1 DEF InLane
    <3> QED
      BY <2>0, <3>1, <3>2, <3>3, <3>4 DEF ClosingInv, ReviewsAreEntered, Milestones
  <2>2. CASE x \notin S
    <3>1. Stays(x)
      BY <2>2, MoveOfOther
    <3>2. CASE status'[x] = status[x]
      BY <2>0, <3>1, <3>2
         DEF Stays, ClosingInv, ClosedForGood, ReviewsAreEntered, AcceptedUnreviewed
    <3>3. CASE status[x] = "paused" /\ status'[x] = ResumeTarget(x)
      <4>1. status'[x] \in ResumeTargets
        BY <3>3, ResumeTargetIsOpen
      <4>2. closing'[x] = None
        BY <3>1, <3>3 DEF Stays, ClosingInv, ClosedForGood
      <4> QED
        BY <2>0, <4>1, <4>2 DEF ResumeTargets, Milestones
    <3> QED
      BY <2>2, <3>2, <3>3, MoveOfOther
  <2> QED
    BY <2>1, <2>2
<1>2. ClosedForGood' /\ ReviewsAreEntered'
  BY <1>1 DEF ClosedForGood, ReviewsAreEntered
<1>3. AcceptedUnreviewed'
  BY <1>1 DEF AcceptedUnreviewed, Unreviewed
<1>4. ASSUME NEW x \in S, to = "closed"
      PROVE  /\ closing'[x].from = status[x] /\ closing'[x].by = by
             /\ closing'[x].cancelled = IsCancelClose(status[x], "closed", cancelled)
             /\ pausedFrom'[x] = pausedFrom[x] /\ entered'[x] = entered[x]
             /\ status[x] \in STATES \ {"closed"}
  <2>1. /\ status[x] \in STATES /\ to \in TRANSITIONS[status[x]] /\ status'[x] = to
        /\ Closes(x, by, cancelled) /\ pausedFrom'[x] = pausedFrom[x]
    BY <1>4, MoveOfMember
  <2>2. entered'[x] = entered[x]
    BY <1>4, <2>1, Entered DEF Milestones
  <2>3. /\ closing'[x].from = status[x] /\ closing'[x].by = by
        /\ closing'[x].cancelled = IsCancelClose(status[x], "closed", cancelled)
    <3> DEFINE c == IsCancelClose(status[x], "closed", cancelled)
    <3> HIDE DEF c
    <3>1. closing'[x] = [from |-> status[x], by |-> by, cancelled |-> c]
      BY <2>1, Zenon DEF Closes, c
    <3> QED
      BY <3>1 DEF c
  <2> QED
    BY <2>1, <2>2, <2>3, EdgesOfClosing
<1>5. ASSUME NEW x \in Orders, ~(x \in S /\ to = "closed"), closing'[x] # None
      PROVE  closing'[x] = closing[x] /\ pausedFrom'[x] = pausedFrom[x] /\ entered'[x] = entered[x]
  <2>1. Stays(x)
    <3>1. CASE x \in S
      BY <1>5, <3>1, MoveOfMember
    <3>2. CASE x \notin S
      BY <3>2, MoveOfOther
    <3> QED
      BY <3>1, <3>2
  <2>2. status[x] = "closed"
    BY <1>5, <2>1 DEF Stays, ClosingInv, ClosedForGood
  <2>3. x \notin S
    BY <2>2, MoveOfMember, EdgesOfClosing
  <2>4. pausedFrom'[x] = pausedFrom[x] /\ status'[x] = "closed"
    BY <2>2, <2>3, MoveOfOther
  <2>5. entered'[x] = entered[x]
    BY <2>4, Entered DEF Milestones
  <2> QED
    BY <2>1, <2>4, <2>5 DEF Stays
<1>6. OnlyGateEndsReview'
  <2> SUFFICES ASSUME NEW x \in Orders, closing'[x] # None,
                      \/ closing'[x].from = "auditing"
                      \/ closing'[x].from = "paused" /\ ResumeTargetFrom(pausedFrom'[x]) = "auditing"
               PROVE  closing'[x].by = MergeGate
    BY DEF OnlyGateEndsReview, ResumeTarget
  <2>1. CASE x \in S /\ to = "closed"
    <3>1. /\ closing'[x].from = status[x] /\ closing'[x].by = by
          /\ pausedFrom'[x] = pausedFrom[x]
      BY <1>4, <2>1
    <3> QED
      BY <2>1, <3>1 DEF ByGate, ResumeTarget
  <2>2. CASE ~(x \in S /\ to = "closed")
    BY <1>5, <2>2 DEF ClosingInv, OnlyGateEndsReview, ResumeTarget
  <2> QED
    BY <2>1, <2>2
<1>7. OnlyDraftSkipsReview'
  <2> SUFFICES ASSUME NEW x \in Orders, closing'[x] # None, "submitted" \in entered'[x]
               PROVE  \/ closing'[x].cancelled \/ "auditing" \in entered'[x]
                      \/ Unreviewed(x) \/ closing'[x].from = "draft"
    BY DEF OnlyDraftSkipsReview, Unreviewed
  <2>1. CASE x \in S /\ to = "closed"
    <3>1. status[x] \in {"submitted", "rejected"} => Unreviewed(x)
      BY <2>1 DEF InLane
    <3>2. status[x] = "accepted" => Unreviewed(x)
      BY DEF ClosingInv, AcceptedUnreviewed
    <3>3. status[x] \in {"auditing", "pending_restart"} => "auditing" \in entered'[x]
      BY <1>4, <2>1 DEF ClosingInv, ReviewsAreEntered
    <3>4. status[x] \in {"assigned", "in_progress", "paused"} => closing'[x].cancelled
      <4>1. closing'[x].cancelled = IsCancelClose(status[x], "closed", cancelled)
        BY <1>4, <2>1
      <4>2. status[x] \in {"assigned", "in_progress", "paused"} =>
              IsCancelClose(status[x], "closed", cancelled)
        BY DEF IsCancelClose, CancelEdges, CancelIntentEdges
      <4> QED
        BY <4>1, <4>2, Zenon
    <3>5. status[x] \in STATES \ {"closed"} /\ closing'[x].from = status[x]
      BY <1>4, <2>1
    <3> QED
      BY <3>1, <3>2, <3>3, <3>4, <3>5, Zenon DEF STATES
  <2>2. CASE ~(x \in S /\ to = "closed")
    BY <1>5, <2>2 DEF ClosingInv, OnlyDraftSkipsReview, Unreviewed
  <2> QED
    BY <2>1, <2>2
<1> QED
  BY <1>2, <1>3, <1>6, <1>7 DEF ClosingInv

(* A request for any status but `closed' and `accepted' needs no gate.     *)
LEMMA OtherMovesKeepClosing ==
  ASSUME TypeOK, ClosingInv, NEW o \in Orders, Exists(o),
         NEW to \in STATES \ {"closed", "accepted"}, NEW a \in Actors,
         Move({o}, to, a, FALSE, delivery), assignee' = assignee
  PROVE  ClosingInv'
<1>1. MoveArgs({o}, to, a, FALSE, delivery)
  BY MoveArgsOne DEF TypeOK
<1>2. ByGate({o}, to, a) /\ InLane({o}, to)
  BY DEF ByGate, InLane
<1> QED
  BY <1>1, <1>2, MoveKeepsClosing

LEMMA TransitionKeepsClosing ==
  ASSUME TypeOK, ClosingInv, NEW o \in Orders, NEW to \in STATES, NEW a \in Actors,
         NEW c \in BOOLEAN, NEW d \in Deliveries \cup {None}, Transition(o, to, a, c, d)
  PROVE  ClosingInv'
<1> DEFINE nd == IF d = None THEN delivery ELSE [delivery EXCEPT ![o] = d]
<1>1. nd \in [Orders -> Delivery]
  BY DEF TypeOK, Delivery
<1>2. MoveArgs({o}, to, a, c, nd)
  BY <1>1, MoveArgsOne DEF Transition
<1>3. Move({o}, to, a, c, nd) /\ assignee' = assignee
  BY DEF Transition
<1>4. ByGate({o}, to, a)
  <2>1. ASSUME to = "closed",
               \/ status[o] = "auditing"
               \/ status[o] = "paused" /\ ResumeTarget(o) = "auditing"
        PROVE  NeedsGate(o, to, c)
    BY <2>1 DEF NeedsGate, IsCancelClose, CancelEdges, CancelIntentEdges
  <2> QED
    BY <2>1 DEF Transition, CanMerge, ByGate
<1>5. InLane({o}, to)
  BY DEF Transition, LaneAllows, InLane, Unreviewed
<1> QED
  BY <1>2, <1>3, <1>4, <1>5, MoveKeepsClosing

LEMMA RestartKeepsClosing ==
  ASSUME TypeOK, ClosingInv, NEW S \in SUBSET Orders, NEW a \in Actors, RestartDone(S, a)
  PROVE  ClosingInv'
<1>1. \A x \in S : status[x] = "pending_restart"
  BY DEF RestartDone
<1>2. MoveArgs(S, "closed", a, FALSE, delivery)
  BY <1>1 DEF MoveArgs, TypeOK, STATES
<1>3. ByGate(S, "closed", a) /\ InLane(S, "closed")
  BY <1>1 DEF ByGate, InLane
<1>4. Move(S, "closed", a, FALSE, delivery) /\ assignee' = assignee
  BY DEF RestartDone
<1> QED
  BY <1>2, <1>3, <1>4, MoveKeepsClosing DEF STATES

(* Steps that write neither the status nor the timeline.                   *)
LEMMA AssignKeepsClosing ==
  ASSUME TypeOK, ClosingInv, NEW o \in Orders, NEW who \in Agents, Assign(o, who)
  PROVE  ClosingInv'
<1>1. /\ UNCHANGED orderVars /\ status[o] \notin {"closed", "accepted"}
      /\ assignee' = [assignee EXCEPT ![o] = who]
  BY DEF Assign
<1>2. \A x \in Orders : x # o => Unreviewed(x)' = Unreviewed(x)
  BY <1>1 DEF Unreviewed, TypeOK
<1>3. closing[o] = None /\ closing' = closing /\ status' = status
  BY <1>1 DEF ClosingInv, ClosedForGood, orderVars
<1>4. /\ ClosedForGood' /\ ReviewsAreEntered' /\ OnlyGateEndsReview'
  BY <1>1, <1>3 DEF ClosingInv, ClosedForGood, ReviewsAreEntered, OnlyGateEndsReview,
                    ResumeTarget, orderVars
<1>5. AcceptedUnreviewed'
  BY <1>1, <1>2, <1>3 DEF ClosingInv, AcceptedUnreviewed
<1>6. OnlyDraftSkipsReview'
  <2>1. ASSUME NEW x \in Orders, closing[x] # None, "submitted" \in entered[x]
        PROVE  \/ closing[x].cancelled \/ "auditing" \in entered[x]
               \/ Unreviewed(x)' \/ closing[x].from = "draft"
    BY <1>2, <1>3, <2>1 DEF ClosingInv, OnlyDraftSkipsReview, Unreviewed
  <2> QED
    BY <1>1, <2>1 DEF OnlyDraftSkipsReview, Unreviewed, orderVars
<1> QED
  BY <1>4, <1>5, <1>6 DEF ClosingInv

LEMMA CreateKeepsClosing ==
  ASSUME TypeOK, ClosingInv, NEW o \in Orders, NEW a \in Actors,
         NEW who \in Agents \cup {None}, Create(o, a, who)
  PROVE  ClosingInv'
<1>1. /\ UNCHANGED <<pausedFrom, entered, closing>> /\ status[o] = Absent
      /\ assignee' = [assignee EXCEPT ![o] = who] /\ status' = [status EXCEPT ![o] = "draft"]
  BY DEF Create, Exists
<1>2. \A x \in Orders : x # o => Unreviewed(x)' = Unreviewed(x) /\ status'[x] = status[x]
  BY <1>1 DEF Unreviewed, TypeOK
<1>3. closing[o] = None /\ status'[o] = "draft"
  BY <1>1 DEF ClosingInv, ClosedForGood, Absent, TypeOK
<1>4. ClosedForGood' /\ ReviewsAreEntered' /\ OnlyGateEndsReview'
  BY <1>1, <1>2, <1>3 DEF ClosingInv, ClosedForGood, ReviewsAreEntered, OnlyGateEndsReview,
                          ResumeTarget
<1>5. AcceptedUnreviewed'
  BY <1>2, <1>3 DEF ClosingInv, AcceptedUnreviewed
<1>6. OnlyDraftSkipsReview'
  <2>1. ASSUME NEW x \in Orders, closing[x] # None, "submitted" \in entered[x]
        PROVE  \/ closing[x].cancelled \/ "auditing" \in entered[x]
               \/ Unreviewed(x)' \/ closing[x].from = "draft"
    BY <1>2, <1>3, <2>1 DEF ClosingInv, OnlyDraftSkipsReview, Unreviewed
  <2> QED
    BY <1>1, <2>1 DEF OnlyDraftSkipsReview, Unreviewed
<1> QED
  BY <1>4, <1>5, <1>6 DEF ClosingInv

LEMMA StillKeepsClosing ==
  ASSUME ClosingInv, UNCHANGED <<orderVars, assignee>>
  PROVE  ClosingInv'
BY DEF ClosingInv, ClosedForGood, ReviewsAreEntered, AcceptedUnreviewed, Unreviewed,
       OnlyGateEndsReview, OnlyDraftSkipsReview, ResumeTarget, orderVars

LEMMA NextKeepsClosing == TypeOK /\ ClosingInv /\ [Next]_vars => ClosingInv'
<1> SUFFICES ASSUME TypeOK, ClosingInv, [Next]_vars PROVE ClosingInv'
  OBVIOUS
<1>1. CASE \E o \in Orders, a \in Actors, who \in Agents \cup {None} : Create(o, a, who)
  BY <1>1, CreateKeepsClosing
<1>2. CASE \E o \in Orders, a \in Actors : Dispatch(o, a)
  BY <1>2, OtherMovesKeepClosing DEF Dispatch, Exists, Absent, STATES
<1>3. CASE \E o \in Orders, a \in Actors : Accept(o, a)
  <2>1. PICK o \in Orders, a \in Actors : Accept(o, a)
    BY <1>3
  <2>2. CASE status[o] = "submitted"
    BY <2>1, <2>2, OtherMovesKeepClosing DEF Accept, Exists, Absent, STATES
  <2>3. CASE status[o] # "submitted"
    BY <2>1, <2>3, OtherMovesKeepClosing DEF Accept, Exists, Absent, STATES
  <2> QED
    BY <2>2, <2>3
<1>4. CASE \E o \in Orders, to \in STATES, a \in Actors, c \in BOOLEAN,
              d \in Deliveries \cup {None} : Transition(o, to, a, c, d)
  BY <1>4, TransitionKeepsClosing
<1>5. CASE \E o \in Orders, a \in Actors, b \in Orders \cup {None}, k \in BOOLEAN :
             Pause(o, a, b, k)
  BY <1>5, OtherMovesKeepClosing DEF Pause, STATES
<1>6. CASE \E o \in Orders, a \in Actors, k \in BOOLEAN : Resume(o, a, k)
  <2>1. PICK o \in Orders, a \in Actors, k \in BOOLEAN : Resume(o, a, k)
    BY <1>6
  <2>2. ResumeTarget(o) \in STATES \ {"closed", "accepted"}
    BY ResumeTargetIsOpen DEF ResumeTargets, STATES
  <2> QED
    BY <2>1, <2>2, OtherMovesKeepClosing DEF Resume, Exists, Absent
<1>7. CASE \E o \in Orders, a \in Actors : Unfreeze(o, a)
  BY <1>7, OtherMovesKeepClosing DEF Unfreeze, Exists, Absent, STATES
<1>8. CASE \E o \in Orders, who \in Agents : Assign(o, who)
  BY <1>8, AssignKeepsClosing
<1>9. CASE \E S \in SUBSET Orders, a \in Actors : RestartDone(S, a)
  BY <1>9, RestartKeepsClosing
<1>10. CASE \E o \in Orders : ReadOrder(o)
  BY <1>10, StillKeepsClosing DEF ReadOrder
<1>11. CASE UNCHANGED vars
  BY <1>11, StillKeepsClosing DEF vars
<1> QED
  BY <1>1, <1>2, <1>3, <1>4, <1>5, <1>6, <1>7, <1>8, <1>9, <1>10, <1>11 DEF Next

LEMMA InitClosing == Init => ClosingInv
BY DEF Init, ClosingInv, ClosedForGood, ReviewsAreEntered, AcceptedUnreviewed, Milestones, Absent,
       OnlyGateEndsReview, OnlyDraftSkipsReview

LEMMA ClosingInvariant == Spec => []ClosingInv
<1>1. ClosingInv /\ TypeOK /\ TypeOK' /\ [Next]_vars => ClosingInv'
  BY NextKeepsClosing
<1> QED
  BY <1>1, InitClosing, TypeCorrect, PTL DEF Spec

(* A review ends in `closed', directly or out of a pause, only by the hand *)
(* of the merge gate.                                                      *)
THEOREM GateEndsReviews == Spec => []OnlyGateEndsReview
<1>1. ClosingInv => OnlyGateEndsReview
  BY DEF ClosingInv
<1> QED
  BY <1>1, ClosingInvariant, PTL

(* Submitted work of the reviewed lane closes past a review only through   *)
(* `draft'.                                                                *)
THEOREM ReviewSkippedOnlyByDraft == Spec => []OnlyDraftSkipsReview
<1>1. ClosingInv => OnlyDraftSkipsReview
  BY DEF ClosingInv
<1> QED
  BY <1>1, ClosingInvariant, PTL

-----------------------------------------------------------------------------
(* Waiters.                                                                *)

CompletionReleases ==
  \A b, w \in Orders :
    Completes(b) /\ status[w] = "paused" /\ blockedBy[w] = b /\ w # b =>
      status'[w] = ResumeTarget(w) /\ blockedBy'[w] = None

MovedByCompletion ==
  \A w \in Orders :
    status'[w] # status[w] =>
      \/ \A o \in Orders \ {w} : status'[o] = status[o]
      \/ Completes(w)
      \/ status[w] = "paused" /\ blockedBy[w] # None /\ Completes(blockedBy[w])

(* What a move completes is what it closes and does not cancel.            *)
LEMMA CompletedByMove ==
  ASSUME TypeOK, NEW S \in SUBSET Orders, NEW to \in STATES, NEW by \in Actors,
         NEW cancelled \in BOOLEAN, NEW newDelivery,
         MoveArgs(S, to, by, cancelled, newDelivery),
         Move(S, to, by, cancelled, newDelivery), NEW b \in Orders, Completes(b)
  PROVE  b \in S /\ to = "closed" /\ ~ IsCancelClose(status[b], to, cancelled)
<1>1. ~ Stays(b)
  BY DEF Completes, Stays
<1>2. b \in S
  BY <1>1, MoveOfOther
<1>3. to = "closed"
  BY <1>1, <1>2, MoveOfMember
<1>4. Closes(b, by, cancelled)
  BY <1>2, <1>3, MoveOfMember
<1> DEFINE c == IsCancelClose(status[b], "closed", cancelled)
<1> HIDE DEF c
<1>5. closing'[b] = [from |-> status[b], by |-> by, cancelled |-> c]
  BY <1>4, Zenon DEF Closes, c
<1>6. ~ c
  BY <1>5 DEF Completes
<1> QED
  BY <1>2, <1>3, <1>6 DEF c

LEMMA MoveCompletes ==
  ASSUME TypeOK, ClosingInv, NEW S \in SUBSET Orders, NEW to \in STATES, NEW by \in Actors,
         NEW cancelled \in BOOLEAN, NEW newDelivery,
         MoveArgs(S, to, by, cancelled, newDelivery),
         Move(S, to, by, cancelled, newDelivery), NEW b \in S,
         to = "closed", ~ IsCancelClose(status[b], to, cancelled)
  PROVE  Completes(b)
<1>1. Closes(b, by, cancelled) /\ status[b] # "closed"
  BY MoveOfMember, EdgesOfClosing
<1>2. closing[b] = None
  BY <1>1 DEF ClosingInv, ClosedForGood
<1> DEFINE c == IsCancelClose(status[b], "closed", cancelled)
<1>3. ~ c /\ c \in BOOLEAN
  BY DEF IsCancelClose
<1> HIDE DEF c
<1>4. closing'[b] = [from |-> status[b], by |-> by, cancelled |-> c]
  BY <1>1, Zenon DEF Closes, c
<1>5. closing'[b] \in Closing
  BY <1>3, <1>4, MoveOfMember DEF Closing
<1> QED
  BY <1>2, <1>3, <1>4, <1>5, NoneIsNothing DEF Completes

(* A move that is not of the waiter itself: released, or left alone.       *)
LEMMA MoveReleases ==
  ASSUME TypeOK, NEW S \in SUBSET Orders, NEW to \in STATES, NEW by \in Actors,
         NEW cancelled \in BOOLEAN, NEW newDelivery,
         MoveArgs(S, to, by, cancelled, newDelivery),
         Move(S, to, by, cancelled, newDelivery),
         \A x, y \in S : x = y \/ status[x] # "paused",
         blockedBy' = Unblocked(S, to, cancelled)
  PROVE  CompletionReleases
<1> SUFFICES ASSUME NEW b \in Orders, NEW w \in Orders, Completes(b), status[w] = "paused",
                    blockedBy[w] = b, w # b
             PROVE  status'[w] = ResumeTarget(w) /\ blockedBy'[w] = None
  BY DEF CompletionReleases
<1>1. b \in S /\ to = "closed" /\ ~ IsCancelClose(status[b], to, cancelled)
  BY CompletedByMove
<1>2. w \notin S
  BY <1>1
<1>3. w \in Released(S, to, cancelled)
  BY <1>1, <1>2 DEF Released
<1> QED
  BY <1>2, <1>3, MoveOfOther DEF Unblocked

LEMMA MovedByMove ==
  ASSUME TypeOK, ClosingInv, NEW S \in SUBSET Orders, NEW to \in STATES, NEW by \in Actors,
         NEW cancelled \in BOOLEAN, NEW newDelivery,
         MoveArgs(S, to, by, cancelled, newDelivery),
         Move(S, to, by, cancelled, newDelivery),
         NEW w \in Orders \ S, status'[w] # status[w]
  PROVE  /\ status[w] = "paused" /\ blockedBy[w] \in S
         /\ Completes(blockedBy[w])
<1>1. w \in Released(S, to, cancelled) /\ status[w] = "paused"
  BY MoveOfOther
<1>2. PICK o \in S : /\ blockedBy[w] = o
                     /\ to = "closed" /\ ~ IsCancelClose(status[o], to, cancelled)
  BY <1>1 DEF Released
<1> QED
  BY <1>1, <1>2, MoveCompletes

LEMMA LoneMoveDisturbs ==
  ASSUME TypeOK, ClosingInv, NEW o \in Orders, NEW to \in STATES, NEW by \in Actors,
         NEW cancelled \in BOOLEAN, NEW newDelivery,
         MoveArgs({o}, to, by, cancelled, newDelivery),
         Move({o}, to, by, cancelled, newDelivery)
  PROVE  MovedByCompletion
<1> SUFFICES ASSUME NEW w \in Orders, status'[w] # status[w]
             PROVE  \/ \A x \in Orders \ {w} : status'[x] = status[x]
                    \/ Completes(w)
                    \/ status[w] = "paused" /\ blockedBy[w] # None /\ Completes(blockedBy[w])
  BY DEF MovedByCompletion
<1>1. CASE w # o
  BY <1>1, MovedByMove, RosterAssumption DEF RosterAssumption
<1>2. CASE w = o
  <2> SUFFICES ASSUME NEW x \in Orders \ {w}, status'[x] # status[x]
               PROVE  Completes(w)
    OBVIOUS
  <2> QED
    BY <1>2, MovedByMove
<1> QED
  BY <1>1, <1>2

(* A step that completes nothing releases nobody.                          *)
LEMMA NothingCompletes ==
  ASSUME closing' = closing
  PROVE  CompletionReleases
BY DEF CompletionReleases, Completes

LEMMA OtherMovesComplete ==
  ASSUME TypeOK, ClosingInv, NEW o \in Orders, Exists(o),
         NEW to \in STATES \ {"closed"}, NEW a \in Actors, Move({o}, to, a, FALSE, delivery)
  PROVE  CompletionReleases /\ MovedByCompletion
<1>1. MoveArgs({o}, to, a, FALSE, delivery)
  BY MoveArgsOne DEF TypeOK
<1>2. \A b \in Orders : ~ Completes(b)
  BY <1>1, CompletedByMove
<1> QED
  BY <1>1, <1>2, LoneMoveDisturbs DEF CompletionReleases

LEMMA TransitionReleases ==
  ASSUME TypeOK, ClosingInv, NEW o \in Orders, NEW to \in STATES, NEW a \in Actors,
         NEW c \in BOOLEAN, NEW d \in Deliveries \cup {None}, Transition(o, to, a, c, d)
  PROVE  CompletionReleases /\ MovedByCompletion
<1> DEFINE nd == IF d = None THEN delivery ELSE [delivery EXCEPT ![o] = d]
<1>1. nd \in [Orders -> Delivery]
  BY DEF TypeOK, Delivery
<1>2. MoveArgs({o}, to, a, c, nd)
  BY <1>1, MoveArgsOne DEF Transition
<1>3. Move({o}, to, a, c, nd) /\ blockedBy' = Unblocked({o}, to, c)
  BY DEF Transition
<1>4. \A x, y \in {o} : x = y \/ status[x] # "paused"
  OBVIOUS
<1>5. CompletionReleases
  BY <1>2, <1>3, <1>4, MoveReleases
<1> QED
  BY <1>2, <1>3, <1>5, LoneMoveDisturbs

LEMMA RestartReleases ==
  ASSUME TypeOK, ClosingInv, NEW S \in SUBSET Orders, NEW a \in Actors, RestartDone(S, a)
  PROVE  CompletionReleases /\ MovedByCompletion
<1>1. \A x \in S : status[x] = "pending_restart"
  BY DEF RestartDone
<1>2. MoveArgs(S, "closed", a, FALSE, delivery) /\ "closed" \in STATES
  BY <1>1 DEF MoveArgs, TypeOK, STATES
<1>3. Move(S, "closed", a, FALSE, delivery) /\ blockedBy' = Unblocked(S, "closed", FALSE)
  BY DEF RestartDone
<1>4. \A x, y \in S : x = y \/ status[x] # "paused"
  BY <1>1
<1>5. CompletionReleases
  BY <1>2, <1>3, <1>4, MoveReleases
<1>6. \A x \in S : Completes(x)
  <2> SUFFICES ASSUME NEW x \in S PROVE Completes(x)
    OBVIOUS
  <2>1. ~ IsCancelClose(status[x], "closed", FALSE)
    BY <1>1 DEF IsCancelClose, CancelEdges, CancelIntentEdges
  <2> QED
    BY <1>2, <1>3, <2>1, MoveCompletes
<1>7. MovedByCompletion
  <2> SUFFICES ASSUME NEW w \in Orders, status'[w] # status[w], w \notin S
               PROVE  status[w] = "paused" /\ blockedBy[w] # None /\ Completes(blockedBy[w])
    BY <1>6 DEF MovedByCompletion
  <2>1. status[w] = "paused" /\ blockedBy[w] \in S /\ Completes(blockedBy[w])
    BY <1>2, <1>3, MovedByMove
  <2> QED
    BY <2>1, RosterAssumption DEF RosterAssumption
<1> QED
  BY <1>5, <1>7

LEMMA StepsRelease ==
  TypeOK /\ ClosingInv /\ Next => CompletionReleases /\ MovedByCompletion
<1> SUFFICES ASSUME TypeOK, ClosingInv, Next PROVE CompletionReleases /\ MovedByCompletion
  OBVIOUS
<1>1. CASE \E o \in Orders, a \in Actors, who \in Agents \cup {None} : Create(o, a, who)
  BY <1>1, NothingCompletes DEF Create, MovedByCompletion, TypeOK
<1>2. CASE \E o \in Orders, a \in Actors : Dispatch(o, a)
  BY <1>2, OtherMovesComplete DEF Dispatch, Exists, Absent, STATES
<1>3. CASE \E o \in Orders, a \in Actors : Accept(o, a)
  <2>1. PICK o \in Orders, a \in Actors : Accept(o, a)
    BY <1>3
  <2>2. CASE status[o] = "submitted"
    BY <2>1, <2>2, OtherMovesComplete DEF Accept, Exists, Absent, STATES
  <2>3. CASE status[o] # "submitted"
    BY <2>1, <2>3, OtherMovesComplete DEF Accept, Exists, Absent, STATES
  <2> QED
    BY <2>2, <2>3
<1>4. CASE \E o \in Orders, to \in STATES, a \in Actors, c \in BOOLEAN,
              d \in Deliveries \cup {None} : Transition(o, to, a, c, d)
  BY <1>4, TransitionReleases
<1>5. CASE \E o \in Orders, a \in Actors, b \in Orders \cup {None}, k \in BOOLEAN :
             Pause(o, a, b, k)
  BY <1>5, OtherMovesComplete DEF Pause, STATES
<1>6. CASE \E o \in Orders, a \in Actors, k \in BOOLEAN : Resume(o, a, k)
  <2>1. PICK o \in Orders, a \in Actors, k \in BOOLEAN : Resume(o, a, k)
    BY <1>6
  <2>2. ResumeTarget(o) \in STATES \ {"closed"}
    BY ResumeTargetIsOpen DEF ResumeTargets, STATES
  <2> QED
    BY <2>1, <2>2, OtherMovesComplete DEF Resume, Exists, Absent
<1>7. CASE \E o \in Orders, a \in Actors : Unfreeze(o, a)
  BY <1>7, OtherMovesComplete DEF Unfreeze, Exists, Absent, STATES
<1>8. CASE \E o \in Orders, who \in Agents : Assign(o, who)
  BY <1>8, NothingCompletes DEF Assign, MovedByCompletion, orderVars
<1>9. CASE \E S \in SUBSET Orders, a \in Actors : RestartDone(S, a)
  BY <1>9, RestartReleases
<1>10. CASE \E o \in Orders : ReadOrder(o)
  BY <1>10, NothingCompletes DEF ReadOrder, MovedByCompletion, orderVars
<1> QED
  BY <1>1, <1>2, <1>3, <1>4, <1>5, <1>6, <1>7, <1>8, <1>9, <1>10 DEF Next

(* When an order completes, every waiter goes back, in that step, to where *)
(* it was paused from.                                                     *)
THEOREM WaitersAreReleased == Spec => CompletionReleasesWaiters
<1>1. TypeOK /\ ClosingInv /\ [Next]_vars => [CompletionReleases]_vars
  BY StepsRelease
<1>2. Spec => [][CompletionReleases]_vars
  BY <1>1, TypeCorrect, ClosingInvariant, PTL DEF Spec
<1> QED
  BY <1>2 DEF CompletionReleasesWaiters, CompletionReleases

(* A step of another order moves a waiter only by completing its blocker.  *)
THEOREM OnlyCompletionsRelease == Spec => OnlyCompletionReleases
<1>1. TypeOK /\ ClosingInv /\ [Next]_vars => [MovedByCompletion]_vars
  BY StepsRelease
<1>2. Spec => [][MovedByCompletion]_vars
  BY <1>1, TypeCorrect, ClosingInvariant, PTL DEF Spec
<1> QED
  BY <1>2 DEF OnlyCompletionReleases, MovedByCompletion
=============================================================================
