------------------------------- MODULE Nudge -------------------------------
(***************************************************************************)
(* src/lib/nudge.js: every scan reminds those who owe an action on an      *)
(* order that has stood still, at most one order for each person, and less *)
(* and less often as long as nothing they were reminded of moves.          *)
(*                                                                         *)
(* A time stamp is kept as its age, in ticks of the scan timer, up to      *)
(* Horizon: nothing tells apart what is older.  The exception is           *)
(* lastNudged, whose values are only compared with each other: `notAfter'  *)
(* is how they compare, an order never reminded of counting as time zero.  *)
(***************************************************************************)
EXTENDS WakeFreshness, Integers

CONSTANTS
  Orders,
  Agents,                   \* who may be assigned an order
  Starts, Walk,             \* statuses the orders of an instance begin with
                            \* and go through
  ClaimIdle, ProgressIdle,  \* claimIdleMs, progressIdleMs
  Base, Cap, After,         \* baseIntervalMs, backoffCapMs, backoffAfter
  Enough,                   \* strikes are counted up to here
  Horizon,
  MaxMoves                  \* how often people act on orders (bounds the check)

ASSUME BoundsArePositive ==
  /\ {After, Enough, Horizon, MaxMoves} \subseteq Nat \ {0}
  /\ {ClaimIdle, ProgressIdle, Base, Cap} \subseteq 1..Horizon
ASSUME StartsAreStates == Starts \subseteq STATES
ASSUME EnoughIsEnough == Enough >= After /\ Base * 2 ^ (Enough - (After - 1)) >= Cap

VARIABLES
  order,       \* status and assignee of each order
  still,       \* the age of its last movement, as it counts for each owner
  pacer,       \* what the process remembers of each owner
  notAfter,    \* pairs of orders: lastNudged of the first is no later
  unanswered,  \* reminders to an owner since something it was reminded of moved
  passed,      \* for a due order: how often its owner was reminded of each other
  sent,        \* what the last step reminded each owner of
  moves, restarted

vars == <<order, still, pacer, notAfter, unanswered, passed, sent, moves, restarted>>

Owners == Agents \cup {MergeGate}
Times  == 0..Horizon
Nothing == [w \in Owners |-> None]
UpTo2(n) == IF n = 2 THEN 2 ELSE n + 1
Older(t) == IF t = Horizon THEN t ELSE t + 1

(* NUDGE_STATES, with the threshold that applies to each.                  *)
ClaimStates == {"assigned", "submitted", "rejected"}
IdleFor == [s \in ClaimStates \cup {"in_progress", "auditing"} |->
              IF s \in ClaimStates THEN ClaimIdle ELSE ProgressIdle]

OwnerNow(o) == OwnerOf([status |-> order[o].status, assignee |-> order[o].assignee,
                        from |-> None])
Held(w) == {o \in Orders : order[o].status \in DOMAIN IdleFor /\ OwnerNow(o) = w}
Due(w)  == {o \in Held(w) : still[o][w] >= IdleFor[order[o].status]}

(* The map of the pacer.  `moved': a watched order has moved since the     *)
(* reminder, which shows as another time stamp.  Strikes and reminders are *)
(* counted up to Enough, where the interval has reached its cap.           *)
UpToEnough(n) == IF n = Enough THEN n ELSE n + 1
Unknown == [strikes |-> 0, since |-> Horizon, watched |-> {}, moved |-> FALSE,
            pending |-> FALSE]

Steps(strikes) == IF strikes < After THEN 0 ELSE strikes - (After - 1)
Doubled(k) ==
  LET t[i \in 0..k] == IF i = 0 THEN Base ELSE 2 * t[i - 1] IN t[k]
BackoffUncapped(strikes) == Doubled(Steps(strikes))
BackoffInterval(strikes) ==
  LET t == Doubled(Steps(strikes)) IN IF t < Cap THEN t ELSE Cap

(* movedSince: a watched order has moved or is not its owner's any more.   *)
MovedSince(w) == pacer[w].moved \/ ~(pacer[w].watched \subseteq Held(w))

(* evaluate: forgive, or settle the reminder that was not answered.        *)
EvaluateUnsettled(w) ==
  LET c == pacer[w]
  IN  IF c.watched # {} /\ MovedSince(w)
      THEN [c EXCEPT !.strikes = 0, !.watched = {}, !.moved = FALSE, !.pending = FALSE]
      ELSE c
Evaluate(w) ==
  LET c == pacer[w]
  IN  IF c.watched # {} /\ MovedSince(w)
      THEN [c EXCEPT !.strikes = 0, !.watched = {}, !.moved = FALSE, !.pending = FALSE]
      ELSE IF c.pending /\ c.since >= Base
      THEN [c EXCEPT !.strikes = UpToEnough(@), !.pending = FALSE]
      ELSE c

(* record.                                                                 *)
Recorded(c, w) ==
  [c EXCEPT !.since = 0, !.watched = Held(w), !.moved = FALSE, !.pending = TRUE]

(* The order a reminder is about: the one reminded of least recently, and  *)
(* of those reminded of together, or never, the one that has stood still   *)
(* for longest.                                                            *)
LongestStill(o, p, w) == still[o][w] >= still[p][w]
Before(o, p, w) ==
  /\ <<o, p>> \in notAfter
  /\ <<p, o>> \in notAfter => still[o][w] >= still[p][w]
Picks(w) == {o \in Due(w) : \A p \in Due(w) : Before(o, p, w)}

-----------------------------------------------------------------------------
(* A round over everybody who holds an order: what the pacer makes of each *)
(* owner, and whom it lets be reminded.                                    *)
Paced(w) == IF Held(w) = {} THEN pacer[w] ELSE Evaluate(w)
Quiet(w) == IF Held(w) # {} /\ MovedSince(w) THEN 0 ELSE unanswered[w]
Nudged ==
  {w \in Owners : Due(w) # {} /\ Paced(w).since >= BackoffInterval(Paced(w).strikes)}

(* Each of them is sent its pick.                                          *)
Send(pick) ==
  LET news == {pick[w] : w \in Nudged}
  IN  /\ notAfter' = {r \in Orders \X Orders :
                        r[2] \in news \/ (r[1] \notin news /\ r \in notAfter)}
      /\ passed' = [o \in Orders |-> [p \in Orders |->
           CASE o \in news -> 0
             [] o \notin news /\ (\E w \in Nudged : o \in Due(w) /\ p = pick[w])
                           -> UpTo2(passed[o][p])
             [] OTHER      -> passed[o][p]]]
      /\ sent' = [w \in Owners |-> IF w \in Nudged THEN pick[w] ELSE None]

(* scanOnce.  A reminder that is sent enters the chat and the dispatcher   *)
(* at once.                                                                *)
Scan ==
  /\ \E pick \in {f \in [Nudged -> Orders] : \A w \in Nudged : f[w] \in Picks(w)} : Send(pick)
  /\ pacer' = [w \in Owners |-> IF w \in Nudged THEN Recorded(Paced(w), w) ELSE Paced(w)]
  /\ unanswered' = [w \in Owners |-> IF w \in Nudged THEN UpToEnough(Quiet(w)) ELSE Quiet(w)]
  /\ UNCHANGED <<order, still, moves, restarted>>

(* The clock.                                                              *)
Tick ==
  /\ still' = [o \in Orders |-> [w \in Owners |-> Older(still[o][w])]]
  /\ pacer' = [w \in Owners |-> [pacer[w] EXCEPT !.since = Older(@)]]
  /\ sent' = Nothing
  /\ UNCHANGED <<order, notAfter, unanswered, passed, moves, restarted>>

(* Order o has moved, as it counts for the owners W.                       *)
Moved(o, W) ==
  /\ moves < MaxMoves
  /\ moves' = moves + 1
  /\ still' = [still EXCEPT ![o] = [w \in Owners |-> IF w \in W THEN 0 ELSE @[w]]]
  /\ pacer' = [w \in Owners |->
       [pacer[w] EXCEPT !.moved = @ \/ (w \in W /\ o \in pacer[w].watched)]]
  /\ passed' = [passed EXCEPT ![o] = [p \in Orders |-> 0]]
  /\ sent' = Nothing
  /\ UNCHANGED <<notAfter, unanswered, restarted>>

(* A transition: an entry of the timeline with a status.                   *)
Transition(o, s) ==
  /\ s \in TRANSITIONS[order[o].status] \cap Walk
  /\ order' = [order EXCEPT ![o].status = s]
  /\ Moved(o, Owners)

(* /assign writes no timeline entry, only a log line of the one who asks.  *)
Assign(o, a, actor) ==
  /\ order[o].status # "closed"
  /\ order' = [order EXCEPT ![o].assignee = a]
  /\ Moved(o, {actor})

(* A log line.                                                             *)
WriteLog(o, w) == Moved(o, {w}) /\ UNCHANGED order

(* The server restarts: pacer and lastNudged are in memory only.           *)
Restart ==
  /\ ~restarted
  /\ restarted' = TRUE
  /\ pacer' = [w \in Owners |-> Unknown]
  /\ notAfter' = Orders \X Orders
  /\ unanswered' = [w \in Owners |-> 0]
  /\ passed' = [o \in Orders |-> [p \in Orders |-> 0]]
  /\ sent' = Nothing
  /\ UNCHANGED <<order, still, moves>>

Init ==
  /\ order \in [Orders -> [status : Starts, assignee : Agents]]
  /\ still = [o \in Orders |-> [w \in Owners |-> 0]]
  /\ pacer = [w \in Owners |-> Unknown]
  /\ notAfter = Orders \X Orders
  /\ unanswered = [w \in Owners |-> 0]
  /\ passed = [o \in Orders |-> [p \in Orders |-> 0]]
  /\ sent = Nothing
  /\ moves = 0 /\ restarted = FALSE

Next ==
  \/ Scan \/ Tick \/ Restart
  \/ \E o \in Orders :
       \/ \E s \in Walk : Transition(o, s)
       \/ \E a \in Agents, w \in Owners : Assign(o, a, w)
       \/ \E w \in Owners : WriteLog(o, w)

(* The interval timer of start() and the clock.                            *)
Spec == Init /\ [][Next]_vars /\ WF_vars(Scan) /\ WF_vars(Tick)
-----------------------------------------------------------------------------
(* Types; the pacer waits for an answer only about orders it watches.      *)
TypeOK ==
  /\ order \in [Orders -> [status : STATES, assignee : Agents]]
  /\ still \in [Orders -> [Owners -> Times]]
  /\ pacer \in [Owners -> [strikes : 0..Enough, since : Times, watched : SUBSET Orders,
                           moved : BOOLEAN, pending : BOOLEAN]]
  /\ \A w \in Owners : pacer[w].watched = {} => ~pacer[w].moved /\ ~pacer[w].pending
  /\ notAfter \in SUBSET (Orders \X Orders)
  /\ \A o, p \in Orders : <<o, p>> \in notAfter \/ <<p, o>> \in notAfter
  /\ unanswered \in [Owners -> 0..Enough]
  /\ passed \in [Orders -> [Orders -> 0..2]]
  /\ sent \in [Owners -> Orders \cup {None}]

(* "Rate limiting is per person rather than per order" and "repeated       *)
(* unanswered nudges back off" (CHANGELOG.md:31): whichever orders the     *)
(* reminders are about, however often the timer fires and whatever arrives *)
(* in between, the one after n unanswered ones comes no sooner than the    *)
(* interval for n, and movement brings the interval back to the base.      *)
BacksOff ==
  [][\A w \in Owners : sent'[w] # None =>
       pacer[w].since >= BackoffInterval(IF MovedSince(w) THEN 0 ELSE unanswered[w])]_vars

(* "Rotate across an owner's due work" (nudge.js:205): while an order is   *)
(* due its owner is reminded of no other order twice, though orders move,  *)
(* change hands and stand still for different times.                       *)
NobodyIsPassedOverTwice == \A o, p \in Orders : passed[o][p] <= 1

(* Whoever owes an action is reminded of it, for as long as it does not    *)
(* move: neither backing off nor other orders silence a due order.         *)
EveryDueOrderIsReminded ==
  \A o \in Orders, w \in Owners : []<>(o \notin Due(w)) \/ []<>(sent[w] = o)
=============================================================================
