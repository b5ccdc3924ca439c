---------------------------- MODULE NudgeProofs ----------------------------
(***************************************************************************)
(* Theorems about Nudge, for any orders, people, thresholds and bounds.    *)
(*                                                                         *)
(* The argument for turns: an order that was passed over for another one   *)
(* was reminded of strictly before it, and that is what the sort looks at  *)
(* first.  The argument for backing off: the strikes of an owner are the   *)
(* unanswered reminders, all but the one that is not settled yet, and      *)
(* while that one is pending no other reminder is sent.                    *)
(***************************************************************************)
EXTENDS Nudge, WellFoundedInduction, TLAPS

-----------------------------------------------------------------------------
(* The interval.  A set of numbers with zero and every successor is all.   *)
LessThan == {ss \in Nat \X Nat : ss[1] < ss[2]}

LEMMA LessThanIsWellFounded == IsWellFoundedOn(LessThan, Nat)
BY NatLessThanWellFounded DEF OpToRel, LessThan

LEMMA NatSetInduction ==
  ASSUME NEW T, T \subseteq Nat, 0 \in T, \A n \in T : n + 1 \in T
  PROVE  T = Nat
<1> SUFFICES ASSUME Nat \ T # {} PROVE FALSE
  OBVIOUS
<1>1. PICK x \in Nat \ T : \A y \in Nat \ T : ~ (<<y, x>> \in LessThan)
  BY WFMin, LessThanIsWellFounded
<1>2. x # 0 /\ x - 1 \in Nat
  BY <1>1
<1>3. <<x - 1, x>> \in LessThan
  BY <1>2 DEF LessThan
<1>4. x - 1 \in T
  BY <1>1, <1>2, <1>3
<1> QED
  BY <1>1, <1>2, <1>4

(* The function that doubles Base up to k times exists, and stays above    *)
(* Base.                                                                   *)
IsDoubling(k, t) ==
  t = [i \in 0..k |-> IF i = 0 THEN Base ELSE 2 * t[i - 1]]

LEMMA DoublingExists ==
  ASSUME NEW k \in Nat
  PROVE  \E t \in [0..k -> Nat] : IsDoubling(k, t)
<1> DEFINE T == {n \in Nat : \E t \in [0..n -> Nat] : IsDoubling(n, t)}
<1>1. Base \in Nat
  BY BoundsArePositive
<1>2. 0 \in T
  <2>1. [i \in 0..0 |-> Base] \in [0..0 -> Nat]
    BY <1>1
  <2>2. IsDoubling(0, [i \in 0..0 |-> Base])
    BY DEF IsDoubling
  <2> QED
    BY <2>1, <2>2
<1>3. ASSUME NEW n \in T
      PROVE  n + 1 \in T
  <2>1. PICK t \in [0..n -> Nat] : IsDoubling(n, t)
    OBVIOUS
  <2> DEFINE u == [i \in 0..(n + 1) |-> IF i = n + 1 THEN 2 * t[n] ELSE t[i]]
  <2>2. u \in [0..(n + 1) -> Nat]
    OBVIOUS
  <2>3. \A i \in 0..(n + 1) : u[i] = IF i = 0 THEN Base ELSE 2 * u[i - 1]
    <3>1. \A i \in 0..n : t[i] = IF i = 0 THEN Base ELSE 2 * t[i - 1]
      BY <2>1 DEF IsDoubling
    <3>2. SUFFICES ASSUME NEW i \in 0..(n + 1)
                   PROVE  u[i] = IF i = 0 THEN Base ELSE 2 * u[i - 1]
      OBVIOUS
    <3>3. CASE i = 0
      BY <3>1, <3>3
    <3>4. CASE i \in 1..n
      <4>1. i - 1 \in 0..n /\ i # n + 1 /\ i - 1 # n + 1 /\ i # 0
        BY <3>4
      <4> QED
        BY <3>1, <4>1
    <3>5. CASE i = n + 1
      <4>1. i - 1 = n /\ n \in 0..(n + 1) /\ n # n + 1 /\ i # 0
        BY <3>5
      <4> QED
        BY <3>5, <4>1
    <3> QED
      BY <3>3, <3>4, <3>5
  <2>4. IsDoubling(n + 1, u)
    BY <2>3 DEF IsDoubling
  <2> QED
    BY <2>2, <2>4
<1> HIDE DEF T
<1>4. T \subseteq Nat
  BY DEF T
<1>5. T = Nat
  BY <1>2, <1>3, <1>4, NatSetInduction
<1> QED
  BY <1>5 DEF T

LEMMA DoublingGrows ==
  ASSUME NEW k \in Nat, NEW t, IsDoubling(k, t)
  PROVE  \A i \in 0..k : t[i] \in Nat /\ t[i] >= Base
<1> DEFINE T == {n \in Nat : n <= k => t[n] \in Nat /\ t[n] >= Base}
<1>1. Base \in Nat /\ \A i \in 0..k : t[i] = IF i = 0 THEN Base ELSE 2 * t[i - 1]
  BY BoundsArePositive DEF IsDoubling
<1>2. 0 \in T
  BY <1>1
<1>3. ASSUME NEW n \in T
      PROVE  n + 1 \in T
  BY <1>1
<1> HIDE DEF T
<1>4. T \subseteq Nat
  BY DEF T
<1>5. T = Nat
  BY <1>2, <1>3, <1>4, NatSetInduction
<1> QED
  BY <1>5 DEF T

LEMMA DoubledGrows ==
  ASSUME NEW k \in Nat
  PROVE  Doubled(k) \in Nat /\ Doubled(k) >= Base
<1>1. PICK t : IsDoubling(k, t)
  BY DoublingExists
<1>2. \E u : IsDoubling(k, u) /\ Doubled(k) = u[k]
  BY <1>1 DEF IsDoubling, Doubled
<1> QED
  BY <1>2, DoublingGrows

(* Whatever the strikes, the interval is the cap or between base and cap.  *)
LEMMA Intervals ==
  ASSUME NEW s \in 0..Enough
  PROVE  /\ BackoffInterval(s) \in Nat /\ BackoffInterval(s) <= Cap
         /\ Base <= Cap => BackoffInterval(s) >= Base
         /\ Base > Cap => BackoffInterval(s) = Cap
<1>1. Steps(s) \in Nat
  BY BoundsArePositive DEF Steps
<1>2. Doubled(Steps(s)) \in Nat /\ Doubled(Steps(s)) >= Base
  BY <1>1, DoubledGrows
<1> QED
  BY <1>2, BoundsArePositive DEF BackoffInterval

-----------------------------------------------------------------------------
(* Types.                                                                  *)
Pacer == [strikes : 0..Enough, since : Times, watched : SUBSET Orders,
          moved : BOOLEAN, pending : BOOLEAN]

(* Of an owner without watched orders nothing is awaited.                  *)
Calm(c) == c.watched = {} => ~ c.moved /\ ~ c.pending

(* evaluate and record keep the columns of the pacer.                      *)
LEMMA PacedTypes ==
  ASSUME TypeOK, NEW w \in Owners
  PROVE  Paced(w) \in Pacer /\ Calm(Paced(w)) /\ Recorded(Paced(w), w) \in Pacer
<1>1. pacer[w] \in Pacer /\ Calm(pacer[w])
  BY DEF TypeOK, Pacer, Calm
<1>2. Evaluate(w) \in Pacer /\ Calm(Evaluate(w))
  <2> DEFINE c == pacer[w]
  <2>1. CASE c.watched # {} /\ MovedSince(w)
    <3>1. Evaluate(w) = [c EXCEPT !.strikes = 0, !.watched = {}, !.moved = FALSE, !.pending = FALSE]
      BY <2>1 DEF Evaluate
    <3>2. 0 \in 0..Enough
      BY BoundsArePositive
    <3>3. c \in Pacer
      BY <1>1
    <3> HIDE DEF c
    <3> QED
      BY <3>1, <3>2, <3>3 DEF Pacer, Calm
  <2>2. CASE ~ (c.watched # {} /\ MovedSince(w)) /\ c.pending /\ c.since >= Base
    <3>1. Evaluate(w) = [c EXCEPT !.strikes = UpToEnough(@), !.pending = FALSE]
      BY <2>2 DEF Evaluate
    <3>2. UpToEnough(c.strikes) \in 0..Enough
      BY <1>1, BoundsArePositive DEF Pacer, UpToEnough
    <3> QED
      BY <1>1, <3>1, <3>2 DEF Pacer, Calm
  <2>3. CASE ~ (c.watched # {} /\ MovedSince(w)) /\ ~ (c.pending /\ c.since >= Base)
    <3>1. Evaluate(w) = c
      BY <2>3 DEF Evaluate
    <3> QED
      BY <1>1, <3>1
  <2> QED
    BY <2>1, <2>2, <2>3
<1>3. Paced(w) \in Pacer /\ Calm(Paced(w))
  BY <1>1, <1>2 DEF Paced
<1>4. Held(w) \subseteq Orders /\ 0 \in Times
  BY BoundsArePositive DEF Held, Times
<1>5. Recorded(Paced(w), w) \in Pacer
  BY <1>3, <1>4 DEF Recorded, Pacer
<1> QED
  BY <1>3, <1>5

LEMMA ScanTypes ==
  ASSUME TypeOK, Scan
  PROVE  TypeOK'
<1> PICK pick \in [Nudged -> Orders] : (\A w \in Nudged : pick[w] \in Picks(w)) /\ Send(pick)
  BY DEF Scan
<1>1. pacer' \in [Owners -> Pacer]
  BY PacedTypes DEF Scan
<1>2. ASSUME NEW w \in Owners
      PROVE  Calm(pacer'[w])
  <2>1. CASE w \in Nudged
    <3>1. pacer'[w] = Recorded(Paced(w), w) /\ Held(w) # {}
      BY <2>1 DEF Scan, Nudged, Due
    <3>2. Paced(w) \in Pacer
      BY PacedTypes
    <3>3. pacer'[w].watched = Held(w)
      BY <3>1, <3>2 DEF Recorded, Pacer
    <3> QED
      BY <3>1, <3>3 DEF Calm
  <2>2. CASE w \notin Nudged
    BY <2>2, PacedTypes DEF Scan
  <2> QED
    BY <2>1, <2>2
<1>3. unanswered' \in [Owners -> 0..Enough]
  <2>1. \A n \in 0..Enough : UpToEnough(n) \in 0..Enough
    BY BoundsArePositive DEF UpToEnough
  <2>2. \A w \in Owners : Quiet(w) \in 0..Enough
    BY BoundsArePositive DEF TypeOK, Quiet
  <2> QED
    BY <2>1, <2>2 DEF Scan
<1>4. passed' \in [Orders -> [Orders -> 0..2]]
  <2>1. \A o, p \in Orders : passed[o][p] \in 0..2 /\ UpTo2(passed[o][p]) \in 0..2
    BY DEF TypeOK, UpTo2
  <2> QED
    BY <2>1 DEF Send
<1>5. sent' \in [Owners -> Orders \cup {None}]
  BY DEF Send
<1>6. /\ notAfter' \in SUBSET (Orders \X Orders)
      /\ \A o, p \in Orders : <<o, p>> \in notAfter' \/ <<p, o>> \in notAfter'
  BY DEF Send, TypeOK
<1>7. order' = order /\ still' = still
  BY DEF Scan
<1> QED
  BY <1>1, <1>2, <1>3, <1>4, <1>5, <1>6, <1>7 DEF TypeOK, Pacer, Calm

(* Movement, with the order it is about already written.                   *)
LEMMA MovedTypes ==
  ASSUME TypeOK, NEW o \in Orders, NEW W, Moved(o, W),
         order' \in [Orders -> [status : STATES, assignee : Agents]]
  PROVE  TypeOK'
<1>1. still' \in [Orders -> [Owners -> Times]]
  BY BoundsArePositive DEF Moved, TypeOK, Times
<1>2. \A w \in Owners : pacer[w] \in Pacer /\ Calm(pacer[w])
  BY DEF TypeOK, Pacer, Calm
<1>3. ASSUME NEW w \in Owners
      PROVE  pacer'[w] \in Pacer /\ Calm(pacer'[w])
  <2> DEFINE hit == w \in W /\ o \in pacer[w].watched
             b == pacer[w].moved \/ hit
  <2>1. pacer'[w] = [pacer[w] EXCEPT !.moved = b]
    BY Zenon DEF Moved
  <2>2. b \in BOOLEAN /\ (pacer[w].watched = {} => ~ b)
    BY <1>2, Zenon DEF Pacer, Calm
  <2> HIDE DEF b
  <2> QED
    BY <1>2, <2>1, <2>2 DEF Pacer, Calm
<1>4. pacer' \in [Owners -> Pacer]
  <2>1. \E f : pacer' = [w \in Owners |-> f[w]]
    <3>1. pacer' = [w \in Owners |-> pacer'[w]]
      BY Zenon DEF Moved
    <3> QED
      BY <3>1
  <2> QED
    BY <1>3, <2>1
<1>5. passed' \in [Orders -> [Orders -> 0..2]]
  BY DEF Moved, TypeOK
<1>6. sent' \in [Owners -> Orders \cup {None}]
  BY DEF Moved, Nothing
<1>7. notAfter' = notAfter /\ unanswered' = unanswered
  BY DEF Moved
<1> QED
  BY <1>1, <1>3, <1>4, <1>5, <1>6, <1>7 DEF TypeOK, Pacer, Calm

LEMMA InitTypes == Init => TypeOK
<1> SUFFICES ASSUME Init PROVE TypeOK
  OBVIOUS
<1>1. order \in [Orders -> [status : STATES, assignee : Agents]]
  BY StartsAreStates DEF Init
<1>2. still \in [Orders -> [Owners -> Times]]
  BY BoundsArePositive DEF Init, Times
<1>3. pacer \in [Owners -> Pacer] /\ \A w \in Owners : Calm(pacer[w])
  BY BoundsArePositive DEF Init, Unknown, Pacer, Calm, Times
<1>4. /\ unanswered \in [Owners -> 0..Enough]
      /\ passed \in [Orders -> [Orders -> 0..2]]
      /\ sent \in [Owners -> Orders \cup {None}]
      /\ notAfter = Orders \X Orders
  BY BoundsArePositive DEF Init, Nothing
<1> QED
  BY <1>1, <1>2, <1>3, <1>4 DEF TypeOK, Pacer, Calm

LEMMA TypesKept ==
  ASSUME TypeOK, [Next]_vars
  PROVE  TypeOK'
<1>1. CASE Scan
  BY <1>1, ScanTypes
<1>2. CASE Tick
  <2>1. \A t \in Times : Older(t) \in Times
    BY BoundsArePositive DEF Times, Older
  <2>2. still' \in [Orders -> [Owners -> Times]]
    BY <1>2, <2>1 DEF Tick, TypeOK
  <2>3. \A w \in Owners : pacer[w] \in Pacer /\ Calm(pacer[w])
    BY DEF TypeOK, Pacer, Calm
  <2>4. \A w \in Owners : /\ [pacer[w] EXCEPT !.since = Older(@)] \in Pacer
                          /\ Calm([pacer[w] EXCEPT !.since = Older(@)])
    BY <2>1, <2>3 DEF Pacer, Calm
  <2>5. pacer' \in [Owners -> Pacer] /\ \A w \in Owners : Calm(pacer'[w])
    BY <1>2, <2>4 DEF Tick
  <2>6. sent' \in [Owners -> Orders \cup {None}]
    BY <1>2 DEF Tick, Nothing
  <2> QED
    BY <1>2, <2>2, <2>5, <2>6 DEF Tick, TypeOK, Pacer, Calm
<1>3. CASE Restart
  <2>1. Unknown \in Pacer /\ Calm(Unknown)
    BY BoundsArePositive DEF Unknown, Pacer, Calm, Times
  <2>2. pacer' \in [Owners -> Pacer] /\ \A w \in Owners : Calm(pacer'[w])
    BY <1>3, <2>1 DEF Restart
  <2>3. /\ unanswered' \in [Owners -> 0..Enough]
        /\ passed' \in [Orders -> [Orders -> 0..2]]
        /\ sent' \in [Owners -> Orders \cup {None}]
        /\ notAfter' = Orders \X Orders /\ order' = order /\ still' = still
    BY <1>3, BoundsArePositive DEF Restart, Nothing
  <2> QED
    BY <2>2, <2>3 DEF TypeOK, Pacer, Calm
<1>4. ASSUME NEW o \in Orders, NEW s \in Walk, Transition(o, s)
      PROVE  TypeOK'
  <2>1. order[o].status \in STATES /\ s \in TRANSITIONS[order[o].status]
    BY <1>4 DEF Transition, TypeOK
  <2>2. s \in STATES
    BY <2>1 DEF STATES, TRANSITIONS, ResumeTargets
  <2>3. order' \in [Orders -> [status : STATES, assignee : Agents]]
    BY <1>4, <2>2 DEF Transition, TypeOK
  <2> QED
    BY <1>4, <2>3, MovedTypes DEF Transition
<1>5. ASSUME NEW o \in Orders, NEW a \in Agents, NEW w \in Owners, Assign(o, a, w)
      PROVE  TypeOK'
  <2>1. order' \in [Orders -> [status : STATES, assignee : Agents]]
    BY <1>5 DEF Assign, TypeOK
  <2> QED
    BY <1>5, <2>1, MovedTypes DEF Assign
<1>6. ASSUME NEW o \in Orders, NEW w \in Owners, WriteLog(o, w)
      PROVE  TypeOK'
  <2>1. order' \in [Orders -> [status : STATES, assignee : Agents]]
    BY <1>6 DEF WriteLog, TypeOK
  <2> QED
    BY <1>6, <2>1, MovedTypes DEF WriteLog
<1>7. CASE UNCHANGED vars
  BY <1>7 DEF TypeOK, vars
<1> QED
  BY <1>1, <1>2, <1>3, <1>4, <1>5, <1>6, <1>7 DEF Next

-----------------------------------------------------------------------------
(* Turns: whom an order was passed over for was reminded of after it.      *)
PassedOverForLater ==
  \A o, p \in Orders : passed[o][p] # 0 => <<p, o>> \notin notAfter

TurnsInv == NobodyIsPassedOverTwice /\ PassedOverForLater

LEMMA ScanTakesTurns ==
  ASSUME TypeOK, TurnsInv, Scan
  PROVE  TurnsInv'
<1> PICK pick \in [Nudged -> Orders] : (\A w \in Nudged : pick[w] \in Picks(w)) /\ Send(pick)
  BY DEF Scan
<1> DEFINE news == {pick[w] : w \in Nudged}
<1> SUFFICES ASSUME NEW o \in Orders, NEW p \in Orders
             PROVE  /\ passed'[o][p] <= 1
                    /\ passed'[o][p] # 0 => <<p, o>> \notin notAfter'
  BY DEF TurnsInv, NobodyIsPassedOverTwice, PassedOverForLater
<1>1. <<p, o>> \in notAfter' <=> o \in news \/ (p \notin news /\ <<p, o>> \in notAfter)
  BY DEF Send
<1>2. passed[o][p] \in 0..2 /\ passed[o][p] <= 1
  BY DEF TypeOK, TurnsInv, NobodyIsPassedOverTwice
<1>3. CASE o \in news
  BY <1>3 DEF Send
<1>4. CASE o \notin news /\ \E w \in Nudged : o \in Due(w) /\ p = pick[w]
  <2>1. passed'[o][p] = UpTo2(passed[o][p])
    BY <1>4 DEF Send
  <2>2. p \in news
    BY <1>4
  <2>3. <<p, o>> \in notAfter
    BY <1>4 DEF Picks, Before
  <2>4. passed[o][p] = 0
    BY <2>3 DEF TurnsInv, PassedOverForLater
  <2> QED
    BY <1>1, <1>4, <2>1, <2>2, <2>4 DEF UpTo2
<1>5. CASE o \notin news /\ ~ \E w \in Nudged : o \in Due(w) /\ p = pick[w]
  <2>1. passed'[o][p] = passed[o][p]
    BY <1>5 DEF Send
  <2> QED
    BY <1>1, <1>2, <1>5, <2>1 DEF TurnsInv, PassedOverForLater
<1> QED
  BY <1>3, <1>4, <1>5

LEMMA TurnsKept ==
  ASSUME TypeOK, TurnsInv, [Next]_vars
  PROVE  TurnsInv'
<1>1. CASE Scan
  BY <1>1, ScanTakesTurns
<1>2. CASE Restart
  BY <1>2 DEF Restart, TurnsInv, NobodyIsPassedOverTwice, PassedOverForLater
<1>3. ASSUME NEW o \in Orders, NEW W, Moved(o, W)
      PROVE  TurnsInv'
  <2>1. notAfter' = notAfter
        /\ \A x, p \in Orders : passed'[x][p] \in {0, passed[x][p]}
    BY <1>3 DEF Moved, TypeOK
  <2> QED
    BY <2>1 DEF TurnsInv, NobodyIsPassedOverTwice, PassedOverForLater
<1>4. CASE \/ Tick
           \/ UNCHANGED vars
  BY <1>4 DEF Tick, vars, TurnsInv, NobodyIsPassedOverTwice, PassedOverForLater
<1> QED
  BY <1>1, <1>2, <1>3, <1>4 DEF Next, Transition, Assign, WriteLog

-----------------------------------------------------------------------------
(* Backing off: what the pacer counts are the unanswered reminders.  (With *)
(* a cap below the base a reminder may follow one that is not settled; the *)
(* interval is the cap then, whatever is counted.)                         *)
CountsUnanswered ==
  Base <= Cap =>
    \A w \in Owners :
      unanswered[w] = IF pacer[w].pending THEN UpToEnough(pacer[w].strikes)
                      ELSE pacer[w].strikes

(* What one owner is to the scan: forgiven, settled, or as it was.         *)
LEMMA Paces ==
  ASSUME TypeOK, NEW w \in Owners, Held(w) # {}
  PROVE  LET c == pacer[w]  d == Paced(w)
         IN  /\ c.strikes \in 0..Enough /\ d.since = c.since
             /\ \/ MovedSince(w) /\ d.strikes = 0 /\ ~ d.pending
                \/ /\ ~ MovedSince(w) /\ c.pending /\ c.since >= Base
                   /\ d.strikes = UpToEnough(c.strikes) /\ ~ d.pending
                \/ /\ ~ MovedSince(w) /\ ~ (c.pending /\ c.since >= Base) /\ d = c
<1> DEFINE c == pacer[w]
<1>1. c \in Pacer /\ Calm(c)
  BY DEF TypeOK, Pacer, Calm
<1>2. MovedSince(w) => c.watched # {}
  BY <1>1 DEF MovedSince, Calm
<1>3. Paced(w) = Evaluate(w)
  BY DEF Paced
<1>4. CASE MovedSince(w)
  <2>1. Paced(w) = [c EXCEPT !.strikes = 0, !.watched = {}, !.moved = FALSE, !.pending = FALSE]
    BY <1>2, <1>3, <1>4 DEF Evaluate
  <2> HIDE DEF c
  <2> QED
    BY <1>1, <1>4, <2>1 DEF Pacer, c
<1>5. CASE ~ MovedSince(w) /\ c.pending /\ c.since >= Base
  <2>1. Paced(w) = [c EXCEPT !.strikes = UpToEnough(@), !.pending = FALSE]
    BY <1>3, <1>5 DEF Evaluate
  <2> HIDE DEF c
  <2> QED
    BY <1>1, <1>5, <2>1 DEF Pacer, c
<1>6. CASE ~ MovedSince(w) /\ ~ (c.pending /\ c.since >= Base)
  <2>1. Paced(w) = c
    BY <1>3, <1>6 DEF Evaluate
  <2> QED
    BY <1>1, <1>6, <2>1 DEF Pacer
<1> QED
  BY <1>4, <1>5, <1>6

(* While a reminder is not settled yet, no other is sent.                  *)
LEMMA NudgedIsSettled ==
  ASSUME TypeOK, NEW w \in Nudged, Base <= Cap
  PROVE  ~ Paced(w).pending
<1>1. Held(w) # {} /\ Paced(w).since >= BackoffInterval(Paced(w).strikes)
  BY DEF Nudged, Due
<1>2. w \in Owners /\ pacer[w].strikes \in 0..Enough /\ pacer[w].since \in Nat
  BY BoundsArePositive DEF Nudged, TypeOK, Times
<1>3. BackoffInterval(pacer[w].strikes) >= Base /\ BackoffInterval(pacer[w].strikes) \in Nat
  BY <1>2, Intervals
<1>4. Base \in Nat
  BY BoundsArePositive
<1> QED
  BY <1>1, <1>2, <1>3, <1>4, Paces

LEMMA ScanCounts ==
  ASSUME TypeOK, CountsUnanswered, Scan, Base <= Cap, NEW w \in Owners
  PROVE  unanswered'[w] = IF pacer'[w].pending THEN UpToEnough(pacer'[w].strikes)
                          ELSE pacer'[w].strikes
<1>1. unanswered[w] = IF pacer[w].pending THEN UpToEnough(pacer[w].strikes)
                      ELSE pacer[w].strikes
  BY DEF CountsUnanswered
<1>2. Quiet(w) = IF Paced(w).pending THEN UpToEnough(Paced(w).strikes)
                 ELSE Paced(w).strikes
  <2>1. CASE Held(w) = {}
    BY <1>1, <2>1 DEF Quiet, Paced
  <2>2. CASE Held(w) # {}
    BY <1>1, <2>2, Paces DEF Quiet
  <2> QED
    BY <2>1, <2>2
<1>3. CASE w \in Nudged
  <2>1. ~ Paced(w).pending
    BY <1>3, NudgedIsSettled
  <2>2. unanswered'[w] = UpToEnough(Quiet(w)) /\ pacer'[w] = Recorded(Paced(w), w)
    BY <1>3 DEF Scan
  <2>3. pacer'[w].pending /\ pacer'[w].strikes = Paced(w).strikes
    BY <2>2, PacedTypes DEF Recorded, Pacer
  <2> QED
    BY <1>2, <2>1, <2>2, <2>3
<1>4. CASE w \notin Nudged
  BY <1>2, <1>4 DEF Scan
<1> QED
  BY <1>3, <1>4

LEMMA CountsKept ==
  ASSUME TypeOK, CountsUnanswered, [Next]_vars
  PROVE  CountsUnanswered'
<1> SUFFICES ASSUME Base <= Cap, NEW w \in Owners
             PROVE  unanswered'[w] = IF pacer'[w].pending THEN UpToEnough(pacer'[w].strikes)
                                     ELSE pacer'[w].strikes
  BY DEF CountsUnanswered
<1>1. CASE Scan
  BY <1>1, ScanCounts
<1>2. CASE Restart
  BY <1>2 DEF Restart, Unknown
<1>3. pacer[w] \in Pacer
  BY DEF TypeOK, Pacer
<1>4. CASE Tick
  <2>1. pacer'[w] = [pacer[w] EXCEPT !.since = Older(@)] /\ unanswered' = unanswered
    BY <1>4 DEF Tick
  <2>2. pacer'[w].pending = pacer[w].pending /\ pacer'[w].strikes = pacer[w].strikes
    BY <1>3, <2>1 DEF Pacer
  <2> QED
    BY <2>1, <2>2 DEF CountsUnanswered
<1>5. ASSUME NEW o \in Orders, NEW W, Moved(o, W)
      PROVE  unanswered'[w] = IF pacer'[w].pending THEN UpToEnough(pacer'[w].strikes)
                              ELSE pacer'[w].strikes
  <2>1. PICK b : pacer'[w] = [pacer[w] EXCEPT !.moved = b]
    BY <1>5, Zenon DEF Moved
  <2>2. pacer'[w].pending = pacer[w].pending /\ pacer'[w].strikes = pacer[w].strikes
    BY <1>3, <2>1 DEF Pacer
  <2> QED
    BY <1>5, <2>2 DEF CountsUnanswered, Moved
<1>6. CASE UNCHANGED vars
  BY <1>6 DEF CountsUnanswered, vars
<1> QED
  BY <1>1, <1>2, <1>4, <1>5, <1>6 DEF Next, Transition, Assign, WriteLog

LEMMA NextBacksOff ==
  ASSUME TypeOK, CountsUnanswered, Next, NEW w \in Owners, sent'[w] # None
  PROVE  pacer[w].since >= BackoffInterval(IF MovedSince(w) THEN 0 ELSE unanswered[w])
<1>1. CASE Scan
  <2>1. w \in Nudged
    BY <1>1 DEF Scan, Send
  <2>2. Held(w) # {} /\ Paced(w).since >= BackoffInterval(Paced(w).strikes)
    BY <2>1 DEF Nudged, Due
  <2>3. /\ pacer[w].strikes \in 0..Enough /\ unanswered[w] \in 0..Enough /\ 0 \in 0..Enough
        /\ Base \in Nat /\ Cap \in Nat
    BY BoundsArePositive DEF TypeOK
  <2>4. CASE Base <= Cap
    <3>1. unanswered[w] = IF pacer[w].pending THEN UpToEnough(pacer[w].strikes)
                          ELSE pacer[w].strikes
      BY <2>4 DEF CountsUnanswered
    <3>2. ~ Paced(w).pending
      BY <2>1, <2>4, NudgedIsSettled
    <3>3. Paced(w).strikes = IF MovedSince(w) THEN 0 ELSE unanswered[w]
      BY <2>2, <3>1, <3>2, Paces
    <3> QED
      BY <2>2, <3>3, Paces
  <2>5. CASE ~ (Base <= Cap)
    <3>1. Paced(w).strikes \in 0..Enough
      BY PacedTypes DEF Pacer
    <3>2. /\ BackoffInterval(Paced(w).strikes) = Cap
          /\ BackoffInterval(IF MovedSince(w) THEN 0 ELSE unanswered[w]) = Cap
      BY <2>3, <2>5, <3>1, Intervals
    <3> QED
      BY <2>2, <3>2, Paces
  <2> QED
    BY <2>4, <2>5
<1>2. CASE ~ Scan
  BY <1>2 DEF Next, Tick, Restart, Transition, Assign, WriteLog, Moved, Nothing, vars
<1> QED
  BY <1>1, <1>2

-----------------------------------------------------------------------------
NudgeInv == TypeOK /\ TurnsInv /\ CountsUnanswered

LEMMA NudgeInvariant == Spec => []NudgeInv
<1>1. Init => NudgeInv
  <2> SUFFICES ASSUME Init PROVE NudgeInv
    OBVIOUS
  <2>1. TurnsInv
    BY DEF Init, TurnsInv, NobodyIsPassedOverTwice, PassedOverForLater
  <2>2. CountsUnanswered
    BY DEF Init, CountsUnanswered, Unknown
  <2> QED
    BY <2>1, <2>2, InitTypes DEF NudgeInv
<1>2. NudgeInv /\ [Next]_vars => NudgeInv'
  BY TypesKept, TurnsKept, CountsKept DEF NudgeInv
<1> QED
  BY <1>1, <1>2, PTL DEF Spec

(* Every variable keeps its type.                                          *)
THEOREM NudgeTypes == Spec => []TypeOK
<1>1. NudgeInv => TypeOK
  BY DEF NudgeInv
<1> QED
  BY <1>1, NudgeInvariant, PTL

(* Nobody's due order waits while its owner is reminded of another twice.  *)
THEOREM TurnsAreTaken == Spec => []NobodyIsPassedOverTwice
<1>1. NudgeInv => NobodyIsPassedOverTwice
  BY DEF NudgeInv, TurnsInv
<1> QED
  BY <1>1, NudgeInvariant, PTL

(* After n unanswered reminders the next one waits for the interval of n.  *)
THEOREM RemindersBackOff == Spec => BacksOff
<1> DEFINE Waits ==
      \A w \in Owners : sent'[w] # None =>
        pacer[w].since >= BackoffInterval(IF MovedSince(w) THEN 0 ELSE unanswered[w])
<1>1. NudgeInv /\ [Next]_vars => [Waits]_vars
  BY NextBacksOff DEF NudgeInv
<1> QED
  BY <1>1, NudgeInvariant, PTL DEF Spec, BacksOff
=============================================================================
