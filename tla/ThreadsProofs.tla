---------------------------- MODULE ThreadsProofs ----------------------------
(* Theorems of Threads, for any names, texts and bounds.                   *)
EXTENDS Threads, TLAPS

(* A rewritten plan is a plan.                                             *)
LEMMA MergedIsPlan ==
  ASSUME NEW old \in Seq(Item), NEW texts \in Plans
  PROVE  MergePlan(old, texts) \in Seq(Item)
<1>1. PICK k \in 0..MaxItems : texts \in [1..k -> Texts]
  BY DEF Plans
<1>2. MergePlan(old, texts) \in [1..k -> Item]
  BY <1>1 DEF MergePlan, Item
<1>3. k \in Nat
  BY <1>1, BoundsAreNat
<1> QED
  BY <1>2, <1>3

(* A ticked plan is a plan.                                                *)
LEMMA TickedIsPlan ==
  ASSUME NEW plan \in Seq(Item), NEW i \in DOMAIN plan, NEW done \in BOOLEAN
  PROVE  [plan EXCEPT ![i].done = done] \in Seq(Item)
<1>1. plan \in [1..Len(plan) -> Item] /\ Len(plan) \in Nat
  OBVIOUS
<1>2. [plan EXCEPT ![i].done = done] \in [1..Len(plan) -> Item]
  BY <1>1 DEF Item
<1> QED
  BY <1>1, <1>2

(* What every step does to the rows: a new row, or one row changed.        *)
LEMMA RowTypes ==
  ASSUME NEW n \in Names, rows[n] \in Row
  PROVE  /\ rows[n].status \in STATES /\ rows[n].prev \in Names \cup {None}
         /\ rows[n].next \in Texts \cup {None}
         /\ rows[n].snapshot \in BOOLEAN /\ rows[n].archived \in BOOLEAN
         /\ rows[n].plan \in Seq(Item)
  BY DEF Row

(* The walk from p meets p, and goes wherever prev leads.                  *)
LEMMA ChainFollows ==
  ASSUME NEW p \in Names, TypeOK
  PROVE  p \in Chain(p) /\ Follows(Chain(p)) /\ Chain(p) \subseteq Names
<1>1. p \in Chain(p) /\ Chain(p) \subseteq Names
  BY DEF Chain
<1>2. ASSUME NEW q \in Chain(p), Exists(q), rows[q].prev # None
      PROVE  rows[q].prev \in Chain(p)
  <2>1. q \in Names /\ rows[q].prev \in Names
    BY <1>1, <1>2 DEF TypeOK, Exists, Row
  <2>2. ASSUME NEW S \in SUBSET Names, p \in S, Follows(S)
        PROVE  rows[q].prev \in S
    <3>1. q \in S
      BY <1>2, <2>2 DEF Chain
    <3> QED
      BY <1>2, <2>2, <3>1 DEF Follows
  <2> QED
    BY <2>1, <2>2 DEF Chain
<1> QED
  BY <1>1, <1>2 DEF Follows

(* What a step does to the row of one thread: opens it, points it          *)
(* elsewhere, or changes columns that no rule about prev reads.            *)
Opened(n) ==
  \E p \in Names \cup {None} :
    /\ ~ Exists(n) /\ PrevAllowed(n, p)
    /\ rows'[n] \in Row /\ rows'[n].prev = p
    /\ rows'[n].status = "idea" /\ ~ rows'[n].archived
Pointed(n) ==
  \E p \in Names \cup {None} :
    /\ Writable(n) /\ PrevAllowed(n, p)
    /\ rows'[n] \in Row /\ rows'[n].prev = p
    /\ rows'[n].status = rows[n].status /\ rows'[n].snapshot = rows[n].snapshot
    /\ ~ rows'[n].archived
Kept(n) ==
  /\ Exists(n) /\ rows'[n] \in Row /\ rows'[n].prev = rows[n].prev
  /\ (rows'[n].status = "done" /\ ~ rows'[n].snapshot) =>
       (rows[n].status = "done" /\ ~ rows[n].snapshot)
  /\ \/ Writable(n)
     \/ log' = log /\ (rows[n].archived /\ rows'[n].archived => rows'[n] = rows[n])
Others(n) == /\ \A m \in Names \ {n} : rows'[m] = rows[m] /\ log'[m] = log[m]
             /\ rows' \in [Names -> Row \cup {None}]
             /\ log' \in [Names -> Nat]

(* Only these changes of these threads happen.                             *)
Change(n) == (Opened(n) \/ Pointed(n) \/ Kept(n)) /\ Others(n)

LEMMA WrittenRow ==
  ASSUME NEW n \in Names, NEW row \in Row, TypeOK, Update(n, row),
         log' \in [Names -> Nat], \A m \in Names \ {n} : log'[m] = log[m]
  PROVE  Others(n) /\ rows'[n] = row
  BY DEF Update, Others, TypeOK

(* Columns other than the plan: the row stays a row.                       *)
LEMMA PlanWritten ==
  ASSUME NEW n \in Names, NEW plan \in Seq(Item), rows[n] \in Row
  PROVE  /\ [rows[n] EXCEPT !.plan = plan] \in Row
         /\ [rows[n] EXCEPT !.plan = plan].prev = rows[n].prev
         /\ [rows[n] EXCEPT !.plan = plan].status = rows[n].status
         /\ [rows[n] EXCEPT !.plan = plan].snapshot = rows[n].snapshot
  BY DEF Row

(* Rewriting or ticking a plan keeps everything else of the thread.        *)
LEMMA PlanKept ==
  ASSUME NEW n \in Names, TypeOK, Writable(n), log' \in [Names -> Nat],
         \A m \in Names \ {n} : log'[m] = log[m],
         \/ \E texts \in Plans : Rewritten(n, texts)
         \/ \E i \in 1..MaxItems, done \in BOOLEAN : Ticked(n, i, done)
  PROVE  Change(n)
<1>1. Exists(n) /\ rows[n] \in Row /\ rows[n].plan \in Seq(Item)
  BY DEF Writable, Exists, TypeOK, Row
<1>2. SUFFICES ASSUME NEW plan \in Seq(Item),
                      Update(n, [rows[n] EXCEPT !.plan = plan])
               PROVE  Change(n)
  <2>1. CASE \E texts \in Plans : Rewritten(n, texts)
    BY <1>1, <1>2, <2>1, MergedIsPlan DEF Rewritten
  <2>2. CASE \E i \in 1..MaxItems, done \in BOOLEAN : Ticked(n, i, done)
    <3>1. PICK i \in 1..MaxItems, done \in BOOLEAN : Ticked(n, i, done)
      BY <2>2
    <3>2. [rows[n].plan EXCEPT ![i].done = done] \in Seq(Item)
      BY <1>1, <3>1, TickedIsPlan DEF Ticked
    <3>3. Update(n, [rows[n] EXCEPT !.plan = [rows[n].plan EXCEPT ![i].done = done]])
      BY <3>1, Zenon DEF Ticked
    <3> QED
      BY <1>2, <3>2, <3>3
  <2> QED
    BY <2>1, <2>2
<1> DEFINE row == [rows[n] EXCEPT !.plan = plan]
<1>3. /\ row \in Row /\ row.prev = rows[n].prev
      /\ row.status = rows[n].status /\ row.snapshot = rows[n].snapshot
  BY <1>1, PlanWritten
<1> HIDE DEF row
<1>4. Others(n) /\ rows'[n] = row
  BY <1>2, <1>3, WrittenRow DEF row
<1> QED
  BY <1>1, <1>3, <1>4 DEF Change, Kept

(* Every step is a change of one thread.                                   *)
LEMMA StepChanges ==
  ASSUME TypeOK, Next
  PROVE  \E n \in Names : Change(n)
<1>1. PICK n \in Names :
        \/ \E p \in Names \cup {None} : Create(n, p) \/ SetPrev(n, p)
        \/ \E s \in Asked : SetStatus(n, s)
        \/ Finish(n) \/ Unarchive(n)
        \/ \E why \in BOOLEAN : Archive(n, why)
        \/ \E t \in Texts : SetNext(n, t)
        \/ \E texts \in Plans : WritePlan(n, texts) \/ LogPlan(n, texts)
        \/ \E i \in 1..MaxItems, done \in BOOLEAN : Tick(n, i, done)
        \/ \E i \in 1..MaxItems : LogCheck(n, i)
        \/ LogProgress(n)
  BY Zenon DEF Next
<1>2. Exists(n) => rows[n] \in Row
  BY DEF TypeOK, Exists
<1>3. log \in [Names -> Nat]
  BY DEF TypeOK
<1>4. AddLine(n) => /\ Writable(n) /\ log' \in [Names -> Nat]
                    /\ \A m \in Names \ {n} : log'[m] = log[m]
  BY <1>3 DEF AddLine
<1>5. CASE \E p \in Names \cup {None} : Create(n, p)
  <2>1. PICK p \in Names \cup {None} : Create(n, p)
    BY <1>5
  <2> DEFINE row == [status |-> "idea", prev |-> p, next |-> None,
                     snapshot |-> FALSE, archived |-> FALSE, plan |-> <<>>]
  <2>2. row \in Row /\ row.prev = p /\ row.status = "idea" /\ ~ row.archived
    BY DEF Row, STATES
  <2>3. Others(n) /\ rows'[n] = row
    BY <1>3, <2>1, <2>2, WrittenRow DEF Create
  <2> QED
    BY <2>1, <2>2, <2>3 DEF Change, Opened, Create
<1>6. CASE \E p \in Names \cup {None} : SetPrev(n, p)
  <2>1. PICK p \in Names \cup {None} : SetPrev(n, p)
    BY <1>6
  <2>2. Writable(n) /\ rows[n] \in Row
    BY <1>2, <2>1 DEF SetPrev, Writable
  <2> DEFINE row == [rows[n] EXCEPT !.prev = p]
  <2>3. /\ row \in Row /\ row.prev = p /\ row.status = rows[n].status
        /\ row.snapshot = rows[n].snapshot /\ ~ row.archived
    BY <2>2 DEF Row, Writable
  <2>4. Others(n) /\ rows'[n] = row
    BY <1>3, <2>1, <2>3, WrittenRow DEF SetPrev
  <2> QED
    BY <2>1, <2>3, <2>4 DEF Change, Pointed, SetPrev
<1>7. CASE \E s \in Asked : SetStatus(n, s)
  <2>1. PICK s \in Asked : SetStatus(n, s)
    BY <1>7
  <2>2. Writable(n) /\ Exists(n) /\ rows[n] \in Row /\ s \in STATES /\ s # "done"
    BY <1>2, <2>1 DEF SetStatus, Writable, SettableStatus
  <2> DEFINE row == [rows[n] EXCEPT !.status = s]
  <2>3. row \in Row /\ row.prev = rows[n].prev /\ row.status = s
    BY <2>2 DEF Row
  <2>4. Others(n) /\ rows'[n] = row
    BY <1>3, <2>1, <2>3, WrittenRow DEF SetStatus
  <2> QED
    BY <2>2, <2>3, <2>4 DEF Change, Kept
<1>8. CASE \E t \in Texts : SetNext(n, t)
  <2>1. PICK t \in Texts : SetNext(n, t)
    BY <1>8
  <2>2. Writable(n) /\ Exists(n) /\ rows[n] \in Row
    BY <1>2, <2>1 DEF SetNext, Writable
  <2> DEFINE row == [rows[n] EXCEPT !.next = t]
  <2>3. /\ row \in Row /\ row.prev = rows[n].prev
        /\ row.status = rows[n].status /\ row.snapshot = rows[n].snapshot
    BY <2>2 DEF Row
  <2>4. Others(n) /\ rows'[n] = row
    BY <1>3, <2>1, <2>3, WrittenRow DEF SetNext
  <2> QED
    BY <2>2, <2>3, <2>4 DEF Change, Kept
<1>9. CASE Finish(n)
  <2>2. Writable(n) /\ Exists(n) /\ rows[n] \in Row
    BY <1>2, <1>9 DEF Finish, Writable
  <2> DEFINE row == [rows[n] EXCEPT !.snapshot = TRUE, !.status = "done"]
  <2>3. row \in Row /\ row.prev = rows[n].prev /\ row.snapshot
    BY <2>2 DEF Row, STATES
  <2>4. Others(n) /\ rows'[n] = row
    BY <1>3, <1>9, <2>3, WrittenRow DEF Finish
  <2> QED
    BY <2>2, <2>3, <2>4 DEF Change, Kept
<1>10. CASE Unarchive(n) \/ \E why \in BOOLEAN : Archive(n, why)
  <2>1. PICK shut \in BOOLEAN :
          Exists(n) /\ Update(n, [rows[n] EXCEPT !.archived = shut]) /\ log' = log
    BY <1>10 DEF Unarchive, Archive, MayArchive
  <2>2. rows[n] \in Row
    BY <1>2, <2>1
  <2> DEFINE row == [rows[n] EXCEPT !.archived = shut]
  <2>3. /\ row \in Row /\ row.prev = rows[n].prev /\ row.status = rows[n].status
        /\ row.snapshot = rows[n].snapshot /\ row.archived = shut
    BY <2>2 DEF Row
  <2>4. rows[n].archived /\ shut => row = rows[n]
    BY <2>1, <2>2 DEF Row
  <2>5. Others(n) /\ rows'[n] = row
    BY <1>3, <2>1, <2>3, WrittenRow
  <2> HIDE DEF row
  <2> QED
    BY <2>1, <2>3, <2>4, <2>5 DEF Change, Kept
<1>11. CASE \/ \E texts \in Plans : WritePlan(n, texts) \/ LogPlan(n, texts)
            \/ \E i \in 1..MaxItems, done \in BOOLEAN : Tick(n, i, done)
            \/ \E i \in 1..MaxItems : LogCheck(n, i)
  <2>1. Writable(n) /\ log' \in [Names -> Nat] /\ \A m \in Names \ {n} : log'[m] = log[m]
    BY <1>3, <1>4, <1>11 DEF WritePlan, LogPlan, Tick, LogCheck
  <2>2. \/ \E texts \in Plans : Rewritten(n, texts)
        \/ \E i \in 1..MaxItems, done \in BOOLEAN : Ticked(n, i, done)
    BY <1>11, Zenon DEF WritePlan, LogPlan, Tick, LogCheck
  <2> QED
    BY <2>1, <2>2, PlanKept
<1>12. CASE LogProgress(n)
  <2>1. Writable(n) /\ Exists(n) /\ rows' = rows
    BY <1>4, <1>12 DEF LogProgress, Writable
  <2>2. Others(n)
    BY <1>4, <1>12, <2>1 DEF LogProgress, Others, TypeOK
  <2> QED
    BY <1>2, <2>1, <2>2 DEF Change, Kept
<1> QED
  BY <1>1, <1>5, <1>6, <1>7, <1>8, <1>9, <1>10, <1>11, <1>12

-----------------------------------------------------------------------------
(* A pointer that is allowed is at a thread there is, and not on the way   *)
(* from it back to the one that points.                                    *)
LEMMA AllowedPointer ==
  ASSUME TypeOK, NEW n \in Names, NEW p \in Names, PrevAllowed(n, p)
  PROVE  /\ p # n /\ Exists(p)
         /\ n \notin Chain(p) /\ p \in Chain(p) /\ Follows(Chain(p))
<1>1. p # None
  BY NoneIsNothing
<1> QED
  BY <1>1, ChainFollows DEF PrevAllowed

LEMMA TypesKept ==
  ASSUME TypeOK, Next
  PROVE  TypeOK'
<1>1. PICK n \in Names : Change(n)
  BY StepChanges
<1>2. \A m \in Names \ {n} : rows'[m] = rows[m]
  BY <1>1 DEF Change, Others
<1>3. rows'[n] \in Row /\ rows'[n] # None
  BY <1>1, NoneIsNothing DEF Change, Opened, Pointed, Kept
<1>4. \A m \in Names : Exists(m) => Exists(m)'
  BY <1>2, <1>3 DEF Exists
<1>5. rows'[n].prev # None => Exists(rows'[n].prev)
  <2>1. CASE Opened(n) \/ Pointed(n)
    BY <2>1, AllowedPointer DEF Opened, Pointed
  <2>2. CASE Kept(n)
    BY <2>2 DEF Kept, TypeOK
  <2> QED
    BY <1>1, <2>1, <2>2 DEF Change
<1>6. ASSUME NEW m \in Names, Exists(m)', rows'[m].prev # None
      PROVE  rows'[rows'[m].prev] # None
  <2>1. Exists(rows'[m].prev)
    BY <1>2, <1>5, <1>6 DEF TypeOK, Exists
  <2>2. rows'[m] \in Row
    BY <1>1, <1>6 DEF Change, Others, Exists
  <2>3. rows'[m].prev \in Names
    BY <1>6, <2>2 DEF Row
  <2> QED
    BY <1>4, <2>1, <2>3 DEF Exists
<1> QED
  BY <1>1, <1>6 DEF Change, Others, TypeOK, Exists

(* A set of threads that points only into itself after a step already has  *)
(* a part that did before it.                                              *)
LEMMA ChainsKept ==
  ASSUME TypeOK, ChainsEnd, Next
  PROVE  ChainsEnd'
<1>1. PICK n \in Names : Change(n)
  BY StepChanges
<1>2. \A m \in Names \ {n} : rows'[m] = rows[m]
  BY <1>1 DEF Change, Others
<1>3. SUFFICES ASSUME NEW S \in SUBSET Names, S # {},
                      \A m \in S : Exists(m)' /\ rows'[m].prev \in S
               PROVE  FALSE
  BY DEF ChainsEnd
<1>4. ASSUME NEW T \in SUBSET Names, T # {},
             \A m \in T : Exists(m) /\ rows[m].prev \in T
      PROVE  FALSE
  BY <1>4 DEF ChainsEnd
<1>5. CASE Kept(n)
  BY <1>2, <1>3, <1>4, <1>5 DEF Kept, Exists
<1>6. CASE n \notin S
  BY <1>2, <1>3, <1>4, <1>6 DEF Exists
<1>7. CASE n \in S /\ Pointed(n)
  <2>1. PICK p \in Names \cup {None} : PrevAllowed(n, p) /\ rows'[n].prev = p
    BY <1>7 DEF Pointed
  <2>2. p \in S /\ p \in Names
    BY <1>3, <1>7, <2>1
  <2>3. n \notin Chain(p) /\ p \in Chain(p) /\ Follows(Chain(p))
    BY <2>1, <2>2, AllowedPointer
  <2> DEFINE T == S \cap Chain(p)
  <2>4. ASSUME NEW m \in T
        PROVE  Exists(m) /\ rows[m].prev \in T
    <3>1. m \in Names \ {n} /\ Exists(m) /\ rows[m].prev \in S
      BY <1>2, <1>3, <2>3 DEF Exists
    <3>2. rows[m].prev # None
      BY <3>1, NoneIsNothing
    <3>3. rows[m].prev \in Chain(p)
      BY <2>3, <3>1, <3>2 DEF Follows
    <3> QED
      BY <3>1, <3>3
  <2> QED
    BY <1>4, <2>2, <2>3, <2>4
<1>8. CASE n \in S /\ Opened(n)
  <2>1. PICK p \in Names \cup {None} :
          ~ Exists(n) /\ PrevAllowed(n, p) /\ rows'[n].prev = p
    BY <1>8 DEF Opened
  <2>2. p \in S /\ p \in Names /\ p # n
    BY <1>3, <1>8, <2>1, AllowedPointer
  <2> DEFINE T == S \ {n}
  <2>3. ASSUME NEW m \in T
        PROVE  Exists(m) /\ rows[m].prev \in T
    <3>1. Exists(m) /\ rows[m].prev \in S
      BY <1>2, <1>3 DEF Exists
    <3>2. rows[m].prev # None
      BY <3>1, NoneIsNothing
    <3>3. Exists(rows[m].prev)
      BY <3>1, <3>2 DEF TypeOK
    <3> QED
      BY <2>1, <3>1, <3>3
  <2> QED
    BY <1>4, <2>2, <2>3
<1> QED
  BY <1>1, <1>5, <1>6, <1>7, <1>8 DEF Change

LEMMA DoneKept ==
  ASSUME TypeOK, DoneIsDescribed, Next
  PROVE  DoneIsDescribed'
<1>1. PICK n \in Names : Change(n)
  BY StepChanges
<1>2. ASSUME NEW m \in Names \ {n}, Exists(m)', rows'[m].status = "done"
      PROVE  rows'[m].snapshot
  BY <1>1, <1>2 DEF Change, Others, Exists, DoneIsDescribed
<1>3. ASSUME rows'[n].status = "done"
      PROVE  rows'[n].snapshot
  <2>1. CASE Opened(n)
    BY <1>3, <2>1 DEF Opened
  <2>2. CASE Pointed(n)
    BY <1>3, <2>2 DEF Pointed, Writable, DoneIsDescribed
  <2>3. CASE Kept(n)
    BY <1>3, <2>3 DEF Kept, DoneIsDescribed
  <2> QED
    BY <1>1, <2>1, <2>2, <2>3 DEF Change
<1> QED
  BY <1>2, <1>3 DEF DoneIsDescribed

-----------------------------------------------------------------------------
(* All that is true of threads, together, survives every step.             *)
ThreadsInv == TypeOK /\ ChainsEnd /\ DoneIsDescribed

THEOREM ThreadsInvariant == Spec => []ThreadsInv
<1>1. Init => ThreadsInv
  BY DEF Init, ThreadsInv, TypeOK, ChainsEnd, DoneIsDescribed, Exists
<1>2. ThreadsInv /\ [Next]_vars => ThreadsInv'
  <2> SUFFICES ASSUME ThreadsInv, [Next]_vars PROVE ThreadsInv'
    OBVIOUS
  <2>1. CASE Next
    BY <2>1, TypesKept, ChainsKept, DoneKept DEF ThreadsInv
  <2>2. CASE UNCHANGED vars
    BY <2>2 DEF ThreadsInv, TypeOK, ChainsEnd, DoneIsDescribed, Exists, vars
  <2> QED
    BY <2>1, <2>2
<1> QED
  BY <1>1, <1>2, PTL DEF Spec

(* Rows, plans and pointers keep their types; prev never dangles.          *)
THEOREM ThreadTypes == Spec => []TypeOK
<1>1. ThreadsInv => TypeOK
  BY DEF ThreadsInv
<1> QED
  BY <1>1, ThreadsInvariant, PTL

(* checkPrevChain before each write of one pointer keeps the whole graph   *)
(* free of cycles, archived threads and reopened ones included.            *)
THEOREM PrevIsAcyclic == Spec => []ChainsEnd
<1>1. ThreadsInv => ChainsEnd
  BY DEF ThreadsInv
<1> QED
  BY <1>1, ThreadsInvariant, PTL

(* `finish` is the only way to done, and nothing takes a snapshot away.    *)
THEOREM DoneMeansDescribed == Spec => []DoneIsDescribed
<1>1. ThreadsInv => DoneIsDescribed
  BY DEF ThreadsInv
<1> QED
  BY <1>1, ThreadsInvariant, PTL

(* No endpoint but archive itself touches an archived thread.              *)
THEOREM ArchiveCloses == Spec => ArchivedIsClosed
<1> DEFINE Closed ==
      \A n \in Names : Exists(n) =>
        /\ Exists(n)'
        /\ rows[n].archived /\ rows'[n].archived =>
             rows'[n] = rows[n] /\ log'[n] = log[n]
<1>1. ASSUME ThreadsInv, [Next]_vars PROVE [Closed]_vars
  <2>1. CASE Next
    <3>1. PICK n \in Names : Change(n)
      BY <1>1, <2>1, StepChanges DEF ThreadsInv
    <3>2. ASSUME NEW m \in Names \ {n}, Exists(m)
          PROVE  Exists(m)' /\ rows'[m] = rows[m] /\ log'[m] = log[m]
      BY <3>1, <3>2 DEF Change, Others, Exists
    <3>3. rows'[n] # None
      BY <3>1, NoneIsNothing DEF Change, Opened, Pointed, Kept
    <3>4. ASSUME Exists(n), rows[n].archived, rows'[n].archived
          PROVE  rows'[n] = rows[n] /\ log'[n] = log[n]
      BY <3>1, <3>4 DEF Change, Opened, Pointed, Kept, Writable
    <3> QED
      BY <3>2, <3>3, <3>4 DEF Exists
  <2>2. CASE UNCHANGED vars
    BY <2>2
  <2> QED
    BY <1>1, <2>1, <2>2
<1> QED
  BY <1>1, ThreadsInvariant, PTL DEF Spec, ArchivedIsClosed
-----------------------------------------------------------------------------
(* What a step does to the plan of one thread: nothing, a tick that leaves *)
(* the texts, or a merge; a thread that is opened has no old plan.         *)
PlanChange(n) ==
  \/ ~ Exists(n)
  \/ TextsOf(rows'[n].plan) = TextsOf(rows[n].plan)
  \/ \E texts \in Plans : rows'[n].plan = MergePlan(rows[n].plan, texts)

LEMMA TickKeepsTexts ==
  ASSUME NEW plan \in Seq(Item), NEW i \in DOMAIN plan, NEW done \in BOOLEAN
  PROVE  TextsOf([plan EXCEPT ![i].done = done]) = TextsOf(plan)
<1> DEFINE new == [plan EXCEPT ![i].done = done]
<1>1. plan \in [1..Len(plan) -> Item] /\ DOMAIN plan = 1..Len(plan)
  OBVIOUS
<1>2. DOMAIN new = DOMAIN plan /\ \A k \in DOMAIN plan : new[k].text = plan[k].text
  BY <1>1 DEF Item
<1> HIDE DEF new
<1>3. TextsOf(new) = TextsOf(plan)
  BY <1>2 DEF TextsOf
<1> QED
  BY <1>3 DEF new

LEMMA ColumnWritten ==
  ASSUME NEW n \in Names, TypeOK, Exists(n), NEW row, Update(n, row)
  PROVE  rows'[n] = row /\ \A m \in Names \ {n} : rows'[m] = rows[m]
  BY DEF TypeOK, Update

LEMMA PlanStep ==
  ASSUME TypeOK, Next
  PROVE  \A n \in Names : PlanChange(n)
<1>1. PICK n \in Names :
        \/ \E p \in Names \cup {None} : Create(n, p) \/ SetPrev(n, p)
        \/ \E s \in Asked : SetStatus(n, s)
        \/ Finish(n) \/ Unarchive(n)
        \/ \E why \in BOOLEAN : Archive(n, why)
        \/ \E t \in Texts : SetNext(n, t)
        \/ \E texts \in Plans : WritePlan(n, texts) \/ LogPlan(n, texts)
        \/ \E i \in 1..MaxItems, done \in BOOLEAN : Tick(n, i, done)
        \/ \E i \in 1..MaxItems : LogCheck(n, i)
        \/ LogProgress(n)
  BY Zenon DEF Next
<1>2. ASSUME NEW m \in Names \ {n}
      PROVE  PlanChange(m)
  <2>1. rows'[m] = rows[m]
    <3>1. rows \in [Names -> Row \cup {None}]
      BY DEF TypeOK
    <3>2. (\E row : Update(n, row)) \/ rows' = rows
      BY <1>1, Zenon DEF Create, SetPrev, SetStatus, Finish, Unarchive, Archive,
         SetNext, WritePlan, LogPlan, Tick, LogCheck, LogProgress, Rewritten, Ticked
    <3> QED
      BY <3>1, <3>2 DEF Update
  <2> QED
    BY <2>1 DEF PlanChange
<1>3. SUFFICES ASSUME Exists(n)
               PROVE  PlanChange(n)
  BY <1>2 DEF PlanChange
<1>4. rows[n] \in Row /\ rows[n].plan \in Seq(Item)
  BY <1>3 DEF TypeOK, Exists, Row
<1>5. CASE \E texts \in Plans : Rewritten(n, texts)
  <2>1. PICK texts \in Plans : Rewritten(n, texts)
    BY <1>5
  <2>2. rows'[n] = [rows[n] EXCEPT !.plan = MergePlan(rows[n].plan, texts)]
    BY <1>3, <2>1, ColumnWritten DEF Rewritten
  <2>3. rows'[n].plan = MergePlan(rows[n].plan, texts)
    BY <1>4, <2>2 DEF Row
  <2> QED
    BY <2>3 DEF PlanChange
<1>6. CASE \E i \in 1..MaxItems, done \in BOOLEAN : Ticked(n, i, done)
  <2>1. PICK i \in 1..MaxItems, done \in BOOLEAN : Ticked(n, i, done)
    BY <1>6
  <2> DEFINE new == [rows[n].plan EXCEPT ![i].done = done]
  <2>2. Update(n, [rows[n] EXCEPT !.plan = new])
    BY <2>1, Zenon DEF Ticked
  <2>3. TextsOf(new) = TextsOf(rows[n].plan)
    BY <1>4, <2>1, TickKeepsTexts DEF Ticked
  <2> HIDE DEF new
  <2>4. rows'[n].plan = new
    BY <1>3, <1>4, <2>2, ColumnWritten DEF Row
  <2> QED
    BY <2>3, <2>4 DEF PlanChange
<1>7. CASE rows' = rows
  BY <1>7 DEF PlanChange
<1>8. CASE \/ \E p \in Names \cup {None} : SetPrev(n, p)
           \/ \E s \in Asked : SetStatus(n, s)
           \/ Finish(n) \/ Unarchive(n)
           \/ \E why \in BOOLEAN : Archive(n, why)
           \/ \E t \in Texts : SetNext(n, t)
  <2>1. \/ \E p : Update(n, [rows[n] EXCEPT !.prev = p])
        \/ \E s : Update(n, [rows[n] EXCEPT !.status = s])
        \/ Update(n, [rows[n] EXCEPT !.snapshot = TRUE, !.status = "done"])
        \/ Update(n, [rows[n] EXCEPT !.archived = FALSE])
        \/ Update(n, [rows[n] EXCEPT !.archived = TRUE])
        \/ \E t : Update(n, [rows[n] EXCEPT !.next = t])
    BY <1>8, Zenon DEF SetPrev, SetStatus, Finish, Unarchive, Archive, SetNext
  <2>2. \/ \E p : rows'[n] = [rows[n] EXCEPT !.prev = p]
        \/ \E s : rows'[n] = [rows[n] EXCEPT !.status = s]
        \/ rows'[n] = [rows[n] EXCEPT !.snapshot = TRUE, !.status = "done"]
        \/ \E b : rows'[n] = [rows[n] EXCEPT !.archived = b]
        \/ \E t : rows'[n] = [rows[n] EXCEPT !.next = t]
    BY <1>3, <2>1, ColumnWritten
  <2>3. rows'[n].plan = rows[n].plan
    BY <1>4, <2>2 DEF Row
  <2> QED
    BY <2>3 DEF PlanChange
<1>9. ~ \E p \in Names \cup {None} : Create(n, p)
  BY <1>3 DEF Create
<1>10. CASE \/ \E texts \in Plans : WritePlan(n, texts) \/ LogPlan(n, texts)
            \/ \E i \in 1..MaxItems, done \in BOOLEAN : Tick(n, i, done)
            \/ \E i \in 1..MaxItems : LogCheck(n, i)
            \/ LogProgress(n)
  <2>1. \/ \E texts \in Plans : Rewritten(n, texts)
        \/ \E i \in 1..MaxItems, done \in BOOLEAN : Ticked(n, i, done)
        \/ rows' = rows
    BY <1>10, Zenon DEF WritePlan, LogPlan, Tick, LogCheck, LogProgress
  <2> QED
    BY <1>5, <1>6, <1>7, <2>1
<1> QED
  BY <1>1, <1>8, <1>9, <1>10

(* A merge ticks what was ticked, text by text.                            *)
LEMMA MergeKeepsTicks ==
  ASSUME NEW old \in Seq(Item), NEW texts \in Plans, NEW t \in Texts,
         HasText(old, t), HasText(MergePlan(old, texts), t)
  PROVE  IsTicked(MergePlan(old, texts), t) = IsTicked(old, t)
<1> DEFINE new == MergePlan(old, texts)
<1>1. DOMAIN new = DOMAIN texts
  BY DEF MergePlan
<1>2. \A i \in DOMAIN texts :
        /\ new[i].text = texts[i]
        /\ new[i].done <=> \E k \in DOMAIN old : old[k].text = texts[i] /\ old[k].done
  BY Zenon DEF MergePlan
<1>3. IsTicked(new, t) <=> \E i \in DOMAIN texts : texts[i] = t /\ new[i].done
  BY <1>1, <1>2, Zenon DEF IsTicked
<1>4. \E i \in DOMAIN texts : texts[i] = t
  BY <1>1, <1>2, Zenon DEF HasText
<1> HIDE DEF new
<1>5. ASSUME NEW i \in DOMAIN texts, texts[i] = t
      PROVE  new[i].done <=> IsTicked(old, t)
  <2>1. new[i].done <=> \E k \in DOMAIN old : old[k].text = texts[i] /\ old[k].done
    BY <1>2, Zenon
  <2>2. new[i].done <=> \E k \in DOMAIN old : old[k].text = t /\ old[k].done
    BY <1>5, <2>1, Zenon
  <2> QED
    BY <2>2, Zenon DEF IsTicked
<1>6. IsTicked(new, t) <=> IsTicked(old, t)
  BY <1>3, <1>4, <1>5, Zenon
<1>7. IsTicked(new, t) = IsTicked(old, t)
  BY <1>6, Zenon DEF IsTicked
<1> QED
  BY <1>7 DEF new

(* mergePlan keeps the tick of every text that stays, in every rewrite,    *)
(* of POST plan and of POST log alike.                                     *)
THEOREM RewritesKeepTicks == Spec => RewriteKeepsTicks
<1> DEFINE KeepsTicks ==
      \A n \in Names : Exists(n) =>
        LET old == rows[n].plan  new == rows'[n].plan
        IN TextsOf(old) # TextsOf(new) =>
             \A t \in Texts : HasText(old, t) /\ HasText(new, t) =>
               IsTicked(new, t) = IsTicked(old, t)
<1>1. ASSUME ThreadsInv, [Next]_vars PROVE [KeepsTicks]_vars
  <2>1. CASE Next
    <3>1. SUFFICES ASSUME NEW n \in Names, Exists(n),
                          TextsOf(rows[n].plan) # TextsOf(rows'[n].plan),
                          NEW t \in Texts, HasText(rows[n].plan, t),
                          HasText(rows'[n].plan, t)
                   PROVE  IsTicked(rows'[n].plan, t) = IsTicked(rows[n].plan, t)
      BY Zenon
    <3>2. PICK texts \in Plans : rows'[n].plan = MergePlan(rows[n].plan, texts)
      BY <1>1, <2>1, <3>1, PlanStep DEF PlanChange, ThreadsInv
    <3>3. rows[n].plan \in Seq(Item)
      BY <1>1, <3>1 DEF ThreadsInv, TypeOK, Exists, Row
    <3> QED
      BY <3>1, <3>2, <3>3, MergeKeepsTicks
  <2>2. CASE UNCHANGED vars
    BY <2>2
  <2> QED
    BY <1>1, <2>1, <2>2
<1> QED
  BY <1>1, ThreadsInvariant, PTL DEF Spec, RewriteKeepsTicks
=============================================================================
