------------------------------- MODULE Threads -------------------------------
(***************************************************************************)
(* Threads: work that can be put down and picked up again, outside the     *)
(* board.  The rules of src/lib/thread-rules.js and the handlers of        *)
(* src/routes/threads.js over the tables of src/db.js.  One action per     *)
(* endpoint that writes; a handler runs to its end without an await, so it *)
(* is one step.  Of the text fields only `next` is kept: owner, goal,      *)
(* blocked_by and needs_human are written by the same PATCH in the same    *)
(* way.  A snapshot is present or not, a log is as long as it is.          *)
(***************************************************************************)
EXTENDS Naturals, Sequences

CONSTANTS
  Names,      \* names a thread may be given
  Texts,      \* texts of plan items and of `next`
  Written,    \* bound: the threads whose plan, log and `next` are written
  Asked,      \* bound: the statuses PATCH requests ask for
  MaxItems,   \* bound: items of a plan
  MaxLog,     \* bound: lines of a log
  None


VARIABLES rows, log
vars == <<rows, log>>

STATES == {"idea", "todo", "doing", "blocked", "done"}
Item   == [text : Texts, done : BOOLEAN]
Row    == [status : STATES, prev : Names \cup {None}, next : Texts \cup {None},
           snapshot : BOOLEAN, archived : BOOLEAN, plan : Seq(Item)]

Exists(n) == rows[n] # None

ASSUME NoneIsNothing == None \notin Names \cup Row
ASSUME BoundsAreNat  == MaxItems \in Nat /\ MaxLog \in Nat

-----------------------------------------------------------------------------
(* checkSet: the status PATCH may write; `done` has its own door.          *)
SettableStatus == STATES \ {"done"}

(* The names a walk along prev meets from p on, p included.                *)
Follows(S) ==
  \A q \in S : Exists(q) /\ rows[q].prev # None => rows[q].prev \in S
Chain(p) ==
  {q \in Names : \A S \in SUBSET Names : p \in S /\ Follows(S) => q \in S}

(* checkPrevChain: the walk from p meets no name that is missing, never    *)
(* meets n, and ends; a walk that ends is one that meets a thread without  *)
(* prev.                                                                   *)
PrevAllowedIfOther(n, p) == p # n
PrevAllowedUnlessSelf(n, p) == p # None => p # n /\ Exists(p)
PrevAllowed(n, p) ==
  p # None => LET seen == Chain(p)
              IN /\ n \notin seen
                 /\ \A q \in seen : Exists(q)
                 /\ \E q \in seen : rows[q].prev = None

(* mergePlan: an item of the new plan is ticked when any item of the old   *)
(* one with its text was.                                                  *)
MergePlanByPosition(old, texts) ==
  [i \in DOMAIN texts |->
     [text |-> texts[i], done |-> i \in DOMAIN old /\ old[i].done]]
MergePlan(old, texts) ==
  [i \in DOMAIN texts |->
     [text |-> texts[i],
      done |-> \E k \in DOMAIN old : old[k].text = texts[i] /\ old[k].done]]

(* checkWritable and checkArchive                                          *)
Writable(n) == Exists(n) /\ ~ rows[n].archived
MayArchive(n, why) == Exists(n) /\ (rows[n].snapshot \/ why)

Update(n, row) == rows' = [rows EXCEPT ![n] = row]

-----------------------------------------------------------------------------
Init == rows = [n \in Names |-> None] /\ log = [n \in Names |-> 0]

(* POST /api/threads                                                       *)
Create(n, p) ==
  /\ ~ Exists(n) /\ PrevAllowed(n, p)
  /\ Update(n, [status |-> "idea", prev |-> p, next |-> None,
                snapshot |-> FALSE, archived |-> FALSE, plan |-> <<>>])
  /\ UNCHANGED log

(* PATCH /api/threads/:name                                                *)
SetStatus(n, s) ==
  /\ Writable(n) /\ s \in SettableStatus
  /\ Update(n, [rows[n] EXCEPT !.status = s])
  /\ UNCHANGED log
SetPrev(n, p) ==
  /\ Writable(n) /\ PrevAllowed(n, p)
  /\ Update(n, [rows[n] EXCEPT !.prev = p])
  /\ UNCHANGED log
SetNext(n, t) ==
  /\ Writable(n)
  /\ Update(n, [rows[n] EXCEPT !.next = t])
  /\ UNCHANGED log

Rewritten(n, texts) ==
  Update(n, [rows[n] EXCEPT !.plan = MergePlan(@, texts)])
Ticked(n, i, done) ==
  /\ i \in DOMAIN rows[n].plan
  /\ Update(n, [rows[n] EXCEPT !.plan[i].done = done])

(* POST /api/threads/:name/plan; a plan of blank items is refused.         *)
WritePlan(n, texts) ==
  Writable(n) /\ texts # <<>> /\ Rewritten(n, texts) /\ UNCHANGED log

(* POST /api/threads/:name/plan/:idx/check and /uncheck                    *)
Tick(n, i, done) == Writable(n) /\ Ticked(n, i, done) /\ UNCHANGED log

(* POST /api/threads/:name/log: exactly one intent; the line and the       *)
(* change of the plan it tells of are one transaction.                     *)
AddLine(n) == /\ Writable(n) /\ log[n] < MaxLog
              /\ log' = [log EXCEPT ![n] = @ + 1]
LogCheck(n, i)    == AddLine(n) /\ Ticked(n, i, TRUE)
LogPlan(n, texts) == AddLine(n) /\ texts # <<>> /\ Rewritten(n, texts)
LogProgress(n)    == AddLine(n) /\ UNCHANGED rows

(* POST /api/threads/:name/finish: snapshot and status in one statement.   *)
Finish(n) ==
  /\ Writable(n)
  /\ Update(n, [rows[n] EXCEPT !.snapshot = TRUE, !.status = "done"])
  /\ UNCHANGED log

(* POST /api/threads/:name/archive, with and without undo                  *)
Archive(n, why) ==
  /\ MayArchive(n, why)
  /\ Update(n, [rows[n] EXCEPT !.archived = TRUE])
  /\ UNCHANGED log
Unarchive(n) ==
  /\ Exists(n)
  /\ Update(n, [rows[n] EXCEPT !.archived = FALSE])
  /\ UNCHANGED log

Plans == UNION {[1..k -> Texts] : k \in 0..MaxItems}

Next ==
  \E n \in Names :
    \/ \E p \in Names \cup {None} : Create(n, p) \/ SetPrev(n, p)
    \/ \E s \in Asked : SetStatus(n, s)
    \/ Finish(n)
    \/ \E why \in BOOLEAN : Archive(n, why)
    \/ Unarchive(n)
    \/ /\ n \in Written
       /\ \/ \E t \in Texts : SetNext(n, t)
          \/ \E texts \in Plans : WritePlan(n, texts) \/ LogPlan(n, texts)
          \/ \E i \in 1..MaxItems : \/ \E done \in BOOLEAN : Tick(n, i, done)
                                    \/ LogCheck(n, i)
          \/ LogProgress(n)

Spec == Init /\ [][Next]_vars

-----------------------------------------------------------------------------
(* Types: a row keeps its columns, a log counts its lines, and prev points *)
(* at a thread there is.                                                   *)
TypeOK ==
  /\ rows \in [Names -> Row \cup {None}]
  /\ log \in [Names -> Nat]
  /\ \A n \in Names : Exists(n) /\ rows[n].prev # None => Exists(rows[n].prev)

(* Whoever follows prev from any thread comes to an end: no set of threads *)
(* points only into itself, though every request looks at one chain and    *)
(* changes one pointer (checkPrevChain).                                   *)
ChainsEnd ==
  \A S \in SUBSET {n \in Names : Exists(n)} :
    S # {} => \E n \in S : rows[n].prev \notin S

(* A thread that is done has the snapshot that says where it landed,       *)
(* reopened, archived and brought back as it may have been.                *)
DoneIsDescribed ==
  \A n \in Names : Exists(n) /\ rows[n].status = "done" => rows[n].snapshot

(* While a thread is archived nothing of it changes, neither the row nor   *)
(* the plan nor the log; and no thread ever goes away (no hard delete).    *)
ArchivedIsClosed ==
  [][\A n \in Names : Exists(n) =>
       /\ Exists(n)'
       /\ rows[n].archived /\ rows'[n].archived =>
            rows'[n] = rows[n] /\ log'[n] = log[n]]_vars

(* When a plan is rewritten, a text that stays is ticked afterwards if and *)
(* only if it was before, wherever it moved (mergePlan).  Of two items     *)
(* with one text either stands for both.                                   *)
HasText(plan, t) == \E i \in DOMAIN plan : plan[i].text = t
IsTicked(plan, t) == \E i \in DOMAIN plan : plan[i].text = t /\ plan[i].done
TextsOf(plan) == [i \in DOMAIN plan |-> plan[i].text]
RewriteKeepsTicks ==
  [][\A n \in Names : Exists(n) =>
       LET old == rows[n].plan  new == rows'[n].plan
       IN TextsOf(old) # TextsOf(new) =>
            \A t \in Texts : HasText(old, t) /\ HasText(new, t) =>
              IsTicked(new, t) = IsTicked(old, t)]_vars
=============================================================================
