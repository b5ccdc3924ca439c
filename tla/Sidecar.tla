------------------------------ MODULE Sidecar ------------------------------
(***************************************************************************)
(* The process that types messages into the terminal window of a crew      *)
(* member (src/lib/sidecar.js, sidecar-core.js and                         *)
(* bin/mousecrew-sidecar.js), with the server's side of a direct           *)
(* message (src/routes/agents.js).                                         *)
(*                                                                         *)
(* An action is what runs between two awaits of one of the sidecar's       *)
(* functions.  Several delivery passes run at once: the timer starts one   *)
(* every few seconds and every streamed message starts another, and no     *)
(* caller waits for the one before.  `mem' is the state the process keeps, *)
(* `disk' the copy it last managed to save.                                *)
(*                                                                         *)
(* One crew member: a pass serves the others in the same way, one after    *)
(* the other.  A receipt array is a set, since the order in which receipts *)
(* are sent matters to nobody; a post addresses the crew member, since one *)
(* that does not is only marked as seen.  A streamed message arrives at    *)
(* once or not at all.  Rotation reminders are left out.                   *)
(***************************************************************************)
EXTENDS Naturals, FiniteSets, SequencesExt

CONSTANTS
  DMs,            \* direct messages to the crew member
  Posts,          \* posts of the group that mention it
  Wakes,          \* keys of local wake files
  SenderOf,       \* the sender of each wake
  Passes,         \* delivery passes that may run at once
  MaxInbox,       \* MAX_PENDING of the server
  ForceOnExpiry,  \* delivery.forceOnExpiry
  Bounds          \* the small worlds a check goes through: how many of each
                  \* message arrive, how long the queue may be
                  \* (delivery.maxPending), how many passes overlap, which
                  \* faults (crash, kill between two saves or in the middle
                  \* of one, restart of the server, full disk) happen once

ASSUME KindsAreApart == DMs \cap Posts = {} /\ DMs \cap Wakes = {} /\ Posts \cap Wakes = {}
ASSUME WakesAreFinite == IsFiniteSet(Wakes)
ASSUME InboxHasRoom == MaxInbox \in Nat \ {0}

Ids == DMs \cup Posts \cup Wakes
Receipt == DMs \X {"delivered", "expired"}

(* What the queue keeps of an item besides its content: draftHeldAt,       *)
(* forcedAt, forcedTriedAt and mergedFrom.                                 *)
Entry == [held : BOOLEAN, forced : BOOLEAN, tried : BOOLEAN, merged : SUBSET DMs]
Queued == [held |-> FALSE, forced |-> FALSE, tried |-> FALSE, merged |-> {}]

(* The state of a process that finds no file, or a broken one.             *)
Empty == [seen |-> {}, pending |-> <<>>, acks |-> {}, bootstrapped |-> FALSE,
          entry |-> [i \in Ids |-> Queued]]

(* How far time has gone for an item: past stalePendingMs since it was     *)
(* queued; since it was forced, past forcedDraftHoldMs and forcedGraceMs.  *)
Age == {"fresh", "old", "new", "ripe", "over"}

State == [seen : SUBSET Ids, pending : Seq(Ids), acks : SUBSET Receipt,
          bootstrapped : BOOLEAN, entry : [Ids -> Entry]]

(* A delivery pass: where it awaits, the receipts of the flush it is in    *)
(* (`live' while it still iterates over the array in mem), and the batch   *)
(* it types.                                                               *)
Pass == [at : {"idle", "flush", "list", "read", "type", "enter", "flushEnd"},
         live : BOOLEAN, owed : SUBSET Receipt, done : SUBSET Receipt,
         left : SUBSET Receipt, batch : Seq(Ids)]
Idle == [at |-> "idle", live |-> FALSE, owed |-> {}, done |-> {}, left |-> {},
         batch |-> <<>>]

VARIABLES
  bound,        \* one of Bounds
  mem,          \* this.state
  disk,         \* what _loadState would read from sidecar-state.json
  age,          \* the age of each queued item
  pass,         \* the delivery passes
  draining,     \* the crew member is in _draining
  life,         \* "down", "starting" (before start()) or "up"
  fetch,        \* the fetch of /api/dm/pending is still to come
  log, sent,    \* the server's store: posts of the group, direct messages
  inbox,        \* the server: pendingDms, in memory
  recv,         \* the server: direct messages it has a receipt of
  files,        \* wake files in the directory
  full,         \* writing the state file fails
  cuts,         \* and only after the file was opened, which empties it
  faults,       \* faults so far
  forcedTries,  \* forced attempts to type an item (up to 2)
  forgotten,    \* receipts an older flush, or a kill between two saves, dropped
  consumed,     \* wake files removed
  wiped         \* keys known to a process that ended and left the file empty

sidecar == <<mem, disk, age>>
server == <<log, sent, inbox, recv>>
ghosts == <<forcedTries, forgotten, consumed, wiped, bound>>
vars == <<mem, disk, age, pass, draining, life, fetch, log, sent,
          inbox, recv, files, full, cuts, faults, forcedTries, forgotten, consumed,
          wiped, bound>>

(* A state of the process as the functions below pass it on.               *)
Now == [mem |-> mem, disk |-> disk, age |-> age]

(* Which of several interchangeable values is used next does not matter.   *)
Unused(S) == CHOOSE x \in S : TRUE

(* The members of a sequence that are in T, in their order.                *)
Kept(q, T) ==
  LET kept[n \in 0..Len(q)] ==
        IF n = 0 THEN <<>>
        ELSE IF q[n] \in T THEN Append(kept[n - 1], q[n]) ELSE kept[n - 1]
  IN  kept[Len(q)]

PendingIn(m) == Range(m.pending)
Becomes(s) ==
  /\ mem' = s.mem
  /\ disk' = s.disk
  /\ age' = [i \in Ids |-> IF i \in PendingIn(s.mem) \cup PendingIn(s.disk)
                           THEN s.age[i] ELSE "fresh"]

(* _saveState: the items that are no longer queued are not written.  The   *)
(* file is written in place.  A save that fails does so before the file is *)
(* opened, and leaves the old one, or after, and leaves one that is empty  *)
(* or ends early, which _loadState takes for none.                         *)
Written(m) ==
  [m EXCEPT !.entry = [i \in Ids |-> IF i \in PendingIn(m) THEN m.entry[i] ELSE Queued]]
Saved(s) ==
  IF full THEN [s EXCEPT !.disk = IF cuts THEN Empty ELSE @]
  ELSE [s EXCEPT !.disk = Written(s.mem)]
-----------------------------------------------------------------------------
(* The queue.                                                              *)

(* The messages an item stands for: a merged head answers for all of them. *)
Sources(m, i) == IF m.entry[i].merged = {} THEN {i} ELSE m.entry[i].merged

ReceiptsForHeads(m, items, status) == {<<i, status>> : i \in items \cap DMs}

(* _appendAcksFor: only direct messages have receipts.                     *)
ReceiptsFor(m, items, status) ==
  {<<d, status>> : d \in UNION {Sources(m, i) : i \in items \cap DMs}}

(* queue, _appendQueue and capPending: the oldest item makes room.         *)
Enqueue(s, i) ==
  LET all     == Append(s.mem.pending, i)
      dropped == IF Len(all) <= bound.queue THEN {} ELSE {Head(all)}
      m       == [s.mem EXCEPT !.entry[i] = Queued]
  IN  [s EXCEPT !.mem = [m EXCEPT
                 !.pending = IF dropped = {} THEN all ELSE Tail(all),
                 !.acks = @ \cup ReceiptsFor(m, dropped, "expired")],
               !.age[i] = "fresh"]

(* ingest: rows seen before are skipped; until the baseline is set, rows   *)
(* are only marked as seen.                                                *)
IngestRow(s, g) ==
  IF g \in s.mem.seen THEN s
  ELSE LET t == [s EXCEPT !.mem.seen = @ \cup {g}]
       IN  IF s.mem.bootstrapped THEN Enqueue(t, g) ELSE t
IngestDirect(s, d) ==
  IF d \in s.mem.seen THEN s
  ELSE Saved(Enqueue([s EXCEPT !.mem.seen = @ \cup {d}], d))

ExpiredUnlessForced(s, i) == ~s.mem.entry[i].forced /\ s.age[i] # "fresh"

(* filterFresh and selectExpired.                                          *)
Expired(s, i) == IF s.mem.entry[i].forced THEN s.age[i] = "over" ELSE s.age[i] # "fresh"

(* hasPendingWake: a queued wake of the same sender that is still fresh.   *)
HasPendingWake(s, w) ==
  \E i \in PendingIn(s.mem) \cap Wakes : SenderOf[i] = SenderOf[w] /\ ~Expired(s, i)

SwallowedInMemory(s, w) ==
  IF w \in s.mem.seen THEN s ELSE Saved([s EXCEPT !.mem.seen = @ \cup {w}])

(* ingestWakeDir, for one file: merged, recognised or queued; when the     *)
(* save fails, what changed in memory is undone and the wake file stays.   *)
Marked(s, w) == [s EXCEPT !.mem.seen = @ \cup {w}]
Swallowed(s, w) ==
  IF w \in s.mem.seen THEN s
  ELSE IF full THEN Saved(s)
  ELSE IF HasPendingWake(s, w) THEN Saved(Marked(s, w))
  ELSE Saved(Enqueue(Marked(s, w), w))

(* The undoing puts a copy in the place of the receipt array, which a      *)
(* flush under way does not see.                                           *)
Undone(s, w) == w \notin s.mem.seen /\ full /\ ~HasPendingWake(s, w)
Detached(q) == IF pass[q].live THEN [pass[q] EXCEPT !.live = FALSE, !.owed = mem.acks]
               ELSE pass[q]

(* What arrives together is taken in one after the other.                  *)
TakeIn(s, i) ==
  IF i \in Posts THEN IngestRow(s, i)
  ELSE IF i \in DMs THEN IngestDirect(s, i) ELSE Swallowed(s, i)
TakenIn(s, items) ==
  LET after[n \in 0..Len(items)] ==
        IF n = 0 THEN s ELSE TakeIn(after[n - 1], items[n])
  IN  after[Len(items)]

Ingest(s, rows) == Saved([TakenIn(s, rows) EXCEPT !.mem.bootstrapped = TRUE])

(* _markDraftHeld: saved only when something changed.                      *)
MarkHeld(s, held) ==
  IF \A i \in PendingIn(s.mem) : s.mem.entry[i].held = held THEN s
  ELSE Saved([s EXCEPT !.mem.entry =
         [i \in Ids |-> IF i \in PendingIn(s.mem) THEN [@[i] EXCEPT !.held = held] ELSE @[i]]])

MergedTogetherWithPosts(m, forcible) == Kept(m.pending, forcible)

(* The direct messages of a forced delivery are typed as one.              *)
MergedTogether(m, forcible) == Kept(m.pending, forcible \cap DMs)

(* pruneStale with markForcedDeliveries.  What has expired behind a busy   *)
(* window or a draft is forced instead, once, the direct messages among it *)
(* as one item; the rest leaves the queue, direct messages with a receipt. *)
Expiring(s) == {i \in PendingIn(s.mem) : Expired(s, i)}
Forcible(s, canForce, busy) ==
  {i \in Expiring(s) \ Wakes : /\ canForce /\ ForceOnExpiry
                               /\ ~s.mem.entry[i].forced
                               /\ busy \/ s.mem.entry[i].held}

(* Each receipt is saved as it is written; those for `unsaved' are not yet. *)
PruneUpTo(s, canForce, busy, unsaved) ==
  LET forcible == Forcible(s, canForce, busy)
      dms      == MergedTogether(s.mem, forcible)
      absorbed == IF dms = <<>> THEN {} ELSE Range(Tail(dms))
      forced   == forcible \ absorbed
      expired  == Expiring(s) \ forcible
      gone     == absorbed \cup expired
  IN  IF Expiring(s) = {} THEN s
      ELSE Saved([s EXCEPT
             !.mem = [s.mem EXCEPT
               !.pending = Kept(@, Ids \ gone),
               !.acks = @ \cup ReceiptsFor(s.mem, expired \ unsaved, "expired"),
               !.entry = [i \in Ids |->
                  IF i \notin forced THEN s.mem.entry[i]
                  ELSE [s.mem.entry[i] EXCEPT !.forced = TRUE,
                          !.merged = IF i \in DMs THEN Range(dms)
                                     ELSE s.mem.entry[i].merged]]],
             !.age = [i \in Ids |-> IF i \in forced THEN "new" ELSE @[i]]])
PruneStale(s, canForce, busy) == PruneUpTo(s, canForce, busy, {})

(* nextDeliverableBatch: the first item, with the posts that follow it     *)
(* directly when it is a post, forced ones apart from the others.          *)
Batch(m) ==
  LET q == m.pending
      Joins(n) == q[n] \in Posts /\ m.entry[q[n]].forced = m.entry[q[1]].forced
      Run(n) == \A k \in 1..n : Joins(k)
  IN  IF q = <<>> \/ q[1] \notin Posts THEN SubSeq(q, 1, IF q = <<>> THEN 0 ELSE 1)
      ELSE SubSeq(q, 1, CHOOSE n \in 1..Len(q) : Run(n) /\ (n = Len(q) \/ ~Run(n + 1)))

Without(s, items) == [s EXCEPT !.mem.pending = Kept(@, Ids \ items)]
-----------------------------------------------------------------------------
(* A delivery pass.                                                        *)

(* flushAcks begins, or is over at once when nothing is owed.              *)
AfterFlush(s, from) ==
  IF from = "flush" /\ s.mem.pending # <<>> THEN [Idle EXCEPT !.at = "list"] ELSE Idle
Flushing(s, from) ==
  IF s.mem.acks = {} THEN AfterFlush(s, from)
  ELSE [Idle EXCEPT !.at = from, !.live = TRUE]

(* The pass ends its round over the crew and flushes the receipts.         *)
Finish(p, s) == pass' = [pass EXCEPT ![p] = Flushing(s, "flushEnd")]

(* deliver, up to its first await: every wake file that can be read is     *)
(* taken in, and removed when its key is saved and the removal succeeds.   *)
Deliver(p) ==
  /\ life = "up"
  /\ pass[p].at = "idle"
  /\ p = Unused({q \in Passes : pass[q].at = "idle"})
  /\ Cardinality({q \in Passes : pass[q].at # "idle"}) < bound.passes
  /\ \E read \in SUBSET files : \E removable \in SUBSET read :
       LET s       == TakenIn(Now, SetToSeq(read))
           removed == removable \cap s.mem.seen
       IN  /\ Becomes(s)
           /\ files' = files \ removed
           /\ consumed' = consumed \cup removed
           /\ pass' = [q \in Passes |->
                IF q = p THEN Flushing(s, "flush")
                ELSE IF \E w \in read : Undone(Now, w) THEN Detached(q) ELSE pass[q]]
  /\ UNCHANGED <<draining, life, fetch, server, full, cuts, faults,
                 forcedTries, forgotten, wiped, bound>>

Owed(p) == IF pass[p].live THEN mem.acks ELSE pass[p].owed

(* flushAcks, up to its next await: one receipt has been sent.  The server *)
(* may have recorded it although the answer was lost.  After the last one  *)
(* the receipts that failed become the owed ones, whatever was added or    *)
(* sent by another flush in the meantime; a flush still running keeps the  *)
(* array it had.                                                           *)
AckAnswered(p, r, arrived, ok) ==
  /\ pass[p].at \in {"flush", "flushEnd"}
  /\ r \in Owed(p) \ pass[p].done
  /\ ok => arrived
  /\ LET done == pass[p].done \cup {r}
         left == IF ok THEN pass[p].left ELSE pass[p].left \cup {r}
         s    == Saved([Now EXCEPT !.mem.acks = left])
     IN  IF Owed(p) \subseteq done
         THEN /\ Becomes(s)
              /\ forgotten' = forgotten \cup (mem.acks \ (done \cup left))
              /\ pass' = [q \in Passes |->
                   IF q = p THEN AfterFlush(s, pass[p].at)
                   ELSE Detached(q)]
         ELSE /\ pass' = [pass EXCEPT ![p].done = done, ![p].left = left]
              /\ UNCHANGED <<sidecar, forgotten>>
  /\ recv' = IF arrived THEN recv \cup {r[1]} ELSE recv
  /\ inbox' = IF arrived THEN Kept(inbox, DMs \ {r[1]}) ELSE inbox
  /\ UNCHANGED <<draining, life, fetch, log, sent, files, full, cuts, faults,
                 forcedTries, consumed, wiped, bound>>

(* The windows have been listed.  The mark that the crew member is being   *)
(* typed to is looked at here, and not again.                              *)
ListWindows(p) ==
  /\ pass[p].at = "list"
  /\ \/ /\ Becomes(Now)
        /\ mem.pending # <<>> /\ ~draining
        /\ pass' = [pass EXCEPT ![p] = [Idle EXCEPT !.at = "read"]]
     \/ /\ Becomes(Now)
        /\ mem.pending = <<>> \/ draining
        /\ Finish(p, Now)
     \/ LET s == PruneStale(Now, FALSE, FALSE)  \* no list, or no window of its own
        IN  Becomes(s) /\ Finish(p, s)
  /\ UNCHANGED <<draining, life, fetch, server, files, full, cuts, faults, ghosts>>

(* The process is killed: what it had not saved is gone, and so is all it  *)
(* knew when the file is empty.                                            *)
Killed(s, fault, lost) ==
  /\ fault \in bound.faults \ faults
  /\ faults' = faults \cup {fault}
  /\ life' = "down"
  /\ Becomes([s EXCEPT !.mem = s.disk])
  /\ pass' = [p \in Passes |-> Idle]
  /\ draining' = FALSE
  /\ fetch' = FALSE
  /\ forgotten' = forgotten \cup lost
  /\ wiped' = wiped \cup IF s.disk = Empty THEN s.mem.seen ELSE {}
  /\ UNCHANGED <<server, files, full, cuts, forcedTries, consumed, bound>>

(* pruneStale is killed when some of the receipts are written, oldest      *)
(* first, and the queue is saved without any of the expired.               *)
PruneKilled(p, canForce, busy, hold) ==
  /\ pass[p].at = "read" \/ (pass[p].at = "list" /\ ~canForce)
  /\ ~full
  /\ LET s       == IF canForce /\ ~busy /\ hold THEN MarkHeld(Now, TRUE) ELSE Now
         expired == (Expiring(s) \ Forcible(s, canForce, busy)) \cap DMs
         due     == Kept(s.mem.pending, expired)
     IN  \E n \in 1..Len(due) - 1 :
           LET unsaved == Range(SubSeq(due, n + 1, Len(due)))
           IN  Killed(PruneUpTo(s, canForce, busy, unsaved), "torn",
                      ReceiptsFor(s.mem, unsaved, "expired"))

(* The screen could not be read.                                           *)
ReadFails(p) ==
  /\ pass[p].at = "read"
  /\ LET s == PruneStale(Now, FALSE, FALSE) IN Becomes(s) /\ Finish(p, s)
  /\ UNCHANGED <<draining, life, fetch, server, files, full, cuts, faults, ghosts>>

PlanDelivery(item, busy) ==
  CASE item.tried               -> "wait"
    [] item.forced /\ ~item.tried -> "inject_forced"
    [] ~item.forced /\ ~item.tried -> IF busy THEN "wait" ELSE "inject"

TriedInMemory(s, batch) ==
  [s EXCEPT !.mem.entry =
     [i \in Ids |-> IF i \in Range(batch) THEN [@[i] EXCEPT !.tried = TRUE] ELSE @[i]]]

(* Forced attempts are written down before anything is typed.              *)
Tried(s, batch) ==
  Saved([s EXCEPT !.mem.entry =
     [i \in Ids |-> IF i \in Range(batch) THEN [@[i] EXCEPT !.tried = TRUE] ELSE @[i]]])

UpTo2(n) == IF n = 2 THEN 2 ELSE n + 1
Counted(f, items) == [i \in Ids |-> IF i \in items THEN UpTo2(f[i]) ELSE f[i]]

(* The screen has been read: the window is busy or not, and somebody is    *)
(* writing a draft in it or not.  What is old is forced or dropped, and    *)
(* the pass either waits or begins to type.                                *)
ReadScreen(p, busy, hold) ==
  /\ pass[p].at = "read"
  /\ LET marked == IF ~busy /\ hold THEN MarkHeld(Now, TRUE) ELSE Now
         pruned == PruneStale(marked, TRUE, busy)
         s      == IF ~busy /\ ~hold THEN MarkHeld(pruned, FALSE) ELSE pruned
         batch  == Batch(s.mem)
         item   == s.mem.entry[Head(batch)]          \* of the head, when there is one
         plan   == IF batch = <<>> THEN "none" ELSE PlanDelivery(item, busy)
         h      == MarkHeld(s, hold)
         forced == plan = "inject_forced"
         held   == hold /\ (forced => s.age[Head(batch)] = "new")
         t      == IF forced THEN Tried(h, batch) ELSE h
     IN  \/ /\ plan \in {"none", "wait"}
            /\ Becomes(s) /\ Finish(p, s)
            /\ UNCHANGED <<draining, forcedTries>>
         \/ /\ plan \in {"inject", "inject_forced"} /\ held
            /\ Becomes(h) /\ Finish(p, h)
            /\ UNCHANGED <<draining, forcedTries>>
         \/ /\ forced /\ ~held /\ full                \* forced-save-failed
            /\ Becomes(t) /\ Finish(p, t)
            /\ draining' = FALSE
            /\ UNCHANGED forcedTries
         \/ /\ plan = "inject" \/ (forced /\ ~full)
            /\ ~held
            /\ Becomes(t)
            /\ draining' = TRUE
            /\ pass' = [pass EXCEPT ![p] =
                 [Idle EXCEPT !.at = "type", !.batch = batch]]
            /\ forcedTries' = IF forced THEN Counted(forcedTries, UNION {Sources(t.mem, i) : i \in Range(batch)})
                              ELSE forcedTries
  /\ UNCHANGED <<life, fetch, server, files, full, cuts, faults,
                 forgotten, consumed, wiped, bound>>

(* sendText: the text is in the window.                                    *)
SendText(p) ==
  /\ pass[p].at = "type"
  /\ pass' = [pass EXCEPT ![p].at = "enter"]
  /\ UNCHANGED <<sidecar, draining, life, fetch, server, files, full, cuts, faults, ghosts>>

(* sendText or sendKey failed: the batch stays queued.                     *)
InjectFails(p) ==
  /\ pass[p].at \in {"type", "enter"}
  /\ draining' = FALSE
  /\ Finish(p, Now)
  /\ UNCHANGED <<sidecar, life, fetch, server, files, full, cuts, faults, ghosts>>

(* sendKey: the batch is delivered.                                        *)
SendKey(p) ==
  /\ pass[p].at = "enter"
  /\ LET items == Range(pass[p].batch)
         s     == Saved([Without(Now, items) EXCEPT
                    !.mem.acks = @ \cup ReceiptsFor(mem, items, "delivered")])
     IN  Becomes(s) /\ Finish(p, s)
  /\ draining' = FALSE
  /\ UNCHANGED <<life, fetch, server, files, full, cuts, faults, ghosts>>

(* The queue is saved without the batch, and the process is killed before  *)
(* the receipts are.                                                       *)
SendKeyKilled(p) ==
  /\ pass[p].at = "enter"
  /\ ~full
  /\ LET items == Range(pass[p].batch)
     IN  Killed(Saved(Without(Now, items)), "torn", ReceiptsFor(mem, items, "delivered"))
-----------------------------------------------------------------------------
(* Intake.                                                                 *)

(* main(): the first poll of the history, which may fail, and then the     *)
(* timers and the event streams.                                           *)
FirstPoll(ok) ==
  /\ life = "starting"
  /\ life' = "up"
  /\ fetch' = TRUE
  /\ Becomes(IF ok THEN Ingest(Now, log) ELSE Now)
  /\ UNCHANGED <<pass, draining, server, files, full, cuts, faults, ghosts>>

PollHistory ==
  /\ life = "up"
  /\ Becomes(Ingest(Now, log))
  /\ UNCHANGED <<pass, draining, life, fetch, server, files, full, cuts, faults, ghosts>>

(* The direct messages that wait on the server are fetched once.           *)
FetchPending(ok) ==
  /\ life = "up"
  /\ fetch
  /\ fetch' = FALSE
  /\ Becomes(IF ok THEN TakenIn(Now, inbox) ELSE Now)
  /\ UNCHANGED <<pass, draining, life, server, files, full, cuts, faults, ghosts>>

-----------------------------------------------------------------------------
(* The server, other programs and time.                                    *)

(* A message is streamed to the sidecar if its stream is connected; the    *)
(* pass this starts is a Deliver.                                          *)
Streamed(s) == Becomes(Now) \/ (life = "up" /\ Becomes(s))

Post(g) ==
  /\ g \notin Range(log)
  /\ g = Unused(Posts \ Range(log))
  /\ Len(log) < bound.posts
  /\ log' = Append(log, g)
  /\ Streamed(Ingest(Now, <<g>>))
  /\ UNCHANGED <<pass, draining, life, fetch, sent, inbox, recv, files,
                 full, cuts, faults, ghosts>>

(* POST /api/agent/:id/chat to a terminal agent.                           *)
Chat(d) ==
  /\ d \notin sent
  /\ d = Unused(DMs \ sent)
  /\ Cardinality(sent) < bound.dms
  /\ sent' = sent \cup {d}
  /\ inbox' = Append(IF Len(inbox) >= MaxInbox THEN Tail(inbox) ELSE inbox, d)
  /\ Streamed(IngestDirect(Now, d))
  /\ UNCHANGED <<pass, draining, life, fetch, log, recv, files, full, cuts,
                 faults, ghosts>>

(* Another program leaves a wake file, perhaps with a key it used before.  *)
LeaveWake(w) ==
  /\ w \notin files
  /\ Cardinality(files \cup consumed \cup {w}) <= bound.wakes
  /\ files' = files \cup {w}
  /\ UNCHANGED <<sidecar, pass, draining, life, fetch, server, full, cuts, faults, ghosts>>

(* stalePendingMs pass for the n oldest items.                             *)
Ages(n) ==
  /\ n \in 1..Len(mem.pending)
  /\ age[mem.pending[n]] = "fresh"
  /\ age' = [i \in Ids |-> IF i \in Range(SubSeq(mem.pending, 1, n)) /\ age[i] = "fresh"
                           THEN "old" ELSE age[i]]
  /\ UNCHANGED <<mem, disk, pass, draining, life, fetch, server, files, full, cuts,
                 faults, ghosts>>

(* forcedDraftHoldMs, then forcedGraceMs pass for an item that was forced, *)
(* and for those forced before it.                                         *)
GraceRuns(n) ==
  /\ n \in 1..Len(mem.pending)
  /\ age[mem.pending[n]] \in {"new", "ripe"}
  /\ age' = [i \in Ids |->
       IF i \notin Range(SubSeq(mem.pending, 1, n)) THEN age[i]
       ELSE CASE age[i] = "new" -> "ripe" [] age[i] = "ripe" -> "over" [] OTHER -> age[i]]
  /\ UNCHANGED <<mem, disk, pass, draining, life, fetch, server, files, full, cuts,
                 faults, ghosts>>

Crash == life # "down" /\ Killed(Now, "crash", {})

(* The process is killed in the middle of a save, when the file is open    *)
(* and empty.  Reading the history ends in a save, so this may be anywhere.*)
KilledInSave ==
  /\ life # "down"
  /\ ~(full /\ ~cuts)
  /\ Killed([Now EXCEPT !.disk = Empty], "cut", {})

(* _loadState: mem is what the file says, or Empty, as Killed has set it.  *)
Start ==
  /\ life = "down"
  /\ life' = "starting"
  /\ UNCHANGED <<sidecar, pass, draining, fetch, server, files, full, cuts, faults, ghosts>>

(* The server restarts: pendingDms is kept in memory only.                 *)
ServerRestarts ==
  /\ "restart" \in bound.faults \ faults
  /\ faults' = faults \cup {"restart"}
  /\ inbox' = <<>>
  /\ UNCHANGED <<sidecar, pass, draining, life, fetch, log, sent, recv, files, full,
                 cuts, ghosts>>

DiskFills ==
  /\ ~full
  /\ "disk" \in bound.faults \ faults
  /\ faults' = faults \cup {"disk"}
  /\ full' = TRUE
  /\ cuts' \in BOOLEAN
  /\ UNCHANGED <<sidecar, pass, draining, life, fetch, server, files, ghosts>>

DiskFrees ==
  /\ full
  /\ full' = FALSE
  /\ cuts' = FALSE
  /\ UNCHANGED <<sidecar, pass, draining, life, fetch, server, files, faults, ghosts>>
-----------------------------------------------------------------------------
Init ==
  /\ bound \in Bounds
  /\ mem = Empty /\ disk = Empty
  /\ age = [i \in Ids |-> "fresh"]
  /\ pass = [p \in Passes |-> Idle]
  /\ draining = FALSE
  /\ life = "down" /\ fetch = FALSE
  /\ log = <<>> /\ sent = {} /\ inbox = <<>> /\ recv = {}
  /\ files = {} /\ full = FALSE /\ cuts = FALSE /\ faults = {}
  /\ forcedTries = [i \in Ids |-> 0]
  /\ forgotten = {} /\ consumed = {} /\ wiped = {}

Delivers(p) ==
  \/ Deliver(p) \/ ListWindows(p) \/ ReadFails(p)
  \/ \E busy, hold \in BOOLEAN : ReadScreen(p, busy, hold)
  \/ SendText(p) \/ InjectFails(p) \/ SendKey(p)
  \/ \E r \in Receipt, arrived, ok \in BOOLEAN : AckAnswered(p, r, arrived, ok)

TimePasses == \E n \in 1..bound.queue : Ages(n) \/ GraceRuns(n)

Next ==
  \/ \E p \in Passes : Delivers(p)
  \/ \E ok \in BOOLEAN : FirstPoll(ok) \/ FetchPending(ok)
  \/ PollHistory
  \/ \E g \in Posts : Post(g)
  \/ \E d \in DMs : Chat(d)
  \/ \E w \in Wakes : LeaveWake(w)
  \/ TimePasses
  \/ \E p \in Passes : \/ SendKeyKilled(p)
                       \/ \E canForce, busy, hold \in BOOLEAN :
                            PruneKilled(p, canForce, busy, hold)
  \/ Crash \/ KilledInSave \/ Start \/ ServerRestarts \/ DiskFills \/ DiskFrees

Spec == Init /\ [][Next]_vars

(* Every pass goes on, since each call of the terminal adapter and of the  *)
(* server ends (with a time-out, if need be), and the timer starts another *)
(* every busyPollMs; the clock runs; a killed sidecar is started again;    *)
(* and the server, tried again and again, takes a receipt.                 *)
Fairness ==
  /\ \A p \in Passes : WF_vars(Delivers(p))
  /\ WF_vars(TimePasses)
  /\ WF_vars(Start) /\ WF_vars(\E ok \in BOOLEAN : FirstPoll(ok))
  /\ \A d \in DMs : SF_vars(\E p \in Passes, status \in {"delivered", "expired"} :
                               AckAnswered(p, <<d, status>>, TRUE, TRUE))

FairSpec == Spec /\ Fairness
-----------------------------------------------------------------------------
(* What the queue, a pass and the receipts may hold.                       *)
TypeOK ==
  /\ mem \in State /\ disk \in State
  /\ age \in [Ids -> Age]
  /\ pass \in [Passes -> Pass]
  /\ draining \in BOOLEAN /\ fetch \in BOOLEAN
  /\ full \in BOOLEAN /\ cuts \in BOOLEAN
  /\ life \in {"down", "starting", "up"}
  /\ log \in Seq(Posts) /\ sent \subseteq DMs /\ inbox \in Seq(DMs)
  /\ recv \subseteq DMs
  /\ files \subseteq Wakes
  /\ faults \subseteq {"crash", "torn", "cut", "restart", "disk"}
  /\ forcedTries \in [Ids -> 0..2]
  /\ forgotten \subseteq Receipt
  /\ consumed \subseteq Wakes
  /\ wiped \subseteq Ids

Owes(receipts, d) == \E r \in receipts : r[1] = d

(* Where a direct message is, seen from its sender.                        *)
Place(d) ==
  CASE d \in recv                                   -> "answered"
    [] d \notin recv /\ Owes(mem.acks, d)           -> "owed"
    [] OTHER ->
       IF \E i \in PendingIn(mem) : d \in Sources(mem, i) THEN "held"
       ELSE IF d \in mem.seen /\ Owes(forgotten, d) THEN "lost" ELSE "away"

Messages == INSTANCE DirectMessages WITH
              at <- [d \in DMs |-> Place(d)],
              saved <- (disk = Written(mem)),
              faults <- faults \cap {"disk", "torn", "cut"}

(* The sidecar implements DirectMessages: whatever passes overlap, merge,  *)
(* push out, expire or crash, a direct message it took in stays held until *)
(* a receipt is owed for it, and owed until the server has it, save for    *)
(* the receipts an older flush drops, for what a kill in the middle of two *)
(* saves forgets, for what a kill in the middle of one wipes, and for what *)
(* has not been saved, or was emptied, when the process ends.              *)
Promise == Messages!Spec

(* A forced attempt interrupts somebody, so an item gets one at most, over *)
(* crashes, restarts, full disks and passes that overlap, unless the       *)
(* process that knew of it has ended with an empty state file: then the    *)
(* item may be fetched and forced again, whatever docs/TERMINAL.md says    *)
(* ("at most once per queued message", line 307).                          *)
ForcedOnce == \A i \in Ids \ wiped : forcedTries[i] <= 1

(* A wake file is removed only when its key is saved.  It stays in the     *)
(* file until a save has emptied that, and in memory even then: a wake     *)
(* that has left the directory is forgotten only with everything else,     *)
(* when the process ends before the next save that succeeds.               *)
WakesSurvive ==
  /\ consumed \subseteq mem.seen \cup wiped
  /\ disk = Empty \/ consumed \subseteq disk.seen \cup wiped

(* A direct message that was taken in is answered in the end, with a       *)
(* receipt the server has, whatever the window does, unless its receipt    *)
(* was forgotten or a crash took it back.                                  *)
EveryDmEnds ==
  \A d \in DMs : Place(d) = "held" ~> Place(d) \in {"answered", "lost", "away"}

(* "type the oldest item in" (sidecar.js:544) "if their window is free",   *)
(* and "type once, press Enter" (docs/TERMINAL.md:140): one pass at a time *)
(* types into a window.  TLC finds two that do.                            *)
Typing(p) == pass[p].at \in {"type", "enter"}
OneTyperAtATime == \A p, q \in Passes : Typing(p) /\ Typing(q) => p = q
=============================================================================
