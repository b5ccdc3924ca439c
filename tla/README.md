# Mousecrew in TLA+

Mousecrew is a Node.js server that lets a crew of coding agents (long-lived CLI
processes, on this machine or on workers, and agents living in a terminal) share
work orders, a group chat and direct messages. This directory holds the TLA+
modules that model its core logic, the TLC instances that check them, and
machine-checked proofs of the properties that matter most.

Paths below are relative to the repository (`src/...` is the server's source,
`bin/...` its programs). `PROJECT.json` maps each definition to the lines it
translates.

## 1. The system

### Components

| component | source | state it keeps | operations |
|---|---|---|---|
| Order state machine | `src/lib/order-state-machine.js` | none (a table) | `checkTransition`, `transition`, `resumeTargetOf`, `canReachClosed` |
| Work-order server | `src/routes/orders.js`, `src/lib/audit-freeze.js`, `src/lib/workspace.js`, `src/db.js` | a SQLite row per order (status, assignee, creator, blocked_by, frozen, audit_revision, commit), its timeline, its frozen revisions | create, dispatch, accept, transition, pause, resume, unfreeze, assign, restart-done, get |
| Wake freshness | `src/lib/wake-freshness.js` | the status and recipient a wake-up was queued for | the check when the wake-up is dequeued |
| Agent runtime | `src/lib/agent-runtime.js` | process, generation, state, queue, current job, session id, restart counter, rotation flags, timers | `send`, `start`, `stop`, `rotate`, `newSession`, process output and exit, five timers |
| Agent manager, dispatcher, remote bridge | `src/lib/agent-manager.js`, `src/lib/dispatch.js`, `src/ws/remote-bridge.js`, `bin/mousecrew-worker.js` | the local runtimes, the socket and pending requests of every remote agent | register, unregister, wait for a reconnect, dispatch, chain a reply |
| Terminal sidecar | `src/lib/sidecar.js`, `src/lib/sidecar-core.js`, `src/routes/agents.js` | message queues, seen ids, cursors, delivery state and receipts in the sidecar; pending direct messages in the server | ingest from poll and stream, deliver into the terminal, acknowledge, report presence |
| Session record and lock | `src/lib/rotation.js`, `src/lib/handoff.js`, `scripts/context-watch.js` | a JSON record per agent, a lock file made with hard links | acquire, release, reclaim, update activity, rotate |
| Threads | `src/lib/thread-rules.js`, `src/routes/threads.js` | rows with a state, a plan, a log, `prev` | create, set, plan, tick, log, finish, archive and undo |
| Nudge scheduler | `src/lib/nudge.js` | when each order and agent was last nudged | scan, nudge round |
| Group chat, event bus, notices, archive | `src/lib/group-hub.js`, `src/routes/group.js`, `src/lib/event-bus.js`, `src/lib/notify.js`, `src/lib/archive.js` | the open streams | broadcast, append to an archive file |
| Identity, token, configuration | `src/lib/identity.js`, `src/lib/require-token.js`, `src/config.js`, `src/server.js` | none | pure checks |
| Commit verification | `src/lib/commit-verify.js` | none | runs git |
| Terminal input and adapters | `src/lib/input-draft.js`, `bin/mousecrew-sidecar.js` | none | read the screen, type text |
| Command line | `bin/mousecrew.js` | none | one request per command |

### How they interact

* A **request** of an agent or a person (through the command line) reaches a
  route. Express runs one handler at a time and better-sqlite3 is synchronous,
  so a handler without `await` is atomic with respect to other requests. The
  order handlers have one `await` only where git is consulted, before anything
  is written.
* A move of an order may produce a **notice**: a chat line, a card, and a
  **wake-up** for the order's owner or for the merge gate. The nudge scheduler
  produces more of them, for orders that stand still.
* A wake-up goes through the **dispatcher** to a local runtime, whose queue may
  hold it for hours, or over a socket to a worker, which may have to reconnect
  first. **Wake freshness** decides when it is handed over whether it still means
  anything. A reply that mentions somebody starts one more dispatch.
* An agent acts on **what it read**: it fetches an order, works, and sends its
  decision later. Everything the order server defends against comes from this.
* The **sidecar** polls and streams posts and direct messages from the server
  and picks up wake files other programs leave. It types them into a terminal
  when its screen is quiet, by force when they get old, and sends receipts back.
* Session records are files several processes write; the lock file is what
  keeps them from losing each other's updates.

### What is hard here

* Decisions based on an old read, arriving after the order changed.
* A review state spread over several columns, entered by five ways (transition,
  accept, resume, resume through transition, automatic resume of a waiter) and
  left by as many.
* Edges refused one at a time, while sequences of allowed edges reach the same
  end; pointers changed one at a time, while together they must not form a ring.
* Waiting orders released by the close of another order, in the same transaction.
* A kill of the server between two statements that share no transaction, of the
  sidecar between two saves or in the middle of one, of a process anywhere in the
  lock protocol.
* Output of a replaced process, `error` and `close` of one spawn, timers racing answers.
* Sockets open at one end and closed at the other, two of them at once, answers
  that arrive after the promise they are for was given up.
* Delivery passes of the sidecar that overlap at every `await`: two flushes of
  receipts, a prune that merges into what another pass is typing, a wake that
  has to be undone because the disk is full.
* Reminders that must back off, rotate and still never stop.

`PROJECT.json` lists each of these under `hazards`, at its line, with the
properties that cover it or the reason none does.

## 2. Modules and plan

| module | models | abstract specification | theorems in |
|---|---|---|---|
| `OrderStates`, `WorkOrders` | the order server | | `WorkOrdersProofs` |
| `SessionLock` | the lock file and the commands under it | `SessionRecord` | `SessionLockProofs` |
| `AgentRuntime`, `ExecRunner` | the two ways to run a CLI | | `AgentRuntimeProofs`, `ExecRunnerProofs` |
| `Threads` | the rows, plans and logs of threads | | `ThreadsProofs` |
| `WakeFreshness`, `Dispatch` | dispatcher, registry of remote agents, bridge and worker | | `DispatchProofs` |
| `Sidecar` | the sidecar with the server's side of a direct message | `DirectMessages` | `SidecarProofs` |
| `Nudge` | the nudge scheduler | | `NudgeProofs` |

`OrderStates` and `WakeFreshness` are constant operators that the others share:
`Dispatch` and `Nudge` both judge an order by `OwnerOf`, and all three use the
table of transitions. `MC*` modules and `.cfg` files are the instances.

Still to do, in this order: an abstract review gate (an order is open, under review of delivery
*d*, passed with *d*, or done) that `WorkOrders` implements up to
`pending_restart`; `WorkOrders` composed with the wake-ups it sends, so that an
order's own history drives `Dispatch` and `Nudge` instead of a free walk over the
table; several crew members in one sidecar, its rotation reminders and its
reports of presence; the nudge scheduler's notes on orders and its notice of
pending restarts.

## 3. The order server: `OrderStates` and `WorkOrders`

`OrderStates` is the state machine as constants: `TRANSITIONS` is the table,
`IsCancelClose` its two cancellation marks, `ResumeTargetFrom` the target of a
resume and `CanReachClosed` the walk `canReachClosed` makes.

`WorkOrders` has one variable per column that matters (`status`, `assignee`,
`createdBy`, `blockedBy`, `frozen`, `auditRev`, `delivery`), `revisions` for the
rows of `order_revisions`, and of the timeline what the code or a property reads
back: `pausedFrom` (the `from` of the last `paused` entry, which
`resumeTargetOf` looks up), `entered` (did it ever enter `submitted` or
`auditing`) and `closing` (the entry that closed it). `seen` is not in the
server: it is what the reviewer's last GET returned, and so what the
`audit_revision` in a decision comes from. `decided` is history.

`Move` is `moveOrder`, the transaction under every endpoint: backfill, transition,
release of waiters, freeze and unfreeze. The endpoints are actions whose guards
are the code's early returns; a refused request changes nothing and is no step.
`Pause` and `Resume` take a `killed` flag: the status is written in one
transaction and `blocked_by` in the next statement.

Abstractions: ids are model values; commit, branch and files are one delivery
value, since they are always written together or guarded together; comments,
notices, cards, wake-ups and logs are left out; `needs_restart` is left out (no
guard reads it for a status change); git's answer is the choice of delivery and,
in `RestartDone`, of the subset of orders that closes.

| run | instance | question |
|---|---|---|
| `review` | 1 order, gate, a repo-bound agent of the reviewed lane and a self-managed one, 2 deliveries (interchangeable: symmetry), 2 revisions | who can end a review; does a decision always bind to the delivery its reviewer read; do freeze and snapshot always agree; what can close without a review |
| `blocking` | 2 orders (one legacy), 1 revision, pauses and resumes that are killed | what a close releases, and how |

Bounds. Two deliveries and two revisions are what a stale decision needs: read
at revision 1, decided at revision 2 with another commit. A third revision
repeats the second. Waiting relates two orders, self-waits and mutual waits
included. `MaxRev` disables the step that would freeze once more; everything
else is finite.

`OnlyDraftSkipsReview` has an exception, which is what the code allows:
submitted, rejected, draft, closed (section 11). It says that this is the only
sequence of its kind. `MergedIsReviewed` stops at `pending_restart`, because a
request that closes a passed order may bring another commit.

No fairness is assumed and no liveness stated about orders: every step is a
request somebody may never send. Deadlock is checked: some request is always
possible.

### What is proved

`WorkOrdersProofs` proves, for any set of orders, roster, repositories, bound and legacy
orders, from `RosterAssumption` and `BoundAssumption`:

* `TypeCorrect`: `TypeOK`, including that an order is paused only from a status
  it can be resumed to.
* `FreezeCorrect`: an order is frozen exactly while it is in a review that began with
  the freeze (`ReviewIsFrozen`).
* `FrozenDeliveryStays`: while it is frozen, its delivery is the one of its snapshot
  (`FrozenMatchesSnapshot`).
* `RevisionsAreUnique`: a revision number names one delivery for good.
* `DecisionsAreOfSnapshots`: an accepted decision is of the snapshot it names.
* `MergesAreReviewed`: what waits for a restart is what the gate passed.

None of them is inductive alone. `FreezeInv` adds to the freeze that
snapshots are numbered up to the order's revision (`SnapshotsCounted`), without
which a new freeze could collide with an old number. `ReviewInv` adds
`ReadsCounted` (no reader has seen a revision that does not exist yet) and
`ReadsUnderFreeze` (what was read at a frozen order's current revision is the
frozen delivery): that is why a matching revision number suffices. The lemmas
about `Move` (`MoveTypes`, `MoveOnFreeze`, `MoveKeepsReads`) carry the argument, so each
endpoint needs only its own guard.

Its second half proves, with `NoneIsNothing` besides (no timeline entry and no status
is the value that stands for SQL's NULL):

* `GateEndsReviews` and `ReviewSkippedOnlyByDraft`: `OnlyGateEndsReview` and
  `OnlyDraftSkipsReview` for every roster.
* `WaitersAreReleased` and `OnlyCompletionsRelease`: the two action properties of
  waiters, for any number of waiters, mutual waits and bulk closes included.

Their invariant is `ClosingInv`: nothing happens after the closing entry
(`ClosedForGood`), so a later pause or reassignment cannot change what it means;
review leaves its entry (`ReviewsAreEntered`); and what is accepted belongs to
somebody whose work no gate reviews (`AcceptedUnreviewed`), which holds because
`/assign` refuses accepted orders. `MoveKeepsClosing` does `moveOrder` once, for
endpoints that have asked the gate (`ByGate`) and kept to the lanes (`InLane`).
Every property of the two runs is proved.

## 4. The session record and its lock: `SessionRecord`, `SessionLock`

The commands that keep an agent's session record (`rotation.js`, `handoff.js`,
`context-watch.js`) are short-lived processes with nothing in common but a
directory. `SessionRecord` is what they promise each other: the record is
registered for a new session, gets an activity of the session it is of, or is
invalidated with its window, each in one step. `SessionLock` is how they do it,
one action per file-system call: list and sweep leftovers, write a prepared
file, link it to the lock path, unlink it, inspect and probe the owner, pin an
abandoned lock with a link of one's own, two `stat`s, unlink the lock, unlink
the pin, then read and rename the record, check the lock and release it.
`Die(p)` ends a process between any two of these, and its pid may belong to a
later process (`PidOf`).

`dir` maps each name a process can use to the file it leads to. A file is who
wrote it and a token: what the code reads from it (the pid and the random token)
and what `stat` compares (the inode) change together, and `nlink` is the number
of names that lead to it. Tokens return to use only when no name leads to
the file. Left out: the torn prepared file of a process that dies while writing
it (the sweep reads it, finds that it does not say what its name says and skips it, so it
stays and no name of the protocol ever leads to it), a torn lock (it is linked only after
the write), readers that look at the record without the lock (they see a
rename), retries after `LOCK_RETRY_MS` being longer than a step, and file
systems without hard links.

| run | instance | question |
|---|---|---|
| `lock` | 4 processes, each with its own pid, 1 session | can two hold the lock; is a living owner's lock ever removed; is what a death left behind always recovered |
| `record` | 3 processes, one with the pid of another that died, 2 sessions | `SessionLock` implements `SessionRecord` when the probe of a dead owner may answer "alive" |

Bounds. Four processes are a dead owner, two that reclaim its lock, and one that
takes it meanwhile; a process that dies needs no second life because another
process stands for it. Two tokens let a process prepare a new file while a pin
of somebody else still holds its old one. `solo` counts to 2. Deadlock is not
checked in these runs: every process may be dead.

`SessionLockProofs` proves, for any finite set of processes, any pids, tokens and
sessions, from `ProcAssumption` alone: `LockTypes`, `OwnershipKept` (the holder's
file is at the lock path), `OnlyTheDeadAreRemoved`, `Exclusion`, and
`LockMakesRecordAtomic`, the refinement. Mutual exclusion is not inductive. The
invariant `PinInv` says why it holds: who stands before the unlink has pinned the
file of a dead process (`ClaimsAreOfTheDead`), it is the only one there
(`OneRemover`, since it saw exactly two links and each pin is a name of its own),
and what is prepared or held is of a process that runs or has died, never of one
still to be born (`WritersLived`). The argument rests on `nlink`: two reclaimers that
have both pinned the file see three links and both stand back. The refinement needs in
addition only that a holder's copy of the record is current (`ReadIsCurrent`).

`LoneProcessGetsTheLock` proves `LeftoversAreRecovered`, a bounded form of "an
abandoned lock never blocks for good": wherever in the protocol the others died, a process
that is alone and whose pid no dead process had waits at most once. It is stated
about a process that is alone, because two that pin at the same time stand back from each other
and the code bounds that by a deadline, not by progress. The first wait may be due to what was
read while others lived; so the invariant `RecoveryInv` follows the process from that wait on
(`FindsItsWay`): it sweeps, and then the only leftovers are its own; the file at the lock path,
if any, is of a dead process (`LockIsHeld`: a living owner of the lock holds it),
so the probe says "dead", nobody else has pinned it, and each comparison succeeds.
`OwnLinks` says which links a living process can have at each of its steps.

## 5. The agent runtime: `AgentRuntime`, `ExecRunner`

A handler of `agent-runtime.js` runs to its end before the next event, but calls
`_setState`, which may call `_rotateNow`, which may call `_killAndRestart`, and
so on. `AgentRuntime` keeps the object's fields in one record `rt` and writes each
method as an operator from the record it finds to the one it leaves, so an
action is the whole handler: `Drain(BecomeIdle(r), n)` is `this._setState('idle');
this._drain();`. Its actions are the requests (`Send`, `NewSession`, `Rotate`),
the timers (`RestartFires`, `TurnTimesOut`, `StandDown`) and the events of
processes (`Hook`, `SystemInit`, `AssistantText`, `Result`, `SpawnError`, `Close`,
and `ExitHeldOpen`: the process has ended, its output pipe has not, so Node has
destroyed stdin and delivers no `close`).

`rt.procs` are the processes, replaced ones included: they go on talking until they
close. `generation` is the process of the last spawn, `None` after it was bumped
past every process. A process has a session, resumed or new, and a task, what it
was last told and has not answered. `rt.open` (promises not settled) and
`rt.foreign` (pairs of a job and another whose text its reply contains) are history.

Abstractions: the freshness check is any prefix of the queue being stale;
`_restartCount` saturates at 2; the two turn timers are one action, as both kill the
process and both check that their job is still current; `_stopping` is
true exactly in the state `stopped`, and the early return it guards is only
reached behind a process that is no longer the agent's; counters, usage, events
and the session file are left out; so is `destroy`, after which nothing happens.
A killed process closes eventually in the model; in the code nothing depends on it,
here its slot in `Procs` does. What the CLI does is assumed as follows: it
answers each message once, says something out of the blue only when it has none,
and a session it does not resume has a new id.

`ExecRunner` is the other runner, one process for each message, whose
`error` and `close` handlers both finish a turn and drain. `DrainExec` is
`_drainExec` with its catch: when `stdin.write` throws, the job is rejected and nothing
is current, but nobody drains, the process stays until its time-out, and its close
then ends the turn of whichever job is current. `Close` is the end of a process, its own or
by the one SIGTERM of the hard timer; `Hangs` is that it never comes, because the process ignores
the signal or something it started holds its output open. A `_spawn` that throws at once (bad
arguments) is not modelled.

| run | instance | question |
|---|---|---|
| `runtime` | 2 messages sent again and again, 2 processes not yet closed at a time, 5 session ids | whose answer is whose, what a rotation may not cross, and that every message settles |
| `exec` | 3 messages; spawns may fail, writes may throw, processes may hang | that what is queued always has a process to wait for (`QueueIsTended`), and settles unless it is held up (`EveryMessageSettles`) |

Bounds. Two processes are the running one and a replaced one; a second replaced
one would be one more that nobody listens to. Two messages are a turn and one
waiting behind it, or an answer that could go to the wrong one. Session ids are
one more than the record can name at once, and are used again when it names
them no longer. No counter is bounded, so liveness is checked on the complete graph.

`CHECK_DEADLOCK FALSE` in `exec`, since the system does stop when every message waits
behind a process that never closes.

Fairness in `runtime`: timers fire; a failed spawn is reported; a killed process closes. A
running process owes nothing, since the turn timers end it; requests owe nothing.
In `exec`: a failed spawn is reported, and a process closes or hangs. Of one that hangs nothing is
assumed, since nothing in the code makes it close; `HeldUp`, the exception of
`EveryMessageSettles`, is a message whose own process hangs, or that waits when no other
process is left. So it does say that a failed spawn, a failed write or a hanging process never keeps the
queue waiting while there is any other process to close.
`EveryJobSettles` excepts `HeldOpen`: a process that has ended without closing. That
exception is a defect of the code (section 11).

`AgentRuntimeProofs` proves all the safety properties of the run `runtime`, and two
that no run repeats (`RotatesBeforeNextTurn`, `StandsDownOnlyWhenDone`), for any jobs, processes and sessions, from `PoolAssumption` (the values for nothing are
no jobs, processes or ids) and `SessionAssumption` (there is always an id nobody
here has). The invariant `RuntimeInv` is a predicate of a record, as the methods
are operators on one, and has two parts. `Sound` can be shown of every method alone:
`Fenced` (the agent listens to its own process or to nobody who talks, and that
process works on the current job: why no late line is ever taken), `Pure` (only text of
the turn has been heard), `Waiting` (a message waits once, and open promises
are of the turn or the queue), `Dropped` and `Fresh` (an unconfirmed rotation has
dropped the old session, and the new process is not on it). `AtRest` (an idle
agent has a process, no turn, no queue, no rotation waiting) does not hold between two calls of one handler:
`Ready` is what `_setState('idle')` leaves in its place and `_drain` starts from.
The proof has the shape of the code: what each method leaves, field by
field; what each preserves (`KillSound`, `RotateNowSound`, `DrainSound`, `StartSound`,
`ExitSound`, ...); and one short lemma for each handler.

`ExecRunnerProofs` proves `ExecTypes` and `QueuesAreTended` (`QueueIsTended`) with every failure,
and `OneTurnWithoutFailures` under the assumption that no spawn fails and no write
throws, for any set of messages. `TypeOK` is not inductive: a
message dropped as stale could be the one that starts if it were in the queue
twice, so `QueueInv` says that a waiting message is there once, with an open promise
and no process. The liveness properties `EveryJobSettles` and `EveryMessageSettles`
are only model-checked.

## 6. Threads: `Threads`

A thread is a row of `threads` with the rows of its plan and its log. One action
per endpoint that writes; a handler runs to its end without an `await`, so it is
one step. `Chain(p)` is what the walk of `checkPrevChain` meets from `p` on: the
smallest set that holds `p` and follows `prev`. The code walks with a set of seen
names; the model says what the walk decides, that it meets neither the thread to
be changed nor a missing name, and that it ends. `MergePlan` is what a rewritten
plan keeps of the old one: an item is ticked when any item of the old plan with
its text was. `POST /log` adds its line and changes the plan in one transaction,
so `LogCheck` and `LogPlan` do both.

Abstractions: of the text fields only `next` is kept, as the others are written by
the same PATCH in the same way; a snapshot is there or not; a log is its length.

| run | instance | question |
|---|---|---|
| `threads` | 3 names, the plan and log of one of them, 2 texts, plans of up to 2 items, 1 log line | can a sequence of legal requests close a ring of `prev` or leave one dangling; does a rewritten plan keep its ticks, moved, repeated or dropped |

Bounds. Three threads are the least in which each of two updates is legal alone
and the ring has a thread outside. Two items are enough for one text twice and
for two texts that change places. Names that have no plan are interchangeable,
and so are texts (symmetry). Deadlock is checked. Nothing has to happen, so there is
no fairness.

`ThreadsProofs` proves for any names, texts and bounds: `ThreadTypes`,
`PrevIsAcyclic` (`ChainsEnd`: no set of threads points only into itself, which for
finitely many threads is that there is no ring), `DoneMeansDescribed` and
`ArchiveCloses` (nothing of an archived thread changes, and no thread ever goes
away). The last two are proved only. The argument for rings: were there a set
closed under `prev` after the update, the thread that was changed would be in it,
so its new `prev` would be, so the whole chain from there; but that chain has a
member without `prev`, which is unchanged and points out of the set. `RewritesKeepTicks`
proves the action property of rewrites, `RewriteKeepsTicks`, for plans of any length in which
texts repeat and move: a text that stays is ticked exactly if one of its items was.

## 7. Dispatch: `WakeFreshness`, `Dispatch`

`WakeFreshness` is `ownerOf` and the check of `makeWakeFreshness`. `Dispatch` is the
way of an instruction: `job[i]` is dispatch `i` from the call of `dispatchTo` to
the end of its promise. `stage` says where it is (queued in a local runtime, in a turn,
waiting for a worker to reconnect, sent), `wake` the status it was written for
(`None` for a chat line), `reDispatch` whether a reply to it may start another.
`route` is `remoteAgents` of the agent manager: the socket whose `sendFn` is
registered. A socket has two ends, `server[c]` and `worker[c]`, which notice
separately that it is gone; `pending[c]` are the promises in the bridge's closure
for that socket, `toWorker` and `toServer` what is on its way. The worker's side is
`ws` (the variable, which a reconnect overwrites), its reconnect timers and the
turns it runs, whose answers go out over whatever `ws` is by then.

An action is a handler, or what a resumed `await` does before the next handler:
`Register` is the message that registers a worker's agents together with what
every waiting `dispatchTo` does when its wait resolves. `Refuse` starts two
reconnect timers, as `error` and `close` each call `retry`; so a worker may have two sockets
open at once, which is one of the cases the properties are about. A turn that ends while
`ws` is still connecting makes `send` throw in the `try` and again in the
`catch`, outside of any handler: the process ends (`WorkerDies`).

Abstractions: ids of requests are the dispatches; messages on one socket may be
overtaken by others on it (turns of a worker run side by side); one worker, which
registers all remote agents; the local runtime is reduced to taking, checking and
settling a job (`AgentRuntime` has the rest); a reply starts one dispatch at most, where
`fireReplyDispatches` starts one for each agent it mentions (they are independent of each
other, and a run with two dispatches would have no room for more); the order walks over the table of
transitions and changes hands freely.

| run | instance | question |
|---|---|---|
| `dispatch` | a local and a remote agent, 2 dispatches, 2 sockets, 2 reconnect timers, an order that goes between `in_progress` and `submitted` and changes hands | is a promise ever left where nothing will settle it; is an instruction ever taken up twice; is anything stale handed over; does every call end |

Bounds. Two sockets are the old one and the new one; two dispatches a reply that
starts another, or two that wait together; two statuses are enough to be stale
and to come back. Terminal agents are in the module; the run leaves them out, since
`dispatchTo` does nothing for them but stop. `CHECK_DEADLOCK FALSE`, since every
dispatch and socket of the instance may be used up.

Fairness: timers fire (the wait for a reconnect, the limit for an answer), the
runtime takes what is queued and settles what it took (`AgentRuntime` shows that,
except for a process held open). Nothing is assumed of sockets, of the worker or of
orders: `EveryDispatchEnds` rests on timers alone.

`DispatchProofs` proves, for any agents, transports, dispatches, sockets and bounds:
`DispatchTypes` (a registered route is an open socket that registered the agent),
`PromisesWaitAtOpenSockets`, `InstructionsAreTakenOnce` and `WakesAreFresh`. Most steps
either settle some calls or settle some and begin one more; `Settled` and `Begun` say what
each leaves, and the invariants are shown of these two forms once. `TakenOnce` is
not inductive. `Untouched` (what has not been handed over has no copy on any socket)
and `OneCopy` (what lies on a socket lies on one only and has not been taken yet)
strengthen it. `WakesAreFresh` needs `NothingHangs` for the case of a
registration: whoever it wakes up was not sent before. `EveryDispatchEnds` is
model-checked only.

## 8. The terminal sidecar: `Sidecar`, `DirectMessages`

`DirectMessages` is what the sidecar promises the senders of direct messages: one
that was taken in is *held* until it was typed or given up, then a receipt is *owed* until
the server has it. What it allows besides is what the code cannot keep: a receipt
that an overlapping flush forgets (`lost`; it may still arrive if the other flush sends
it, and is owed again if that fails or the message is typed again), one `Tear` (a kill between two saves that belong together), one
`Wipe` (a kill in the middle of a save, after which no message that is not answered is known any more), and, when the
process ends while its last save has failed, a `FallBack` to what the file says, which may be nothing.
`saved` is false only between a failed save and the next one that succeeds, so one failure excuses one
crash and not every later one. Everything else is forbidden, in particular to
go from held to nowhere in any other way.

`Sidecar` has an action for what runs between two awaits. `mem` is `this.state` (seen
ids, queue, receipts, baseline flag, and the fields an item gets in the queue), `disk` what
`_loadState` would read from the state file; `pass` are the delivery passes, of which the timer starts one and every streamed message
another, with no caller waiting for the one before. A pass awaits in six places: the
receipts, the list of windows, the screen, the text, the Enter key, and the receipts
again. Its steps are `Deliver` (takes wake files in), `AckAnswered` (once per receipt),
`ListWindows`, `ReadScreen` (prune, force, merge, hold, plan: `PruneStale`,
`MergedTogether`, `PlanDelivery`, `Batch`), `SendText`, `SendKey`. A flush iterates
over the receipt array of `mem` while others append to it (`live`), and at the end puts its own
leftovers in its place; the undoing of a wake that could not be saved puts a copy there, which
detaches a flush (`Detached`). The other actions are intake (`FirstPoll`, `PollHistory`,
`FetchPending`, streamed `Post` and `Chat`), the server's `inbox`, `sent` and `recv`, time
(`Ages`, `GraceRuns`: an item is fresh or old, a forced one new, ripe or over), and faults.

The state file is written in place: `_saveState` opens and so empties it, then writes it
(`src/lib/sidecar.js:94`), and `_loadState` takes a file it cannot parse for none (lines 81-87). So
`Saved` has three outcomes: the file is written; a save that fails before the file is opened leaves the
old one; a save that fails after it (`cuts`) leaves `Empty`. `KilledInSave` is a kill between the opening and
the end of the write, wherever a save may be under way, and also leaves `Empty`. `wiped` is history:
the keys a process knew when it ended and left the file empty.

Abstractions: one crew member, served as every other is; receipts are a set; a post is
one that mentions the crew member; a stream delivers at once or not at all;
rotation reminders, presence, files with long bodies, the cap on seen ids and malformed
input are left out; wake files arrive whole.

| run | instance | question |
|---|---|---|
| `sidecar` | twelve small worlds (below) | `Sidecar` implements `DirectMessages` (`Promise`); an item is forced at most once unless a process that knew of it ended with an emptied file (`ForcedOnce`); a wake that was removed is in the file, or in memory when a save has emptied that (`WakesSurvive`) |
| `sidecar_ends` | three smaller ones | a message that was taken in is answered in the end |
| `typed_twice` | the twelve | a pass types only when nobody else does: violated (section 11) |

Bounds. An instance is a union of worlds, each with its own number of messages, queue
limit, overlapping passes and faults, because their product is too large while
the interactions are of two or three things: one message with two passes and a crash; two messages
that merge, with a kill between two saves; two that push each other out of a queue of one; two posts;
a post and a message; a message and a wake; two wakes with a full disk; a message, and a wake, with a full disk and a kill in the middle of a save; and single
messages with a crash and a full disk or a restart of the server. A full disk may cut the file or not. Each fault
happens once in a world: a second crash finds what the first left.
Three passes at once, and overlapping passes over merged messages, are not reached.
`CHECK_DEADLOCK FALSE`, since a world comes to an end.

Fairness (`sidecar_ends` only): each pass goes on, since the calls of the adapter and of the server
have time-outs, and the timer starts another; the clock runs; a killed sidecar is started again; a server that is
asked again and again takes a receipt (strong fairness, of the one assumption about
the network). The window owes nothing: it may be busy, hold a draft or fail for good, and
the expiry still ends the message.

`SidecarProofs` proves every safety property of the run `sidecar`, for any messages, wake files,
passes, queue limits and faults, with any number of them at once, from `KindsAreApart` (the keys of direct messages, posts and wakes
differ: hashes of different parts, taken for free of collisions, and keys that start with `wake:`), `WakesAreFinite` and `InboxHasRoom`
(`MAX_PENDING` is not zero). So what the ten worlds leave out, three passes or overlapping passes over
merged messages, is covered by:

* `SidecarTypes`: `TypeOK`.
* `ForcedAttemptsAreSingle`: `ForcedOnce`, which excepts `wiped`.
* `WakesAreKept`: `WakesSurvive`, with the same exception.
* `DirectMessagesAreKept`: the refinement, `Promise`, with `Wipe` and `FallBack`.

The exceptions are what the code does and not a convenience: with one message and one kill in the
middle of a save, TLC finds a second forced attempt if `ForcedOnce` is stated without its
exception (section 11), and the same kill loses a wake whose file is gone and a message that is held. They are also the only
ones: an old file (a save that failed before it opened the file, any number of crashes later) costs neither a
second forced attempt nor a wake.

One inductive invariant, `SidecarInv`, serves all four. Its parts, each of which the
others need:

* `Queue`, of the queue in memory and of the one on disk alike: an item is there once; what it stands
  for is stood for by nothing else (`Apart`) and is not owed a receipt (`HeldOrOwed`); a merged
  head is forced and stands for itself too (`Heads`); only forced items have been tried and these come
  before the others (`TriedFirst`); and what has not been tried has had no forced attempt (`Untried`), which is
  `ForcedOnce` made inductive.
* `Behind`: the copy on disk is an older one. What memory holds and the disk has seen, the disk holds too, so a
  crash brings back a message and not an emptiness; and, unless it is empty, a message that had a forced attempt is on
  disk, since the attempt is saved before anything is typed.
* `DiskOK`: no wake key is in memory only unless the file is empty, and memory and disk differ only when a
  save has failed.
* `FlushOK` and `BatchOK`: what a pass remembers over an `await` is still true when it goes on. The receipts of a
  flush are of messages that are `Settled` (not queued any more, and answered, owed or forgotten), and those
  it has sent and does not put back have arrived. A direct message about to be typed is still the first of the
  queue, or another pass has taken it out with everything it stands for.

`BatchOK` is why the missing mutual exclusion of passes (section 11) costs duplicates and no message: a batch that was
typed by another pass meanwhile is already settled when its own pass removes it. The
functions of the queue are shown one by one to keep the store good and to carry each
message on (`Carries`: what was held is held, owed, or among those whose receipt a kill drops), and
then each step to be a `Turn`, an `Answer`, a `TornKill`, a `Crash` or a `KilledInSave`, from which both the
invariant and the refinement follow.

The proof changed the abstract specification. It allowed a forgotten receipt to be owed again, but not
to arrive, which can happen when two flushes had the same receipt under way and the one that
ends later forgets what the other is still sending; `Ways` now has `<<"lost", "answered">>`. `FallBack`, on the other
hand, allowed any message to be lost in a crash after a failed save, and is now limited to those whose
receipt was owed. The model changed in one respect: filters and loops are
recursive functions (`Kept`, `TakenIn`), about which the prover can reason.
`EveryDmEnds` is model-checked only.

## 9. The nudge scheduler: `Nudge`

`Scan` is `scanOnce`: for every owner of an order that waits, the pacer is evaluated
(forgive if something moved, count a strike if the last reminder went unanswered for
the base interval), and if the interval has passed and something is due, the owner is reminded of one
order, the one reminded of least recently. Time stamps are ages in ticks up to
`Horizon`, beyond which the code tells nothing apart; of `lastNudged` only the order
of its values matters, and `notAfter` is that order. `Moved` is a timeline entry with a status, or a
log line, which counts for its writer only. `Assign` writes no timeline entry, only a
log line of the one who asks. `Restart` clears what the process remembers.
`unanswered` and `passed` are history.

| run | instance | question |
|---|---|---|
| `nudge` | 2 orders, 2 owners of whom one is the merge gate too, base interval 1, cap 3, doubling from the second strike, horizon 3, one movement and one restart | do reminders back off per person; is a due order ever passed over twice for the same other; is every due order reminded of |

Bounds. Two orders of one owner are the least that rotate; the thresholds differ
for claims and progress, and cap, strikes and horizon are each reached. One
movement (a transition, a log line, a change of hands) at any moment, since
after it the pacer has forgiven. Fairness: the interval timer fires and the clock runs.

`NudgeProofs` proves, for any orders, owners, thresholds and intervals, from
`BoundsArePositive` and `StartsAreStates`: `NudgeTypes` (`TypeOK`, proved and not run as well), `TurnsAreTaken` (`NobodyIsPassedOverTwice`) and
`RemindersBackOff` (`BacksOff`). `notAfter` holds the order of the last reminders as a relation, which is all that
the sort compares; that it relates any two orders is part of `TypeOK`. Turns: an order that was passed over for another one was
reminded of strictly earlier (`PassedOverForLater`), and that comes first in the sort, so it cannot be
passed over for the same order again. Backing off: the strikes the pacer counts are the unanswered reminders, all but
the one not yet settled (`CountsUnanswered`), and while that one is pending nothing is sent, because
the interval is never below the base. A cap below the base would break that; then every interval is
the cap, and the property holds without counting. `EveryDueOrderIsReminded` is model-checked only.

A limit of the model: no new orders are created. An endless stream of
them, each preferred to those reminded of, would keep an old one waiting.

## 10. Properties that are only model-checked

Every liveness property (`EveryJobSettles`, `EveryMessageSettles`, `EveryDispatchEnds`,
`EveryDmEnds`, `EveryDueOrderIsReminded`), since the proof system has no fairness. Every
invariant and action property of the runs that are expected to pass, and both refinements, are
proved.

Induction over data: where a proof needs what a recursive function computes (`Kept` and `TakenIn` of
`Sidecar`, `Doubled` of `Nudge`), it takes the set of lengths for which the claim holds and shows with
`WFMin`, whose parameters are sets, that it is all of `Nat` (`NatSetInduction`).

## 11. Where code and documentation disagree

Shown by a run:

* `typed_twice`: `deliver()` looks at `_draining` (`src/lib/sidecar.js:570`), awaits the
  screen, and adds to `_draining` only afterwards. Two passes both find a quiet
  window and both type. The comment above it says "if their window is free, type the
  oldest item in", `docs/TERMINAL.md:140` "type once, press Enter".

Without a run of their own; each is a behaviour of a model, and the properties are
stated so that they hold beside it:

* The state file of the sidecar is written in place (`src/lib/sidecar.js:94`). A kill in the middle of a save
  empties it, the restarted sidecar fetches the message again, and forces it again. `docs/TERMINAL.md:307` says
  that forced delivery "happens at most once per queued message", and lines 180-181 that a restart cannot turn
  it into a retry loop. For the same reason a kill or a full disk in mid-save loses the ids seen, the
  queue, the receipts and the baseline, and wakes whose files are gone; line 208 says that a
  wake is persisted before its file is removed, which is true and not enough.
* Submitted, rejected, draft, closed: the order completes with no audit entry
  although a merge gate is configured. `README.md:439-441` calls that the worst bug of
  its own review and `src/routes/orders.js:386-387` says the edges are closed.
* A passed order is unfrozen, and the request that closes it may bring another
  commit. `README.md:447` says the snapshot protects the delivery recorded on the order.
* An order resumed through `/transition` keeps `blocked_by`; paused again it waits
  on an order that completed meanwhile, which `src/routes/orders.js:524-526` sets
  out to refuse.
* A CLI whose child keeps the output pipe open exits; the next message cannot
  be written, and the restart this schedules finds the process still set
  (`src/lib/agent-runtime.js:178`). The agent stays in `error`; line 5 of the file
  says that `error` leads to a restart. `EveryJobSettles` excepts it (`HeldOpen`).
* The pointer to the handoff is used up by a write to a process that dies before
  it reports its session, and the session that confirms the rotation never gets
  it; `README.md:137` says it precedes the first message.
* After a failed spawn, `error` starts the next message of an exec agent and
  `close` the one after, beside it, and a message that cannot be written (lines 544-550) leaves
  its process running beside the next; line 11 of `src/lib/agent-runtime.js` says a
  message waits its turn. `OneTurnWithoutFailures` assumes that no spawn fails and no
  write throws.
* Line 19 of the same file says that two crashes in a row drop the session; the
  counter is compared before it is incremented, and it is the third.
* Two plan items with the same text are both ticked after a rewrite when one was
  (`mergePlan`).

Weak points that no document denies:

* The close of an old socket unregisters the agents of the one that replaced it
  (`src/ws/remote-bridge.js:86`); dispatches wait until the next reconnect or give up.
* Overlapping flushes lose receipts (`src/lib/sidecar.js:473-487`), and so does a kill between
  two saves (lines 439 and 700-707): the sender is never told what became of the message.
* A message absorbed into one that another pass is typing gets the receipt `delivered`
  with it, though its text was not in what was typed.
* When the first poll fails, the next message to arrive sets the baseline, and is itself
  not delivered, while the next poll replays the backlog (`src/lib/sidecar.js:117-121`).
* Direct messages wait in the server's memory and are fetched once per start of the
  sidecar: a restart of the server or a gap in the stream loses them, as does the cut at 500.
* `/assign` writes no timeline entry, so an order that stood still is due for its new owner at once.

## 12. Not modelled

Group chat, event bus, notices and archive: broadcast, with the set of open streams
as the only state. Identity, token and configuration: pure checks; the models take
actors already normalised. Commit verification, input drafts and adapters: I/O, whose
answers are nondeterministic where a model needs them. The command line: one request
per command. Of the modelled parts: counters, usage, events and the session file of the
runtime; measuring transcripts and the handoff files of rotation; what section 2 lists as
still to do.
