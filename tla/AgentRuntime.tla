---------------------------- MODULE AgentRuntime ----------------------------
(***************************************************************************)
(* One local agent, src/lib/agent-runtime.js: a long-lived command-line    *)
(* process that answers one message at a time over a stream of JSON lines, *)
(* the queue in front of it, and what replaces the process: a crash, a     *)
(* turn that takes too long, a new session, a graceful rotation.           *)
(*                                                                         *)
(* A handler runs to its end before the next event, and calls others on    *)
(* its way, so the fields of the object are one record, rt, and a method   *)
(* is an operator from the record it finds to the record it leaves.        *)
(* (Of its history, open has the jobs whose promise is still open, and     *)
(* foreign the pairs of a job and another whose text got into its reply.)  *)
(* rt.procs is the other side: the processes spawned so far, the replaced  *)
(* ones included, which go on emitting output until they close.            *)
(***************************************************************************)
EXTENDS Naturals, Sequences, FiniteSets

CONSTANTS
  Jobs,       \* messages; one that has settled stands for a new one when sent again
  Procs,      \* bound: the processes not yet closed at a time
  Sessions,   \* session ids
  NoSession, None

ASSUME PoolAssumption ==
  /\ None \notin Jobs \cup Procs
  /\ NoSession \notin Sessions /\ None \notin Sessions \cup {NoSession}

(* There is always an id that nobody has or had until now.                 *)
ASSUME SessionAssumption ==
  \A a, b \in Sessions \cup {NoSession, None}, f \in [Procs -> Sessions \cup {NoSession}] :
    \E s \in Sessions : s \notin {a, b} /\ \A p \in Procs : s # f[p]

VARIABLE rt

(* none     never spawned, or closed: no event can come from it any more   *)
(* failed   spawn failed, and neither error nor close has been delivered   *)
(* errored  spawn failed, and close is still to come                       *)
(* up       running                                                        *)
(* exited   ended, but its output pipe is open: stdin is destroyed, and    *)
(*          close waits for whoever inherited the pipe                     *)
Lives == {"none", "failed", "errored", "up", "exited"}
Gone == [life |-> "none", sid |-> NoSession, task |-> None]

Alive(p) == rt.procs[p].life \in {"up", "exited"}

-----------------------------------------------------------------------------
(* The methods.                                                            *)

(* _setState, but for what it does when the new state is idle.             *)
MarkState(r, state) == [r EXCEPT !.state = state, !.idleTimer = FALSE]

(* The restart count matters up to 2 only.                                 *)
ScheduleRestart(r) ==
  IF r.restartTimer THEN r
  ELSE [r EXCEPT !.restartTimer = TRUE, !.restartCount = IF @ < 2 THEN @ + 1 ELSE 2]

(* The current job, if there is one, is resolved with the text heard, or   *)
(* rejected, with none.                                                    *)
Settle(r, text) ==
  IF r.current = None THEN r
  ELSE [r EXCEPT !.open = @ \ {r.current}, !.current = None, !.chunks = {},
                 !.foreign = @ \cup ({r.current} \X (text \ {r.current}))]

(* Mistaken form: the killed process is still the agent's.                 *)
KillInPlace(r) ==
  ScheduleRestart(MarkState([Settle(r, {}) EXCEPT !.generation = None], "error"))

(* Mistaken form: the queue is left to the next send.                      *)
KillOnly(r) ==
  MarkState([Settle(r, {}) EXCEPT !.proc = None, !.generation = None], "error")

(* Generation None is a number no process was spawned with.                *)
KillAndRestart(r) ==
  ScheduleRestart(
    MarkState([Settle(r, {}) EXCEPT !.proc = None, !.generation = None], "error"))

(* Mistaken form: the old id stays until the new process reports its own.  *)
ReplaceKeepingId(r) == IF r.proc = None THEN r ELSE KillAndRestart(r)

ReplaceSession(r) ==
  LET fresh == [r EXCEPT !.sessionId = NoSession]
  IN  IF r.proc = None THEN fresh ELSE KillAndRestart(fresh)

(* _rotateNow, up to the start when there was no process.                  *)
RotateNow(r) ==
  ReplaceSession([r EXCEPT !.verify = r.sessionId, !.briefing = TRUE, !.pendingRotate = FALSE])

(* _setState('idle'); the process is there whenever it is called.          *)
BecomeIdle(r) ==
  IF r.current = None /\ r.pendingRotate
  THEN RotateNow(MarkState(r, "idle"))
  ELSE [MarkState(r, "idle") EXCEPT !.idleTimer = TRUE]

(* The head of the queue becomes the turn of the process; the write fails  *)
(* when its stdin is destroyed.                                            *)
Give(r) ==
  LET j == Head(r.queue)
      turn == MarkState([r EXCEPT !.queue = Tail(@), !.current = j], "busy")
  IN  IF r.procs[r.proc].life = "exited"
      THEN ScheduleRestart(MarkState(Settle(turn, {}), "error"))
      ELSE [turn EXCEPT !.procs[r.proc].task = j,
                        !.briefing = FALSE]

(* _drain.  The freshness check finds the first n jobs stale.              *)
Drain(r, n) ==
  IF r.current # None \/ r.proc = None \/ r.queue = <<>> THEN r
  ELSE LET dropped == {r.queue[i] : i \in 1..n}
           fresh == [r EXCEPT !.queue = SubSeq(@, n + 1, Len(@)),
                              !.open = @ \ dropped]
       IN  IF fresh.queue = <<>> THEN fresh ELSE Give(fresh)

(* How a turn ends and how a system event is taken: idle, then the queue.  *)
IdleThenDrain(r, n) == Drain(BecomeIdle(r), n)

(* start(), with the process and the session it turns out to have.         *)
Start(r, p, new, n) ==
  IF r.proc # None THEN r
  ELSE IdleThenDrain([r EXCEPT !.proc = p, !.generation = p, !.procs[p] = new], n)

(* Mistaken form: the job of the turn goes with its process.               *)
ExitForgetful(r) ==
  ScheduleRestart(MarkState([r EXCEPT !.proc = None, !.current = None, !.chunks = {}], "error"))

(* _onExit, for the process that is the agent's.                           *)
Exit(r) ==
  LET settled == Settle([r EXCEPT !.proc = None], r.chunks)
      dropped == IF r.restartCount >= 2 THEN [settled EXCEPT !.sessionId = NoSession] ELSE settled
  IN  IF r.state = "stopped" THEN settled
      ELSE ScheduleRestart(MarkState(dropped, "error"))

-----------------------------------------------------------------------------
(* What a handler finds out from the outside.                              *)

(* A spawned process has the session it was told to resume, or a new one.  *)
FreshSession(r) ==
  CHOOSE s \in Sessions :
    s \notin {r.sessionId, r.verify} /\ \A p \in Procs : s # r.procs[p].sid

Spawned(r) ==
  {[Gone EXCEPT !.life = "failed"]} \cup
  {[Gone EXCEPT !.life = "up", !.sid = s] :
     s \in {FreshSession(r)} \cup ({r.sessionId} \ {NoSession})}

FreeProcs == {p \in Procs : rt.procs[p].life = "none"}
FreeProc == CHOOSE p \in FreeProcs : TRUE

Staleness == 0..Len(rt.queue)

(* Mistaken form: output is taken from whoever still talks.                *)
HeardAnyway(p) == rt.procs[p].life = "up"

(* The runtime listens to the process of its generation only.              *)
Heard(p) == rt.generation = p

(* Every event carries the session id, which settles a rotation; it has    *)
(* failed when the id is the old one (lastRotate.ok).                      *)
Identified(r, p) ==
  LET id == r.procs[p].sid
  IN  [r EXCEPT !.sessionId = id, !.verify = None,
                !.rotateFailed = IF r.verify = None THEN @ ELSE id = r.verify]

-----------------------------------------------------------------------------
(* Requests.                                                               *)

Send(j) ==
  /\ j \notin rt.open
  /\ LET r == [rt EXCEPT !.queue = Append(@, j), !.open = @ \cup {j}]
     IN  \/ /\ rt.proc = None
            /\ FreeProcs # {}
            /\ \E new \in Spawned(r), n \in 0..Len(r.queue) : rt' = Start(r, FreeProc, new, n)
         \/ /\ rt.proc # None /\ rt.state = "idle"
            /\ \E n \in 0..Len(r.queue) : rt' = Drain(r, n)
         \/ /\ rt.proc # None /\ rt.state # "idle"
            /\ rt' = r

NewSession ==
  rt' = ReplaceSession([rt EXCEPT !.pendingRotate = FALSE, !.verify = None, !.briefing = FALSE])

Rotate ==
  /\ ~ rt.pendingRotate /\ rt.verify = None
  /\ \/ /\ rt.current # None \/ rt.state = "busy"
        /\ rt' = [rt EXCEPT !.pendingRotate = TRUE]
     \/ /\ rt.current = None /\ rt.state # "busy" /\ rt.proc # None
        /\ rt' = RotateNow(rt)
     \/ /\ rt.current = None /\ rt.state # "busy" /\ rt.proc = None
        /\ FreeProcs # {}
        /\ LET r == RotateNow(rt)
           IN  \E new \in Spawned(r), n \in Staleness : rt' = Start(r, FreeProc, new, n)

-----------------------------------------------------------------------------
(* Timers.                                                                 *)

RestartFires ==
  /\ rt.restartTimer
  /\ LET r == [rt EXCEPT !.restartTimer = FALSE]
     IN  \/ rt.proc # None /\ rt' = r
         \/ /\ rt.proc = None /\ FreeProcs # {}
            /\ \E new \in Spawned(r), n \in Staleness : rt' = Start(r, FreeProc, new, n)

(* Mistaken form: the message is given up, not the process.                *)
MessageTimesOut ==
  rt.current # None /\ \E n \in Staleness : rt' = IdleThenDrain(Settle(rt, {}), n)

(* The idle or the hard timer of the turn.  Both are set when the turn     *)
(* begins and do nothing once its job is no longer the current one.        *)
TurnTimesOut == rt.current # None /\ rt' = KillAndRestart(rt)

(* stop(), which only the idle timer calls while the server runs.          *)
StandDown ==
  /\ rt.idleTimer
  /\ rt' = [MarkState(rt, "stopped") EXCEPT
              !.restartTimer = FALSE, !.proc = None, !.generation = None]

-----------------------------------------------------------------------------
(* Events of a process.  One that was replaced goes on emitting them.      *)

(* A line that only identifies the process: a hook, a tool's result.       *)
Hook(p) ==
  /\ Alive(p) /\ Heard(p)
  /\ rt' = Identified(rt, p)

SystemInit(p) ==
  /\ Alive(p) /\ Heard(p)
  /\ LET r == [Identified(rt, p) EXCEPT !.restartCount = 0]
     IN  \E n \in Staleness :
           rt' = IF rt.current = None THEN IdleThenDrain(r, n) ELSE r

AssistantText(p) ==
  /\ Alive(p) /\ Heard(p) /\ rt.procs[p].task # None
  /\ LET r == Identified(rt, p)
     IN  rt' = IF rt.current = None THEN r ELSE [r EXCEPT !.chunks = @ \cup {rt.procs[p].task}]

(* The end of its turn, or a result out of the blue when it has none.      *)
Result(p) ==
  /\ Alive(p)
  /\ LET silent == [rt EXCEPT !.procs[p].task = None]
         r == Identified(silent, p)
     IN  \/ /\ Heard(p)
            /\ \E n \in Staleness :
                 rt' = IdleThenDrain(Settle(r, r.chunks \cup {rt.procs[p].task}), n)
         \/ ~ Heard(p) /\ rt' = silent

SpawnError(p) ==
  /\ rt.procs[p].life = "failed"
  /\ LET r == [rt EXCEPT !.procs[p].life = "errored"]
     IN  rt' = IF rt.generation = p /\ rt.proc = p THEN Exit(r) ELSE r

(* The process ends while something holds its output pipe open.            *)
ExitHeldOpen(p) ==
  /\ rt.procs[p].life = "up"
  /\ rt' = [rt EXCEPT !.procs[p].life = "exited"]

Close(p) ==
  /\ rt.procs[p].life \in {"up", "exited", "errored"}
  /\ LET r == [rt EXCEPT !.procs[p] = Gone]
     IN  rt' = IF rt.generation = p /\ rt.proc = p THEN Exit(r) ELSE r

Init ==
  rt = [proc |-> None, generation |-> None, state |-> "stopped",
        queue |-> <<>>, current |-> None, chunks |-> {}, sessionId |-> NoSession,
        restartTimer |-> FALSE, idleTimer |-> FALSE, restartCount |-> 0,
        pendingRotate |-> FALSE, verify |-> None, briefing |-> FALSE, rotateFailed |-> FALSE,
        open |-> {}, foreign |-> {}, procs |-> [p \in Procs |-> Gone]]

Output(p) == Hook(p) \/ SystemInit(p) \/ AssistantText(p) \/ Result(p)

Next ==
  \/ \E j \in Jobs : Send(j)
  \/ NewSession \/ Rotate
  \/ RestartFires \/ TurnTimesOut \/ StandDown
  \/ \E p \in Procs : Output(p) \/ SpawnError(p) \/ ExitHeldOpen(p) \/ Close(p)

Spec == Init /\ [][Next]_rt

(* Timers fire, a failed spawn is reported, and a process that was killed  *)
(* closes (which only matters because Procs is finite).  A running process *)
(* owes nothing: it may be silent, and one that ended may never close.     *)
Fairness ==
  /\ WF_rt(RestartFires) /\ WF_rt(TurnTimesOut)
  /\ \A p \in Procs : WF_rt(SpawnError(p)) /\ WF_rt(rt.proc # p /\ Close(p))

FairSpec == Spec /\ Fairness

-----------------------------------------------------------------------------
Runtime ==
  [proc : Procs \cup {None}, generation : Procs \cup {None},
   state : {"stopped", "idle", "busy", "error"},
   queue : Seq(Jobs), current : Jobs \cup {None}, chunks : SUBSET (Jobs \cup {None}),
   sessionId : Sessions \cup {NoSession},
   restartTimer : BOOLEAN, idleTimer : BOOLEAN, restartCount : 0..2,
   pendingRotate : BOOLEAN, verify : Sessions \cup {NoSession, None},
   briefing : BOOLEAN, rotateFailed : BOOLEAN,
   open : SUBSET Jobs, foreign : SUBSET (Jobs \X (Jobs \cup {None})),
   procs : [Procs -> [life : Lives, sid : Sessions \cup {NoSession}, task : Jobs \cup {None}]]]

(* Types, and the agent's process is the one it listens to.                *)
TypeOK == rt \in Runtime /\ (rt.proc # None => rt.generation = rt.proc)

(* A reply, partial ones included, is text of the turn that was about the  *)
(* message, never of a turn that was killed, replaced or out of the blue.  *)
AnswersAreForTheirJob == rt.foreign = {}

(* A promise still open is that of the turn or of a queued message: no     *)
(* replacement, crash, failed write or stand-down forgets one.             *)
NothingIsForgotten ==
  rt.open = {rt.queue[i] : i \in DOMAIN rt.queue} \cup ({rt.current} \ {None})

(* A message waits for its turn: the process is given one only when it has *)
(* finished the one before, however the turn before ended.                 *)
QueueDoesNotInterrupt ==
  \A p \in Procs : Alive(p) /\ rt.proc = p => rt.procs[p].task = rt.current

(* A rotation lands in another session: the new process is never started   *)
(* on the old one, and no late line of the old process confirms it.        *)
RotationLands == ~ rt.rotateFailed

(* While a rotation waits for the turn to end no queued message begins     *)
(* another: the fresh session starts before queued messages drain.         *)
RotatesBeforeNextTurn == [][rt.pendingRotate => rt'.current \in {None, rt.current}]_rt

(* The agent stands down with nothing left to do, whatever ran between the *)
(* timer's start and its end: stop() settles no job and drains no queue.   *)
StandsDownOnlyWhenDone ==
  rt.idleTimer => rt.current = None /\ rt.queue = <<>> /\ ~ rt.pendingRotate

(* The process has ended and something holds its output open.              *)
HeldOpen == rt.proc # None /\ rt.procs[rt.proc].life = "exited"

(* Every message is answered, rejected or dropped as stale, through        *)
(* crashes, failed spawns, time-outs and any number of rotations, unless   *)
(* the process ended without closing.                                      *)
EveryJobSettles ==
  \A j \in Jobs : j \in rt.open ~> j \notin rt.open \/ HeldOpen
=============================================================================
