------------------------- MODULE AgentRuntimeProofs -------------------------
(***************************************************************************)
(* Proofs about AgentRuntime, for any jobs, processes and sessions.        *)
(*                                                                         *)
(* The invariant is a predicate of a record, like the methods: a handler   *)
(* preserves it because the methods it calls do.  Between two calls of one *)
(* handler the queue may not be at rest yet, so AtRest is a part apart.    *)
(***************************************************************************)
EXTENDS AgentRuntime, SequenceTheorems, TLAPS

Talks(r, p) == r.procs[p].life \in {"up", "exited"}

(* The agent listens to its own process or to nobody who talks, and what   *)
(* that process works on is the current job.                               *)
Fenced(r) ==
  /\ r.proc # None =>
       /\ r.generation = r.proc
       /\ r.procs[r.proc].life \in {"failed", "up", "exited"}
       /\ r.procs[r.proc].task = r.current
  /\ \A p \in Procs : r.generation = p /\ Talks(r, p) => r.proc = p
  /\ r.current # None => r.proc # None

(* No text but that of the turn.                                           *)
Pure(r) == r.foreign = {} /\ r.chunks \subseteq {r.current} \ {None}

(* A message waits once, and open promises are of the turn or the queue.   *)
Waiting(r) ==
  /\ \A i, k \in 1..Len(r.queue) : r.queue[i] = r.queue[k] => i = k
  /\ \A i \in 1..Len(r.queue) : r.queue[i] # r.current
  /\ r.open = {r.queue[i] : i \in 1..Len(r.queue)} \cup ({r.current} \ {None})

(* A rotation not confirmed has dropped the session.                       *)
Dropped(r) == ~ r.rotateFailed /\ (r.verify # None => r.sessionId = NoSession)

(* And the agent's process is not on the old one.                          *)
Fresh(r) ==
  r.verify # None /\ r.proc # None /\ Talks(r, r.proc) => r.procs[r.proc].sid # r.verify

Sound(r) == r \in Runtime /\ Fenced(r) /\ Pure(r) /\ Waiting(r) /\ Dropped(r) /\ Fresh(r)

(* An idle agent has nothing to do.                                        *)
AtRest(r) ==
  /\ r.idleTimer => r.state = "idle"
  /\ r.state = "idle" => r.current = None /\ r.queue = <<>> /\ ~ r.pendingRotate /\ r.proc # None

RuntimeInv == Sound(rt) /\ AtRest(rt)

-----------------------------------------------------------------------------
(* What each method leaves, field by field.                                *)

LEMMA SettleFields ==
  ASSUME NEW r \in Runtime, NEW text \in SUBSET (Jobs \cup {None}), text \subseteq {r.current}
  PROVE  LET s == Settle(r, text) IN
         /\ s \in Runtime
         /\ s.current = None /\ s.open = r.open \ {r.current}
         /\ s.foreign = r.foreign /\ (r.current # None \/ r.chunks = {} => s.chunks = {})
         /\ s.queue = r.queue /\ s.procs = r.procs
         /\ s.proc = r.proc /\ s.generation = r.generation /\ s.state = r.state
         /\ s.sessionId = r.sessionId /\ s.verify = r.verify
         /\ s.pendingRotate = r.pendingRotate /\ s.rotateFailed = r.rotateFailed
         /\ s.idleTimer = r.idleTimer /\ s.restartCount = r.restartCount
<1>1. CASE r.current = None
  <2>1. None \notin r.open
    BY PoolAssumption DEF Runtime
  <2>2. QED
    BY <1>1, <2>1 DEF Settle
<1>2. CASE r.current # None
  <2> DEFINE s == [r EXCEPT !.open = @ \ {r.current}, !.current = None, !.chunks = {}]
  <2>1. r.foreign \cup ({r.current} \X (text \ {r.current})) = r.foreign
    <3>1. {r.current} \X (text \ {r.current}) = {}
      OBVIOUS
    <3>2. QED
      BY <3>1
  <2>2. Settle(r, text) = [s EXCEPT !.foreign = r.foreign]
    BY <1>2, <2>1 DEF Settle, Runtime
  <2>3. /\ s \in Runtime /\ s.foreign = r.foreign
        /\ s.current = None /\ s.open = r.open \ {r.current} /\ s.chunks = {}
        /\ s.queue = r.queue /\ s.procs = r.procs
        /\ s.proc = r.proc /\ s.generation = r.generation /\ s.state = r.state
        /\ s.sessionId = r.sessionId /\ s.verify = r.verify
        /\ s.pendingRotate = r.pendingRotate /\ s.rotateFailed = r.rotateFailed
        /\ s.idleTimer = r.idleTimer /\ s.restartCount = r.restartCount
    BY DEF Runtime
  <2> HIDE DEF s
  <2>4. [s EXCEPT !.foreign = r.foreign] = s
    BY <2>3 DEF Runtime
  <2>5. QED
    BY <2>2, <2>3, <2>4
<1>3. QED
  BY <1>1, <1>2

(* MarkState followed by ScheduleRestart, the end of every way to error.   *)
LEMMA ErrorFields ==
  ASSUME NEW r \in Runtime
  PROVE  LET e == ScheduleRestart(MarkState(r, "error")) IN
         /\ e \in Runtime
         /\ e.current = r.current /\ e.open = r.open /\ e.foreign = r.foreign
         /\ e.chunks = r.chunks /\ e.queue = r.queue /\ e.procs = r.procs
         /\ e.proc = r.proc /\ e.generation = r.generation
         /\ e.state = "error" /\ e.idleTimer = FALSE
         /\ e.sessionId = r.sessionId /\ e.verify = r.verify
         /\ e.pendingRotate = r.pendingRotate /\ e.rotateFailed = r.rotateFailed
<1> DEFINE m == MarkState(r, "error")
           c == IF m.restartCount < 2 THEN m.restartCount + 1 ELSE 2
           e == [m EXCEPT !.restartTimer = TRUE, !.restartCount = c]
<1>1. /\ m \in Runtime
      /\ m.current = r.current /\ m.open = r.open /\ m.foreign = r.foreign
      /\ m.chunks = r.chunks /\ m.queue = r.queue /\ m.procs = r.procs
      /\ m.proc = r.proc /\ m.generation = r.generation
      /\ m.state = "error" /\ m.idleTimer = FALSE
      /\ m.sessionId = r.sessionId /\ m.verify = r.verify
      /\ m.pendingRotate = r.pendingRotate /\ m.rotateFailed = r.rotateFailed
  BY DEF MarkState, Runtime
<1>2. ScheduleRestart(m) \in {m, e}
  BY DEF ScheduleRestart
<1> HIDE DEF m
<1>3. c \in 0..2
  <2>1. m.restartCount \in 0..2
    BY <1>1 DEF Runtime
  <2>2. QED
    BY <2>1
<1> HIDE DEF c
<1>4. /\ e \in Runtime
      /\ e.current = m.current /\ e.open = m.open /\ e.foreign = m.foreign
      /\ e.chunks = m.chunks /\ e.queue = m.queue /\ e.procs = m.procs
      /\ e.proc = m.proc /\ e.generation = m.generation
      /\ e.state = m.state /\ e.idleTimer = m.idleTimer
      /\ e.sessionId = m.sessionId /\ e.verify = m.verify
      /\ e.pendingRotate = m.pendingRotate /\ e.rotateFailed = m.rotateFailed
  BY <1>1, <1>3, ZenonT(60) DEF Runtime
<1> HIDE DEF e
<1>5. CASE ScheduleRestart(m) = m
  BY <1>1, <1>5 DEF m
<1>6. CASE ScheduleRestart(m) = e
  <2>1. ScheduleRestart(MarkState(r, "error")) = e
    BY <1>6 DEF m
  <2>2. QED
    BY <1>1, <1>4, <2>1
<1>7. QED
  BY <1>2, <1>5, <1>6

LEMMA KillFields ==
  ASSUME NEW r \in Runtime
  PROVE  LET k == KillAndRestart(r) IN
         /\ k \in Runtime
         /\ k.proc = None /\ k.generation = None /\ k.current = None
         /\ k.open = r.open \ {r.current} /\ k.foreign = r.foreign
         /\ (r.current # None \/ r.chunks = {} => k.chunks = {})
         /\ k.queue = r.queue /\ k.procs = r.procs
         /\ k.state = "error" /\ k.idleTimer = FALSE
         /\ k.sessionId = r.sessionId /\ k.verify = r.verify
         /\ k.pendingRotate = r.pendingRotate /\ k.rotateFailed = r.rotateFailed
<1> DEFINE s == Settle(r, {})
           d == [s EXCEPT !.proc = None, !.generation = None]
<1>1. s \in Runtime /\ s.current = None /\ s.open = r.open \ {r.current}
      /\ s.foreign = r.foreign /\ (r.current # None \/ r.chunks = {} => s.chunks = {})
      /\ s.queue = r.queue /\ s.procs = r.procs
      /\ s.sessionId = r.sessionId /\ s.verify = r.verify
      /\ s.pendingRotate = r.pendingRotate /\ s.rotateFailed = r.rotateFailed
  BY SettleFields
<1>2. KillAndRestart(r) = ScheduleRestart(MarkState(d, "error"))
  BY DEF KillAndRestart
<1> HIDE DEF s
<1>3. /\ d \in Runtime /\ d.proc = None /\ d.generation = None
      /\ d.current = s.current /\ d.open = s.open /\ d.foreign = s.foreign
      /\ d.chunks = s.chunks /\ d.queue = s.queue /\ d.procs = s.procs
      /\ d.sessionId = s.sessionId /\ d.verify = s.verify
      /\ d.pendingRotate = s.pendingRotate /\ d.rotateFailed = s.rotateFailed
  <2>1. s \in Runtime
    BY <1>1
  <2>2. QED
    BY <2>1, ZenonT(60) DEF Runtime
<1> HIDE DEF d
<1> DEFINE e == ScheduleRestart(MarkState(d, "error"))
<1>4. /\ e \in Runtime
      /\ e.current = d.current /\ e.open = d.open /\ e.foreign = d.foreign
      /\ e.chunks = d.chunks /\ e.queue = d.queue /\ e.procs = d.procs
      /\ e.proc = d.proc /\ e.generation = d.generation
      /\ e.state = "error" /\ e.idleTimer = FALSE
      /\ e.sessionId = d.sessionId /\ e.verify = d.verify
      /\ e.pendingRotate = d.pendingRotate /\ e.rotateFailed = d.rotateFailed
  BY <1>3, ErrorFields
<1> HIDE DEF e
<1>5. KillAndRestart(r) = e
  BY <1>2 DEF e
<1>6. QED
  BY <1>1, <1>3, <1>4, <1>5

-----------------------------------------------------------------------------
(* What each method preserves.                                             *)

(* The types of the fields the arguments below look at.                    *)
LEMMA FieldTypes ==
  ASSUME NEW r \in Runtime
  PROVE  /\ r.proc \in Procs \cup {None} /\ r.generation \in Procs \cup {None}
         /\ r.current \in Jobs \cup {None} /\ r.queue \in Seq(Jobs)
         /\ r.open \in SUBSET Jobs /\ r.chunks \in SUBSET (Jobs \cup {None})
         /\ r.sessionId \in Sessions \cup {NoSession}
         /\ r.verify \in Sessions \cup {NoSession, None}
         /\ r.procs \in [Procs -> [life : Lives, sid : Sessions \cup {NoSession},
                                   task : Jobs \cup {None}]]
         /\ r.pendingRotate \in BOOLEAN /\ r.idleTimer \in BOOLEAN
         /\ r.rotateFailed \in BOOLEAN
         /\ r.state \in {"stopped", "idle", "busy", "error"}
BY DEF Runtime

(* A promise is settled with its turn: the queue's are the open ones.      *)
LEMMA SettledWaiting ==
  ASSUME NEW r \in Runtime, Waiting(r),
         NEW s, s.queue = r.queue, s.current = None, s.open = r.open \ {r.current},
         s.queue \in Seq(Jobs)
  PROVE  Waiting(s)
<1>1. \A i \in 1..Len(s.queue) : s.queue[i] # None
  BY PoolAssumption
<1>2. QED
  BY <1>1 DEF Waiting

(* A kill leaves no process and no turn, whatever the session was.         *)
LEMMA KillSound ==
  ASSUME NEW r \in Runtime, Pure(r), Waiting(r), Dropped(r)
  PROVE  LET k == KillAndRestart(r) IN
         /\ Sound(k) /\ AtRest(k) /\ k.proc = None /\ k.current = None
         /\ k.pendingRotate = r.pendingRotate /\ k.queue = r.queue
<1> DEFINE k == KillAndRestart(r)
<1>1. /\ k \in Runtime
      /\ k.proc = None /\ k.generation = None /\ k.current = None
      /\ k.open = r.open \ {r.current} /\ k.foreign = r.foreign
      /\ (r.current # None \/ r.chunks = {} => k.chunks = {})
      /\ k.queue = r.queue /\ k.procs = r.procs
      /\ k.state = "error" /\ k.idleTimer = FALSE
      /\ k.sessionId = r.sessionId /\ k.verify = r.verify
      /\ k.pendingRotate = r.pendingRotate /\ k.rotateFailed = r.rotateFailed
  BY KillFields
<1> HIDE DEF k
<1>2. Fenced(k)
  BY <1>1, PoolAssumption DEF Fenced
<1>3. Pure(k)
  BY <1>1 DEF Pure
<1>4. Waiting(k)
  BY <1>1, FieldTypes, SettledWaiting
<1>5. Dropped(k) /\ Fresh(k) /\ AtRest(k)
  BY <1>1 DEF Dropped, Fresh, AtRest
<1>6. QED
  BY <1>1, <1>2, <1>3, <1>4, <1>5 DEF Sound, k

(* A new session, with the old one perhaps still to be told from it.       *)
LEMMA ReplaceSound ==
  ASSUME NEW r \in Runtime, Fenced(r), Pure(r), Waiting(r), ~ r.rotateFailed,
         r.proc = None => AtRest(r)
  PROVE  LET s == ReplaceSession(r) IN
         /\ Sound(s) /\ AtRest(s) /\ s.proc = None /\ s.current = None
         /\ s.pendingRotate = r.pendingRotate /\ s.queue = r.queue
<1> DEFINE f == [r EXCEPT !.sessionId = NoSession]
<1>1. /\ f \in Runtime /\ f.sessionId = NoSession
      /\ f.proc = r.proc /\ f.generation = r.generation /\ f.current = r.current
      /\ f.open = r.open /\ f.foreign = r.foreign /\ f.chunks = r.chunks
      /\ f.queue = r.queue /\ f.procs = r.procs
      /\ f.state = r.state /\ f.idleTimer = r.idleTimer
      /\ f.pendingRotate = r.pendingRotate /\ f.rotateFailed = r.rotateFailed
  BY DEF Runtime
<1>2. ReplaceSession(r) = IF r.proc = None THEN f ELSE KillAndRestart(f)
  BY DEF ReplaceSession
<1> HIDE DEF f
<1>3. Pure(f) /\ Waiting(f) /\ Dropped(f)
  BY <1>1 DEF Pure, Waiting, Dropped
<1>4. CASE r.proc = None
  <2>1. Fenced(f)
    BY <1>1 DEF Fenced, Talks
  <2>2. Fresh(f) /\ AtRest(f) /\ f.current = None
    BY <1>1, <1>4 DEF Fresh, AtRest, Fenced
  <2>3. QED
    BY <1>1, <1>2, <1>3, <1>4, <2>1, <2>2 DEF Sound
<1>5. CASE r.proc # None
  BY <1>1, <1>2, <1>3, <1>5, KillSound
<1>6. QED
  BY <1>4, <1>5

LEMMA RotateNowSound ==
  ASSUME NEW r, Sound(r), r.proc = None => AtRest(r)
  PROVE  LET s == RotateNow(r) IN
         /\ Sound(s) /\ AtRest(s) /\ s.proc = None /\ s.current = None
         /\ s.pendingRotate = FALSE /\ s.queue = r.queue
<1> DEFINE v == [r EXCEPT !.verify = r.sessionId, !.briefing = TRUE, !.pendingRotate = FALSE]
<1>1. r \in Runtime
  BY DEF Sound
<1>2. /\ v \in Runtime /\ v.pendingRotate = FALSE
      /\ v.proc = r.proc /\ v.generation = r.generation /\ v.current = r.current
      /\ v.open = r.open /\ v.foreign = r.foreign /\ v.chunks = r.chunks
      /\ v.queue = r.queue /\ v.procs = r.procs
      /\ v.state = r.state /\ v.idleTimer = r.idleTimer /\ v.rotateFailed = r.rotateFailed
  BY <1>1 DEF Runtime
<1>3. RotateNow(r) = ReplaceSession(v)
  BY DEF RotateNow
<1> HIDE DEF v
<1>4. Fenced(v) /\ Pure(v)
  BY <1>2 DEF Sound, Fenced, Talks, Pure
<1>5. Waiting(v) /\ ~ v.rotateFailed
  BY <1>2 DEF Sound, Waiting, Dropped
<1>6. v.proc = None => AtRest(v)
  BY <1>2 DEF AtRest
<1>7. QED
  BY <1>2, <1>3, <1>4, <1>5, <1>6, ReplaceSound

(* The process has nothing to do, and may be given a message.              *)
Ready(r) ==
  Sound(r) /\ r.proc # None /\ r.current = None /\ ~ r.pendingRotate /\ r.state = "idle"

LEMMA BecomeIdleSound ==
  ASSUME NEW r, Sound(r), r.proc # None, r.current = None
  PROVE  LET b == BecomeIdle(r) IN
         \/ Sound(b) /\ AtRest(b) /\ b.proc = None /\ b.current = None
         \/ ~ r.pendingRotate /\ Ready(b) /\ b.queue = r.queue
<1> DEFINE m == MarkState(r, "idle")
           i == [m EXCEPT !.idleTimer = TRUE]
<1>1. r \in Runtime
  BY DEF Sound
<1>2. /\ m \in Runtime /\ m.state = "idle" /\ m.pendingRotate = r.pendingRotate
      /\ m.proc = r.proc /\ m.generation = r.generation /\ m.current = r.current
      /\ m.open = r.open /\ m.foreign = r.foreign /\ m.chunks = r.chunks
      /\ m.queue = r.queue /\ m.procs = r.procs
      /\ m.sessionId = r.sessionId /\ m.verify = r.verify /\ m.rotateFailed = r.rotateFailed
  BY <1>1, ZenonT(60) DEF MarkState, Runtime
<1>3. BecomeIdle(r) = IF r.current = None /\ r.pendingRotate THEN RotateNow(m) ELSE i
  BY DEF BecomeIdle
<1> HIDE DEF m
<1>4. Sound(m)
  <2>1. Fenced(m) /\ Pure(m)
    BY <1>2 DEF Sound, Fenced, Talks, Pure
  <2>2. Waiting(m)
    BY <1>2 DEF Sound, Waiting
  <2>3. Dropped(m) /\ Fresh(m)
    BY <1>2 DEF Sound, Dropped, Fresh, Talks
  <2>4. QED
    BY <1>2, <2>1, <2>2, <2>3 DEF Sound
<1>5. CASE r.pendingRotate
  BY <1>2, <1>3, <1>4, <1>5, RotateNowSound
<1>6. CASE ~ r.pendingRotate
  <2>1. m \in Runtime
    BY <1>2
  <2>2. /\ i \in Runtime /\ i.state = m.state /\ i.pendingRotate = m.pendingRotate
        /\ i.proc = m.proc /\ i.generation = m.generation /\ i.current = m.current
        /\ i.open = m.open /\ i.foreign = m.foreign /\ i.chunks = m.chunks
        /\ i.queue = m.queue /\ i.procs = m.procs
        /\ i.sessionId = m.sessionId /\ i.verify = m.verify /\ i.rotateFailed = m.rotateFailed
    BY <2>1, ZenonT(60) DEF Runtime
  <2> HIDE DEF i
  <2>3. Fenced(i) /\ Pure(i)
    BY <1>4, <2>2 DEF Sound, Fenced, Talks, Pure
  <2>4. Waiting(i)
    BY <1>4, <2>2 DEF Sound, Waiting
  <2>5. Dropped(i) /\ Fresh(i)
    BY <1>4, <2>2 DEF Sound, Dropped, Fresh, Talks
  <2>6. Ready(i) /\ i.queue = r.queue
    BY <1>2, <1>6, <2>2, <2>3, <2>4, <2>5 DEF Sound, Ready
  <2>7. QED
    BY <1>3, <1>6, <2>6
<1>7. QED
  BY <1>5, <1>6

(* The head of a queue without repetitions, and what is behind it.         *)
LEMMA HeadOfDistinct ==
  ASSUME NEW q \in Seq(Jobs), q # <<>>,
         \A i, k \in 1..Len(q) : q[i] = q[k] => i = k
  PROVE  /\ \A i, k \in 1..Len(Tail(q)) : Tail(q)[i] = Tail(q)[k] => i = k
         /\ \A i \in 1..Len(Tail(q)) : Tail(q)[i] # Head(q)
         /\ {q[i] : i \in 1..Len(q)} = {Tail(q)[i] : i \in 1..Len(Tail(q))} \cup {Head(q)}
<1> DEFINE t == Tail(q)
           j == Head(q)
<1>1. /\ j = q[1] /\ Len(t) = Len(q) - 1 /\ Len(q) \in Nat \ {0}
      /\ \A i \in 1..Len(t) : t[i] = q[i + 1]
  BY HeadTailProperties, EmptySeq
<1> HIDE DEF t, j
<1>2. \A i \in 1..Len(t) : i + 1 \in 2..Len(q) /\ t[i] = q[i + 1]
  BY <1>1
<1>3. \A i, k \in 1..Len(t) : t[i] = t[k] => i = k
  BY <1>1, <1>2
<1>4. \A i \in 1..Len(t) : t[i] # j
  BY <1>1, <1>2
<1>5. \A i \in 1..Len(q) : q[i] = j \/ \E k \in 1..Len(t) : q[i] = t[k]
  <2>1. \A i \in 1..Len(q) : i # 1 => i - 1 \in 1..Len(t) /\ q[i] = t[i - 1]
    BY <1>1
  <2>2. QED
    BY <1>1, <2>1
<1>6. \A k \in 1..Len(t) : \E i \in 1..Len(q) : t[k] = q[i]
  BY <1>1, <1>2
<1>7. \E i \in 1..Len(q) : j = q[i]
  BY <1>1
<1>8. {q[i] : i \in 1..Len(q)} = {t[i] : i \in 1..Len(t)} \cup {j}
  BY <1>5, <1>6, <1>7, SMTT(40)
<1>9. QED
  BY <1>3, <1>4, <1>8 DEF t, j

(* The head of the queue becomes the turn, or is rejected at once.         *)
LEMMA GiveSound ==
  ASSUME NEW r, Ready(r), r.queue # <<>>
  PROVE  Sound(Give(r)) /\ AtRest(Give(r))
<1> DEFINE j == Head(r.queue)
           q == [r EXCEPT !.queue = Tail(@), !.current = j]
           turn == MarkState(q, "busy")
<1>1. r \in Runtime /\ r.proc \in Procs
  BY FieldTypes DEF Ready, Sound
<1>2. /\ j \in Jobs /\ Tail(r.queue) \in Seq(Jobs)
      /\ Len(Tail(r.queue)) = Len(r.queue) - 1 /\ Len(r.queue) \in Nat \ {0}
      /\ j = r.queue[1]
      /\ \A i \in 1..Len(Tail(r.queue)) : Tail(r.queue)[i] = r.queue[i + 1]
  BY <1>1, FieldTypes, HeadTailProperties, EmptySeq DEF Ready
<1> HIDE DEF j
<1>3. /\ turn \in Runtime /\ turn.queue = Tail(r.queue) /\ turn.current = j
      /\ turn.proc = r.proc /\ turn.generation = r.generation
      /\ turn.open = r.open /\ turn.foreign = r.foreign /\ turn.chunks = r.chunks
      /\ turn.procs = r.procs /\ turn.state = "busy" /\ turn.idleTimer = FALSE
      /\ turn.sessionId = r.sessionId /\ turn.verify = r.verify
      /\ turn.rotateFailed = r.rotateFailed
  <2>1. /\ q \in Runtime /\ q.queue = Tail(r.queue) /\ q.current = j
        /\ q.proc = r.proc /\ q.generation = r.generation
        /\ q.open = r.open /\ q.foreign = r.foreign /\ q.chunks = r.chunks
        /\ q.procs = r.procs
        /\ q.sessionId = r.sessionId /\ q.verify = r.verify
        /\ q.rotateFailed = r.rotateFailed
    BY <1>1, <1>2, ZenonT(60) DEF Runtime
  <2> HIDE DEF q
  <2>2. QED
    BY <2>1 DEF MarkState, Runtime
<1> HIDE DEF turn, q
<1>4. Waiting(turn)
  <2>1. \A i, k \in 1..Len(r.queue) : r.queue[i] = r.queue[k] => i = k
    BY DEF Ready, Sound, Waiting
  <2>2. r.open = {r.queue[i] : i \in 1..Len(r.queue)} /\ r.queue \in Seq(Jobs)
    BY <1>1, FieldTypes DEF Ready, Sound, Waiting
  <2>3. {turn.current} \ {None} = {j}
    BY <1>2, <1>3, PoolAssumption
  <2>4. j = Head(r.queue)
    BY DEF j
  <2>5. /\ \A i, k \in 1..Len(turn.queue) : turn.queue[i] = turn.queue[k] => i = k
        /\ \A i \in 1..Len(turn.queue) : turn.queue[i] # j
        /\ {r.queue[i] : i \in 1..Len(r.queue)}
             = {turn.queue[i] : i \in 1..Len(turn.queue)} \cup {j}
    <3>1. r.queue \in Seq(Jobs) /\ turn.queue = Tail(r.queue)
      BY <1>3, <2>2
    <3>2. /\ \A i, k \in 1..Len(Tail(r.queue)) : Tail(r.queue)[i] = Tail(r.queue)[k] => i = k
          /\ \A i \in 1..Len(Tail(r.queue)) : Tail(r.queue)[i] # Head(r.queue)
          /\ {r.queue[i] : i \in 1..Len(r.queue)}
               = {Tail(r.queue)[i] : i \in 1..Len(Tail(r.queue))} \cup {Head(r.queue)}
      <4>1. r.queue # <<>>
        OBVIOUS
      <4>2. QED
        BY <2>1, <3>1, <4>1, HeadOfDistinct
    <3>3. QED
      BY <2>4, <3>1, <3>2
  <2>6. turn.current = j /\ turn.open = r.open
    BY <1>3
  <2>7. turn.open = {turn.queue[i] : i \in 1..Len(turn.queue)} \cup ({turn.current} \ {None})
    BY <2>2, <2>3, <2>5, <2>6
  <2>8. QED
    BY <2>5, <2>6, <2>7 DEF Waiting
<1>5. r.chunks = {} /\ r.foreign = {}
  BY DEF Ready, Sound, Pure
<1>6. CASE r.procs[r.proc].life = "exited"
  <2> DEFINE s == Settle(turn, {})
             e == ScheduleRestart(MarkState(s, "error"))
  <2>1. Give(r) = e
    BY <1>6 DEF Give, turn, q, j
  <2>2. s \in Runtime /\ s.current = None /\ s.open = turn.open \ {turn.current}
        /\ s.foreign = turn.foreign /\ (turn.current # None \/ turn.chunks = {} => s.chunks = {})
        /\ s.queue = turn.queue /\ s.procs = turn.procs
        /\ s.proc = turn.proc /\ s.generation = turn.generation
        /\ s.sessionId = turn.sessionId /\ s.verify = turn.verify
        /\ s.rotateFailed = turn.rotateFailed
    BY <1>3, SettleFields
  <2> HIDE DEF s
  <2>3. /\ e \in Runtime
        /\ e.current = s.current /\ e.open = s.open /\ e.foreign = s.foreign
        /\ e.chunks = s.chunks /\ e.queue = s.queue /\ e.procs = s.procs
        /\ e.proc = s.proc /\ e.generation = s.generation
        /\ e.state = "error" /\ e.idleTimer = FALSE
        /\ e.sessionId = s.sessionId /\ e.verify = s.verify /\ e.rotateFailed = s.rotateFailed
    BY <2>2, ErrorFields
  <2> HIDE DEF e
  <2>4. Fenced(e)
    BY <1>1, <1>3, <2>2, <2>3 DEF Ready, Sound, Fenced, Talks
  <2>5. Pure(e) /\ AtRest(e)
    BY <1>2, <1>3, <1>5, <2>2, <2>3 DEF Pure, AtRest
  <2>6. Waiting(e)
    <3>1. e.queue \in Seq(Jobs)
      BY <2>3, FieldTypes
    <3>2. QED
      BY <1>3, <1>4, <2>2, <2>3, <3>1, SettledWaiting
  <2>7. Dropped(e) /\ Fresh(e)
    BY <1>3, <2>2, <2>3 DEF Ready, Sound, Dropped, Fresh, Talks
  <2>8. QED
    BY <2>1, <2>3, <2>4, <2>5, <2>6, <2>7 DEF Sound
<1>7. CASE r.procs[r.proc].life # "exited"
  <2> DEFINE at == [r.procs EXCEPT ![r.proc].task = j]
             g == [turn EXCEPT !.procs = at, !.briefing = FALSE]
  <2>1. /\ at \in [Procs -> [life : Lives, sid : Sessions \cup {NoSession}, task : Jobs \cup {None}]]
        /\ at[r.proc].task = j
        /\ \A p \in Procs : at[p].life = r.procs[p].life /\ at[p].sid = r.procs[p].sid
    BY <1>1, <1>2, FieldTypes
  <2>2. Give(r) = g
    <3>1. turn \in [proc : {r.proc}, generation : {turn.generation}, state : {turn.state},
             queue : {turn.queue}, current : {turn.current}, chunks : {turn.chunks},
             sessionId : {turn.sessionId}, restartTimer : {turn.restartTimer},
             idleTimer : {turn.idleTimer}, restartCount : {turn.restartCount},
             pendingRotate : {turn.pendingRotate}, verify : {turn.verify},
             briefing : {turn.briefing}, rotateFailed : {turn.rotateFailed},
             open : {turn.open}, foreign : {turn.foreign}, procs : {r.procs}]
      BY <1>3 DEF Runtime
    <3>2. QED
      BY <1>3, <1>7 DEF Give, turn, q, j, Runtime
  <2> HIDE DEF at
  <2>3. /\ g \in Runtime /\ g.procs = at
        /\ g.proc = turn.proc /\ g.generation = turn.generation /\ g.current = turn.current
        /\ g.open = turn.open /\ g.foreign = turn.foreign /\ g.chunks = turn.chunks
        /\ g.queue = turn.queue /\ g.state = turn.state /\ g.idleTimer = turn.idleTimer
        /\ g.sessionId = turn.sessionId /\ g.verify = turn.verify
        /\ g.rotateFailed = turn.rotateFailed
    <3>1. turn \in Runtime
      BY <1>3
    <3>2. QED
      BY <2>1, <3>1, ZenonT(60) DEF Runtime
  <2> HIDE DEF g
  <2>4. Fenced(g)
    BY <1>1, <1>3, <2>1, <2>3 DEF Ready, Sound, Fenced, Talks
  <2>5. Pure(g) /\ AtRest(g)
    BY <1>3, <1>5, <2>3 DEF Pure, AtRest
  <2>6. Waiting(g)
    BY <1>4, <2>3 DEF Waiting
  <2>7. Dropped(g) /\ Fresh(g)
    BY <1>1, <1>3, <2>1, <2>3 DEF Ready, Sound, Dropped, Fresh, Talks
  <2>8. QED
    BY <2>2, <2>3, <2>4, <2>5, <2>6, <2>7 DEF Sound
<1>8. QED
  BY <1>6, <1>7

(* What is left of such a queue without its first n.                       *)
LEMMA RestOfDistinct ==
  ASSUME NEW q \in Seq(Jobs), NEW n \in 0..Len(q),
         \A i, k \in 1..Len(q) : q[i] = q[k] => i = k
  PROVE  LET s == SubSeq(q, n + 1, Len(q)) IN
         /\ s \in Seq(Jobs)
         /\ \A i, k \in 1..Len(s) : s[i] = s[k] => i = k
         /\ {q[i] : i \in 1..Len(q)} \ {q[i] : i \in 1..n} = {s[i] : i \in 1..Len(s)}
<1> DEFINE s == SubSeq(q, n + 1, Len(q))
<1>1. Len(q) \in Nat /\ \A i \in 1..Len(q) : q[i] \in Jobs
  BY LenProperties, ElementOfSeq
<1>2. /\ s \in Seq(Jobs) /\ Len(s) = IF n + 1 <= Len(q) THEN Len(q) - (n + 1) + 1 ELSE 0
      /\ \A i \in 1..(Len(q) - (n + 1) + 1) : s[i] = q[n + 1 + i - 1]
  <2>1. n + 1 \in Int /\ Len(q) \in Int /\ \A i \in n + 1..Len(q) : q[i] \in Jobs
    BY <1>1
  <2>2. QED
    BY <2>1, SubSeqProperties
<1> HIDE DEF s
<1>3. Len(s) = Len(q) - n /\ \A i \in 1..Len(s) : n + i \in n + 1..Len(q) /\ s[i] = q[n + i]
  <2>1. Len(s) = Len(q) - n
    BY <1>1, <1>2
  <2>2. \A i \in 1..Len(s) : i \in 1..(Len(q) - (n + 1) + 1) /\ n + 1 + i - 1 = n + i
    BY <1>1, <2>1
  <2>3. \A i \in 1..Len(s) : s[i] = q[n + i]
    BY <1>2, <2>2
  <2>4. QED
    BY <1>1, <2>1, <2>3
<1>4. \A i, k \in 1..Len(s) : s[i] = s[k] => i = k
  BY <1>1, <1>3
<1>5. \A i \in 1..Len(q) : i \in 1..n \/ \E k \in 1..Len(s) : s[k] = q[i]
  <2>1. \A i \in 1..Len(q) : i \in 1..n \/ \E k \in 1..Len(s) : i = n + k
    <3>1. \A i \in 1..Len(q) : i \in 1..n \/ (i - n \in 1..Len(s) /\ i = n + (i - n))
      BY <1>1, <1>3
    <3>2. QED
      BY <3>1
  <2>2. QED
    BY <1>3, <2>1
<1>6. \A i \in 1..Len(q) :
        q[i] \notin {q[k] : k \in 1..n} => \E k \in 1..Len(s) : q[i] = s[k]
  BY <1>5
<1>7. \A i \in 1..Len(s) :
        /\ \E k \in 1..Len(q) : s[i] = q[k]
        /\ s[i] \notin {q[k] : k \in 1..n}
  <2>1. \A i \in 1..Len(s) : n + i \in 1..Len(q) /\ \A k \in 1..n : q[k] # q[n + i]
    BY <1>1, <1>3
  <2>2. QED
    BY <1>3, <2>1
<1>8. {q[i] : i \in 1..Len(q)} \ {q[i] : i \in 1..n} = {s[i] : i \in 1..Len(s)}
  BY <1>6, <1>7, SMTT(40)
<1>9. QED
  BY <1>2, <1>4, <1>8 DEF s

LEMMA DrainSound ==
  ASSUME NEW r, Ready(r), NEW n \in 0..Len(r.queue)
  PROVE  Sound(Drain(r, n)) /\ AtRest(Drain(r, n))
<1>1. r \in Runtime /\ r.queue \in Seq(Jobs) /\ r.current = None /\ r.proc # None
  BY FieldTypes DEF Ready, Sound
<1>2. CASE r.queue = <<>>
  BY <1>1, <1>2 DEF Drain, Ready, AtRest
<1>3. CASE r.queue # <<>>
  <2> DEFINE dropped == {r.queue[i] : i \in 1..n}
             rest == SubSeq(r.queue, n + 1, Len(r.queue))
             f == [r EXCEPT !.queue = rest, !.open = @ \ dropped]
  <2>1. Drain(r, n) = IF f.queue = <<>> THEN f ELSE Give(f)
    BY <1>1, <1>3 DEF Drain
  <2>2. \A i, k \in 1..Len(r.queue) : r.queue[i] = r.queue[k] => i = k
    BY DEF Ready, Sound, Waiting
  <2>3. /\ rest \in Seq(Jobs)
        /\ \A i, k \in 1..Len(rest) : rest[i] = rest[k] => i = k
        /\ {r.queue[i] : i \in 1..Len(r.queue)} \ dropped = {rest[i] : i \in 1..Len(rest)}
    BY <1>1, <2>2, RestOfDistinct
  <2>4. r.open \ dropped = {rest[i] : i \in 1..Len(rest)}
    <3>1. r.open = {r.queue[i] : i \in 1..Len(r.queue)} \cup ({r.current} \ {None})
      BY DEF Ready, Sound, Waiting
    <3>2. {r.current} \ {None} = {}
      BY <1>1
    <3>3. QED
      BY <2>3, <3>1, <3>2
  <2> HIDE DEF rest, dropped
  <2>5. /\ f \in Runtime /\ f.queue = rest /\ f.open = r.open \ dropped
        /\ f.proc = r.proc /\ f.generation = r.generation /\ f.current = r.current
        /\ f.foreign = r.foreign /\ f.chunks = r.chunks /\ f.procs = r.procs
        /\ f.state = r.state /\ f.idleTimer = r.idleTimer
        /\ f.pendingRotate = r.pendingRotate
        /\ f.sessionId = r.sessionId /\ f.verify = r.verify
        /\ f.rotateFailed = r.rotateFailed
    BY <1>1, <2>3, ZenonT(60) DEF Runtime
  <2> HIDE DEF f
  <2>6. Fenced(f) /\ Pure(f)
    BY <2>5 DEF Ready, Sound, Fenced, Talks, Pure
  <2>7. Waiting(f)
    <3>1. \A i \in 1..Len(rest) : rest[i] # None
      BY <2>3, ElementOfSeq, PoolAssumption
    <3>2. {f.current} \ {None} = {}
      BY <1>1, <2>5
    <3>3. f.open = {f.queue[i] : i \in 1..Len(f.queue)} \cup ({f.current} \ {None})
      BY <2>4, <2>5, <3>2
    <3>4. QED
      BY <1>1, <2>3, <2>5, <3>1, <3>3 DEF Waiting
  <2>8. Dropped(f) /\ Fresh(f)
    BY <2>5 DEF Ready, Sound, Dropped, Fresh, Talks
  <2>9. Ready(f)
    BY <1>1, <2>5, <2>6, <2>7, <2>8 DEF Ready, Sound
  <2>10. CASE f.queue = <<>>
    BY <2>1, <2>9, <2>10 DEF Ready, AtRest
  <2>11. CASE f.queue # <<>>
    BY <2>1, <2>9, <2>11, GiveSound
  <2>12. QED
    BY <2>10, <2>11
<1>4. QED
  BY <1>2, <1>3

(* A turn ends, or a process comes up, with the queue dealt with; and a    *)
(* rotation that was waiting comes before anything in the queue.           *)
LEMMA IdleThenDrainSound ==
  ASSUME NEW r, Sound(r), r.proc # None, r.current = None, NEW n \in 0..Len(r.queue)
  PROVE  LET d == IdleThenDrain(r, n) IN
         Sound(d) /\ AtRest(d) /\ (r.pendingRotate => d.current = None)
<1> DEFINE b == BecomeIdle(r)
<1>1. \/ Sound(b) /\ AtRest(b) /\ b.proc = None /\ b.current = None
      \/ ~ r.pendingRotate /\ Ready(b) /\ b.queue = r.queue
  BY BecomeIdleSound
<1>2. IdleThenDrain(r, n) = Drain(b, n)
  BY DEF IdleThenDrain
<1> HIDE DEF b
<1>3. CASE Sound(b) /\ AtRest(b) /\ b.proc = None /\ b.current = None
  <2>1. Drain(b, n) = b
    BY <1>3 DEF Drain
  <2>2. QED
    BY <1>2, <1>3, <2>1
<1>4. CASE ~ r.pendingRotate /\ Ready(b) /\ b.queue = r.queue
  BY <1>2, <1>4, DrainSound
<1>5. QED
  BY <1>1, <1>3, <1>4

(* The id of the process is never the one a rotation has left.             *)
LEMMA IdentifiedFields ==
  ASSUME NEW r \in Runtime, NEW p \in Procs, ~ r.rotateFailed, r.procs[p].sid # r.verify
  PROVE  LET s == Identified(r, p) IN
         /\ s \in Runtime /\ s.verify = None /\ s.rotateFailed = FALSE
         /\ s.proc = r.proc /\ s.generation = r.generation /\ s.current = r.current
         /\ s.open = r.open /\ s.foreign = r.foreign /\ s.chunks = r.chunks
         /\ s.queue = r.queue /\ s.procs = r.procs
         /\ s.state = r.state /\ s.idleTimer = r.idleTimer /\ s.pendingRotate = r.pendingRotate
<1> DEFINE id == r.procs[p].sid
           s == [r EXCEPT !.sessionId = id, !.verify = None, !.rotateFailed = FALSE]
<1>1. id \in Sessions \cup {NoSession}
  BY FieldTypes
<1>2. (IF r.verify = None THEN r.rotateFailed ELSE id = r.verify) = FALSE
  <2>1. r.rotateFailed = FALSE
    BY FieldTypes
  <2>2. (id = r.verify) = FALSE
    OBVIOUS
  <2>3. QED
    BY <2>1, <2>2
<1>3. Identified(r, p) = s
  BY <1>2 DEF Identified, Runtime
<1> HIDE DEF id
<1>4. /\ s \in Runtime /\ s.verify = None /\ s.rotateFailed = FALSE
      /\ s.proc = r.proc /\ s.generation = r.generation /\ s.current = r.current
      /\ s.open = r.open /\ s.foreign = r.foreign /\ s.chunks = r.chunks
      /\ s.queue = r.queue /\ s.procs = r.procs
      /\ s.state = r.state /\ s.idleTimer = r.idleTimer /\ s.pendingRotate = r.pendingRotate
  BY <1>1 DEF Runtime
<1>5. QED
  BY <1>3, <1>4

LEMMA IdentifiedSound ==
  ASSUME NEW r, Sound(r), NEW p \in Procs, r.generation = p, Talks(r, p)
  PROVE  LET s == Identified(r, p) IN
         /\ Sound(s) /\ (AtRest(r) => AtRest(s))
         /\ s.proc = p /\ s.current = r.current /\ s.chunks = r.chunks
         /\ s.pendingRotate = r.pendingRotate /\ s.queue = r.queue
         /\ s.generation = r.generation /\ s.procs = r.procs
<1> DEFINE s == Identified(r, p)
<1>1. r \in Runtime /\ r.proc = p /\ ~ r.rotateFailed
  BY DEF Sound, Fenced, Dropped
<1>2. r.procs[p].sid # r.verify
  <2>1. p # None /\ r.procs[p].sid # None
    BY <1>1, FieldTypes, PoolAssumption
  <2>2. QED
    BY <1>1, <2>1 DEF Sound, Fresh
<1>3. /\ s \in Runtime /\ s.verify = None /\ s.rotateFailed = FALSE
      /\ s.proc = r.proc /\ s.generation = r.generation /\ s.current = r.current
      /\ s.open = r.open /\ s.foreign = r.foreign /\ s.chunks = r.chunks
      /\ s.queue = r.queue /\ s.procs = r.procs
      /\ s.state = r.state /\ s.idleTimer = r.idleTimer /\ s.pendingRotate = r.pendingRotate
  BY <1>1, <1>2, IdentifiedFields
<1> HIDE DEF s
<1>4. Fenced(s) /\ Pure(s)
  BY <1>3 DEF Sound, Fenced, Talks, Pure
<1>5. Waiting(s)
  BY <1>3 DEF Sound, Waiting
<1>6. Dropped(s) /\ Fresh(s)
  BY <1>3 DEF Dropped, Fresh
<1>7. AtRest(r) => AtRest(s)
  BY <1>3 DEF AtRest
<1>8. QED
  BY <1>1, <1>3, <1>4, <1>5, <1>6, <1>7 DEF Sound, s

(* Somebody new has an id that nobody here has, or is being told from.     *)
LEMMA FreshSessionIsFresh ==
  ASSUME NEW r \in Runtime
  PROVE  FreshSession(r) \in Sessions /\ FreshSession(r) \notin {r.sessionId, r.verify}
<1> DEFINE f == [p \in Procs |-> r.procs[p].sid]
           P(t) == t \notin {r.sessionId, r.verify} /\ \A p \in Procs : t # r.procs[p].sid
           Ids == Sessions \cup {NoSession, None}
           Held == [Procs -> Sessions \cup {NoSession}]
<1>1. f \in Held /\ r.sessionId \in Ids /\ r.verify \in Ids
  BY FieldTypes
<1>2. \E t \in Sessions : t \notin {r.sessionId, r.verify} /\ \A p \in Procs : t # f[p]
  <2>1. \A a, b \in Ids, g \in Held :
          \E t \in Sessions : t \notin {a, b} /\ \A p \in Procs : t # g[p]
    BY SessionAssumption
  <2> HIDE DEF f, Ids, Held
  <2>2. QED
    BY <1>1, <2>1
<1>3. \E t \in Sessions : P(t)
  BY <1>2
<1>4. FreshSession(r) = CHOOSE t \in Sessions : P(t)
  BY DEF FreshSession
<1>5. P(FreshSession(r)) /\ FreshSession(r) \in Sessions
  <2> HIDE DEF P
  <2>1. QED
    BY <1>3, <1>4, Zenon
<1>6. QED
  BY <1>5

(* A process comes up on the session it was told, or on one never seen.    *)
LEMMA SpawnedFresh ==
  ASSUME NEW r \in Runtime, NEW new \in Spawned(r), Dropped(r), r.verify # None,
         new.life # "failed"
  PROVE  new.sid # r.verify
<1> DEFINE s == FreshSession(r)
<1>1. s \notin {r.sessionId, r.verify}
  BY FreshSessionIsFresh
<1> HIDE DEF s
<1>2. r.sessionId = NoSession
  BY DEF Dropped
<1>3. new.sid = s
  BY <1>2 DEF Spawned, Gone, s
<1>4. QED
  BY <1>1, <1>3

LEMMA StartSound ==
  ASSUME NEW r, Sound(r), r.proc = None, NEW p \in Procs,
         NEW new \in Spawned(r), NEW n \in 0..Len(r.queue)
  PROVE  LET s == Start(r, p, new, n) IN
         Sound(s) /\ AtRest(s) /\ (r.pendingRotate => s.current = None)
<1> DEFINE at == [r.procs EXCEPT ![p] = new]
           u == [r EXCEPT !.proc = p, !.generation = p, !.procs = at]
<1>1. r \in Runtime /\ r.current = None
  BY DEF Sound, Fenced
<1>2. new \in [life : {"failed", "up"}, sid : Sessions \cup {NoSession}, task : {None}]
  <2>1. FreshSession(r) \in Sessions
    BY <1>1, FreshSessionIsFresh
  <2>2. r.sessionId \in Sessions \cup {NoSession}
    BY <1>1, FieldTypes
  <2>3. QED
    BY <2>1, <2>2 DEF Spawned, Gone
<1>3. /\ at \in [Procs -> [life : Lives, sid : Sessions \cup {NoSession}, task : Jobs \cup {None}]]
      /\ at[p] = new
  BY <1>1, <1>2, FieldTypes DEF Lives
<1>4. Start(r, p, new, n) = IdleThenDrain(u, n)
  BY <1>1 DEF Start, Runtime
<1> HIDE DEF at
<1>5. /\ u \in Runtime /\ u.proc = p /\ u.generation = p /\ u.procs = at
      /\ u.current = r.current /\ u.open = r.open /\ u.foreign = r.foreign
      /\ u.chunks = r.chunks /\ u.queue = r.queue /\ u.pendingRotate = r.pendingRotate
      /\ u.sessionId = r.sessionId /\ u.verify = r.verify /\ u.rotateFailed = r.rotateFailed
  BY <1>1, <1>3 DEF Runtime
<1> HIDE DEF u
<1>6. Fenced(u)
  BY <1>1, <1>2, <1>3, <1>5, PoolAssumption DEF Fenced
<1>7. Pure(u) /\ Waiting(u) /\ Dropped(u)
  BY <1>5 DEF Sound, Pure, Waiting, Dropped
<1>8. Fresh(u)
  BY <1>1, <1>3, <1>5, SpawnedFresh DEF Sound, Fresh, Talks
<1>9. Sound(u) /\ u.proc # None /\ u.current = None
  BY <1>1, <1>5, <1>6, <1>7, <1>8, PoolAssumption DEF Sound
<1>10. QED
  BY <1>4, <1>5, <1>9, IdleThenDrainSound

(* The agent's process ends: its turn is answered with what was heard.     *)
LEMMA ExitSound ==
  ASSUME NEW r \in Runtime, Pure(r), Waiting(r), Dropped(r),
         \A p \in Procs : r.generation = p => ~ Talks(r, p),
         r.state = "stopped" => ~ r.idleTimer
  PROVE  LET e == Exit(r) IN Sound(e) /\ AtRest(e) /\ e.current = None
<1> DEFINE o == [r EXCEPT !.proc = None]
           s == Settle(o, r.chunks)
           d == IF r.restartCount >= 2 THEN [s EXCEPT !.sessionId = NoSession] ELSE s
           e == ScheduleRestart(MarkState(d, "error"))
<1>1. /\ o \in Runtime /\ o.proc = None
      /\ o.generation = r.generation /\ o.current = r.current
      /\ o.open = r.open /\ o.foreign = r.foreign /\ o.chunks = r.chunks
      /\ o.queue = r.queue /\ o.procs = r.procs
      /\ o.state = r.state /\ o.idleTimer = r.idleTimer
      /\ o.sessionId = r.sessionId /\ o.verify = r.verify /\ o.rotateFailed = r.rotateFailed
  BY DEF Runtime
<1>2. Exit(r) = IF r.state = "stopped" THEN s ELSE e
  BY DEF Exit
<1> HIDE DEF o
<1>3. s \in Runtime /\ s.current = None /\ s.open = o.open \ {o.current}
      /\ s.foreign = o.foreign /\ (o.current # None \/ o.chunks = {} => s.chunks = {})
      /\ s.queue = o.queue /\ s.procs = o.procs
      /\ s.proc = o.proc /\ s.generation = o.generation
      /\ s.state = o.state /\ s.idleTimer = o.idleTimer
      /\ s.sessionId = o.sessionId /\ s.verify = o.verify /\ s.rotateFailed = o.rotateFailed
  <2>1. r.chunks \in SUBSET (Jobs \cup {None}) /\ r.chunks \subseteq {o.current}
    BY <1>1, FieldTypes DEF Pure
  <2>2. o \in Runtime
    BY <1>1
  <2>3. QED
    BY <2>1, <2>2, SettleFields
<1> HIDE DEF s
<1>4. /\ d \in Runtime /\ d.sessionId \in {s.sessionId, NoSession}
      /\ d.proc = s.proc /\ d.generation = s.generation /\ d.current = s.current
      /\ d.open = s.open /\ d.foreign = s.foreign /\ d.chunks = s.chunks
      /\ d.queue = s.queue /\ d.procs = s.procs
      /\ d.verify = s.verify /\ d.rotateFailed = s.rotateFailed
  <2>1. s \in Runtime
    BY <1>3
  <2> DEFINE x == [s EXCEPT !.sessionId = NoSession]
  <2>2. /\ x \in Runtime /\ x.sessionId = NoSession
        /\ x.proc = s.proc /\ x.generation = s.generation /\ x.current = s.current
        /\ x.open = s.open /\ x.foreign = s.foreign /\ x.chunks = s.chunks
        /\ x.queue = s.queue /\ x.procs = s.procs
        /\ x.verify = s.verify /\ x.rotateFailed = s.rotateFailed
    BY <2>1, ZenonT(60) DEF Runtime
  <2>3. d = x \/ d = s
    OBVIOUS
  <2> HIDE DEF d, x
  <2>4. QED
    BY <2>1, <2>2, <2>3
<1> HIDE DEF d
<1>5. /\ e \in Runtime
      /\ e.current = d.current /\ e.open = d.open /\ e.foreign = d.foreign
      /\ e.chunks = d.chunks /\ e.queue = d.queue /\ e.procs = d.procs
      /\ e.proc = d.proc /\ e.generation = d.generation
      /\ e.state = "error" /\ e.idleTimer = FALSE
      /\ e.sessionId = d.sessionId /\ e.verify = d.verify /\ e.rotateFailed = d.rotateFailed
  BY <1>4, ErrorFields
<1> HIDE DEF e
<1>6. ASSUME NEW x \in {s, e}
      PROVE  x \in Runtime /\ Fenced(x) /\ Pure(x) /\ Waiting(x) /\ Dropped(x) /\ Fresh(x)
             /\ x.current = None
  <2>1. /\ x \in Runtime /\ x.proc = None /\ x.current = None
        /\ x.generation = r.generation /\ x.procs = r.procs
        /\ x.open = r.open \ {r.current} /\ x.queue = r.queue
        /\ x.foreign = r.foreign /\ (r.current # None \/ r.chunks = {} => x.chunks = {})
        /\ x.sessionId \in {r.sessionId, NoSession}
        /\ x.verify = r.verify /\ x.rotateFailed = r.rotateFailed
    BY <1>1, <1>3, <1>4, <1>5
  <2>2. Fenced(x)
    BY <2>1 DEF Fenced, Talks
  <2>3. Pure(x) /\ Dropped(x) /\ Fresh(x)
    BY <2>1 DEF Pure, Dropped, Fresh
  <2>4. Waiting(x)
    <3>1. x.queue \in Seq(Jobs)
      BY <2>1, FieldTypes
    <3>2. QED
      BY <2>1, <3>1, SettledWaiting
  <2>5. QED
    BY <2>1, <2>2, <2>3, <2>4
<1>7. CASE r.state = "stopped"
  <2>1. AtRest(s)
    BY <1>1, <1>3, <1>7 DEF AtRest
  <2>2. QED
    BY <1>2, <1>6, <1>7, <2>1 DEF Sound
<1>8. CASE r.state # "stopped"
  <2>1. AtRest(e)
    BY <1>5 DEF AtRest
  <2>2. QED
    BY <1>2, <1>6, <1>8, <2>1 DEF Sound
<1>9. QED
  BY <1>7, <1>8

-----------------------------------------------------------------------------
(* The handlers, one by one.                                               *)

(* A step keeps the invariant, and begins no turn while a rotation waits.  *)
Keeps ==
  Sound(rt') /\ AtRest(rt') /\ (rt.pendingRotate => rt'.current \in {None, rt.current})

LEMMA InitInv == Init => RuntimeInv
<1> SUFFICES ASSUME Init PROVE RuntimeInv
  OBVIOUS
<1>1. rt \in Runtime
  BY PoolAssumption, EmptySeq DEF Init, Runtime, Gone, Lives
<1>2. /\ rt.proc = None /\ rt.generation = None /\ rt.state = "stopped" /\ rt.queue = <<>>
      /\ rt.current = None /\ rt.chunks = {} /\ rt.open = {} /\ rt.foreign = {}
      /\ rt.verify = None /\ rt.rotateFailed = FALSE /\ rt.idleTimer = FALSE
  BY DEF Init
<1>3. Fenced(rt) /\ Pure(rt)
  BY <1>2, PoolAssumption DEF Fenced, Pure
<1>4. Waiting(rt)
  BY <1>2 DEF Waiting
<1>5. Dropped(rt) /\ Fresh(rt) /\ AtRest(rt)
  BY <1>2 DEF Dropped, Fresh, AtRest
<1>6. QED
  BY <1>1, <1>3, <1>4, <1>5 DEF RuntimeInv, Sound

LEMMA FreeProcIsFree ==
  ASSUME FreeProcs # {}
  PROVE  FreeProc \in Procs
BY DEF FreeProc, FreeProcs

(* A message joins the queue; the rest is what start and drain do with it. *)
LEMMA SendKeeps == ASSUME RuntimeInv, NEW j \in Jobs, Send(j) PROVE Keeps
<1> DEFINE q == Append(rt.queue, j)
           r == [rt EXCEPT !.queue = q, !.open = @ \cup {j}]
<1>1. rt \in Runtime /\ j \notin rt.open
  BY DEF RuntimeInv, Sound, Send
<1>2. /\ q \in Seq(Jobs) /\ Len(q) = Len(rt.queue) + 1 /\ Len(rt.queue) \in Nat
      /\ \A i \in 1..Len(rt.queue) : q[i] = rt.queue[i]
      /\ q[Len(rt.queue) + 1] = j
  BY <1>1, FieldTypes, AppendProperties, LenProperties
<1> HIDE DEF q
<1>3. /\ r \in Runtime /\ r.queue = q /\ r.open = rt.open \cup {j}
      /\ r.proc = rt.proc /\ r.generation = rt.generation /\ r.current = rt.current
      /\ r.foreign = rt.foreign /\ r.chunks = rt.chunks /\ r.procs = rt.procs
      /\ r.state = rt.state /\ r.idleTimer = rt.idleTimer
      /\ r.pendingRotate = rt.pendingRotate
      /\ r.sessionId = rt.sessionId /\ r.verify = rt.verify
      /\ r.rotateFailed = rt.rotateFailed
  BY <1>1, <1>2, ZenonT(60) DEF Runtime
<1>4. Waiting(r)
  <2>1. /\ \A i, k \in 1..Len(rt.queue) : rt.queue[i] = rt.queue[k] => i = k
        /\ \A i \in 1..Len(rt.queue) : rt.queue[i] # rt.current
        /\ rt.open = {rt.queue[i] : i \in 1..Len(rt.queue)} \cup ({rt.current} \ {None})
    BY DEF RuntimeInv, Sound, Waiting
  <2>2. j # rt.current /\ \A i \in 1..Len(rt.queue) : rt.queue[i] # j
    BY <1>1, <2>1, PoolAssumption
  <2>3. \A i \in 1..Len(q) : \/ i = Len(q) /\ q[i] = j
                             \/ i \in 1..Len(rt.queue) /\ q[i] = rt.queue[i]
    BY <1>2
  <2>4. \A i, k \in 1..Len(q) : q[i] = q[k] => i = k
    BY <2>1, <2>2, <2>3
  <2>5. \A i \in 1..Len(q) : q[i] # rt.current
    BY <2>1, <2>2, <2>3
  <2>6. {q[i] : i \in 1..Len(q)} = {rt.queue[i] : i \in 1..Len(rt.queue)} \cup {j}
    <3>1. \A i \in 1..Len(rt.queue) : i \in 1..Len(q) /\ rt.queue[i] = q[i]
      BY <1>2
    <3>2. \E i \in 1..Len(q) : q[i] = j
      BY <1>2
    <3>3. QED
      BY <2>3, <3>1, <3>2
  <2>7. rt.open \cup {j} = {q[i] : i \in 1..Len(q)} \cup ({rt.current} \ {None})
    BY <2>1, <2>6
  <2>8. QED
    BY <1>3, <2>4, <2>5, <2>7 DEF Waiting
<1> HIDE DEF r
<1>5. Sound(r)
  <2>1. Fenced(r) /\ Pure(r)
    BY <1>3 DEF RuntimeInv, Sound, Fenced, Talks, Pure
  <2>2. Dropped(r) /\ Fresh(r)
    BY <1>3 DEF RuntimeInv, Sound, Dropped, Fresh, Talks
  <2>3. QED
    BY <1>3, <1>4, <2>1, <2>2 DEF Sound
<1>6. \/ /\ rt.proc = None /\ FreeProcs # {}
         /\ \E new \in Spawned(r), n \in 0..Len(r.queue) : rt' = Start(r, FreeProc, new, n)
      \/ /\ rt.proc # None /\ rt.state = "idle"
         /\ \E n \in 0..Len(r.queue) : rt' = Drain(r, n)
      \/ rt.proc # None /\ rt.state # "idle" /\ rt' = r
  BY DEF Send, r, q
<1>7. CASE /\ rt.proc = None /\ FreeProcs # {}
           /\ \E new \in Spawned(r), n \in 0..Len(r.queue) : rt' = Start(r, FreeProc, new, n)
  <2>1. FreeProc \in Procs
    BY <1>7, FreeProcIsFree
  <2>2. QED
    BY <1>3, <1>5, <1>7, <2>1, StartSound DEF Keeps
<1>8. CASE /\ rt.proc # None /\ rt.state = "idle"
           /\ \E n \in 0..Len(r.queue) : rt' = Drain(r, n)
  <2>1. Ready(r) /\ ~ rt.pendingRotate
    BY <1>3, <1>5, <1>8 DEF RuntimeInv, AtRest, Ready
  <2>2. QED
    BY <1>8, <2>1, DrainSound DEF Keeps
<1>9. CASE rt.proc # None /\ rt.state # "idle" /\ rt' = r
  <2>1. AtRest(r)
    BY <1>3, <1>9 DEF RuntimeInv, AtRest
  <2>2. QED
    BY <1>3, <1>5, <1>9, <2>1 DEF Keeps
<1>10. QED
  BY <1>6, <1>7, <1>8, <1>9

LEMMA NewSessionKeeps == ASSUME RuntimeInv, NewSession PROVE Keeps
<1> DEFINE r == [rt EXCEPT !.pendingRotate = FALSE, !.verify = None, !.briefing = FALSE]
<1>1. rt \in Runtime
  BY DEF RuntimeInv, Sound
<1>2. /\ r \in Runtime /\ r.pendingRotate = FALSE
      /\ r.proc = rt.proc /\ r.generation = rt.generation /\ r.current = rt.current
      /\ r.open = rt.open /\ r.foreign = rt.foreign /\ r.chunks = rt.chunks
      /\ r.queue = rt.queue /\ r.procs = rt.procs
      /\ r.state = rt.state /\ r.idleTimer = rt.idleTimer
      /\ r.rotateFailed = rt.rotateFailed
  BY <1>1, ZenonT(60) DEF Runtime
<1>3. rt' = ReplaceSession(r)
  BY DEF NewSession
<1> HIDE DEF r
<1>4. Fenced(r) /\ Pure(r)
  BY <1>2 DEF RuntimeInv, Sound, Fenced, Talks, Pure
<1>5. Waiting(r) /\ ~ r.rotateFailed /\ AtRest(r)
  BY <1>2 DEF RuntimeInv, Sound, Waiting, Dropped, AtRest
<1>6. QED
  BY <1>2, <1>3, <1>4, <1>5, ReplaceSound DEF Keeps

LEMMA RotateKeeps == ASSUME RuntimeInv, Rotate PROVE Keeps
<1>1. rt \in Runtime /\ Sound(rt) /\ AtRest(rt) /\ ~ rt.pendingRotate
  BY DEF RuntimeInv, Sound, Rotate
<1> DEFINE r == RotateNow(rt)
<1>2. /\ Sound(r) /\ AtRest(r) /\ r.proc = None /\ r.current = None
      /\ r.pendingRotate = FALSE /\ r.queue = rt.queue
  BY <1>1, RotateNowSound
<1>3. CASE /\ rt.current # None \/ rt.state = "busy"
           /\ rt' = [rt EXCEPT !.pendingRotate = TRUE]
  <2>1. /\ rt' \in Runtime
        /\ rt'.proc = rt.proc /\ rt'.generation = rt.generation /\ rt'.current = rt.current
        /\ rt'.open = rt.open /\ rt'.foreign = rt.foreign /\ rt'.chunks = rt.chunks
        /\ rt'.queue = rt.queue /\ rt'.procs = rt.procs
        /\ rt'.state = rt.state /\ rt'.idleTimer = rt.idleTimer
        /\ rt'.sessionId = rt.sessionId /\ rt'.verify = rt.verify
        /\ rt'.rotateFailed = rt.rotateFailed
    BY <1>1, <1>3 DEF Runtime
  <2>2. Fenced(rt') /\ Pure(rt')
    BY <1>1, <2>1 DEF Sound, Fenced, Talks, Pure
  <2>3. Waiting(rt')
    BY <1>1, <2>1 DEF Sound, Waiting
  <2>4. Dropped(rt') /\ Fresh(rt')
    BY <1>1, <2>1 DEF Sound, Dropped, Fresh, Talks
  <2>5. AtRest(rt')
    BY <1>1, <1>3, <2>1 DEF AtRest
  <2>6. QED
    BY <2>1, <2>2, <2>3, <2>4, <2>5 DEF Keeps, Sound
<1>4. CASE rt' = RotateNow(rt)
  BY <1>2, <1>4 DEF Keeps
<1>5. CASE /\ FreeProcs # {}
           /\ \E new \in Spawned(r), n \in Staleness : rt' = Start(r, FreeProc, new, n)
  <2>1. FreeProc \in Procs
    BY <1>5, FreeProcIsFree
  <2> HIDE DEF r
  <2>2. QED
    BY <1>1, <1>2, <1>5, <2>1, StartSound DEF Keeps, Staleness
<1>6. QED
  BY <1>3, <1>4, <1>5 DEF Rotate

LEMMA RestartFiresKeeps == ASSUME RuntimeInv, RestartFires PROVE Keeps
<1> DEFINE r == [rt EXCEPT !.restartTimer = FALSE]
<1>1. rt \in Runtime
  BY DEF RuntimeInv, Sound
<1>2. /\ r \in Runtime /\ r.pendingRotate = rt.pendingRotate
      /\ r.proc = rt.proc /\ r.generation = rt.generation /\ r.current = rt.current
      /\ r.open = rt.open /\ r.foreign = rt.foreign /\ r.chunks = rt.chunks
      /\ r.queue = rt.queue /\ r.procs = rt.procs
      /\ r.state = rt.state /\ r.idleTimer = rt.idleTimer
      /\ r.sessionId = rt.sessionId /\ r.verify = rt.verify
      /\ r.rotateFailed = rt.rotateFailed
  BY <1>1, ZenonT(60) DEF Runtime
<1>3. \/ rt' = r
      \/ /\ rt.proc = None /\ FreeProcs # {}
         /\ \E new \in Spawned(r), n \in Staleness : rt' = Start(r, FreeProc, new, n)
  BY DEF RestartFires
<1> HIDE DEF r
<1>4. Fenced(r) /\ Pure(r)
  BY <1>2 DEF RuntimeInv, Sound, Fenced, Talks, Pure
<1>5. Waiting(r)
  BY <1>2 DEF RuntimeInv, Sound, Waiting
<1>6. Dropped(r) /\ Fresh(r) /\ AtRest(r)
  BY <1>2 DEF RuntimeInv, Sound, Dropped, Fresh, Talks, AtRest
<1>7. Sound(r)
  BY <1>2, <1>4, <1>5, <1>6 DEF Sound
<1>8. CASE rt' = r
  BY <1>2, <1>6, <1>7, <1>8 DEF Keeps
<1>9. CASE /\ rt.proc = None /\ FreeProcs # {}
           /\ \E new \in Spawned(r), n \in Staleness : rt' = Start(r, FreeProc, new, n)
  <2>1. FreeProc \in Procs
    BY <1>9, FreeProcIsFree
  <2>2. QED
    BY <1>2, <1>7, <1>9, <2>1, StartSound DEF Keeps, Staleness
<1>10. QED
  BY <1>3, <1>8, <1>9

LEMMA TurnTimesOutKeeps == ASSUME RuntimeInv, TurnTimesOut PROVE Keeps
BY KillSound DEF RuntimeInv, Sound, TurnTimesOut, Keeps

LEMMA StandDownKeeps == ASSUME RuntimeInv, StandDown PROVE Keeps
<1>1. rt \in Runtime
  BY DEF RuntimeInv, Sound
<1>2. rt.current = None /\ rt.state = "idle"
  BY DEF RuntimeInv, AtRest, StandDown
<1> DEFINE m == MarkState(rt, "stopped")
<1>3. /\ m \in Runtime /\ m.state = "stopped" /\ m.idleTimer = FALSE
      /\ m.current = rt.current /\ m.open = rt.open /\ m.foreign = rt.foreign
      /\ m.chunks = rt.chunks /\ m.queue = rt.queue /\ m.procs = rt.procs
      /\ m.sessionId = rt.sessionId /\ m.verify = rt.verify
      /\ m.rotateFailed = rt.rotateFailed
  BY <1>1 DEF MarkState, Runtime
<1>4. rt' = [m EXCEPT !.restartTimer = FALSE, !.proc = None, !.generation = None]
  BY DEF StandDown
<1> HIDE DEF m
<1>5. /\ rt' \in Runtime /\ rt'.proc = None /\ rt'.generation = None
      /\ rt'.state = m.state /\ rt'.idleTimer = m.idleTimer
      /\ rt'.current = m.current /\ rt'.open = m.open /\ rt'.foreign = m.foreign
      /\ rt'.chunks = m.chunks /\ rt'.queue = m.queue /\ rt'.procs = m.procs
      /\ rt'.sessionId = m.sessionId /\ rt'.verify = m.verify
      /\ rt'.rotateFailed = m.rotateFailed
  <2>1. m \in Runtime
    BY <1>3
  <2>2. QED
    BY <1>4, <2>1 DEF Runtime
<1>6. Fenced(rt') /\ Pure(rt')
  BY <1>2, <1>3, <1>5, PoolAssumption DEF RuntimeInv, Sound, Fenced, Pure
<1>7. Waiting(rt')
  BY <1>3, <1>5 DEF RuntimeInv, Sound, Waiting
<1>8. Dropped(rt') /\ Fresh(rt') /\ AtRest(rt')
  BY <1>3, <1>5 DEF RuntimeInv, Sound, Dropped, Fresh, AtRest
<1>9. QED
  BY <1>2, <1>3, <1>5, <1>6, <1>7, <1>8 DEF Keeps, Sound

LEMMA HookKeeps == ASSUME RuntimeInv, NEW p \in Procs, Hook(p) PROVE Keeps
<1>1. rt.generation = p /\ Talks(rt, p) /\ rt' = Identified(rt, p)
  BY DEF Hook, Alive, Heard, Talks
<1>2. QED
  BY <1>1, IdentifiedSound DEF RuntimeInv, Keeps

LEMMA SystemInitKeeps == ASSUME RuntimeInv, NEW p \in Procs, SystemInit(p) PROVE Keeps
<1> DEFINE i == Identified(rt, p)
           zero == 0
           r == [i EXCEPT !.restartCount = zero]
<1>1. rt.generation = p /\ Talks(rt, p)
  BY DEF SystemInit, Alive, Heard, Talks
<1>2. /\ Sound(i) /\ AtRest(i) /\ i.proc = p /\ i.current = rt.current
      /\ i.pendingRotate = rt.pendingRotate /\ i.queue = rt.queue
  BY <1>1, IdentifiedSound DEF RuntimeInv
<1>3. \/ rt.current = None /\ \E n \in Staleness : rt' = IdleThenDrain(r, n)
      \/ rt.current # None /\ rt' = r
  BY DEF SystemInit
<1> HIDE DEF i
<1>4. i \in Runtime /\ zero \in 0..2
  BY <1>2 DEF Sound
<1> HIDE DEF zero
<1>5. /\ r \in Runtime /\ r.pendingRotate = i.pendingRotate
      /\ r.proc = i.proc /\ r.generation = i.generation /\ r.current = i.current
      /\ r.open = i.open /\ r.foreign = i.foreign /\ r.chunks = i.chunks
      /\ r.queue = i.queue /\ r.procs = i.procs
      /\ r.state = i.state /\ r.idleTimer = i.idleTimer
      /\ r.sessionId = i.sessionId /\ r.verify = i.verify
      /\ r.rotateFailed = i.rotateFailed
  BY <1>4 DEF Runtime
<1> HIDE DEF r
<1>6. Fenced(r) /\ Pure(r)
  BY <1>2, <1>5 DEF Sound, Fenced, Talks, Pure
<1>7. Waiting(r)
  BY <1>2, <1>5 DEF Sound, Waiting
<1>8. Dropped(r) /\ Fresh(r) /\ AtRest(r)
  BY <1>2, <1>5 DEF Sound, Dropped, Fresh, Talks, AtRest
<1>9. Sound(r)
  BY <1>5, <1>6, <1>7, <1>8 DEF Sound
<1>10. CASE rt.current # None /\ rt' = r
  BY <1>2, <1>5, <1>8, <1>9, <1>10 DEF Keeps
<1>11. CASE rt.current = None /\ \E n \in Staleness : rt' = IdleThenDrain(r, n)
  <2>1. r.proc # None /\ r.current = None /\ r.pendingRotate = rt.pendingRotate
    BY <1>2, <1>5, <1>11, PoolAssumption
  <2>2. \A n \in Staleness : n \in 0..Len(r.queue)
    BY <1>2, <1>5 DEF Staleness
  <2>3. QED
    BY <1>9, <1>11, <2>1, <2>2, IdleThenDrainSound DEF Keeps
<1>12. QED
  BY <1>3, <1>10, <1>11

(* The process works on the current job, so what it says is about it.      *)
LEMMA AssistantTextKeeps == ASSUME RuntimeInv, NEW p \in Procs, AssistantText(p) PROVE Keeps
<1> DEFINE r == Identified(rt, p)
           heard == r.chunks \cup {rt.procs[p].task}
           c == [r EXCEPT !.chunks = heard]
<1>1. rt.generation = p /\ Talks(rt, p) /\ rt.procs[p].task # None
  BY DEF AssistantText, Alive, Heard, Talks
<1>2. /\ Sound(r) /\ AtRest(r) /\ r.current = rt.current
      /\ r.pendingRotate = rt.pendingRotate
  BY <1>1, IdentifiedSound DEF RuntimeInv
<1>3. rt' = IF rt.current = None THEN r ELSE c
  <2>1. r \in Runtime
    BY <1>2 DEF Sound
  <2>2. QED
    BY <2>1 DEF AssistantText, Runtime
<1>4. rt.procs[p].task = rt.current
  BY <1>1, PoolAssumption DEF RuntimeInv, Sound, Fenced
<1> HIDE DEF r
<1>5. heard \in SUBSET (Jobs \cup {None}) /\ heard \subseteq {r.current} \ {None}
  <2>1. r.chunks \subseteq {r.current} \ {None}
    BY <1>2 DEF Sound, Pure
  <2>2. r.current \in Jobs \cup {None}
    BY <1>2, FieldTypes DEF Sound
  <2>3. QED
    BY <1>1, <1>2, <1>4, <2>1, <2>2
<1> HIDE DEF heard
<1>6. /\ c \in Runtime /\ c.chunks = heard /\ c.pendingRotate = r.pendingRotate
      /\ c.proc = r.proc /\ c.generation = r.generation /\ c.current = r.current
      /\ c.open = r.open /\ c.foreign = r.foreign
      /\ c.queue = r.queue /\ c.procs = r.procs
      /\ c.state = r.state /\ c.idleTimer = r.idleTimer
      /\ c.sessionId = r.sessionId /\ c.verify = r.verify
      /\ c.rotateFailed = r.rotateFailed
  BY <1>2, <1>5 DEF Sound, Runtime
<1> HIDE DEF c
<1>7. Fenced(c) /\ Pure(c)
  BY <1>2, <1>5, <1>6 DEF Sound, Fenced, Talks, Pure
<1>8. Waiting(c)
  BY <1>2, <1>6 DEF Sound, Waiting
<1>9. Dropped(c) /\ Fresh(c) /\ AtRest(c)
  BY <1>2, <1>6 DEF Sound, Dropped, Fresh, Talks, AtRest
<1>10. Sound(c)
  BY <1>6, <1>7, <1>8, <1>9 DEF Sound
<1>11. QED
  BY <1>2, <1>3, <1>6, <1>9, <1>10 DEF Keeps

(* The reply is what was heard of the current job and its last words.      *)
LEMMA ResultKeeps == ASSUME RuntimeInv, NEW p \in Procs, Result(p) PROVE Keeps
<1> DEFINE at == [rt.procs EXCEPT ![p].task = None]
           silent == [rt EXCEPT !.procs = at]
           r == Identified(silent, p)
           text == r.chunks \cup {rt.procs[p].task}
           s == Settle(r, text)
<1>1. rt \in Runtime /\ Talks(rt, p)
  BY DEF RuntimeInv, Sound, Result, Alive, Talks
<1>2. /\ at \in [Procs -> [life : Lives, sid : Sessions \cup {NoSession}, task : Jobs \cup {None}]]
      /\ at[p].task = None
      /\ \A q \in Procs : /\ at[q].life = rt.procs[q].life /\ at[q].sid = rt.procs[q].sid
                          /\ q # p => at[q].task = rt.procs[q].task
  BY <1>1, FieldTypes
<1>3. \/ rt.generation = p /\ \E n \in Staleness : rt' = IdleThenDrain(s, n)
      \/ rt.generation # p /\ rt' = silent
  <2>1. [rt EXCEPT !.procs[p].task = None] = silent
    BY <1>1 DEF Runtime
  <2>2. QED
    BY <2>1 DEF Result, Heard
<1> HIDE DEF at
<1>4. /\ silent \in Runtime /\ silent.procs = at /\ silent.pendingRotate = rt.pendingRotate
      /\ silent.proc = rt.proc /\ silent.generation = rt.generation
      /\ silent.current = rt.current /\ silent.open = rt.open
      /\ silent.foreign = rt.foreign /\ silent.chunks = rt.chunks
      /\ silent.queue = rt.queue /\ silent.state = rt.state
      /\ silent.idleTimer = rt.idleTimer
      /\ silent.sessionId = rt.sessionId /\ silent.verify = rt.verify
      /\ silent.rotateFailed = rt.rotateFailed
  <2>1. rt \in Runtime
    BY <1>1
  <2>2. at \in [Procs -> [life : Lives, sid : Sessions \cup {NoSession}, task : Jobs \cup {None}]]
    BY <1>2
  <2>3. QED
    BY <2>1, <2>2, ZenonT(60) DEF Runtime
<1> HIDE DEF silent
<1>5. CASE rt.generation # p /\ rt' = silent
  <2>1. rt.proc # p
    BY <1>5, PoolAssumption DEF RuntimeInv, Sound, Fenced
  <2>2. rt.proc # None => rt.proc \in Procs
    BY <1>1, FieldTypes
  <2>3. Fenced(silent)
    BY <1>2, <1>4, <2>1, <2>2 DEF RuntimeInv, Sound, Fenced, Talks
  <2>4. Pure(silent) /\ AtRest(silent)
    BY <1>4 DEF RuntimeInv, Sound, Pure, AtRest
  <2>5. Waiting(silent)
    BY <1>4 DEF RuntimeInv, Sound, Waiting
  <2>6. Dropped(silent) /\ Fresh(silent)
    BY <1>2, <1>4, <2>2 DEF RuntimeInv, Sound, Dropped, Fresh, Talks
  <2>7. QED
    BY <1>4, <1>5, <2>3, <2>4, <2>5, <2>6 DEF Keeps, Sound
<1>6. CASE rt.generation = p /\ \E n \in Staleness : rt' = IdleThenDrain(s, n)
  <2>1. rt.proc = p /\ p # None /\ rt.procs[p].task = rt.current
    BY <1>1, <1>6, PoolAssumption DEF RuntimeInv, Sound, Fenced
  <2>2. /\ r \in Runtime /\ r.verify = None /\ r.rotateFailed = FALSE
        /\ r.proc = p /\ r.generation = p /\ r.current = rt.current
        /\ r.open = rt.open /\ r.foreign = rt.foreign /\ r.chunks = rt.chunks
        /\ r.queue = rt.queue /\ r.procs = at
        /\ r.state = rt.state /\ r.idleTimer = rt.idleTimer
        /\ r.pendingRotate = rt.pendingRotate
    <3>1. ~ silent.rotateFailed
      BY <1>4 DEF RuntimeInv, Sound, Dropped
    <3>2. silent.procs[p].sid # silent.verify
      <4>1. rt.procs[p].sid # None
        BY <1>1, FieldTypes, PoolAssumption
      <4>2. rt.procs[p].sid # rt.verify
        BY <1>1, <2>1, <4>1 DEF RuntimeInv, Sound, Fresh
      <4>3. QED
        BY <1>2, <1>4, <4>2
    <3>3. QED
      BY <1>4, <1>6, <2>1, <3>1, <3>2, IdentifiedFields
  <2> HIDE DEF r
  <2>3. text \in SUBSET (Jobs \cup {None}) /\ text \subseteq {r.current}
        /\ (r.current # None \/ r.chunks = {})
    <3>1. r.chunks \subseteq {r.current} \ {None}
      BY <2>2 DEF RuntimeInv, Sound, Pure
    <3>2. r.current \in Jobs \cup {None}
      BY <2>2, FieldTypes
    <3>3. QED
      BY <2>1, <2>2, <3>1, <3>2
  <2> HIDE DEF text
  <2>4. /\ s \in Runtime /\ s.current = None /\ s.open = r.open \ {r.current}
        /\ s.foreign = r.foreign /\ s.chunks = {}
        /\ s.queue = r.queue /\ s.procs = r.procs
        /\ s.proc = r.proc /\ s.generation = r.generation
        /\ s.verify = r.verify /\ s.rotateFailed = r.rotateFailed
        /\ s.pendingRotate = r.pendingRotate
    <3>1. r \in Runtime
      BY <2>2
    <3>2. QED
      BY <2>3, <3>1, SettleFields
  <2> HIDE DEF s
  <2>5. Fenced(s)
    BY <1>1, <1>2, <2>1, <2>2, <2>4 DEF Fenced, Talks
  <2>6. Pure(s)
    BY <2>2, <2>4 DEF RuntimeInv, Sound, Pure
  <2>7. Waiting(s)
    <3>1. Waiting(rt) /\ s.queue = rt.queue /\ s.open = rt.open \ {rt.current}
      BY <2>2, <2>4 DEF RuntimeInv, Sound
    <3>2. s.queue \in Seq(Jobs)
      BY <2>4, FieldTypes
    <3>3. QED
      BY <1>1, <2>4, <3>1, <3>2, SettledWaiting
  <2>8. Dropped(s) /\ Fresh(s)
    BY <2>2, <2>4 DEF Dropped, Fresh
  <2>9. Sound(s) /\ s.proc # None
    BY <2>1, <2>2, <2>4, <2>5, <2>6, <2>7, <2>8 DEF Sound
  <2>10. \A n \in Staleness : n \in 0..Len(s.queue)
    BY <2>2, <2>4 DEF Staleness
  <2>11. QED
    BY <1>6, <2>2, <2>4, <2>9, <2>10, IdleThenDrainSound DEF Keeps
<1>7. QED
  BY <1>3, <1>5, <1>6

(* A process that is not the agent's reports its end to nobody.            *)
LEMMA EndedKeeps ==
  ASSUME RuntimeInv, NEW p \in Procs,
         NEW g \in [life : {"none", "errored"}, sid : Sessions \cup {NoSession},
                    task : Jobs \cup {None}],
         LET r == [rt EXCEPT !.procs = [@ EXCEPT ![p] = g]]
         IN  rt' = IF rt.generation = p /\ rt.proc = p THEN Exit(r) ELSE r
  PROVE  Keeps
<1> DEFINE at == [rt.procs EXCEPT ![p] = g]
           r == [rt EXCEPT !.procs = at]
<1>1. rt \in Runtime
  BY DEF RuntimeInv, Sound
<1>2. /\ at \in [Procs -> [life : Lives, sid : Sessions \cup {NoSession}, task : Jobs \cup {None}]]
      /\ at[p] = g /\ \A q \in Procs : q # p => at[q] = rt.procs[q]
  BY <1>1, FieldTypes DEF Lives
<1>3. rt' = IF rt.generation = p /\ rt.proc = p THEN Exit(r) ELSE r
  OBVIOUS
<1> HIDE DEF at
<1>4. /\ r \in Runtime /\ r.procs = at /\ r.pendingRotate = rt.pendingRotate
      /\ r.proc = rt.proc /\ r.generation = rt.generation
      /\ r.current = rt.current /\ r.open = rt.open
      /\ r.foreign = rt.foreign /\ r.chunks = rt.chunks
      /\ r.queue = rt.queue /\ r.state = rt.state /\ r.idleTimer = rt.idleTimer
      /\ r.sessionId = rt.sessionId /\ r.verify = rt.verify
      /\ r.rotateFailed = rt.rotateFailed
  <2>1. rt \in Runtime
    BY <1>1
  <2>2. at \in [Procs -> [life : Lives, sid : Sessions \cup {NoSession}, task : Jobs \cup {None}]]
    BY <1>2
  <2>3. QED
    BY <2>1, <2>2, ZenonT(60) DEF Runtime
<1> HIDE DEF r
<1>5. Pure(r) /\ Waiting(r) /\ Dropped(r) /\ AtRest(r)
  BY <1>4 DEF RuntimeInv, Sound, Pure, Waiting, Dropped, AtRest
<1>6. CASE rt.generation = p /\ rt.proc = p
  <2>1. \A q \in Procs : r.generation = q => ~ Talks(r, q)
    BY <1>2, <1>4, <1>6 DEF Talks
  <2>2. r.state = "stopped" => ~ r.idleTimer
    BY <1>5 DEF AtRest
  <2>3. QED
    BY <1>3, <1>4, <1>5, <1>6, <2>1, <2>2, ExitSound DEF Keeps
<1>7. CASE ~ (rt.generation = p /\ rt.proc = p)
  <2>1. rt.proc # p /\ (rt.proc # None => rt.proc \in Procs)
    BY <1>1, <1>7, FieldTypes, PoolAssumption DEF RuntimeInv, Sound, Fenced
  <2>2. Fenced(r)
    BY <1>2, <1>4, <2>1 DEF RuntimeInv, Sound, Fenced, Talks
  <2>3. Fresh(r)
    BY <1>2, <1>4, <2>1 DEF RuntimeInv, Sound, Fresh, Talks
  <2>4. QED
    BY <1>3, <1>4, <1>5, <1>7, <2>2, <2>3 DEF Keeps, Sound
<1>8. QED
  BY <1>6, <1>7

LEMMA SpawnErrorKeeps == ASSUME RuntimeInv, NEW p \in Procs, SpawnError(p) PROVE Keeps
<1> DEFINE g == [rt.procs[p] EXCEPT !.life = "errored"]
<1>1. rt \in Runtime
  BY DEF RuntimeInv, Sound
<1>2. g \in [life : {"none", "errored"}, sid : Sessions \cup {NoSession}, task : Jobs \cup {None}]
  BY <1>1, FieldTypes
<1>3. [rt EXCEPT !.procs[p].life = "errored"] = [rt EXCEPT !.procs = [@ EXCEPT ![p] = g]]
  BY <1>1, FieldTypes DEF Runtime
<1>4. rt' = LET r == [rt EXCEPT !.procs = [@ EXCEPT ![p] = g]]
            IN  IF rt.generation = p /\ rt.proc = p THEN Exit(r) ELSE r
  BY <1>3 DEF SpawnError
<1> HIDE DEF g
<1>5. QED
  BY <1>2, <1>4, EndedKeeps

LEMMA CloseKeeps == ASSUME RuntimeInv, NEW p \in Procs, Close(p) PROVE Keeps
<1>1. rt \in Runtime
  BY DEF RuntimeInv, Sound
<1>2. Gone \in [life : {"none", "errored"}, sid : Sessions \cup {NoSession}, task : Jobs \cup {None}]
  BY DEF Gone
<1>3. [rt EXCEPT !.procs[p] = Gone] = [rt EXCEPT !.procs = [@ EXCEPT ![p] = Gone]]
  BY <1>1 DEF Runtime
<1>4. rt' = LET r == [rt EXCEPT !.procs = [@ EXCEPT ![p] = Gone]]
            IN  IF rt.generation = p /\ rt.proc = p THEN Exit(r) ELSE r
  BY <1>3 DEF Close
<1>5. QED
  BY <1>2, <1>4, EndedKeeps

LEMMA ExitHeldOpenKeeps == ASSUME RuntimeInv, NEW p \in Procs, ExitHeldOpen(p) PROVE Keeps
<1> DEFINE at == [rt.procs EXCEPT ![p].life = "exited"]
<1>1. rt \in Runtime /\ rt.procs[p].life = "up"
  BY DEF RuntimeInv, Sound, ExitHeldOpen
<1>2. /\ at \in [Procs -> [life : Lives, sid : Sessions \cup {NoSession}, task : Jobs \cup {None}]]
      /\ at[p].life = "exited"
      /\ \A q \in Procs : /\ at[q].sid = rt.procs[q].sid /\ at[q].task = rt.procs[q].task
                          /\ q # p => at[q].life = rt.procs[q].life
  BY <1>1, FieldTypes DEF Lives
<1>3. rt' = [rt EXCEPT !.procs = at]
  BY <1>1 DEF ExitHeldOpen, Runtime
<1> HIDE DEF at
<1>4. /\ rt' \in Runtime /\ rt'.procs = at /\ rt'.pendingRotate = rt.pendingRotate
      /\ rt'.proc = rt.proc /\ rt'.generation = rt.generation
      /\ rt'.current = rt.current /\ rt'.open = rt.open
      /\ rt'.foreign = rt.foreign /\ rt'.chunks = rt.chunks
      /\ rt'.queue = rt.queue /\ rt'.state = rt.state /\ rt'.idleTimer = rt.idleTimer
      /\ rt'.sessionId = rt.sessionId /\ rt'.verify = rt.verify
      /\ rt'.rotateFailed = rt.rotateFailed
  <2>1. rt \in Runtime
    BY <1>1
  <2>2. at \in [Procs -> [life : Lives, sid : Sessions \cup {NoSession}, task : Jobs \cup {None}]]
    BY <1>2
  <2>3. QED
    BY <1>3, <2>1, <2>2 DEF Runtime
<1>5. Pure(rt') /\ Waiting(rt') /\ Dropped(rt') /\ AtRest(rt')
  BY <1>4 DEF RuntimeInv, Sound, Pure, Waiting, Dropped, AtRest
<1>6. \A q \in Procs : Talks(rt', q) <=> Talks(rt, q)
  BY <1>1, <1>2, <1>4 DEF Talks
<1>7. rt.proc # None => rt.proc \in Procs
  BY <1>1, FieldTypes
<1>8. Fenced(rt') /\ Fresh(rt')
  BY <1>1, <1>2, <1>4, <1>6, <1>7 DEF RuntimeInv, Sound, Fenced, Fresh, Talks
<1>9. QED
  BY <1>4, <1>5, <1>8 DEF Keeps, Sound

-----------------------------------------------------------------------------
(* The theorems.                                                           *)

LEMMA NextKeeps == RuntimeInv /\ [Next]_rt => RuntimeInv' /\ (Next => Keeps)
<1> SUFFICES ASSUME RuntimeInv, [Next]_rt PROVE RuntimeInv' /\ (Next => Keeps)
  OBVIOUS
<1>1. Next => Keeps
  <2> SUFFICES ASSUME Next PROVE Keeps
    OBVIOUS
  <2>1. ASSUME NEW j \in Jobs, Send(j) PROVE Keeps
    BY <2>1, SendKeeps
  <2>2. CASE NewSession
    BY <2>2, NewSessionKeeps
  <2>3. CASE Rotate
    BY <2>3, RotateKeeps
  <2>4. CASE RestartFires
    BY <2>4, RestartFiresKeeps
  <2>5. CASE TurnTimesOut
    BY <2>5, TurnTimesOutKeeps
  <2>6. CASE StandDown
    BY <2>6, StandDownKeeps
  <2>7. ASSUME NEW p \in Procs, Hook(p) PROVE Keeps
    BY <2>7, HookKeeps
  <2>8. ASSUME NEW p \in Procs, SystemInit(p) PROVE Keeps
    BY <2>8, SystemInitKeeps
  <2>9. ASSUME NEW p \in Procs, AssistantText(p) PROVE Keeps
    BY <2>9, AssistantTextKeeps
  <2>10. ASSUME NEW p \in Procs, Result(p) PROVE Keeps
    BY <2>10, ResultKeeps
  <2>11. ASSUME NEW p \in Procs, SpawnError(p) PROVE Keeps
    BY <2>11, SpawnErrorKeeps
  <2>12. ASSUME NEW p \in Procs, ExitHeldOpen(p) PROVE Keeps
    BY <2>12, ExitHeldOpenKeeps
  <2>13. ASSUME NEW p \in Procs, Close(p) PROVE Keeps
    BY <2>13, CloseKeeps
  <2>14. QED
    BY <2>1, <2>2, <2>3, <2>4, <2>5, <2>6, <2>7, <2>8, <2>9, <2>10, <2>11, <2>12, <2>13
       DEF Next, Output
<1>2. CASE Next
  BY <1>1, <1>2 DEF Keeps, RuntimeInv
<1>3. CASE UNCHANGED rt
  BY <1>1, <1>3 DEF RuntimeInv
<1>4. QED
  BY <1>1, <1>2, <1>3

(* What the handlers of one agent have in common, whatever the requests,   *)
(* the timers and the output of its processes, old and new.                *)
THEOREM RuntimeInvariant == Spec => []RuntimeInv
<1>1. RuntimeInv /\ [Next]_rt => RuntimeInv'
  BY NextKeeps
<1>2. QED
  BY InitInv, <1>1, PTL DEF Spec

(* Types, and the agent listens to its own process.                        *)
THEOREM RuntimeTypes == Spec => []TypeOK
<1>1. RuntimeInv => TypeOK
  BY DEF RuntimeInv, Sound, Fenced, TypeOK
<1>2. QED
  BY <1>1, RuntimeInvariant, PTL

(* No text of a killed turn, of a replaced process or of a result out of   *)
(* the blue ever gets into a reply.                                        *)
THEOREM RepliesAreClean == Spec => []AnswersAreForTheirJob
<1>1. RuntimeInv => AnswersAreForTheirJob
  BY DEF RuntimeInv, Sound, Pure, AnswersAreForTheirJob
<1>2. QED
  BY <1>1, RuntimeInvariant, PTL

(* Every open promise is that of the turn or of a message in the queue.    *)
THEOREM PromisesAreKept == Spec => []NothingIsForgotten
<1>1. RuntimeInv => NothingIsForgotten
  <2> SUFFICES ASSUME RuntimeInv PROVE NothingIsForgotten
    OBVIOUS
  <2>1. rt \in Runtime
    BY DEF RuntimeInv, Sound
  <2>2. DOMAIN rt.queue = 1..Len(rt.queue)
    BY <2>1, FieldTypes, LenProperties
  <2>3. rt.open = {rt.queue[i] : i \in 1..Len(rt.queue)} \cup ({rt.current} \ {None})
    BY DEF RuntimeInv, Sound, Waiting
  <2>4. QED
    BY <2>2, <2>3 DEF NothingIsForgotten
<1>2. QED
  BY <1>1, RuntimeInvariant, PTL

(* The agent's process is never given a message while it works on another. *)
THEOREM OneTurnAtATime == Spec => []QueueDoesNotInterrupt
<1>1. RuntimeInv => QueueDoesNotInterrupt
  BY PoolAssumption DEF RuntimeInv, Sound, Fenced, QueueDoesNotInterrupt
<1>2. QED
  BY <1>1, RuntimeInvariant, PTL

(* A rotation is never confirmed by the session it leaves.                 *)
THEOREM RotationsLand == Spec => []RotationLands
<1>1. RuntimeInv => RotationLands
  BY DEF RuntimeInv, Sound, Dropped, RotationLands
<1>2. QED
  BY <1>1, RuntimeInvariant, PTL

(* Nothing is waiting when the idle timer can fire.                        *)
THEOREM StandsDownDone == Spec => []StandsDownOnlyWhenDone
<1>1. RuntimeInv => StandsDownOnlyWhenDone
  BY DEF RuntimeInv, AtRest, StandsDownOnlyWhenDone
<1>2. QED
  BY <1>1, RuntimeInvariant, PTL

(* While a rotation waits, no step begins a turn.                          *)
THEOREM RotationComesFirst == Spec => RotatesBeforeNextTurn
<1>1. RuntimeInv /\ [Next]_rt => [rt.pendingRotate => rt'.current \in {None, rt.current}]_rt
  <2>1. Keeps => (rt.pendingRotate => rt'.current \in {None, rt.current})
    BY DEF Keeps
  <2>2. QED
    BY <2>1, NextKeeps
<1>2. QED
  BY <1>1, RuntimeInvariant, PTL DEF Spec, RotatesBeforeNextTurn
=============================================================================
