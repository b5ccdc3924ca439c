--------------------------- MODULE DispatchProofs ---------------------------
(***************************************************************************)
(* Theorems of Dispatch, for any agents, dispatches, sockets and bounds.   *)
(* Most steps of the server do one of two things to the calls it keeps:    *)
(* they settle some, or they settle some and begin another.  `Settled' and *)
(* `Begun' say what each leaves, and the invariants are shown of them once.*)
(***************************************************************************)
EXTENDS Dispatch, TLAPS

Fresh(w, a) == w # None => order.status = w /\ OwnerOf(order) = a

Settled(S) ==
  /\ job' = [k \in Ids |-> IF k \in S THEN Over ELSE job[k]]
  /\ Exchange(S, {}, None)

BeginsAs(S, i, new, c) ==
  /\ job[i].stage = "none" /\ i \notin S
  /\ new.stage \in {"queued", "waiting", "sent", "ended"}
  /\ new.stage = "sent" =>
       c \in Conns /\ server[c] = "open" /\ Fresh(new.wake, new.target)
  /\ job' = [k \in Ids |-> IF k = i THEN new ELSE IF k \in S THEN Over ELSE job[k]]
  /\ Exchange(S, IF new.stage = "sent" THEN {i} ELSE {}, c)
Begun(S) == \E i \in Ids, new \in Job, c \in Conns \cup {None} : BeginsAs(S, i, new, c)

(* The two ways a call may look at the end.                                *)
LEMMA JobFields ==
  ASSUME TypeOK, NEW i \in Ids
  PROVE  /\ job[i] \in Job /\ job[i].stage \in Stages
         /\ job[i].target \in Agents \cup {None}
         /\ job[i].wake \in STATES \cup {None}
  BY DEF TypeOK, Job

LEMMA OverIsJob == Over \in Job /\ NoJob \in Job /\ Over.stage = "ended" /\ Over.wake = None
  BY DEF Over, NoJob, Job, Stages

(* dispatchTo begins a call, or ends it at once.                           *)
LEMMA StartBegins ==
  ASSUME TypeOK, NEW i \in Ids, NEW a \in Agents, NEW w \in STATES \cup {None},
         NEW re \in BOOLEAN, NEW S \in SUBSET Ids, i \notin S,
         NEW before, before = [k \in Ids |-> IF k \in S THEN Over ELSE job[k]],
         Start(i, a, w, re, S, before)
  PROVE  Begun(S)
<1> DEFINE stale == w # None /\ Skip(order, w, a)
           stage == CASE Transport[a] = "terminal" -> "ended"
                      [] Transport[a] = "local" -> "queued"
                      [] Transport[a] = "remote" ->
                           IF stale THEN "ended"
                           ELSE IF route[a] # None THEN "sent" ELSE "waiting"
           call == [stage |-> stage, target |-> a, wake |-> w, reDispatch |-> re]
           new  == IF stage = "ended" THEN Over ELSE call
<1>1. stage \in {"queued", "waiting", "sent", "ended"}
  BY Transports
<1>2. stage = "sent" => ~stale /\ route[a] # None
  BY Transports
<1>3. new \in Job /\ new.stage = stage
  BY <1>1, OverIsJob DEF Job, Stages
<1>4. stage = "sent" => new.wake = w /\ new.target = a
  OBVIOUS
<1>5. job[i].stage = "none" /\ job' = [before EXCEPT ![i] = new]
      /\ Exchange(S, IF stage = "sent" THEN {i} ELSE {}, route[a])
  BY DEF Start
<1>6. stage = "sent" => route[a] \in Conns /\ server[route[a]] = "open"
  BY <1>2 DEF TypeOK
<1>7. stage = "sent" => Fresh(w, a)
  BY <1>2 DEF Fresh, Skip
<1>8. route[a] \in Conns \cup {None}
  BY DEF TypeOK
<1>9. BeginsAs(S, i, new, route[a])
  <2> HIDE DEF stage, call, new
  <2> QED
    BY <1>1, <1>3, <1>4, <1>5, <1>6, <1>7 DEF BeginsAs
<1> QED
  BY <1>3, <1>8, <1>9 DEF Begun

(* A reply settles its call and may begin one more.                        *)
LEMMA AnsweredSettles ==
  ASSUME TypeOK, NEW i \in Ids, NEW m \in Agents \cup {None}, NEW k \in Ids,
         job[i].stage # "none", Answered(i, m, k)
  PROVE  Settled({i}) \/ Begun({i})
<1>1. End(i) = [x \in Ids |-> IF x \in {i} THEN Over ELSE job[x]]
  BY DEF TypeOK, End
<1>2. CASE m # None /\ Chains(i)
  <2>1. m \in Agents /\ Start(k, m, None, ChildReDispatch, {i}, End(i))
    BY <1>2 DEF Answered
  <2>2. k \notin {i}
    BY <2>1 DEF Start
  <2>3. ChildReDispatch \in BOOLEAN /\ {i} \in SUBSET Ids
    BY DEF ChildReDispatch
  <2> QED
    BY <1>1, <2>1, <2>2, <2>3, StartBegins
<1>3. CASE ~(m # None /\ Chains(i))
  BY <1>1, <1>3 DEF Answered, Settled
<1> QED
  BY <1>2, <1>3

LEMMA FailedSettles ==
  ASSUME TypeOK, NEW i \in Ids, Failed(i)
  PROVE  Settled({i})
  BY DEF TypeOK, Failed, End, Settled
-----------------------------------------------------------------------------
(* What settling and beginning do to the calls and to what waits.          *)
LEMMA SettledTypes ==
  ASSUME TypeOK, NEW S \in SUBSET Ids, Settled(S)
  PROVE  /\ job' \in [Ids -> Job]
         /\ pending' \in [Conns -> SUBSET Ids] /\ toWorker' \in [Conns -> SUBSET Ids]
  BY OverIsJob DEF TypeOK, Settled, Exchange

LEMMA BegunTypes ==
  ASSUME TypeOK, NEW S \in SUBSET Ids, Begun(S)
  PROVE  /\ job' \in [Ids -> Job]
         /\ pending' \in [Conns -> SUBSET Ids] /\ toWorker' \in [Conns -> SUBSET Ids]
  BY OverIsJob DEF TypeOK, Begun, BeginsAs, Exchange

LEMMA SettledHangs ==
  ASSUME TypeOK, NothingHangs, NEW S \in SUBSET Ids, Settled(S), server' = server
  PROVE  NothingHangs'
<1>1. \A x \in Conns : pending'[x] = pending[x] \ S
  BY DEF Settled, Exchange
<1>2. \A i \in Ids \ S : job'[i] = job[i]
  BY DEF Settled
<1>3. \A i \in S : job'[i].stage = "ended"
  BY OverIsJob DEF Settled
<1> QED
  BY <1>1, <1>2, <1>3 DEF NothingHangs

LEMMA BegunHangs ==
  ASSUME TypeOK, NothingHangs, NEW S \in SUBSET Ids, Begun(S), server' = server
  PROVE  NothingHangs'
<1>1. PICK i \in Ids, new \in Job, c \in Conns \cup {None} : BeginsAs(S, i, new, c)
  BY DEF Begun
<1>2. \A x \in Conns : pending'[x] = (pending[x] \ S) \cup
        (IF x = c THEN IF new.stage = "sent" THEN {i} ELSE {} ELSE {})
  BY <1>1 DEF BeginsAs, Exchange
<1>3. \A k \in Ids \ (S \cup {i}) : job'[k] = job[k]
  BY <1>1 DEF BeginsAs
<1>4. \A k \in S : job'[k].stage = "ended"
  BY <1>1, OverIsJob DEF BeginsAs
<1>5. job'[i] = new /\ i \notin S /\ \A x \in Conns : i \notin pending[x]
  BY <1>1 DEF BeginsAs, NothingHangs
<1>6. new.stage = "sent" => c \in Conns /\ server[c] = "open"
  BY <1>1 DEF BeginsAs
<1>7. \A k \in Ids \ {i} : \A x \in Conns : k \in pending'[x] <=> k \in pending[x] \ S
  BY <1>2
<1>8. \A x \in Conns : i \in pending'[x] <=> x = c /\ new.stage = "sent"
  BY <1>2, <1>5
<1>9. ASSUME NEW k \in Ids \ {i}
      PROVE  /\ job'[k].stage = "sent" =>
                  \E x \in Conns : k \in pending'[x] /\ server'[x] = "open"
             /\ \A x, y \in Conns : k \in pending'[x] =>
                  job'[k].stage = "sent" /\ (k \in pending'[y] => y = x)
  BY <1>3, <1>4, <1>7, <1>9 DEF NothingHangs
<1>10. /\ job'[i].stage = "sent" =>
            \E x \in Conns : i \in pending'[x] /\ server'[x] = "open"
       /\ \A x, y \in Conns : i \in pending'[x] =>
            job'[i].stage = "sent" /\ (i \in pending'[y] => y = x)
  BY <1>5, <1>6, <1>8
<1> QED
  BY <1>9, <1>10 DEF NothingHangs

(* What has not been handed over has no copy anywhere, and what has been   *)
(* sent has one, at most, until somebody takes it up.                      *)
Untouched ==
  \A i \in Ids : job[i].stage \in {"none", "queued", "waiting"} =>
    taken[i] = 0 /\ \A c \in Conns : i \notin toWorker[c]
OneCopy ==
  \A i \in Ids, c \in Conns : i \in toWorker[c] =>
    taken[i] = 0 /\ \A x \in Conns : i \in toWorker[x] => x = c

LEMMA SettledOnce ==
  ASSUME TypeOK, Untouched, OneCopy, NEW S \in SUBSET Ids, Settled(S), taken' = taken
  PROVE  Untouched' /\ OneCopy'
<1>1. \A x \in Conns : toWorker'[x] = toWorker[x]
  BY NoneIsNobody DEF Settled, Exchange, TypeOK
<1>2. \A i \in Ids \ S : job'[i] = job[i]
  BY DEF Settled
<1>3. \A i \in S : job'[i].stage = "ended"
  BY OverIsJob DEF Settled
<1>4. Untouched'
  BY <1>1, <1>2, <1>3 DEF Untouched
<1>5. OneCopy'
  BY <1>1 DEF OneCopy
<1> QED
  BY <1>4, <1>5

LEMMA BegunOnce ==
  ASSUME TypeOK, Untouched, OneCopy, NEW S \in SUBSET Ids, Begun(S), taken' = taken
  PROVE  Untouched' /\ OneCopy'
<1>1. PICK i \in Ids, new \in Job, c \in Conns \cup {None} : BeginsAs(S, i, new, c)
  BY DEF Begun
<1>2. \A x \in Conns : \A k \in toWorker'[x] :
        k \in toWorker[x] \/ (x = c /\ k = i /\ new.stage = "sent")
  BY <1>1 DEF BeginsAs, Exchange
<1>3. \A k \in Ids \ (S \cup {i}) : job'[k] = job[k]
  BY <1>1 DEF BeginsAs
<1>4. \A k \in S : job'[k].stage = "ended"
  BY <1>1, OverIsJob DEF BeginsAs
<1>5. job'[i] = new /\ taken[i] = 0 /\ \A x \in Conns : i \notin toWorker[x]
  BY <1>1 DEF BeginsAs, Untouched
<1>6. Untouched'
  BY <1>2, <1>3, <1>4, <1>5 DEF Untouched
<1>7. OneCopy'
  BY <1>2, <1>5 DEF OneCopy
<1> QED
  BY <1>6, <1>7
-----------------------------------------------------------------------------
(* Types.                                                                  *)

(* The worker has sockets only while it remembers the last.                *)
Dialled == \A c \in Conns : worker[c] \in {"connecting", "open"} => ws # None

Types == TypeOK /\ Dialled

(* Nothing but what calls write changes.                                   *)
LEMMA CallsKeepTypes ==
  ASSUME Types, NEW S \in SUBSET Ids, Settled(S) \/ Begun(S),
         UNCHANGED <<order, route, server, worker, registered, hello, ws,
                     retries, running, taken>>,
         toServer' \in [Conns -> SUBSET Answer]
  PROVE  Types'
<1>1. /\ job' \in [Ids -> Job]
      /\ pending' \in [Conns -> SUBSET Ids] /\ toWorker' \in [Conns -> SUBSET Ids]
  BY SettledTypes, BegunTypes DEF Types
<1> QED
  BY <1>1 DEF Types, TypeOK, Dialled

LEMMA RequestsKeepTypes ==
  ASSUME Types, NEW i \in Ids, NEW a \in Agents,
         DispatchChat(i, a) \/ DispatchWake(i, a)
  PROVE  Types' /\ Begun({}) /\ UNCHANGED <<order, server, taken>>
<1>1. PICK w \in STATES \cup {None}, re \in BOOLEAN : Start(i, a, w, re, {}, job)
  <2>1. order.status \in STATES
    BY DEF Types, TypeOK
  <2> QED
    BY <2>1 DEF DispatchChat, DispatchWake
<1>2. job = [k \in Ids |-> IF k \in {} THEN Over ELSE job[k]]
  BY DEF Types, TypeOK
<1>3. Begun({})
  BY <1>1, <1>2, StartBegins DEF Types
<1>4. UNCHANGED <<order, route, sockets, running, taken>>
  BY DEF DispatchChat, DispatchWake
<1>5. toServer' \in [Conns -> SUBSET Answer]
  BY <1>4 DEF sockets, Types, TypeOK
<1> QED
  BY <1>3, <1>4, <1>5, CallsKeepTypes DEF sockets

LEMMA LocalsKeepTypes ==
  ASSUME Types, NEW i \in Ids, RuntimeTakes(i)
  PROVE  Types'
<1>1. CASE Stale(i)
  <2>1. job' \in [Ids -> Job]
    BY <1>1, OverIsJob DEF RuntimeTakes, End, Types, TypeOK
  <2> QED
    BY <1>1, <2>1 DEF RuntimeTakes, Types, TypeOK, Dialled, sockets
<1>2. CASE ~Stale(i)
  <2>1. job' \in [Ids -> Job]
    BY <1>2, JobFields DEF RuntimeTakes, Move, Types, TypeOK, Job, Stages
  <2>2. taken' \in [Ids -> Nat]
    BY <1>2 DEF RuntimeTakes, Types, TypeOK
  <2> QED
    BY <1>2, <2>1, <2>2 DEF RuntimeTakes, Types, TypeOK, Dialled, sockets
<1> QED
  BY <1>1, <1>2

LEMMA RuntimeSettlesCalls ==
  ASSUME Types, NEW i \in Ids, NEW m \in Agents \cup {None}, NEW k \in Ids,
         RuntimeSettles(i, m, k)
  PROVE  Types' /\ (Settled({i}) \/ Begun({i})) /\ UNCHANGED <<order, server, taken>>
<1>1. Settled({i}) \/ Begun({i})
  BY AnsweredSettles, FailedSettles DEF RuntimeSettles, Types
<1>2. UNCHANGED <<order, route, sockets, running, taken>>
  BY DEF RuntimeSettles
<1>3. toServer' \in [Conns -> SUBSET Answer]
  BY <1>2 DEF sockets, Types, TypeOK
<1> QED
  BY <1>1, <1>2, <1>3, CallsKeepTypes DEF sockets

LEMMA HangTimeoutSettles ==
  ASSUME Types, NEW i \in Ids, NEW c \in Conns, HangTimeout(c, i)
  PROVE  Types' /\ Settled({i}) /\ UNCHANGED <<order, server, taken>>
<1>1. Settled({i})
  BY FailedSettles DEF HangTimeout, Types
<1>2. UNCHANGED <<order, route, sockets, running, taken>>
  BY DEF HangTimeout
<1>3. toServer' \in [Conns -> SUBSET Answer]
  BY <1>2 DEF sockets, Types, TypeOK
<1> QED
  BY <1>1, <1>2, <1>3, CallsKeepTypes DEF sockets

LEMMA AnswersSettleCalls ==
  ASSUME Types, NothingHangs, NEW c \in Conns, NEW a \in Answer,
         NEW m \in Agents \cup {None}, NEW k \in Ids,
         ReplyArrives(c, a, m, k) \/ ErrorArrives(c, a)
  PROVE  /\ Types' /\ (Settled({a.id}) \/ Begun({a.id}))
         /\ UNCHANGED <<order, server, taken>>
<1>1. a.id \in Ids /\ a.id \in pending[c] /\ Arrives(c, a)
  BY DEF ReplyArrives, ErrorArrives, Answer
<1>2. job[a.id].stage # "none"
  BY <1>1 DEF NothingHangs
<1>3. Settled({a.id}) \/ Begun({a.id})
  BY <1>1, <1>2, AnsweredSettles, FailedSettles DEF ReplyArrives, ErrorArrives, Types
<1>4. toServer' \in [Conns -> SUBSET Answer]
  BY <1>1 DEF Arrives, Types, TypeOK
<1> QED
  BY <1>1, <1>3, <1>4, CallsKeepTypes DEF Arrives

LEMMA OrdersKeepTypes ==
  ASSUME Types, Orders
  PROVE  Types'
<1>1. order' \in [status : STATES, from : STATES \cup {None}, assignee : Agents]
  <2>1. ASSUME NEW s \in Walk, OrderMoves(s)
        PROVE  order' \in [status : STATES, from : STATES \cup {None}, assignee : Agents]
    <3>1. s \in STATES /\ order.status \in STATES
      BY <2>1 DEF OrderMoves, Types, TypeOK, STATES, TRANSITIONS, ResumeTargets
    <3> QED
      BY <2>1, <3>1 DEF OrderMoves, Types, TypeOK
  <2>2. ASSUME NEW a \in Agents, OrderChangesHands(a)
        PROVE  order' \in [status : STATES, from : STATES \cup {None}, assignee : Agents]
    BY <2>2 DEF OrderChangesHands, Types, TypeOK
  <2> QED
    BY <2>1, <2>2 DEF Orders
<1>2. UNCHANGED <<job, route, sockets, pending, toWorker, running, taken>>
  BY DEF Orders, OrderMoves, OrderChangesHands
<1> QED
  BY <1>1, <1>2 DEF Types, TypeOK, Dialled, sockets

LEMMA SocketsKeepTypes ==
  ASSUME Types, NEW c \in Conns,
         Connect(c) \/ Accept(c) \/ Refuse(c) \/ WorkerLoses(c)
  PROVE  Types'
<1>1. CASE Connect(c)
  BY <1>1, NoneIsNobody DEF Connect, Types, TypeOK, Dialled
<1>2. CASE Accept(c)
  BY <1>2 DEF Accept, Types, TypeOK, Dialled
<1>3. CASE Refuse(c)
  BY <1>3 DEF Refuse, Types, TypeOK, Dialled
<1>4. CASE WorkerLoses(c)
  BY <1>4 DEF WorkerLoses, Types, TypeOK, Dialled
<1> QED
  BY <1>1, <1>2, <1>3, <1>4

LEMMA ServerLosesKeepsTypes ==
  ASSUME Types, NEW c \in Conns, ServerLoses(c)
  PROVE  Types'
<1>1. job' \in [Ids -> Job]
  BY OverIsJob DEF ServerLoses, Types, TypeOK
<1>2. route' \in [Agents -> Conns \cup {None}]
      /\ \A a \in Agents : route'[a] # None =>
           server'[route'[a]] = "open" /\ a \in registered'[route'[a]]
  BY DEF ServerLoses, Unregistered, Types, TypeOK
<1> QED
  BY <1>1, <1>2 DEF ServerLoses, Types, TypeOK, Dialled

LEMMA RegisterKeepsTypes ==
  ASSUME Types, NEW c \in Conns, Register(c)
  PROVE  Types'
<1>1. job' \in [Ids -> Job]
  BY OverIsJob, JobFields DEF Register, Types, TypeOK, Job, Stages
<1>2. pending' \in [Conns -> SUBSET Ids] /\ toWorker' \in [Conns -> SUBSET Ids]
  BY DEF Register, Exchange, Woken, Types, TypeOK
<1>3. Remotes \subseteq Agents
  BY DEF Remotes
<1>4. route' \in [Agents -> Conns \cup {None}] /\ registered' \in [Conns -> SUBSET Remotes]
  BY <1>3 DEF Register, Types, TypeOK
<1>5. \A a \in Agents : route'[a] # None =>
        server'[route'[a]] = "open" /\ a \in registered'[route'[a]]
  <2>1. server' = server /\ server[c] = "open"
    BY DEF Register
  <2>2. \A a \in Remotes : route'[a] = c
    BY <1>3 DEF Register
  <2>3. \A a \in Agents \ Remotes : route'[a] = route[a]
    BY DEF Register
  <2>4. registered'[c] = Remotes /\ \A x \in Conns \ {c} : registered'[x] = registered[x]
    BY DEF Register, Types, TypeOK
  <2>5. \A a \in Agents \ Remotes : route[a] = None
    BY DEF Types, TypeOK
  <2> QED
    BY <2>1, <2>2, <2>3, <2>4, <2>5 DEF Types, TypeOK
<1> QED
  BY <1>1, <1>2, <1>4, <1>5 DEF Register, Types, TypeOK, Dialled

LEMMA WorkerKeepsTypes ==
  ASSUME Types, Turns \/ (\E c \in Conns, i \in Ids : WorkerTakes(c, i))
                      \/ (\E c \in Conns, a \in Answer : LateAnswer(c, a))
  PROVE  Types'
<1>1. ASSUME NEW i \in Ids, NEW ok \in BOOLEAN, TurnEnds(i, ok)
      PROVE  Types'
  <2>1. ws \in Conns
    BY <1>1 DEF TurnEnds, Types, TypeOK
  <2>2. [id |-> i, ok |-> ok] \in Answer
    BY DEF Answer
  <2>3. toServer' \in [Conns -> SUBSET Answer]
    BY <1>1, <2>1, <2>2 DEF TurnEnds, Types, TypeOK
  <2> QED
    BY <1>1, <2>3 DEF TurnEnds, Types, TypeOK, Dialled
<1>2. CASE WorkerDies
  BY <1>2 DEF WorkerDies, Types, TypeOK, Dialled
<1>3. CASE WorkerStarts
  BY <1>3 DEF WorkerStarts, Types, TypeOK, Dialled
<1>4. ASSUME NEW c \in Conns, NEW i \in Ids, WorkerTakes(c, i)
      PROVE  Types'
  BY <1>4 DEF WorkerTakes, sockets, Types, TypeOK, Dialled
<1>5. ASSUME NEW c \in Conns, NEW a \in Answer, LateAnswer(c, a)
      PROVE  Types'
  BY <1>5 DEF LateAnswer, Arrives, Types, TypeOK, Dialled
<1> QED
  BY <1>1, <1>2, <1>3, <1>4, <1>5 DEF Turns

LEMMA WaitKeepsTypes ==
  ASSUME Types, NEW i \in Ids, WaitTimesOut(i)
  PROVE  Types'
<1>1. job' \in [Ids -> Job]
  BY OverIsJob DEF WaitTimesOut, End, Types, TypeOK
<1> QED
  BY <1>1 DEF WaitTimesOut, sockets, Types, TypeOK, Dialled
-----------------------------------------------------------------------------
(* Every step, as the invariants see it: calls are settled or begun, or    *)
(* one of the other actions is taken.                                      *)
Calls == /\ \E S \in SUBSET Ids : Settled(S) \/ Begun(S)
         /\ UNCHANGED <<order, server, taken>>

Others ==
  \/ Orders \/ Turns
  \/ \E i \in Ids : RuntimeTakes(i) \/ WaitTimesOut(i)
  \/ \E c \in Conns :
       \/ Connect(c) \/ Accept(c) \/ Refuse(c) \/ WorkerLoses(c)
       \/ ServerLoses(c) \/ Register(c)
       \/ \E i \in Ids : WorkerTakes(c, i)
       \/ \E a \in Answer : LateAnswer(c, a)

LEMMA EveryStep ==
  ASSUME Types, NothingHangs, Next
  PROVE  Types' /\ (Calls \/ Others)
<1>1. CASE Requests
  BY <1>1, RequestsKeepTypes DEF Requests, Calls
<1>2. CASE Locals
  BY <1>2, LocalsKeepTypes, RuntimeSettlesCalls DEF Locals, Calls, Others
<1>3. CASE Timers
  BY <1>3, WaitKeepsTypes, HangTimeoutSettles DEF Timers, Calls, Others
<1>4. CASE Sockets
  <2>1. PICK c \in Conns :
          \/ Connect(c) \/ Accept(c) \/ Refuse(c) \/ WorkerLoses(c)
          \/ ServerLoses(c) \/ Register(c)
          \/ \E i \in Ids : WorkerTakes(c, i)
          \/ \E a \in Answer :
               \/ ErrorArrives(c, a) \/ LateAnswer(c, a)
               \/ \E m \in Agents \cup {None}, k \in Ids : ReplyArrives(c, a, m, k)
    BY <1>4 DEF Sockets
  <2>2. ASSUME NEW a \in Answer, NEW m \in Agents \cup {None}, NEW k \in Ids,
               ReplyArrives(c, a, m, k) \/ ErrorArrives(c, a)
        PROVE  Types' /\ Calls
    <3>1. a.id \in Ids
      BY DEF Answer
    <3> QED
      BY <2>2, <3>1, AnswersSettleCalls DEF Calls
  <2>3. ASSUME NEW a \in Answer, ErrorArrives(c, a)
        PROVE  Types' /\ Calls
    <3>1. PICK k \in Ids : k = a.id
      BY DEF Answer
    <3> QED
      BY <2>2, <2>3, <3>1
  <2> QED
    BY <2>1, <2>2, <2>3, SocketsKeepTypes, ServerLosesKeepsTypes,
       RegisterKeepsTypes, WorkerKeepsTypes DEF Others
<1>5. CASE Turns
  BY <1>5, WorkerKeepsTypes DEF Others
<1>6. CASE Orders
  BY <1>6, OrdersKeepTypes DEF Others
<1> QED
  BY <1>1, <1>2, <1>3, <1>4, <1>5, <1>6 DEF Next
-----------------------------------------------------------------------------
(* The promises.                                                           *)
LEMMA HangsKept ==
  ASSUME Types, NothingHangs, Next
  PROVE  NothingHangs'
<1>1. CASE Calls
  BY <1>1, SettledHangs, BegunHangs DEF Calls, Types
<1>2. ASSUME UNCHANGED <<pending, server>>,
             \A i \in Ids : job'[i].stage = "sent" <=> job[i].stage = "sent"
      PROVE  NothingHangs'
  BY <1>2 DEF NothingHangs
<1>3. CASE Orders
  BY <1>2, <1>3 DEF Orders, OrderMoves, OrderChangesHands, sockets
<1>4. CASE Turns
  BY <1>2, <1>4 DEF Turns, TurnEnds, WorkerDies, WorkerStarts
<1>5. ASSUME NEW i \in Ids, RuntimeTakes(i) \/ WaitTimesOut(i)
      PROVE  NothingHangs'
  <2>1. UNCHANGED <<pending, server>>
    BY <1>5 DEF RuntimeTakes, WaitTimesOut, sockets
  <2>2. job[i].stage \in {"queued", "waiting"}
    BY <1>5 DEF RuntimeTakes, WaitTimesOut
  <2>3. job'[i].stage \in {"turn", "ended"} /\ \A k \in Ids \ {i} : job'[k] = job[k]
    BY <1>5, OverIsJob DEF RuntimeTakes, WaitTimesOut, End, Move, Types, TypeOK, Job
  <2> QED
    BY <1>2, <2>1, <2>2, <2>3
<1>6. ASSUME NEW c \in Conns, Connect(c) \/ Refuse(c) \/ WorkerLoses(c)
      PROVE  NothingHangs'
  BY <1>2, <1>6 DEF Connect, Refuse, WorkerLoses
<1>7. ASSUME NEW c \in Conns, Accept(c)
      PROVE  NothingHangs'
  BY <1>7 DEF Accept, NothingHangs, Types, TypeOK
<1>8. ASSUME NEW c \in Conns, ServerLoses(c)
      PROVE  NothingHangs'
  <2>1. pending'[c] = {} /\ \A x \in Conns \ {c} : pending'[x] = pending[x] /\ server'[x] = server[x]
    BY <1>8 DEF ServerLoses, Types, TypeOK
  <2>2. \A i \in pending[c] : job'[i].stage = "ended"
    BY <1>8, OverIsJob DEF ServerLoses, Rejected, Types, TypeOK
  <2>3. \A i \in Ids \ pending[c] : job'[i] = job[i]
    BY <1>8 DEF ServerLoses, Rejected
  <2> QED
    BY <2>1, <2>2, <2>3 DEF NothingHangs
<1>9. ASSUME NEW c \in Conns, Register(c)
      PROVE  NothingHangs'
  <2> DEFINE on == {i \in Woken : ~Stale(i)}
  <2>1. server' = server /\ server[c] = "open"
    BY <1>9 DEF Register
  <2>2. \A x \in Conns : pending'[x] = pending[x] \cup (IF x = c THEN on ELSE {})
    BY <1>9 DEF Register, Exchange
  <2>3. \A i \in Ids \ Woken : job'[i] = job[i]
    BY <1>9 DEF Register
  <2>4. \A i \in on : i \in Ids /\ job'[i].stage = "sent"
    BY <1>9, JobFields DEF Register, Woken, Types, Job
  <2>5. \A i \in Woken \ on : job'[i].stage = "ended"
    BY <1>9, OverIsJob DEF Register, Woken
  <2>6. \A i \in Woken : i \in Ids /\ \A x \in Conns : i \notin pending[x]
    BY DEF Woken, NothingHangs
  <2> QED
    BY <2>1, <2>2, <2>3, <2>4, <2>5, <2>6 DEF NothingHangs
<1>10. ASSUME NEW c \in Conns, NEW i \in Ids, WorkerTakes(c, i)
       PROVE  NothingHangs'
  BY <1>2, <1>10 DEF WorkerTakes, sockets
<1>11. ASSUME NEW c \in Conns, NEW a \in Answer, LateAnswer(c, a)
       PROVE  NothingHangs'
  BY <1>2, <1>11 DEF LateAnswer, Arrives
<1> QED
  BY EveryStep, <1>1, <1>3, <1>4, <1>5, <1>6, <1>7, <1>8, <1>9, <1>10, <1>11 DEF Others
-----------------------------------------------------------------------------
(* The copies.                                                             *)
Once == Untouched /\ OneCopy /\ TakenOnce

LEMMA OnceKept ==
  ASSUME Types, NothingHangs, Once, Next
  PROVE  Once'
<1>1. CASE Calls
  BY <1>1, SettledOnce, BegunOnce DEF Calls, Types, Once, TakenOnce
<1>2. ASSUME taken' = taken,
             \A x \in Conns : toWorker'[x] \subseteq toWorker[x],
             \A i \in Ids : job'[i] = job[i] \/ job'[i].stage = "ended"
      PROVE  Once'
  BY <1>2 DEF Once, Untouched, OneCopy, TakenOnce
<1>3. CASE Orders
  BY <1>2, <1>3 DEF Orders, OrderMoves, OrderChangesHands
<1>4. CASE Turns
  BY <1>2, <1>4 DEF Turns, TurnEnds, WorkerDies, WorkerStarts
<1>5. ASSUME NEW i \in Ids, WaitTimesOut(i)
      PROVE  Once'
  BY <1>2, <1>5, OverIsJob DEF WaitTimesOut, End, Types, TypeOK
<1>6. ASSUME NEW i \in Ids, RuntimeTakes(i)
      PROVE  Once'
  <2>1. CASE Stale(i)
    BY <1>2, <1>6, <2>1, OverIsJob DEF RuntimeTakes, End, Types, TypeOK
  <2>2. CASE ~Stale(i)
    <3>1. job[i].stage = "queued" /\ toWorker' = toWorker
      BY <1>6 DEF RuntimeTakes
    <3>2. taken[i] = 0 /\ \A c \in Conns : i \notin toWorker[c]
      BY <3>1 DEF Once, Untouched
    <3>3. taken'[i] = 1 /\ \A k \in Ids \ {i} : taken'[k] = taken[k]
      BY <1>6, <2>2, <3>2 DEF RuntimeTakes, Types, TypeOK
    <3>4. job'[i].stage = "turn" /\ \A k \in Ids \ {i} : job'[k] = job[k]
      BY <1>6, <2>2 DEF RuntimeTakes, Move, Types, TypeOK, Job
    <3> QED
      BY <3>1, <3>2, <3>3, <3>4 DEF Once, Untouched, OneCopy, TakenOnce
  <2> QED
    BY <2>1, <2>2
<1>7. ASSUME NEW c \in Conns,
             Connect(c) \/ Accept(c) \/ Refuse(c) \/ WorkerLoses(c)
      PROVE  Once'
  BY <1>2, <1>7 DEF Connect, Accept, Refuse, WorkerLoses, Types, TypeOK
<1>8. ASSUME NEW c \in Conns, ServerLoses(c)
      PROVE  Once'
  BY <1>2, <1>8, OverIsJob DEF ServerLoses
<1>9. ASSUME NEW c \in Conns, Register(c)
      PROVE  Once'
  <2> DEFINE on == {i \in Woken : ~Stale(i)}
  <2>1. \A x \in Conns : \A i \in toWorker'[x] :
          i \in toWorker[x] \/ (x = c /\ i \in on)
    BY <1>9 DEF Register, Exchange
  <2>2. taken' = taken
    BY <1>9 DEF Register
  <2>3. \A i \in Ids \ Woken : job'[i] = job[i]
    BY <1>9 DEF Register
  <2>4. \A i \in Woken : i \in Ids /\ job'[i].stage \in {"sent", "ended"}
    BY <1>9, JobFields, OverIsJob DEF Register, Woken, Types, Job
  <2>5. \A i \in Woken : taken[i] = 0 /\ \A x \in Conns : i \notin toWorker[x]
    BY DEF Woken, Once, Untouched
  <2>6. \A i \in on : i \in Woken
    OBVIOUS
  <2>7. Untouched'
    BY <2>1, <2>2, <2>3, <2>4, <2>6 DEF Once, Untouched
  <2>8. OneCopy'
    BY <2>1, <2>2, <2>5, <2>6 DEF Once, OneCopy
  <2>9. TakenOnce'
    BY <2>2 DEF Once, TakenOnce
  <2> QED
    BY <2>7, <2>8, <2>9 DEF Once
<1>10. ASSUME NEW c \in Conns, NEW i \in Ids, WorkerTakes(c, i)
       PROVE  Once'
  <2>1. taken[i] = 0 /\ \A x \in Conns : i \in toWorker[x] => x = c
    BY <1>10 DEF WorkerTakes, Once, OneCopy
  <2>2. taken'[i] = 1 /\ \A k \in Ids \ {i} : taken'[k] = taken[k]
    BY <1>10, <2>1 DEF WorkerTakes, Types, TypeOK
  <2>3. toWorker'[c] = toWorker[c] \ {i} /\ \A x \in Conns \ {c} : toWorker'[x] = toWorker[x]
    BY <1>10 DEF WorkerTakes, Types, TypeOK
  <2>4. job' = job /\ job[i].stage \notin {"none", "queued", "waiting"}
    BY <1>10 DEF WorkerTakes, Once, Untouched
  <2>5. \A x \in Conns : i \notin toWorker'[x]
    BY <2>1, <2>3
  <2>6. \A k \in Ids \ {i} : \A x \in Conns : k \in toWorker'[x] <=> k \in toWorker[x]
    BY <2>3
  <2>7. Untouched'
    BY <2>2, <2>4, <2>6 DEF Once, Untouched
  <2>8. OneCopy'
    BY <2>2, <2>5, <2>6 DEF Once, OneCopy
  <2>9. TakenOnce'
    BY <2>2 DEF Once, TakenOnce
  <2> QED
    BY <2>7, <2>8, <2>9 DEF Once
<1>11. ASSUME NEW c \in Conns, NEW a \in Answer, LateAnswer(c, a)
       PROVE  Once'
  BY <1>2, <1>11 DEF LateAnswer, Arrives
<1> QED
  BY EveryStep, <1>1, <1>3, <1>4, <1>5, <1>6, <1>7, <1>8, <1>9, <1>10, <1>11 DEF Others
-----------------------------------------------------------------------------
(* What is handed over.                                                    *)
FreshNow ==
  \A i \in Ids : HandedOver(i) /\ job'[i].wake # None =>
    order.status = job'[i].wake /\ OwnerOf(order) = job'[i].target

LEMMA HandsOverFresh ==
  ASSUME Types, NothingHangs, Next
  PROVE  FreshNow
<1>1. CASE Calls
  <2>1. PICK S \in SUBSET Ids : Settled(S) \/ Begun(S)
    BY <1>1 DEF Calls
  <2>2. CASE Settled(S)
    BY <2>2, OverIsJob DEF Settled, FreshNow, HandedOver
  <2>3. CASE Begun(S)
    <3>1. PICK i \in Ids, new \in Job, c \in Conns \cup {None} : BeginsAs(S, i, new, c)
      BY <2>3 DEF Begun
    <3>2. job'[i] = new /\ new.stage # "turn"
          /\ (new.stage = "sent" => Fresh(new.wake, new.target))
      BY <3>1 DEF BeginsAs
    <3>3. \A k \in Ids \ {i} : job'[k] = job[k] \/ job'[k].stage = "ended"
      BY <3>1, OverIsJob DEF BeginsAs
    <3> QED
      BY <3>2, <3>3 DEF FreshNow, HandedOver, Fresh
  <2> QED
    BY <2>1, <2>2, <2>3
<1>2. ASSUME \A i \in Ids : job'[i] = job[i] \/ job'[i].stage = "ended"
      PROVE  FreshNow
  BY <1>2 DEF FreshNow, HandedOver
<1>3. CASE Orders
  BY <1>2, <1>3 DEF Orders, OrderMoves, OrderChangesHands
<1>4. CASE Turns
  BY <1>2, <1>4 DEF Turns, TurnEnds, WorkerDies, WorkerStarts
<1>5. ASSUME NEW i \in Ids, WaitTimesOut(i)
      PROVE  FreshNow
  BY <1>2, <1>5, OverIsJob DEF WaitTimesOut, End, Types, TypeOK
<1>6. ASSUME NEW i \in Ids, RuntimeTakes(i)
      PROVE  FreshNow
  <2>1. CASE Stale(i)
    BY <1>2, <1>6, <2>1, OverIsJob DEF RuntimeTakes, End, Types, TypeOK
  <2>2. CASE ~Stale(i)
    <3>0. job' = [job EXCEPT ![i].stage = "turn"] /\ job \in [Ids -> Job]
      BY <1>6, <2>2 DEF RuntimeTakes, Move, Types, TypeOK
    <3>1. \A k \in Ids \ {i} : job'[k] = job[k]
      BY <3>0
    <3>2. job'[i].wake = job[i].wake /\ job'[i].target = job[i].target
      BY <3>0, JobFields DEF Job
    <3> QED
      BY <2>2, <3>1, <3>2 DEF FreshNow, HandedOver, Stale, Skip
  <2> QED
    BY <2>1, <2>2
<1>7. ASSUME NEW c \in Conns,
             \/ Connect(c) \/ Accept(c) \/ Refuse(c) \/ WorkerLoses(c) \/ ServerLoses(c)
             \/ \E i \in Ids : WorkerTakes(c, i)
             \/ \E a \in Answer : LateAnswer(c, a)
      PROVE  FreshNow
  BY <1>2, <1>7, OverIsJob DEF Connect, Accept, Refuse, WorkerLoses, ServerLoses,
     WorkerTakes, LateAnswer
<1>8. ASSUME NEW c \in Conns, Register(c)
      PROVE  FreshNow
  <2>1. ASSUME NEW i \in Ids
        PROVE  \/ job'[i] = job[i] \/ job'[i].stage = "ended"
               \/ ~Stale(i) /\ job'[i].wake = job[i].wake /\ job'[i].target = job[i].target
    BY <1>8, OverIsJob, JobFields DEF Register, Types, Job
  <2> QED
    BY <2>1 DEF FreshNow, HandedOver, Stale, Skip
<1> QED
  BY EveryStep, <1>1, <1>3, <1>4, <1>5, <1>6, <1>7, <1>8 DEF Others
-----------------------------------------------------------------------------
(* All that is true of calls, sockets and copies, together, survives every *)
(* step.                                                                   *)
DispatchInv == Types /\ NothingHangs /\ Once

THEOREM DispatchInvariant == Spec => []DispatchInv
<1>1. Init => DispatchInv
  <2> SUFFICES ASSUME Init PROVE DispatchInv
    OBVIOUS
  <2>1. TypeOK /\ Dialled
    BY OverIsJob DEF Init, TypeOK, Dialled, STATES
  <2>2. \A i \in Ids : job[i].stage = "none"
    BY DEF Init, NoJob
  <2>3. NothingHangs
    BY <2>2 DEF Init, NothingHangs
  <2>4. Once
    BY DEF Init, Once, Untouched, OneCopy, TakenOnce
  <2> QED
    BY <2>1, <2>3, <2>4 DEF DispatchInv, Types
<1>2. DispatchInv /\ [Next]_vars => DispatchInv'
  <2> SUFFICES ASSUME DispatchInv, [Next]_vars PROVE DispatchInv'
    OBVIOUS
  <2>1. CASE Next
    BY <2>1, EveryStep, HangsKept, OnceKept DEF DispatchInv
  <2>2. CASE UNCHANGED vars
    BY <2>2 DEF DispatchInv, Types, TypeOK, Dialled, NothingHangs, Once,
       Untouched, OneCopy, TakenOnce, vars, sockets
  <2> QED
    BY <2>1, <2>2
<1> QED
  BY <1>1, <1>2, PTL DEF Spec

(* A route is always the open socket of a worker that registered for it.   *)
THEOREM DispatchTypes == Spec => []TypeOK
<1>1. DispatchInv => TypeOK
  BY DEF DispatchInv, Types
<1> QED
  BY <1>1, DispatchInvariant, PTL

(* A promise of a remote call waits at one open socket, whichever sockets  *)
(* come, go, overlap or die, so that its closing or a timer settles it.    *)
THEOREM PromisesWaitAtOpenSockets == Spec => []NothingHangs
<1>1. DispatchInv => NothingHangs
  BY DEF DispatchInv
<1> QED
  BY <1>1, DispatchInvariant, PTL

(* No reconnect, doubled socket or late registration hands an instruction  *)
(* to a second turn.                                                       *)
THEOREM InstructionsAreTakenOnce == Spec => []TakenOnce
<1>1. DispatchInv => TakenOnce
  BY DEF DispatchInv, Once
<1> QED
  BY <1>1, DispatchInvariant, PTL

(* Whichever of its three ways a wake-up is handed over, it is fresh then. *)
THEOREM WakesAreFresh == Spec => FreshWhenHandedOver
<1>1. ASSUME DispatchInv, [Next]_vars PROVE [FreshNow]_vars
  BY <1>1, HandsOverFresh DEF DispatchInv
<1>2. FreshNow <=> (\A i \in Ids : HandedOver(i) /\ job'[i].wake # None =>
                      order.status = job'[i].wake /\ OwnerOf(order) = job'[i].target)
  BY DEF FreshNow
<1> QED
  BY <1>1, <1>2, DispatchInvariant, PTL DEF Spec, FreshWhenHandedOver
=============================================================================
