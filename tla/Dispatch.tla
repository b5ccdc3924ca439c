------------------------------ MODULE Dispatch ------------------------------
(***************************************************************************)
(* From "@someone, do X" to a delivery: src/lib/dispatch.js, the registry  *)
(* of remote agents in src/lib/agent-manager.js, the bridge they dial into *)
(* (src/ws/remote-bridge.js) and the worker that dials                     *)
(* (bin/mousecrew-worker.js).                                              *)
(*                                                                         *)
(* Server and worker each run their handlers to the end; what happens      *)
(* between handlers is a step: a message arrives, a socket is found open   *)
(* or closed at one end, a timer fires, a turn ends.  What a resumed await *)
(* does before the next handler belongs to the step that resumed it.       *)
(* Turns of a worker run side by side, so the order in which dispatches    *)
(* and answers cross a socket is left open.                                *)
(***************************************************************************)
EXTENDS Naturals, FiniteSets, WakeFreshness

CONSTANTS
  Agents,
  Transport,   \* [Agents -> {"local", "remote", "terminal"}]
  Ids,         \* bound: dispatches
  Conns,       \* bound: sockets the worker opens
  Walk,        \* bound: statuses the order visits
  MaxRetries   \* bound: reconnect timers running at once

VARIABLES
  order,       \* the order a wake-up is about
  job,         \* job[i]: the dispatch i
  route,       \* route[a]: the socket whose sendFn is registered, or None
  server,      \* server[c], worker[c]: what either end thinks of socket c
  worker,
  registered,  \* registered[c]: the agents socket c registered
  hello,       \* the sockets whose `register` is on its way
  pending,     \* pending[c]: the dispatches whose promise waits at c
  toWorker,    \* toWorker[c], toServer[c]: dispatches and answers on their way
  toServer,
  ws,          \* the worker's variable ws: the socket it opened last
  retries,     \* the worker's reconnect timers
  running,     \* the turns the worker runs
  taken        \* history: how often dispatch i reached somebody

sockets == <<server, worker, registered, hello, toServer, ws, retries>>
vars == <<order, job, route, sockets, pending, toWorker, running, taken>>

Remotes == {a \in Agents : Transport[a] = "remote"}
Stages  == {"none", "queued", "turn", "waiting", "sent", "ended"}
Job     == [stage : Stages, target : Agents \cup {None}, wake : STATES \cup {None},
            reDispatch : BOOLEAN]
Answer  == [id : Ids, ok : BOOLEAN]
NoJob   == [stage |-> "none", target |-> None, wake |-> None,
            reDispatch |-> FALSE]

ASSUME NoneIsNobody == None \notin Agents \cup Conns \cup STATES
ASSUME Transports   == Transport \in [Agents -> {"local", "remote", "terminal"}]

Move(i, s) == [job EXCEPT ![i].stage = s]

(* The call is over: answered, failed, dropped as stale or left to be      *)
(* pulled; nothing is kept of it.                                          *)
Over   == [NoJob EXCEPT !.stage = "ended"]
End(i) == [job EXCEPT ![i] = Over]

(* isStale: only a wake-up carries a freshness check.                      *)
StaleOnArrival(i) == FALSE
Stale(i) == job[i].wake # None /\ Skip(order, job[i].wake, job[i].target)

-----------------------------------------------------------------------------
(* sendFn over `c` for the dispatches in `out`, after those in `settled`   *)
(* have left `pending`.  A message to a socket the worker has lost is lost.*)
Exchange(settled, out, c) ==
  /\ pending' = [x \in Conns |->
                   (pending[x] \ settled) \cup (IF x = c THEN out ELSE {})]
  /\ toWorker' = [x \in Conns |->
                    toWorker[x] \cup (IF x = c /\ worker[c] = "open" THEN out ELSE {})]

(* dispatchTo(a, ...) of new dispatch i, while `settled` is settled.       *)
Start(i, a, wake, reDispatch, settled, before) ==
  LET stale == wake # None /\ Skip(order, wake, a)
      stage == CASE Transport[a] = "terminal" -> "ended"
                 [] Transport[a] = "local" -> "queued"
                 [] Transport[a] = "remote" ->
                      IF stale THEN "ended"
                      ELSE IF route[a] # None THEN "sent" ELSE "waiting"
      new == [stage |-> stage, target |-> a, wake |-> wake,
              reDispatch |-> reDispatch]
  IN /\ job[i].stage = "none"
     /\ job' = [before EXCEPT ![i] = IF stage = "ended" THEN Over ELSE new]
     /\ Exchange(settled, IF stage = "sent" THEN {i} ELSE {}, route[a])

(* dispatchMentions: a chat line, or a wake-up (group:dispatch_mentions).  *)
DispatchChat(i, a) ==
  /\ Start(i, a, None, TRUE, {}, job)
  /\ UNCHANGED <<order, route, sockets, running, taken>>
DispatchWake(i, a) ==
  /\ Start(i, a, order.status, FALSE, {}, job)
  /\ UNCHANGED <<order, route, sockets, running, taken>>

(* fireReplyDispatches: whether the reply to i wakes those it names.       *)
Chains(i) == job[i].reDispatch
ChildReDispatch == FALSE

(* The reply to i arrives and names `m` (None: nobody), who is dispatched  *)
(* to as k.                                                                *)
Answered(i, m, k) ==
  IF m # None /\ Chains(i)
  THEN /\ m # job[i].target
       /\ Start(k, m, None, ChildReDispatch, {i}, End(i))
  ELSE /\ job' = End(i)
       /\ Exchange({i}, {}, None)

(* A promise is rejected; the failure is posted in the group.              *)
Failed(i) == job' = End(i) /\ Exchange({i}, {}, None)

-----------------------------------------------------------------------------
(* Local agents: the runtime's queue takes i, checks that it is fresh      *)
(* (_takeFreshJob), runs it and settles it.                                *)
RuntimeTakes(i) ==
  /\ job[i].stage = "queued"
  /\ IF Stale(i) THEN job' = End(i) /\ UNCHANGED taken
     ELSE job' = Move(i, "turn") /\ taken' = [taken EXCEPT ![i] = @ + 1]
  /\ UNCHANGED <<order, route, sockets, pending, toWorker, running>>

RuntimeSettles(i, m, k) ==
  /\ job[i].stage = "turn"
  /\ Answered(i, m, k) \/ Failed(i)
  /\ UNCHANGED <<order, route, sockets, running, taken>>

WaitForever(i) == job[i].stage = "waiting" /\ UNCHANGED vars

(* waitForRemote gives up after reconnectWaitMs: dropped if stale, else    *)
(* "did not reconnect".                                                    *)
WaitTimesOut(i) ==
  /\ job[i].stage = "waiting"
  /\ job' = End(i)
  /\ UNCHANGED <<order, route, sockets, pending, toWorker, running, taken>>

-----------------------------------------------------------------------------
(* The worker dials.                                                       *)
Connect(c) ==
  /\ retries > 0 /\ worker[c] = "none"
  /\ worker' = [worker EXCEPT ![c] = "connecting"]
  /\ ws' = c /\ retries' = retries - 1
  /\ UNCHANGED <<order, job, route, server, registered, hello, pending,
                 toWorker, toServer, running, taken>>

(* The upgrade is accepted: `connection` here, `open` and register there.  *)
Accept(c) ==
  /\ worker[c] = "connecting"
  /\ worker' = [worker EXCEPT ![c] = "open"]
  /\ server' = [server EXCEPT ![c] = "open"]
  /\ hello' = hello \cup {c}
  /\ UNCHANGED <<order, job, route, registered, pending, toWorker, toServer,
                 ws, retries, running, taken>>

(* A refused connection emits error and close, and each handler retries.   *)
Refuse(c) ==
  /\ worker[c] = "connecting" /\ retries + 2 <= MaxRetries
  /\ worker' = [worker EXCEPT ![c] = "closed"]
  /\ retries' = retries + 2
  /\ UNCHANGED <<order, job, route, server, registered, hello, pending,
                 toWorker, toServer, ws, running, taken>>

(* The worker finds its socket closed.                                     *)
WorkerLoses(c) ==
  /\ worker[c] = "open" /\ retries < MaxRetries
  /\ worker' = [worker EXCEPT ![c] = "closed"]
  /\ retries' = retries + 1
  /\ toWorker' = [toWorker EXCEPT ![c] = {}]
  /\ UNCHANGED <<order, job, route, server, registered, hello, pending,
                 toServer, ws, running, taken>>

(* The server finds it closed, or has no pong for a ping: what waits at c  *)
(* is rejected, what c registered is unregistered.                         *)
RejectedNone(c) == {}
Rejected(c) == pending[c]
UnregisteredNone(c) == {}
Unregistered(c) == registered[c]
ServerLoses(c) ==
  /\ server[c] = "open"
  /\ server' = [server EXCEPT ![c] = "closed"]
  /\ job' = [i \in Ids |-> IF i \in Rejected(c) THEN Over ELSE job[i]]
  /\ pending' = [pending EXCEPT ![c] = {}]
  /\ route' = [a \in Agents |-> IF a \in Unregistered(c) THEN None ELSE route[a]]
  /\ hello' = hello \ {c}
  /\ toServer' = [toServer EXCEPT ![c] = {}]
  /\ UNCHANGED <<order, worker, registered, toWorker, ws, retries, running, taken>>

(* `register` arrives: the socket becomes the route of its agents, and     *)
(* whoever waits for one of them goes on.                                  *)
WokenAgain == {i \in Ids : /\ job[i].stage \in {"waiting", "sent"}
                           /\ job[i].target \in Remotes}
Woken == {i \in Ids : job[i].stage = "waiting" /\ job[i].target \in Remotes}
Register(c) ==
  /\ c \in hello /\ server[c] = "open"
  /\ hello' = hello \ {c}
  /\ registered' = [registered EXCEPT ![c] = Remotes]
  /\ route' = [a \in Agents |-> IF a \in Remotes THEN c ELSE route[a]]
  /\ LET dropped == {i \in Woken : Stale(i)}
     IN /\ job' = [i \in Ids |->
                     IF i \in dropped THEN Over
                     ELSE IF i \in Woken THEN [job[i] EXCEPT !.stage = "sent"]
                     ELSE job[i]]
        /\ Exchange({}, Woken \ dropped, c)
  /\ UNCHANGED <<order, server, worker, toServer, ws, retries, running, taken>>

(* The worker takes a dispatch and starts a turn.                          *)
WorkerTakes(c, i) ==
  /\ worker[c] = "open" /\ i \in toWorker[c]
  /\ toWorker' = [toWorker EXCEPT ![c] = @ \ {i}]
  /\ running' = running \cup {i}
  /\ taken' = [taken EXCEPT ![i] = @ + 1]
  /\ UNCHANGED <<order, job, route, sockets, pending>>

(* A turn ends, and its answer goes out over whatever socket ws now is:    *)
(* nowhere when that is closed.                                            *)
TurnEnds(i, ok) ==
  /\ i \in running /\ worker[ws] \in {"open", "closed"}
  /\ running' = running \ {i}
  /\ toServer' = [toServer EXCEPT ![ws] =
                    IF worker[ws] = "open" THEN @ \cup {[id |-> i, ok |-> ok]} ELSE @]
  /\ UNCHANGED <<order, job, route, server, worker, registered, hello, pending,
                 toWorker, ws, retries, taken>>

(* The worker is stopped, or a turn ends while ws is still connecting:     *)
(* send throws, the catch sends again and throws out of the handler.       *)
WorkerDies ==
  /\ ws # None
  /\ worker' = [c \in Conns |-> IF worker[c] = "none" THEN "none" ELSE "closed"]
  /\ toWorker' = [c \in Conns |-> {}]
  /\ running' = {} /\ ws' = None /\ retries' = 0
  /\ UNCHANGED <<order, job, route, server, registered, hello, pending,
                 toServer, taken>>
WorkerStarts ==
  /\ ws = None /\ retries = 0 /\ retries' = 1
  /\ UNCHANGED <<order, job, route, server, worker, registered, hello, pending,
                 toWorker, toServer, ws, running, taken>>

-----------------------------------------------------------------------------
(* An answer arrives: it settles the promise it is for, if that still      *)
(* waits at this socket.                                                   *)
Arrives(c, a) ==
  /\ server[c] = "open" /\ a \in toServer[c]
  /\ toServer' = [toServer EXCEPT ![c] = @ \ {a}]
  /\ UNCHANGED <<order, route, server, worker, registered, hello, ws, retries,
                 running, taken>>
ReplyArrives(c, a, m, k) ==
  /\ Arrives(c, a) /\ a.ok /\ a.id \in pending[c]
  /\ Answered(a.id, m, k)
ErrorArrives(c, a) ==
  Arrives(c, a) /\ ~ a.ok /\ a.id \in pending[c] /\ Failed(a.id)
LateAnswer(c, a) ==
  Arrives(c, a) /\ a.id \notin pending[c] /\ UNCHANGED <<job, pending, toWorker>>

(* No answer within hangTimeoutMs.                                         *)
HangTimeout(c, i) ==
  /\ i \in pending[c]
  /\ Failed(i)
  /\ UNCHANGED <<order, route, sockets, running, taken>>

(* The order goes on meanwhile, or changes hands.                          *)
OrderMoves(s) ==
  /\ s \in TRANSITIONS[order.status] \cap Walk
  /\ order' = [order EXCEPT !.status = s,
                            !.from = IF s = "paused" THEN order.status ELSE @]
  /\ UNCHANGED <<job, route, sockets, pending, toWorker, running, taken>>
OrderChangesHands(a) ==
  /\ order' = [order EXCEPT !.assignee = a]
  /\ UNCHANGED <<job, route, sockets, pending, toWorker, running, taken>>

-----------------------------------------------------------------------------
Init ==
  /\ order \in [status : {"in_progress"}, from : {None}, assignee : Agents]
  /\ job = [i \in Ids |-> NoJob]
  /\ route = [a \in Agents |-> None]
  /\ server = [c \in Conns |-> "none"] /\ worker = [c \in Conns |-> "none"]
  /\ registered = [c \in Conns |-> {}] /\ hello = {}
  /\ pending = [c \in Conns |-> {}]
  /\ toWorker = [c \in Conns |-> {}] /\ toServer = [c \in Conns |-> {}]
  /\ ws = None /\ retries = 0 /\ running = {}
  /\ taken = [i \in Ids |-> 0]

Requests ==
  \E i \in Ids : \E a \in Agents : DispatchChat(i, a) \/ DispatchWake(i, a)
Locals ==
  \E i \in Ids : \/ RuntimeTakes(i)
                 \/ \E m \in Agents \cup {None}, k \in Ids : RuntimeSettles(i, m, k)
Timers ==
  \E i \in Ids : WaitTimesOut(i) \/ \E c \in Conns : HangTimeout(c, i)
Sockets ==
  \E c \in Conns :
    \/ Connect(c) \/ Accept(c) \/ Refuse(c) \/ WorkerLoses(c) \/ ServerLoses(c)
    \/ Register(c)
    \/ \E i \in Ids : WorkerTakes(c, i)
    \/ \E a \in Answer :
         \/ ErrorArrives(c, a) \/ LateAnswer(c, a)
         \/ \E m \in Agents \cup {None}, k \in Ids : ReplyArrives(c, a, m, k)
Turns == (\E i \in Ids, ok \in BOOLEAN : TurnEnds(i, ok)) \/ WorkerDies \/ WorkerStarts
Orders == (\E s \in Walk : OrderMoves(s)) \/ \E a \in Agents : OrderChangesHands(a)

Next == Requests \/ Locals \/ Timers \/ Sockets \/ Turns \/ Orders

(* Timers fire, and the runtime settles what it takes (AgentRuntime).      *)
Fairness ==
  \A i \in Ids :
    /\ WF_vars(RuntimeTakes(i))
    /\ WF_vars(\E m \in Agents \cup {None}, k \in Ids : RuntimeSettles(i, m, k))
    /\ WF_vars(WaitTimesOut(i))
    /\ \A c \in Conns : WF_vars(HangTimeout(c, i))

Spec == Init /\ [][Next]_vars /\ Fairness

-----------------------------------------------------------------------------
(* Types; a registered route is an open socket that registered the agent   *)
(* (agent-manager, remote-bridge), so sendFn is never that of a dead one.  *)
TypeOK ==
  /\ order \in [status : STATES, from : STATES \cup {None}, assignee : Agents]
  /\ job \in [Ids -> Job]
  /\ route \in [Agents -> Conns \cup {None}]
  /\ server \in [Conns -> {"none", "open", "closed"}]
  /\ worker \in [Conns -> {"none", "connecting", "open", "closed"}]
  /\ registered \in [Conns -> SUBSET Remotes] /\ hello \in SUBSET Conns
  /\ pending \in [Conns -> SUBSET Ids]
  /\ toWorker \in [Conns -> SUBSET Ids] /\ toServer \in [Conns -> SUBSET Answer]
  /\ ws \in Conns \cup {None} /\ retries \in Nat
  /\ running \in SUBSET Ids /\ taken \in [Ids -> Nat]
  /\ running # {} => ws # None
  /\ \A a \in Agents : route[a] # None =>
       server[route[a]] = "open" /\ a \in registered[route[a]]

(* A dispatch that was sent has its promise at one open socket, and only   *)
(* such a dispatch has one: whatever happens to that socket settles it.    *)
NothingHangs ==
  \A i \in Ids :
    /\ job[i].stage = "sent" =>
         \E c \in Conns : i \in pending[c] /\ server[c] = "open"
    /\ \A c, x \in Conns : i \in pending[c] =>
         job[i].stage = "sent" /\ (i \in pending[x] => x = c)

(* One agent, one route: through reconnects, doubled sockets, time-outs    *)
(* and late answers an instruction is taken up at most once.               *)
TakenOnce == \A i \in Ids : taken[i] <= 1

(* A wake-up handed over, at once, after a wait for the worker or out of   *)
(* the runtime's queue, is about the status the order has at that moment   *)
(* and goes to who owes the next action.                                   *)
HandedOver(i) == job'[i].stage \in {"sent", "turn"} /\ job[i].stage # job'[i].stage
FreshWhenHandedOver ==
  [][\A i \in Ids : HandedOver(i) /\ job'[i].wake # None =>
       order.status = job'[i].wake /\ OwnerOf(order) = job'[i].target]_vars

(* No caller is left without an answer, a notice of failure, or the        *)
(* decision to drop what has gone stale.                                   *)
EveryDispatchEnds ==
  \A i \in Ids : job[i].stage # "none" ~> job[i].stage = "ended"
=============================================================================
