----------------------------- MODULE ExecRunner -----------------------------
(***************************************************************************)
(* The generic runner of src/lib/agent-runtime.js: one process for each    *)
(* message.  The handlers of a process belong to its job, and two of them  *)
(* run when the spawn fails: error, then close.  When the message cannot   *)
(* be written, the job is over but its process is not, and its close comes *)
(* later.  A call of spawn that throws at once is left out.                *)
(***************************************************************************)
EXTENDS Naturals, Sequences, FiniteSets

CONSTANTS
  Jobs,        \* messages; one that has settled and closed may be sent again
  SpawnFails,  \* whether a spawn may fail
  WriteThrows, \* whether writing a message to its process may throw
  None

ASSUME JobAssumption == None \notin Jobs /\ SpawnFails \in BOOLEAN /\ WriteThrows \in BOOLEAN

VARIABLES
  queue, current,
  child,   \* the process of each job: none, running, failed or errored; held
           \* when it has ignored SIGTERM, or another holds its output open
  open     \* the jobs whose promise is open

vars == <<queue, current, child, open>>

(* What a spawn may come to.                                               *)
Lives == {"running"} \cup IF SpawnFails THEN {"failed"} ELSE {}

(* Mistaken form of Begun: of a message that cannot be written no handler  *)
(* is left to hear of.                                                     *)
BegunUnheard(j, c, o) ==
  \/ current' = j /\ open' = o /\ \E life \in Lives : child' = [c EXCEPT ![j] = life]
  \/ WriteThrows /\ current' = None /\ open' = o \ {j} /\ child' = c

(* _drainExec, with the queue q, processes c and promises o it finds and   *)
(* no current job.  The freshness check finds the first n jobs stale.      *)
(* When the message of the next one cannot be written, that job is         *)
(* rejected and no other takes its place, but its process stays.           *)
Begun(j, c, o) ==
  /\ \E life \in Lives : child' = [c EXCEPT ![j] = life]
  /\ \/ current' = j /\ open' = o
     \/ WriteThrows /\ current' = None /\ open' = o \ {j}
DrainExec(q, c, o) ==
  \E n \in 0..Len(q) :
    LET fresh == SubSeq(q, n + 1, Len(q))
        left  == o \ {q[i] : i \in 1..n}
    IN  \/ /\ fresh = <<>>
           /\ queue' = <<>> /\ current' = None /\ child' = c /\ open' = left
        \/ /\ fresh # <<>>
           /\ queue' = Tail(fresh) /\ Begun(Head(fresh), c, left)

Send(j) ==
  /\ j \notin open /\ child[j] = "none"
  /\ \/ current = None /\ DrainExec(Append(queue, j), child, open \cup {j})
     \/ /\ current # None
        /\ queue' = Append(queue, j) /\ open' = open \cup {j}
        /\ UNCHANGED <<current, child>>

SpawnError(j) ==
  /\ child[j] = "failed"
  /\ DrainExec(queue, [child EXCEPT ![j] = "errored"], open \ {j})

(* Mistaken form: the next message is left to the next send.               *)
CloseOnly(j) ==
  /\ child[j] \in {"running", "errored"}
  /\ current' = None /\ child' = [child EXCEPT ![j] = "none"] /\ open' = open \ {j}
  /\ UNCHANGED queue

(* The process ends by itself, or by the SIGTERM of the hard timer.        *)
Close(j) ==
  /\ child[j] \in {"running", "errored"}
  /\ DrainExec(queue, [child EXCEPT ![j] = "none"], open \ {j})

(* Or never closes: it ignores the only signal it is sent, or what it has  *)
(* started holds its output open.                                          *)
Hangs(j) ==
  /\ child[j] = "running"
  /\ child' = [child EXCEPT ![j] = "held"]
  /\ UNCHANGED <<queue, current, open>>

Init ==
  /\ queue = <<>> /\ current = None /\ open = {}
  /\ child = [j \in Jobs |-> "none"]

Next == \E j \in Jobs : Send(j) \/ SpawnError(j) \/ Close(j) \/ Hangs(j)

Spec == Init /\ [][Next]_vars

(* What a failed spawn has still to report comes, and a process closes or  *)
(* hangs: only one that is not held is promised to close.                  *)
FairSpec == Spec /\ \A j \in Jobs : WF_vars(SpawnError(j)) /\ WF_vars(Close(j))

-----------------------------------------------------------------------------
(* Types.  A current job has a process from which an event is to come.     *)
TypeOK ==
  /\ queue \in Seq(Jobs) /\ current \in Jobs \cup {None} /\ open \subseteq Jobs
  /\ child \in [Jobs -> {"none", "running", "failed", "errored", "held"}]
  /\ current # None => child[current] \in {"running", "failed", "held"} /\ current \in open

(* From the head of the file: "Queue, don't interrupt. A message arriving  *)
(* mid-turn waits its turn."                                               *)
Alive(j) == child[j] \in {"running", "held"}
OneTurnAtATime == \A i, j \in Jobs : Alive(i) /\ Alive(j) => i = j

(* A message never waits for nobody: as long as some are queued there is a *)
(* process whose end lets the next one begin, even when the one before     *)
(* could not be written, and nothing is current (the catch of _drainExec). *)
QueueIsTended == queue # <<>> => \E j \in Jobs : child[j] # "none"

(* Every message is answered, rejected or dropped, through failed spawns   *)
(* and writes, unless its own process never closes or there is no other    *)
(* left: SIGTERM is all a process is sent (_drainExec).                    *)
HeldUp(j) ==
  \/ child[j] = "held"
  \/ /\ \E i \in Jobs : child[i] = "held"
     /\ \A i \in Jobs : child[i] \in {"none", "held"}
EveryMessageSettles == \A j \in Jobs : j \in open ~> (j \notin open \/ HeldUp(j))
=============================================================================
