-------------------------- MODULE ExecRunnerProofs --------------------------
(***************************************************************************)
(* Proofs about ExecRunner: types, and that a queue always has a process   *)
(* whose end lets it go on, for every set of messages and all failures;    *)
(* one turn at a time, as long as no spawn fails and no write throws.      *)
(***************************************************************************)
EXTENDS ExecRunner, SequenceTheorems, TLAPS

(* A message waits once, its promise is open, and it has no process yet.   *)
Waiting(q, c, o) ==
  /\ \A i, k \in 1..Len(q) : q[i] = q[k] => i = k
  /\ \A i \in 1..Len(q) : q[i] \in o /\ c[q[i]] = "none"

QueueInv ==
  /\ Waiting(queue, child, open)
  /\ \A i \in 1..Len(queue) : queue[i] # current
  /\ QueueIsTended

Children == [Jobs -> {"none", "running", "failed", "errored", "held"}]

(* Whatever the queue and the processes a handler leaves to _drainExec,    *)
(* what it makes of them is well typed and keeps messages waiting once.    *)
LEMMA DrainKeeps ==
  ASSUME NEW q \in Seq(Jobs), NEW c \in Children, NEW o \in SUBSET Jobs,
         Waiting(q, c, o), DrainExec(q, c, o)
  PROVE  TypeOK' /\ QueueInv'
<1>1. PICK n \in 0..Len(q) :
        LET fresh == SubSeq(q, n + 1, Len(q))
            left  == o \ {q[i] : i \in 1..n}
        IN  \/ /\ fresh = <<>>
               /\ queue' = <<>> /\ current' = None /\ child' = c /\ open' = left
            \/ /\ fresh # <<>>
               /\ queue' = Tail(fresh) /\ Begun(Head(fresh), c, left)
  BY DEF DrainExec
<1> DEFINE fresh == SubSeq(q, n + 1, Len(q))
<1>2. /\ fresh \in Seq(Jobs) /\ Len(fresh) = Len(q) - n
      /\ \A i \in 1..Len(fresh) : fresh[i] = q[n + i]
  <2>1. n + 1 \in 1..(Len(q) + 1) /\ Len(q) \in (n + 1 - 1)..Len(q)
    OBVIOUS
  <2>2. QED
    BY <2>1, SubSeqProperties
<1> HIDE DEF fresh
<1>3. CASE fresh = <<>>
  <2>1. queue' = <<>> /\ current' = None /\ child' = c /\ open' \subseteq o
    BY <1>1, <1>3 DEF fresh
  <2>2. QED
    BY <2>1, JobAssumption DEF TypeOK, QueueInv, QueueIsTended, Waiting, Children
<1>4. CASE fresh # <<>>
  <2>1. queue' = Tail(fresh) /\ Begun(Head(fresh), c, o \ {q[i] : i \in 1..n})
    BY <1>1, <1>4 DEF fresh
  <2>2. PICK life \in {"running", "failed"} : child' = [c EXCEPT ![Head(fresh)] = life]
    BY <2>1 DEF Begun, Lives
  <2>3. /\ queue' \in Seq(Jobs) /\ Len(queue') = Len(fresh) - 1
        /\ \A i \in 1..Len(queue') : queue'[i] = fresh[i + 1]
        /\ Head(fresh) = fresh[1] /\ 1 \in 1..Len(fresh)
    BY <1>2, <1>4, <2>1, HeadTailProperties
  <2>0. \/ current' = fresh[1] /\ open' = o \ {q[i] : i \in 1..n}
        \/ current' = None /\ open' = (o \ {q[i] : i \in 1..n}) \ {fresh[1]}
    BY <2>1, <2>3 DEF Begun
  <2>4. \A i \in 1..Len(fresh) :
          /\ n + i \in 1..Len(q) /\ fresh[i] = q[n + i]
          /\ \A k \in 1..n : k \in 1..Len(q) /\ k # n + i
    BY <1>2
  <2>5. \A i \in 1..Len(fresh) : /\ fresh[i] \in Jobs /\ c[fresh[i]] = "none"
                                 /\ fresh[i] \in o \ {q[k] : k \in 1..n}
    <3> SUFFICES ASSUME NEW i \in 1..Len(fresh)
                 PROVE  /\ fresh[i] \in Jobs /\ c[fresh[i]] = "none"
                        /\ fresh[i] \in o \ {q[k] : k \in 1..n}
      OBVIOUS
    <3>1. n + i \in 1..Len(q) /\ fresh[i] = q[n + i] /\ q[n + i] \in o
      BY <2>4 DEF Waiting
    <3>2. \A k \in 1..n : q[k] # q[n + i]
      BY <2>4, <3>1 DEF Waiting
    <3>3. c[fresh[i]] = "none"
      BY <3>1 DEF Waiting
    <3>4. QED
      BY <3>1, <3>2, <3>3
  <2>6. \A i, k \in 1..Len(fresh) : fresh[i] = fresh[k] => i = k
    BY <2>4, <1>2 DEF Waiting
  <2>7. \A i \in 1..Len(queue') : i + 1 \in 1..Len(fresh) /\ i + 1 # 1
    BY <2>3, <1>2
  <2>8. fresh[1] \in Jobs /\ fresh[1] # None
    BY <2>3, <2>5, JobAssumption
  <2>9. child' \in Children /\ child'[fresh[1]] = life
    BY <2>2, <2>3, <2>8 DEF Children
  <2>10. TypeOK'
    <3>1. open' \subseteq Jobs /\ current' \in Jobs \cup {None}
      BY <2>0, <2>8
    <3>2. current' # None => current' = fresh[1] /\ current' \in open'
      BY <2>0, <2>3, <2>5, <2>8
    <3>3. QED
      BY <2>2, <2>3, <2>9, <3>1, <3>2 DEF TypeOK, Children
  <2>11. \A i \in 1..Len(queue') :
          queue'[i] # current' /\ queue'[i] \in open' /\ child'[queue'[i]] = "none"
    <3>1. SUFFICES ASSUME NEW i \in 1..Len(queue')
                   PROVE  queue'[i] # current' /\ queue'[i] \in open' /\ child'[queue'[i]] = "none"
      OBVIOUS
    <3>2. queue'[i] = fresh[i + 1] /\ i + 1 \in 1..Len(fresh) /\ fresh[i + 1] # fresh[1]
      BY <2>3, <2>6, <2>7
    <3>3. queue'[i] # current' /\ queue'[i] \in open'
      BY <2>0, <2>5, <3>2, JobAssumption
    <3>4. child'[queue'[i]] = c[queue'[i]]
      BY <2>2, <2>3, <2>5, <3>2 DEF Children
    <3>5. QED
      BY <2>5, <3>2, <3>3, <3>4
  <2>12. \A i, k \in 1..Len(queue') : queue'[i] = queue'[k] => i = k
    BY <2>3, <2>6, <2>7
  <2>13. QueueIsTended'
    BY <2>2, <2>8, <2>9 DEF QueueIsTended
  <2>14. QED
    BY <2>10, <2>11, <2>12, <2>13 DEF QueueInv, Waiting
<1>5. QED
  BY <1>3, <1>4

LEMMA InitKeeps == Init => TypeOK /\ QueueInv
BY JobAssumption DEF Init, TypeOK, QueueInv, QueueIsTended, Waiting

(* A message that is sent joins the queue once: its promise was not open.  *)
LEMMA SendKeeps ==
  ASSUME TypeOK, QueueInv, NEW j \in Jobs, Send(j)
  PROVE  TypeOK' /\ QueueInv'
<1> DEFINE q == Append(queue, j)
<1>1. /\ q \in Seq(Jobs) /\ Len(q) = Len(queue) + 1 /\ q[Len(queue) + 1] = j
      /\ \A i \in 1..Len(queue) : q[i] = queue[i]
  BY AppendProperties DEF TypeOK
<1>2. \A i \in 1..Len(q) : i \in 1..Len(queue) \/ i = Len(queue) + 1
  BY <1>1 DEF TypeOK
<1>3. \A i \in 1..Len(queue) : queue[i] # j /\ q[i] # j
  BY <1>1 DEF Send, QueueInv, Waiting
<1> HIDE DEF q
<1>4. \A i, k \in 1..Len(q) : q[i] = q[k] => i = k
  BY <1>1, <1>2, <1>3 DEF QueueInv, Waiting
<1>5. \A i \in 1..Len(q) : q[i] \in open \cup {j} /\ child[q[i]] = "none"
  BY <1>1, <1>2 DEF QueueInv, Waiting, Send
<1>6. Waiting(q, child, open \cup {j})
  BY <1>4, <1>5 DEF Waiting
<1>7. CASE current = None
  <2>1. DrainExec(q, child, open \cup {j})
    BY <1>7 DEF Send, q
  <2>2. child \in Children /\ open \cup {j} \in SUBSET Jobs
    BY DEF TypeOK, Children
  <2>3. QED
    BY <1>1, <1>6, <2>1, <2>2, DrainKeeps
<1>8. CASE current # None
  <2>1. queue' = q /\ open' = open \cup {j} /\ current' = current /\ child' = child
    BY <1>8 DEF Send, q
  <2>2. current # j
    BY <1>8 DEF Send, TypeOK
  <2>3. TypeOK'
    BY <1>1, <2>1 DEF TypeOK
  <2>4. \A i \in 1..Len(q) : q[i] # current
    BY <1>1, <1>2, <2>2 DEF QueueInv
  <2>5. QueueIsTended'
    BY <1>8, <2>1 DEF TypeOK, QueueIsTended
  <2>6. QED
    BY <1>6, <2>1, <2>3, <2>4, <2>5 DEF QueueInv
<1>9. QED
  BY <1>7, <1>8

(* The process of j has something to report, so j itself is not waiting.   *)
LEMMA EventKeeps ==
  ASSUME TypeOK, QueueInv, NEW j \in Jobs, SpawnError(j) \/ Close(j)
  PROVE  TypeOK' /\ QueueInv'
<1>1. PICK life \in {"none", "errored"} :
        DrainExec(queue, [child EXCEPT ![j] = life], open \ {j})
  BY DEF SpawnError, Close
<1>2. child[j] # "none"
  BY DEF SpawnError, Close
<1>3. Waiting(queue, [child EXCEPT ![j] = life], open \ {j})
  BY <1>2 DEF QueueInv, Waiting, TypeOK
<1>4. queue \in Seq(Jobs) /\ [child EXCEPT ![j] = life] \in Children /\ open \ {j} \in SUBSET Jobs
  BY DEF TypeOK, Children
<1>5. QED
  BY <1>1, <1>3, <1>4, DrainKeeps

(* A process that is held stays a process.                                 *)
LEMMA HangsKeeps ==
  ASSUME TypeOK, QueueInv, NEW j \in Jobs, Hangs(j)
  PROVE  TypeOK' /\ QueueInv'
<1>1. /\ child[j] = "running" /\ child' = [child EXCEPT ![j] = "held"]
      /\ queue' = queue /\ current' = current /\ open' = open
  BY DEF Hangs
<1>2. TypeOK'
  BY <1>1 DEF TypeOK
<1>3. \A i \in 1..Len(queue) : queue[i] \in Jobs /\ queue[i] # j
  BY <1>1 DEF TypeOK, QueueInv, Waiting
<1>4. \A i \in Jobs : (child[i] = "none") = (child'[i] = "none")
  BY <1>1 DEF TypeOK
<1>5. QED
  BY <1>1, <1>2, <1>3, <1>4 DEF QueueInv, QueueIsTended, Waiting

LEMMA NextKeeps == TypeOK /\ QueueInv /\ [Next]_vars => TypeOK' /\ QueueInv'
<1>1. TypeOK /\ QueueInv /\ Next => TypeOK' /\ QueueInv'
  BY SendKeeps, EventKeeps, HangsKeeps DEF Next
<1>2. TypeOK /\ QueueInv /\ UNCHANGED vars => TypeOK' /\ QueueInv'
  BY DEF vars, TypeOK, QueueInv, QueueIsTended, Waiting
<1>3. QED
  BY <1>1, <1>2

(* Types for every set of messages, whatever fails.  With them: a current  *)
(* job has a process, whose event is still to come unless it never closes. *)
THEOREM ExecTypes == Spec => []TypeOK
<1>1. TypeOK /\ QueueInv /\ [Next]_vars => (TypeOK /\ QueueInv)'
  BY NextKeeps
<1>2. QED
  BY InitKeeps, <1>1, PTL DEF Spec

(* Whatever spawns and writes fail, a message that waits has a process     *)
(* whose end lets the queue go on (the handlers and the catch of           *)
(* _drainExec): for any number of messages, none waits for nobody.         *)
THEOREM QueuesAreTended == Spec => []QueueIsTended
<1>1. TypeOK /\ QueueInv /\ [Next]_vars => (TypeOK /\ QueueInv)'
  BY NextKeeps
<1>2. QueueInv => QueueIsTended
  BY DEF QueueInv
<1>3. QED
  BY InitKeeps, <1>1, <1>2, PTL DEF Spec

-----------------------------------------------------------------------------
(* Without failures only the current job has a process.                    *)
NoFailures == SpawnFails = FALSE /\ WriteThrows = FALSE

RunningIsCurrent ==
  \A i \in Jobs : child[i] # "none" => Alive(i) /\ i = current

LEMMA DrainRunsCurrent ==
  ASSUME NoFailures, NEW q, NEW o, NEW c \in Children,
         \A i \in Jobs : c[i] = "none", DrainExec(q, c, o)
  PROVE  RunningIsCurrent'
<1>1. CASE child' = c
  BY <1>1 DEF RunningIsCurrent
<1>2. CASE child' = [c EXCEPT ![current'] = "running"]
  BY <1>2 DEF RunningIsCurrent, Children, Alive
<1>3. child' = c \/ child' = [c EXCEPT ![current'] = "running"]
  BY DEF DrainExec, Begun, Lives, NoFailures
<1>4. QED
  BY <1>1, <1>2, <1>3

(* Messages wait their turn, whatever their number, and no process is      *)
(* alive beside that of the current job, held or not, as long as every     *)
(* spawn succeeds and no write throws.  Both are needed: the close of a    *)
(* failed spawn, or of a process whose message could not be written,       *)
(* begins a turn beside the current one (lines 521-551 of _drainExec).     *)
THEOREM OneTurnWithoutFailures ==
  ASSUME NoFailures
  PROVE  Spec => []OneTurnAtATime
<1>1. Init => RunningIsCurrent
  BY DEF Init, RunningIsCurrent
<1>2. ASSUME TypeOK, RunningIsCurrent, NEW j \in Jobs,
             Send(j) \/ SpawnError(j) \/ Close(j) \/ Hangs(j)
      PROVE  RunningIsCurrent'
  <2>1. CASE current # None /\ Send(j)
    BY <2>1, <1>2 DEF Send, RunningIsCurrent, Alive
  <2>2. CASE current = None /\ Send(j)
    <3>1. \A i \in Jobs : child[i] = "none"
      BY <2>2, <1>2, JobAssumption DEF RunningIsCurrent
    <3>2. DrainExec(Append(queue, j), child, open \cup {j}) /\ child \in Children
      BY <2>2, <1>2 DEF Send, TypeOK, Children
    <3>3. QED
      BY <3>1, <3>2, DrainRunsCurrent
  <2>3. CASE SpawnError(j)
    BY <2>3, <1>2 DEF SpawnError, RunningIsCurrent, Alive
  <2>4. CASE Close(j)
    <3>1. \A i \in Jobs \ {j} : child[i] = "none"
      BY <2>4, <1>2 DEF Close, RunningIsCurrent
    <3>2. /\ [child EXCEPT ![j] = "none"] \in Children
          /\ \A i \in Jobs : [child EXCEPT ![j] = "none"][i] = "none"
      BY <3>1, <1>2 DEF TypeOK, Children
    <3>3. DrainExec(queue, [child EXCEPT ![j] = "none"], open \ {j})
      BY <2>4 DEF Close
    <3>4. QED
      BY <3>2, <3>3, DrainRunsCurrent
  <2>5. CASE Hangs(j)
    BY <2>5, <1>2 DEF Hangs, RunningIsCurrent, Alive, TypeOK
  <2>6. QED
    BY <1>2, <2>1, <2>2, <2>3, <2>4, <2>5
<1>3. TypeOK /\ RunningIsCurrent /\ [Next]_vars => RunningIsCurrent'
  BY <1>2 DEF Next, vars, RunningIsCurrent, Alive
<1>4. RunningIsCurrent => OneTurnAtATime
  BY DEF RunningIsCurrent, OneTurnAtATime, Alive
<1>5. QED
  BY <1>1, <1>3, <1>4, ExecTypes, PTL DEF Spec
=============================================================================
