----------------------------- MODULE SessionLock -----------------------------
(***************************************************************************)
(* The lock file of src/lib/rotation.js and the session record under it.   *)
(*                                                                         *)
(* Commands are processes, and each step here is one file-system call of   *)
(* one of them.  A lock is a prepared file hard-linked to the lock path;   *)
(* its content names the writer's process.  A process may die at any step. *)
(* Whoever finds a dead owner pins the file with a link of its own and     *)
(* removes the lock path only when nobody else has a link to that file.    *)
(*                                                                         *)
(* The directory maps names to files.  A file is what it says: who wrote   *)
(* it, and a token that is its writer's alone while the file has a link.   *)
(* Every process has at most one prepared file and one reclaim link.       *)
(***************************************************************************)
EXTENDS Naturals, FiniteSets

CONSTANTS
  Procs,      \* processes, each living once
  PidOf,      \* PidOf[p]: its pid; the system may give it out again afterwards
  Tokens,     \* bound: how many files of one process have a link at a time
  Sessions, Windows, WindowOf,
  None

ASSUME ProcAssumption == IsFiniteSet(Procs) /\ None \notin Procs \cup Sessions \cup (Procs \X Tokens)

VARIABLES
  dir,      \* the names of the lock, the prepared files and the reclaim links
  pc,       \* where each process is
  todo,     \* cleanupAbandonedLockLinks: the listed names still to visit
  mine,     \* the file a process prepared, or None
  saw,      \* the owner it read, None when there was no readable lock
  read,     \* the record it read under the lock
  record,   \* the session record
  solo      \* history: waits of a process while it is the only one running

lockVars == <<dir, todo, mine, saw>>
vars == <<lockVars, pc, read, record, solo>>

-----------------------------------------------------------------------------
Lock       == <<"lock", None>>
Prepared(p) == <<"owner", p>>
Claim(p)   == <<"reclaim", p>>
Leftover   == {"owner", "reclaim"} \X Procs
Names      == {Lock} \cup Leftover

File == Procs \X Tokens
Writer(f) == f[1]

Links(f) == {n \in Names : dir[n] = f}

(* Between the link that takes the lock and the unlink that gives it back. *)
Holding == {"tidy_held", "read", "commit", "check", "release"}

Running(p) == pc[p] \notin {"unborn", "dead"}

(* process.kill(pid, 0)                                                    *)
IsLockOwnerAlive(q) == \E r \in Procs : Running(r) /\ PidOf[r] = PidOf[q]

Alone(p) == \A q \in Procs \ {p} : ~ Running(q)

(* The abstract specification, its record the file this module writes.     *)
R == INSTANCE SessionRecord WITH
       Sessions <- Sessions, Windows <- Windows, WindowOf <- WindowOf,
       None <- None, record <- record

-----------------------------------------------------------------------------
(* One step of p to place l.                                               *)
Go(p, l) ==
  /\ pc' = [pc EXCEPT ![p] = l]
  /\ solo' = IF Alone(p) THEN solo ELSE 0

(* withSessionRecordLock: list the directory.                              *)
Enter(p) ==
  /\ pc[p] \in {"unborn", "idle", "list"}
  /\ pc[p] = "unborn" => ~ IsLockOwnerAlive(p)
  /\ todo' = [todo EXCEPT ![p] = {n \in Leftover : dir[n] # None}]
  /\ Go(p, "sweep")
  /\ UNCHANGED <<dir, mine, saw, read, record>>

(* Mistaken form: prepared files are left where they are.                  *)
SweepClaims(p) ==
  /\ pc[p] = "sweep"
  /\ \E n \in todo[p] :
       /\ dir' = IF n[1] = "owner" \/ IsLockOwnerAlive(n[2])
                 THEN dir ELSE [dir EXCEPT ![n] = None]
       /\ todo' = [todo EXCEPT ![p] = @ \ {n}]
  /\ Go(p, "sweep")
  /\ UNCHANGED <<mine, saw, read, record>>

(* cleanupAbandonedLockLinks: unlink what a dead process left.             *)
Sweep(p) ==
  /\ pc[p] = "sweep"
  /\ \E n \in todo[p] :
       /\ dir' = IF IsLockOwnerAlive(n[2]) THEN dir ELSE [dir EXCEPT ![n] = None]
       /\ todo' = [todo EXCEPT ![p] = @ \ {n}]
  /\ Go(p, "sweep")
  /\ UNCHANGED <<mine, saw, read, record>>

(* createOwnedLock: write, link, and unlink the prepared name either way.  *)
Prepare(p) ==
  /\ pc[p] = "sweep" /\ todo[p] = {}
  /\ \E t \in Tokens :
       /\ Links(<<p, t>>) = {}
       /\ dir' = [dir EXCEPT ![Prepared(p)] = <<p, t>>]
       /\ mine' = [mine EXCEPT ![p] = <<p, t>>]
  /\ Go(p, "publish")
  /\ UNCHANGED <<todo, saw, read, record>>

(* Mistaken form: the prepared file replaces whatever is at the lock path.  *)
PublishByRename(p) ==
  /\ pc[p] = "publish"
  /\ dir' = [dir EXCEPT ![Lock] = mine[p]]
  /\ Go(p, "tidy_held")
  /\ UNCHANGED <<todo, mine, saw, read, record>>

Publish(p) ==
  /\ pc[p] = "publish"
  /\ IF dir[Lock] = None
     THEN dir' = [dir EXCEPT ![Lock] = mine[p]] /\ Go(p, "tidy_held")
     ELSE dir' = dir /\ Go(p, "tidy")
  /\ UNCHANGED <<todo, mine, saw, read, record>>

Tidy(p) ==
  /\ pc[p] \in {"tidy", "tidy_held"}
  /\ dir' = [dir EXCEPT ![Prepared(p)] = None]
  /\ \/ pc[p] = "tidy_held" /\ Go(p, "read") /\ mine' = mine
     \/ pc[p] = "tidy" /\ Go(p, "inspect") /\ mine' = [mine EXCEPT ![p] = None]
  /\ UNCHANGED <<todo, saw, read, record>>

(* acquireOwnedLock: who has the lock, and is it alive?                    *)
Inspect(p) ==
  /\ pc[p] = "inspect"
  /\ saw' = [saw EXCEPT ![p] = IF dir[Lock] = None THEN None ELSE Writer(dir[Lock])]
  /\ Go(p, "probe")
  /\ UNCHANGED <<dir, todo, mine, read, record>>

Probe(p) ==
  /\ pc[p] = "probe"
  /\ Go(p, IF saw[p] # None /\ IsLockOwnerAlive(saw[p]) THEN "wait" ELSE "claim")
  /\ saw' = [saw EXCEPT ![p] = None]
  /\ UNCHANGED <<dir, todo, mine, read, record>>

(* The next round after LOCK_RETRY_MS, or the error at the deadline.       *)
Retry(p) ==
  /\ pc[p] = "wait"
  /\ pc' = [pc EXCEPT ![p] = "list"]
  /\ solo' = IF ~ Alone(p) THEN 0 ELSE IF solo < 2 THEN solo + 1 ELSE 2
  /\ UNCHANGED <<lockVars, read, record>>

GiveUp(p) ==
  /\ pc[p] = "wait"
  /\ Go(p, "idle")
  /\ UNCHANGED <<lockVars, read, record>>

-----------------------------------------------------------------------------
(* reclaimAbandonedLock                                                    *)

(* Mistaken form: a lock released meanwhile is not noticed.                *)
PinAnything(p) ==
  /\ pc[p] = "claim"
  /\ dir' = [dir EXCEPT ![Claim(p)] = dir[Lock]]
  /\ Go(p, "examine")
  /\ UNCHANGED <<todo, mine, saw, read, record>>

PinLock(p) ==
  /\ pc[p] = "claim"
  /\ IF dir[Lock] = None
     THEN dir' = dir /\ Go(p, "wait")
     ELSE dir' = [dir EXCEPT ![Claim(p)] = dir[Lock]] /\ Go(p, "examine")
  /\ UNCHANGED <<todo, mine, saw, read, record>>

(* The content cannot change under the claim, so reading the owner and     *)
(* probing it is one step.                                                 *)
Examine(p) ==
  /\ pc[p] = "examine"
  /\ Go(p, IF IsLockOwnerAlive(Writer(dir[Claim(p)])) THEN "unclaim" ELSE "stat")
  /\ UNCHANGED <<lockVars, read, record>>

(* Mistaken form: others may have pinned the file too.                     *)
PinnedAtAll(f) == Cardinality(Links(f)) >= 2

(* nlink: the lock path and one claim, nothing else.                       *)
PinnedOnce(f) == Cardinality(Links(f)) = 2

(* The two stats, one after the other: the claim, and the lock path.  (The *)
(* code compares both at the end; a claim that fails already has failed.)  *)
StatClaim(p) ==
  /\ pc[p] = "stat"
  /\ Go(p, IF PinnedOnce(dir[Claim(p)]) THEN "compare" ELSE "unclaim")
  /\ UNCHANGED <<lockVars, read, record>>

Compare(p) ==
  /\ pc[p] = "compare"
  /\ Go(p, IF dir[Lock] = dir[Claim(p)] /\ PinnedOnce(dir[Lock]) THEN "remove" ELSE "unclaim")
  /\ UNCHANGED <<lockVars, read, record>>

Remove(p) ==
  /\ pc[p] = "remove"
  /\ dir' = [dir EXCEPT ![Lock] = None]
  /\ Go(p, "unclaim_removed")
  /\ UNCHANGED <<todo, mine, saw, read, record>>

Unclaim(p) ==
  /\ pc[p] \in {"unclaim", "unclaim_removed"}
  /\ dir' = [dir EXCEPT ![Claim(p)] = None]
  /\ Go(p, IF pc[p] = "unclaim" THEN "wait" ELSE "list")
  /\ UNCHANGED <<todo, mine, saw, read, record>>

-----------------------------------------------------------------------------
(* The action under the lock.  The record file is replaced by a rename.    *)

ReadRecord(p) ==
  /\ pc[p] = "read"
  /\ read' = [read EXCEPT ![p] = record]
  /\ Go(p, "commit")
  /\ UNCHANGED <<lockVars, record>>

(* Mistaken form: an activity is written without a look at the record.     *)
CommitUnseen(p) ==
  /\ pc[p] = "commit"
  /\ \/ \E s \in Sessions : record' = R!Started(s)
     \/ \E s \in Sessions, a \in R!Activities : record' = R!Noted(s, a)
     \/ record' = record
  /\ Go(p, "check")
  /\ read' = [read EXCEPT ![p] = None]
  /\ UNCHANGED lockVars

(* Writes are of the record that was read; a mismatch writes nothing.      *)
Commit(p) ==
  /\ pc[p] = "commit"
  /\ \/ \E s \in Sessions : record' = R!Started(s)
     \/ \E s \in Sessions, a \in R!Activities :
          R!IsOf(read[p], s) /\ record' = R!Noted(s, a)
     \/ \E W \in SUBSET Windows : R!IsInWindow(read[p], W) /\ record' = None
     \/ record' = record
  /\ Go(p, "check")
  /\ read' = [read EXCEPT ![p] = None]
  /\ UNCHANGED lockVars

(* releaseOwnedLock: read the lock, and unlink it if it is still ours; it   *)
(* is an error when it is not.                                             *)
Check(p) ==
  /\ pc[p] = "check"
  /\ \/ dir[Lock] = mine[p] /\ Go(p, "release") /\ mine' = mine
     \/ dir[Lock] # mine[p] /\ Go(p, "idle") /\ mine' = [mine EXCEPT ![p] = None]
  /\ UNCHANGED <<dir, todo, saw, read, record>>

Release(p) ==
  /\ pc[p] = "release"
  /\ dir' = [dir EXCEPT ![Lock] = None]
  /\ mine' = [mine EXCEPT ![p] = None]
  /\ Go(p, "idle")
  /\ UNCHANGED <<todo, saw, read, record>>

(* A process ends, at any step.                                            *)
Die(p) ==
  /\ Running(p)
  /\ pc' = [pc EXCEPT ![p] = "dead"]
  /\ solo' = 0
  /\ todo' = [todo EXCEPT ![p] = {}]
  /\ mine' = [mine EXCEPT ![p] = None]
  /\ saw' = [saw EXCEPT ![p] = None]
  /\ read' = [read EXCEPT ![p] = None]
  /\ UNCHANGED <<dir, record>>

Init ==
  /\ dir = [n \in Names |-> None]
  /\ pc = [p \in Procs |-> "unborn"]
  /\ todo = [p \in Procs |-> {}]
  /\ mine = [p \in Procs |-> None]
  /\ saw = [p \in Procs |-> None]
  /\ read = [p \in Procs |-> None]
  /\ record = None
  /\ solo = 0

Acquire(p) ==
  \/ Enter(p) \/ Sweep(p) \/ Prepare(p) \/ Publish(p) \/ Tidy(p)
  \/ Inspect(p) \/ Probe(p) \/ Retry(p) \/ GiveUp(p)

Reclaim(p) ==
  PinLock(p) \/ Examine(p) \/ StatClaim(p) \/ Compare(p) \/ Remove(p) \/ Unclaim(p)

Use(p) == ReadRecord(p) \/ Commit(p) \/ Check(p) \/ Release(p)

Next == \E p \in Procs : Acquire(p) \/ Reclaim(p) \/ Use(p) \/ Die(p)

Spec == Init /\ [][Next]_vars

-----------------------------------------------------------------------------
Places ==
  {"unborn", "dead", "idle", "list", "sweep", "publish", "tidy", "inspect",
   "probe", "wait", "claim", "examine", "stat", "compare", "remove",
   "unclaim", "unclaim_removed"} \cup Holding

(* Types.  A process past its link to the lock has a claim to look at, and *)
(* one past its prepared file has that file.                               *)
Claiming == {"examine", "stat", "compare", "remove"}
TypeOK ==
  /\ dir \in [Names -> File \cup {None}]
  /\ pc \in [Procs -> Places]
  /\ todo \in [Procs -> SUBSET Leftover]
  /\ mine \in [Procs -> File \cup {None}]
  /\ saw \in [Procs -> Procs \cup {None}]
  /\ read \in [Procs -> R!Record \cup {None}]
  /\ record \in R!Record \cup {None}
  /\ solo \in 0..2
  /\ \A p \in Procs : pc[p] \in Claiming => dir[Claim(p)] # None
  /\ \A p \in Procs : mine[p] # None => Writer(mine[p]) = p

(* Two processes are never between taking and giving back the lock, though *)
(* several reclaim an abandoned one at once and die doing it.              *)
MutualExclusion ==
  \A p, q \in Procs : pc[p] \in Holding /\ pc[q] \in Holding => p = q

(* The error "session record lock ownership lost" (rotation.js:80) is      *)
(* never thrown: nobody removes or replaces the lock of a living holder.   *)
OwnershipNeverLost ==
  \A p \in Procs : pc[p] \in Holding => dir[Lock] = mine[p]

(* A reclaimer about to unlink the lock path unlinks what it examined: the *)
(* path still leads to the file of a dead process that it pinned.          *)
RemovesOnlyTheDead ==
  \A p \in Procs :
    pc[p] = "remove" =>
      /\ dir[Lock] = dir[Claim(p)] /\ dir[Lock] # None
      /\ ~ Running(Writer(dir[Lock]))

(* A process that is alone finds its way past whatever the dead left, a    *)
(* half-made lock or a half-made reclaim, with at most one wait, unless    *)
(* its own pid is the one a dead process had.                              *)
LeftoversAreRecovered ==
  solo > 1 => \E p, q \in Procs : Running(p) /\ ~ Running(q) /\ PidOf[p] = PidOf[q]

(* The record changes as if each command were one step.                    *)
RecordIsAtomic == R!Spec
=============================================================================
