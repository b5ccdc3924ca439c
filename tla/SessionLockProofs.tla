-------------------------- MODULE SessionLockProofs --------------------------
(***************************************************************************)
(* Theorems about SessionLock, for every set of processes and tokens and   *)
(* every assignment of pids, reused ones included.                         *)
(*                                                                         *)
(* The argument: whoever is about to unlink the lock path has it pinned    *)
(* and is the only one who has, so the path still leads to the file of a   *)
(* dead process; hence nobody unlinks the lock of a living holder, and     *)
(* whoever holds it finds it where it left it.                             *)
(***************************************************************************)
EXTENDS SessionLock, TLAPS, FiniteSetTheorems

-----------------------------------------------------------------------------
(* Names and links.                                                        *)

(* The lock path, the prepared files and the claims are different names.   *)
LEMMA NamesDiffer ==
  ASSUME NEW p \in Procs, NEW q \in Procs
  PROVE  /\ Lock \in Names /\ Prepared(p) \in Names /\ Claim(p) \in Names
         /\ Lock \notin Leftover
         /\ Lock # Prepared(p) /\ Lock # Claim(p) /\ Claim(p) # Prepared(q)
         /\ Claim(p) = Claim(q) => p = q
BY DEF Lock, Prepared, Claim, Names, Leftover

(* There are finitely many names.                                          *)
LEMMA FinitelyManyNames == IsFiniteSet(Names)
<1>1. IsFiniteSet({"owner", "reclaim"})
  <2>1. IsFiniteSet({"owner"} \cup {"reclaim"})
    BY FS_Singleton, FS_AddElement
  <2>2. {"owner"} \cup {"reclaim"} = {"owner", "reclaim"}
    OBVIOUS
  <2>3. QED
    BY <2>1, <2>2
<1>2. IsFiniteSet(Leftover)
  BY <1>1, FS_Product, ProcAssumption DEF Leftover
<1>3. QED
  BY <1>2, FS_AddElement DEF Names

(* Two different names of a file pinned once are all its names.            *)
LEMMA PinnedOnceHasTwoNames ==
  ASSUME NEW f, PinnedOnce(f),
         NEW a \in Links(f), NEW b \in Links(f), a # b, NEW c \in Links(f)
  PROVE  c = a \/ c = b
<1>1. IsFiniteSet(Links(f))
  BY FinitelyManyNames, FS_Subset DEF Links
<1> DEFINE One == Links(f) \ {a}
<1>2. IsFiniteSet(One) /\ Cardinality(One) = 1
  BY <1>1, FS_RemoveElement DEF PinnedOnce
<1>3. \E x : One = {x}
  BY <1>2, FS_Singleton
<1>4. QED
  BY <1>3

-----------------------------------------------------------------------------
(* A file has been written by a process that has lived.                    *)
WritersLived ==
  \A n \in Names : dir[n] # None => pc[Writer(dir[n])] # "unborn"

(* What a reclaimer has examined is the file of a dead process.            *)
ClaimsAreOfTheDead ==
  \A p \in Procs :
    pc[p] \in {"stat", "compare", "remove"} =>
      dir[Claim(p)] # None /\ pc[Writer(dir[Claim(p)])] = "dead"

(* The claim of the one about to remove the lock still matches it.         *)
RemoverHasLock ==
  \A p \in Procs : pc[p] = "remove" => dir[Lock] = dir[Claim(p)]

OneRemover ==
  \A p, q \in Procs : pc[p] = "remove" /\ pc[q] = "remove" => p = q

(* A prepared file is kept in mind until it is published or given up.      *)
PreparedIsMine ==
  \A p \in Procs : pc[p] \in {"publish"} \cup Holding => mine[p] # None

PinInv ==
  /\ WritersLived /\ ClaimsAreOfTheDead /\ RemoverHasLock
  /\ OneRemover /\ PreparedIsMine /\ OwnershipNeverLost

LockInv == TypeOK /\ PinInv

USE DEF Writer

-----------------------------------------------------------------------------
(* The initial state.                                                      *)
LEMMA InitLockInv == Init => LockInv
BY NamesDiffer
   DEF Init, LockInv, PinInv, TypeOK, WritersLived, ClaimsAreOfTheDead, RemoverHasLock,
       OneRemover, PreparedIsMine, OwnershipNeverLost, Places, Holding, Claiming

(* A step of p leaves every other process where it was.                    *)
LEMMA GoMovesOne ==
  ASSUME TypeOK, NEW p \in Procs, NEW l \in Places, Go(p, l)
  PROVE  /\ pc' \in [Procs -> Places]
         /\ pc'[p] = l
         /\ \A q \in Procs \ {p} : pc'[q] = pc[q]
         /\ solo' \in 0..2
BY DEF TypeOK, Go

(* Cleaning up takes no name of a living process, and never the lock.      *)
LEMMA SweepSparesTheLiving ==
  ASSUME TypeOK, NEW p \in Procs, Sweep(p)
  PROVE  /\ dir' \in [Names -> File \cup {None}]
         /\ todo' \in [Procs -> SUBSET Leftover]
         /\ dir'[Lock] = dir[Lock]
         /\ \A n \in Names : dir'[n] \in {dir[n], None}
         /\ \A q \in Procs : Running(q) => dir'[Claim(q)] = dir[Claim(q)]
<1>1. PICK n \in todo[p] :
        /\ dir' = IF IsLockOwnerAlive(n[2]) THEN dir ELSE [dir EXCEPT ![n] = None]
        /\ todo' = [todo EXCEPT ![p] = @ \ {n}]
  BY DEF Sweep
<1>2. n \in Leftover /\ n \in Names /\ n # Lock
  BY <1>1, NamesDiffer DEF TypeOK, Names
<1>3. ASSUME NEW q \in Procs, Running(q) PROVE dir'[Claim(q)] = dir[Claim(q)]
  <2>1. CASE n = Claim(q)
    BY <2>1, <1>1, <1>3 DEF Claim, IsLockOwnerAlive
  <2>2. CASE n # Claim(q)
    BY <2>2, <1>1, NamesDiffer DEF TypeOK
  <2>3. QED
    BY <2>1, <2>2
<1>4. QED
  BY <1>1, <1>2, <1>3, NamesDiffer DEF TypeOK

(* Every step keeps the types.                                             *)
LEMMA NextTypeOK ==
  ASSUME LockInv, [Next]_vars
  PROVE  TypeOK'
<1> USE DEF LockInv
<1>1. ASSUME NEW p \in Procs, Enter(p) PROVE TypeOK'
  BY <1>1, NamesDiffer, ProcAssumption
     DEF Enter, Go, TypeOK, File, Leftover, Places, Holding, Claiming, lockVars
<1>2. ASSUME NEW p \in Procs, Sweep(p) PROVE TypeOK'
  <2>1. /\ Go(p, "sweep") /\ "sweep" \in Places
        /\ UNCHANGED <<mine, saw, read, record>>
    BY <1>2 DEF Sweep, Places
  <2>2. \A q \in Procs : pc'[q] \in Claiming => Running(q) /\ pc[q] \in Claiming
    BY <2>1, GoMovesOne DEF Claiming, Running
  <2>3. QED
    BY <1>2, <2>1, <2>2, SweepSparesTheLiving, GoMovesOne DEF TypeOK
<1>3. ASSUME NEW p \in Procs, Prepare(p) PROVE TypeOK'
  BY <1>3, NamesDiffer, ProcAssumption
     DEF Prepare, Go, TypeOK, File, Leftover, Places, Holding, Claiming, lockVars
<1>4. ASSUME NEW p \in Procs, Publish(p) PROVE TypeOK'
  BY <1>4, NamesDiffer, ProcAssumption
     DEF Publish, Go, TypeOK, File, Leftover, Places, Holding, Claiming, lockVars
<1>5. ASSUME NEW p \in Procs, Tidy(p) PROVE TypeOK'
  BY <1>5, NamesDiffer, ProcAssumption
     DEF Tidy, Go, TypeOK, File, Leftover, Places, Holding, Claiming, lockVars
<1>6. ASSUME NEW p \in Procs, Inspect(p) PROVE TypeOK'
  BY <1>6, NamesDiffer, ProcAssumption
     DEF Inspect, Go, TypeOK, File, Leftover, Places, Holding, Claiming, lockVars
<1>7. ASSUME NEW p \in Procs, Probe(p) PROVE TypeOK'
  BY <1>7, NamesDiffer, ProcAssumption
     DEF Probe, Go, TypeOK, File, Leftover, Places, Holding, Claiming, lockVars
<1>8. ASSUME NEW p \in Procs, Retry(p) PROVE TypeOK'
  BY <1>8, NamesDiffer, ProcAssumption
     DEF Retry, Go, TypeOK, File, Leftover, Places, Holding, Claiming, lockVars
<1>9. ASSUME NEW p \in Procs, GiveUp(p) PROVE TypeOK'
  BY <1>9, NamesDiffer, ProcAssumption
     DEF GiveUp, Go, TypeOK, File, Leftover, Places, Holding, Claiming, lockVars
<1>10. ASSUME NEW p \in Procs, PinLock(p) PROVE TypeOK'
  BY <1>10, NamesDiffer, ProcAssumption
     DEF PinLock, Go, TypeOK, File, Leftover, Places, Holding, Claiming, lockVars
<1>11. ASSUME NEW p \in Procs, Examine(p) PROVE TypeOK'
  BY <1>11, NamesDiffer, ProcAssumption
     DEF Examine, Go, TypeOK, File, Leftover, Places, Holding, Claiming, lockVars
<1>12. ASSUME NEW p \in Procs, StatClaim(p) PROVE TypeOK'
  BY <1>12, NamesDiffer, ProcAssumption
     DEF StatClaim, Go, TypeOK, File, Leftover, Places, Holding, Claiming, lockVars
<1>13. ASSUME NEW p \in Procs, Compare(p) PROVE TypeOK'
  BY <1>13, NamesDiffer, ProcAssumption
     DEF Compare, Go, TypeOK, File, Leftover, Places, Holding, Claiming, lockVars
<1>14. ASSUME NEW p \in Procs, Remove(p) PROVE TypeOK'
  BY <1>14, NamesDiffer, ProcAssumption
     DEF Remove, Go, TypeOK, File, Leftover, Places, Holding, Claiming, lockVars
<1>15. ASSUME NEW p \in Procs, Unclaim(p) PROVE TypeOK'
  BY <1>15, NamesDiffer, ProcAssumption
     DEF Unclaim, Go, TypeOK, File, Leftover, Places, Holding, Claiming, lockVars
<1>16. ASSUME NEW p \in Procs, ReadRecord(p) PROVE TypeOK'
  BY <1>16, NamesDiffer, ProcAssumption
     DEF ReadRecord, Go, TypeOK, File, Leftover, Places, Holding, Claiming, lockVars
<1>17. ASSUME NEW p \in Procs, Commit(p) PROVE TypeOK'
  <2>1. record' \in R!Record \cup {None}
    BY <1>17 DEF Commit, TypeOK, R!Record, R!Started, R!Noted
  <2>2. /\ Go(p, "check") /\ "check" \in Places /\ "check" \notin Claiming
        /\ read' = [read EXCEPT ![p] = None] /\ UNCHANGED lockVars
    BY <1>17 DEF Commit, Places, Holding, Claiming
  <2>3. QED
    BY <2>1, <2>2, GoMovesOne DEF TypeOK, lockVars
<1>18. ASSUME NEW p \in Procs, Check(p) PROVE TypeOK'
  <2>1. mine' \in [Procs -> File \cup {None}]
        /\ \A q \in Procs : mine'[q] \in {mine[q], None}
    BY <1>18 DEF Check, TypeOK
  <2>2. PICK l \in {"release", "idle"} : Go(p, l)
    BY <1>18 DEF Check
  <2>3. UNCHANGED <<dir, todo, saw, read, record>>
    BY <1>18 DEF Check
  <2>4. QED
    BY <2>1, <2>2, <2>3, GoMovesOne DEF TypeOK, Places, Holding, Claiming
<1>19. ASSUME NEW p \in Procs, Release(p) PROVE TypeOK'
  BY <1>19, NamesDiffer, ProcAssumption
     DEF Release, Go, TypeOK, File, Leftover, Places, Holding, Claiming, lockVars
<1>20. ASSUME NEW p \in Procs, Die(p) PROVE TypeOK'
  BY <1>20, NamesDiffer, ProcAssumption
     DEF Die, Go, TypeOK, File, Leftover, Places, Holding, Claiming, lockVars
<1>21. CASE UNCHANGED vars
  BY <1>21 DEF TypeOK, vars, lockVars
<1>22. QED
  BY <1>1, <1>2, <1>3, <1>4, <1>5, <1>6, <1>7, <1>8, <1>9, <1>10, <1>11, <1>12, <1>13, <1>14, <1>15, <1>16, <1>17, <1>18, <1>19, <1>20, <1>21 DEF Next, Acquire, Reclaim, Use

(* What every step of p does to the places: only p moves, and neither      *)
(* comes back from the dead nor goes back to before its birth.             *)
Moves(p) ==
  /\ pc' \in [Procs -> Places]
  /\ \A q \in Procs \ {p} : pc'[q] = pc[q]
  /\ pc[p] # "dead" /\ pc'[p] # "unborn"

LEMMA StepMoves ==
  ASSUME LockInv, NEW p \in Procs, Acquire(p) \/ Reclaim(p) \/ Use(p) \/ Die(p)
  PROVE  Moves(p)
BY DEF LockInv, TypeOK, Moves, Go, Places, Holding, Running, Acquire, Reclaim, Use,
       Enter, Sweep, Prepare, Publish, Tidy, Inspect, Probe, Retry, GiveUp, PinLock,
       Examine, StatClaim, Compare, Remove, Unclaim, ReadRecord, Commit, Check,
       Release, Die

(* Names lead to files of processes that have lived, if the new ones do.   *)
LEMMA KeepWritersLived ==
  ASSUME TypeOK, WritersLived, NEW p \in Procs, Moves(p),
         \A n \in Names : \/ dir'[n] \in {None, dir[n], dir[Lock]}
                           \/ Writer(dir'[n]) = p
  PROVE  WritersLived'
<1> SUFFICES ASSUME NEW n \in Names, dir'[n] # None
             PROVE  pc'[Writer(dir'[n])] # "unborn"
  BY DEF WritersLived
<1>1. CASE Writer(dir'[n]) = p
  BY <1>1 DEF Moves
<1>2. CASE dir'[n] \in {dir[n], dir[Lock]}
  <2>1. dir'[n] \in File /\ pc[Writer(dir'[n])] # "unborn"
    BY <1>2, NamesDiffer DEF TypeOK, WritersLived
  <2>2. Writer(dir'[n]) \in Procs
    BY <2>1 DEF File
  <2>3. QED
    BY <2>1, <2>2 DEF Moves
<1>3. QED
  BY <1>1, <1>2

(* Claims stay of the dead, if p's does and it leaves the others alone.    *)
LEMMA KeepClaimsOfTheDead ==
  ASSUME TypeOK, ClaimsAreOfTheDead, NEW p \in Procs, Moves(p),
         \A q \in Procs \ {p} : Running(q) => dir'[Claim(q)] = dir[Claim(q)],
         pc'[p] \in {"stat", "compare", "remove"} =>
           /\ dir'[Claim(p)] = dir[Claim(p)]
           /\ dir[Claim(p)] # None /\ pc[Writer(dir[Claim(p)])] = "dead"
  PROVE  ClaimsAreOfTheDead'
<1> SUFFICES ASSUME NEW q \in Procs, pc'[q] \in {"stat", "compare", "remove"}
             PROVE  dir'[Claim(q)] # None /\ pc'[Writer(dir'[Claim(q)])] = "dead"
  BY DEF ClaimsAreOfTheDead
<1>1. /\ dir'[Claim(q)] = dir[Claim(q)] /\ dir[Claim(q)] # None
      /\ pc[Writer(dir[Claim(q)])] = "dead"
  BY DEF Moves, ClaimsAreOfTheDead, Running
<1>2. Writer(dir[Claim(q)]) \in Procs
  BY <1>1, NamesDiffer DEF TypeOK, File
<1>3. pc'[Writer(dir[Claim(q)])] = "dead"
  BY <1>1, <1>2 DEF Moves
<1>4. QED
  BY <1>1, <1>3

(* Every step keeps what is known of the pins and of the holder.           *)
LEMMA NextPinInv ==
  ASSUME LockInv, [Next]_vars
  PROVE  PinInv'
<1> USE DEF LockInv
<1>1. ASSUME NEW p \in Procs, Enter(p) PROVE PinInv'
  BY <1>1, NamesDiffer, ProcAssumption
     DEF Enter, Go, TypeOK, PinInv, WritersLived, ClaimsAreOfTheDead, RemoverHasLock,
         OneRemover, PreparedIsMine, OwnershipNeverLost, Holding, Claiming, lockVars
<1>2. ASSUME NEW p \in Procs, Sweep(p) PROVE PinInv'
  <2>1. WritersLived'
    BY <1>2, NamesDiffer, ProcAssumption
       DEF Sweep, Go, TypeOK, PinInv, WritersLived, ClaimsAreOfTheDead,
           RemoverHasLock, OneRemover, PreparedIsMine, OwnershipNeverLost,
           Holding, Claiming, lockVars
  <2>2. ClaimsAreOfTheDead'
    <3>1. pc'[p] = "sweep"
      BY <1>2 DEF Sweep, Go, TypeOK
    <3>2. QED
      BY <1>2, <3>1, SweepSparesTheLiving, StepMoves, KeepClaimsOfTheDead
         DEF PinInv, Acquire
  <2>3. RemoverHasLock'
    <3>1. \A q \in Procs : pc'[q] = "remove" => pc[q] = "remove" /\ Running(q)
      BY <1>2 DEF Sweep, Go, TypeOK, Running
    <3>2. QED
      BY <1>2, <3>1, SweepSparesTheLiving DEF PinInv, RemoverHasLock
  <2>4. OneRemover'
    BY <1>2, NamesDiffer, ProcAssumption
       DEF Sweep, Go, TypeOK, PinInv, WritersLived, ClaimsAreOfTheDead,
           RemoverHasLock, OneRemover, PreparedIsMine, OwnershipNeverLost,
           Holding, Claiming, lockVars
  <2>5. PreparedIsMine'
    BY <1>2, NamesDiffer, ProcAssumption
       DEF Sweep, Go, TypeOK, PinInv, WritersLived, ClaimsAreOfTheDead,
           RemoverHasLock, OneRemover, PreparedIsMine, OwnershipNeverLost,
           Holding, Claiming, lockVars
  <2>6. OwnershipNeverLost'
    BY <1>2, NamesDiffer, ProcAssumption
       DEF Sweep, Go, TypeOK, PinInv, WritersLived, ClaimsAreOfTheDead,
           RemoverHasLock, OneRemover, PreparedIsMine, OwnershipNeverLost,
           Holding, Claiming, lockVars
  <2>7. QED
    BY <2>1, <2>2, <2>3, <2>4, <2>5, <2>6 DEF PinInv
<1>3. ASSUME NEW p \in Procs, Prepare(p) PROVE PinInv'
  BY <1>3, NamesDiffer, ProcAssumption
     DEF Prepare, Go, TypeOK, PinInv, WritersLived, ClaimsAreOfTheDead, RemoverHasLock,
         OneRemover, PreparedIsMine, OwnershipNeverLost, Holding, Claiming, lockVars
<1>4. ASSUME NEW p \in Procs, Publish(p) PROVE PinInv'
  <2>1. WritersLived'
    <3>1. \A n \in Names : \/ dir'[n] \in {None, dir[n], dir[Lock]}
                           \/ Writer(dir'[n]) = p
      BY <1>4, NamesDiffer DEF Publish, Go, PinInv, TypeOK, PreparedIsMine, Holding, Claiming
    <3>2. QED
      BY <1>4, <3>1, StepMoves, KeepWritersLived DEF PinInv, Acquire, Reclaim
  <2>2. ClaimsAreOfTheDead'
    <3>1. \A q \in Procs \ {p} : dir'[Claim(q)] = dir[Claim(q)]
      BY <1>4, NamesDiffer DEF Publish, TypeOK
    <3>2. pc'[p] \notin {"stat", "compare", "remove"}
      BY <1>4 DEF Publish, Go, TypeOK
    <3>3. QED
      BY <1>4, <3>1, <3>2, StepMoves, KeepClaimsOfTheDead DEF PinInv, Acquire, Reclaim
  <2>3. RemoverHasLock'
    BY <1>4, NamesDiffer, ProcAssumption
       DEF Publish, Go, TypeOK, PinInv, WritersLived, ClaimsAreOfTheDead,
           RemoverHasLock, OneRemover, PreparedIsMine, OwnershipNeverLost,
           Holding, Claiming, lockVars
  <2>4. OneRemover'
    BY <1>4, NamesDiffer, ProcAssumption
       DEF Publish, Go, TypeOK, PinInv, WritersLived, ClaimsAreOfTheDead,
           RemoverHasLock, OneRemover, PreparedIsMine, OwnershipNeverLost,
           Holding, Claiming, lockVars
  <2>5. PreparedIsMine'
    BY <1>4, NamesDiffer, ProcAssumption
       DEF Publish, Go, TypeOK, PinInv, WritersLived, ClaimsAreOfTheDead,
           RemoverHasLock, OneRemover, PreparedIsMine, OwnershipNeverLost,
           Holding, Claiming, lockVars
  <2>6. OwnershipNeverLost'
    BY <1>4, NamesDiffer, ProcAssumption
       DEF Publish, Go, TypeOK, PinInv, WritersLived, ClaimsAreOfTheDead,
           RemoverHasLock, OneRemover, PreparedIsMine, OwnershipNeverLost,
           Holding, Claiming, lockVars
  <2>7. QED
    BY <2>1, <2>2, <2>3, <2>4, <2>5, <2>6 DEF PinInv
<1>5. ASSUME NEW p \in Procs, Tidy(p) PROVE PinInv'
  <2>1. WritersLived'
    <3>1. \A n \in Names : \/ dir'[n] \in {None, dir[n], dir[Lock]}
                           \/ Writer(dir'[n]) = p
      BY <1>5, NamesDiffer DEF Tidy, Go, PinInv, TypeOK, Claiming
    <3>2. QED
      BY <1>5, <3>1, StepMoves, KeepWritersLived DEF PinInv, Acquire, Reclaim
  <2>2. ClaimsAreOfTheDead'
    <3>1. \A q \in Procs \ {p} : dir'[Claim(q)] = dir[Claim(q)]
      BY <1>5, NamesDiffer DEF Tidy, TypeOK
    <3>2. pc'[p] \notin {"stat", "compare", "remove"}
      BY <1>5 DEF Tidy, Go, TypeOK
    <3>3. QED
      BY <1>5, <3>1, <3>2, StepMoves, KeepClaimsOfTheDead DEF PinInv, Acquire, Reclaim
  <2>3. RemoverHasLock'
    BY <1>5, NamesDiffer, ProcAssumption
       DEF Tidy, Go, TypeOK, PinInv, WritersLived, ClaimsAreOfTheDead,
           RemoverHasLock, OneRemover, PreparedIsMine, OwnershipNeverLost,
           Holding, Claiming, lockVars
  <2>4. OneRemover'
    BY <1>5, NamesDiffer, ProcAssumption
       DEF Tidy, Go, TypeOK, PinInv, WritersLived, ClaimsAreOfTheDead,
           RemoverHasLock, OneRemover, PreparedIsMine, OwnershipNeverLost,
           Holding, Claiming, lockVars
  <2>5. PreparedIsMine'
    BY <1>5, NamesDiffer, ProcAssumption
       DEF Tidy, Go, TypeOK, PinInv, WritersLived, ClaimsAreOfTheDead,
           RemoverHasLock, OneRemover, PreparedIsMine, OwnershipNeverLost,
           Holding, Claiming, lockVars
  <2>6. OwnershipNeverLost'
    BY <1>5, NamesDiffer, ProcAssumption
       DEF Tidy, Go, TypeOK, PinInv, WritersLived, ClaimsAreOfTheDead,
           RemoverHasLock, OneRemover, PreparedIsMine, OwnershipNeverLost,
           Holding, Claiming, lockVars
  <2>7. QED
    BY <2>1, <2>2, <2>3, <2>4, <2>5, <2>6 DEF PinInv
<1>6. ASSUME NEW p \in Procs, Inspect(p) PROVE PinInv'
  BY <1>6, NamesDiffer, ProcAssumption
     DEF Inspect, Go, TypeOK, PinInv, WritersLived, ClaimsAreOfTheDead, RemoverHasLock,
         OneRemover, PreparedIsMine, OwnershipNeverLost, Holding, Claiming, lockVars
<1>7. ASSUME NEW p \in Procs, Probe(p) PROVE PinInv'
  BY <1>7, NamesDiffer, ProcAssumption
     DEF Probe, Go, TypeOK, PinInv, WritersLived, ClaimsAreOfTheDead, RemoverHasLock,
         OneRemover, PreparedIsMine, OwnershipNeverLost, Holding, Claiming, lockVars
<1>8. ASSUME NEW p \in Procs, Retry(p) PROVE PinInv'
  BY <1>8, NamesDiffer, ProcAssumption
     DEF Retry, Go, TypeOK, PinInv, WritersLived, ClaimsAreOfTheDead, RemoverHasLock,
         OneRemover, PreparedIsMine, OwnershipNeverLost, Holding, Claiming, lockVars
<1>9. ASSUME NEW p \in Procs, GiveUp(p) PROVE PinInv'
  BY <1>9, NamesDiffer, ProcAssumption
     DEF GiveUp, Go, TypeOK, PinInv, WritersLived, ClaimsAreOfTheDead, RemoverHasLock,
         OneRemover, PreparedIsMine, OwnershipNeverLost, Holding, Claiming, lockVars
<1>10. ASSUME NEW p \in Procs, PinLock(p) PROVE PinInv'
  <2>1. WritersLived'
    <3>1. \A n \in Names : \/ dir'[n] \in {None, dir[n], dir[Lock]}
                           \/ Writer(dir'[n]) = p
      BY <1>10, NamesDiffer DEF PinLock, Go, PinInv, TypeOK, Claiming
    <3>2. QED
      BY <1>10, <3>1, StepMoves, KeepWritersLived DEF PinInv, Acquire, Reclaim
  <2>2. ClaimsAreOfTheDead'
    <3>1. \A q \in Procs \ {p} : dir'[Claim(q)] = dir[Claim(q)]
      BY <1>10, NamesDiffer DEF PinLock, TypeOK
    <3>2. pc'[p] \notin {"stat", "compare", "remove"}
      BY <1>10 DEF PinLock, Go, TypeOK
    <3>3. QED
      BY <1>10, <3>1, <3>2, StepMoves, KeepClaimsOfTheDead DEF PinInv, Acquire, Reclaim
  <2>3. RemoverHasLock'
    BY <1>10, NamesDiffer, ProcAssumption
       DEF PinLock, Go, TypeOK, PinInv, WritersLived, ClaimsAreOfTheDead,
           RemoverHasLock, OneRemover, PreparedIsMine, OwnershipNeverLost,
           Holding, Claiming, lockVars
  <2>4. OneRemover'
    BY <1>10, NamesDiffer, ProcAssumption
       DEF PinLock, Go, TypeOK, PinInv, WritersLived, ClaimsAreOfTheDead,
           RemoverHasLock, OneRemover, PreparedIsMine, OwnershipNeverLost,
           Holding, Claiming, lockVars
  <2>5. PreparedIsMine'
    BY <1>10, NamesDiffer, ProcAssumption
       DEF PinLock, Go, TypeOK, PinInv, WritersLived, ClaimsAreOfTheDead,
           RemoverHasLock, OneRemover, PreparedIsMine, OwnershipNeverLost,
           Holding, Claiming, lockVars
  <2>6. OwnershipNeverLost'
    BY <1>10, NamesDiffer, ProcAssumption
       DEF PinLock, Go, TypeOK, PinInv, WritersLived, ClaimsAreOfTheDead,
           RemoverHasLock, OneRemover, PreparedIsMine, OwnershipNeverLost,
           Holding, Claiming, lockVars
  <2>7. QED
    BY <2>1, <2>2, <2>3, <2>4, <2>5, <2>6 DEF PinInv
<1>11. ASSUME NEW p \in Procs, Examine(p) PROVE PinInv'
  <2>1. WritersLived'
    BY <1>11, NamesDiffer, ProcAssumption
       DEF Examine, Go, TypeOK, PinInv, WritersLived, ClaimsAreOfTheDead,
           RemoverHasLock, OneRemover, PreparedIsMine, OwnershipNeverLost,
           Holding, Claiming, lockVars
  <2>2. ClaimsAreOfTheDead'
    <3>1. Writer(dir[Claim(p)]) \in Procs /\ dir[Claim(p)] # None
      BY <1>11, NamesDiffer DEF Examine, TypeOK, Claiming, File
    <3>2. pc'[p] = "stat" => pc[Writer(dir[Claim(p)])] = "dead"
      BY <1>11, <3>1, NamesDiffer
         DEF Examine, Go, TypeOK, PinInv, WritersLived, IsLockOwnerAlive, Running
    <3>3. dir' = dir /\ pc'[p] \in {"stat", "unclaim"}
      BY <1>11 DEF Examine, Go, TypeOK, lockVars
    <3>4. QED
      BY <1>11, <3>1, <3>2, <3>3, StepMoves, KeepClaimsOfTheDead DEF PinInv, Reclaim
  <2>3. RemoverHasLock'
    BY <1>11, NamesDiffer, ProcAssumption
       DEF Examine, Go, TypeOK, PinInv, WritersLived, ClaimsAreOfTheDead,
           RemoverHasLock, OneRemover, PreparedIsMine, OwnershipNeverLost,
           Holding, Claiming, lockVars
  <2>4. OneRemover'
    BY <1>11, NamesDiffer, ProcAssumption
       DEF Examine, Go, TypeOK, PinInv, WritersLived, ClaimsAreOfTheDead,
           RemoverHasLock, OneRemover, PreparedIsMine, OwnershipNeverLost,
           Holding, Claiming, lockVars
  <2>5. PreparedIsMine'
    BY <1>11, NamesDiffer, ProcAssumption
       DEF Examine, Go, TypeOK, PinInv, WritersLived, ClaimsAreOfTheDead,
           RemoverHasLock, OneRemover, PreparedIsMine, OwnershipNeverLost,
           Holding, Claiming, lockVars
  <2>6. OwnershipNeverLost'
    BY <1>11, NamesDiffer, ProcAssumption
       DEF Examine, Go, TypeOK, PinInv, WritersLived, ClaimsAreOfTheDead,
           RemoverHasLock, OneRemover, PreparedIsMine, OwnershipNeverLost,
           Holding, Claiming, lockVars
  <2>7. QED
    BY <2>1, <2>2, <2>3, <2>4, <2>5, <2>6 DEF PinInv
<1>12. ASSUME NEW p \in Procs, StatClaim(p) PROVE PinInv'
  BY <1>12, NamesDiffer, ProcAssumption
     DEF StatClaim, Go, TypeOK, PinInv, WritersLived, ClaimsAreOfTheDead, RemoverHasLock,
         OneRemover, PreparedIsMine, OwnershipNeverLost, Holding, Claiming, lockVars
<1>13. ASSUME NEW p \in Procs, Compare(p) PROVE PinInv'
  <2>1. WritersLived'
    BY <1>13, NamesDiffer, ProcAssumption
       DEF Compare, Go, TypeOK, PinInv, WritersLived, ClaimsAreOfTheDead,
           RemoverHasLock, OneRemover, PreparedIsMine, OwnershipNeverLost,
           Holding, Claiming, lockVars
  <2>2. ClaimsAreOfTheDead'
    BY <1>13, NamesDiffer, ProcAssumption
       DEF Compare, Go, TypeOK, PinInv, WritersLived, ClaimsAreOfTheDead,
           RemoverHasLock, OneRemover, PreparedIsMine, OwnershipNeverLost,
           Holding, Claiming, lockVars
  <2>3. RemoverHasLock'
    BY <1>13, NamesDiffer, ProcAssumption
       DEF Compare, Go, TypeOK, PinInv, WritersLived, ClaimsAreOfTheDead,
           RemoverHasLock, OneRemover, PreparedIsMine, OwnershipNeverLost,
           Holding, Claiming, lockVars
  <2>4. OneRemover'
    <3>1. pc'[p] = "remove" =>
            dir[Lock] = dir[Claim(p)] /\ dir[Lock] # None /\ PinnedOnce(dir[Lock])
      BY <1>13 DEF Compare, Go, TypeOK, Claiming
    <3>2. ASSUME NEW q \in Procs \ {p}, pc[q] = "remove", pc'[p] = "remove"
          PROVE  FALSE
      <4>1. dir[Claim(q)] = dir[Lock]
        BY <3>2 DEF PinInv, RemoverHasLock
      <4>2. {Lock, Claim(p), Claim(q)} \subseteq Links(dir[Lock])
        BY <3>1, <3>2, <4>1, NamesDiffer DEF Links
      <4>3. QED
        BY <3>1, <3>2, <4>2, NamesDiffer, PinnedOnceHasTwoNames
    <3>3. QED
      BY <1>13, <3>2, StepMoves DEF PinInv, OneRemover, Moves, Reclaim
  <2>5. PreparedIsMine'
    BY <1>13, NamesDiffer, ProcAssumption
       DEF Compare, Go, TypeOK, PinInv, WritersLived, ClaimsAreOfTheDead,
           RemoverHasLock, OneRemover, PreparedIsMine, OwnershipNeverLost,
           Holding, Claiming, lockVars
  <2>6. OwnershipNeverLost'
    BY <1>13, NamesDiffer, ProcAssumption
       DEF Compare, Go, TypeOK, PinInv, WritersLived, ClaimsAreOfTheDead,
           RemoverHasLock, OneRemover, PreparedIsMine, OwnershipNeverLost,
           Holding, Claiming, lockVars
  <2>7. QED
    BY <2>1, <2>2, <2>3, <2>4, <2>5, <2>6 DEF PinInv
<1>14. ASSUME NEW p \in Procs, Remove(p) PROVE PinInv'
  BY <1>14, NamesDiffer, ProcAssumption
     DEF Remove, Go, TypeOK, PinInv, WritersLived, ClaimsAreOfTheDead, RemoverHasLock,
         OneRemover, PreparedIsMine, OwnershipNeverLost, Holding, Claiming, lockVars
<1>15. ASSUME NEW p \in Procs, Unclaim(p) PROVE PinInv'
  BY <1>15, NamesDiffer, ProcAssumption
     DEF Unclaim, Go, TypeOK, PinInv, WritersLived, ClaimsAreOfTheDead, RemoverHasLock,
         OneRemover, PreparedIsMine, OwnershipNeverLost, Holding, Claiming, lockVars
<1>16. ASSUME NEW p \in Procs, ReadRecord(p) PROVE PinInv'
  BY <1>16, NamesDiffer, ProcAssumption
     DEF ReadRecord, Go, TypeOK, PinInv, WritersLived, ClaimsAreOfTheDead, RemoverHasLock,
         OneRemover, PreparedIsMine, OwnershipNeverLost, Holding, Claiming, lockVars
<1>17. ASSUME NEW p \in Procs, Commit(p) PROVE PinInv'
  BY <1>17, NamesDiffer, ProcAssumption
     DEF Commit, Go, TypeOK, PinInv, WritersLived, ClaimsAreOfTheDead, RemoverHasLock,
         OneRemover, PreparedIsMine, OwnershipNeverLost, Holding, Claiming, lockVars
<1>18. ASSUME NEW p \in Procs, Check(p) PROVE PinInv'
  <2>1. WritersLived'
    <3>1. dir' = dir /\ pc'[p] \in {"release", "idle"}
      BY <1>18 DEF Check, Go, TypeOK
    <3>2. QED
      BY <1>18, <3>1, StepMoves, KeepWritersLived DEF PinInv, Use
  <2>2. ClaimsAreOfTheDead'
    <3>1. dir' = dir /\ pc'[p] \in {"release", "idle"}
      BY <1>18 DEF Check, Go, TypeOK
    <3>2. QED
      BY <1>18, <3>1, StepMoves, KeepClaimsOfTheDead DEF PinInv, Use
  <2>3. RemoverHasLock'
    BY <1>18, NamesDiffer, ProcAssumption
       DEF Check, Go, TypeOK, PinInv, WritersLived, ClaimsAreOfTheDead,
           RemoverHasLock, OneRemover, PreparedIsMine, OwnershipNeverLost,
           Holding, Claiming, lockVars
  <2>4. OneRemover'
    BY <1>18, NamesDiffer, ProcAssumption
       DEF Check, Go, TypeOK, PinInv, WritersLived, ClaimsAreOfTheDead,
           RemoverHasLock, OneRemover, PreparedIsMine, OwnershipNeverLost,
           Holding, Claiming, lockVars
  <2>5. PreparedIsMine'
    BY <1>18, NamesDiffer, ProcAssumption
       DEF Check, Go, TypeOK, PinInv, WritersLived, ClaimsAreOfTheDead,
           RemoverHasLock, OneRemover, PreparedIsMine, OwnershipNeverLost,
           Holding, Claiming, lockVars
  <2>6. OwnershipNeverLost'
    BY <1>18, NamesDiffer, ProcAssumption
       DEF Check, Go, TypeOK, PinInv, WritersLived, ClaimsAreOfTheDead,
           RemoverHasLock, OneRemover, PreparedIsMine, OwnershipNeverLost,
           Holding, Claiming, lockVars
  <2>7. QED
    BY <2>1, <2>2, <2>3, <2>4, <2>5, <2>6 DEF PinInv
<1>19. ASSUME NEW p \in Procs, Release(p) PROVE PinInv'
  BY <1>19, NamesDiffer, ProcAssumption
     DEF Release, Go, TypeOK, PinInv, WritersLived, ClaimsAreOfTheDead, RemoverHasLock,
         OneRemover, PreparedIsMine, OwnershipNeverLost, Holding, Claiming, lockVars
<1>20. ASSUME NEW p \in Procs, Die(p) PROVE PinInv'
  BY <1>20, NamesDiffer, ProcAssumption
     DEF Die, Go, TypeOK, PinInv, WritersLived, ClaimsAreOfTheDead, RemoverHasLock,
         OneRemover, PreparedIsMine, OwnershipNeverLost, Holding, Claiming, lockVars
<1>21. CASE UNCHANGED vars
  BY <1>21 DEF PinInv, WritersLived, ClaimsAreOfTheDead, RemoverHasLock,
       OneRemover, PreparedIsMine, OwnershipNeverLost, vars, lockVars
<1>22. QED
  BY <1>1, <1>2, <1>3, <1>4, <1>5, <1>6, <1>7, <1>8, <1>9, <1>10, <1>11, <1>12, <1>13, <1>14, <1>15, <1>16, <1>17, <1>18, <1>19, <1>20, <1>21 DEF Next, Acquire, Reclaim, Use

LEMMA LockInvariant == Spec => []LockInv
<1>1. LockInv /\ [Next]_vars => LockInv'
  BY NextTypeOK, NextPinInv DEF LockInv
<1>2. QED
  BY InitLockInv, <1>1, PTL DEF Spec

-----------------------------------------------------------------------------
(* Every variable keeps its type.                                          *)
THEOREM LockTypes == Spec => []TypeOK
<1>1. LockInv => TypeOK
  BY DEF LockInv
<1>2. QED
  BY <1>1, LockInvariant, PTL

(* Nobody ever finds the lock it took replaced or removed: the error of    *)
(* releaseOwnedLock is unreachable.                                        *)
THEOREM OwnershipKept == Spec => []OwnershipNeverLost
<1>1. LockInv => OwnershipNeverLost
  BY DEF LockInv, PinInv
<1>2. QED
  BY <1>1, LockInvariant, PTL

(* Reclaiming removes the lock of a dead process only.                     *)
THEOREM OnlyTheDeadAreRemoved == Spec => []RemovesOnlyTheDead
<1>1. LockInv => RemovesOnlyTheDead
  BY DEF LockInv, PinInv, RemovesOnlyTheDead, RemoverHasLock, ClaimsAreOfTheDead,
         Running
<1>2. QED
  BY <1>1, LockInvariant, PTL

(* At most one process is between taking the lock and giving it back.      *)
LEMMA LockInvExcludes == LockInv => MutualExclusion
BY DEF LockInv, PinInv, TypeOK, OwnershipNeverLost, PreparedIsMine, MutualExclusion

THEOREM Exclusion == Spec => []MutualExclusion
BY LockInvExcludes, LockInvariant, PTL

-----------------------------------------------------------------------------
(* What was read under the lock is still the record when it is written.    *)
ReadIsCurrent == \A p \in Procs : pc[p] = "commit" => read[p] = record

LEMMA NextReadIsCurrent ==
  ASSUME LockInv, ReadIsCurrent, [Next]_vars
  PROVE  ReadIsCurrent'
<1>1. ASSUME NEW p \in Procs, Commit(p) PROVE ReadIsCurrent'
  <2>1. \A q \in Procs \ {p} : pc[q] # "commit"
    BY <1>1, LockInvExcludes DEF Commit, MutualExclusion, Holding
  <2>2. \A q \in Procs : pc'[q] # "commit"
    BY <1>1, <2>1 DEF Commit, Go, LockInv, TypeOK
  <2>3. QED
    BY <2>2 DEF ReadIsCurrent
<1>2. ASSUME NEW p \in Procs, ReadRecord(p) PROVE ReadIsCurrent'
  BY <1>2 DEF ReadRecord, Go, LockInv, TypeOK, ReadIsCurrent
<1>3. ASSUME NEW p \in Procs, Die(p) PROVE ReadIsCurrent'
  BY <1>3 DEF Die, LockInv, TypeOK, ReadIsCurrent
<1>4. ASSUME NEW p \in Procs, Acquire(p) \/ Reclaim(p) \/ Check(p) \/ Release(p)
      PROVE  ReadIsCurrent'
  <2>1. UNCHANGED <<read, record>> /\ pc'[p] # "commit"
    BY <1>4 DEF LockInv, TypeOK, Go, lockVars, Acquire, Reclaim, Enter, Sweep, Prepare,
        Publish, Tidy, Inspect, Probe, Retry, GiveUp, PinLock, Examine, StatClaim,
        Compare, Remove, Unclaim, Check, Release
  <2>2. QED
    BY <1>4, <2>1, StepMoves DEF Moves, Use, ReadIsCurrent
<1>5. CASE UNCHANGED vars
  BY <1>5 DEF vars, ReadIsCurrent
<1>6. QED
  BY <1>1, <1>2, <1>3, <1>4, <1>5 DEF Next, Use

(* Commands that take the lock change the record as if each were one step  *)
(* on the record the one before it left.                                   *)
THEOREM LockMakesRecordAtomic == Spec => RecordIsAtomic
<1>1. Init => R!Init
  BY DEF Init, R!Init
<1>2. LockInv /\ ReadIsCurrent /\ [Next]_vars => [R!Next]_record
  <2> SUFFICES ASSUME LockInv, ReadIsCurrent, [Next]_vars PROVE [R!Next]_record
    OBVIOUS
  <2>1. ASSUME NEW p \in Procs, Commit(p) PROVE [R!Next]_record
    <3>1. read[p] = record
      BY <2>1 DEF Commit, ReadIsCurrent
    <3>2. QED
      BY <2>1, <3>1 DEF Commit, R!Next, R!Register, R!Note, R!Invalidate
  <2>2. ASSUME NEW p \in Procs, Acquire(p) \/ Reclaim(p) \/ Die(p)
        PROVE  record' = record
    BY <2>2 DEF lockVars, Acquire, Reclaim, Enter, Sweep, Prepare,
        Publish, Tidy, Inspect, Probe, Retry, GiveUp, PinLock, Examine, StatClaim,
        Compare, Remove, Unclaim, Die
  <2>3. ASSUME NEW p \in Procs, ReadRecord(p) \/ Check(p) \/ Release(p)
        PROVE  record' = record
    BY <2>3 DEF lockVars, ReadRecord, Check, Release
  <2>4. CASE UNCHANGED vars
    BY <2>4 DEF vars
  <2>5. QED
    BY <2>1, <2>2, <2>3, <2>4 DEF Next, Use
<1>3. Init => ReadIsCurrent
  BY DEF Init, ReadIsCurrent
<1>4. LockInv /\ ReadIsCurrent /\ [Next]_vars => ReadIsCurrent'
  BY NextReadIsCurrent
<1>5. QED
  BY <1>1, <1>2, <1>3, <1>4, LockInvariant, PTL DEF Spec, RecordIsAtomic, R!Spec

-----------------------------------------------------------------------------
(* Recovery.  A living process knows its own links: it has a claim only    *)
(* while it reclaims, a prepared file only until it is tidied.             *)
OwnLinks ==
  \A p \in Procs : pc[p] # "dead" =>
    /\ dir[Claim(p)] # None => pc[p] \in Claiming \cup {"unclaim", "unclaim_removed"}
    /\ dir[Prepared(p)] # None => pc[p] \in {"publish", "tidy", "tidy_held"}

(* The lock of a living process is the lock of one that holds it.          *)
LockIsHeld ==
  dir[Lock] # None /\ Running(Writer(dir[Lock])) => pc[Writer(dir[Lock])] \in Holding

(* Nobody is dead, or not yet born, under p's pid.                         *)
OwnsPid(p) == \A q \in Procs : ~ Running(q) => PidOf[q] # PidOf[p]

(* The names of ns are all that can be left of prepared files and claims.  *)
SweptBut(ns) == \A n \in Leftover \ ns : dir[n] = None

(* A process that has swept the directory alone is on its way to the lock: *)
(* what it meets at the lock path is of the dead and pinned by nobody else.*)
FindsItsWay(p) ==
  /\ pc[p] \notin {"wait", "unclaim"}
  /\ pc[p] = "sweep" => SweptBut(todo[p])
  /\ pc[p] \in {"publish", "tidy", "tidy_held"} => SweptBut({Prepared(p)})
  /\ pc[p] \in {"inspect", "probe", "claim"} => SweptBut({})
  /\ pc[p] \in Claiming => SweptBut({Claim(p)}) /\ dir[Claim(p)] = dir[Lock]
  /\ pc[p] \in {"tidy", "inspect", "probe", "claim"} \cup Claiming =>
       dir[Lock] # None /\ ~ Running(Writer(dir[Lock]))
  /\ pc[p] = "probe" /\ saw[p] # None => ~ Running(saw[p])

(* A process that has waited while alone finds its way from then on.       *)
LoneProcess ==
  solo > 0 => \E p \in Procs : /\ Running(p) /\ Alone(p)
                               /\ OwnsPid(p) => solo = 1 /\ FindsItsWay(p)

RecoveryInv == OwnLinks /\ LockIsHeld /\ LoneProcess

LEMMA OwnLinksKept ==
  ASSUME LockInv, OwnLinks, [Next]_vars
  PROVE  OwnLinks'
<1> USE DEF LockInv
<1>1. ASSUME NEW p \in Procs, Moves(p),
             \A q \in Procs \ {p} : /\ dir'[Claim(q)] \in {dir[Claim(q)], None}
                                    /\ dir'[Prepared(q)] \in {dir[Prepared(q)], None},
             pc'[p] # "dead" =>
               /\ dir'[Claim(p)] # None =>
                    pc'[p] \in Claiming \cup {"unclaim", "unclaim_removed"}
               /\ dir'[Prepared(p)] # None =>
                    pc'[p] \in {"publish", "tidy", "tidy_held"}
      PROVE  OwnLinks'
  BY <1>1 DEF OwnLinks, Moves
<1>2. ASSUME NEW p \in Procs,
             Enter(p) \/ Publish(p) \/ Tidy(p) \/ Inspect(p) \/ Probe(p) \/ Prepare(p)
             \/ PinLock(p) \/ Examine(p) \/ StatClaim(p) \/ Compare(p)
             \/ Remove(p) \/ Unclaim(p)
      PROVE  OwnLinks'
  <2>1. Moves(p)
    BY <1>2, StepMoves DEF Acquire, Reclaim
  <2>2. \A q \in Procs \ {p} : /\ dir'[Claim(q)] \in {dir[Claim(q)], None}
                               /\ dir'[Prepared(q)] \in {dir[Prepared(q)], None}
    BY <1>2, NamesDiffer DEF TypeOK, lockVars, Enter, Publish, Tidy, Inspect, Probe, Prepare,
       PinLock, Examine, StatClaim, Compare, Remove, Unclaim, Prepared, Claim, Lock
  <2>3. /\ dir'[Claim(p)] # None =>
             pc'[p] \in Claiming \cup {"unclaim", "unclaim_removed"}
        /\ dir'[Prepared(p)] # None => pc'[p] \in {"publish", "tidy", "tidy_held"}
    BY <1>2, NamesDiffer DEF OwnLinks, TypeOK, Go, lockVars, Claiming, Enter, Publish, Tidy,
       Inspect, Probe, Prepare, PinLock, Examine, StatClaim, Compare, Remove, Unclaim
  <2> QED
    BY <1>1, <2>1, <2>2, <2>3
<1>3. ASSUME NEW p \in Procs,
             Retry(p) \/ GiveUp(p) \/ ReadRecord(p) \/ Commit(p) \/ Check(p)
             \/ Release(p) \/ Die(p)
      PROVE  OwnLinks'
  <2>1. Moves(p)
    BY <1>3, StepMoves DEF Acquire, Use
  <2>2. \A q \in Procs : dir'[Claim(q)] = dir[Claim(q)] /\ dir'[Prepared(q)] = dir[Prepared(q)]
    BY <1>3, NamesDiffer DEF TypeOK, lockVars, Retry, GiveUp, ReadRecord, Commit, Check,
       Release, Die
  <2>3. pc[p] \in {"wait"} \cup (Holding \ {"tidy_held"}) \/ pc'[p] = "dead"
    BY <1>3 DEF Retry, GiveUp, ReadRecord, Commit, Check, Release, Die, TypeOK, Holding
  <2>4. pc'[p] # "dead" => dir[Claim(p)] = None /\ dir[Prepared(p)] = None
    BY <2>3 DEF OwnLinks, Holding, Claiming
  <2> QED
    BY <1>1, <2>1, <2>2, <2>4
<1>4. ASSUME NEW p \in Procs, Sweep(p)
      PROVE  OwnLinks'
  <2>1. Moves(p)
    BY <1>4, StepMoves DEF Acquire
  <2>2. \A n \in Names : dir'[n] \in {dir[n], None}
    BY <1>4, SweepSparesTheLiving
  <2>3. dir[Claim(p)] = None /\ dir[Prepared(p)] = None
    BY <1>4 DEF Sweep, OwnLinks, Claiming
  <2> QED
    BY <1>1, <2>1, <2>2, <2>3, NamesDiffer
<1>5. CASE UNCHANGED vars
  BY <1>5 DEF OwnLinks, vars, lockVars
<1> QED
  BY <1>2, <1>3, <1>4, <1>5 DEF Next, Acquire, Reclaim, Use

LEMMA LockIsHeldKept ==
  ASSUME LockInv, LockIsHeld, [Next]_vars
  PROVE  LockIsHeld'
<1> USE DEF LockInv
<1> SUFFICES ASSUME NEW q \in Procs, dir'[Lock] # None, Writer(dir'[Lock]) = q, pc'[q] \notin {"unborn", "dead"}
             PROVE  pc'[q] \in Holding
  <2>1. dir' \in [Names -> File \cup {None}]
    BY NextTypeOK DEF TypeOK
  <2>2. dir'[Lock] # None => dir'[Lock][1] \in Procs
    BY <2>1 DEF File, Names
  <2> QED
    BY <2>2 DEF LockIsHeld, Running
<1>1. CASE UNCHANGED vars
  BY <1>1 DEF LockIsHeld, Running, vars, lockVars
<1>2. CASE \E p \in Procs : Publish(p)
  <2>1. PICK p \in Procs : Publish(p)
    BY <1>2
  <2>2. CASE dir[Lock] = None
    BY <2>1, <2>2, NamesDiffer DEF Publish, Go, TypeOK, PinInv, PreparedIsMine, Holding
  <2>3. CASE dir[Lock] # None
    BY <2>1, <2>3, NamesDiffer DEF Publish, Go, TypeOK, LockIsHeld, Running, Holding
  <2> QED
    BY <2>2, <2>3
<1>3. CASE \E p \in Procs : Remove(p) \/ Release(p)
  BY <1>3, NamesDiffer DEF Remove, Release, TypeOK
<1>4. ASSUME NEW p \in Procs, dir'[Lock] = dir[Lock], Moves(p),
             pc[p] \in Holding => pc'[p] \in Holding \cup {"dead"}
      PROVE  pc'[q] \in Holding
  <2>1. pc[q] # "unborn"
    BY <1>4, NamesDiffer DEF PinInv, WritersLived
  <2>2. pc[q] # "dead"
    BY <1>4 DEF Moves
  <2>3. pc[q] \in Holding
    BY <1>4, <2>1, <2>2 DEF LockIsHeld, Running
  <2> QED
    BY <1>4, <2>3 DEF Moves
<1>5. ASSUME NEW p \in Procs, Enter(p) \/ Sweep(p) \/ Prepare(p) \/ Tidy(p) \/ Inspect(p)
             \/ Probe(p) \/ Retry(p) \/ GiveUp(p)
      PROVE  pc'[q] \in Holding
  <2>1. dir'[Lock] = dir[Lock]
    BY <1>5, NamesDiffer, SweepSparesTheLiving DEF TypeOK, lockVars, Enter, Prepare,
       Tidy, Inspect, Probe, Retry, GiveUp
  <2>2. Moves(p)
    BY <1>5, StepMoves DEF Acquire
  <2>3. pc[p] \in Holding => pc'[p] \in Holding
    BY <1>5 DEF TypeOK, Go, Holding, Enter, Sweep, Prepare, Tidy, Inspect, Probe,
       Retry, GiveUp
  <2> QED
    BY <1>4, <2>1, <2>2, <2>3
<1>6. ASSUME NEW p \in Procs, PinLock(p) \/ Examine(p) \/ StatClaim(p) \/ Compare(p)
             \/ Unclaim(p)
      PROVE  pc'[q] \in Holding
  <2>1. dir'[Lock] = dir[Lock] /\ pc[p] \notin Holding
    BY <1>6, NamesDiffer DEF TypeOK, lockVars, Holding, PinLock, Examine, StatClaim,
       Compare, Unclaim
  <2>2. Moves(p)
    BY <1>6, StepMoves DEF Reclaim
  <2> QED
    BY <1>4, <2>1, <2>2
<1>7. ASSUME NEW p \in Procs, ReadRecord(p) \/ Commit(p) \/ Check(p) \/ Die(p)
      PROVE  pc'[q] \in Holding
  <2>1. dir'[Lock] = dir[Lock] /\ pc'[p] \in Holding \cup {"dead"}
    BY <1>7 DEF TypeOK, lockVars, Go, Holding, ReadRecord, Commit, Check, Die,
       PinInv, OwnershipNeverLost
  <2>2. Moves(p)
    BY <1>7, StepMoves DEF Use
  <2> QED
    BY <1>4, <2>1, <2>2
<1> QED
  BY <1>1, <1>2, <1>3, <1>5, <1>6, <1>7 DEF Next, Acquire, Reclaim, Use

(* Nobody else runs: who is not p is not alive, if p owns its pid.         *)
LEMMA AloneOthersAreDead ==
  ASSUME TypeOK, NEW p \in Procs, Alone(p), OwnsPid(p), NEW q \in Procs, ~ Running(q)
  PROVE  ~ IsLockOwnerAlive(q)
BY DEF Alone, OwnsPid, IsLockOwnerAlive

(* The lock path and one claim are two names.                              *)
LEMMA LockAndClaimAreTwo ==
  ASSUME NEW p \in Procs, dir[Lock] # None, dir[Claim(p)] = dir[Lock],
         SweptBut({Claim(p)})
  PROVE  PinnedOnce(dir[Lock])
<1>1. Links(dir[Lock]) = {Lock, Claim(p)}
  BY NamesDiffer DEF Links, SweptBut, Names
<1>2. Cardinality({Lock} \cup {Claim(p)}) = 2
  <2>1. IsFiniteSet({Lock}) /\ Cardinality({Lock}) = 1
    BY FS_Singleton
  <2>2. Claim(p) \notin {Lock}
    BY NamesDiffer
  <2> QED
    BY <2>1, <2>2, FS_AddElement
<1>3. {Lock} \cup {Claim(p)} = {Lock, Claim(p)}
  OBVIOUS
<1> QED
  BY <1>1, <1>2, <1>3 DEF PinnedOnce

(* A lone process that finds its way goes on to find it.                   *)
LEMMA LoneStep ==
  ASSUME LockInv, OwnLinks, LockIsHeld,
         NEW p \in Procs, Running(p), Alone(p), OwnsPid(p), FindsItsWay(p),
         Acquire(p) \/ Reclaim(p) \/ Use(p)
  PROVE  FindsItsWay(p)'
<1> USE DEF LockInv
<1>m. /\ Moves(p) /\ pc'[p] # "dead"
      /\ \A q \in Procs : ~ Running(q) => pc'[q] \in {"unborn", "dead"}
  <2>1. Moves(p)
    BY StepMoves
  <2>2. pc'[p] # "dead"
    BY DEF TypeOK, Go, Holding, Acquire, Reclaim, Use,
       Enter, Sweep, Prepare, Publish, Tidy, Inspect, Probe, Retry, GiveUp, PinLock,
       Examine, StatClaim, Compare, Remove, Unclaim, ReadRecord, Commit, Check, Release
  <2> QED
    BY <2>1, <2>2 DEF Moves, Running
<1>o. ASSUME dir[Lock] # None, pc[p] \notin Holding
      PROVE  Writer(dir[Lock]) \in Procs /\ ~ Running(Writer(dir[Lock]))
  <2>1. Writer(dir[Lock]) \in Procs
    BY <1>o, NamesDiffer DEF TypeOK, File
  <2> QED
    BY <1>o, <2>1 DEF LockIsHeld, Alone
<1>1. CASE Enter(p)
  <2>1. /\ dir' = dir /\ pc'[p] = "sweep"
        /\ todo'[p] = {n \in Leftover : dir[n] # None}
    BY <1>1 DEF Enter, Go, TypeOK
  <2> QED
    BY <2>1 DEF FindsItsWay, SweptBut, Running, Claiming
<1>2. CASE Sweep(p)
  <2>1. PICK n \in todo[p] :
          /\ dir' = IF IsLockOwnerAlive(n[2]) THEN dir ELSE [dir EXCEPT ![n] = None]
          /\ todo' = [todo EXCEPT ![p] = @ \ {n}]
    BY <1>2 DEF Sweep
  <2>2. SweptBut(todo[p]) /\ pc[p] = "sweep" /\ pc'[p] = "sweep"
    BY <1>2 DEF FindsItsWay, Sweep, Go, TypeOK
  <2>3. n \in Leftover /\ n \in Names
    BY <2>1 DEF TypeOK, Names
  <2>4. dir'[n] = None
    <3>1. CASE n[2] = p
      <4>1. n \in {Claim(p), Prepared(p)}
        BY <2>3, <3>1 DEF Leftover, Claim, Prepared
      <4>2. dir[n] = None
        BY <2>2, <4>1 DEF OwnLinks, Claiming
      <4> QED
        BY <2>1, <2>3, <4>2 DEF TypeOK
    <3>2. CASE n[2] # p
      <4>1. n[2] \in Procs /\ ~ Running(n[2])
        BY <2>3, <3>2 DEF Leftover, Alone
      <4>2. ~ IsLockOwnerAlive(n[2])
        BY <4>1, AloneOthersAreDead
      <4> QED
        BY <2>1, <2>3, <4>2 DEF TypeOK
    <3> QED
      BY <3>1, <3>2
  <2>5. todo'[p] = todo[p] \ {n}
    BY <2>1 DEF TypeOK
  <2>6. \A x \in Leftover : dir'[x] \in {dir[x], None}
    BY <1>2, SweepSparesTheLiving DEF Names
  <2>7. \A x \in Leftover \ todo'[p] : dir'[x] = None
    BY <2>2, <2>4, <2>5, <2>6 DEF SweptBut
  <2> QED
    BY <2>2, <2>7 DEF FindsItsWay, SweptBut, Running, Claiming
<1>3. CASE Prepare(p)
  <2>1. PICK f \in File : dir' = [dir EXCEPT ![Prepared(p)] = f]
    BY <1>3 DEF Prepare, File
  <2>2. pc'[p] = "publish" /\ SweptBut({})
    BY <1>3 DEF Prepare, Go, TypeOK, FindsItsWay
  <2>3. SweptBut({Prepared(p)})'
    BY <2>1, <2>2 DEF SweptBut, TypeOK, Names
  <2> QED
    BY <2>2, <2>3 DEF FindsItsWay, SweptBut, Running, Claiming
<1>4. CASE Publish(p)
  <2>1. SweptBut({Prepared(p)}) /\ pc[p] = "publish" /\ pc[p] \notin Holding
    BY <1>4 DEF Publish, FindsItsWay, Holding
  <2>2. \A n \in Leftover : dir'[n] = dir[n]
    BY <1>4, NamesDiffer DEF Publish, TypeOK, Names
  <2>3. SweptBut({Prepared(p)})'
    BY <2>1, <2>2 DEF SweptBut
  <2>4. \/ pc'[p] = "tidy_held"
        \/ pc'[p] = "tidy" /\ dir' = dir /\ dir[Lock] # None
    BY <1>4 DEF Publish, Go, TypeOK
  <2>5. pc'[p] = "tidy" => dir'[Lock] # None /\ pc'[Writer(dir'[Lock])] \in {"unborn", "dead"}
    BY <1>o, <1>m, <2>1, <2>4
  <2> QED
    BY <2>3, <2>4, <2>5 DEF FindsItsWay, SweptBut, Running, Claiming
<1>5. CASE Tidy(p)
  <2>1. SweptBut({Prepared(p)})
    BY <1>5 DEF Tidy, FindsItsWay
  <2>2. SweptBut({})'
    BY <1>5, <2>1, NamesDiffer DEF Tidy, TypeOK, SweptBut, Names
  <2>3. dir'[Lock] = dir[Lock]
    BY <1>5, NamesDiffer DEF Tidy, TypeOK
  <2>4. \/ pc'[p] = "read"
        \/ pc[p] = "tidy" /\ pc'[p] = "inspect"
    BY <1>5 DEF Tidy, Go, TypeOK
  <2>5. pc[p] = "tidy" => dir[Lock] # None /\ Writer(dir[Lock]) \in Procs
                          /\ ~ Running(Writer(dir[Lock]))
    BY <1>o DEF FindsItsWay, Holding
  <2>6. pc'[p] = "inspect" => dir'[Lock] # None /\ pc'[Writer(dir'[Lock])] \in {"unborn", "dead"}
    BY <1>m, <2>3, <2>4, <2>5
  <2> QED
    BY <2>2, <2>4, <2>6 DEF FindsItsWay, SweptBut, Running, Claiming
<1>6. CASE Inspect(p) \/ Probe(p)
  <2>1. /\ SweptBut({}) /\ dir[Lock] # None /\ Writer(dir[Lock]) \in Procs
        /\ ~ Running(Writer(dir[Lock])) /\ dir' = dir
    BY <1>6, <1>o DEF Inspect, Probe, FindsItsWay, Holding
  <2>2. SweptBut({})' /\ dir'[Lock] # None /\ pc'[Writer(dir'[Lock])] \in {"unborn", "dead"}
    BY <1>m, <2>1 DEF SweptBut
  <2>3. CASE Inspect(p)
    <3>1. pc'[p] = "probe" /\ saw'[p] = Writer(dir[Lock])
      BY <2>1, <2>3 DEF Inspect, Go, TypeOK
    <3>2. pc'[saw'[p]] \in {"unborn", "dead"}
      BY <1>m, <2>1, <3>1
    <3> QED
      BY <2>2, <3>1, <3>2 DEF FindsItsWay, SweptBut, Running, Claiming
  <2>4. CASE Probe(p)
    <3>1. saw[p] # None => saw[p] \in Procs /\ ~ Running(saw[p])
      BY <2>4 DEF Probe, FindsItsWay, TypeOK
    <3>2. ~ (saw[p] # None /\ IsLockOwnerAlive(saw[p]))
      BY <3>1, AloneOthersAreDead
    <3>3. pc'[p] = "claim"
      BY <2>4, <3>2 DEF Probe, Go, TypeOK
    <3> QED
      BY <2>2, <3>3 DEF FindsItsWay, SweptBut, Running, Claiming
  <2> QED
    BY <1>6, <2>3, <2>4
<1>7. CASE PinLock(p)
  <2>1. /\ SweptBut({}) /\ dir[Lock] # None /\ Writer(dir[Lock]) \in Procs
        /\ ~ Running(Writer(dir[Lock]))
    BY <1>7, <1>o DEF PinLock, FindsItsWay, Holding
  <2>2. dir' = [dir EXCEPT ![Claim(p)] = dir[Lock]] /\ pc'[p] = "examine"
    BY <1>7, <2>1 DEF PinLock, Go, TypeOK
  <2>3. dir'[Lock] = dir[Lock] /\ dir'[Claim(p)] = dir[Lock] /\ SweptBut({Claim(p)})'
    BY <2>1, <2>2, NamesDiffer DEF TypeOK, SweptBut, Names
  <2>4. pc'[Writer(dir'[Lock])] \in {"unborn", "dead"}
    BY <1>m, <2>1, <2>3
  <2> QED
    BY <2>1, <2>2, <2>3, <2>4 DEF FindsItsWay, SweptBut, Running, Claiming
<1>8. CASE Examine(p) \/ StatClaim(p) \/ Compare(p)
  <2>1. /\ pc[p] \in Claiming
        /\ SweptBut({Claim(p)}) /\ dir[Claim(p)] = dir[Lock] /\ dir[Lock] # None
        /\ Writer(dir[Lock]) \in Procs /\ ~ Running(Writer(dir[Lock])) /\ dir' = dir
    BY <1>8, <1>o DEF Examine, StatClaim, Compare, FindsItsWay, Holding, Claiming, lockVars
  <2>2. ~ IsLockOwnerAlive(Writer(dir[Lock]))
    BY <2>1, AloneOthersAreDead
  <2>3. PinnedOnce(dir[Lock])
    BY <2>1, LockAndClaimAreTwo
  <2>4. pc'[p] \in Claiming \ {"examine"}
    BY <1>8, <2>1, <2>2, <2>3 DEF Examine, StatClaim, Compare, Go, TypeOK, Claiming
  <2>5. SweptBut({Claim(p)})' /\ pc'[Writer(dir'[Lock])] \in {"unborn", "dead"}
    BY <1>m, <2>1 DEF SweptBut
  <2> QED
    BY <2>1, <2>4, <2>5 DEF FindsItsWay, SweptBut, Running, Claiming
<1>9. CASE \/ Remove(p) \/ Unclaim(p) \/ Retry(p) \/ GiveUp(p)
           \/ ReadRecord(p) \/ Commit(p) \/ Check(p) \/ Release(p)
  <2>1. pc'[p] \in {"unclaim_removed", "list", "idle", "commit", "check", "release"}
    BY <1>9 DEF FindsItsWay, TypeOK, Go, Remove, Unclaim, Retry, GiveUp, ReadRecord,
       Commit, Check, Release
  <2> QED
    BY <2>1 DEF FindsItsWay, SweptBut, Running, Claiming
<1> QED
  BY <1>1, <1>2, <1>3, <1>4, <1>5, <1>6, <1>7, <1>8, <1>9 DEF Acquire, Reclaim, Use

LEMMA LoneProcessKept ==
  ASSUME LockInv, OwnLinks, LockIsHeld, LoneProcess, [Next]_vars
  PROVE  LoneProcess'
<1> USE DEF LockInv
<1>1. CASE UNCHANGED vars
  BY <1>1 DEF LoneProcess, Running, Alone, OwnsPid, FindsItsWay, SweptBut, vars, lockVars
<1>2. ASSUME NEW p \in Procs, Die(p)
      PROVE  LoneProcess'
  BY <1>2 DEF Die, LoneProcess
<1>3. ASSUME NEW p \in Procs, Acquire(p) \/ Reclaim(p) \/ Use(p), solo' > 0
      PROVE  /\ Running(p)' /\ Alone(p)'
             /\ OwnsPid(p)' => solo' = 1 /\ FindsItsWay(p)'
  <2>1. Moves(p) /\ pc'[p] # "dead"
    <3>1. pc'[p] # "dead"
      BY <1>3 DEF TypeOK, Go, Holding, Acquire, Reclaim, Use,
         Enter, Sweep, Prepare, Publish, Tidy, Inspect, Probe, Retry, GiveUp, PinLock,
         Examine, StatClaim, Compare, Remove, Unclaim, ReadRecord, Commit, Check, Release
    <3> QED
      BY <1>3, <3>1, StepMoves
  <2>2. Retry(p) \/ \E l \in Places : Go(p, l)
    BY <1>3 DEF Holding, Places, Acquire, Reclaim, Use,
       Enter, Sweep, Prepare, Publish, Tidy, Inspect, Probe, GiveUp, PinLock,
       Examine, StatClaim, Compare, Remove, Unclaim, ReadRecord, Commit, Check, Release
  <2>3. Alone(p)
    BY <1>3, <2>2 DEF Retry, Go
  <2>4. Running(p)' /\ Alone(p)'
    BY <2>1, <2>3 DEF Moves, Running, Alone
  <2>5. solo > 0 => Running(p) /\ (OwnsPid(p) => solo = 1 /\ FindsItsWay(p))
    BY <2>3 DEF LoneProcess, Alone
  <2>6. CASE Retry(p)
    <3>1. pc[p] = "wait" /\ pc'[p] = "list" /\ Running(p)
      BY <2>6 DEF Retry, TypeOK, Running
    <3>2. OwnsPid(p)' => OwnsPid(p)
      BY <2>1, <3>1 DEF OwnsPid, Running, Moves
    <3>3. OwnsPid(p) => solo = 0
      BY <2>5, <3>1 DEF FindsItsWay, TypeOK
    <3>4. OwnsPid(p) => solo' = 1
      BY <2>3, <2>6, <3>3 DEF Retry
    <3>5. FindsItsWay(p)'
      BY <3>1 DEF FindsItsWay, Claiming
    <3> QED
      BY <2>4, <3>2, <3>4, <3>5
  <2>7. CASE ~ Retry(p)
    <3>1. solo' = solo
      BY <2>2, <2>3, <2>7 DEF Go
    <3>2. Running(p)
      BY <1>3, <2>5, <3>1
    <3>3. OwnsPid(p)' => OwnsPid(p)
      BY <2>1, <3>2 DEF OwnsPid, Running, Moves
    <3>4. OwnsPid(p) => solo = 1 /\ FindsItsWay(p)
      BY <1>3, <2>5, <3>1
    <3>5. OwnsPid(p) => FindsItsWay(p)'
      BY <1>3, <2>3, <3>2, <3>4, LoneStep
    <3> QED
      BY <2>4, <3>1, <3>3, <3>4, <3>5
  <2> QED
    BY <2>6, <2>7
<1>4. ASSUME NEW p \in Procs, Acquire(p) \/ Reclaim(p) \/ Use(p)
      PROVE  LoneProcess'
  BY <1>3, <1>4 DEF LoneProcess
<1> QED
  BY <1>1, <1>2, <1>4 DEF Next

(* A process that is alone waits at most once, whatever the dead left and  *)
(* wherever they died, unless it has the pid of one of them.               *)
THEOREM LoneProcessGetsTheLock == Spec => []LeftoversAreRecovered
<1>1. Init => RecoveryInv
  <2> SUFFICES ASSUME Init PROVE RecoveryInv
    OBVIOUS
  <2>1. OwnLinks
    BY NamesDiffer DEF Init, OwnLinks
  <2>2. LockIsHeld
    <3>1. dir[Lock] = None
      BY DEF Init, Names
    <3> QED
      BY <3>1 DEF LockIsHeld
  <2>3. LoneProcess
    BY DEF Init, LoneProcess
  <2> QED
    BY <2>1, <2>2, <2>3 DEF RecoveryInv
<1>2. LockInv /\ RecoveryInv /\ [Next]_vars => RecoveryInv'
  BY OwnLinksKept, LockIsHeldKept, LoneProcessKept DEF RecoveryInv
<1>3. LockInv /\ RecoveryInv => LeftoversAreRecovered
  <2> SUFFICES ASSUME LockInv, RecoveryInv, solo > 1
               PROVE  \E p, q \in Procs : Running(p) /\ ~ Running(q) /\ PidOf[p] = PidOf[q]
    BY DEF LeftoversAreRecovered
  <2>1. solo > 0 /\ solo # 1
    BY DEF LockInv, TypeOK
  <2>2. PICK p \in Procs : Running(p) /\ ~ OwnsPid(p)
    BY <2>1 DEF RecoveryInv, LoneProcess
  <2> QED
    BY <2>2 DEF OwnsPid
<1> QED
  BY <1>1, <1>2, <1>3, LockInvariant, PTL DEF Spec
=============================================================================
