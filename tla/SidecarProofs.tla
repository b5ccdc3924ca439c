--------------------------- MODULE SidecarProofs ---------------------------
(***************************************************************************)
(* Theorems about Sidecar, for any messages, passes, bounds and faults.    *)
(*                                                                         *)
(* SidecarInv is the inductive invariant.  Its parts: Queue, which both    *)
(* the queue in memory and the one on disk satisfy (an item is there once, *)
(* a merged head stands for messages nothing else stands for, only forced  *)
(* items have been tried, and they come first); Behind, the disk is an     *)
(* older copy, and a tried item is on it unless it is empty; DiskOK, the   *)
(* disk lags only after a failed save, and on wake keys only when it is    *)
(* empty; FlushOK and BatchOK, what a pass remembers over an await is      *)
(* still so when it goes on.                                               *)
(*                                                                         *)
(* The functions of the queue are taken one by one, as operators on a      *)
(* store s (what they turn a store into: Enqueue, MarkHeld, PruneUpTo,     *)
(* Tried ...), then the steps: each is a Turn, an Answer to a receipt, a   *)
(* TornKill, a Crash or a KilledInSave.  Carries says where a step takes   *)
(* the messages, and DirectMessagesAreKept, the refinement, is read off it.*)
(***************************************************************************)
EXTENDS Sidecar, WellFoundedInduction, FiniteSetTheorems, SequenceTheorems, TLAPS

-----------------------------------------------------------------------------
(* Sequences.  A set of numbers with zero and every successor is all.      *)
LessThan == {ss \in Nat \X Nat : ss[1] < ss[2]}

LEMMA LessThanIsWellFounded == IsWellFoundedOn(LessThan, Nat)
BY NatLessThanWellFounded DEF OpToRel, LessThan

LEMMA NatSetInduction ==
  ASSUME NEW T, T \subseteq Nat, 0 \in T, \A n \in T : n + 1 \in T
  PROVE  T = Nat
<1> SUFFICES ASSUME Nat \ T # {} PROVE FALSE
  OBVIOUS
<1>1. PICK x \in Nat \ T : \A y \in Nat \ T : ~ (<<y, x>> \in LessThan)
  BY WFMin, LessThanIsWellFounded
<1>2. x # 0 /\ x - 1 \in Nat
  BY <1>1
<1>3. <<x - 1, x>> \in LessThan
  BY <1>2 DEF LessThan
<1>4. x - 1 \in T
  BY <1>1, <1>2, <1>3
<1> QED
  BY <1>1, <1>2, <1>4

(* What Kept computes, up to place n.                                      *)
IsKept(q, T, n, k) ==
  k = [j \in 0..n |-> IF j = 0 THEN <<>>
                      ELSE IF q[j] \in T THEN Append(k[j - 1], q[j]) ELSE k[j - 1]]

LEMMA KeptExists ==
  ASSUME NEW S, NEW q \in Seq(S), NEW T, NEW m \in 0..Len(q)
  PROVE  \E k \in [0..m -> Seq(S)] : IsKept(q, T, m, k)
<1> DEFINE G == {n \in Nat : n <= Len(q) =>
                   \E k \in [0..n -> Seq(S)] : IsKept(q, T, n, k)}
<1>1. 0 \in G
  <2>1. [j \in 0..0 |-> <<>>] \in [0..0 -> Seq(S)]
    OBVIOUS
  <2>2. IsKept(q, T, 0, [j \in 0..0 |-> <<>>])
    BY DEF IsKept
  <2> QED
    BY <2>1, <2>2
<1>2. ASSUME NEW n \in G
      PROVE  n + 1 \in G
  <2>1. SUFFICES ASSUME n + 1 <= Len(q)
                 PROVE  \E k \in [0..(n + 1) -> Seq(S)] : IsKept(q, T, n + 1, k)
    OBVIOUS
  <2>2. PICK k \in [0..n -> Seq(S)] : IsKept(q, T, n, k)
    BY <2>1
  <2> DEFINE e == IF q[n + 1] \in T THEN Append(k[n], q[n + 1]) ELSE k[n]
             u == [j \in 0..(n + 1) |-> IF j = n + 1 THEN e ELSE k[j]]
  <2>3. q[n + 1] \in S
    BY <2>1
  <2>4. e \in Seq(S)
    BY <2>3
  <2>5. u \in [0..(n + 1) -> Seq(S)]
    BY <2>4
  <2>6. \A j \in 0..(n + 1) :
          u[j] = IF j = 0 THEN <<>>
                 ELSE IF q[j] \in T THEN Append(u[j - 1], q[j]) ELSE u[j - 1]
    <3>1. \A j \in 0..n :
            k[j] = IF j = 0 THEN <<>>
                   ELSE IF q[j] \in T THEN Append(k[j - 1], q[j]) ELSE k[j - 1]
      BY <2>2 DEF IsKept
    <3>2. SUFFICES ASSUME NEW j \in 0..(n + 1)
                   PROVE  u[j] = IF j = 0 THEN <<>>
                                 ELSE IF q[j] \in T THEN Append(u[j - 1], q[j]) ELSE u[j - 1]
      OBVIOUS
    <3>3. CASE j = 0
      BY <3>1, <3>3
    <3>4. CASE j \in 1..n
      <4>1. j \in 0..n /\ j - 1 \in 0..n /\ j # n + 1 /\ j - 1 # n + 1 /\ j # 0
        BY <3>4
      <4>3. k[j] = IF q[j] \in T THEN Append(k[j - 1], q[j]) ELSE k[j - 1]
        BY <3>1, <4>1
      <4>2. u[j] = k[j] /\ u[j - 1] = k[j - 1]
        BY <4>1
      <4> HIDE DEF u
      <4> QED
        BY <4>1, <4>2, <4>3
    <3>5. CASE j = n + 1
      <4>1. j - 1 = n /\ n \in 0..(n + 1) /\ n # n + 1 /\ j # 0
        BY <3>5
      <4>2. u[j] = e /\ u[j - 1] = k[n]
        BY <3>5, <4>1
      <4> HIDE DEF u
      <4> QED
        BY <3>5, <4>1, <4>2
    <3> QED
      BY <3>3, <3>4, <3>5
  <2> HIDE DEF e
  <2>7. IsKept(q, T, n + 1, u)
    BY <2>6 DEF IsKept
  <2> QED
    BY <2>5, <2>7
<1> HIDE DEF G
<1>3. G \subseteq Nat
  BY DEF G
<1>4. G = Nat
  BY <1>1, <1>2, <1>3, NatSetInduction
<1>5. m \in Nat /\ m <= Len(q)
  OBVIOUS
<1> QED
  BY <1>4, <1>5 DEF G

(* The members of q in T, each of them, in their order, the first first.   *)
KeptUpTo(q, T, n, r) ==
  /\ Len(r) <= n
  /\ \A a \in 1..Len(r) : \E c \in 1..n : q[c] = r[a] /\ q[c] \in T
  /\ \A c \in 1..n : q[c] \in T => \E a \in 1..Len(r) : r[a] = q[c]
  /\ \A a, b \in 1..Len(r) : a < b => \E c, d \in 1..n : c < d /\ q[c] = r[a] /\ q[d] = r[b]
  /\ n >= 1 /\ q[1] \in T => r # <<>> /\ r[1] = q[1]

LEMMA KeptStep ==
  ASSUME NEW S, NEW q \in Seq(S), NEW T, NEW n \in Nat, n + 1 <= Len(q),
         NEW r \in Seq(S), KeptUpTo(q, T, n, r),
         NEW t \in Seq(S), t = IF q[n + 1] \in T THEN Append(r, q[n + 1]) ELSE r
  PROVE  KeptUpTo(q, T, n + 1, t)
<1>1. CASE q[n + 1] \notin T
  <2>1. t = r
    BY <1>1
  <2>2. 1..n \subseteq 1..(n + 1) /\ \A c \in 1..(n + 1) : c \in 1..n \/ c = n + 1
    OBVIOUS
  <2>3. n + 1 >= 1 /\ q[1] \in T => n >= 1
    BY <1>1
  <2> QED
    BY <1>1, <2>1, <2>2, <2>3 DEF KeptUpTo
<1>2. CASE q[n + 1] \in T
  <2>1. t = Append(r, q[n + 1]) /\ q[n + 1] \in S
    BY <1>2
  <2>2. /\ Len(t) = Len(r) + 1 /\ t[Len(r) + 1] = q[n + 1] /\ Len(r) \in Nat
        /\ \A a \in 1..Len(r) : t[a] = r[a]
        /\ t # <<>>
    BY <2>1
  <2>3. Len(t) <= n + 1
    BY <2>2 DEF KeptUpTo
  <2>4. \A a \in 1..Len(t) : \E c \in 1..(n + 1) : q[c] = t[a] /\ q[c] \in T
    <3>1. SUFFICES ASSUME NEW a \in 1..Len(t)
                   PROVE  \E c \in 1..(n + 1) : q[c] = t[a] /\ q[c] \in T
      OBVIOUS
    <3>2. CASE a = Len(r) + 1
      BY <1>2, <2>2, <3>2
    <3>3. CASE a \in 1..Len(r)
      <4>1. PICK c \in 1..n : q[c] = r[a] /\ q[c] \in T
        BY <3>3 DEF KeptUpTo
      <4> QED
        BY <2>2, <3>3, <4>1
    <3> QED
      BY <2>2, <3>2, <3>3
  <2>5. \A c \in 1..(n + 1) : q[c] \in T => \E a \in 1..Len(t) : t[a] = q[c]
    <3>1. SUFFICES ASSUME NEW c \in 1..(n + 1), q[c] \in T
                   PROVE  \E a \in 1..Len(t) : t[a] = q[c]
      OBVIOUS
    <3>2. CASE c = n + 1
      BY <2>2, <3>2
    <3>3. CASE c \in 1..n
      <4>1. PICK a \in 1..Len(r) : r[a] = q[c]
        BY <3>1, <3>3 DEF KeptUpTo
      <4> QED
        BY <2>2, <4>1
    <3> QED
      BY <3>2, <3>3
  <2>6. \A a, b \in 1..Len(t) : a < b =>
          \E c, d \in 1..(n + 1) : c < d /\ q[c] = t[a] /\ q[d] = t[b]
    <3>1. SUFFICES ASSUME NEW a \in 1..Len(t), NEW b \in 1..Len(t), a < b
                   PROVE  \E c, d \in 1..(n + 1) : c < d /\ q[c] = t[a] /\ q[d] = t[b]
      OBVIOUS
    <3>2. a \in 1..Len(r)
      BY <2>2, <3>1
    <3>3. CASE b = Len(r) + 1
      <4>1. PICK c \in 1..n : q[c] = r[a]
        BY <3>2 DEF KeptUpTo
      <4>2. c \in 1..(n + 1) /\ n + 1 \in 1..(n + 1) /\ c < n + 1
        BY <4>1
      <4> QED
        BY <2>2, <3>2, <3>3, <4>1, <4>2
    <3>4. CASE b \in 1..Len(r)
      <4>1. PICK c \in 1..n, d \in 1..n : c < d /\ q[c] = r[a] /\ q[d] = r[b]
        BY <3>1, <3>2, <3>4 DEF KeptUpTo
      <4>2. c \in 1..(n + 1) /\ d \in 1..(n + 1)
        BY <4>1
      <4> QED
        BY <2>2, <3>2, <3>4, <4>1, <4>2
    <3> QED
      BY <2>2, <3>3, <3>4
  <2>7. q[1] \in T => t[1] = q[1]
    <3>1. CASE n = 0
      <4>1. Len(r) = 0
        BY <3>1, <2>2 DEF KeptUpTo
      <4> QED
        BY <2>2, <3>1, <4>1
    <3>2. CASE n >= 1
      <4>1. q[1] \in T => r # <<>> /\ r[1] = q[1]
        BY <3>2 DEF KeptUpTo
      <4>2. r # <<>> => 1 \in 1..Len(r)
        OBVIOUS
      <4> QED
        BY <2>2, <4>1, <4>2
    <3> QED
      BY <3>1, <3>2
  <2> QED
    BY <2>2, <2>3, <2>4, <2>5, <2>6, <2>7 DEF KeptUpTo
<1> QED
  BY <1>1, <1>2

LEMMA KeptIsKept ==
  ASSUME NEW S, NEW q \in Seq(S), NEW T
  PROVE  Kept(q, T) \in Seq(S) /\ KeptUpTo(q, T, Len(q), Kept(q, T))
<1>1. PICK k : IsKept(q, T, Len(q), k) /\ Kept(q, T) = k[Len(q)]
  <2>1. Len(q) \in 0..Len(q)
    OBVIOUS
  <2>2. \E k : IsKept(q, T, Len(q), k)
    BY <2>1, KeptExists
  <2> QED
    BY <2>2 DEF IsKept, Kept
<1>2. \A j \in 0..Len(q) :
        k[j] = IF j = 0 THEN <<>>
               ELSE IF q[j] \in T THEN Append(k[j - 1], q[j]) ELSE k[j - 1]
  BY <1>1 DEF IsKept
<1> DEFINE G == {n \in Nat : n <= Len(q) => k[n] \in Seq(S) /\ KeptUpTo(q, T, n, k[n])}
<1>3. 0 \in G
  <2>1. k[0] = <<>>
    BY <1>2
  <2>2. Len(<<>>) = 0 /\ <<>> \in Seq(S)
    OBVIOUS
  <2>3. KeptUpTo(q, T, 0, <<>>)
    BY <2>2 DEF KeptUpTo
  <2> QED
    BY <2>1, <2>2, <2>3
<1>4. ASSUME NEW n \in G
      PROVE  n + 1 \in G
  <2>1. SUFFICES ASSUME n + 1 <= Len(q)
                 PROVE  k[n + 1] \in Seq(S) /\ KeptUpTo(q, T, n + 1, k[n + 1])
    OBVIOUS
  <2>2. n + 1 \in 0..Len(q) /\ n \in 0..Len(q) /\ n + 1 # 0 /\ (n + 1) - 1 = n
    BY <2>1
  <2>3. k[n + 1] = IF q[n + 1] \in T THEN Append(k[n], q[n + 1]) ELSE k[n]
    BY <1>2, <2>2
  <2>4. k[n] \in Seq(S) /\ KeptUpTo(q, T, n, k[n]) /\ q[n + 1] \in S
    BY <2>1, <2>2
  <2>5. k[n + 1] \in Seq(S)
    BY <2>3, <2>4
  <2> QED
    BY <2>1, <2>3, <2>4, <2>5, KeptStep
<1> HIDE DEF G
<1>5. G \subseteq Nat
  BY DEF G
<1>6. G = Nat
  BY <1>3, <1>4, <1>5, NatSetInduction
<1>7. Len(q) \in Nat /\ Len(q) <= Len(q)
  OBVIOUS
<1> QED
  BY <1>1, <1>6, <1>7 DEF G

LEMMA RangeIsPlaces ==
  ASSUME NEW S, NEW q \in Seq(S)
  PROVE  /\ Range(q) = {q[n] : n \in 1..Len(q)} /\ Range(q) \subseteq S
         /\ \A n \in 1..Len(q) : q[n] \in Range(q) /\ q[n] \in S
         /\ IsInjective(q) <=> \A a, b \in 1..Len(q) : a < b => q[a] # q[b]
<1>1. DOMAIN q = 1..Len(q) /\ Len(q) \in Nat /\ \A n \in 1..Len(q) : q[n] \in S
  OBVIOUS
<1>2. IsInjective(q) <=> \A a, b \in 1..Len(q) : q[a] = q[b] => a = b
  BY <1>1 DEF IsInjective
<1>3. \A a, b \in 1..Len(q) : a = b \/ a < b \/ b < a
  BY <1>1
<1>4. \A a, b \in 1..Len(q) : a < b => a # b
  BY <1>1
<1>5. IsInjective(q) <=> \A a, b \in 1..Len(q) : a < b => q[a] # q[b]
  BY <1>2, <1>3, <1>4
<1> QED
  BY <1>1, <1>5 DEF Range

LEMMA KeptMembers ==
  ASSUME NEW S, NEW q \in Seq(S), NEW T
  PROVE  /\ Kept(q, T) \in Seq(S)
         /\ Range(Kept(q, T)) = Range(q) \cap T
         /\ IsInjective(q) => IsInjective(Kept(q, T))
<1> DEFINE r == Kept(q, T)
<1>1. r \in Seq(S) /\ KeptUpTo(q, T, Len(q), r)
  BY KeptIsKept
<1> HIDE DEF r
<1>2. Range(r) = {r[n] : n \in 1..Len(r)} /\ Range(q) = {q[n] : n \in 1..Len(q)}
  BY <1>1, RangeIsPlaces
<1>3. Range(r) = Range(q) \cap T
  <2>1. Range(r) \subseteq Range(q) \cap T
    BY <1>1, <1>2 DEF KeptUpTo
  <2>2. Range(q) \cap T \subseteq Range(r)
    BY <1>1, <1>2 DEF KeptUpTo
  <2> QED
    BY <2>1, <2>2
<1>4. ASSUME IsInjective(q)
      PROVE  IsInjective(r)
  <2>1. \A a, b \in 1..Len(q) : a < b => q[a] # q[b]
    BY <1>4, RangeIsPlaces
  <2>2. \A a, b \in 1..Len(r) : a < b => r[a] # r[b]
    BY <1>1, <2>1 DEF KeptUpTo
  <2> QED
    BY <1>1, <2>2, RangeIsPlaces
<1> QED
  BY <1>1, <1>3, <1>4 DEF r

LEMMA KeptOrder ==
  ASSUME NEW S, NEW q \in Seq(S), NEW T
  PROVE  /\ \A a, b \in 1..Len(Kept(q, T)) : a < b =>
              \E c, d \in 1..Len(q) : c < d /\ q[c] = Kept(q, T)[a] /\ q[d] = Kept(q, T)[b]
         /\ q # <<>> /\ q[1] \in T => Kept(q, T) # <<>> /\ Kept(q, T)[1] = q[1]
<1> DEFINE r == Kept(q, T)
<1>1. r \in Seq(S) /\ KeptUpTo(q, T, Len(q), r)
  BY KeptIsKept
<1> HIDE DEF r
<1>2. q # <<>> => Len(q) >= 1
  OBVIOUS
<1>3. /\ \A a, b \in 1..Len(r) : a < b => \E c, d \in 1..Len(q) : c < d /\ q[c] = r[a] /\ q[d] = r[b]
      /\ q # <<>> /\ q[1] \in T => r # <<>> /\ r[1] = q[1]
  BY <1>1, <1>2 DEF KeptUpTo
<1> QED
  BY <1>3 DEF r

-----------------------------------------------------------------------------
(* Taking in one item after the other.  What every step keeps, in the      *)
(* shape of a set of stores, the whole keeps.                              *)
IsTaken(s, items, n, f) ==
  f = [j \in 0..n |-> IF j = 0 THEN s ELSE TakeIn(f[j - 1], items[j])]

LEMMA TakenExists ==
  ASSUME NEW s, NEW items, NEW m \in Nat
  PROVE  \E f : IsTaken(s, items, m, f)
<1> DEFINE G == {n \in Nat : \E f : IsTaken(s, items, n, f)}
<1>1. 0 \in G
  <2>1. IsTaken(s, items, 0, [j \in 0..0 |-> s])
    BY DEF IsTaken
  <2> QED
    BY <2>1
<1>2. ASSUME NEW n \in G
      PROVE  n + 1 \in G
  <2>1. PICK f : IsTaken(s, items, n, f)
    OBVIOUS
  <2>2. \A j \in 0..n : f[j] = IF j = 0 THEN s ELSE TakeIn(f[j - 1], items[j])
    BY <2>1 DEF IsTaken
  <2> DEFINE e == TakeIn(f[n], items[n + 1])
             u == [j \in 0..(n + 1) |-> IF j = n + 1 THEN e ELSE f[j]]
  <2>3. \A j \in 0..(n + 1) : u[j] = IF j = 0 THEN s ELSE TakeIn(u[j - 1], items[j])
    <3>1. SUFFICES ASSUME NEW j \in 0..(n + 1)
                   PROVE  u[j] = IF j = 0 THEN s ELSE TakeIn(u[j - 1], items[j])
      OBVIOUS
    <3>2. CASE j = 0
      BY <2>2, <3>2
    <3>3. CASE j \in 1..n
      <4>1. j \in 0..n /\ j - 1 \in 0..n /\ j # n + 1 /\ j - 1 # n + 1 /\ j # 0
        BY <3>3
      <4>2. u[j] = f[j] /\ u[j - 1] = f[j - 1]
        BY <4>1
      <4>3. f[j] = TakeIn(f[j - 1], items[j])
        BY <2>2, <4>1
      <4> HIDE DEF u
      <4> QED
        BY <4>1, <4>2, <4>3
    <3>4. CASE j = n + 1
      <4>1. j - 1 = n /\ n \in 0..(n + 1) /\ n # n + 1 /\ j # 0
        BY <3>4
      <4>2. u[j] = e /\ u[j - 1] = f[n]
        BY <3>4, <4>1
      <4> HIDE DEF u
      <4> QED
        BY <3>4, <4>1, <4>2
    <3> QED
      BY <3>2, <3>3, <3>4
  <2> HIDE DEF e
  <2>4. IsTaken(s, items, n + 1, u)
    BY <2>3 DEF IsTaken
  <2> QED
    BY <2>4
<1> HIDE DEF G
<1>3. G \subseteq Nat
  BY DEF G
<1>4. G = Nat
  BY <1>1, <1>2, <1>3, NatSetInduction
<1> QED
  BY <1>4 DEF G

LEMMA TakenInKeeps ==
  ASSUME NEW Y, NEW s \in Y, NEW items \in Seq(Ids),
         \A t \in Y : \A n \in 1..Len(items) : TakeIn(t, items[n]) \in Y
  PROVE  TakenIn(s, items) \in Y
<1>1. Len(items) \in Nat
  OBVIOUS
<1>2. PICK f : IsTaken(s, items, Len(items), f) /\ TakenIn(s, items) = f[Len(items)]
  <2>1. \E f : IsTaken(s, items, Len(items), f)
    BY <1>1, TakenExists
  <2> QED
    BY <2>1 DEF IsTaken, TakenIn
<1>3. \A j \in 0..Len(items) : f[j] = IF j = 0 THEN s ELSE TakeIn(f[j - 1], items[j])
  BY <1>2 DEF IsTaken
<1> DEFINE G == {n \in Nat : n <= Len(items) => f[n] \in Y}
<1>4. 0 \in G
  BY <1>1, <1>3
<1>5. ASSUME NEW n \in G
      PROVE  n + 1 \in G
  <2>1. SUFFICES ASSUME n + 1 <= Len(items)
                 PROVE  f[n + 1] \in Y
    OBVIOUS
  <2>2. n + 1 \in 0..Len(items) /\ n + 1 # 0 /\ (n + 1) - 1 = n /\ n + 1 \in 1..Len(items)
    BY <1>1, <2>1
  <2>3. f[n + 1] = TakeIn(f[n], items[n + 1]) /\ f[n] \in Y
    BY <1>1, <1>3, <2>1, <2>2
  <2> QED
    BY <2>2, <2>3
<1> HIDE DEF G
<1>6. G \subseteq Nat
  BY DEF G
<1>7. G = Nat
  BY <1>4, <1>5, <1>6, NatSetInduction
<1> QED
  BY <1>1, <1>2, <1>7 DEF G

LEMMA SetsAreListed ==
  ASSUME NEW S, IsFiniteSet(S)
  PROVE  /\ SetToSeq(S) \in Seq(S)
         /\ \A n \in 1..Len(SetToSeq(S)) : SetToSeq(S)[n] \in S
<1>1. Cardinality(S) \in Nat /\ ExistsBijection(1..Cardinality(S), S)
  BY FS_CardinalityType
<1>2. \E f \in [1..Cardinality(S) -> S] : IsInjective(f)
  BY <1>1 DEF ExistsBijection, Bijection, Injection, IsInjective
<1>3. SetToSeq(S) \in [1..Cardinality(S) -> S]
  BY <1>2 DEF SetToSeq
<1> QED
  BY <1>1, <1>3

-----------------------------------------------------------------------------
(* The state of the process, field by field, through the functions of the  *)
(* queue.                                                                  *)
Stores == [mem : State, disk : State, age : [Ids -> Age]]

LEMMA QueuedIsEntry == Queued \in Entry
BY DEF Queued, Entry

LEMMA EmptyIsState ==
  /\ Empty \in State /\ Empty.seen = {} /\ Empty.pending = <<>> /\ Empty.acks = {}
  /\ Empty.entry = [i \in Ids |-> Queued]
BY QueuedIsEntry DEF Empty, State

LEMMA WrittenFields ==
  ASSUME NEW m \in State
  PROVE  /\ Written(m) \in State
         /\ Written(m).seen = m.seen /\ Written(m).pending = m.pending
         /\ Written(m).acks = m.acks /\ Written(m).bootstrapped = m.bootstrapped
         /\ \A i \in PendingIn(m) : i \in Ids => Written(m).entry[i] = m.entry[i]
BY QueuedIsEntry DEF Written, State

LEMMA SavedFields ==
  ASSUME NEW s \in Stores, full \in BOOLEAN
  PROVE  /\ Saved(s) \in Stores
         /\ Saved(s).mem = s.mem /\ Saved(s).age = s.age
         /\ full => Saved(s).disk = s.disk \/ Saved(s).disk = Empty
         /\ ~full => Saved(s).disk = Written(s.mem)
<1>1. s.mem \in State /\ s.disk \in State
  BY DEF Stores
<1>2. Written(s.mem) \in State /\ Empty \in State
  BY <1>1, WrittenFields, EmptyIsState
<1>3. PICK d : /\ d \in State /\ Saved(s) = [s EXCEPT !.disk = d]
               /\ full => d = s.disk \/ d = Empty
               /\ ~full => d = Written(s.mem)
  <2>1. CASE full /\ cuts
    BY <1>2, <2>1 DEF Saved
  <2>2. CASE full /\ ~cuts
    BY <1>1, <2>2 DEF Saved
  <2>3. CASE ~full
    BY <1>2, <2>3 DEF Saved
  <2> QED
    BY <2>1, <2>2, <2>3
<1> QED
  BY <1>3 DEF Stores

LEMMA SourcesAreIds ==
  ASSUME NEW m \in State, NEW i \in Ids
  PROVE  Sources(m, i) \subseteq Ids /\ (i \in DMs => Sources(m, i) \subseteq DMs)
BY DEF Sources, State, Entry, Ids

LEMMA ReceiptsAreReceipts ==
  ASSUME NEW m \in State, NEW items, NEW status \in {"delivered", "expired"}
  PROVE  ReceiptsFor(m, items, status) \subseteq Receipt
<1>1. \A i \in items \cap DMs : Sources(m, i) \subseteq DMs
  BY SourcesAreIds DEF Ids
<1> QED
  BY <1>1 DEF ReceiptsFor, Receipt

(* Enqueue drops the head, or nothing.                                     *)
LEMMA EnqueueFields ==
  ASSUME NEW s \in Stores, NEW i \in Ids
  PROVE  \E dropped :
           LET t == Enqueue(s, i)
               all == Append(s.mem.pending, i)
               m == [s.mem EXCEPT !.entry[i] = Queued]
           IN  /\ t \in Stores /\ t.disk = s.disk
               /\ t.mem.seen = s.mem.seen /\ t.mem.bootstrapped = s.mem.bootstrapped
               /\ t.mem.entry = m.entry /\ m \in State
               /\ t.mem.acks = s.mem.acks \cup ReceiptsFor(m, dropped, "expired")
               /\ \/ dropped = {} /\ t.mem.pending = all
                  \/ dropped = {Head(all)} /\ t.mem.pending = Tail(all)
<1> DEFINE all == Append(s.mem.pending, i)
           dropped == IF Len(all) <= bound.queue THEN {} ELSE {Head(all)}
           m == [s.mem EXCEPT !.entry[i] = Queued]
           n == [m EXCEPT !.pending = IF dropped = {} THEN all ELSE Tail(all),
                          !.acks = @ \cup ReceiptsFor(m, dropped, "expired")]
           t == [s EXCEPT !.mem = n, !.age[i] = "fresh"]
<1>1. Enqueue(s, i) = t
  BY DEF Enqueue
<1>2. s.mem \in State /\ m \in State
  BY QueuedIsEntry DEF Stores, State
<1>3. all \in Seq(Ids) /\ all # <<>>
  BY <1>2 DEF State
<1>4. Tail(all) \in Seq(Ids)
  BY <1>3
<1>5. ReceiptsFor(m, dropped, "expired") \subseteq Receipt
  BY <1>2, ReceiptsAreReceipts
<1>6. \/ dropped = {}
      \/ dropped = {Head(all)} /\ dropped # {}
  OBVIOUS
<1>8. m.seen = s.mem.seen /\ m.bootstrapped = s.mem.bootstrapped /\ m.acks = s.mem.acks
  BY <1>2 DEF State
<1> HIDE DEF dropped, m, all
<1>9. /\ n \in State
      /\ n.seen = m.seen /\ n.bootstrapped = m.bootstrapped /\ n.entry = m.entry
      /\ n.acks = m.acks \cup ReceiptsFor(m, dropped, "expired")
      /\ n.pending = IF dropped = {} THEN all ELSE Tail(all)
  BY <1>2, <1>3, <1>4, <1>5 DEF State
<1> HIDE DEF n
<1>10. t \in Stores /\ t.disk = s.disk /\ t.mem = n
  BY <1>9 DEF Stores, Age
<1> HIDE DEF t
<1>11. \/ dropped = {} /\ t.mem.pending = all
       \/ dropped = {Head(all)} /\ t.mem.pending = Tail(all)
  BY <1>6, <1>9, <1>10
<1> QED
  BY <1>1, <1>2, <1>8, <1>9, <1>10, <1>11 DEF m, all

-----------------------------------------------------------------------------
(* The invariant of a queue, in memory or on disk.                         *)
OwedIn(m) == {r[1] : r \in m.acks}
Holds(m)  == {d \in DMs : \E i \in PendingIn(m) : d \in Sources(m, i)}

Seen(m) == PendingIn(m) \subseteq m.seen /\ OwedIn(m) \subseteq m.seen
Heads(m) ==
  \A i \in PendingIn(m) :
    /\ m.entry[i].merged # {} => /\ i \in m.entry[i].merged /\ m.entry[i].forced
                                 /\ m.entry[i].merged \subseteq m.seen
    /\ m.entry[i].tried => m.entry[i].forced
Apart(m) ==
  \A i, j \in PendingIn(m) : i # j => Sources(m, i) \cap Sources(m, j) = {}
TriedFirst(m) ==
  \A a, b \in 1..Len(m.pending) :
    a < b /\ m.entry[m.pending[b]].tried => m.entry[m.pending[a]].tried
NotTried(x) == forcedTries[x] = 0 \/ x \in wiped
Untried(m) ==
  \A i \in PendingIn(m) : ~m.entry[i].tried => \A x \in Sources(m, i) : NotTried(x)
HeldOrOwed(m) == Holds(m) \cap OwedIn(m) = {}

Queue(m) ==
  /\ m \in State
  /\ IsInjective(m.pending)
  /\ Seen(m) /\ Heads(m) /\ Apart(m) /\ TriedFirst(m) /\ Untried(m) /\ HeldOrOwed(m)

(* The copy on disk was saved, is older, and still holds what it has seen. *)
(* An item that was tried is known, on disk too unless the file has been   *)
(* emptied.                                                                *)
Behind(s) ==
  /\ s.disk = Written(s.disk)
  /\ s.disk.seen \subseteq s.mem.seen
  /\ Holds(s.mem) \cap s.disk.seen \subseteq Holds(s.disk)
  /\ \A x \in Ids : \/ NotTried(x)
                    \/ x \in s.mem.seen /\ (s.disk = Empty \/ x \in s.disk.seen)

Good(s) == s \in Stores /\ Queue(s.mem) /\ Queue(s.disk) /\ Behind(s)

WakesSaved(s) == s.disk = Empty \/ s.mem.seen \cap Wakes \subseteq s.disk.seen
InStep(s)     == s.disk = Written(s.mem)

(* Where the messages of m are in n: held ones are held, owed or in F; the *)
(* new ones too, and nothing else is held.                                 *)
Carries(m, n, F) ==
  /\ m.seen \subseteq n.seen
  /\ OwedIn(m) \subseteq OwedIn(n)
  /\ Holds(n) \subseteq Holds(m) \cup (n.seen \ m.seen)
  /\ Holds(m) \cup (DMs \cap (n.seen \ m.seen)) \subseteq Holds(n) \cup OwedIn(n) \cup F

(* What a pass that is about to type relies on: a direct message that left *)
(* the queue does not come back and stands for what it stood for, and the  *)
(* first one stays first or is owed a receipt.                             *)
Minds(m, n) ==
  /\ \A i \in (DMs \cap m.seen) \ PendingIn(m) :
       i \notin PendingIn(n) /\ n.entry[i].merged = m.entry[i].merged
  /\ \A i \in DMs : m.pending # <<>> /\ i = m.pending[1] =>
       IF i \in PendingIn(n) THEN n.pending[1] = i
       ELSE Sources(n, i) \subseteq OwedIn(n)

LEMMA CarriesOn ==
  ASSUME NEW m, NEW n, NEW o, NEW F, Carries(m, n, {}), Carries(n, o, F)
  PROVE  Carries(m, o, F)
BY DEF Carries

LEMMA MindsOn ==
  ASSUME NEW m, NEW n, NEW o, Queue(m), Queue(n), Queue(o), Carries(m, n, {}), Carries(n, o, {}),
         Minds(m, n), Minds(n, o)
  PROVE  Minds(m, o)
<1>0. m.pending \in Seq(Ids) /\ n.pending \in Seq(Ids)
  BY DEF Queue, State
<1>1. \A i \in (DMs \cap m.seen) \ PendingIn(m) :
        i \notin PendingIn(o) /\ o.entry[i].merged = m.entry[i].merged
  BY DEF Minds, Carries
<1>2. ASSUME NEW i \in DMs, m.pending # <<>>, i = m.pending[1]
      PROVE  IF i \in PendingIn(o) THEN o.pending[1] = i
             ELSE Sources(o, i) \subseteq OwedIn(o)
  <2>1. i \in m.seen /\ i \in n.seen
    <3>1. i \in PendingIn(m)
      BY <1>0, <1>2, RangeIsPlaces DEF PendingIn
    <3> QED
      BY <3>1 DEF Queue, Seen, Carries
  <2>2. CASE i \in PendingIn(n)
    <3>1. n.pending # <<>> /\ i = n.pending[1]
      BY <1>2, <2>2 DEF Minds, PendingIn, Range
    <3> QED
      BY <3>1 DEF Minds
  <2>3. CASE i \notin PendingIn(n)
    <3>1. i \notin PendingIn(o) /\ o.entry[i].merged = n.entry[i].merged
      BY <2>1, <2>3 DEF Minds
    <3>2. Sources(o, i) = Sources(n, i)
      BY <3>1 DEF Sources
    <3>3. Sources(n, i) \subseteq OwedIn(n)
      BY <1>2, <2>3 DEF Minds
    <3>4. OwedIn(n) \subseteq OwedIn(o)
      BY DEF Carries
    <3> QED
      BY <3>1, <3>2, <3>3, <3>4
  <2> QED
    BY <2>2, <2>3
<1> QED
  BY <1>1, <1>2 DEF Minds

LEMMA PendingAreIds ==
  ASSUME NEW m \in State
  PROVE  /\ m.pending \in Seq(Ids)
         /\ PendingIn(m) = {m.pending[n] : n \in 1..Len(m.pending)}
         /\ PendingIn(m) \subseteq Ids
         /\ m.pending # <<>> => m.pending[1] \in PendingIn(m) /\ 1 \in 1..Len(m.pending)
         /\ PendingIn(m) # {} => m.pending # <<>>
<1>1. m.pending \in Seq(Ids)
  BY DEF State
<1>2. m.pending # <<>> => 1 \in 1..Len(m.pending)
  BY <1>1
<1>3. m.pending = <<>> => Len(m.pending) = 0
  BY <1>1
<1> QED
  BY <1>1, <1>2, <1>3, RangeIsPlaces DEF PendingIn

LEMMA StaysAsItIs ==
  ASSUME NEW m \in State, NEW n, n.seen = m.seen, n.acks = m.acks, n.pending = m.pending,
         \A i \in PendingIn(m) \cup DMs : n.entry[i].merged = m.entry[i].merged
  PROVE  /\ Carries(m, n, {}) /\ Minds(m, n) /\ Holds(n) = Holds(m) /\ OwedIn(n) = OwedIn(m)
         /\ PendingIn(n) = PendingIn(m)
         /\ \A i \in PendingIn(m) \cup DMs : Sources(n, i) = Sources(m, i)
<1>1. \A i \in PendingIn(m) \cup DMs : Sources(n, i) = Sources(m, i)
  BY DEF Sources
<1>2. PendingIn(n) = PendingIn(m) /\ OwedIn(n) = OwedIn(m)
  BY DEF PendingIn, OwedIn
<1>3. Holds(n) = Holds(m)
  BY <1>1, <1>2 DEF Holds
<1>4. Carries(m, n, {})
  BY <1>2, <1>3 DEF Carries
<1>5. Minds(m, n)
  BY <1>2, PendingAreIds DEF Minds
<1> QED
  BY <1>1, <1>2, <1>3, <1>4, <1>5

LEMMA QueueStays ==
  ASSUME NEW m, Queue(m), NEW n \in State,
         n.seen = m.seen, n.acks = m.acks, n.pending = m.pending,
         \A i \in PendingIn(m) : /\ n.entry[i].merged = m.entry[i].merged
                                /\ n.entry[i].tried = m.entry[i].tried
                                /\ n.entry[i].forced = m.entry[i].forced
  PROVE  Queue(n) /\ Holds(n) = Holds(m) /\ OwedIn(n) = OwedIn(m)
<1>1. m \in State
  BY DEF Queue
<1>2. PendingIn(n) = PendingIn(m) /\ OwedIn(n) = OwedIn(m)
  BY DEF PendingIn, OwedIn
<1>3. \A i \in PendingIn(m) : Sources(n, i) = Sources(m, i)
  BY DEF Sources
<1>4. Holds(n) = Holds(m)
  BY <1>2, <1>3 DEF Holds
<1>5. Seen(n) /\ HeldOrOwed(n) /\ IsInjective(n.pending)
  BY <1>2, <1>4 DEF Queue, Seen, HeldOrOwed
<1>6. Heads(n)
  BY <1>2 DEF Queue, Heads
<1>7. Apart(n)
  BY <1>2, <1>3 DEF Queue, Apart
<1>8. Untried(n)
  BY <1>2, <1>3 DEF Queue, Untried
<1>9. TriedFirst(n)
  <2>1. \A a \in 1..Len(m.pending) : m.pending[a] \in PendingIn(m)
    BY <1>1, RangeIsPlaces DEF PendingIn, State
  <2> QED
    BY <2>1 DEF Queue, TriedFirst
<1> QED
  BY <1>2, <1>4, <1>5, <1>6, <1>7, <1>8, <1>9 DEF Queue

LEMMA WrittenQueue ==
  ASSUME NEW m, Queue(m)
  PROVE  Queue(Written(m)) /\ Holds(Written(m)) = Holds(m) /\ OwedIn(Written(m)) = OwedIn(m)
<1>1. m \in State
  BY DEF Queue
<1>2. /\ Written(m) \in State /\ Written(m).seen = m.seen /\ Written(m).pending = m.pending
      /\ Written(m).acks = m.acks
      /\ \A i \in PendingIn(m) : Written(m).entry[i] = m.entry[i]
  BY <1>1, WrittenFields, PendingAreIds
<1> QED
  BY <1>2, QueueStays

LEMMA EmptyRange == Range(<<>>) = {}
BY DEF Range

LEMMA EmptyFields ==
  /\ Empty \in State /\ Empty.seen = {} /\ Empty.pending = <<>> /\ Empty.acks = {}
  /\ PendingIn(Empty) = {} /\ Holds(Empty) = {} /\ OwedIn(Empty) = {}
  /\ Empty.entry = [i \in Ids |-> Queued]
<1>1. Empty \in State
  BY EmptyIsState
<1>2. /\ Empty.seen = {} /\ Empty.pending = <<>> /\ Empty.acks = {}
      /\ Empty.entry = [i \in Ids |-> Queued]
  BY EmptyIsState
<1>3. PendingIn(Empty) = {}
  BY <1>2, EmptyRange DEF PendingIn
<1>4. Holds(Empty) = {} /\ OwedIn(Empty) = {}
  BY <1>2, <1>3 DEF Holds, OwedIn
<1> QED
  BY <1>1, <1>2, <1>3, <1>4

LEMMA EmptyQueue == Queue(Empty)
<1>1. IsInjective(<<>>)
  BY DEF IsInjective
<1>2. TriedFirst(Empty)
  BY EmptyFields DEF TriedFirst
<1> QED
  BY <1>1, <1>2, EmptyFields DEF Queue, Seen, Heads, Apart, Untried, HeldOrOwed

LEMMA EmptyWritten == Written(Empty) = Empty
<1> DEFINE e == Empty
<1>1. e \in State /\ PendingIn(e) = {} /\ e.entry = [i \in Ids |-> Queued]
  BY EmptyFields
<1> HIDE DEF e
<1>2. Written(e) = [e EXCEPT !.entry = e.entry]
  BY <1>1 DEF Written
<1>3. [e EXCEPT !.entry = e.entry] = e
  BY <1>1 DEF State
<1> QED
  BY <1>2, <1>3 DEF e

LEMMA WrittenTwice ==
  ASSUME NEW m \in State
  PROVE  Written(Written(m)) = Written(m)
<1> DEFINE w == Written(m)
<1>1. w \in State /\ PendingIn(w) = PendingIn(m)
  BY WrittenFields DEF PendingIn
<1>2. w.entry = [i \in Ids |-> IF i \in PendingIn(m) THEN m.entry[i] ELSE Queued]
  BY DEF Written, State
<1>3. w.entry = [i \in Ids |-> IF i \in PendingIn(w) THEN w.entry[i] ELSE Queued]
  BY <1>1, <1>2
<1>4. Written(w) = [w EXCEPT !.entry = w.entry]
  BY <1>3 DEF Written
<1> HIDE DEF w
<1>5. [w EXCEPT !.entry = w.entry] = w
  BY <1>1 DEF State
<1> QED
  BY <1>4, <1>5 DEF w

LEMMA SavedGood ==
  ASSUME NEW s, Good(s), full \in BOOLEAN
  PROVE  /\ Good(Saved(s)) /\ Saved(s).mem = s.mem /\ Saved(s).age = s.age
         /\ WakesSaved(s) => WakesSaved(Saved(s))
         /\ ~full => Saved(s).disk = Written(s.mem) /\ InStep(Saved(s)) /\ WakesSaved(Saved(s))
<1>1. s \in Stores /\ s.mem \in State
  BY DEF Good, Stores
<1>2. /\ Saved(s) \in Stores /\ Saved(s).mem = s.mem /\ Saved(s).age = s.age
      /\ full => Saved(s).disk = s.disk \/ Saved(s).disk = Empty
      /\ ~full => Saved(s).disk = Written(s.mem)
  BY <1>1, SavedFields
<1>3. CASE full
  <2> DEFINE t == Saved(s)
  <2>1. /\ t \in Stores /\ t.mem = s.mem /\ t.age = s.age
        /\ t.disk = s.disk \/ t.disk = Empty
    BY <1>2, <1>3
  <2> HIDE DEF t
  <2>2. Queue(t.disk)
    BY <2>1, EmptyQueue DEF Good
  <2>3. Behind(t)
    <3>1. Behind(s)
      BY DEF Good
    <3>2. CASE t.disk = s.disk
      BY <2>1, <3>1, <3>2 DEF Behind
    <3>3. CASE t.disk = Empty
      <4>1. t.disk = Written(t.disk)
        BY <3>3, EmptyWritten
      <4> QED
        BY <2>1, <3>1, <3>3, <4>1, EmptyFields DEF Behind
    <3> QED
      BY <2>1, <3>2, <3>3
  <2>4. Good(t)
    BY <2>1, <2>2, <2>3 DEF Good
  <2>5. WakesSaved(s) => WakesSaved(t)
    BY <2>1 DEF WakesSaved
  <2> QED
    BY <1>3, <2>1, <2>4, <2>5 DEF t
<1>4. CASE ~full
  <2>1. Queue(Written(s.mem)) /\ Holds(Written(s.mem)) = Holds(s.mem)
        /\ Written(s.mem).seen = s.mem.seen
    BY <1>1, WrittenQueue, WrittenFields DEF Good
  <2>2. Behind(Saved(s))
    <3>1. Saved(s).disk = Written(s.mem) /\ Saved(s).mem = s.mem
      BY <1>2, <1>4
    <3>2. \A x \in Ids : NotTried(x) \/ x \in s.mem.seen
      BY DEF Good, Behind
    <3>3. Written(Written(s.mem)) = Written(s.mem)
      BY <1>1, WrittenTwice
    <3> QED
      BY <2>1, <3>1, <3>2, <3>3 DEF Behind
  <2> QED
    BY <1>2, <1>4, <2>1, <2>2 DEF Good, InStep, WakesSaved
<1> QED
  BY <1>3, <1>4

LEMMA GoodByMem ==
  ASSUME NEW s, Good(s), NEW t \in Stores, t.disk = s.disk, Queue(t.mem),
         NEW F, Carries(s.mem, t.mem, F)
  PROVE  Good(t)
<1>1. t.disk.seen \subseteq t.mem.seen
  BY DEF Good, Behind, Carries
<1>2. Holds(t.mem) \cap t.disk.seen \subseteq Holds(t.disk)
  BY DEF Good, Behind, Carries
<1>3. s.mem.seen \subseteq t.mem.seen
  BY DEF Carries
<1> QED
  BY <1>1, <1>2, <1>3 DEF Good, Behind

-----------------------------------------------------------------------------
(* Items that leave the queue.                                             *)
Follows(q, r) ==
  \A a, b \in 1..Len(r) : a < b => \E c, d \in 1..Len(q) : c < d /\ q[c] = r[a] /\ q[d] = r[b]
FirstStays(q, r) == q # <<>> /\ q[1] \in Range(r) => r[1] = q[1]

LEMMA KeptFollows ==
  ASSUME NEW S, NEW q \in Seq(S), NEW T
  PROVE  Follows(q, Kept(q, T)) /\ FirstStays(q, Kept(q, T))
<1>1. q # <<>> /\ q[1] \in Range(Kept(q, T)) => q[1] \in T
  BY KeptMembers
<1> QED
  BY <1>1, KeptOrder DEF Follows, FirstStays

LEMMA TailFollows ==
  ASSUME NEW S, NEW q \in Seq(S), q # <<>>, IsInjective(q)
  PROVE  /\ Follows(q, Tail(q)) /\ FirstStays(q, Tail(q))
         /\ Range(Tail(q)) = Range(q) \ {q[1]} /\ Head(q) = q[1]
<1>1. /\ Tail(q) \in Seq(S) /\ Len(Tail(q)) = Len(q) - 1 /\ Len(q) \in Nat \ {0}
      /\ \A a \in 1..Len(Tail(q)) : Tail(q)[a] = q[a + 1]
  OBVIOUS
<1> DEFINE r == Tail(q)
<1> HIDE DEF r
<1>2. r \in Seq(S) /\ Len(r) = Len(q) - 1 /\ \A a \in 1..Len(r) : r[a] = q[a + 1]
  BY <1>1 DEF r
<1>3. Follows(q, r)
  <2>1. SUFFICES ASSUME NEW a \in 1..Len(r), NEW b \in 1..Len(r), a < b
                 PROVE  \E c, d \in 1..Len(q) : c < d /\ q[c] = r[a] /\ q[d] = r[b]
    BY DEF Follows
  <2>2. a + 1 \in 1..Len(q) /\ b + 1 \in 1..Len(q) /\ a + 1 < b + 1
    BY <1>1, <1>2, <2>1
  <2> QED
    BY <1>2, <2>2
<1>4. Range(r) = {r[a] : a \in 1..Len(r)} /\ Range(q) = {q[a] : a \in 1..Len(q)}
  BY <1>2, RangeIsPlaces
<1>5. \A a, b \in 1..Len(q) : a < b => q[a] # q[b]
  BY RangeIsPlaces
<1>6. Range(r) = Range(q) \ {q[1]}
  <2>1. ASSUME NEW a \in 1..Len(r)
        PROVE  r[a] \in Range(q) \ {q[1]}
    <3>1. a + 1 \in 1..Len(q) /\ 1 \in 1..Len(q) /\ 1 < a + 1
      BY <1>1, <1>2
    <3> QED
      BY <1>2, <1>4, <1>5, <3>1
  <2>2. ASSUME NEW a \in 1..Len(q), q[a] # q[1]
        PROVE  q[a] \in Range(r)
    <3>1. a # 1
      BY <2>2
    <3>2. a - 1 \in 1..Len(r) /\ (a - 1) + 1 = a
      BY <1>1, <1>2, <3>1
    <3>3. r[a - 1] = q[a]
      BY <1>2, <3>2
    <3> QED
      BY <1>4, <3>2, <3>3
  <2> QED
    BY <1>4, <2>1, <2>2
<1> QED
  BY <1>3, <1>6 DEF FirstStays, r

LEMMA Thinned ==
  ASSUME NEW m, Queue(m), NEW n \in State, n.seen = m.seen,
         PendingIn(n) \subseteq PendingIn(m), Follows(m.pending, n.pending),
         \A i \in PendingIn(n) : n.entry[i].tried = m.entry[i].tried
  PROVE  TriedFirst(n) /\ IsInjective(n.pending) /\ PendingIn(n) \subseteq n.seen
<1>1. m \in State /\ IsInjective(m.pending) /\ TriedFirst(m) /\ Seen(m)
  BY DEF Queue
<1>2. \A c, d \in 1..Len(m.pending) : c < d => m.pending[c] # m.pending[d]
  BY <1>1, PendingAreIds, RangeIsPlaces
<1>3. \A a, b \in 1..Len(n.pending) : a < b => n.pending[a] # n.pending[b]
  BY <1>2 DEF Follows
<1>4. IsInjective(n.pending)
  BY <1>3, PendingAreIds, RangeIsPlaces
<1>5. ASSUME NEW a \in 1..Len(n.pending), NEW b \in 1..Len(n.pending), a < b,
             n.entry[n.pending[b]].tried
      PROVE  n.entry[n.pending[a]].tried
  <2>1. n.pending[a] \in PendingIn(n) /\ n.pending[b] \in PendingIn(n)
    BY PendingAreIds
  <2>2. PICK c \in 1..Len(m.pending), d \in 1..Len(m.pending) :
          c < d /\ m.pending[c] = n.pending[a] /\ m.pending[d] = n.pending[b]
    BY <1>5 DEF Follows
  <2>3. m.entry[m.pending[d]].tried
    BY <1>5, <2>1, <2>2
  <2>4. m.entry[m.pending[c]].tried
    BY <1>1, <2>2, <2>3 DEF TriedFirst
  <2> QED
    BY <2>1, <2>2, <2>4
<1>6. TriedFirst(n)
  BY <1>5 DEF TriedFirst
<1> QED
  BY <1>1, <1>4, <1>6 DEF Seen

LEMMA ReceiptsFrom ==
  ASSUME NEW m, NEW items, NEW status
  PROVE  {r[1] : r \in ReceiptsFor(m, items, status)} = UNION {Sources(m, i) : i \in items \cap DMs}
<1> DEFINE U == UNION {Sources(m, i) : i \in items \cap DMs}
<1>1. ReceiptsFor(m, items, status) = {<<d, status>> : d \in U}
  BY DEF ReceiptsFor
<1> HIDE DEF U
<1> DEFINE R == {<<d, status>> : d \in U}
<1>2. \A d \in U : <<d, status>> \in R /\ <<d, status>>[1] = d
  OBVIOUS
<1>3. \A r \in R : \E d \in U : r = <<d, status>>
  OBVIOUS
<1> HIDE DEF R
<1>4. {r[1] : r \in R} = U
  BY <1>2, <1>3
<1> QED
  BY <1>1, <1>4 DEF U, R

(* In a queue a direct message is stood for by one item, a direct message. *)
LEMMA HeadsStand ==
  ASSUME NEW m, Queue(m)
  PROVE  /\ \A i \in PendingIn(m) : i \in Sources(m, i) /\ Sources(m, i) \subseteq m.seen
         /\ \A i \in PendingIn(m) : \A d \in DMs : d \in Sources(m, i) => i \in DMs
         /\ PendingIn(m) \cap DMs \subseteq Holds(m)
         /\ Holds(m) \subseteq m.seen
<1>1. \A i \in PendingIn(m) : i \in Ids /\ i \in m.seen
  BY PendingAreIds DEF Queue, Seen
<1>2. \A i \in PendingIn(m) : i \in Sources(m, i) /\ Sources(m, i) \subseteq m.seen
  BY <1>1 DEF Sources, Queue, Heads
<1>3. \A i \in PendingIn(m) : \A d \in DMs : d \in Sources(m, i) => i \in DMs
  <2>1. SUFFICES ASSUME NEW i \in PendingIn(m), NEW d \in DMs, d \in Sources(m, i)
                 PROVE  i \in DMs
    OBVIOUS
  <2>2. CASE m.entry[i].merged = {}
    BY <2>1, <2>2 DEF Sources
  <2>3. CASE m.entry[i].merged # {}
    <3>1. i \in m.entry[i].merged
      BY <2>3 DEF Queue, Heads
    <3>2. m.entry[i].merged \subseteq DMs
      BY <1>1 DEF Queue, State, Entry
    <3> QED
      BY <3>1, <3>2
  <2> QED
    BY <2>2, <2>3
<1> QED
  BY <1>2, <1>3 DEF Holds

(* Items of X leave the queue, and their receipts are owed, with others    *)
(* for messages the queue does not hold.                                   *)
LEMMA Dropped ==
  ASSUME NEW m, Queue(m), NEW n \in State, NEW X, NEW K, K \subseteq m.seen \ Holds(m),
         n.seen = m.seen, n.entry = m.entry,
         PendingIn(n) = PendingIn(m) \ X,
         Follows(m.pending, n.pending), FirstStays(m.pending, n.pending),
         OwedIn(n) = OwedIn(m) \cup K
                       \cup UNION {Sources(m, i) : i \in X \cap PendingIn(m) \cap DMs}
  PROVE  Queue(n) /\ Carries(m, n, {}) /\ Minds(m, n)
<1>1. \A i \in Ids : Sources(n, i) = Sources(m, i)
  BY DEF Sources
<1>2. PendingIn(m) \subseteq Ids /\ m \in State
  BY PendingAreIds DEF Queue
<1>3. TriedFirst(n) /\ IsInjective(n.pending) /\ PendingIn(n) \subseteq n.seen
  BY Thinned
<1>4. Heads(n)
  BY DEF Queue, Heads
<1>5. Apart(n)
  BY <1>1, <1>2 DEF Queue, Apart
<1>6. Untried(n)
  BY <1>1, <1>2 DEF Queue, Untried
<1>7. OwedIn(n) \subseteq n.seen
  BY HeadsStand DEF Queue, Seen
<1>8. Holds(n) \subseteq Holds(m)
  BY <1>1, <1>2 DEF Holds
<1>9. HeldOrOwed(n)
  <2>1. SUFFICES ASSUME NEW d \in Holds(n), d \in OwedIn(n)
                 PROVE  FALSE
    BY DEF HeldOrOwed
  <2>2. PICK i \in PendingIn(n) : d \in Sources(m, i)
    BY <1>1, <1>2 DEF Holds
  <2>3. d \in Holds(m)
    BY <1>8
  <2>4. d \notin OwedIn(m) /\ d \notin K
    BY <2>3 DEF Queue, HeldOrOwed
  <2>5. PICK j \in X \cap PendingIn(m) \cap DMs : d \in Sources(m, j)
    BY <2>1, <2>4
  <2>6. i # j /\ i \in PendingIn(m) /\ j \in PendingIn(m)
    OBVIOUS
  <2> QED
    BY <2>2, <2>5, <2>6 DEF Queue, Apart
<1>10. Holds(m) \subseteq Holds(n) \cup OwedIn(n)
  <2>1. SUFFICES ASSUME NEW d \in Holds(m), d \notin Holds(n)
                 PROVE  d \in OwedIn(n)
    OBVIOUS
  <2>2. PICK i \in PendingIn(m) : d \in Sources(m, i) /\ d \in DMs
    BY DEF Holds
  <2>3. i \in X
    BY <1>1, <1>2, <2>1, <2>2 DEF Holds
  <2>4. i \in DMs
    BY <2>2, HeadsStand
  <2> QED
    BY <2>2, <2>3, <2>4
<1>11. Carries(m, n, {})
  BY <1>8, <1>10 DEF Carries
<1>12. ASSUME NEW i \in DMs, m.pending # <<>>, i = m.pending[1]
       PROVE  IF i \in PendingIn(n) THEN n.pending[1] = i
              ELSE Sources(n, i) \subseteq OwedIn(n)
  <2>1. i \in PendingIn(m)
    BY <1>2, <1>12, PendingAreIds
  <2>2. CASE i \in PendingIn(n)
    BY <1>12, <2>2 DEF FirstStays, PendingIn
  <2>3. CASE i \notin PendingIn(n)
    <3>1. i \in X \cap PendingIn(m) \cap DMs /\ Sources(n, i) = Sources(m, i)
      BY <1>1, <1>2, <2>1, <2>3
    <3> QED
      BY <2>3, <3>1
  <2> QED
    BY <2>2, <2>3
<1>13. Minds(m, n)
  BY <1>12 DEF Minds
<1> QED
  BY <1>3, <1>4, <1>5, <1>6, <1>7, <1>9, <1>11, <1>13 DEF Queue, Seen

-----------------------------------------------------------------------------
(* Intake.                                                                 *)
LEMMA MarkedFields ==
  ASSUME NEW s \in Stores, NEW i \in Ids
  PROVE  /\ Marked(s, i) \in Stores /\ Marked(s, i).disk = s.disk
         /\ Marked(s, i).mem \in State
         /\ Marked(s, i).mem.seen = s.mem.seen \cup {i}
         /\ Marked(s, i).mem.pending = s.mem.pending
         /\ Marked(s, i).mem.acks = s.mem.acks
         /\ Marked(s, i).mem.entry = s.mem.entry
         /\ Marked(s, i).mem.bootstrapped = s.mem.bootstrapped
BY DEF Marked, Stores, State

LEMMA MarkedGood ==
  ASSUME NEW s, Good(s), NEW i \in Ids
  PROVE  /\ Good(Marked(s, i)) /\ Marked(s, i).disk = s.disk
         /\ Marked(s, i).mem.seen = s.mem.seen \cup {i}
         /\ i \notin DMs => Carries(s.mem, Marked(s, i).mem, {})
         /\ Minds(s.mem, Marked(s, i).mem)
<1> DEFINE m == s.mem
           n == Marked(s, i).mem
<1>1. /\ Marked(s, i) \in Stores /\ Marked(s, i).disk = s.disk /\ n \in State /\ m \in State
      /\ n.seen = m.seen \cup {i} /\ n.pending = m.pending
      /\ n.acks = m.acks /\ n.entry = m.entry
  BY MarkedFields DEF Good, Stores
<1>2. Queue(m)
  BY DEF Good
<1> HIDE DEF n, m
<1>3. /\ PendingIn(n) = PendingIn(m) /\ OwedIn(n) = OwedIn(m)
      /\ \A j : Sources(n, j) = Sources(m, j)
  BY <1>1 DEF PendingIn, OwedIn, Sources
<1>4. Holds(n) = Holds(m)
  BY <1>3 DEF Holds
<1>5. Queue(n)
  <2>1. Seen(n) /\ HeldOrOwed(n) /\ IsInjective(n.pending)
    BY <1>1, <1>2, <1>3, <1>4 DEF Queue, Seen, HeldOrOwed
  <2>2. Heads(n)
    BY <1>1, <1>2, <1>3 DEF Queue, Heads
  <2>3. Apart(n) /\ Untried(n) /\ TriedFirst(n)
    BY <1>1, <1>2, <1>3 DEF Queue, Apart, Untried, TriedFirst
  <2> QED
    BY <1>1, <2>1, <2>2, <2>3 DEF Queue
<1>6. Behind(Marked(s, i))
  <2>1. Behind(s)
    BY DEF Good
  <2> QED
    BY <1>1, <1>4, <2>1 DEF Behind, n, m
<1>7. Good(Marked(s, i))
  BY <1>1, <1>5, <1>6 DEF Good, n
<1>8. i \notin DMs => Carries(m, n, {})
  BY <1>1, <1>3, <1>4 DEF Carries
<1>9. Minds(m, n)
  BY <1>1, <1>3, PendingAreIds DEF Minds
<1> QED
  BY <1>1, <1>7, <1>8, <1>9 DEF n, m

(* The queue with a new item at its end.                                   *)
LEMMA Appended ==
  ASSUME NEW m, Queue(m), NEW i \in m.seen, i \notin PendingIn(m), i \notin Holds(m),
         i \notin OwedIn(m), i \in Ids,
         \A j \in PendingIn(m) : i \notin Sources(m, j), NotTried(i),
         NEW n \in State, n.seen = m.seen, n.acks = m.acks,
         n.pending = Append(m.pending, i), n.entry = [m.entry EXCEPT ![i] = Queued]
  PROVE  /\ Queue(n) /\ OwedIn(n) = OwedIn(m)
         /\ \A d \in DMs : d \in Holds(n) <=> d \in Holds(m) \/ d = i
         /\ \A d \in DMs : m.pending # <<>> /\ d = m.pending[1] => n.pending[1] = d
         /\ PendingIn(n) = PendingIn(m) \cup {i}
<1>1. m \in State /\ m.pending \in Seq(Ids) /\ m.entry \in [Ids -> Entry]
  BY DEF Queue, State
<1>2. /\ n.entry[i] = Queued
      /\ \A j \in PendingIn(m) : j \in Ids /\ j # i /\ n.entry[j] = m.entry[j]
  BY <1>1, PendingAreIds
<1>3. /\ Len(n.pending) = Len(m.pending) + 1 /\ n.pending[Len(m.pending) + 1] = i
      /\ Len(m.pending) \in Nat
      /\ \A a \in 1..Len(m.pending) : n.pending[a] = m.pending[a]
  BY <1>1
<1>4. PendingIn(n) = PendingIn(m) \cup {i}
  <2>1. PendingIn(m) = {m.pending[a] : a \in 1..Len(m.pending)}
        /\ PendingIn(n) = {n.pending[a] : a \in 1..Len(n.pending)}
    BY <1>1, PendingAreIds
  <2>2. \A a \in 1..Len(n.pending) : a \in 1..Len(m.pending) \/ a = Len(m.pending) + 1
    BY <1>3
  <2>3. Len(m.pending) + 1 \in 1..Len(n.pending) /\ 1..Len(m.pending) \subseteq 1..Len(n.pending)
    BY <1>3
  <2> QED
    BY <1>3, <2>1, <2>2, <2>3
<1>5. OwedIn(n) = OwedIn(m)
  BY DEF OwedIn
<1>6. Sources(n, i) = {i} /\ \A j \in PendingIn(m) : Sources(n, j) = Sources(m, j)
  BY <1>2 DEF Sources, Queued
<1>7. \A d \in DMs : d \in Holds(n) <=> d \in Holds(m) \/ d = i
  BY <1>4, <1>6 DEF Holds
<1>8. IsInjective(n.pending)
  <2>1. \A a, b \in 1..Len(m.pending) : a < b => m.pending[a] # m.pending[b]
    BY <1>1, RangeIsPlaces DEF Queue
  <2>2. \A a \in 1..Len(m.pending) : m.pending[a] # i
    BY <1>1, PendingAreIds
  <2>3. \A a, b \in 1..Len(n.pending) : a < b => a \in 1..Len(m.pending)
                              /\ (b \in 1..Len(m.pending) \/ b = Len(m.pending) + 1)
    BY <1>3
  <2>4. \A a, b \in 1..Len(n.pending) : a < b => n.pending[a] # n.pending[b]
    BY <1>3, <2>1, <2>2, <2>3
  <2> QED
    BY <2>4, PendingAreIds, RangeIsPlaces
<1>9. Seen(n)
  BY <1>4, <1>5 DEF Queue, Seen
<1>10. Heads(n)
  <2>1. n.entry[i].tried = FALSE /\ n.entry[i].merged = {}
    BY <1>2 DEF Queued
  <2>2. \A j \in PendingIn(m) :
          /\ n.entry[j].merged # {} => /\ j \in n.entry[j].merged /\ n.entry[j].forced
                                       /\ n.entry[j].merged \subseteq n.seen
          /\ n.entry[j].tried => n.entry[j].forced
    BY <1>2 DEF Queue, Heads
  <2>3. SUFFICES ASSUME NEW j \in PendingIn(n)
                 PROVE  /\ n.entry[j].merged # {} =>
                             /\ j \in n.entry[j].merged /\ n.entry[j].forced
                             /\ n.entry[j].merged \subseteq n.seen
                        /\ n.entry[j].tried => n.entry[j].forced
    BY DEF Heads
  <2>4. CASE j = i
    BY <2>1, <2>4
  <2>5. CASE j \in PendingIn(m)
    BY <2>2, <2>5
  <2> QED
    BY <1>4, <2>4, <2>5
<1>11. Apart(n)
  <2>1. \A j, k \in PendingIn(m) : j # k => Sources(n, j) \cap Sources(n, k) = {}
    BY <1>6 DEF Queue, Apart
  <2>2. \A j \in PendingIn(m) : i \notin Sources(n, j)
    BY <1>6
  <2> QED
    BY <1>4, <1>6, <2>1, <2>2 DEF Apart
<1>12. Untried(n)
  BY <1>2, <1>4, <1>6 DEF Queue, Untried
<1>13. TriedFirst(n)
  <2>1. SUFFICES ASSUME NEW a \in 1..Len(n.pending), NEW b \in 1..Len(n.pending), a < b,
                        n.entry[n.pending[b]].tried
                 PROVE  n.entry[n.pending[a]].tried
    BY DEF TriedFirst
  <2>2. b # Len(m.pending) + 1
    BY <1>2, <1>3, <2>1 DEF Queued
  <2>3. a \in 1..Len(m.pending) /\ b \in 1..Len(m.pending)
    BY <1>3, <2>1, <2>2
  <2>4. m.pending[a] \in PendingIn(m) /\ m.pending[b] \in PendingIn(m)
    BY <1>1, <2>3, PendingAreIds
  <2> QED
    BY <1>2, <1>3, <2>1, <2>3, <2>4 DEF Queue, TriedFirst
<1>14. HeldOrOwed(n)
  <2>1. \A d \in DMs : d \in Holds(n) => d \notin OwedIn(n)
    BY <1>5, <1>7 DEF Queue, HeldOrOwed
  <2> QED
    BY <2>1 DEF HeldOrOwed, Holds
<1>15. \A d \in DMs : m.pending # <<>> /\ d = m.pending[1] => n.pending[1] = d
  BY <1>1, <1>3, PendingAreIds
<1> QED
  BY <1>4, <1>5, <1>7, <1>8, <1>9, <1>10, <1>11, <1>12, <1>13, <1>14, <1>15 DEF Queue

(* A new item is queued; the oldest may leave for it.                      *)
LEMMA EnqueuedGood ==
  ASSUME NEW s, Good(s), NEW i \in Ids, i \notin s.mem.seen
  PROVE  LET t == Enqueue(Marked(s, i), i)
         IN  /\ Good(t) /\ t.disk = s.disk /\ t.mem.seen = s.mem.seen \cup {i}
             /\ Carries(s.mem, t.mem, {}) /\ Minds(s.mem, t.mem)
<1> DEFINE u == Marked(s, i)
           t == Enqueue(u, i)
           all == Append(u.mem.pending, i)
           m == [u.mem EXCEPT !.entry[i] = Queued]
           a == [m EXCEPT !.pending = all]
<1>1. /\ Good(u) /\ u.disk = s.disk /\ u.mem.seen = s.mem.seen \cup {i} /\ u \in Stores
      /\ u.mem.pending = s.mem.pending /\ u.mem.acks = s.mem.acks /\ u.mem.entry = s.mem.entry
      /\ u.mem \in State /\ s.mem \in State /\ Queue(u.mem) /\ Queue(s.mem)
  BY MarkedGood, MarkedFields DEF Good, Stores
<1>2. PICK dropped :
        /\ t \in Stores /\ t.disk = u.disk
        /\ t.mem.seen = u.mem.seen /\ t.mem.bootstrapped = u.mem.bootstrapped
        /\ t.mem.entry = m.entry /\ m \in State
        /\ t.mem.acks = u.mem.acks \cup ReceiptsFor(m, dropped, "expired")
        /\ \/ dropped = {} /\ t.mem.pending = all
           \/ dropped = {Head(all)} /\ t.mem.pending = Tail(all)
  BY <1>1, EnqueueFields
<1>3. /\ m.seen = u.mem.seen /\ m.acks = u.mem.acks /\ m.entry = [u.mem.entry EXCEPT ![i] = Queued]
  BY <1>1 DEF State
<1>4. all \in Seq(Ids) /\ all # <<>>
  BY <1>1 DEF State
<1> HIDE DEF all, m
<1>5. /\ a \in State /\ a.seen = u.mem.seen /\ a.acks = u.mem.acks /\ a.pending = all
      /\ a.entry = [u.mem.entry EXCEPT ![i] = Queued] /\ a.entry = m.entry
  BY <1>2, <1>3, <1>4 DEF State
<1> HIDE DEF a, u, t
<1>6. /\ PendingIn(s.mem) \subseteq s.mem.seen /\ OwedIn(s.mem) \subseteq s.mem.seen
      /\ Holds(s.mem) \subseteq s.mem.seen
      /\ \A j \in PendingIn(s.mem) : Sources(s.mem, j) \subseteq s.mem.seen
  BY <1>1, HeadsStand DEF Queue, Seen
<1>7. /\ PendingIn(u.mem) = PendingIn(s.mem) /\ OwedIn(u.mem) = OwedIn(s.mem)
      /\ \A j : Sources(u.mem, j) = Sources(s.mem, j)
  BY <1>1 DEF PendingIn, OwedIn, Sources
<1>8. Holds(u.mem) = Holds(s.mem)
  BY <1>7 DEF Holds
<1>9. NotTried(i)
  BY DEF Good, Behind
<1>10. /\ Queue(a) /\ OwedIn(a) = OwedIn(s.mem)
       /\ \A d \in DMs : d \in Holds(a) <=> d \in Holds(s.mem) \/ d = i
       /\ \A d \in DMs : s.mem.pending # <<>> /\ d = s.mem.pending[1] => a.pending[1] = d
       /\ PendingIn(a) = PendingIn(s.mem) \cup {i}
  <2>1. i \in u.mem.seen /\ i \notin PendingIn(u.mem) /\ i \notin Holds(u.mem) /\ i \notin OwedIn(u.mem)
        /\ \A j \in PendingIn(u.mem) : i \notin Sources(u.mem, j)
    BY <1>1, <1>6, <1>7, <1>8
  <2>2. a.pending = Append(u.mem.pending, i)
    BY <1>5 DEF all
  <2>3. /\ Queue(a) /\ OwedIn(a) = OwedIn(u.mem)
        /\ \A d \in DMs : d \in Holds(a) <=> d \in Holds(u.mem) \/ d = i
        /\ \A d \in DMs : u.mem.pending # <<>> /\ d = u.mem.pending[1] => a.pending[1] = d
        /\ PendingIn(a) = PendingIn(u.mem) \cup {i}
    <3> DEFINE v == u.mem
    <3>1. /\ Queue(v) /\ i \in v.seen /\ i \notin PendingIn(v) /\ i \notin Holds(v)
          /\ i \notin OwedIn(v) /\ \A j \in PendingIn(v) : i \notin Sources(v, j)
          /\ a \in State /\ a.seen = v.seen /\ a.acks = v.acks
          /\ a.pending = Append(v.pending, i) /\ a.entry = [v.entry EXCEPT ![i] = Queued]
      BY <1>1, <1>5, <2>1, <2>2
    <3> HIDE DEF v
    <3>2. /\ Queue(a) /\ OwedIn(a) = OwedIn(v)
          /\ \A d \in DMs : d \in Holds(a) <=> d \in Holds(v) \/ d = i
          /\ \A d \in DMs : v.pending # <<>> /\ d = v.pending[1] => a.pending[1] = d
          /\ PendingIn(a) = PendingIn(v) \cup {i}
      BY <1>9, <3>1, Appended
    <3> QED
      BY <3>2 DEF v
  <2> QED
    BY <1>1, <1>7, <1>8, <2>3
<1>11. Carries(s.mem, a, {})
  <2>1. \A d \in Holds(a) : d \in DMs
    BY DEF Holds
  <2>2. \A d \in Holds(s.mem) : d \in DMs
    BY DEF Holds
  <2> QED
    BY <1>1, <1>5, <1>10, <2>1, <2>2 DEF Carries
<1>12. Minds(s.mem, a)
  <2>1. \A d \in (DMs \cap s.mem.seen) \ PendingIn(s.mem) :
          d \notin PendingIn(a) /\ a.entry[d].merged = s.mem.entry[d].merged
    <3>1. \A d \in Ids : d # i => a.entry[d] = s.mem.entry[d]
      BY <1>1, <1>5 DEF State
    <3> QED
      BY <1>10, <3>1 DEF Ids
  <2>2. \A d \in DMs : s.mem.pending # <<>> /\ d = s.mem.pending[1] => d \in PendingIn(a)
    BY <1>1, <1>10, PendingAreIds
  <2> QED
    BY <1>10, <2>1, <2>2 DEF Minds
<1>13. t.mem \in State /\ t.mem.seen = a.seen /\ t.mem.entry = a.entry
  BY <1>2, <1>5 DEF Stores
<1>14. Queue(t.mem) /\ Carries(a, t.mem, {}) /\ Minds(a, t.mem)
  <2>1. \A i_ \in Ids : Sources(m, i_) = Sources(a, i_)
    BY <1>5 DEF Sources
  <2>2. OwedIn(t.mem) = OwedIn(a) \cup UNION {Sources(m, j) : j \in dropped \cap DMs}
    <3>1. OwedIn(t.mem) = OwedIn(a) \cup {r[1] : r \in ReceiptsFor(m, dropped, "expired")}
      BY <1>2, <1>5 DEF OwedIn
    <3> QED
      BY <3>1, ReceiptsFrom
  <2>3. OwedIn(t.mem) = OwedIn(a) \cup UNION {Sources(a, j) : j \in dropped \cap DMs}
    BY <2>1, <2>2 DEF Ids
  <2>4. /\ Follows(a.pending, t.mem.pending) /\ FirstStays(a.pending, t.mem.pending)
        /\ PendingIn(t.mem) = PendingIn(a) \ dropped
        /\ dropped \subseteq PendingIn(a)
    <3>1. CASE dropped = {} /\ t.mem.pending = all
      <4>1. t.mem.pending = a.pending
        BY <1>5, <3>1
      <4> QED
        BY <3>1, <4>1 DEF Follows, FirstStays, PendingIn
    <3>2. CASE dropped = {Head(all)} /\ t.mem.pending = Tail(all)
      <4>1. IsInjective(all)
        BY <1>5, <1>10 DEF Queue
      <4>2. /\ Follows(all, Tail(all)) /\ FirstStays(all, Tail(all))
            /\ Range(Tail(all)) = Range(all) \ {all[1]} /\ Head(all) = all[1]
        BY <1>4, <4>1, TailFollows
      <4>3. all[1] \in PendingIn(a)
        BY <1>4, <1>5, PendingAreIds
      <4> QED
        BY <1>5, <3>2, <4>2, <4>3 DEF PendingIn
    <3> QED
      BY <1>2, <3>1, <3>2
  <2>5. OwedIn(t.mem) = OwedIn(a) \cup {}
                   \cup UNION {Sources(a, j) : j \in dropped \cap PendingIn(a) \cap DMs}
    <3>1. dropped \cap PendingIn(a) = dropped
      BY <2>4
    <3> QED
      BY <2>3, <3>1
  <2> DEFINE n == t.mem
  <2>6. /\ n \in State /\ n.seen = a.seen /\ n.entry = a.entry /\ Queue(a)
        /\ Follows(a.pending, n.pending) /\ FirstStays(a.pending, n.pending)
        /\ PendingIn(n) = PendingIn(a) \ dropped
        /\ OwedIn(n) = OwedIn(a) \cup {}
                   \cup UNION {Sources(a, j) : j \in dropped \cap PendingIn(a) \cap DMs}
        /\ {} \subseteq a.seen \ Holds(a)
    BY <1>10, <1>13, <2>4, <2>5
  <2> HIDE DEF n
  <2>7. Queue(n) /\ Carries(a, n, {}) /\ Minds(a, n)
    BY <2>6, Dropped
  <2> QED
    BY <2>7 DEF n
<1>15. Carries(s.mem, t.mem, {})
  BY <1>11, <1>14, CarriesOn
<1>16. Minds(s.mem, t.mem)
  BY <1>1, <1>10, <1>11, <1>12, <1>14, MindsOn
<1>17. Good(t)
  BY <1>1, <1>2, <1>14, <1>15, GoodByMem
<1> QED
  BY <1>1, <1>2, <1>15, <1>16, <1>17 DEF t, u

LEMMA IngestRowGood ==
  ASSUME NEW s, Good(s), NEW g \in Posts
  PROVE  LET t == IngestRow(s, g)
         IN  Good(t) /\ Carries(s.mem, t.mem, {}) /\ Minds(s.mem, t.mem) /\ (WakesSaved(s) => WakesSaved(t))
<1> DEFINE t == IngestRow(s, g)
<1>1. g \in Ids /\ g \notin DMs /\ g \notin Wakes
  BY KindsAreApart DEF Ids
<1>2. s.mem \in State
  BY DEF Good, Stores
<1>3. CASE g \in s.mem.seen
  <2>1. t = s
    BY <1>3 DEF IngestRow
  <2> QED
    BY <1>2, <2>1, StaysAsItIs
<1>4. CASE g \notin s.mem.seen
  <2> DEFINE u == Marked(s, g)
  <2>1. t = IF s.mem.bootstrapped THEN Enqueue(u, g) ELSE u
    BY <1>4 DEF IngestRow, Marked
  <2>2. CASE ~s.mem.bootstrapped
    <3>1. Good(u) /\ Carries(s.mem, u.mem, {}) /\ Minds(s.mem, u.mem)
          /\ u.disk = s.disk /\ u.mem.seen = s.mem.seen \cup {g}
      BY <1>1, MarkedGood
    <3> HIDE DEF u
    <3> QED
      BY <1>1, <2>1, <2>2, <3>1 DEF WakesSaved
  <2>3. CASE s.mem.bootstrapped
    <3> DEFINE e == Enqueue(u, g)
    <3>1. /\ Good(e) /\ Carries(s.mem, e.mem, {}) /\ Minds(s.mem, e.mem)
          /\ e.disk = s.disk /\ e.mem.seen = s.mem.seen \cup {g}
      BY <1>1, <1>4, EnqueuedGood
    <3> HIDE DEF e
    <3>2. t = e
      BY <2>1, <2>3 DEF e
    <3> HIDE DEF t
    <3>3. WakesSaved(s) => WakesSaved(t)
      BY <1>1, <3>1, <3>2 DEF WakesSaved
    <3>4. Good(t) /\ Carries(s.mem, t.mem, {}) /\ Minds(s.mem, t.mem)
      BY <3>1, <3>2
    <3> QED
      BY <3>3, <3>4 DEF t
  <2> QED
    BY <2>2, <2>3
<1> QED
  BY <1>3, <1>4

LEMMA IngestDirectGood ==
  ASSUME NEW s, Good(s), NEW d \in DMs, full \in BOOLEAN
  PROVE  LET t == IngestDirect(s, d)
         IN  /\ Good(t) /\ Carries(s.mem, t.mem, {}) /\ Minds(s.mem, t.mem)
             /\ (WakesSaved(s) => WakesSaved(t))
             /\ (InStep(s) /\ ~full => InStep(t))
<1> DEFINE t == IngestDirect(s, d)
           e == Enqueue(Marked(s, d), d)
<1>1. d \in Ids /\ d \notin Wakes
  BY KindsAreApart DEF Ids
<1>2. s.mem \in State
  BY DEF Good, Stores
<1>3. CASE d \in s.mem.seen
  <2>1. t = s
    BY <1>3 DEF IngestDirect
  <2> QED
    BY <1>2, <2>1, StaysAsItIs
<1>4. CASE d \notin s.mem.seen
  <2>1. t = Saved(e)
    BY <1>4 DEF IngestDirect, Marked
  <2>2. /\ Good(e) /\ Carries(s.mem, e.mem, {}) /\ Minds(s.mem, e.mem)
        /\ e.disk = s.disk /\ e.mem.seen = s.mem.seen \cup {d}
    BY <1>1, <1>4, EnqueuedGood
  <2> HIDE DEF e
  <2>3. /\ Good(t) /\ t.mem = e.mem
        /\ WakesSaved(e) => WakesSaved(t)
        /\ ~full => InStep(t) /\ WakesSaved(t)
    BY <2>1, <2>2, SavedGood
  <2> HIDE DEF t
  <2>4. WakesSaved(s) => WakesSaved(t)
    BY <1>1, <2>2, <2>3 DEF WakesSaved
  <2>5. Carries(s.mem, t.mem, {}) /\ Minds(s.mem, t.mem) /\ (InStep(s) /\ ~full => InStep(t))
    BY <2>2, <2>3
  <2> QED
    BY <2>3, <2>4, <2>5 DEF t
<1> QED
  BY <1>3, <1>4

LEMMA SwallowedGood ==
  ASSUME NEW s, Good(s), NEW w \in Wakes, full \in BOOLEAN
  PROVE  LET t == Swallowed(s, w)
         IN  /\ Good(t) /\ Carries(s.mem, t.mem, {}) /\ Minds(s.mem, t.mem)
             /\ (WakesSaved(s) => WakesSaved(t))
             /\ (InStep(s) /\ ~full => InStep(t))
<1> DEFINE t == Swallowed(s, w)
           u == Marked(s, w)
           e == Enqueue(u, w)
<1>1. w \in Ids /\ w \notin DMs
  BY KindsAreApart DEF Ids
<1>2. s.mem \in State
  BY DEF Good, Stores
<1>3. CASE w \in s.mem.seen
  <2>1. t = s
    BY <1>3 DEF Swallowed
  <2> QED
    BY <1>2, <2>1, StaysAsItIs
<1>5. CASE w \notin s.mem.seen /\ full
  <2>1. t = Saved(s)
    BY <1>5 DEF Swallowed
  <2>2. Good(t) /\ t.mem = s.mem /\ (WakesSaved(s) => WakesSaved(t))
    BY <2>1, SavedGood
  <2> HIDE DEF t
  <2>3. Carries(s.mem, t.mem, {}) /\ Minds(s.mem, t.mem)
    BY <1>2, <2>2, StaysAsItIs
  <2> QED
    BY <1>5, <2>2, <2>3 DEF t
<1>4. CASE ~(w \in s.mem.seen \/ full)
  <2>1. \E x : x \in {u, e} /\ t = Saved(x)
    BY <1>4 DEF Swallowed
  <2>2. Good(e) /\ Carries(s.mem, e.mem, {}) /\ Minds(s.mem, e.mem)
    BY <1>1, <1>4, EnqueuedGood
  <2>3. Good(u) /\ Carries(s.mem, u.mem, {}) /\ Minds(s.mem, u.mem)
    BY <1>1, MarkedGood
  <2> HIDE DEF e, u
  <2>4. PICK x : Good(x) /\ Carries(s.mem, x.mem, {}) /\ Minds(s.mem, x.mem) /\ t = Saved(x)
    BY <2>1, <2>2, <2>3
  <2>5. Good(t) /\ t.mem = x.mem /\ InStep(t) /\ WakesSaved(t)
    BY <1>4, <2>4, SavedGood
  <2> HIDE DEF t
  <2>6. Carries(s.mem, t.mem, {}) /\ Minds(s.mem, t.mem)
    BY <2>4, <2>5
  <2> QED
    BY <2>5, <2>6 DEF t
<1> QED
  BY <1>3, <1>4, <1>5

(* Whatever arrives together.  Posts are saved with the baseline.          *)
LEMMA TakenInGood ==
  ASSUME NEW s, Good(s), NEW items \in Seq(Ids), full \in BOOLEAN
  PROVE  LET t == TakenIn(s, items)
         IN  /\ Good(t) /\ Carries(s.mem, t.mem, {}) /\ Minds(s.mem, t.mem)
             /\ (WakesSaved(s) => WakesSaved(t))
             /\ (InStep(s) /\ ~full /\ (\A n \in 1..Len(items) : items[n] \notin Posts) => InStep(t))
<1> DEFINE Kind(t) ==
             /\ Good(t) /\ Carries(s.mem, t.mem, {}) /\ Minds(s.mem, t.mem)
             /\ (WakesSaved(s) => WakesSaved(t))
             /\ (InStep(s) /\ ~full /\ (\A n \in 1..Len(items) : items[n] \notin Posts) => InStep(t))
           Y == {t \in Stores : Kind(t)}
<1>1. s.mem \in State /\ s \in Stores
  BY DEF Good, Stores
<1>2. s \in Y
  BY <1>1, StaysAsItIs
<1>3. ASSUME NEW t \in Y, NEW n \in 1..Len(items)
      PROVE  TakeIn(t, items[n]) \in Y
  <2> DEFINE i == items[n]
             v == TakeIn(t, i)
  <2>1. Kind(t)
    OBVIOUS
  <2>2. i \in Ids
    OBVIOUS
  <2>3. /\ Good(v) /\ Carries(t.mem, v.mem, {}) /\ Minds(t.mem, v.mem)
        /\ (WakesSaved(t) => WakesSaved(v))
        /\ (i \notin Posts /\ InStep(t) /\ ~full => InStep(v))
    <3>1. CASE i \in Posts
      <4>1. v = IngestRow(t, i)
        BY <3>1 DEF TakeIn
      <4> QED
        BY <2>1, <3>1, <4>1, IngestRowGood
    <3>2. CASE i \notin Posts /\ i \in DMs
      <4>1. v = IngestDirect(t, i)
        BY <3>2 DEF TakeIn
      <4> QED
        BY <2>1, <3>2, <4>1, IngestDirectGood
    <3>3. CASE i \notin Posts /\ i \notin DMs
      <4>1. v = Swallowed(t, i) /\ i \in Wakes
        BY <2>2, <3>3 DEF TakeIn, Ids
      <4> QED
        BY <2>1, <3>3, <4>1, SwallowedGood
    <3> QED
      BY <3>1, <3>2, <3>3
  <2> HIDE DEF v
  <2>4. Carries(s.mem, v.mem, {})
    BY <2>1, <2>3, CarriesOn
  <2>5. Minds(s.mem, v.mem)
    BY <2>1, <2>3, MindsOn DEF Good
  <2>6. (WakesSaved(s) => WakesSaved(v))
    BY <2>1, <2>3
  <2>7. InStep(s) /\ ~full /\ (\A k \in 1..Len(items) : items[k] \notin Posts) => InStep(v)
    BY <2>1, <2>3
  <2>8. v \in Stores
    BY <2>3 DEF Good
  <2> QED
    BY <2>3, <2>4, <2>5, <2>6, <2>7, <2>8 DEF v
<1> HIDE DEF Kind
<1> DEFINE v == TakenIn(s, items)
<1>4. v \in Y
  <2> HIDE DEF Y
  <2> QED
    BY <1>2, <1>3, TakenInKeeps
<1> HIDE DEF v
<1>5. Kind(v)
  BY <1>4
<1> QED
  BY <1>5 DEF Kind, v

LEMMA IngestGood ==
  ASSUME NEW s, Good(s), NEW rows \in Seq(Posts), full \in BOOLEAN
  PROVE  LET t == Ingest(s, rows)
         IN  /\ Good(t) /\ Carries(s.mem, t.mem, {}) /\ Minds(s.mem, t.mem)
             /\ (WakesSaved(s) => WakesSaved(t))
             /\ (~full => InStep(t))
<1> DEFINE u == TakenIn(s, rows)
           v == [u EXCEPT !.mem.bootstrapped = TRUE]
           t == Saved(v)
<1>1. rows \in Seq(Ids)
  BY DEF Ids
<1>2. /\ Good(u) /\ Carries(s.mem, u.mem, {}) /\ Minds(s.mem, u.mem)
      /\ (WakesSaved(s) => WakesSaved(u))
  BY <1>1, TakenInGood
<1>3. Ingest(s, rows) = t
  BY DEF Ingest
<1> HIDE DEF u
<1>4. /\ v \in Stores /\ v.disk = u.disk /\ v.mem \in State /\ u.mem \in State
      /\ v.mem.seen = u.mem.seen /\ v.mem.acks = u.mem.acks /\ v.mem.pending = u.mem.pending
      /\ v.mem.entry = u.mem.entry
  BY <1>2 DEF Good, Stores, State
<1> HIDE DEF v
<1>5. Carries(u.mem, v.mem, {}) /\ Minds(u.mem, v.mem) /\ Queue(v.mem)
  BY <1>2, <1>4, StaysAsItIs, QueueStays DEF Good
<1>6. Good(v)
  BY <1>2, <1>4, <1>5, GoodByMem
<1>7. Carries(s.mem, v.mem, {})
  BY <1>2, <1>5, CarriesOn
<1>8. Minds(s.mem, v.mem)
  BY <1>2, <1>5, MindsOn DEF Good
<1>9. /\ Good(t) /\ t.mem = v.mem /\ (WakesSaved(v) => WakesSaved(t))
      /\ (~full => InStep(t) /\ WakesSaved(t))
  BY <1>6, SavedGood
<1> HIDE DEF t
<1>10. WakesSaved(s) => WakesSaved(t)
  BY <1>2, <1>4, <1>9 DEF WakesSaved
<1>11. Carries(s.mem, t.mem, {}) /\ Minds(s.mem, t.mem)
  BY <1>7, <1>8, <1>9
<1> QED
  BY <1>3, <1>9, <1>10, <1>11

-----------------------------------------------------------------------------
(* A delivery pass over the queue.                                         *)

LEMMA MarkHeldGood ==
  ASSUME NEW s, Good(s), NEW held \in BOOLEAN, full \in BOOLEAN
  PROVE  LET t == MarkHeld(s, held)
         IN  /\ Good(t) /\ Carries(s.mem, t.mem, {}) /\ Minds(s.mem, t.mem)
             /\ (WakesSaved(s) => WakesSaved(t))
             /\ (InStep(s) /\ ~full => InStep(t))
             /\ t.mem.pending = s.mem.pending /\ t.mem.seen = s.mem.seen /\ t.age = s.age
             /\ \A i \in PendingIn(s.mem) : t.mem.entry[i].tried = s.mem.entry[i].tried
                                         /\ t.mem.entry[i].forced = s.mem.entry[i].forced
<1> DEFINE e == [i \in Ids |-> IF i \in PendingIn(s.mem) THEN [s.mem.entry[i] EXCEPT !.held = held]
                               ELSE s.mem.entry[i]]
           v == [s EXCEPT !.mem.entry = e]
           t == MarkHeld(s, held)
<1>1. s \in Stores /\ s.mem \in State /\ Queue(s.mem)
  BY DEF Good, Stores
<1>2. t = s \/ t = Saved(v)
  BY DEF MarkHeld
<1>3. e \in [Ids -> Entry]
      /\ \A i \in Ids : e[i].merged = s.mem.entry[i].merged /\ e[i].forced = s.mem.entry[i].forced
                     /\ e[i].tried = s.mem.entry[i].tried
  <2>1. \A i \in Ids : s.mem.entry[i] \in Entry
    BY <1>1 DEF State
  <2>2. \A x \in Entry : /\ [x EXCEPT !.held = held] \in Entry
                         /\ [x EXCEPT !.held = held].merged = x.merged
                         /\ [x EXCEPT !.held = held].forced = x.forced
                         /\ [x EXCEPT !.held = held].tried = x.tried
    BY DEF Entry
  <2> QED
    BY <2>1, <2>2
<1> HIDE DEF e
<1>4. /\ v \in Stores /\ v.disk = s.disk /\ v.mem \in State /\ v.age = s.age
      /\ v.mem.seen = s.mem.seen /\ v.mem.acks = s.mem.acks /\ v.mem.pending = s.mem.pending
      /\ v.mem.entry = e
  BY <1>1, <1>3 DEF Stores, State
<1> HIDE DEF v
<1>5. \A i \in PendingIn(s.mem) \cup DMs : i \in Ids
  BY <1>1, PendingAreIds DEF Ids
<1>6. Carries(s.mem, v.mem, {}) /\ Minds(s.mem, v.mem) /\ Queue(v.mem)
  BY <1>1, <1>3, <1>4, <1>5, StaysAsItIs, QueueStays
<1>7. Good(v)
  BY <1>4, <1>6, GoodByMem
<1>8. /\ Good(Saved(v)) /\ Saved(v).mem = v.mem /\ Saved(v).age = v.age /\ (WakesSaved(v) => WakesSaved(Saved(v)))
      /\ (~full => InStep(Saved(v)) /\ WakesSaved(Saved(v)))
  BY <1>7, SavedGood
<1> HIDE DEF t
<1>9. CASE t = s
  BY <1>1, <1>9, StaysAsItIs DEF t
<1>10. CASE t = Saved(v)
  <2>1. WakesSaved(s) => WakesSaved(t)
    BY <1>4, <1>8, <1>10 DEF WakesSaved
  <2>2. Carries(s.mem, t.mem, {}) /\ Minds(s.mem, t.mem)
    BY <1>6, <1>8, <1>10
  <2>3. \A i \in PendingIn(s.mem) : t.mem.entry[i].tried = s.mem.entry[i].tried
                                 /\ t.mem.entry[i].forced = s.mem.entry[i].forced
    BY <1>3, <1>4, <1>5, <1>8, <1>10
  <2>4. Good(t) /\ t.mem.pending = s.mem.pending /\ t.mem.seen = s.mem.seen /\ t.age = s.age
        /\ (InStep(s) /\ ~full => InStep(t))
    BY <1>4, <1>8, <1>10
  <2> QED
    BY <2>1, <2>2, <2>3, <2>4 DEF t
<1> QED
  BY <1>2, <1>9, <1>10 DEF t

(* The batch is the front of the queue: one item, or posts that are alike. *)
LEMMA BatchIsFront ==
  ASSUME NEW m \in State
  PROVE  \E n \in 0..Len(m.pending) :
           /\ Batch(m) = SubSeq(m.pending, 1, n)
           /\ n = 0 <=> m.pending = <<>>
           /\ n = 1 \/ \A k \in 1..n : m.pending[k] \in Posts
                                    /\ m.entry[m.pending[k]].forced = m.entry[m.pending[1]].forced
<1> DEFINE q == m.pending
           Joins(n) == q[n] \in Posts /\ m.entry[q[n]].forced = m.entry[q[1]].forced
           Run(n) == \A k \in 1..n : Joins(k)
<1>1. q \in Seq(Ids) /\ Len(q) \in Nat
  BY DEF State
<1>2. CASE q = <<>>
  <2>1. Batch(m) = SubSeq(q, 1, 0)
    BY <1>2 DEF Batch
  <2>2. 0 \in 0..Len(q) /\ \A k \in 1..0 : FALSE
    BY <1>1
  <2> QED
    BY <1>2, <2>1, <2>2
<1>3. CASE q # <<>> /\ q[1] \notin Posts
  <2>1. Batch(m) = SubSeq(q, 1, 1)
    BY <1>3 DEF Batch
  <2>2. 1 \in 0..Len(q)
    BY <1>1, <1>3
  <2> QED
    BY <1>3, <2>1, <2>2
<1>4. CASE q # <<>> /\ q[1] \in Posts
  <2> DEFINE n == CHOOSE n \in 1..Len(q) : Run(n) /\ (n = Len(q) \/ ~Run(n + 1))
  <2>1. Batch(m) = SubSeq(q, 1, n)
    BY <1>4 DEF Batch
  <2>2. Len(q) >= 1
    BY <1>1, <1>4
  <2>3. Run(1)
    BY <1>4
  <2> HIDE DEF Run
  <2>4. \E k \in 1..Len(q) : Run(k) /\ (k = Len(q) \/ ~Run(k + 1))
    <3>1. SUFFICES ASSUME \A k \in 1..Len(q) : Run(k) => k # Len(q) /\ Run(k + 1)
                   PROVE  FALSE
      OBVIOUS
    <3> DEFINE R == {k \in 1..Len(q) : Run(k)}
               T == {k \in Nat : k + 1 <= Len(q) => k + 1 \in R}
    <3>0. 1 \in R /\ \A k \in R : k # Len(q) /\ (k + 1 \in 1..Len(q) => k + 1 \in R)
      BY <2>2, <2>3, <3>1
    <3> HIDE DEF R
    <3>2. 0 \in T
      BY <3>0
    <3>3. ASSUME NEW k \in T
          PROVE  k + 1 \in T
      <4>1. SUFFICES ASSUME (k + 1) + 1 <= Len(q)
                     PROVE  (k + 1) + 1 \in R
        OBVIOUS
      <4>2. k + 1 \in R /\ (k + 1) + 1 \in 1..Len(q)
        BY <1>1, <4>1
      <4> QED
        BY <3>0, <4>2
    <3> HIDE DEF T
    <3>4. T \subseteq Nat
      BY DEF T
    <3>5. T = Nat
      BY <3>2, <3>3, <3>4, NatSetInduction
    <3>6. Len(q) - 1 \in Nat /\ (Len(q) - 1) + 1 = Len(q) /\ Len(q) \in 1..Len(q)
      BY <1>1, <2>2
    <3>7. \A k \in Nat : k + 1 <= Len(q) => k + 1 \in R
      BY <3>5 DEF T
    <3>8. Len(q) \in R
      BY <3>6, <3>7
    <3> QED
      BY <3>0, <3>8
  <2>5. n \in 1..Len(q) /\ Run(n)
    BY <2>4
  <2> HIDE DEF n
  <2>6. \A k \in 1..n : q[k] \in Posts /\ m.entry[q[k]].forced = m.entry[q[1]].forced
    BY <2>5 DEF Run
  <2>7. n \in 0..Len(q) /\ n # 0
    BY <2>5
  <2> QED
    BY <1>4, <2>1, <2>6, <2>7
<1> QED
  BY <1>2, <1>3, <1>4

LEMMA BatchMembers ==
  ASSUME NEW m \in State
  PROVE  /\ Batch(m) \in Seq(Ids)
         /\ Batch(m) = <<>> <=> m.pending = <<>>
         /\ Batch(m) # <<>> => Head(Batch(m)) = m.pending[1] /\ Head(Batch(m)) \in Range(Batch(m))
         /\ Range(Batch(m)) \subseteq PendingIn(m)
         /\ \A i \in Range(Batch(m)) : m.entry[i].forced = m.entry[m.pending[1]].forced
         /\ \A i \in Range(Batch(m)) \cap DMs : i = m.pending[1]
         /\ \E n \in 0..Len(m.pending) : Range(Batch(m)) = {m.pending[k] : k \in 1..n}
<1>1. m.pending \in Seq(Ids) /\ Len(m.pending) \in Nat
  BY DEF State
<1>2. PICK n \in 0..Len(m.pending) :
        /\ Batch(m) = SubSeq(m.pending, 1, n)
        /\ n = 0 <=> m.pending = <<>>
        /\ n = 1 \/ \A k \in 1..n : m.pending[k] \in Posts
                                 /\ m.entry[m.pending[k]].forced = m.entry[m.pending[1]].forced
  BY BatchIsFront
<1> DEFINE b == Batch(m)
<1>3. b \in Seq(Ids) /\ Len(b) = n /\ \A k \in 1..n : b[k] = m.pending[k]
  BY <1>1, <1>2
<1> HIDE DEF b
<1>4. Range(b) = {m.pending[k] : k \in 1..n}
  <2>1. Range(b) = {b[k] : k \in 1..n}
    BY <1>3, RangeIsPlaces
  <2> QED
    BY <1>3, <2>1
<1>5. 1..n \subseteq 1..Len(m.pending)
  OBVIOUS
<1>6. Range(b) \subseteq PendingIn(m)
  BY <1>4, <1>5, PendingAreIds
<1>7. \A i \in Range(b) : m.entry[i].forced = m.entry[m.pending[1]].forced
  BY <1>2, <1>4
<1>8. \A i \in Range(b) \cap DMs : i = m.pending[1]
  BY <1>2, <1>4, KindsAreApart
<1>9. b = <<>> <=> m.pending = <<>>
  <2>1. b = <<>> <=> n = 0
    BY <1>3
  <2> QED
    BY <1>2, <2>1
<1>10. b # <<>> => Head(b) = m.pending[1] /\ Head(b) \in Range(b)
  <2>1. b # <<>> => 1 \in 1..n /\ Head(b) = b[1]
    BY <1>3
  <2> QED
    BY <1>3, <1>4, <2>1
<1> QED
  BY <1>3, <1>4, <1>6, <1>7, <1>8, <1>9, <1>10 DEF b

(* Forced attempts are written down for the front of the queue.            *)
ForcedFront(m, batch) ==
  \E n \in 0..Len(m.pending) :
    /\ Range(batch) = {m.pending[k] : k \in 1..n}
    /\ \A i \in Range(batch) : m.entry[i].forced

LEMMA TriedGood ==
  ASSUME NEW s, Good(s), NEW batch, full \in BOOLEAN,
         ForcedFront(s.mem, batch)
  PROVE  LET t == Tried(s, batch)
         IN  /\ Good(t) /\ Carries(s.mem, t.mem, {}) /\ Minds(s.mem, t.mem)
             /\ (WakesSaved(s) => WakesSaved(t))
             /\ (~full => InStep(t))
             /\ t.mem.pending = s.mem.pending /\ t.age = s.age
             /\ \A i \in PendingIn(s.mem) : t.mem.entry[i].merged = s.mem.entry[i].merged
             /\ \A i \in Range(batch) : t.mem.entry[i].tried
<1> DEFINE e == [i \in Ids |-> IF i \in Range(batch) THEN [s.mem.entry[i] EXCEPT !.tried = TRUE]
                               ELSE s.mem.entry[i]]
           v == [s EXCEPT !.mem.entry = e]
           t == Saved(v)
<1> PICK n \in 0..Len(s.mem.pending) :
      /\ Range(batch) = {s.mem.pending[k] : k \in 1..n}
      /\ \A i \in Range(batch) : s.mem.entry[i].forced
  BY DEF ForcedFront
<1>1. s \in Stores /\ s.mem \in State /\ Queue(s.mem) /\ s.mem.pending \in Seq(Ids)
      /\ Len(s.mem.pending) \in Nat
  BY DEF Good, Stores, State
<1>2. Tried(s, batch) = t
  BY DEF Tried
<1>3. /\ e \in [Ids -> Entry]
      /\ \A i \in Ids : e[i].merged = s.mem.entry[i].merged /\ e[i].forced = s.mem.entry[i].forced
      /\ \A i \in Ids : i \in Range(batch) => e[i].tried = TRUE
      /\ \A i \in Ids : i \notin Range(batch) => e[i].tried = s.mem.entry[i].tried
  <2>1. \A i \in Ids : s.mem.entry[i] \in Entry
    BY <1>1 DEF State
  <2>2. \A x \in Entry : /\ [x EXCEPT !.tried = TRUE] \in Entry
                         /\ [x EXCEPT !.tried = TRUE].merged = x.merged
                         /\ [x EXCEPT !.tried = TRUE].forced = x.forced
                         /\ [x EXCEPT !.tried = TRUE].tried = TRUE
    BY DEF Entry
  <2> QED
    BY <2>1, <2>2
<1> HIDE DEF e
<1>4. /\ v \in Stores /\ v.disk = s.disk /\ v.mem \in State /\ v.age = s.age
      /\ v.mem.seen = s.mem.seen /\ v.mem.acks = s.mem.acks /\ v.mem.pending = s.mem.pending
      /\ v.mem.entry = e
  BY <1>1, <1>3 DEF Stores, State
<1> DEFINE m == s.mem
           o == v.mem
<1> HIDE DEF v
<1>5. \A i \in PendingIn(m) \cup DMs : i \in Ids
  BY <1>1, PendingAreIds DEF Ids
<1>6. Carries(m, o, {}) /\ Minds(m, o) /\ Holds(o) = Holds(m) /\ OwedIn(o) = OwedIn(m)
      /\ PendingIn(o) = PendingIn(m)
      /\ \A i \in PendingIn(m) \cup DMs : Sources(o, i) = Sources(m, i)
  BY <1>1, <1>3, <1>4, <1>5, StaysAsItIs
<1>7. Queue(o)
  <2>1. Seen(o) /\ HeldOrOwed(o) /\ IsInjective(o.pending)
    BY <1>1, <1>4, <1>6 DEF Queue, Seen, HeldOrOwed
  <2>2. Apart(o)
    BY <1>1, <1>6 DEF Queue, Apart
  <2>3. Heads(o)
    <3>1. SUFFICES ASSUME NEW i \in PendingIn(m)
                   PROVE  /\ o.entry[i].merged # {} =>
                               /\ i \in o.entry[i].merged /\ o.entry[i].forced
                               /\ o.entry[i].merged \subseteq o.seen
                          /\ o.entry[i].tried => o.entry[i].forced
      BY <1>6 DEF Heads
    <3>2. /\ m.entry[i].merged # {} =>
               /\ i \in m.entry[i].merged /\ m.entry[i].forced /\ m.entry[i].merged \subseteq m.seen
          /\ m.entry[i].tried => m.entry[i].forced
      BY <1>1 DEF Queue, Heads
    <3>3. i \in Ids
      BY <1>5
    <3>4. o.entry[i].merged = m.entry[i].merged /\ o.entry[i].forced = m.entry[i].forced
      BY <1>3, <1>4, <3>3
    <3>5. i \notin Range(batch) => o.entry[i].tried = m.entry[i].tried
      BY <1>3, <1>4, <3>3
    <3>6. i \in Range(batch) => m.entry[i].forced
      OBVIOUS
    <3> HIDE DEF o, m
    <3> QED
      BY <1>4, <3>2, <3>4, <3>5, <3>6 DEF o, m
  <2>4. Untried(o)
    <3>1. SUFFICES ASSUME NEW i \in PendingIn(m), ~o.entry[i].tried
                   PROVE  \A x \in Sources(m, i) : NotTried(x)
      BY <1>6 DEF Untried
    <3>2. ~m.entry[i].tried
      BY <1>3, <1>4, <1>5, <3>1
    <3> QED
      BY <1>1, <3>2 DEF Queue, Untried
  <2>5. TriedFirst(o)
    <3>1. SUFFICES ASSUME NEW a \in 1..Len(m.pending), NEW b \in 1..Len(m.pending), a < b,
                          o.entry[m.pending[b]].tried
                   PROVE  o.entry[m.pending[a]].tried
      BY <1>4 DEF TriedFirst
    <3>2. m.pending[a] \in Ids /\ m.pending[b] \in Ids
      BY <1>1
    <3>3. CASE m.pending[b] \in Range(batch)
      <4>1. PICK k \in 1..n : m.pending[b] = m.pending[k]
        BY <3>3
      <4>2. b = k
        BY <1>1, <4>1, RangeIsPlaces DEF Queue, IsInjective
      <4>3. a \in 1..n
        BY <3>1, <4>1, <4>2
      <4> QED
        BY <1>3, <1>4, <3>2, <4>3
    <3>4. CASE m.pending[b] \notin Range(batch)
      <4>1. m.entry[m.pending[b]].tried
        BY <1>3, <1>4, <3>1, <3>2, <3>4
      <4>2. m.entry[m.pending[a]].tried
        BY <1>1, <3>1, <4>1 DEF Queue, TriedFirst
      <4> QED
        BY <1>3, <1>4, <3>2, <4>2
    <3> QED
      BY <3>3, <3>4
  <2> QED
    BY <1>4, <2>1, <2>2, <2>3, <2>4, <2>5 DEF Queue
<1>8. Good(v)
  BY <1>4, <1>6, <1>7, GoodByMem
<1>9. /\ Good(t) /\ t.mem = v.mem /\ t.age = v.age /\ (WakesSaved(v) => WakesSaved(t))
      /\ (~full => InStep(t) /\ WakesSaved(t))
  BY <1>8, SavedGood
<1> HIDE DEF t
<1>10. WakesSaved(s) => WakesSaved(t)
  BY <1>4, <1>9 DEF WakesSaved
<1>11. \A i \in Range(batch) : i \in Ids
  BY <1>1
<1>12. /\ \A i \in PendingIn(m) : t.mem.entry[i].merged = m.entry[i].merged
       /\ \A i \in Range(batch) : t.mem.entry[i].tried
  BY <1>3, <1>4, <1>5, <1>9, <1>11
<1> QED
  BY <1>2, <1>4, <1>6, <1>9, <1>10, <1>12

(* The items of E leave the queue, those of C are forced, and the direct   *)
(* messages D among them become one, the head h; receipts for V are not    *)
(* written.                                                                *)
Prunes(m, n, E, C, D, A, h, V) ==
  /\ E \subseteq PendingIn(m) /\ C \subseteq PendingIn(m) /\ E \cap C = {}
  /\ \A i \in C : ~m.entry[i].forced
  /\ D = C \cap DMs
  /\ \/ D = {} /\ A = {}
     \/ h \in D /\ A = D \ {h} /\ (m.pending[1] \in D => h = m.pending[1])
  /\ n.seen = m.seen /\ PendingIn(n) = PendingIn(m) \ (A \cup E)
  /\ Follows(m.pending, n.pending) /\ FirstStays(m.pending, n.pending)
  /\ \A i \in Ids : n.entry[i].tried = m.entry[i].tried
  /\ \A i \in Ids : i \notin C \ A => n.entry[i] = m.entry[i]
  /\ \A i \in C \ A : n.entry[i].forced = TRUE
                    /\ n.entry[i].merged = IF i \in DMs THEN D ELSE m.entry[i].merged
  /\ OwedIn(n) = OwedIn(m) \cup UNION {Sources(m, i) : i \in (E \ V) \cap DMs}

LEMMA PrunedQueue ==
  ASSUME NEW m, Queue(m), NEW n \in State, NEW E, NEW C, NEW D, NEW A, NEW h, NEW V,
         Prunes(m, n, E, C, D, A, h, V)
  PROVE  /\ Queue(n) /\ Carries(m, n, UNION {Sources(m, i) : i \in V \cap DMs})
         /\ V = {} => Minds(m, n)
<1> USE DEF Prunes
<1>1. PendingIn(m) \subseteq Ids /\ m \in State
  BY PendingAreIds DEF Queue
<1>2. \A i \in C : m.entry[i].merged = {} /\ m.entry[i].tried = FALSE /\ Sources(m, i) = {i}
  <2>1. SUFFICES ASSUME NEW i \in C
                 PROVE  m.entry[i].merged = {} /\ m.entry[i].tried = FALSE
    BY DEF Sources
  <2>2. /\ m.entry[i].merged # {} => m.entry[i].forced
        /\ m.entry[i].tried => m.entry[i].forced
    BY DEF Queue, Heads
  <2>3. m.entry[i].tried \in BOOLEAN
    BY <1>1 DEF State, Entry
  <2> QED
    BY <2>2, <2>3
<1>3. \A i \in PendingIn(n) : i \in D => i = h /\ Sources(n, i) = D
  BY DEF Sources
<1>4. \A i \in Ids : i \notin D => Sources(n, i) = Sources(m, i)
  <2>1. \A i \in Ids : i \notin D => n.entry[i].merged = m.entry[i].merged
    OBVIOUS
  <2> QED
    BY <2>1 DEF Sources
<1>5. ASSUME NEW i \in PendingIn(n), NEW x \in Sources(n, i)
      PROVE  \E j \in PendingIn(m) \ E : x \in Sources(m, j)
                                        /\ (j = i \/ (i = h /\ i \in D /\ j \in D))
  <2>1. CASE i \in D
    <3>1. x \in D /\ i = h
      BY <1>3, <2>1
    <3>2. x \in C /\ x \in PendingIn(m) \ E
      BY <3>1
    <3>3. x \in Sources(m, x)
      BY <1>2, <3>2
    <3> QED
      BY <2>1, <3>1, <3>2, <3>3
  <2>2. CASE i \notin D
    BY <1>1, <1>4, <2>2
  <2> QED
    BY <2>1, <2>2
<1>6. ASSUME NEW j \in PendingIn(m) \ E, NEW x \in Sources(m, j)
      PROVE  \E i \in PendingIn(n) : x \in Sources(n, i)
  <2>1. CASE j \in D
    <3>1. x = j /\ h \in D /\ h \notin A
      BY <1>2, <2>1
    <3>2. h \in PendingIn(n)
      BY <3>1
    <3>3. Sources(n, h) = D
      BY <1>3, <3>1, <3>2
    <3> QED
      BY <2>1, <3>1, <3>2, <3>3
  <2>2. CASE j \notin D
    <3>1. j \in PendingIn(n)
      BY <2>2
    <3> QED
      BY <1>1, <1>4, <2>2, <3>1
  <2> QED
    BY <2>1, <2>2
<1>7. TriedFirst(n) /\ IsInjective(n.pending) /\ PendingIn(n) \subseteq n.seen
  BY <1>1, Thinned
<1>8. Heads(n)
  <2>1. SUFFICES ASSUME NEW i \in PendingIn(n)
                 PROVE  /\ n.entry[i].merged # {} =>
                             /\ i \in n.entry[i].merged /\ n.entry[i].forced
                             /\ n.entry[i].merged \subseteq n.seen
                        /\ n.entry[i].tried => n.entry[i].forced
    BY DEF Heads
  <2>2. CASE i \in C
    <3>1. i \in C \ A /\ n.entry[i].forced = TRUE
      BY <2>2
    <3>2. CASE i \in DMs
      <4>1. n.entry[i].merged = D /\ i \in D
        BY <2>2, <3>1, <3>2
      <4>2. D \subseteq n.seen
        BY DEF Queue, Seen
      <4> QED
        BY <3>1, <4>1, <4>2
    <3>3. CASE i \notin DMs
      <4>1. n.entry[i].merged = {}
        BY <1>2, <2>2, <3>1, <3>3
      <4> QED
        BY <3>1, <4>1
    <3> QED
      BY <3>2, <3>3
  <2>3. CASE i \notin C
    <3>1. n.entry[i] = m.entry[i]
      BY <1>1, <2>3
    <3> QED
      BY <3>1 DEF Queue, Heads
  <2> QED
    BY <2>2, <2>3
<1>9. Apart(n)
  <2>1. SUFFICES ASSUME NEW i \in PendingIn(n), NEW k \in PendingIn(n), i # k,
                        NEW x \in Sources(n, i), x \in Sources(n, k)
                 PROVE  FALSE
    BY DEF Apart
  <2>2. PICK j \in PendingIn(m) \ E : x \in Sources(m, j)
                                    /\ (j = i \/ (i = h /\ i \in D /\ j \in D))
    BY <1>5
  <2>3. PICK l \in PendingIn(m) \ E : x \in Sources(m, l)
                                    /\ (l = k \/ (k = h /\ k \in D /\ l \in D))
    BY <1>5, <2>1
  <2>4. j = l
    BY <2>2, <2>3 DEF Queue, Apart
  <2>5. \A y \in PendingIn(n) : y \in D => y = h
    BY <1>3
  <2> QED
    BY <2>1, <2>2, <2>3, <2>4, <2>5
<1>10. Untried(n)
  <2>1. SUFFICES ASSUME NEW i \in PendingIn(n), ~n.entry[i].tried, NEW x \in Sources(n, i)
                 PROVE  NotTried(x)
    BY DEF Untried
  <2>2. PICK j \in PendingIn(m) \ E : x \in Sources(m, j)
                                    /\ (j = i \/ (i = h /\ i \in D /\ j \in D))
    BY <1>5
  <2>3. ~m.entry[j].tried
    BY <1>1, <1>2, <2>1, <2>2
  <2> QED
    BY <2>2, <2>3 DEF Queue, Untried
<1>11. Holds(n) \subseteq Holds(m)
  BY <1>5 DEF Holds
<1>12. HeldOrOwed(n)
  <2>1. SUFFICES ASSUME NEW x \in Holds(n), x \in OwedIn(n)
                 PROVE  FALSE
    BY DEF HeldOrOwed
  <2>2. PICK i \in PendingIn(n) : x \in Sources(n, i)
    BY DEF Holds
  <2>3. PICK j \in PendingIn(m) \ E : x \in Sources(m, j)
    BY <1>5, <2>2
  <2>4. x \notin OwedIn(m)
    BY <1>11 DEF Queue, HeldOrOwed
  <2>5. PICK k \in (E \ V) \cap DMs : x \in Sources(m, k)
    BY <2>1, <2>4
  <2>6. j # k /\ k \in PendingIn(m)
    OBVIOUS
  <2> QED
    BY <2>3, <2>5, <2>6 DEF Queue, Apart
<1>13. OwedIn(n) \subseteq n.seen
  BY HeadsStand DEF Queue, Seen
<1>14. Holds(m) \subseteq Holds(n) \cup OwedIn(n) \cup UNION {Sources(m, i) : i \in V \cap DMs}
  <2>1. SUFFICES ASSUME NEW d \in Holds(m), d \notin Holds(n)
                 PROVE  d \in OwedIn(n) \/ \E i \in V \cap DMs : d \in Sources(m, i)
    OBVIOUS
  <2>2. PICK j \in PendingIn(m) : d \in Sources(m, j) /\ d \in DMs
    BY DEF Holds
  <2>3. j \in E
    BY <1>6, <2>1, <2>2 DEF Holds
  <2>4. j \in DMs
    BY <2>2, HeadsStand
  <2> QED
    BY <2>2, <2>3, <2>4
<1>15. Carries(m, n, UNION {Sources(m, i) : i \in V \cap DMs})
  BY <1>11, <1>14 DEF Carries
<1>16. ASSUME V = {}
       PROVE  Minds(m, n)
  <2>1. ASSUME NEW i \in DMs, m.pending # <<>>, i = m.pending[1]
        PROVE  IF i \in PendingIn(n) THEN n.pending[1] = i
               ELSE Sources(n, i) \subseteq OwedIn(n)
    <3>1. i \in PendingIn(m) /\ i \in Ids
      BY <1>1, <2>1, PendingAreIds
    <3>2. CASE i \in PendingIn(n)
      BY <2>1, <3>2 DEF FirstStays, PendingIn
    <3>3. CASE i \notin PendingIn(n)
      <4>1. i \notin A
        BY <2>1
      <4>2. i \in E /\ i \notin D
        BY <3>1, <3>3, <4>1
      <4>3. Sources(n, i) = Sources(m, i)
        BY <1>4, <3>1, <4>2
      <4> QED
        BY <1>16, <3>3, <4>2, <4>3
    <3> QED
      BY <3>2, <3>3
  <2>2. \A i \in (DMs \cap m.seen) \ PendingIn(m) :
          i \notin PendingIn(n) /\ n.entry[i].merged = m.entry[i].merged
    BY DEF Ids
  <2> QED
    BY <2>1, <2>2 DEF Minds
<1> QED
  BY <1>7, <1>8, <1>9, <1>10, <1>12, <1>13, <1>15, <1>16 DEF Queue, Seen

StoodFor(m, items) == UNION {Sources(m, i) : i \in items \cap DMs}

LEMMA PrunedGood ==
  ASSUME NEW s, Good(s), NEW canForce, NEW busy, NEW unsaved, full \in BOOLEAN
  PROVE  LET t == PruneUpTo(s, canForce, busy, unsaved)
         IN  /\ Good(t) /\ Carries(s.mem, t.mem, StoodFor(s.mem, unsaved))
             /\ (unsaved = {} => Minds(s.mem, t.mem))
             /\ (WakesSaved(s) => WakesSaved(t))
             /\ (InStep(s) /\ ~full => InStep(t))
             /\ (Expiring(s) # {} /\ ~full => InStep(t))
<1> DEFINE m == s.mem
           forcible == Forcible(s, canForce, busy)
           dms      == MergedTogether(m, forcible)
           absorbed == IF dms = <<>> THEN {} ELSE Range(Tail(dms))
           forced   == forcible \ absorbed
           expired  == Expiring(s) \ forcible
           gone     == absorbed \cup expired
           F        == UNION {Sources(m, i) : i \in unsaved \cap DMs}
           e == [i \in Ids |-> IF i \notin forced THEN m.entry[i]
                               ELSE [m.entry[i] EXCEPT !.forced = TRUE,
                                       !.merged = IF i \in DMs THEN Range(dms)
                                                  ELSE m.entry[i].merged]]
           n == [m EXCEPT !.pending = Kept(@, Ids \ gone),
                          !.acks = @ \cup ReceiptsFor(m, expired \ unsaved, "expired"),
                          !.entry = e]
           g == [i \in Ids |-> IF i \in forced THEN "new" ELSE s.age[i]]
           v == [s EXCEPT !.mem = n, !.age = g]
           t == PruneUpTo(s, canForce, busy, unsaved)
<1>1. s \in Stores /\ m \in State /\ Queue(m)
  BY DEF Good, Stores
<1>2. PendingIn(m) \subseteq Ids /\ m.pending \in Seq(Ids) /\ PendingIn(m) = Range(m.pending)
      /\ IsInjective(m.pending)
  BY <1>1, PendingAreIds DEF PendingIn, Queue
<1>3. (t = s /\ Expiring(s) = {}) \/ t = Saved(v)
  <2>1. t = IF Expiring(s) = {} THEN s ELSE Saved(v)
    BY Zenon DEF PruneUpTo
  <2> QED
    BY <2>1
<1>4. /\ Expiring(s) \subseteq PendingIn(m) /\ forcible \subseteq Expiring(s)
      /\ \A i \in forcible : ~m.entry[i].forced
  BY DEF Expiring, Forcible
<1>5. /\ dms \in Seq(Ids) /\ IsInjective(dms) /\ Range(dms) = forcible \cap DMs
      /\ FirstStays(m.pending, dms)
  <2>1. dms = Kept(m.pending, forcible \cap DMs)
    BY DEF MergedTogether
  <2>2. Range(dms) = Range(m.pending) \cap (forcible \cap DMs)
    BY <1>2, <2>1, KeptMembers
  <2> QED
    BY <1>2, <1>4, <2>1, <2>2, KeptMembers, KeptFollows
<1>6. /\ absorbed \subseteq forcible \cap DMs
      /\ \/ forcible \cap DMs = {} /\ absorbed = {}
         \/ /\ dms[1] \in forcible \cap DMs /\ absorbed = (forcible \cap DMs) \ {dms[1]}
            /\ m.pending[1] \in forcible \cap DMs => dms[1] = m.pending[1]
  <2>1. CASE dms = <<>>
    <3>1. Range(dms) = {}
      BY <2>1 DEF Range
    <3> QED
      BY <1>5, <2>1, <3>1
  <2>2. CASE dms # <<>>
    <3>1. absorbed = Range(dms) \ {dms[1]}
      BY <1>5, <2>2, TailFollows
    <3>2. dms[1] \in Range(dms)
      <4>1. 1 \in 1..Len(dms)
        BY <1>5, <2>2
      <4> QED
        BY <1>5, <4>1, RangeIsPlaces
    <3>3. m.pending[1] \in Range(dms) => dms[1] = m.pending[1]
      <4>1. Range(dms) # {} => m.pending # <<>>
        BY <1>1, <1>4, <1>5, PendingAreIds
      <4> QED
        BY <1>5, <4>1 DEF FirstStays
    <3> QED
      BY <1>5, <3>1, <3>2, <3>3
  <2> QED
    BY <2>1, <2>2
<1> HIDE DEF forcible, dms, absorbed
<1>7. /\ e \in [Ids -> Entry]
      /\ \A i \in Ids : e[i].tried = m.entry[i].tried
      /\ \A i \in Ids : i \notin forcible \ absorbed => e[i] = m.entry[i]
      /\ \A i \in Ids : i \in forcible \ absorbed =>
            e[i].forced = TRUE /\ e[i].merged = IF i \in DMs THEN forcible \cap DMs ELSE m.entry[i].merged
  <2>1. \A i \in Ids : m.entry[i] \in Entry
    BY <1>1 DEF State
  <2>2. ASSUME NEW x \in Entry, NEW y \in SUBSET DMs
        PROVE  /\ [x EXCEPT !.forced = TRUE, !.merged = y] \in Entry
               /\ [x EXCEPT !.forced = TRUE, !.merged = y].forced = TRUE
               /\ [x EXCEPT !.forced = TRUE, !.merged = y].merged = y
               /\ [x EXCEPT !.forced = TRUE, !.merged = y].tried = x.tried
    BY DEF Entry
  <2>3. Range(dms) \in SUBSET DMs
    BY <1>5
  <2>4. \A i \in Ids : m.entry[i].merged \in SUBSET DMs
    BY <2>1 DEF Entry
  <2>5. ASSUME NEW i \in Ids, i \in forced
        PROVE  /\ e[i] \in Entry /\ e[i].forced = TRUE /\ e[i].tried = m.entry[i].tried
               /\ e[i].merged = IF i \in DMs THEN forcible \cap DMs ELSE m.entry[i].merged
    <3> DEFINE y == IF i \in DMs THEN Range(dms) ELSE m.entry[i].merged
    <3>1. e[i] = [m.entry[i] EXCEPT !.forced = TRUE, !.merged = y]
      BY <2>5
    <3>2. y \in SUBSET DMs
      BY <2>3, <2>4
    <3>3. y = IF i \in DMs THEN forcible \cap DMs ELSE m.entry[i].merged
      BY <1>5
    <3>4. m.entry[i] \in Entry
      BY <2>1
    <3> DEFINE x == m.entry[i]
    <3> HIDE DEF y, e, x
    <3>5. /\ [x EXCEPT !.forced = TRUE, !.merged = y] \in Entry
          /\ [x EXCEPT !.forced = TRUE, !.merged = y].forced = TRUE
          /\ [x EXCEPT !.forced = TRUE, !.merged = y].merged = y
          /\ [x EXCEPT !.forced = TRUE, !.merged = y].tried = x.tried
      BY <2>2, <3>2, <3>4 DEF x
    <3> QED
      BY <3>1, <3>3, <3>5 DEF x
  <2>6. \A i \in Ids : i \notin forced => e[i] = m.entry[i]
    OBVIOUS
  <2>7. e \in [Ids -> Entry]
    <3>1. \A i \in Ids : e[i] \in Entry
      BY <2>1, <2>5, <2>6
    <3> QED
      BY <3>1
  <2> HIDE DEF e
  <2> QED
    BY <2>5, <2>6, <2>7
<1>8. /\ Kept(m.pending, Ids \ gone) \in Seq(Ids)
      /\ Range(Kept(m.pending, Ids \ gone)) = Range(m.pending) \ gone
      /\ Follows(m.pending, Kept(m.pending, Ids \ gone))
      /\ FirstStays(m.pending, Kept(m.pending, Ids \ gone))
  <2>1. Range(Kept(m.pending, Ids \ gone)) = Range(m.pending) \cap (Ids \ gone)
    BY <1>2, KeptMembers
  <2> QED
    BY <1>2, <2>1, KeptMembers, KeptFollows
<1> HIDE DEF e
<1>9. ReceiptsFor(m, expired \ unsaved, "expired") \subseteq Receipt
  BY <1>1, ReceiptsAreReceipts
<1>10. /\ n \in State /\ n.seen = m.seen /\ n.entry = e
       /\ n.pending = Kept(m.pending, Ids \ gone)
       /\ n.acks = m.acks \cup ReceiptsFor(m, expired \ unsaved, "expired")
  BY <1>1, <1>7, <1>8, <1>9 DEF State
<1> HIDE DEF n
<1>11. g \in [Ids -> Age]
  BY <1>1 DEF Stores, Age
<1> HIDE DEF g
<1>12. v \in Stores /\ v.mem = n /\ v.disk = s.disk
  BY <1>1, <1>10, <1>11 DEF Stores
<1> HIDE DEF v
<1>13. PendingIn(n) = PendingIn(m) \ (absorbed \cup expired)
  BY <1>2, <1>8, <1>10 DEF PendingIn
<1>14. OwedIn(n) = OwedIn(m) \cup UNION {Sources(m, i) : i \in (expired \ unsaved) \cap DMs}
  <2>1. OwedIn(n) = OwedIn(m) \cup {r[1] : r \in ReceiptsFor(m, expired \ unsaved, "expired")}
    BY <1>10 DEF OwedIn
  <2> QED
    BY <2>1, ReceiptsFrom
<1>15. /\ expired \subseteq PendingIn(m) /\ forcible \subseteq PendingIn(m) /\ expired \cap forcible = {}
       /\ \A i \in forcible \ absorbed : i \in Ids
  BY <1>2, <1>4
<1> HIDE DEF expired, m, gone
<1>16. Queue(n) /\ Carries(m, n, F) /\ (unsaved = {} => Minds(m, n))
  <2> DEFINE D == forcible \cap DMs
             h == dms[1]
  <2>1. /\ \/ D = {} /\ absorbed = {}
           \/ h \in D /\ absorbed = D \ {h} /\ (m.pending[1] \in D => h = m.pending[1])
        /\ \A i \in forcible \ absorbed : n.entry[i].forced = TRUE
                       /\ n.entry[i].merged = IF i \in DMs THEN D ELSE m.entry[i].merged
    BY <1>6, <1>7, <1>10, <1>15
  <2>2. /\ \A i \in Ids : n.entry[i].tried = m.entry[i].tried
        /\ \A i \in Ids : i \notin forcible \ absorbed => n.entry[i] = m.entry[i]
        /\ Follows(m.pending, n.pending) /\ FirstStays(m.pending, n.pending)
    BY <1>7, <1>8, <1>10
  <2>3. D = forcible \cap DMs
    OBVIOUS
  <2> HIDE DEF D, h
  <2>4. n.seen = m.seen /\ PendingIn(n) = PendingIn(m) \ (absorbed \cup expired)
    BY <1>10, <1>13
  <2>5. Prunes(m, n, expired, forcible, D, absorbed, h, unsaved)
    BY <1>4, <1>14, <1>15, <2>1, <2>2, <2>3, <2>4 DEF Prunes
  <2> QED
    BY <1>1, <1>10, <2>5, PrunedQueue
<1>17. Good(v)
  BY <1>12, <1>16, GoodByMem DEF m
<1>18. /\ Good(Saved(v)) /\ Saved(v).mem = v.mem /\ (WakesSaved(v) => WakesSaved(Saved(v)))
       /\ (~full => InStep(Saved(v)) /\ WakesSaved(Saved(v)))
  BY <1>17, SavedGood
<1> HIDE DEF t
<1>19. CASE t = s /\ Expiring(s) = {}
  <2>1. Carries(m, t.mem, F) /\ Minds(m, t.mem)
    <3>1. Carries(m, m, {}) /\ Minds(m, m)
      BY <1>1, StaysAsItIs
    <3> QED
      BY <1>19, <3>1 DEF Carries, m
  <2> QED
    BY <1>19, <2>1 DEF t, m, StoodFor
<1>20. CASE t = Saved(v)
  <2>1. WakesSaved(s) => WakesSaved(t)
    BY <1>10, <1>12, <1>18, <1>20 DEF WakesSaved, m
  <2>2. Carries(m, t.mem, F) /\ (unsaved = {} => Minds(m, t.mem))
    BY <1>12, <1>16, <1>18, <1>20
  <2>3. Good(t) /\ (~full => InStep(t))
    BY <1>18, <1>20
  <2> QED
    BY <2>1, <2>2, <2>3 DEF t, m, StoodFor
<1> QED
  BY <1>3, <1>19, <1>20

-----------------------------------------------------------------------------
(* The sidecar between two awaits.                                         *)

(* A receipt for x may be on its way: the server has one, one is owed, or  *)
(* an older flush or a kill between two saves has dropped it; and x is not *)
(* queued.                                                                 *)
Settled(x) ==
  /\ x \in mem.seen /\ x \notin Holds(mem)
  /\ x \in OwedIn(mem) \/ x \in recv \/ \E r \in forgotten : r[1] = x

(* What a flush knows stays true while it awaits the server: nothing it is *)
(* about to put back is queued again, and what went through has arrived.   *)
FlushOK(p) ==
  /\ \A r \in pass[p].owed \cup pass[p].done \cup pass[p].left : Settled(r[1])
  /\ \A r \in pass[p].done : r \in pass[p].left \/ r[1] \in recv

(* A direct message about to be typed is still the first of the queue, or  *)
(* another pass has taken it, and all it stands for, out of the queue.     *)
BatchOK(p) ==
  \A i \in Range(pass[p].batch) \cap DMs :
    /\ i \in mem.seen
    /\ i \in PendingIn(mem) => i = mem.pending[1]
    /\ i \notin PendingIn(mem) => \A x \in Sources(mem, i) : Settled(x)

(* What is on disk.                                                        *)
DiskOK ==
  /\ WakesSaved(Now)
  /\ consumed \subseteq mem.seen \cup wiped
  /\ full => "disk" \in faults
  /\ "disk" \in faults \/ InStep(Now)

SidecarInv ==
  /\ TypeOK /\ ForcedOnce
  /\ Good(Now) /\ DiskOK
  /\ \A p \in Passes : FlushOK(p) /\ BatchOK(p)

(* A step of a function of the queue, its effect on each pass, and the     *)
(* store it leaves.                                                        *)
PassGoes(q, n) ==
  /\ pass'[q].owed \subseteq pass[q].owed \cup mem.acks
  /\ \/ pass'[q].done = pass[q].done /\ pass'[q].left = pass[q].left
     \/ pass'[q].done = {} /\ pass'[q].left = {}
  /\ \/ pass'[q].batch = pass[q].batch
     \/ \A i \in Range(pass'[q].batch) \cap DMs : n.pending # <<>> /\ i = n.pending[1]

Turns(s) ==
  /\ Good(s) /\ Carries(mem, s.mem, {}) /\ Minds(mem, s.mem) /\ WakesSaved(s)
  /\ "disk" \in faults \/ InStep(s)

LEMMA NowFields ==
  /\ Now.mem = mem /\ Now.disk = disk /\ Now.age = age
  /\ Now.mem' = mem' /\ Now.disk' = disk' /\ Now.age' = age'
BY DEF Now

LEMMA NowTurns ==
  ASSUME SidecarInv
  PROVE  Turns(Now)
<1>1. mem \in State /\ Good(Now) /\ DiskOK
  BY DEF SidecarInv, TypeOK
<1>2. Carries(mem, mem, {}) /\ Minds(mem, mem)
  BY <1>1, StaysAsItIs
<1> QED
  BY <1>1, <1>2, NowFields DEF Turns, DiskOK

LEMMA BecomesFields ==
  ASSUME NEW s \in Stores, Becomes(s)
  PROVE  mem' = s.mem /\ disk' = s.disk /\ age' \in [Ids -> Age]
<1>1. s.age \in [Ids -> Age]
  BY DEF Stores
<1>2. "fresh" \in Age
  BY DEF Age
<1> QED
  BY <1>1, <1>2 DEF Becomes

LEMMA QueueNext ==
  ASSUME NEW m, Queue(m), forcedTries' = forcedTries, wiped \subseteq wiped'
  PROVE  (mem' = m => Queue(mem)') /\ (disk' = m => Queue(disk)')
<1>1. \A x : NotTried(x) => NotTried(x)'
  BY DEF NotTried
<1>2. mem' = m => Untried(mem)'
  BY <1>1 DEF Queue, Untried, Sources, PendingIn
<1>3. disk' = m => Untried(disk)'
  BY <1>1 DEF Queue, Untried, Sources, PendingIn
<1>4. mem' = m => Queue(mem)'
  BY <1>2 DEF Queue, Seen, Heads, Apart, TriedFirst, HeldOrOwed, Holds, OwedIn, Sources, PendingIn
<1>5. disk' = m => Queue(disk)'
  BY <1>3 DEF Queue, Seen, Heads, Apart, TriedFirst, HeldOrOwed, Holds, OwedIn, Sources, PendingIn
<1> QED
  BY <1>4, <1>5

LEMMA GoodNext ==
  ASSUME NEW s, Good(s), mem' = s.mem, disk' = s.disk, age' \in [Ids -> Age],
         forcedTries' = forcedTries, wiped \subseteq wiped'
  PROVE  Good(Now)'
<1>1. s \in Stores /\ s.mem \in State /\ s.disk \in State /\ Queue(s.mem) /\ Queue(s.disk) /\ Behind(s)
  BY DEF Good, Stores
<1>2. (Now \in Stores)'
  BY <1>1 DEF Now, Stores
<1>3. Queue(mem)'
  BY <1>1, QueueNext
<1>4. Queue(disk)'
  BY <1>1, QueueNext
<1>5. Behind(Now)'
  <2>1. \A x : NotTried(x) => NotTried(x)'
    BY DEF NotTried
  <2>2. Written(disk)' = Written(s.disk) /\ s.disk = Written(s.disk)
    BY <1>1 DEF Behind, Written, PendingIn
  <2>3. disk' = Written(disk)'
    BY <2>2
  <2> QED
    <3>1. Holds(mem)' = Holds(s.mem) /\ Holds(disk)' = Holds(s.disk)
      BY DEF Holds, Sources, PendingIn
    <3>2. Behind(s)
      BY <1>1
    <3> QED
      BY <2>1, <2>3, <3>1, <3>2, NowFields DEF Behind
<1> QED
  BY <1>2, <1>3, <1>4, <1>5, NowFields DEF Good

LEMMA NextParts ==
  ASSUME NEW n, mem' = n
  PROVE  /\ Holds(mem)' = Holds(n) /\ OwedIn(mem)' = OwedIn(n) /\ PendingIn(mem)' = PendingIn(n)
         /\ \A i : Sources(mem, i)' = Sources(n, i)
BY DEF Holds, OwedIn, PendingIn, Sources

LEMMA OwedAreSettled ==
  ASSUME SidecarInv
  PROVE  \A r \in mem.acks : Settled(r[1])
<1>1. OwedIn(mem) \subseteq mem.seen /\ Holds(mem) \cap OwedIn(mem) = {}
  BY NowFields DEF SidecarInv, Good, Queue, Seen, HeldOrOwed
<1> QED
  BY <1>1 DEF Settled, OwedIn

LEMMA TurnSettles ==
  ASSUME NEW n, mem' = n, Carries(mem, n, {}), recv \subseteq recv', forgotten \subseteq forgotten',
         NEW x, Settled(x)
  PROVE  Settled(x)'
<1>1. x \in n.seen /\ x \notin Holds(n)
  BY DEF Settled, Carries
<1>2. x \in OwedIn(n) \/ x \in recv' \/ \E r \in forgotten' : r[1] = x
  BY DEF Settled, Carries
<1>3. Holds(mem)' = Holds(n) /\ OwedIn(mem)' = OwedIn(n)
  BY NextParts
<1> QED
  BY <1>1, <1>2, <1>3 DEF Settled

LEMMA FlushStays ==
  ASSUME SidecarInv, NEW q \in Passes, \A x : Settled(x) => Settled(x)',
         recv \subseteq recv',
         pass'[q].owed \subseteq pass[q].owed \cup mem.acks,
         \/ pass'[q].done = pass[q].done /\ pass'[q].left = pass[q].left
         \/ pass'[q].done = {} /\ pass'[q].left = {}
  PROVE  FlushOK(q)'
<1>1. FlushOK(q)
  BY DEF SidecarInv
<1>2. \A r \in mem.acks : Settled(r[1])
  BY OwedAreSettled
<1>3. ASSUME NEW r \in pass'[q].owed \cup pass'[q].done \cup pass'[q].left
      PROVE  Settled(r[1])'
  BY <1>1, <1>2, <1>3 DEF FlushOK
<1>4. ASSUME NEW r \in pass'[q].done
      PROVE  r \in pass'[q].left \/ r[1] \in recv'
  BY <1>1, <1>4 DEF FlushOK
<1> QED
  BY <1>3, <1>4 DEF FlushOK

LEMMA BatchStays ==
  ASSUME SidecarInv, NEW q \in Passes, \A x : Settled(x) => Settled(x)',
         NEW n, mem' = n, Queue(n), Carries(mem, n, {}), Minds(mem, n),
         \/ pass'[q].batch = pass[q].batch
         \/ \A i \in Range(pass'[q].batch) \cap DMs : n.pending # <<>> /\ i = n.pending[1]
  PROVE  BatchOK(q)'
<1>1. BatchOK(q) /\ Queue(mem)
  BY NowFields DEF SidecarInv, Good
<1>2. /\ PendingIn(mem)' = PendingIn(n) /\ \A i : Sources(mem, i)' = Sources(n, i)
      /\ Holds(mem)' = Holds(n) /\ OwedIn(mem)' = OwedIn(n)
  BY NextParts
<1>3. n \in State /\ PendingIn(n) \subseteq n.seen
  BY DEF Queue, Seen
<1>4. SUFFICES ASSUME NEW i \in Range(pass'[q].batch), i \in DMs
               PROVE  /\ i \in n.seen
                      /\ i \in PendingIn(n) => i = n.pending[1]
                      /\ i \notin PendingIn(n) => \A x \in Sources(n, i) : Settled(x)'
  BY <1>2 DEF BatchOK
<1>5. CASE n.pending # <<>> /\ i = n.pending[1]
  <2>1. i \in PendingIn(n)
    BY <1>3, <1>5, PendingAreIds
  <2> QED
    BY <1>3, <1>5, <2>1
<1>6. CASE pass'[q].batch = pass[q].batch
  <2>1. /\ i \in mem.seen
        /\ i \in PendingIn(mem) => i = mem.pending[1]
        /\ i \notin PendingIn(mem) => \A x \in Sources(mem, i) : Settled(x)
    BY <1>1, <1>4, <1>6 DEF BatchOK
  <2>2. i \in n.seen
    BY <2>1 DEF Carries
  <2>3. CASE i \in PendingIn(mem)
    <3>1. mem.pending # <<>> /\ i = mem.pending[1]
      <4>1. mem \in State
        BY <1>1 DEF Queue
      <4>2. mem.pending # <<>>
        BY <2>3, <4>1, PendingAreIds
      <4> QED
        BY <2>1, <2>3, <4>2
    <3>2. IF i \in PendingIn(n) THEN n.pending[1] = i ELSE Sources(n, i) \subseteq OwedIn(n)
      BY <1>4, <3>1 DEF Minds
    <3>3. \A x \in OwedIn(n) : Settled(x)'
      <4>1. \A x \in OwedIn(n) : x \in n.seen /\ x \notin Holds(n)
        BY DEF Queue, Seen, HeldOrOwed
      <4> QED
        BY <4>1, <1>2 DEF Settled
    <3> QED
      BY <2>2, <3>2, <3>3
  <2>4. CASE i \notin PendingIn(mem)
    <3>1. i \notin PendingIn(n) /\ n.entry[i].merged = mem.entry[i].merged
      BY <1>4, <2>1, <2>4 DEF Minds
    <3>2. Sources(n, i) = Sources(mem, i)
      BY <3>1 DEF Sources
    <3> QED
      BY <2>1, <2>2, <2>4, <3>1, <3>2
  <2> QED
    BY <2>3, <2>4
<1> QED
  BY <1>4, <1>5, <1>6

LEMMA TurnKeeps ==
  ASSUME SidecarInv, TypeOK', NEW s, Turns(s), mem' = s.mem, disk' = s.disk, Good(Now)', ForcedOnce',
         recv \subseteq recv', forgotten \subseteq forgotten', faults \subseteq faults',
         full' => full \/ "disk" \in faults', wiped' = wiped,
         consumed' \subseteq consumed \cup s.mem.seen,
         \A q \in Passes : PassGoes(q, s.mem)
  PROVE  SidecarInv'
<1>1. Queue(s.mem) /\ Carries(mem, s.mem, {}) /\ Minds(mem, s.mem) /\ WakesSaved(s) /\ Behind(s)
  BY DEF Turns, Good
<1>2. \A x : Settled(x) => Settled(x)'
  BY <1>1, TurnSettles
<1>3. \A q \in Passes : FlushOK(q)' /\ BatchOK(q)'
  <2> DEFINE n == s.mem
  <2>1. Queue(n) /\ Carries(mem, n, {}) /\ Minds(mem, n) /\ mem' = n
    BY <1>1
  <2>2. \A q \in Passes : PassGoes(q, n)
    OBVIOUS
  <2> HIDE DEF n
  <2>3. SUFFICES ASSUME NEW q \in Passes
                 PROVE  FlushOK(q)' /\ BatchOK(q)'
    OBVIOUS
  <2>4. PassGoes(q, n)
    BY <2>2
  <2>5. FlushOK(q)'
    BY <1>2, <2>4, FlushStays DEF PassGoes
  <2>6. BatchOK(q)'
    BY <1>2, <2>1, <2>4, BatchStays DEF PassGoes
  <2> QED
    BY <2>5, <2>6
<1>4. DiskOK'
  <2>1. WakesSaved(Now)'
    BY <1>1 DEF WakesSaved, Now
  <2>2. (consumed \subseteq mem.seen \cup wiped)'
    <3>1. consumed \subseteq mem.seen \cup wiped
      BY DEF SidecarInv, DiskOK
    <3>2. mem.seen \subseteq s.mem.seen
      BY <1>1 DEF Carries
    <3> QED
      BY <3>1, <3>2
  <2>3. (full => "disk" \in faults)'
    BY DEF SidecarInv, DiskOK
  <2>4. ("disk" \in faults \/ InStep(Now))'
    <3>1. "disk" \in faults' \/ s.disk = Written(s.mem)
      BY DEF Turns, InStep
    <3>2. Written(mem)' = Written(s.mem)
      BY DEF Written, PendingIn
    <3> QED
      BY <3>1, <3>2, NowFields DEF InStep
  <2> QED
    BY <2>1, <2>2, <2>3, <2>4 DEF DiskOK
<1> QED
  BY <1>3, <1>4 DEF SidecarInv

(* What the rest of the state may be.                                      *)
RestOK ==
  /\ draining \in BOOLEAN /\ fetch \in BOOLEAN /\ full \in BOOLEAN /\ cuts \in BOOLEAN
  /\ life \in {"down", "starting", "up"}
  /\ log \in Seq(Posts) /\ sent \subseteq DMs /\ inbox \in Seq(DMs)
  /\ recv \subseteq DMs /\ files \subseteq Wakes
  /\ faults \subseteq {"crash", "torn", "cut", "restart", "disk"}
  /\ forgotten \subseteq Receipt /\ consumed \subseteq Wakes /\ wiped \subseteq Ids

LEMMA TypeParts ==
  TypeOK <=> /\ Now \in Stores /\ pass \in [Passes -> Pass]
             /\ forcedTries \in [Ids -> 0..2] /\ RestOK
<1>1. Now \in Stores <=> mem \in State /\ disk \in State /\ age \in [Ids -> Age]
  BY DEF Now, Stores
<1> QED
  BY <1>1 DEF TypeOK, RestOK

LEMMA TypePartsNext ==
  TypeOK' <=> /\ Now' \in Stores /\ pass' \in [Passes -> Pass]
              /\ forcedTries' \in [Ids -> 0..2] /\ RestOK'
<1>1. Now' \in Stores <=> mem' \in State /\ disk' \in State /\ age' \in [Ids -> Age]
  BY DEF Now, Stores
<1> QED
  BY <1>1 DEF TypeOK, RestOK

(* A step that sends no receipt and is no crash: what its functions do to  *)
(* the store s, and what it leaves alone.                                  *)
TurnsInto(s) ==
  /\ Turns(s)
  /\ mem' = s.mem /\ disk' = s.disk
  /\ Good(Now)' /\ ForcedOnce' /\ forcedTries' \in [Ids -> 0..2]
  /\ pass' \in [Passes -> Pass] /\ \A q \in Passes : PassGoes(q, s.mem)
  /\ RestOK'
  /\ recv' = recv /\ forgotten' = forgotten /\ wiped' = wiped
  /\ consumed' \subseteq consumed \cup s.mem.seen
  /\ faults \subseteq faults' /\ ("torn" \in faults' => "torn" \in faults)
  /\ ("cut" \in faults' => "cut" \in faults)
  /\ full' => full \/ "disk" \in faults'
  /\ ("disk" \in faults' => "disk" \in faults) \/ (mem' = mem /\ disk' = disk)

Turn == \E s : TurnsInto(s)

LEMMA TurnKeepsInv ==
  ASSUME SidecarInv, Turn
  PROVE  SidecarInv'
<1>1. PICK s : TurnsInto(s)
  BY DEF Turn
<1>2. TypeOK'
  <2>1. (Now \in Stores)'
    BY <1>1 DEF TurnsInto, Good
  <2> QED
    BY <1>1, <2>1, TypePartsNext DEF TurnsInto
<1> QED
  BY <1>1, <1>2, TurnKeeps DEF TurnsInto

(* Most steps: the store s, and passes that begin anew or stay.            *)
LEMMA PlainTurn ==
  ASSUME SidecarInv, NEW s, Turns(s), mem' = s.mem, disk' = s.disk, age' \in [Ids -> Age],
         pass' \in [Passes -> Pass], \A q \in Passes : PassGoes(q, s.mem), RestOK',
         UNCHANGED <<recv, full, cuts, faults, ghosts>>
  PROVE  Turn
<1>1. Good(s)
  BY DEF Turns
<1>2. forcedTries' = forcedTries /\ forgotten' = forgotten /\ consumed' = consumed
      /\ wiped' = wiped
  BY DEF ghosts
<1>3. Good(Now)'
  BY <1>1, <1>2, GoodNext
<1>4. ForcedOnce' /\ forcedTries' \in [Ids -> 0..2]
  BY <1>2 DEF SidecarInv, ForcedOnce, TypeOK
<1> QED
  BY <1>2, <1>3, <1>4 DEF Turn, TurnsInto

LEMMA PassStays ==
  ASSUME NEW q, pass'[q] = pass[q], NEW n
  PROVE  PassGoes(q, n)
BY DEF PassGoes

LEMMA IdleIsPass == Idle \in Pass
BY DEF Idle, Pass

LEMMA FlushingFields ==
  ASSUME NEW s, NEW from \in {"flush", "flushEnd"}
  PROVE  LET f == Flushing(s, from)
         IN  f \in Pass /\ f.owed = {} /\ f.done = {} /\ f.left = {} /\ f.batch = <<>>
<1>1. \/ Flushing(s, from) = Idle
      \/ Flushing(s, from) = [Idle EXCEPT !.at = "list"]
      \/ Flushing(s, from) = [Idle EXCEPT !.at = from, !.live = TRUE]
  BY Zenon DEF Flushing, AfterFlush
<1>2. Idle \in Pass /\ Idle.owed = {} /\ Idle.done = {} /\ Idle.left = {} /\ Idle.batch = <<>>
  BY IdleIsPass DEF Idle
<1>3. ASSUME NEW i \in Pass, NEW live \in BOOLEAN
      PROVE  /\ [i EXCEPT !.at = "list"] \in Pass /\ [i EXCEPT !.at = from, !.live = live] \in Pass
             /\ [i EXCEPT !.at = "list"].owed = i.owed
             /\ [i EXCEPT !.at = "list"].done = i.done
             /\ [i EXCEPT !.at = "list"].left = i.left
             /\ [i EXCEPT !.at = "list"].batch = i.batch
             /\ [i EXCEPT !.at = from, !.live = live].owed = i.owed
             /\ [i EXCEPT !.at = from, !.live = live].done = i.done
             /\ [i EXCEPT !.at = from, !.live = live].left = i.left
             /\ [i EXCEPT !.at = from, !.live = live].batch = i.batch
  BY DEF Pass
<1>4. TRUE \in BOOLEAN
  OBVIOUS
<1>5. CASE Flushing(s, from) = [Idle EXCEPT !.at = from, !.live = TRUE]
  BY <1>2, <1>3, <1>4, <1>5
<1> QED
  BY <1>1, <1>2, <1>3, <1>5

LEMMA PassEmpties ==
  ASSUME NEW q, NEW f, pass'[q] = f, f.owed = {}, f.done = {}, f.left = {}, f.batch = <<>>, NEW n
  PROVE  PassGoes(q, n)
BY EmptyRange DEF PassGoes

LEMMA FinishGoes ==
  ASSUME TypeOK, NEW p \in Passes, NEW s, Finish(p, s)
  PROVE  pass' \in [Passes -> Pass] /\ \A q \in Passes : \A n : PassGoes(q, n)
<1> DEFINE f == Flushing(s, "flushEnd")
<1>1. f \in Pass /\ f.owed = {} /\ f.done = {} /\ f.left = {} /\ f.batch = <<>>
  BY FlushingFields
<1>2. pass' = [pass EXCEPT ![p] = f] /\ pass \in [Passes -> Pass]
  BY DEF Finish, TypeOK
<1> HIDE DEF f
<1>3. pass' \in [Passes -> Pass]
  BY <1>1, <1>2
<1>4. ASSUME NEW q \in Passes, NEW n
      PROVE  PassGoes(q, n)
  <2>1. CASE q = p
    <3>1. pass'[q] = f
      BY <1>2, <2>1
    <3> QED
      BY <1>1, <3>1, PassEmpties
  <2>2. CASE q # p
    <3>1. pass'[q] = pass[q]
      BY <1>2, <2>2
    <3> QED
      BY <3>1, PassStays
  <2> QED
    BY <2>1, <2>2
<1> QED
  BY <1>3, <1>4

LEMMA PassesStay ==
  ASSUME TypeOK, pass' = pass
  PROVE  pass' \in [Passes -> Pass] /\ \A q \in Passes : \A n : PassGoes(q, n)
BY PassStays DEF TypeOK

(* The functions of the queue, one after the other.                        *)
LEMMA TurnsOn ==
  ASSUME SidecarInv, NEW s, Turns(s), NEW t, Good(t), Carries(s.mem, t.mem, {}), Minds(s.mem, t.mem),
         WakesSaved(s) => WakesSaved(t), InStep(s) /\ ~full => InStep(t)
  PROVE  Turns(t)
<1>1. /\ Queue(mem) /\ Queue(s.mem) /\ Queue(t.mem)
      /\ Carries(mem, s.mem, {}) /\ Minds(mem, s.mem)
  BY NowFields DEF SidecarInv, Good, Turns
<1>2. Carries(mem, t.mem, {}) /\ Minds(mem, t.mem)
  <2> DEFINE n == s.mem
             o == t.mem
  <2>1. Queue(mem) /\ Queue(n) /\ Queue(o) /\ Carries(mem, n, {}) /\ Minds(mem, n)
        /\ Carries(n, o, {}) /\ Minds(n, o)
    BY <1>1
  <2> HIDE DEF n, o
  <2>2. Carries(mem, o, {}) /\ Minds(mem, o)
    BY <2>1, CarriesOn, MindsOn
  <2> QED
    BY <2>2 DEF o
<1>3. full => "disk" \in faults
  BY DEF SidecarInv, DiskOK
<1> QED
  BY <1>2, <1>3 DEF Turns

LEMMA InvFacts ==
  ASSUME SidecarInv
  PROVE  full \in BOOLEAN /\ TypeOK /\ RestOK /\ mem \in State /\ Queue(mem)
BY TypeParts, NowFields DEF SidecarInv, TypeOK, Good

LEMMA HeldTurns ==
  ASSUME SidecarInv, NEW s, Turns(s), NEW held \in BOOLEAN
  PROVE  Turns(MarkHeld(s, held))
<1> DEFINE t == MarkHeld(s, held)
<1>1. Good(s) /\ full \in BOOLEAN
  BY InvFacts DEF Turns
<1>2. /\ Good(t) /\ Carries(s.mem, t.mem, {}) /\ Minds(s.mem, t.mem)
      /\ (WakesSaved(s) => WakesSaved(t)) /\ (InStep(s) /\ ~full => InStep(t))
  BY <1>1, MarkHeldGood
<1> HIDE DEF t
<1>3. Turns(t)
  BY <1>2, TurnsOn
<1> QED
  BY <1>3 DEF t

LEMMA PruneTurns ==
  ASSUME SidecarInv, NEW s, Turns(s), NEW canForce, NEW busy
  PROVE  Turns(PruneStale(s, canForce, busy))
<1> DEFINE t == PruneUpTo(s, canForce, busy, {})
           F == StoodFor(s.mem, {})
<1>1. Good(s) /\ full \in BOOLEAN
  BY InvFacts DEF Turns
<1>2. /\ Good(t) /\ Carries(s.mem, t.mem, F) /\ Minds(s.mem, t.mem)
      /\ (WakesSaved(s) => WakesSaved(t)) /\ (InStep(s) /\ ~full => InStep(t))
  BY <1>1, PrunedGood
<1>3. F = {}
  BY DEF StoodFor
<1> HIDE DEF t, F
<1>4. Turns(t)
  BY <1>2, <1>3, TurnsOn
<1> QED
  BY <1>4 DEF t, PruneStale

LEMMA TakenTurns ==
  ASSUME SidecarInv, NEW items \in Seq(Ids), \A n \in 1..Len(items) : items[n] \notin Posts
  PROVE  Turns(TakenIn(Now, items))
<1> DEFINE t == TakenIn(Now, items)
           s == Now
<1>1. Turns(s)
  BY NowTurns
<1> HIDE DEF s
<1>2. Good(s) /\ full \in BOOLEAN
  BY <1>1, InvFacts DEF Turns
<1>3. TakenIn(s, items) = t
  BY DEF s
<1> HIDE DEF t
<1>4. /\ Good(t) /\ Carries(s.mem, t.mem, {}) /\ Minds(s.mem, t.mem)
      /\ (WakesSaved(s) => WakesSaved(t)) /\ (InStep(s) /\ ~full => InStep(t))
  BY <1>2, <1>3, TakenInGood
<1>5. Turns(t)
  BY <1>1, <1>4, TurnsOn
<1> QED
  BY <1>5 DEF t

LEMMA IngestTurns ==
  ASSUME SidecarInv, NEW rows \in Seq(Posts)
  PROVE  Turns(Ingest(Now, rows))
<1> DEFINE t == Ingest(Now, rows)
           s == Now
<1>1. Turns(s)
  BY NowTurns
<1> HIDE DEF s
<1>2. Good(s) /\ full \in BOOLEAN
  BY <1>1, InvFacts DEF Turns
<1>3. Ingest(s, rows) = t
  BY DEF s
<1> HIDE DEF t
<1>4. /\ Good(t) /\ Carries(s.mem, t.mem, {}) /\ Minds(s.mem, t.mem)
      /\ (WakesSaved(s) => WakesSaved(t)) /\ (~full => InStep(t))
  BY <1>2, <1>3, IngestGood
<1>5. Turns(t)
  BY <1>1, <1>4, TurnsOn
<1> QED
  BY <1>5 DEF t

LEMMA DirectTurns ==
  ASSUME SidecarInv, NEW d \in DMs
  PROVE  Turns(IngestDirect(Now, d))
<1> DEFINE t == IngestDirect(Now, d)
           s == Now
<1>1. Turns(s)
  BY NowTurns
<1> HIDE DEF s
<1>2. Good(s) /\ full \in BOOLEAN
  BY <1>1, InvFacts DEF Turns
<1>3. IngestDirect(s, d) = t
  BY DEF s
<1> HIDE DEF t
<1>4. /\ Good(t) /\ Carries(s.mem, t.mem, {}) /\ Minds(s.mem, t.mem)
      /\ (WakesSaved(s) => WakesSaved(t)) /\ (InStep(s) /\ ~full => InStep(t))
  BY <1>2, <1>3, IngestDirectGood
<1>5. Turns(t)
  BY <1>1, <1>4, TurnsOn
<1> QED
  BY <1>5 DEF t

(* A batch has been typed: it leaves the queue, and its receipts are owed. *)
LEMMA SentTurns ==
  ASSUME SidecarInv, NEW p \in Passes
  PROVE  LET items == Range(pass[p].batch)
         IN  Turns(Saved([Without(Now, items) EXCEPT
                !.mem.acks = @ \cup ReceiptsFor(mem, items, "delivered")]))
<1> DEFINE items == Range(pass[p].batch)
           n == [mem EXCEPT !.pending = Kept(@, Ids \ items),
                            !.acks = @ \cup ReceiptsFor(mem, items, "delivered")]
           u == [Now EXCEPT !.mem = n]
           K == UNION {Sources(mem, i) : i \in (items \cap DMs) \ PendingIn(mem)}
<1>1. mem \in State /\ Queue(mem) /\ Now \in Stores /\ full \in BOOLEAN /\ Turns(Now) /\ Good(Now)
  BY InvFacts, NowTurns, TypeParts DEF SidecarInv
<1>2. Saved([Without(Now, items) EXCEPT !.mem.acks = @ \cup ReceiptsFor(mem, items, "delivered")])
        = Saved(u)
  <2>1. [Without(Now, items) EXCEPT !.mem.acks = @ \cup ReceiptsFor(mem, items, "delivered")] = u
    BY <1>1 DEF Without, Now, Stores, State
  <2> QED
    BY <2>1
<1>3. /\ mem.pending \in Seq(Ids) /\ PendingIn(mem) = Range(mem.pending) /\ IsInjective(mem.pending)
      /\ PendingIn(mem) \subseteq Ids
  BY <1>1, PendingAreIds DEF PendingIn, Queue
<1> DEFINE q == Kept(mem.pending, Ids \ items)
           a == mem.acks \cup ReceiptsFor(mem, items, "delivered")
<1>4. /\ q \in Seq(Ids) /\ Range(q) = Range(mem.pending) \cap (Ids \ items)
      /\ Follows(mem.pending, q) /\ FirstStays(mem.pending, q)
  BY <1>3, KeptMembers, KeptFollows
<1>5. a \in SUBSET Receipt
  BY <1>1, ReceiptsAreReceipts DEF State
<1> HIDE DEF q, a
<1>6. /\ n \in State /\ n.seen = mem.seen /\ n.entry = mem.entry /\ n.pending = q
      /\ n.acks = a
  <2>1. n = [mem EXCEPT !.pending = q, !.acks = a]
    BY DEF q, a
  <2> HIDE DEF n
  <2> QED
    BY <1>1, <1>4, <1>5, <2>1 DEF State
<1>7. PendingIn(n) = PendingIn(mem) \ items
  BY <1>3, <1>4, <1>6 DEF PendingIn
<1>8. OwedIn(n) = OwedIn(mem) \cup K \cup UNION {Sources(mem, i) : i \in items \cap PendingIn(mem) \cap DMs}
  <2>1. {r[1] : r \in ReceiptsFor(mem, items, "delivered")} = UNION {Sources(mem, i) : i \in items \cap DMs}
    BY ReceiptsFrom
  <2>2. OwedIn(n) = OwedIn(mem) \cup {r[1] : r \in ReceiptsFor(mem, items, "delivered")}
    BY <1>6 DEF OwedIn, a
  <2> QED
    BY <2>1, <2>2
<1>9. K \subseteq mem.seen \ Holds(mem)
  <2>1. \A i \in items \cap DMs : i \notin PendingIn(mem) => \A x \in Sources(mem, i) : Settled(x)
    BY DEF SidecarInv, BatchOK
  <2> QED
    BY <2>1 DEF Settled
<1> HIDE DEF n, K, items
<1>10. Queue(n) /\ Carries(mem, n, {}) /\ Minds(mem, n)
  BY <1>1, <1>4, <1>6, <1>7, <1>8, <1>9, Dropped
<1>11. u \in Stores /\ u.mem = n /\ u.disk = Now.disk
  BY <1>1, <1>6 DEF Stores
<1> HIDE DEF u
<1>12. Good(u)
  <2> DEFINE s == Now
  <2>1. Good(s) /\ u.disk = s.disk /\ s.mem = mem
    BY <1>1, <1>11, NowFields
  <2> HIDE DEF s
  <2>2. Queue(u.mem) /\ Carries(s.mem, u.mem, {})
    BY <1>10, <1>11, <2>1
  <2> QED
    BY <1>11, <2>1, <2>2, GoodByMem
<1>13. /\ Good(Saved(u)) /\ Saved(u).mem = n
       /\ WakesSaved(u) => WakesSaved(Saved(u))
       /\ ~full => InStep(Saved(u)) /\ WakesSaved(Saved(u))
  BY <1>1, <1>11, <1>12, SavedGood
<1>14. WakesSaved(Now) => WakesSaved(u)
  BY <1>6, <1>11, NowFields DEF WakesSaved
<1>15. Turns(Saved(u))
  <2> DEFINE s == Now
             t == Saved(u)
  <2>1. /\ Turns(s) /\ Good(t) /\ Carries(s.mem, t.mem, {}) /\ Minds(s.mem, t.mem)
        /\ (WakesSaved(s) => WakesSaved(t)) /\ (InStep(s) /\ ~full => InStep(t))
    BY <1>1, <1>10, <1>13, <1>14, NowFields
  <2> HIDE DEF s, t
  <2>2. Turns(t)
    BY <2>1, TurnsOn
  <2> QED
    BY <2>2 DEF t
<1> QED
  BY <1>2, <1>15 DEF items

-----------------------------------------------------------------------------
(* The actions, one by one.                                                *)

(* What an action that only leads the queue into s has to show.            *)
LEMMA QueueTurn ==
  ASSUME SidecarInv, NEW s, Turns(s), Becomes(s),
         pass' \in [Passes -> Pass], \A q \in Passes : PassGoes(q, s.mem), RestOK',
         UNCHANGED <<recv, full, cuts, faults, ghosts>>
  PROVE  Turn
<1>1. s \in Stores
  BY DEF Turns, Good
<1>2. mem' = s.mem /\ disk' = s.disk /\ age' \in [Ids -> Age]
  BY <1>1, BecomesFields
<1> QED
  BY <1>2, PlainTurn

LEMMA ListWindowsTurns ==
  ASSUME SidecarInv, NEW p \in Passes, ListWindows(p)
  PROVE  Turn
<1>1. UNCHANGED <<draining, life, fetch, server, files, full, cuts, faults, ghosts>>
  BY DEF ListWindows
<1>2. RestOK' /\ UNCHANGED <<recv, full, cuts, faults, ghosts>> /\ TypeOK
  BY <1>1, InvFacts DEF RestOK, server, ghosts
<1>3. CASE Becomes(Now) /\ pass' = [pass EXCEPT ![p] = [Idle EXCEPT !.at = "read"]]
  <2> DEFINE f == [Idle EXCEPT !.at = "read"]
  <2>1. f \in Pass /\ f.owed = {} /\ f.done = {} /\ f.left = {} /\ f.batch = <<>>
    <3>1. ASSUME NEW i \in Pass
          PROVE  LET j == [i EXCEPT !.at = "read"]
                 IN  /\ j \in Pass /\ j.owed = i.owed /\ j.done = i.done
                     /\ j.left = i.left /\ j.batch = i.batch
      BY DEF Pass
    <3>2. Idle.owed = {} /\ Idle.done = {} /\ Idle.left = {} /\ Idle.batch = <<>>
      BY DEF Idle
    <3> QED
      BY <3>1, <3>2, IdleIsPass
  <2>2. pass' = [pass EXCEPT ![p] = f] /\ pass \in [Passes -> Pass]
    BY <1>2, <1>3 DEF TypeOK
  <2> HIDE DEF f
  <2>3. pass' \in [Passes -> Pass] /\ pass'[p] = f /\ \A q \in Passes : q # p => pass'[q] = pass[q]
    BY <2>1, <2>2
  <2>4. \A q \in Passes : \A n : PassGoes(q, n)
    BY <2>1, <2>3, PassStays, PassEmpties
  <2> QED
    BY <1>2, <1>3, <2>3, <2>4, NowTurns, QueueTurn
<1>4. CASE Becomes(Now) /\ Finish(p, Now)
  BY <1>2, <1>4, NowTurns, FinishGoes, QueueTurn
<1>5. CASE LET s == PruneStale(Now, FALSE, FALSE) IN Becomes(s) /\ Finish(p, s)
  <2> DEFINE s == PruneStale(Now, FALSE, FALSE)
  <2>1. Turns(s) /\ Becomes(s) /\ Finish(p, s)
    BY <1>5, NowTurns, PruneTurns
  <2> HIDE DEF s
  <2> QED
    BY <1>2, <2>1, FinishGoes, QueueTurn
<1> QED
  BY <1>3, <1>4, <1>5 DEF ListWindows

LEMMA ReadFailsTurns ==
  ASSUME SidecarInv, NEW p \in Passes, ReadFails(p)
  PROVE  Turn
<1>1. UNCHANGED <<draining, life, fetch, server, files, full, cuts, faults, ghosts>>
  BY DEF ReadFails
<1>2. RestOK' /\ UNCHANGED <<recv, full, cuts, faults, ghosts>> /\ TypeOK
  BY <1>1, InvFacts DEF RestOK, server, ghosts
<1> DEFINE s == PruneStale(Now, FALSE, FALSE)
<1>3. Turns(s) /\ Becomes(s) /\ Finish(p, s)
  BY NowTurns, PruneTurns DEF ReadFails
<1> HIDE DEF s
<1> QED
  BY <1>2, <1>3, FinishGoes, QueueTurn

(* Steps that leave the queue as it is, on disk too.                       *)
LEMMA StillTurn ==
  ASSUME SidecarInv, mem' = mem, disk' = disk, age' \in [Ids -> Age],
         pass' \in [Passes -> Pass], \A q \in Passes : PassGoes(q, mem), RestOK',
         UNCHANGED <<recv, ghosts>>,
         faults \subseteq faults', "torn" \in faults' => "torn" \in faults,
         "cut" \in faults' => "cut" \in faults,
         full' => full \/ "disk" \in faults'
  PROVE  Turn
<1>1. Turns(Now) /\ Good(Now)
  BY NowTurns DEF Turns
<1>2. Good(Now)'
  <2> DEFINE s == Now
  <2>1. Good(s) /\ mem' = s.mem /\ disk' = s.disk
    BY <1>1, NowFields
  <2> HIDE DEF s
  <2> QED
    BY <2>1, GoodNext DEF ghosts
<1>3. ForcedOnce' /\ forcedTries' \in [Ids -> 0..2]
  BY DEF SidecarInv, ForcedOnce, TypeOK, ghosts
<1>4. TurnsInto(Now)
  <2>1. forgotten' = forgotten /\ consumed' = consumed /\ recv' = recv /\ wiped' = wiped
    BY DEF ghosts
  <2> DEFINE s == Now
  <2>2. s.mem = mem /\ s.disk = disk /\ Turns(s)
    BY <1>1, NowFields
  <2> HIDE DEF s
  <2>3. TurnsInto(s)
    BY <1>2, <1>3, <2>1, <2>2 DEF TurnsInto
  <2> QED
    BY <2>3 DEF s
<1> QED
  BY <1>4 DEF Turn

LEMMA SendTextTurns ==
  ASSUME SidecarInv, NEW p \in Passes, SendText(p)
  PROVE  Turn
<1>1. UNCHANGED <<sidecar, draining, life, fetch, server, files, full, cuts, faults, ghosts>>
  BY DEF SendText
<1>2. /\ RestOK' /\ UNCHANGED <<recv, full, cuts, faults, ghosts>> /\ TypeOK
      /\ mem' = mem /\ disk' = disk /\ age' = age /\ age \in [Ids -> Age]
  BY <1>1, InvFacts DEF RestOK, server, ghosts, sidecar, TypeOK
<1>3. pass \in [Passes -> Pass] /\ pass' = [pass EXCEPT ![p] = [pass[p] EXCEPT !.at = "enter"]]
  BY <1>2 DEF SendText, TypeOK
<1> DEFINE f == [pass[p] EXCEPT !.at = "enter"]
<1>4. f \in Pass /\ f.owed = pass[p].owed /\ f.done = pass[p].done
      /\ f.left = pass[p].left /\ f.batch = pass[p].batch
  BY <1>3 DEF Pass
<1>5. pass' = [pass EXCEPT ![p] = f]
  BY <1>3
<1> HIDE DEF f
<1>6. pass' \in [Passes -> Pass] /\ pass'[p] = f /\ \A q \in Passes : q # p => pass'[q] = pass[q]
  BY <1>3, <1>4, <1>5
<1>7. \A q \in Passes : PassGoes(q, mem)
  <2>1. PassGoes(p, mem)
    BY <1>4, <1>6 DEF PassGoes
  <2> QED
    BY <1>6, <2>1, PassStays
<1> QED
  BY <1>2, <1>6, <1>7, StillTurn

LEMMA InjectFailsTurns ==
  ASSUME SidecarInv, NEW p \in Passes, InjectFails(p)
  PROVE  Turn
<1>1. /\ UNCHANGED <<sidecar, life, fetch, server, files, full, cuts, faults, ghosts>>
      /\ draining' = FALSE /\ Finish(p, Now)
  BY DEF InjectFails
<1>2. /\ RestOK' /\ UNCHANGED <<recv, full, cuts, faults, ghosts>> /\ TypeOK
      /\ mem' = mem /\ disk' = disk /\ age' = age /\ age \in [Ids -> Age]
  BY <1>1, InvFacts DEF RestOK, server, ghosts, sidecar, TypeOK
<1> QED
  BY <1>1, <1>2, FinishGoes, StillTurn

LEMMA SendKeyTurns ==
  ASSUME SidecarInv, NEW p \in Passes, SendKey(p)
  PROVE  Turn
<1>1. /\ UNCHANGED <<life, fetch, server, files, full, cuts, faults, ghosts>>
      /\ draining' = FALSE
  BY DEF SendKey
<1>2. RestOK' /\ UNCHANGED <<recv, full, cuts, faults, ghosts>> /\ TypeOK
  BY <1>1, InvFacts DEF RestOK, server, ghosts
<1> DEFINE items == Range(pass[p].batch)
           s == Saved([Without(Now, items) EXCEPT
                         !.mem.acks = @ \cup ReceiptsFor(mem, items, "delivered")])
<1>3. Turns(s) /\ Becomes(s) /\ Finish(p, s)
  BY SentTurns DEF SendKey
<1> HIDE DEF s
<1> QED
  BY <1>2, <1>3, FinishGoes, QueueTurn

LEMMA FirstPollTurns ==
  ASSUME SidecarInv, NEW ok, FirstPoll(ok)
  PROVE  Turn
<1>1. /\ UNCHANGED <<pass, draining, server, files, full, cuts, faults, ghosts>>
      /\ life' = "up" /\ fetch' = TRUE
  BY DEF FirstPoll
<1>2. RestOK' /\ UNCHANGED <<recv, full, cuts, faults, ghosts>> /\ TypeOK
  BY <1>1, InvFacts DEF RestOK, server, ghosts
<1> DEFINE s == IF ok THEN Ingest(Now, log) ELSE Now
<1>3. Turns(s) /\ Becomes(s)
  <2>1. log \in Seq(Posts)
    BY <1>2 DEF TypeOK
  <2> QED
    BY <2>1, NowTurns, IngestTurns DEF FirstPoll
<1> HIDE DEF s
<1> QED
  BY <1>1, <1>2, <1>3, PassesStay, QueueTurn

LEMMA PollHistoryTurns ==
  ASSUME SidecarInv, PollHistory
  PROVE  Turn
<1>1. UNCHANGED <<pass, draining, life, fetch, server, files, full, cuts, faults, ghosts>>
  BY DEF PollHistory
<1>2. RestOK' /\ UNCHANGED <<recv, full, cuts, faults, ghosts>> /\ TypeOK
  BY <1>1, InvFacts DEF RestOK, server, ghosts
<1> DEFINE s == Ingest(Now, log)
<1>3. Turns(s) /\ Becomes(s)
  BY <1>2, IngestTurns DEF PollHistory, TypeOK
<1> HIDE DEF s
<1> QED
  BY <1>1, <1>2, <1>3, PassesStay, QueueTurn

LEMMA FetchPendingTurns ==
  ASSUME SidecarInv, NEW ok, FetchPending(ok)
  PROVE  Turn
<1>1. /\ UNCHANGED <<pass, draining, life, server, files, full, cuts, faults, ghosts>>
      /\ fetch' = FALSE
  BY DEF FetchPending
<1>2. RestOK' /\ UNCHANGED <<recv, full, cuts, faults, ghosts>> /\ TypeOK
  BY <1>1, InvFacts DEF RestOK, server, ghosts
<1> DEFINE s == IF ok THEN TakenIn(Now, inbox) ELSE Now
<1>3. Turns(s) /\ Becomes(s)
  <2>1. inbox \in Seq(DMs)
    BY <1>2 DEF TypeOK
  <2>2. inbox \in Seq(Ids) /\ \A n \in 1..Len(inbox) : inbox[n] \notin Posts
    BY <2>1, KindsAreApart DEF Ids
  <2> QED
    BY <2>2, NowTurns, TakenTurns DEF FetchPending
<1> HIDE DEF s
<1> QED
  BY <1>1, <1>2, <1>3, PassesStay, QueueTurn

LEMMA PostTurns ==
  ASSUME SidecarInv, NEW g \in Posts, Post(g)
  PROVE  Turn
<1>1. /\ UNCHANGED <<pass, draining, life, fetch, sent, inbox, recv, files, full, cuts, faults, ghosts>>
      /\ log' = Append(log, g)
  BY DEF Post
<1>2. RestOK' /\ UNCHANGED <<recv, full, cuts, faults, ghosts>> /\ TypeOK
  BY <1>1, InvFacts DEF RestOK, ghosts
<1>3. <<g>> \in Seq(Posts)
  OBVIOUS
<1> DEFINE s == Ingest(Now, <<g>>)
<1>4. Turns(s) /\ (Becomes(s) \/ Becomes(Now))
  BY <1>3, IngestTurns DEF Post, Streamed
<1> HIDE DEF s
<1> QED
  BY <1>1, <1>2, <1>4, NowTurns, PassesStay, QueueTurn

LEMMA ChatTurns ==
  ASSUME SidecarInv, NEW d \in DMs, Chat(d)
  PROVE  Turn
<1>1. /\ UNCHANGED <<pass, draining, life, fetch, log, recv, files, full, cuts, faults, ghosts>>
      /\ sent' = sent \cup {d}
      /\ inbox' = Append(IF Len(inbox) >= MaxInbox THEN Tail(inbox) ELSE inbox, d)
  BY DEF Chat
<1>2. inbox' \in Seq(DMs)
  <2>1. inbox \in Seq(DMs)
    BY InvFacts DEF RestOK
  <2>2. Len(inbox) >= MaxInbox => inbox # <<>>
    BY <2>1, InboxHasRoom
  <2> QED
    BY <1>1, <2>1, <2>2
<1>3. RestOK' /\ UNCHANGED <<recv, full, cuts, faults, ghosts>> /\ TypeOK
  BY <1>1, <1>2, InvFacts DEF RestOK, ghosts
<1> DEFINE s == IngestDirect(Now, d)
<1>4. Turns(s) /\ (Becomes(s) \/ Becomes(Now))
  BY DirectTurns DEF Chat, Streamed
<1> HIDE DEF s
<1> QED
  BY <1>1, <1>3, <1>4, NowTurns, PassesStay, QueueTurn

LEMMA AgeNext ==
  ASSUME SidecarInv, (\E n : Ages(n) \/ GraceRuns(n))
  PROVE  age' \in [Ids -> Age]
<1>1. age \in [Ids -> Age]
  BY InvFacts DEF TypeOK
<1>2. PICK n : Ages(n) \/ GraceRuns(n)
  OBVIOUS
<1>3. CASE Ages(n)
  BY <1>1, <1>3 DEF Ages, Age
<1>4. CASE GraceRuns(n)
  BY <1>1, <1>4 DEF GraceRuns, Age
<1> QED
  BY <1>2, <1>3, <1>4

LEMMA TimePassesTurns ==
  ASSUME SidecarInv, TimePasses
  PROVE  Turn
<1>1. PICK n \in 1..bound.queue : Ages(n) \/ GraceRuns(n)
  BY DEF TimePasses
<1>2. UNCHANGED <<mem, disk, pass, draining, life, fetch, server, files, full, cuts, faults, ghosts>>
  BY <1>1 DEF Ages, GraceRuns
<1>3. RestOK' /\ UNCHANGED <<recv, full, cuts, faults, ghosts>> /\ TypeOK
  BY <1>2, InvFacts DEF RestOK, server, ghosts
<1>4. age' \in [Ids -> Age]
  BY <1>1, AgeNext
<1> QED
  BY <1>2, <1>3, <1>4, PassesStay, StillTurn

(* Steps of the programs around the queue.                                 *)
LEMMA OthersTurn ==
  ASSUME SidecarInv, \/ \E w \in Wakes : LeaveWake(w)
                     \/ Start \/ ServerRestarts \/ DiskFills \/ DiskFrees
  PROVE  Turn
<1>1. UNCHANGED <<sidecar, pass, draining, log, sent, recv, ghosts>>
  BY DEF LeaveWake, Start, ServerRestarts, DiskFills, DiskFrees, server
<1>2. mem' = mem /\ disk' = disk /\ age' = age /\ age \in [Ids -> Age] /\ TypeOK
  BY <1>1, InvFacts DEF sidecar, TypeOK
<1>3. /\ RestOK' /\ faults \subseteq faults' /\ ("torn" \in faults' => "torn" \in faults)
      /\ ("cut" \in faults' => "cut" \in faults)
      /\ full' => full \/ "disk" \in faults'
  <2>1. CASE \E w \in Wakes : LeaveWake(w)
    BY <1>1, <2>1, InvFacts DEF LeaveWake, RestOK, server, ghosts
  <2>2. CASE Start
    BY <1>1, <2>2, InvFacts DEF Start, RestOK, server, ghosts
  <2>3. CASE ServerRestarts
    BY <1>1, <2>3, InvFacts DEF ServerRestarts, RestOK, ghosts
  <2>4. CASE DiskFills
    BY <1>1, <2>4, InvFacts DEF DiskFills, RestOK, server, ghosts
  <2>5. CASE DiskFrees
    BY <1>1, <2>5, InvFacts DEF DiskFrees, RestOK, server, ghosts
  <2> QED
    BY <2>1, <2>2, <2>3, <2>4, <2>5
<1> QED
  BY <1>1, <1>2, <1>3, PassesStay, StillTurn

LEMMA DetachedFields ==
  ASSUME TypeOK, NEW q \in Passes
  PROVE  /\ Detached(q) \in Pass /\ Detached(q).owed \subseteq pass[q].owed \cup mem.acks
         /\ Detached(q).done = pass[q].done /\ Detached(q).left = pass[q].left
         /\ Detached(q).batch = pass[q].batch
<1>1. pass[q] \in Pass /\ mem.acks \in SUBSET Receipt
  BY DEF TypeOK, State
<1>2. ASSUME NEW i \in Pass, NEW a \in SUBSET Receipt, NEW l \in BOOLEAN
      PROVE  LET j == [i EXCEPT !.live = l, !.owed = a]
             IN  j \in Pass /\ j.owed = a /\ j.done = i.done /\ j.left = i.left /\ j.batch = i.batch
  BY DEF Pass
<1>3. FALSE \in BOOLEAN
  OBVIOUS
<1> DEFINE j == [pass[q] EXCEPT !.live = FALSE, !.owed = mem.acks]
<1>4. /\ j \in Pass /\ j.owed = mem.acks /\ j.done = pass[q].done /\ j.left = pass[q].left
      /\ j.batch = pass[q].batch
  BY <1>1, <1>2, <1>3
<1>5. Detached(q) = j \/ Detached(q) = pass[q]
  BY DEF Detached
<1> HIDE DEF j
<1> QED
  BY <1>1, <1>4, <1>5

LEMMA DetachedGoes ==
  ASSUME TypeOK, NEW q \in Passes, pass'[q] = Detached(q), NEW n
  PROVE  PassGoes(q, n)
BY DetachedFields DEF PassGoes

LEMMA DeliverTurns ==
  ASSUME SidecarInv, NEW p \in Passes, Deliver(p)
  PROVE  Turn
<1>1. UNCHANGED <<draining, life, fetch, server, full, cuts, faults, forcedTries, forgotten, wiped, bound>>
  BY DEF Deliver
<1>2. PICK read \in SUBSET files : \E removable \in SUBSET read :
         LET s       == TakenIn(Now, SetToSeq(read))
             removed == removable \cap s.mem.seen
         IN  /\ Becomes(s)
             /\ files' = files \ removed
             /\ consumed' = consumed \cup removed
             /\ pass' = [q \in Passes |->
                  IF q = p THEN Flushing(s, "flush")
                  ELSE IF \E w \in read : Undone(Now, w) THEN Detached(q) ELSE pass[q]]
  BY Zenon DEF Deliver
<1>0. PICK removable \in SUBSET read :
         LET s       == TakenIn(Now, SetToSeq(read))
             removed == removable \cap s.mem.seen
         IN  /\ Becomes(s)
             /\ files' = files \ removed
             /\ consumed' = consumed \cup removed
             /\ pass' = [q \in Passes |->
                  IF q = p THEN Flushing(s, "flush")
                  ELSE IF \E w \in read : Undone(Now, w) THEN Detached(q) ELSE pass[q]]
  BY Zenon, <1>2
<1> DEFINE items == SetToSeq(read)
           s == TakenIn(Now, items)
           removed == removable \cap s.mem.seen
           f == Flushing(s, "flush")
<1>3. /\ Becomes(s) /\ files' = files \ removed /\ consumed' = consumed \cup removed
      /\ pass' = [q \in Passes |->
           IF q = p THEN f
           ELSE IF \E w \in read : Undone(Now, w) THEN Detached(q) ELSE pass[q]]
  BY <1>0
<1>4. TypeOK /\ RestOK /\ files \subseteq Wakes
  BY InvFacts DEF RestOK
<1>5. items \in Seq(Ids) /\ \A n \in 1..Len(items) : items[n] \notin Posts
  <2>1. read \subseteq Wakes
    BY <1>4
  <2>2. IsFiniteSet(read)
    BY <2>1, WakesAreFinite, FS_Subset
  <2>3. items \in Seq(read) /\ \A n \in 1..Len(items) : items[n] \in read
    BY <2>2, SetsAreListed
  <2> QED
    BY <2>1, <2>3, KindsAreApart DEF Ids
<1> HIDE DEF items
<1>6. Turns(s)
  BY <1>5, TakenTurns
<1>7. f \in Pass /\ f.owed = {} /\ f.done = {} /\ f.left = {} /\ f.batch = <<>>
  BY FlushingFields
<1> HIDE DEF s, f
<1>8. s \in Stores
  BY <1>6 DEF Turns, Good
<1>9. mem' = s.mem /\ disk' = s.disk /\ age' \in [Ids -> Age]
  BY <1>3, <1>8, BecomesFields
<1>10. \A q \in Passes : pass'[q] = (IF q = p THEN f ELSE pass'[q])
                       /\ (q # p => pass'[q] = Detached(q) \/ pass'[q] = pass[q])
  BY <1>3
<1>11. pass' \in [Passes -> Pass] /\ \A q \in Passes : PassGoes(q, s.mem)
  <2>1. \A q \in Passes : pass[q] \in Pass /\ Detached(q) \in Pass
    BY <1>4, DetachedFields DEF TypeOK
  <2>2. \A q \in Passes : pass'[q] \in Pass
    BY <1>7, <1>10, <2>1
  <2>3. pass' \in [Passes -> Pass]
    BY <1>3, <2>2
  <2> DEFINE n == s.mem
  <2>4. ASSUME NEW q \in Passes
        PROVE  PassGoes(q, n)
    <3> HIDE DEF n
    <3>1. CASE q = p
      BY <1>7, <1>10, <3>1, PassEmpties
    <3>2. CASE q # p
      BY <1>4, <1>10, <3>2, PassStays, DetachedGoes
    <3> QED
      BY <3>1, <3>2
  <2> QED
    BY <2>3, <2>4
<1>12. removed \subseteq Wakes /\ removed \subseteq s.mem.seen
  BY <1>4
<1> HIDE DEF removed
<1>13. RestOK' /\ recv' = recv /\ forgotten' = forgotten /\ faults' = faults /\ full' = full
       /\ forcedTries' = forcedTries /\ wiped' = wiped
  BY <1>1, <1>3, <1>4, <1>12 DEF RestOK, server
<1>14. Good(Now)'
  <2>1. Good(s)
    BY <1>6 DEF Turns
  <2> QED
    BY <2>1, <1>9, <1>13, GoodNext
<1>15. ForcedOnce' /\ forcedTries' \in [Ids -> 0..2]
  BY <1>4, <1>13 DEF SidecarInv, ForcedOnce, TypeOK
<1> QED
  BY <1>3, <1>6, <1>9, <1>11, <1>12, <1>13, <1>14, <1>15 DEF Turn, TurnsInto

LEMMA PlanForced ==
  ASSUME NEW item \in Entry, NEW busy, PlanDelivery(item, busy) = "inject_forced"
  PROVE  item.forced /\ ~item.tried
<1> DEFINE f == item.forced
           t == item.tried
<1>1. f \in BOOLEAN /\ t \in BOOLEAN
  BY DEF Entry
<1>2. (CASE t -> "wait" [] f /\ ~t -> "inject_forced"
         [] ~f /\ ~t -> IF busy THEN "wait" ELSE "inject") = "inject_forced"
  BY DEF PlanDelivery
<1> HIDE DEF f, t
<1>3. f /\ ~t
  BY <1>1, <1>2
<1> QED
  BY <1>3 DEF f, t

Represented(m, batch) == UNION {Sources(m, i) : i \in Range(batch)}

(* A forced attempt is counted once for all the batch stands for: nothing  *)
(* of it has been tried, and nothing else in the queue stands for it.      *)
LEMMA ForcedAttempt ==
  ASSUME NEW h, Good(h), NEW batch, ForcedFront(h.mem, batch),
         ~h.mem.entry[h.mem.pending[1]].tried,
         full = FALSE, forcedTries \in [Ids -> 0..2], ForcedOnce,
         NEW t, t = Tried(h, batch), mem' = t.mem, disk' = t.disk, age' \in [Ids -> Age],
         forcedTries' = Counted(forcedTries, Represented(t.mem, batch)), wiped' = wiped
  PROVE  Good(Now)' /\ ForcedOnce' /\ forcedTries' \in [Ids -> 0..2]
<1> DEFINE m == t.mem
           U == UNION {Sources(m, i) : i \in Range(batch)}
<1> PICK n \in 0..Len(h.mem.pending) :
      /\ Range(batch) = {h.mem.pending[k] : k \in 1..n}
      /\ \A i \in Range(batch) : h.mem.entry[i].forced
  BY DEF ForcedFront
<1>1. /\ Good(t) /\ InStep(t) /\ m.pending = h.mem.pending
      /\ \A i \in PendingIn(h.mem) : m.entry[i].merged = h.mem.entry[i].merged
      /\ \A i \in Range(batch) : m.entry[i].tried
  <2>1. full \in BOOLEAN
    OBVIOUS
  <2> DEFINE u == Tried(h, batch)
  <2>2. /\ Good(u) /\ (~full => InStep(u)) /\ u.mem.pending = h.mem.pending
        /\ \A i \in PendingIn(h.mem) : u.mem.entry[i].merged = h.mem.entry[i].merged
        /\ \A i \in Range(batch) : u.mem.entry[i].tried
    BY <2>1, TriedGood
  <2> HIDE DEF u
  <2>3. t = u
    BY DEF u
  <2> QED
    BY <2>2, <2>3
<1>2. Queue(m) /\ t \in Stores /\ m \in State /\ t.disk = Written(m) /\ Behind(t)
  BY <1>1 DEF Good, InStep, Queue
<1>3. Queue(h.mem) /\ h.mem \in State
  BY DEF Good, Queue
<1>4. PendingIn(m) = PendingIn(h.mem) /\ Range(batch) \subseteq PendingIn(m)
      /\ PendingIn(m) \subseteq Ids
  <2> DEFINE q == h.mem.pending
  <2>1. q \in Seq(Ids) /\ PendingIn(h.mem) = {q[k] : k \in 1..Len(q)} /\ PendingIn(h.mem) \subseteq Ids
    BY <1>3, PendingAreIds
  <2>2. Range(batch) = {q[k] : k \in 1..n} /\ n \in 0..Len(q)
    OBVIOUS
  <2>3. PendingIn(m) = PendingIn(h.mem)
    BY <1>1 DEF PendingIn
  <2> HIDE DEF q, m
  <2>4. \A k \in 1..n : k \in 1..Len(q)
    BY <2>1, <2>2
  <2> QED
    BY <2>1, <2>2, <2>3, <2>4
<1>5. forcedTries' = Counted(forcedTries, U)
  BY DEF Represented
<1>6. ASSUME NEW i \in Range(batch)
      PROVE  Sources(m, i) = Sources(h.mem, i) /\ ~h.mem.entry[i].tried
  <2>1. PICK k \in 1..n : i = h.mem.pending[k]
    OBVIOUS
  <2>2. Len(h.mem.pending) \in Nat
    BY <1>3, PendingAreIds
  <2>3. k \in 1..Len(h.mem.pending) /\ 1 \in 1..Len(h.mem.pending)
    BY <2>1, <2>2
  <2>4. TriedFirst(h.mem)
    BY <1>3 DEF Queue
  <2>5. k # 1 => 1 < k
    BY <2>1
  <2>6. ~h.mem.entry[i].tried
    BY <2>1, <2>3, <2>4, <2>5 DEF TriedFirst
  <2>7. m.entry[i].merged = h.mem.entry[i].merged
    BY <1>1, <1>4
  <2> QED
    BY <2>6, <2>7 DEF Sources
<1>7. \A x \in U : x \in Ids /\ NotTried(x)
  <2>1. Untried(h.mem)
    BY <1>3 DEF Queue
  <2>2. \A i \in Range(batch) : Sources(m, i) \subseteq Ids
    BY <1>2, <1>4, SourcesAreIds
  <2> QED
    BY <1>4, <1>6, <2>1, <2>2 DEF Untried
<1> HIDE DEF m
<1>8. /\ \A x \in Ids : forcedTries'[x] = IF x \in U THEN UpTo2(forcedTries[x]) ELSE forcedTries[x]
      /\ \A n_ \in 0..2 : UpTo2(n_) \in 0..2
      /\ \A x \in U : x \in wiped \/ forcedTries'[x] = 1
  <2>1. \A x \in Ids : forcedTries'[x] = IF x \in U THEN UpTo2(forcedTries[x]) ELSE forcedTries[x]
    BY <1>5 DEF Counted
  <2>2. (\A n_ \in 0..2 : UpTo2(n_) \in 0..2) /\ UpTo2(0) = 1
    BY DEF UpTo2
  <2> QED
    BY <1>7, <2>1, <2>2 DEF NotTried
<1>9. forcedTries' \in [Ids -> 0..2]
  <2>1. DOMAIN forcedTries' = Ids /\ forcedTries' = [x \in Ids |-> forcedTries'[x]]
    BY <1>5 DEF Counted
  <2>2. \A x \in Ids : forcedTries'[x] \in 0..2
    BY <1>8
  <2> QED
    BY <2>1, <2>2
<1>10. ForcedOnce'
  BY <1>7, <1>8 DEF ForcedOnce
<1>11. ASSUME NEW i \in PendingIn(m), ~m.entry[i].tried, NEW x \in Sources(m, i)
       PROVE  NotTried(x)'
  <2>1. Untried(m) /\ Apart(m)
    BY <1>2 DEF Queue
  <2>2. NotTried(x)
    BY <1>11, <2>1 DEF Untried
  <2>3. i \notin Range(batch)
    BY <1>1, <1>11 DEF m
  <2>4. x \notin U
    BY <1>4, <2>1, <2>3 DEF Apart
  <2>5. x \in Ids
    BY <1>2, <1>4, SourcesAreIds
  <2> QED
    BY <1>8, <2>2, <2>4, <2>5 DEF NotTried
<1>12. mem' = m /\ disk' = Written(m)
  BY <1>2 DEF m
<1>13. Queue(mem)'
  <2>1. Untried(mem)'
    BY <1>11, <1>12 DEF Untried, Sources, PendingIn
  <2> QED
    BY <1>2, <1>12, <2>1 DEF Queue, Seen, Heads, Apart, TriedFirst, HeldOrOwed, Holds, OwedIn, Sources, PendingIn
<1>14. Queue(disk)'
  <2> DEFINE w == Written(m)
  <2>1. Queue(w) /\ w.pending = m.pending /\ PendingIn(m) \subseteq Ids
        /\ \A i \in PendingIn(m) : i \in Ids => w.entry[i] = m.entry[i]
    BY <1>2, <1>4, WrittenQueue, WrittenFields
  <2>2. disk' = w
    BY <1>12
  <2> HIDE DEF w
  <2>3. ASSUME NEW i \in PendingIn(w), ~w.entry[i].tried, NEW x \in Sources(w, i)
        PROVE  NotTried(x)'
    <3>1. i \in PendingIn(m) /\ w.entry[i] = m.entry[i]
      BY <2>1 DEF PendingIn
    <3> QED
      BY <1>11, <2>3, <3>1 DEF Sources
  <2>4. Untried(disk)'
    BY <2>2, <2>3 DEF Untried, Sources, PendingIn
  <2> QED
    BY <2>1, <2>2, <2>4 DEF Queue, Seen, Heads, Apart, TriedFirst, HeldOrOwed, Holds, OwedIn, Sources, PendingIn
<1>15. Behind(Now)'
  <2> DEFINE w == Written(m)
  <2>1. w.seen = m.seen /\ Holds(w) = Holds(m)
    BY <1>2, WrittenFields, WrittenQueue
  <2>2. disk' = w /\ mem' = m
    BY <1>12
  <2> HIDE DEF w
  <2>3. ASSUME NEW x \in Ids
        PROVE  NotTried(x)' \/ x \in m.seen
    <3>1. CASE x \in U
      BY <1>2, <1>4, <3>1, HeadsStand
    <3>2. CASE x \notin U
      <4>1. NotTried(x) \/ x \in m.seen
        BY <1>2 DEF Behind, m
      <4>2. NotTried(x) => NotTried(x)'
        BY <1>8, <3>2 DEF NotTried
      <4> QED
        BY <4>1, <4>2
    <3> QED
      BY <3>1, <3>2
  <2>4. Holds(mem)' = Holds(m) /\ Holds(disk)' = Holds(w)
    BY <2>2 DEF Holds, Sources, PendingIn
  <2>5. disk' = Written(disk)'
    <3>1. Written(w) = w
      BY <1>2, WrittenTwice DEF w
    <3>2. Written(disk)' = Written(w)
      BY <2>2 DEF Written, PendingIn
    <3> QED
      BY <2>2, <3>1, <3>2
  <2> QED
    BY <2>1, <2>2, <2>3, <2>4, <2>5, NowFields DEF Behind
<1>16. (Now \in Stores)'
  BY <1>2 DEF Now, Stores, m
<1> QED
  BY <1>9, <1>10, <1>13, <1>14, <1>15, <1>16, NowFields DEF Good

LEMMA TriedTurns ==
  ASSUME SidecarInv, NEW h, Turns(h), NEW batch,
         ForcedFront(h.mem, batch)
  PROVE  Turns(Tried(h, batch)) /\ Tried(h, batch).mem.pending = h.mem.pending
<1> DEFINE t == Tried(h, batch)
<1>1. Good(h) /\ full \in BOOLEAN
  BY InvFacts DEF Turns
<1>2. /\ Good(t) /\ Carries(h.mem, t.mem, {}) /\ Minds(h.mem, t.mem)
      /\ (WakesSaved(h) => WakesSaved(t)) /\ (~full => InStep(t))
      /\ t.mem.pending = h.mem.pending
  BY <1>1, TriedGood
<1> HIDE DEF t
<1>3. Turns(t)
  BY <1>2, TurnsOn
<1> QED
  BY <1>2, <1>3 DEF t

LEMMA TypeGoes ==
  ASSUME TypeOK, NEW p \in Passes, NEW batch \in Seq(Ids),
         pass' = [pass EXCEPT ![p] = [Idle EXCEPT !.at = "type", !.batch = batch]],
         NEW n, \A i \in Range(batch) \cap DMs : n.pending # <<>> /\ i = n.pending[1]
  PROVE  pass' \in [Passes -> Pass] /\ \A q \in Passes : PassGoes(q, n)
<1> DEFINE f == [Idle EXCEPT !.at = "type", !.batch = batch]
<1>1. f \in Pass /\ f.owed = {} /\ f.done = {} /\ f.left = {} /\ f.batch = batch
  <2>1. ASSUME NEW i \in Pass
        PROVE  LET j == [i EXCEPT !.at = "type", !.batch = batch]
               IN  /\ j \in Pass /\ j.owed = i.owed /\ j.done = i.done
                   /\ j.left = i.left /\ j.batch = batch
    BY DEF Pass
  <2>2. Idle.owed = {} /\ Idle.done = {} /\ Idle.left = {}
    BY DEF Idle
  <2> QED
    BY <2>1, <2>2, IdleIsPass
<1>2. pass' = [pass EXCEPT ![p] = f] /\ pass \in [Passes -> Pass]
  BY DEF TypeOK
<1> HIDE DEF f
<1>3. pass' \in [Passes -> Pass] /\ pass'[p] = f /\ \A q \in Passes : q # p => pass'[q] = pass[q]
  BY <1>1, <1>2
<1>4. PassGoes(p, n)
  BY <1>1, <1>3 DEF PassGoes
<1> QED
  BY <1>3, <1>4, PassStays

LEMMA ReadScreenTurns ==
  ASSUME SidecarInv, NEW p \in Passes, NEW busy \in BOOLEAN, NEW hold \in BOOLEAN,
         ReadScreen(p, busy, hold)
  PROVE  Turn
<1> DEFINE marked == IF ~busy /\ hold THEN MarkHeld(Now, TRUE) ELSE Now
           pruned == PruneStale(marked, TRUE, busy)
           s      == IF ~busy /\ ~hold THEN MarkHeld(pruned, FALSE) ELSE pruned
           batch  == Batch(s.mem)
           item   == s.mem.entry[Head(batch)]
           plan   == IF batch = <<>> THEN "none" ELSE PlanDelivery(item, busy)
           h      == MarkHeld(s, hold)
           forced == plan = "inject_forced"
           held   == hold /\ (forced => s.age[Head(batch)] = "new")
           t      == IF forced THEN Tried(h, batch) ELSE h
<1>1. /\ \/ /\ plan \in {"none", "wait"}
            /\ Becomes(s) /\ Finish(p, s)
            /\ UNCHANGED <<draining, forcedTries>>
         \/ /\ plan \in {"inject", "inject_forced"} /\ held
            /\ Becomes(h) /\ Finish(p, h)
            /\ UNCHANGED <<draining, forcedTries>>
         \/ /\ forced /\ ~held /\ full
            /\ Becomes(t) /\ Finish(p, t)
            /\ draining' = FALSE
            /\ UNCHANGED forcedTries
         \/ /\ plan = "inject" \/ (forced /\ ~full)
            /\ ~held
            /\ Becomes(t)
            /\ draining' = TRUE
            /\ pass' = [pass EXCEPT ![p] =
                 [Idle EXCEPT !.at = "type", !.batch = batch]]
            /\ forcedTries' = IF forced THEN Counted(forcedTries, UNION {Sources(t.mem, i) : i \in Range(batch)})
                              ELSE forcedTries
      /\ UNCHANGED <<life, fetch, server, files, full, cuts, faults, forgotten, consumed, wiped, bound>>
  BY Zenon DEF ReadScreen
<1>2. Turns(marked)
  BY NowTurns, HeldTurns
<1> HIDE DEF marked
<1>3. Turns(pruned)
  BY <1>2, PruneTurns
<1> HIDE DEF pruned
<1>4. Turns(s)
  BY <1>3, HeldTurns
<1> HIDE DEF s
<1>5. Turns(h)
  BY <1>4, HeldTurns
<1>6. /\ s.mem \in State /\ s.mem.pending \in Seq(Ids) /\ full \in BOOLEAN /\ Good(s)
      /\ PendingIn(s.mem) \subseteq Ids
  <2>1. Good(s) /\ s.mem \in State /\ full \in BOOLEAN
    BY <1>4, InvFacts DEF Turns, Good, Queue
  <2> QED
    BY <2>1, PendingAreIds
<1>7. /\ h.mem.pending = s.mem.pending
      /\ \A i \in PendingIn(s.mem) : /\ h.mem.entry[i].tried = s.mem.entry[i].tried
                                   /\ h.mem.entry[i].forced = s.mem.entry[i].forced
  BY <1>6, MarkHeldGood
<1> HIDE DEF h
<1>8. /\ batch \in Seq(Ids) /\ (batch = <<>> <=> s.mem.pending = <<>>)
      /\ batch # <<>> => Head(batch) = s.mem.pending[1] /\ Head(batch) \in Range(batch)
      /\ Range(batch) \subseteq PendingIn(s.mem)
      /\ \A i \in Range(batch) : s.mem.entry[i].forced = s.mem.entry[s.mem.pending[1]].forced
      /\ \A i \in Range(batch) \cap DMs : i = s.mem.pending[1]
      /\ \E n \in 0..Len(s.mem.pending) : Range(batch) = {s.mem.pending[k] : k \in 1..n}
  <2> DEFINE m == s.mem
  <2>1. m \in State
    BY <1>6
  <2> HIDE DEF m
  <2>2. /\ Batch(m) \in Seq(Ids) /\ (Batch(m) = <<>> <=> m.pending = <<>>)
        /\ Batch(m) # <<>> => Head(Batch(m)) = m.pending[1] /\ Head(Batch(m)) \in Range(Batch(m))
        /\ Range(Batch(m)) \subseteq PendingIn(m)
        /\ \A i \in Range(Batch(m)) : m.entry[i].forced = m.entry[m.pending[1]].forced
        /\ \A i \in Range(Batch(m)) \cap DMs : i = m.pending[1]
        /\ \E n \in 0..Len(m.pending) : Range(Batch(m)) = {m.pending[k] : k \in 1..n}
    BY <2>1, BatchMembers, Zenon
  <2> QED
    BY <2>2 DEF m
<1> HIDE DEF batch
<1>9. PICK n \in 0..Len(s.mem.pending) : Range(batch) = {s.mem.pending[k] : k \in 1..n}
  BY <1>8
<1>10. forced => /\ batch # <<>> /\ ~s.mem.entry[s.mem.pending[1]].tried
                 /\ \A i \in Range(batch) : s.mem.entry[i].forced
  <2>1. SUFFICES ASSUME forced
                 PROVE  /\ batch # <<>> /\ ~s.mem.entry[s.mem.pending[1]].tried
                        /\ \A i \in Range(batch) : s.mem.entry[i].forced
    OBVIOUS
  <2>2. batch # <<>> /\ PlanDelivery(item, busy) = "inject_forced"
    BY <2>1
  <2>3. item \in Entry
    BY <1>6, <1>8, <2>2 DEF State
  <2>4. item.forced /\ ~item.tried
    <3> HIDE DEF item
    <3> QED
      BY <2>2, <2>3, PlanForced
  <2>5. item = s.mem.entry[s.mem.pending[1]]
    BY <1>8, <2>2
  <2> HIDE DEF item
  <2> QED
    BY <1>8, <2>2, <2>4, <2>5
<1>11. forced => ForcedFront(h.mem, batch)
  <2>1. forced => \A i \in Range(batch) : h.mem.entry[i].forced
    BY <1>7, <1>8, <1>10
  <2> HIDE DEF forced
  <2> QED
    BY <1>7, <1>9, <2>1 DEF ForcedFront
<1> HIDE DEF item, plan
<1>12. Turns(t) /\ t.mem.pending = s.mem.pending
  <2>1. CASE forced
    <3>1. Turns(Tried(h, batch)) /\ Tried(h, batch).mem.pending = h.mem.pending
      BY <1>5, <1>11, <2>1, TriedTurns
    <3> QED
      BY <1>7, <2>1, <3>1
  <2>2. CASE ~forced
    BY <1>5, <1>7, <2>2
  <2> QED
    BY <2>1, <2>2
<1>13. t = IF forced THEN Tried(h, batch) ELSE h
  OBVIOUS
<1> HIDE DEF t, held, forced
<1>14. TypeOK /\ RestOK /\ UNCHANGED <<recv, full, cuts, faults, forgotten, consumed, wiped, bound>>
  BY <1>1, InvFacts DEF server
<1>15. draining' \in BOOLEAN => RestOK'
  BY <1>1, <1>14 DEF RestOK, server
<1>16. CASE Becomes(s) /\ Finish(p, s) /\ UNCHANGED <<draining, forcedTries>>
  <2>1. RestOK' /\ UNCHANGED <<recv, full, cuts, faults, ghosts>>
    BY <1>14, <1>15, <1>16 DEF RestOK, ghosts
  <2> QED
    BY <1>4, <1>14, <1>16, <2>1, FinishGoes, QueueTurn
<1>17. CASE Becomes(h) /\ Finish(p, h) /\ UNCHANGED <<draining, forcedTries>>
  <2>1. RestOK' /\ UNCHANGED <<recv, full, cuts, faults, ghosts>>
    BY <1>14, <1>15, <1>17 DEF RestOK, ghosts
  <2> QED
    BY <1>5, <1>14, <1>17, <2>1, FinishGoes, QueueTurn
<1>18. CASE Becomes(t) /\ Finish(p, t) /\ draining' = FALSE /\ UNCHANGED forcedTries
  <2>1. RestOK' /\ UNCHANGED <<recv, full, cuts, faults, ghosts>>
    BY <1>14, <1>15, <1>18 DEF ghosts
  <2> QED
    BY <1>12, <1>14, <1>18, <2>1, FinishGoes, QueueTurn
<1>19. CASE /\ plan = "inject" \/ (forced /\ ~full)
            /\ Becomes(t)
            /\ draining' = TRUE
            /\ pass' = [pass EXCEPT ![p] =
                 [Idle EXCEPT !.at = "type", !.batch = batch]]
            /\ forcedTries' = IF forced THEN Counted(forcedTries, UNION {Sources(t.mem, i) : i \in Range(batch)})
                              ELSE forcedTries
  <2>1. \A i \in Range(batch) \cap DMs : t.mem.pending # <<>> /\ i = t.mem.pending[1]
    <3>1. PendingIn(s.mem) # {} => s.mem.pending # <<>>
      BY <1>6, PendingAreIds
    <3> QED
      BY <1>8, <1>12, <3>1
  <2>2. pass' \in [Passes -> Pass] /\ \A q \in Passes : PassGoes(q, t.mem)
    <3> DEFINE m == t.mem
    <3>1. \A i \in Range(batch) \cap DMs : m.pending # <<>> /\ i = m.pending[1]
      BY <2>1
    <3> HIDE DEF m
    <3>2. pass' \in [Passes -> Pass] /\ \A q \in Passes : PassGoes(q, m)
      BY <1>8, <1>14, <1>19, <3>1, TypeGoes
    <3> QED
      BY <3>2 DEF m
  <2>3. RestOK'
    BY <1>15, <1>19
  <2>4. CASE ~forced
    <3>1. UNCHANGED <<recv, full, cuts, faults, ghosts>>
      BY <1>14, <1>19, <2>4 DEF ghosts
    <3> QED
      BY <1>12, <1>19, <2>2, <2>3, <3>1, QueueTurn
  <2>5. CASE forced
    <3>1. ~full
      BY <1>19, <2>5 DEF forced
    <3>2. t \in Stores /\ mem' = t.mem /\ disk' = t.disk /\ age' \in [Ids -> Age]
      <4>1. t \in Stores
        BY <1>12 DEF Turns, Good
      <4> QED
        BY <1>19, <4>1, BecomesFields
    <3>3. forcedTries \in [Ids -> 0..2] /\ ForcedOnce /\ full = FALSE
      BY <1>14, <3>1 DEF TypeOK, SidecarInv
    <3>4. Good(h)
      BY <1>5 DEF Turns
    <3>6. ~h.mem.entry[h.mem.pending[1]].tried
      <4>1. s.mem.pending[1] \in PendingIn(s.mem)
        BY <1>6, <1>8, <1>10, <2>5, PendingAreIds
      <4> QED
        BY <1>7, <1>10, <2>5, <4>1
    <3>7. Good(Now)' /\ ForcedOnce' /\ forcedTries' \in [Ids -> 0..2]
      <4>1. t = Tried(h, batch) /\ ForcedFront(h.mem, batch)
        BY <1>11, <1>13, <2>5
      <4>2. forcedTries' = Counted(forcedTries, Represented(t.mem, batch)) /\ wiped' = wiped
        BY <1>14, <1>19, <2>5 DEF Represented
      <4> QED
        BY <3>2, <3>3, <3>4, <3>6, <4>1, <4>2, ForcedAttempt
    <3> QED
      BY <1>12, <1>14, <2>2, <2>3, <3>2, <3>7 DEF Turn, TurnsInto
  <2> QED
    BY <2>4, <2>5
<1> QED
  BY <1>1, <1>16, <1>17, <1>18, <1>19

(* A receipt has been answered.                                            *)
LEMMA NewAcks ==
  ASSUME NEW m, Queue(m), NEW n \in State, n.seen = m.seen, n.pending = m.pending, n.entry = m.entry,
         OwedIn(n) \subseteq m.seen \ Holds(m)
  PROVE  Queue(n) /\ Holds(n) = Holds(m) /\ PendingIn(n) = PendingIn(m)
<1>1. PendingIn(n) = PendingIn(m) /\ \A i : Sources(n, i) = Sources(m, i)
  BY DEF PendingIn, Sources
<1>2. Holds(n) = Holds(m)
  BY <1>1 DEF Holds
<1>3. Seen(n) /\ HeldOrOwed(n)
  BY <1>1, <1>2 DEF Queue, Seen, HeldOrOwed
<1>4. Heads(n) /\ Apart(n) /\ TriedFirst(n) /\ Untried(n)
  BY <1>1 DEF Queue, Heads, Apart, TriedFirst, Untried
<1> QED
  BY <1>1, <1>2, <1>3, <1>4 DEF Queue

LEMMA BatchSame ==
  ASSUME SidecarInv, NEW q \in Passes, \A x : Settled(x) => Settled(x)',
         NEW n, mem' = n, n.seen = mem.seen, n.pending = mem.pending, n.entry = mem.entry,
         pass'[q].batch = pass[q].batch \/ pass'[q].batch = <<>>
  PROVE  BatchOK(q)'
<1>1. BatchOK(q)
  BY DEF SidecarInv
<1>2. PendingIn(mem)' = PendingIn(mem) /\ \A i : Sources(mem, i)' = Sources(mem, i)
  BY DEF PendingIn, Sources
<1>3. Range(pass'[q].batch) \subseteq Range(pass[q].batch)
  BY EmptyRange
<1>4. ASSUME NEW i \in Range(pass'[q].batch), i \in DMs
      PROVE  /\ i \in n.seen
             /\ i \in PendingIn(mem) => i = n.pending[1]
             /\ i \notin PendingIn(mem) => \A x \in Sources(mem, i) : Settled(x)'
  BY <1>1, <1>3, <1>4 DEF BatchOK
<1> QED
  BY <1>2, <1>4 DEF BatchOK

LEMMA AckRest ==
  ASSUME SidecarInv, NEW p \in Passes, NEW r \in Receipt, NEW arrived \in BOOLEAN, NEW ok \in BOOLEAN,
         AckAnswered(p, r, arrived, ok), forgotten' \subseteq Receipt
  PROVE  /\ RestOK' /\ recv \subseteq recv' /\ (ok => r[1] \in recv')
         /\ faults' = faults /\ full' = full /\ forcedTries' = forcedTries /\ consumed' = consumed
         /\ wiped' = wiped
<1>1. /\ recv' = (IF arrived THEN recv \cup {r[1]} ELSE recv)
      /\ inbox' = (IF arrived THEN Kept(inbox, DMs \ {r[1]}) ELSE inbox)
      /\ UNCHANGED <<draining, life, fetch, log, sent, files, full, cuts, faults,
                     forcedTries, consumed, wiped, bound>>
      /\ (ok => arrived)
  BY DEF AckAnswered
<1>2. r[1] \in DMs /\ RestOK
  BY InvFacts DEF Receipt
<1>3. inbox \in Seq(DMs) /\ Kept(inbox, DMs \ {r[1]}) \in Seq(DMs)
  BY <1>2, KeptMembers DEF RestOK
<1> QED
  BY <1>1, <1>2, <1>3 DEF RestOK

LEMMA AckGoesOn ==
  ASSUME SidecarInv, NEW p \in Passes, NEW r \in Receipt, NEW arrived \in BOOLEAN, NEW ok \in BOOLEAN,
         AckAnswered(p, r, arrived, ok), ~(Owed(p) \subseteq pass[p].done \cup {r})
  PROVE  SidecarInv' /\ mem' = mem /\ forgotten' = forgotten
<1> DEFINE done == pass[p].done \cup {r}
           left == IF ok THEN pass[p].left ELSE pass[p].left \cup {r}
<1>1. /\ pass' = [pass EXCEPT ![p].done = done, ![p].left = left]
      /\ UNCHANGED <<sidecar, forgotten>>
      /\ r \in Owed(p)
  BY DEF AckAnswered
<1>2. mem' = mem /\ disk' = disk /\ age' = age /\ forgotten' = forgotten
  BY <1>1 DEF sidecar
<1>3. TypeOK /\ RestOK /\ forgotten' \subseteq Receipt
  BY <1>2, InvFacts DEF RestOK
<1>4. /\ RestOK' /\ recv \subseteq recv' /\ (ok => r[1] \in recv')
      /\ faults' = faults /\ full' = full /\ forcedTries' = forcedTries /\ consumed' = consumed
      /\ wiped' = wiped
  BY <1>3, AckRest
<1> DEFINE f == [pass[p] EXCEPT !.done = done, !.left = left]
<1>5. pass[p] \in Pass /\ done \in SUBSET Receipt /\ left \in SUBSET Receipt
      /\ pass \in [Passes -> Pass]
  <2>1. pass[p] \in Pass /\ pass \in [Passes -> Pass]
    BY <1>3 DEF TypeOK
  <2>2. pass[p].done \in SUBSET Receipt /\ pass[p].left \in SUBSET Receipt
    BY <2>1 DEF Pass
  <2> QED
    BY <2>1, <2>2
<1>6. /\ f \in Pass /\ f.owed = pass[p].owed /\ f.done = done /\ f.left = left
      /\ f.batch = pass[p].batch
  <2> DEFINE i == pass[p]
  <2>1. i \in Pass /\ done \in SUBSET Receipt /\ left \in SUBSET Receipt
    BY <1>5
  <2>2. f = [i EXCEPT !.done = done, !.left = left]
    OBVIOUS
  <2> HIDE DEF done, left, i, f
  <2>3. f \in Pass /\ f.owed = i.owed /\ f.done = done /\ f.left = left /\ f.batch = i.batch
    BY <2>1, <2>2 DEF Pass
  <2> QED
    BY <2>3 DEF i
<1>7. pass' = [pass EXCEPT ![p] = f]
  BY <1>1, <1>5
<1> HIDE DEF f
<1>8. pass' \in [Passes -> Pass] /\ pass'[p] = f /\ \A q \in Passes : q # p => pass'[q] = pass[q]
  BY <1>5, <1>6, <1>7
<1>9. \A x : Settled(x) => Settled(x)'
  BY <1>2, <1>4 DEF Settled, Holds, OwedIn, PendingIn, Sources
<1>10. FlushOK(p)'
  <2>1. FlushOK(p) /\ \A a \in mem.acks : Settled(a[1])
    BY OwedAreSettled DEF SidecarInv
  <2>2. Settled(r[1])
    BY <1>1, <2>1 DEF Owed, FlushOK
  <2>3. \A a \in f.owed \cup f.done \cup f.left : Settled(a[1])
    BY <1>6, <2>1, <2>2 DEF FlushOK
  <2>4. \A a \in f.done : a \in f.left \/ a[1] \in recv'
    BY <1>4, <1>6, <2>1 DEF FlushOK
  <2> QED
    BY <1>8, <1>9, <2>3, <2>4 DEF FlushOK
<1>11. \A q \in Passes : FlushOK(q)' /\ BatchOK(q)'
  <2>1. \A q \in Passes : q # p => FlushOK(q)'
    BY <1>4, <1>8, <1>9, FlushStays
  <2>2. \A q \in Passes : BatchOK(q)'
    BY <1>2, <1>6, <1>8, <1>9, BatchSame
  <2> QED
    BY <1>10, <2>1, <2>2
<1>12. Good(Now)'
  <2> DEFINE s == Now
  <2>1. Good(s) /\ mem' = s.mem /\ disk' = s.disk /\ age' \in [Ids -> Age]
    BY <1>2, <1>3, NowFields DEF SidecarInv, TypeOK
  <2> HIDE DEF s
  <2> QED
    BY <1>4, <2>1, GoodNext
<1>13. TypeOK' /\ ForcedOnce'
  BY <1>2, <1>3, <1>4, <1>8 DEF TypeOK, RestOK, ForcedOnce, SidecarInv
<1>14. DiskOK'
  <2>1. Now' = Now
    BY <1>2 DEF Now
  <2> QED
    BY <1>2, <1>4, <2>1 DEF SidecarInv, DiskOK, WakesSaved, InStep, Written, PendingIn
<1> QED
  BY <1>2, <1>11, <1>12, <1>13, <1>14 DEF SidecarInv

LEMMA AckEnds ==
  ASSUME SidecarInv, NEW p \in Passes, NEW r \in Receipt, NEW arrived \in BOOLEAN, NEW ok \in BOOLEAN,
         AckAnswered(p, r, arrived, ok), Owed(p) \subseteq pass[p].done \cup {r}
  PROVE  LET done == pass[p].done \cup {r}
             left == IF ok THEN pass[p].left ELSE pass[p].left \cup {r}
         IN  /\ SidecarInv' /\ mem' \in State /\ mem'.seen = mem.seen /\ mem'.pending = mem.pending
             /\ mem'.entry = mem.entry /\ mem'.acks = left
             /\ forgotten' = forgotten \cup (mem.acks \ (done \cup left))
             /\ \A a \in left : Settled(a[1])
             /\ \A a \in done : a \in left \/ a[1] \in recv'
<1> DEFINE done == pass[p].done \cup {r}
           left == IF ok THEN pass[p].left ELSE pass[p].left \cup {r}
           n == [mem EXCEPT !.acks = left]
           u == [Now EXCEPT !.mem = n]
           s == Saved(u)
           f == AfterFlush(s, pass[p].at)
<1>1. /\ Becomes(Saved([Now EXCEPT !.mem.acks = left]))
      /\ forgotten' = forgotten \cup (mem.acks \ (done \cup left))
      /\ pass' = [q \in Passes |->
            IF q = p THEN AfterFlush(Saved([Now EXCEPT !.mem.acks = left]), pass[p].at) ELSE Detached(q)]
      /\ r \in Owed(p)
  BY DEF AckAnswered
<1>2. TypeOK /\ RestOK /\ mem \in State /\ Queue(mem) /\ full \in BOOLEAN
  BY InvFacts
<1>3. pass[p] \in Pass /\ done \in SUBSET Receipt /\ left \in SUBSET Receipt
  <2>1. pass[p] \in Pass
    BY <1>2 DEF TypeOK
  <2>2. pass[p].done \in SUBSET Receipt /\ pass[p].left \in SUBSET Receipt
    BY <2>1 DEF Pass
  <2> QED
    BY <2>1, <2>2
<1>4. forgotten' \subseteq Receipt
  BY <1>1, <1>2 DEF RestOK, State
<1>5. /\ RestOK' /\ recv \subseteq recv' /\ (ok => r[1] \in recv')
      /\ faults' = faults /\ full' = full /\ forcedTries' = forcedTries /\ consumed' = consumed
      /\ wiped' = wiped
  BY <1>4, AckRest
<1>6. FlushOK(p) /\ \A a \in mem.acks : Settled(a[1])
  BY OwedAreSettled DEF SidecarInv
<1>7. \A a \in left : Settled(a[1])
  <2>1. Settled(r[1])
    BY <1>1, <1>6 DEF Owed, FlushOK
  <2> QED
    BY <1>6, <2>1 DEF FlushOK
<1>8. \A a \in done : a \in left \/ a[1] \in recv'
  BY <1>5, <1>6 DEF FlushOK
<1>9. [Now EXCEPT !.mem.acks = left] = u
  BY DEF Now
<1> HIDE DEF left
<1>10. /\ n \in State /\ n.seen = mem.seen /\ n.pending = mem.pending /\ n.entry = mem.entry
       /\ n.acks = left
  BY <1>2, <1>3 DEF State
<1> HIDE DEF n
<1>11. Queue(n) /\ Holds(n) = Holds(mem)
  <2>1. OwedIn(n) \subseteq mem.seen \ Holds(mem)
    BY <1>7, <1>10 DEF OwedIn, Settled
  <2> QED
    BY <1>2, <1>10, <2>1, NewAcks
<1>12. u \in Stores /\ u.mem = n /\ u.disk = disk
  BY <1>2, <1>10, TypeParts, NowFields DEF Stores
<1> HIDE DEF u
<1>13. Good(u)
  <2>1. Good(Now)
    BY DEF SidecarInv
  <2>2. Behind(Now) /\ Queue(disk)
    BY <2>1, NowFields DEF Good
  <2>3. Behind(u)
    BY <1>10, <1>11, <1>12, <2>2, NowFields DEF Behind
  <2> QED
    BY <1>11, <1>12, <2>2, <2>3 DEF Good
<1>14. /\ Good(s) /\ s.mem = n
       /\ WakesSaved(u) => WakesSaved(s)
       /\ ~full => InStep(s) /\ WakesSaved(s)
  BY <1>2, <1>12, <1>13, SavedGood
<1>15. Becomes(s) /\ pass' = [q \in Passes |-> IF q = p THEN f ELSE Detached(q)]
  BY <1>1, <1>9
<1>16. f \in Pass /\ f.owed = {} /\ f.done = {} /\ f.left = {} /\ f.batch = <<>>
  <2>1. f = Idle \/ f = [Idle EXCEPT !.at = "list"]
    BY DEF AfterFlush
  <2>2. ASSUME NEW i \in Pass
        PROVE  LET j == [i EXCEPT !.at = "list"]
               IN  /\ j \in Pass /\ j.owed = i.owed /\ j.done = i.done /\ j.left = i.left
                   /\ j.batch = i.batch
    BY DEF Pass
  <2>3. Idle.owed = {} /\ Idle.done = {} /\ Idle.left = {} /\ Idle.batch = <<>>
    BY DEF Idle
  <2> HIDE DEF f
  <2> QED
    BY <2>1, <2>2, <2>3, IdleIsPass
<1> HIDE DEF f, s
<1>17. mem' = n /\ disk' = s.disk /\ age' \in [Ids -> Age] /\ s \in Stores
  <2>1. s \in Stores
    BY <1>14 DEF Good
  <2> QED
    BY <1>14, <1>15, <2>1, BecomesFields
<1>18. \A q \in Passes : pass'[q] = IF q = p THEN f ELSE Detached(q)
  BY <1>15
<1>19. pass' \in [Passes -> Pass]
  <2>1. \A q \in Passes : Detached(q) \in Pass
    BY <1>2, DetachedFields
  <2>2. \A q \in Passes : pass'[q] \in Pass
    BY <1>16, <1>18, <2>1
  <2> QED
    BY <1>15, <2>2
<1>20. \A x : Settled(x) => Settled(x)'
  <2>1. SUFFICES ASSUME NEW x, Settled(x)
                 PROVE  x \in OwedIn(n) \/ x \in recv' \/ \E a \in forgotten' : a[1] = x
    <3>1. Holds(mem)' = Holds(n) /\ OwedIn(mem)' = OwedIn(n)
      BY <1>17, NextParts
    <3> QED
      BY <1>10, <1>11, <1>17, <3>1 DEF Settled
  <2>2. CASE x \in OwedIn(mem)
    <3>1. PICK a \in mem.acks : a[1] = x
      BY <2>2 DEF OwedIn
    <3> QED
      BY <1>1, <1>8, <1>10, <3>1 DEF OwedIn
  <2>3. CASE x \in recv \/ \E a \in forgotten : a[1] = x
    BY <1>1, <1>5, <2>3
  <2> QED
    BY <2>1, <2>2, <2>3 DEF Settled
<1>21. \A q \in Passes : FlushOK(q)' /\ BatchOK(q)'
  <2>1. SUFFICES ASSUME NEW q \in Passes
                 PROVE  FlushOK(q)' /\ BatchOK(q)'
    OBVIOUS
  <2>2. /\ pass'[q].owed \subseteq pass[q].owed \cup mem.acks
        /\ \/ pass'[q].done = pass[q].done /\ pass'[q].left = pass[q].left
           \/ pass'[q].done = {} /\ pass'[q].left = {}
        /\ pass'[q].batch = pass[q].batch \/ pass'[q].batch = <<>>
    BY <1>2, <1>16, <1>18, DetachedFields
  <2>3. FlushOK(q)'
    BY <1>5, <1>20, <2>2, FlushStays
  <2>4. BatchOK(q)'
    BY <1>10, <1>17, <1>20, <2>2, BatchSame
  <2> QED
    BY <2>3, <2>4
<1>22. Good(Now)'
  <2>1. Good(s) /\ mem' = s.mem
    BY <1>14, <1>17
  <2> QED
    BY <1>5, <1>17, <2>1, GoodNext
<1>23. TypeOK' /\ ForcedOnce'
  <2>1. (Now \in Stores)'
    BY <1>22 DEF Good
  <2>2. forcedTries' \in [Ids -> 0..2] /\ ForcedOnce'
    BY <1>2, <1>5 DEF TypeOK, ForcedOnce, SidecarInv
  <2> QED
    BY <1>5, <1>19, <2>1, <2>2, TypePartsNext
<1>24. DiskOK'
  <2>1. WakesSaved(Now) /\ consumed \subseteq mem.seen \cup wiped /\ DiskOK
    BY DEF SidecarInv, DiskOK
  <2>2. WakesSaved(s)
    <3>1. WakesSaved(u)
      BY <1>10, <1>12, <2>1, NowFields DEF WakesSaved
    <3> QED
      BY <1>14, <3>1
  <2>3. WakesSaved(Now)'
    BY <1>14, <1>17, <2>2 DEF WakesSaved, Now
  <2>4. (consumed \subseteq mem.seen \cup wiped)'
    BY <1>5, <1>10, <1>17, <2>1
  <2>5. "disk" \in faults' \/ s.disk = Written(n)
    BY <1>2, <1>5, <1>14, <2>1 DEF DiskOK, InStep
  <2>6. Written(mem)' = Written(n)
    BY <1>17 DEF Written, PendingIn
  <2>7. ("disk" \in faults \/ InStep(Now))'
    BY <1>17, <2>5, <2>6, NowFields DEF InStep
  <2>8. (full => "disk" \in faults)'
    BY <1>5, <2>1 DEF DiskOK
  <2> QED
    BY <2>3, <2>4, <2>7, <2>8 DEF DiskOK
<1>25. SidecarInv'
  BY <1>21, <1>22, <1>23, <1>24 DEF SidecarInv
<1> QED
  BY <1>1, <1>7, <1>8, <1>10, <1>17, <1>25 DEF left

(* The process is killed: what is on disk is taken up again.               *)
(* s is what the file holds when the process is killed, and what the       *)
(* process then knew.                                                      *)
LEMMA KillKeeps ==
  ASSUME SidecarInv, NEW s, Good(s), "disk" \in faults \/ InStep(s) \/ s.disk = Empty,
         mem.seen \subseteq s.mem.seen, WakesSaved(s),
         NEW fault \in {"crash", "torn", "cut"}, NEW lost \in SUBSET Receipt, Killed(s, fault, lost)
  PROVE  /\ SidecarInv' /\ mem' = s.disk /\ disk' = s.disk
         /\ forgotten' = forgotten \cup lost /\ recv' = recv /\ faults' = faults \cup {fault}
         /\ fault \notin faults
<1> DEFINE u == [s EXCEPT !.mem = s.disk]
           w == IF s.disk = Empty THEN s.mem.seen ELSE {}
<1>1. /\ fault \notin faults
      /\ faults' = faults \cup {fault}
      /\ life' = "down" /\ Becomes(u) /\ pass' = [p \in Passes |-> Idle]
      /\ draining' = FALSE /\ fetch' = FALSE /\ forgotten' = forgotten \cup lost
      /\ wiped' = wiped \cup w
      /\ UNCHANGED <<server, files, full, cuts, forcedTries, consumed, bound>>
  BY DEF Killed
<1>2. TypeOK /\ RestOK /\ DiskOK
  BY InvFacts DEF SidecarInv
<1>3. s \in Stores /\ Queue(s.disk) /\ Behind(s) /\ s.disk \in State /\ s.mem \in State
  BY DEF Good, Queue
<1>4. u \in Stores /\ u.mem = s.disk /\ u.disk = s.disk
  BY <1>3 DEF Stores
<1> HIDE DEF u
<1>5. w \subseteq Ids /\ wiped \subseteq wiped'
  BY <1>1, <1>3 DEF State
<1>6. mem' = s.disk /\ disk' = s.disk /\ age' \in [Ids -> Age]
  BY <1>1, <1>4, BecomesFields
<1>7. Good(Now)'
  <2>1. (Now \in Stores)'
    BY <1>3, <1>6 DEF Now, Stores
  <2>2. Queue(mem)' /\ Queue(disk)'
    BY <1>1, <1>3, <1>5, <1>6, QueueNext
  <2>3. Written(disk)' = Written(s.disk) /\ s.disk = Written(s.disk)
    BY <1>3, <1>6 DEF Behind, Written, PendingIn
  <2>4. \A x \in Ids : NotTried(x)' \/ x \in s.disk.seen
    <3>1. SUFFICES ASSUME NEW x \in Ids, x \notin s.disk.seen
                   PROVE  NotTried(x)'
      OBVIOUS
    <3>2. NotTried(x) \/ (x \in s.mem.seen /\ s.disk = Empty)
      BY <1>3, <3>1 DEF Behind
    <3>3. NotTried(x) \/ x \in w
      BY <3>2
    <3> QED
      BY <1>1, <3>3 DEF NotTried
  <2>5. Behind(Now)'
    <3>1. Holds(mem)' = Holds(disk)'
      BY <1>6 DEF Holds, Sources, PendingIn
    <3>2. disk' = Written(disk)'
      BY <1>6, <2>3
    <3> QED
      BY <1>6, <2>4, <3>1, <3>2, NowFields DEF Behind
  <2> QED
    BY <2>1, <2>2, <2>5, NowFields DEF Good
<1>8. RestOK' /\ recv' = recv
  BY <1>1, <1>2, <1>5 DEF RestOK, server
<1>9. TypeOK' /\ ForcedOnce'
  <2>1. (Now \in Stores)'
    BY <1>7 DEF Good
  <2>2. pass' \in [Passes -> Pass]
    BY <1>1, IdleIsPass
  <2>3. forcedTries' \in [Ids -> 0..2] /\ ForcedOnce'
    BY <1>1, <1>2, <1>5 DEF TypeOK, ForcedOnce, SidecarInv
  <2> QED
    BY <1>8, <2>1, <2>2, <2>3, TypePartsNext
<1>10. DiskOK'
  <2>1. WakesSaved(Now)'
    BY <1>6 DEF WakesSaved, Now
  <2>2. (consumed \subseteq mem.seen \cup wiped)'
    <3>1. consumed \subseteq Wakes /\ consumed \subseteq s.mem.seen \cup wiped
      BY <1>2 DEF DiskOK, RestOK
    <3>2. CASE s.disk = Empty
      BY <1>1, <3>1, <3>2
    <3>3. CASE s.disk # Empty
      <4>1. s.mem.seen \cap Wakes \subseteq s.disk.seen
        BY <3>3 DEF WakesSaved
      <4> QED
        BY <1>1, <1>5, <1>6, <3>1, <4>1
    <3> QED
      BY <3>2, <3>3
  <2>3. (full => "disk" \in faults)'
    BY <1>1, <1>2 DEF DiskOK
  <2>4. Written(mem)' = Written(s.disk) /\ s.disk = Written(s.disk)
    BY <1>3, <1>6 DEF Behind, Written, PendingIn
  <2>5. InStep(Now)'
    BY <1>6, <2>4, NowFields DEF InStep
  <2> QED
    BY <2>1, <2>2, <2>3, <2>5 DEF DiskOK
<1>11. ASSUME NEW q \in Passes
       PROVE  FlushOK(q)' /\ BatchOK(q)'
  <2>1. pass'[q] = Idle
    BY <1>1
  <2>2. pass'[q].owed = {} /\ pass'[q].done = {} /\ pass'[q].left = {} /\ pass'[q].batch = <<>>
    BY <2>1 DEF Idle
  <2>3. FlushOK(q)'
    BY <2>2 DEF FlushOK
  <2>4. BatchOK(q)'
    BY <2>2, EmptyRange DEF BatchOK
  <2> QED
    BY <2>3, <2>4
<1>12. SidecarInv'
  BY <1>7, <1>9, <1>10, <1>11 DEF SidecarInv
<1> QED
  BY <1>1, <1>6, <1>8, <1>12

(* A kill between two saves drops receipts: only of messages that were     *)
(* held, or whose receipts were owed before.                               *)
TearsOff(F) ==
  /\ Carries(mem, mem', F) /\ F \subseteq Holds(mem)
  /\ \A d \in F : \E r \in forgotten' : r[1] = d
  /\ forgotten \subseteq forgotten'
  /\ \A r \in forgotten' : r \in forgotten \/ r[1] \in Holds(mem) \/ Settled(r[1])
  /\ recv' = recv /\ faults' = faults \cup {"torn"} /\ "torn" \notin faults
  /\ disk' = mem'

LEMMA WrittenCarries ==
  ASSUME NEW m, NEW n, Queue(n), NEW F, Carries(m, n, F)
  PROVE  Carries(m, Written(n), F)
<1>1. Holds(Written(n)) = Holds(n) /\ OwedIn(Written(n)) = OwedIn(n) /\ Written(n).seen = n.seen
  BY WrittenQueue, WrittenFields DEF Queue
<1> QED
  BY <1>1 DEF Carries

LEMMA TornKeeps ==
  ASSUME SidecarInv, NEW s, Good(s), InStep(s), NEW F, Carries(mem, s.mem, F), F \subseteq Holds(mem),
         NEW lost \in SUBSET Receipt, \A d \in F : \E r \in lost : r[1] = d,
         \A r \in lost : r[1] \in Holds(mem) \/ Settled(r[1]),
         Killed(s, "torn", lost)
  PROVE  SidecarInv' /\ \E G : TearsOff(G)
<1>1. mem.seen \subseteq s.mem.seen /\ WakesSaved(s)
  <2>1. s.disk.seen = s.mem.seen
    BY WrittenFields DEF InStep, Good, Stores
  <2> QED
    BY <2>1 DEF Carries, WakesSaved
<1>2. /\ SidecarInv' /\ mem' = s.disk /\ disk' = s.disk
      /\ forgotten' = forgotten \cup lost /\ recv' = recv /\ faults' = faults \cup {"torn"}
      /\ "torn" \notin faults
  BY <1>1, KillKeeps
<1>3. Carries(mem, mem', F)
  <2> DEFINE n == s.mem
  <2>1. Queue(n) /\ Carries(mem, n, F) /\ mem' = Written(n)
    BY <1>2 DEF Good, InStep
  <2> HIDE DEF n
  <2> QED
    BY <2>1, WrittenCarries
<1>4. TearsOff(F)
  BY <1>2, <1>3 DEF TearsOff
<1> QED
  BY <1>2, <1>4


LEMMA SendKeyKilledKeeps ==
  ASSUME SidecarInv, NEW p \in Passes, SendKeyKilled(p)
  PROVE  SidecarInv' /\ \E G : TearsOff(G)
<1> DEFINE items == Range(pass[p].batch)
           E == items \cap PendingIn(mem)
           F == UNION {Sources(mem, i) : i \in E \cap DMs}
           q == Kept(mem.pending, Ids \ items)
           n == [mem EXCEPT !.pending = q]
           u == [Now EXCEPT !.mem = n]
           s == Saved(u)
           lost == ReceiptsFor(mem, items, "delivered")
<1>1. ~full /\ Killed(Saved(Without(Now, items)), "torn", lost)
  BY DEF SendKeyKilled
<1>2. Without(Now, items) = u
  BY DEF Without, Now
<1>3. mem \in State /\ Queue(mem) /\ Now \in Stores /\ full \in BOOLEAN /\ Good(Now)
  BY InvFacts, TypeParts DEF SidecarInv
<1>4. /\ mem.pending \in Seq(Ids) /\ PendingIn(mem) = Range(mem.pending) /\ IsInjective(mem.pending)
      /\ PendingIn(mem) \subseteq Ids
  BY <1>3, PendingAreIds DEF PendingIn, Queue
<1>5. /\ q \in Seq(Ids) /\ Range(q) = Range(mem.pending) \cap (Ids \ items)
      /\ Follows(mem.pending, q) /\ FirstStays(mem.pending, q)
  BY <1>4, KeptMembers, KeptFollows
<1> HIDE DEF q
<1>6. /\ n \in State /\ n.seen = mem.seen /\ n.entry = mem.entry /\ n.pending = q
      /\ n.acks = mem.acks
  BY <1>3, <1>5 DEF State
<1> HIDE DEF n
<1>7. PendingIn(n) = PendingIn(mem) \ ({} \cup E)
  BY <1>4, <1>5, <1>6 DEF PendingIn
<1>8. Queue(n) /\ Carries(mem, n, F)
  <2> DEFINE none == {}
             h == 0
  <2>1. none = {}
    OBVIOUS
  <2>2. OwedIn(n) = OwedIn(mem) \cup UNION {Sources(mem, i) : i \in (E \ E) \cap DMs}
    BY <1>6 DEF OwedIn
  <2>3. n.seen = mem.seen /\ PendingIn(n) = PendingIn(mem) \ (none \cup E)
        /\ E \subseteq PendingIn(mem) /\ n.entry = mem.entry /\ n.pending = q
    BY <1>6, <1>7
  <2> HIDE DEF none, h, E
  <2>4. Prunes(mem, n, E, none, none, none, h, E)
    BY <1>5, <2>1, <2>2, <2>3 DEF Prunes
  <2> QED
    BY <1>3, <1>6, <2>4, PrunedQueue
<1>9. u \in Stores /\ u.mem = n /\ u.disk = disk
  BY <1>3, <1>6, NowFields DEF Stores
<1> HIDE DEF u
<1>10. Good(u)
  <2> DEFINE r == Now
  <2>1. Good(r) /\ u.disk = r.disk /\ r.mem = mem
    BY <1>3, <1>9, NowFields
  <2> HIDE DEF r, F
  <2>2. Queue(u.mem) /\ Carries(r.mem, u.mem, F)
    BY <1>8, <1>9, <2>1
  <2> QED
    BY <1>9, <2>1, <2>2, GoodByMem
<1>11. Good(s) /\ s.mem = n /\ InStep(s)
  BY <1>1, <1>3, <1>9, <1>10, SavedGood
<1>12. {r[1] : r \in lost} = UNION {Sources(mem, i) : i \in items \cap DMs} /\ lost \in SUBSET Receipt
  BY <1>3, ReceiptsFrom, ReceiptsAreReceipts
<1>13. F \subseteq Holds(mem)
  <2>1. SUFFICES ASSUME NEW i \in PendingIn(mem), i \in DMs, NEW d \in Sources(mem, i)
                 PROVE  d \in Holds(mem)
    OBVIOUS
  <2>2. d \in DMs
    <3>1. i \in Ids
      BY <1>4
    <3>2. Sources(mem, i) \subseteq DMs
      BY <1>3, <2>1, <3>1, SourcesAreIds
    <3> QED
      BY <3>2
  <2> QED
    BY <2>1, <2>2 DEF Holds
<1>14. \A d \in F : \E r \in lost : r[1] = d
  <2>1. F \subseteq {r[1] : r \in lost}
    BY <1>12
  <2> HIDE DEF F, lost
  <2> QED
    BY <2>1
<1>15. \A r \in lost : r[1] \in Holds(mem) \/ Settled(r[1])
  <2>1. ASSUME NEW i \in items, i \in DMs, NEW d \in Sources(mem, i)
        PROVE  d \in Holds(mem) \/ Settled(d)
    <3>1. CASE i \in PendingIn(mem)
      BY <1>13, <2>1, <3>1
    <3>2. CASE i \notin PendingIn(mem)
      BY <2>1, <3>2 DEF SidecarInv, BatchOK
    <3> QED
      BY <3>1, <3>2
  <2>2. \A d \in {r[1] : r \in lost} : d \in Holds(mem) \/ Settled(d)
    BY <1>12, <2>1
  <2> HIDE DEF lost
  <2> QED
    BY <2>2
<1>16. Killed(s, "torn", lost)
  BY <1>1, <1>2
<1> HIDE DEF s, lost, F
<1>17. Carries(mem, s.mem, F)
  BY <1>8, <1>11
<1> QED
  BY <1>11, <1>12, <1>13, <1>14, <1>15, <1>16, <1>17, TornKeeps

LEMMA PruneKilledKeeps ==
  ASSUME SidecarInv, NEW p \in Passes, NEW canForce \in BOOLEAN, NEW busy \in BOOLEAN,
         NEW hold \in BOOLEAN, PruneKilled(p, canForce, busy, hold)
  PROVE  SidecarInv' /\ \E G : TearsOff(G)
<1> DEFINE s == IF canForce /\ ~busy /\ hold THEN MarkHeld(Now, TRUE) ELSE Now
           expired == (Expiring(s) \ Forcible(s, canForce, busy)) \cap DMs
           due == Kept(s.mem.pending, expired)
<1>1. ~full /\ \E n \in 1..Len(due) - 1 :
        LET unsaved == Range(SubSeq(due, n + 1, Len(due)))
        IN  Killed(PruneUpTo(s, canForce, busy, unsaved), "torn",
                   ReceiptsFor(s.mem, unsaved, "expired"))
  BY DEF PruneKilled
<1>2. PICK n \in 1..Len(due) - 1 :
        Killed(PruneUpTo(s, canForce, busy, Range(SubSeq(due, n + 1, Len(due)))), "torn",
               ReceiptsFor(s.mem, Range(SubSeq(due, n + 1, Len(due))), "expired"))
  BY <1>1
<1> DEFINE unsaved == Range(SubSeq(due, n + 1, Len(due)))
           t == PruneUpTo(s, canForce, busy, unsaved)
           lost == ReceiptsFor(s.mem, unsaved, "expired")
           F == StoodFor(s.mem, unsaved)
<1>3. Killed(t, "torn", lost)
  BY <1>2
<1>4. Turns(s) /\ s.mem.seen = mem.seen
  <2>1. Turns(Now) /\ Now.mem = mem /\ full \in BOOLEAN
    BY NowTurns, NowFields, InvFacts
  <2>2. Turns(MarkHeld(Now, TRUE))
    BY <2>1, HeldTurns
  <2>3. MarkHeld(Now, TRUE).mem.seen = mem.seen
    <3> DEFINE r == Now
    <3>1. Good(r) /\ full \in BOOLEAN /\ TRUE \in BOOLEAN /\ r.mem = mem
      BY <2>1 DEF Turns
    <3> HIDE DEF r
    <3>2. MarkHeld(r, TRUE).mem.seen = mem.seen
      BY <3>1, MarkHeldGood
    <3> QED
      BY <3>2 DEF r
  <2> QED
    BY <2>1, <2>2, <2>3
<1> HIDE DEF s
<1>5. Good(s) /\ s.mem \in State /\ Queue(s.mem) /\ Carries(mem, s.mem, {}) /\ full \in BOOLEAN
  BY <1>4, InvFacts DEF Turns, Good, Queue
<1>6. s.mem.pending \in Seq(Ids) /\ PendingIn(s.mem) = Range(s.mem.pending)
      /\ PendingIn(s.mem) \subseteq Ids
  BY <1>5, PendingAreIds DEF PendingIn
<1>7. due \in Seq(Ids) /\ Range(due) = Range(s.mem.pending) \cap expired
  BY <1>6, KeptMembers
<1> HIDE DEF due
<1>8. Len(due) \in Nat /\ n \in Nat /\ n + 1 \in 1..Len(due)
  BY <1>7
<1>9. SubSeq(due, n + 1, Len(due)) \in Seq(Ids) /\ unsaved \subseteq Range(due)
  <2> DEFINE r == SubSeq(due, n + 1, Len(due))
  <2>1. r \in Seq(Ids) /\ Len(r) = Len(due) - n /\ \A i \in 1..Len(r) : r[i] = due[n + i]
    BY <1>7, <1>8
  <2> HIDE DEF r
  <2>2. Range(r) = {r[i] : i \in 1..Len(r)} /\ Range(due) = {due[i] : i \in 1..Len(due)}
    BY <1>7, <2>1, RangeIsPlaces
  <2>3. \A i \in 1..Len(r) : n + i \in 1..Len(due)
    BY <1>8, <2>1
  <2>4. Range(r) \subseteq Range(due)
    BY <2>1, <2>2, <2>3
  <2> QED
    BY <2>1, <2>4 DEF r
<1>10. Expiring(s) # {} /\ unsaved \subseteq PendingIn(s.mem) \cap DMs
  <2>1. unsaved \subseteq expired /\ unsaved \subseteq PendingIn(s.mem)
    BY <1>6, <1>7, <1>9
  <2>2. Range(due) # {}
    <3>1. due # <<>>
      BY <1>7, <1>8
    <3>2. Range(due) = {due[i] : i \in 1..Len(due)}
      BY <1>7, RangeIsPlaces
    <3> QED
      BY <1>8, <3>2
  <2> QED
    BY <1>7, <2>1, <2>2
<1> HIDE DEF unsaved
<1>11. Good(t) /\ Carries(s.mem, t.mem, F) /\ InStep(t)
  BY <1>1, <1>5, <1>10, PrunedGood
<1> HIDE DEF t
<1>12. Carries(mem, t.mem, F)
  <2> DEFINE a == s.mem
             b == t.mem
  <2>1. Carries(mem, a, {}) /\ Carries(a, b, F)
    BY <1>5, <1>11
  <2> HIDE DEF a, b, F
  <2>2. Carries(mem, b, F)
    BY <2>1, CarriesOn
  <2> QED
    BY <2>2 DEF b
<1>13. F \subseteq Holds(mem)
  <2>1. SUFFICES ASSUME NEW i \in unsaved, i \in DMs, NEW d \in Sources(s.mem, i)
                 PROVE  d \in Holds(mem)
    BY DEF StoodFor
  <2>2. d \in DMs
    BY <1>5, <1>6, <1>10, SourcesAreIds
  <2>3. d \in Holds(s.mem)
    BY <1>10, <2>1, <2>2 DEF Holds
  <2> QED
    BY <1>4, <1>5, <2>3 DEF Carries
<1>14. {r[1] : r \in lost} = F /\ lost \in SUBSET Receipt
  BY <1>5, ReceiptsFrom, ReceiptsAreReceipts DEF StoodFor
<1> HIDE DEF F, lost
<1>15. (\A d \in F : \E r \in lost : r[1] = d) /\ \A r \in lost : r[1] \in Holds(mem)
  BY <1>13, <1>14
<1> QED
  BY <1>3, <1>11, <1>12, <1>13, <1>14, <1>15, TornKeeps

-----------------------------------------------------------------------------
(* The invariant holds of every state.                                     *)
LEMMA InitKeeps ==
  ASSUME Init
  PROVE  SidecarInv
<1>1. mem = Empty /\ disk = Empty /\ age = [i \in Ids |-> "fresh"] /\ forcedTries = [i \in Ids |-> 0]
  BY DEF Init
<1>2. Queue(Empty)
  BY EmptyQueue
<1>3. Now \in Stores
  BY <1>1, EmptyFields DEF Now, Stores, Age
<1>4. Good(Now)
  <2>1. Behind(Now)
    BY <1>1, EmptyFields, EmptyWritten, NowFields DEF Behind, NotTried
  <2> QED
    BY <1>1, <1>2, <1>3, <2>1, NowFields DEF Good
<1>5. TypeOK /\ ForcedOnce
  <2>1. RestOK /\ pass \in [Passes -> Pass] /\ forcedTries \in [Ids -> 0..2]
    <3>1. pass \in [Passes -> Pass] /\ forcedTries \in [Ids -> 0..2]
      BY <1>1, IdleIsPass DEF Init
    <3>2. draining = FALSE /\ fetch = FALSE /\ full = FALSE /\ cuts = FALSE
      BY DEF Init
    <3>3. draining \in BOOLEAN /\ fetch \in BOOLEAN /\ full \in BOOLEAN /\ cuts \in BOOLEAN
      BY <3>2
    <3>4. log \in Seq(Posts) /\ inbox \in Seq(DMs)
      BY DEF Init
    <3>5. /\ life \in {"down", "starting", "up"} /\ sent = {} /\ recv = {} /\ files = {}
          /\ faults = {} /\ forgotten = {} /\ consumed = {} /\ wiped = {}
      BY DEF Init
    <3> QED
      BY <3>1, <3>3, <3>4, <3>5 DEF RestOK
  <2> QED
    BY <1>1, <1>3, <2>1, TypeParts DEF ForcedOnce
<1>6. DiskOK
  <2>1. Written(Empty) = Empty
    BY EmptyWritten
  <2>2. full = FALSE /\ consumed = {}
    BY DEF Init
  <2> QED
    BY <1>1, <2>1, <2>2, EmptyFields, NowFields DEF DiskOK, WakesSaved, InStep
<1>7. ASSUME NEW q \in Passes
      PROVE  FlushOK(q) /\ BatchOK(q)
  <2>1. pass[q] = Idle
    BY DEF Init
  <2>2. pass[q].owed = {} /\ pass[q].done = {} /\ pass[q].left = {} /\ pass[q].batch = <<>>
    BY <2>1 DEF Idle
  <2> QED
    BY <2>2, EmptyRange DEF FlushOK, BatchOK
<1> QED
  BY <1>4, <1>5, <1>6, <1>7 DEF SidecarInv

LEMMA CrashKeeps ==
  ASSUME SidecarInv, Crash
  PROVE  SidecarInv' /\ mem' = disk /\ disk' = disk /\ forgotten' = forgotten /\ recv' = recv
         /\ faults' = faults \cup {"crash"}
<1> DEFINE s == Now
           none == {}
<1>1. /\ Good(s) /\ ("disk" \in faults \/ InStep(s) \/ s.disk = Empty) /\ s.disk = disk
      /\ WakesSaved(s) /\ mem.seen \subseteq s.mem.seen
  BY NowFields DEF SidecarInv, DiskOK
<1>2. Killed(s, "crash", none) /\ none \in SUBSET Receipt
  BY DEF Crash
<1>3. forgotten \cup none = forgotten
  OBVIOUS
<1> HIDE DEF s, none
<1> QED
  BY <1>1, <1>2, <1>3, KillKeeps

(* The file is open and empty.                                             *)
LEMMA KilledInSaveKeeps ==
  ASSUME SidecarInv, KilledInSave
  PROVE  SidecarInv' /\ mem' = Empty /\ disk' = Empty /\ forgotten' = forgotten /\ recv' = recv
         /\ faults' = faults \cup {"cut"} /\ "cut" \notin faults
<1> DEFINE n == Now
           s == [n EXCEPT !.disk = Empty]
           none == {}
<1>1. Good(n) /\ n.mem = mem
  BY NowFields DEF SidecarInv
<1>2. Killed(s, "cut", none) /\ none \in SUBSET Receipt
  BY DEF KilledInSave
<1>3. forgotten \cup none = forgotten
  OBVIOUS
<1> HIDE DEF n, none
<1>4. s \in Stores /\ s.mem = mem /\ s.disk = Empty
  BY <1>1, EmptyFields DEF Good, Stores
<1> HIDE DEF s
<1>5. Behind(s)
  <2>1. \A x \in Ids : NotTried(x) \/ x \in mem.seen
    BY <1>1 DEF Good, Behind
  <2> QED
    BY <1>4, <2>1, EmptyFields, EmptyWritten DEF Behind
<1>6. Good(s)
  BY <1>1, <1>4, <1>5, EmptyQueue DEF Good
<1>7. WakesSaved(s) /\ mem.seen \subseteq s.mem.seen
  BY <1>4 DEF WakesSaved
<1> QED
  BY <1>2, <1>3, <1>4, <1>6, <1>7, KillKeeps

LEMMA StutterTurns ==
  ASSUME SidecarInv, UNCHANGED vars
  PROVE  Turn
<1>1. UNCHANGED <<mem, disk, age, pass, draining, life, fetch, log, sent,
          inbox, recv, files, full, cuts, faults, forcedTries, forgotten, consumed, wiped, bound>>
  BY DEF vars
<1>2. TypeOK /\ RestOK /\ age \in [Ids -> Age]
  BY InvFacts DEF TypeOK
<1>3. RestOK' /\ UNCHANGED <<recv, ghosts>>
  BY <1>1, <1>2 DEF RestOK, ghosts
<1> QED
  BY <1>1, <1>2, <1>3, PassesStay, StillTurn

(* The steps are turns, answers to receipts, or kills.                     *)
Answer ==
  \E p \in Passes, r \in Receipt, arrived \in BOOLEAN, ok \in BOOLEAN :
    AckAnswered(p, r, arrived, ok)

TornKill ==
  \/ \E p \in Passes : SendKeyKilled(p)
  \/ \E p \in Passes, canForce \in BOOLEAN, busy \in BOOLEAN, hold \in BOOLEAN :
       PruneKilled(p, canForce, busy, hold)

LEMMA StepsAre ==
  ASSUME SidecarInv, [Next]_vars
  PROVE  Turn \/ Answer \/ TornKill \/ Crash \/ KilledInSave
<1>1. ASSUME NEW p \in Passes, Delivers(p)
      PROVE  Turn \/ Answer
  BY <1>1, DeliverTurns, ListWindowsTurns, ReadFailsTurns, ReadScreenTurns, SendTextTurns,
     InjectFailsTurns, SendKeyTurns DEF Delivers, Answer
<1>2. ASSUME NEW ok \in BOOLEAN, FirstPoll(ok) \/ FetchPending(ok)
      PROVE  Turn
  BY <1>2, FirstPollTurns, FetchPendingTurns
<1>3. (PollHistory \/ (\E g \in Posts : Post(g)) \/ (\E d \in DMs : Chat(d)) \/ TimePasses) => Turn
  BY PollHistoryTurns, PostTurns, ChatTurns, TimePassesTurns
<1>4. ((\E w \in Wakes : LeaveWake(w)) \/ Start \/ ServerRestarts \/ DiskFills \/ DiskFrees) => Turn
  BY OthersTurn
<1>5. (\E p \in Passes : \/ SendKeyKilled(p)
                         \/ \E canForce, busy, hold \in BOOLEAN :
                              PruneKilled(p, canForce, busy, hold)) => TornKill
  BY DEF TornKill
<1>6. UNCHANGED vars => Turn
  BY StutterTurns
<1> QED
  BY <1>1, <1>2, <1>3, <1>4, <1>5, <1>6 DEF Next

LEMMA AnswerKeeps ==
  ASSUME SidecarInv, Answer
  PROVE  SidecarInv'
<1>1. PICK p \in Passes, r \in Receipt, arrived \in BOOLEAN, ok \in BOOLEAN :
        AckAnswered(p, r, arrived, ok)
  BY DEF Answer
<1>2. CASE Owed(p) \subseteq pass[p].done \cup {r}
  BY <1>1, <1>2, AckEnds
<1>3. CASE ~(Owed(p) \subseteq pass[p].done \cup {r})
  BY <1>1, <1>3, AckGoesOn
<1> QED
  BY <1>2, <1>3

LEMMA TornKillTears ==
  ASSUME SidecarInv, TornKill
  PROVE  SidecarInv' /\ \E G : TearsOff(G)
BY SendKeyKilledKeeps, PruneKilledKeeps DEF TornKill

LEMMA NextKeeps ==
  ASSUME SidecarInv, [Next]_vars
  PROVE  SidecarInv'
BY StepsAre, TurnKeepsInv, AnswerKeeps, TornKillTears, CrashKeeps, KilledInSaveKeeps

LEMMA SidecarHolds == Spec => []SidecarInv
<1>1. Init => SidecarInv
  BY InitKeeps
<1>2. SidecarInv /\ [Next]_vars => SidecarInv'
  BY NextKeeps
<1> QED
  BY <1>1, <1>2, PTL DEF Spec

(* The queue, its copy on disk, the passes and the receipts are what they  *)
(* should be, whatever passes overlap, merge, push out, expire or crash.   *)
THEOREM SidecarTypes == Spec => []TypeOK
<1>1. SidecarInv => TypeOK
  BY DEF SidecarInv
<1> QED
  BY <1>1, SidecarHolds, PTL

(* A forced attempt at an item is made once (planDelivery and              *)
(* _markForcedTried in sidecar.js), over crashes, restarts, full disks and *)
(* passes that overlap.  The one way out is disclosed in the property: a   *)
(* process that knew of the item has ended when the file was empty, after  *)
(* a save that failed or was killed in the middle (_saveState).            *)
THEOREM ForcedAttemptsAreSingle == Spec => []ForcedOnce
<1>1. SidecarInv => ForcedOnce
  BY DEF SidecarInv
<1> QED
  BY <1>1, SidecarHolds, PTL

(* A wake file is removed only when its key has been saved (ingestWakeDir  *)
(* in sidecar.js), and its key then stays known: neither a plain crash nor *)
(* a save that fails before the file is opened loses it, and one that      *)
(* empties the file does only when the process ends before it could save   *)
(* again, taking everything else it knew with it.                          *)
THEOREM WakesAreKept == Spec => []WakesSurvive
<1>1. SidecarInv => WakesSurvive
  <2>1. SUFFICES ASSUME SidecarInv
                 PROVE  WakesSurvive
    OBVIOUS
  <2>2. consumed \subseteq Wakes
    BY <2>1, InvFacts DEF RestOK
  <2>3. consumed \subseteq mem.seen \cup wiped /\ WakesSaved(Now)
    BY <2>1 DEF SidecarInv, DiskOK
  <2> QED
    BY <2>2, <2>3, NowFields DEF WakesSaved, WakesSurvive
<1> QED
  BY <1>1, SidecarHolds, PTL

-----------------------------------------------------------------------------
(* The sidecar keeps its promise, DirectMessages, step by step.            *)
LEMMA PlaceIs ==
  ASSUME NEW d \in DMs
  PROVE  Place(d) = IF d \in recv THEN "answered"
                    ELSE IF d \in OwedIn(mem) THEN "owed"
                    ELSE IF d \in Holds(mem) THEN "held"
                    ELSE IF d \in mem.seen /\ (\E r \in forgotten : r[1] = d) THEN "lost" ELSE "away"
<1>1. d \in OwedIn(mem) <=> Owes(mem.acks, d)
  BY DEF OwedIn, Owes
<1>2. d \in Holds(mem) <=> \E i \in PendingIn(mem) : d \in Sources(mem, i)
  BY DEF Holds
<1>3. (\E r \in forgotten : r[1] = d) <=> Owes(forgotten, d)
  BY DEF Owes
<1> QED
  BY <1>1, <1>2, <1>3 DEF Place

LEMMA PlaceNext ==
  ASSUME NEW d \in DMs
  PROVE  Place(d)' = IF d \in recv' THEN "answered"
                     ELSE IF d \in OwedIn(mem') THEN "owed"
                     ELSE IF d \in Holds(mem') THEN "held"
                     ELSE IF d \in mem'.seen /\ (\E r \in forgotten' : r[1] = d) THEN "lost" ELSE "away"
<1>1. d \in OwedIn(mem') <=> Owes(mem'.acks, d)
  BY DEF OwedIn, Owes
<1>2. d \in Holds(mem') <=> \E i \in PendingIn(mem') : d \in Sources(mem', i)
  BY DEF Holds
<1>3. (\E r \in forgotten' : r[1] = d) <=> Owes(forgotten', d)
  BY DEF Owes
<1>4. (\E i \in PendingIn(mem) : d \in Sources(mem, i))' <=> \E i \in PendingIn(mem') : d \in Sources(mem', i)
  BY DEF PendingIn, Sources
<1>5. Owes(mem.acks, d)' <=> Owes(mem'.acks, d)
  BY DEF Owes
<1>6. Owes(forgotten, d)' <=> Owes(forgotten', d)
  BY DEF Owes
<1> QED
  BY <1>1, <1>2, <1>3, <1>4, <1>5, <1>6 DEF Place

(* A step that carries the messages over, save for those in F, whose       *)
(* receipts it drops.                                                      *)
LEMMA CarriedMoves ==
  ASSUME NEW F, Carries(mem, mem', F), F \subseteq Holds(mem), Holds(mem) \subseteq mem.seen,
         \A d \in F : \E r \in forgotten' : r[1] = d,
         \A r \in forgotten' : r \in forgotten \/ r[1] \in Holds(mem) \/ Settled(r[1]),
         forgotten \subseteq forgotten', recv' = recv, NEW d \in DMs
  PROVE  \/ Place(d)' = Place(d)
         \/ <<Place(d), Place(d)'>> \in Messages!Ways
         \/ d \in F /\ <<Place(d), Place(d)'>> = <<"held", "lost">>
<1> DEFINE n == mem'
           dropped  == \E r \in forgotten : r[1] = d
           droppedN == \E r \in forgotten' : r[1] = d
<1>1. CASE d \in recv
  <2>1. Place(d) = "answered" /\ Place(d)' = "answered"
    BY <1>1, PlaceIs, PlaceNext
  <2> QED
    BY <2>1
<1>2. CASE d \notin recv /\ d \in OwedIn(mem)
  <2>1. d \in OwedIn(n)
    BY <1>2 DEF Carries
  <2>2. Place(d) = "owed" /\ Place(d)' = "owed"
    BY <1>2, <2>1, PlaceIs, PlaceNext
  <2> QED
    BY <2>2
<1>3. CASE d \notin recv /\ d \notin OwedIn(mem) /\ d \in Holds(mem)
  <2>1. Place(d) = "held"
    BY <1>3, PlaceIs
  <2>2. CASE d \in OwedIn(n)
    <3>1. Place(d)' = "owed"
      BY <1>3, <2>2, PlaceNext
    <3> QED
      BY <2>1, <3>1 DEF Messages!Ways
  <2>3. CASE d \notin OwedIn(n) /\ d \in Holds(n)
    <3>1. Place(d)' = "held"
      BY <1>3, <2>3, PlaceNext
    <3> QED
      BY <2>1, <3>1
  <2>4. CASE d \notin OwedIn(n) /\ d \notin Holds(n)
    <3>1. d \in F /\ d \in n.seen
      BY <1>3, <2>4 DEF Carries
    <3>2. Place(d)' = "lost"
      BY <1>3, <2>4, <3>1, PlaceNext
    <3> QED
      BY <2>1, <3>1, <3>2
  <2> QED
    BY <2>2, <2>3, <2>4
<1>4. CASE d \notin recv /\ d \notin OwedIn(mem) /\ d \notin Holds(mem) /\ d \in mem.seen /\ dropped
  <2>1. Place(d) = "lost"
    BY <1>4, PlaceIs
  <2>2. d \notin Holds(n) /\ d \in n.seen /\ droppedN
    BY <1>4 DEF Carries
  <2>3. Place(d)' = "owed" \/ Place(d)' = "lost"
    BY <1>4, <2>2, PlaceNext
  <2> QED
    BY <2>1, <2>3 DEF Messages!Ways
<1>5. CASE d \notin recv /\ d \notin OwedIn(mem) /\ d \notin Holds(mem) /\ ~(d \in mem.seen /\ dropped)
  <2>1. Place(d) = "away"
    BY <1>5, PlaceIs
  <2>2. d \notin F
    BY <1>5
  <2>3. ~(d \notin OwedIn(n) /\ d \notin Holds(n) /\ d \in n.seen /\ droppedN)
    <3>1. SUFFICES ASSUME d \notin OwedIn(n), d \notin Holds(n), d \in n.seen, droppedN
                   PROVE  FALSE
      OBVIOUS
    <3>2. d \in mem.seen
      BY <2>2, <3>1 DEF Carries
    <3>3. ~dropped
      BY <1>5, <3>2
    <3>4. Settled(d)
      BY <1>5, <3>1, <3>3
    <3> QED
      BY <1>5, <3>3, <3>4 DEF Settled
  <2>4. Place(d)' \in {"owed", "held", "away"}
    BY <1>5, <2>3, PlaceNext
  <2> QED
    BY <2>1, <2>4 DEF Messages!Ways
<1> QED
  BY <1>1, <1>2, <1>3, <1>4, <1>5

LEMMA PlacesArePlaces ==
  ASSUME NEW d \in DMs
  PROVE  Place(d) \in Messages!Places /\ Place(d)' \in Messages!Places
BY PlaceIs, PlaceNext DEF Messages!Places

LEMMA InvPlaces ==
  ASSUME SidecarInv
  PROVE  Holds(mem) \subseteq mem.seen /\ Holds(mem) \cap OwedIn(mem) = {}
         /\ disk.seen \subseteq mem.seen /\ Holds(mem) \cap disk.seen \subseteq Holds(disk)
<1>1. Queue(mem) /\ Behind(Now)
  BY NowFields DEF SidecarInv, Good
<1>2. Holds(mem) \subseteq mem.seen
  BY <1>1, HeadsStand
<1> QED
  BY <1>1, <1>2, NowFields DEF Queue, HeldOrOwed, Behind

(* Where the messages are, as DirectMessages has it.                       *)
Ats == [d \in DMs |-> Place(d)]

LEMMA AtsAre ==
  /\ Ats' \in [DMs -> Messages!Places]
  /\ \A d \in DMs : Ats[d] = Place(d) /\ Ats'[d] = Place(d)'
BY PlacesArePlaces DEF Ats

(* Whether the file holds what the process knows, and the faults that      *)
(* matter to the messages.                                                 *)
SavedNow == disk = Written(mem)
Troubles == faults \cap {"disk", "torn", "cut"}

LEMMA SavedNext ==
  ASSUME SidecarInv'
  PROVE  /\ "disk" \notin faults' => SavedNow'
         /\ disk' = mem' => SavedNow'
<1>1. ("disk" \in faults \/ InStep(Now))' /\ Behind(Now)'
  BY DEF SidecarInv, DiskOK, Good
<1>2. "disk" \notin faults' => SavedNow'
  BY <1>1, NowFields DEF InStep, SavedNow
<1>3. disk' = Written(disk)'
  BY <1>1, NowFields DEF Behind
<1>4. disk' = mem' => Written(disk)' = Written(mem)'
  BY DEF Written, PendingIn
<1> QED
  BY <1>2, <1>3, <1>4 DEF SavedNow

(* Each message moves in one of its ways, and the faults that matter are   *)
(* those of before.                                                        *)
LEMMA MovesAre ==
  ASSUME SidecarInv', Troubles' = Troubles,
         \A d \in DMs : Place(d)' = Place(d) \/ <<Place(d), Place(d)'>> \in Messages!Ways
  PROVE  Messages!Next
<1>1. /\ Ats' \in [DMs -> Messages!Places]
      /\ \A d \in DMs : Ats'[d] = Ats[d] \/ <<Ats[d], Ats'[d]>> \in Messages!Ways
  BY AtsAre
<1>2. SavedNow' \in BOOLEAN
  BY Zenon DEF SavedNow
<1>3. "disk" \notin Troubles => SavedNow'
  <2>1. "disk" \notin Troubles => "disk" \notin faults'
    BY DEF Troubles
  <2> QED
    BY <2>1, SavedNext
<1>4. Messages!Move
  BY <1>1, <1>2, <1>3, Zenon DEF Messages!Move, Ats, SavedNow, Troubles
<1> QED
  BY <1>4 DEF Messages!Next

LEMMA TurnMoves ==
  ASSUME SidecarInv, SidecarInv', Turn
  PROVE  Messages!Next
<1>1. PICK s : TurnsInto(s)
  BY DEF Turn
<1> DEFINE none == {}
<1>2. /\ Carries(mem, mem', none) /\ recv' = recv /\ forgotten' = forgotten
      /\ faults \subseteq faults' /\ ("torn" \in faults' => "torn" \in faults)
      /\ ("cut" \in faults' => "cut" \in faults)
      /\ ("disk" \in faults' => "disk" \in faults) \/ (mem' = mem /\ disk' = disk)
  BY <1>1 DEF TurnsInto, Turns
<1>3. none \subseteq Holds(mem) /\ \A x : x \notin none
  OBVIOUS
<1> HIDE DEF none
<1>4. \A d \in DMs : Place(d)' = Place(d) \/ <<Place(d), Place(d)'>> \in Messages!Ways
  <2>1. /\ \A d \in none : \E r \in forgotten' : r[1] = d
        /\ \A r \in forgotten' : r \in forgotten \/ r[1] \in Holds(mem) \/ Settled(r[1])
        /\ forgotten \subseteq forgotten'
    BY <1>2, <1>3
  <2> QED
    BY <1>2, <1>3, <2>1, CarriedMoves, InvPlaces
<1>5. CASE "disk" \in faults' => "disk" \in faults
  <2>1. Troubles' = Troubles
    BY <1>2, <1>5 DEF Troubles
  <2> QED
    BY <1>4, <2>1, MovesAre
<1>6. CASE ~("disk" \in faults' => "disk" \in faults)
  <2>1. mem' = mem /\ disk' = disk
    BY <1>2, <1>6
  <2>2. \A d \in DMs : Place(d)' = Place(d)
    BY <1>2, <2>1, PlaceIs, PlaceNext
  <2>3. Ats' = Ats
    BY <2>2 DEF Ats
  <2>4. Troubles' = Troubles \cup {"disk"}
    BY <1>2, <1>6 DEF Troubles
  <2>5. SavedNow' = SavedNow
    BY <2>1 DEF SavedNow, Written, PendingIn
  <2>6. Messages!SavesFail
    BY <2>3, <2>4, <2>5, Zenon DEF Messages!SavesFail, Ats, SavedNow, Troubles
  <2> QED
    BY <2>6 DEF Messages!Next
<1> QED
  BY <1>5, <1>6

LEMMA TearMoves ==
  ASSUME SidecarInv, SidecarInv', NEW F, TearsOff(F)
  PROVE  Messages!Next
<1>1. /\ Carries(mem, mem', F) /\ F \subseteq Holds(mem)
      /\ \A d \in F : \E r \in forgotten' : r[1] = d
      /\ forgotten \subseteq forgotten'
      /\ \A r \in forgotten' : r \in forgotten \/ r[1] \in Holds(mem) \/ Settled(r[1])
      /\ recv' = recv /\ faults' = faults \cup {"torn"} /\ "torn" \notin faults
      /\ disk' = mem'
  BY DEF TearsOff
<1>2. \A d \in DMs : \/ Place(d)' = Place(d)
                     \/ <<Place(d), Place(d)'>> \in Messages!Ways \cup {<<"held", "lost">>}
  BY <1>1, CarriedMoves, InvPlaces
<1>3. /\ Ats' \in [DMs -> Messages!Places]
      /\ \A d \in DMs : \/ Ats'[d] = Ats[d]
                        \/ <<Ats[d], Ats'[d]>> \in Messages!Ways \cup {<<"held", "lost">>}
  BY <1>2, AtsAre
<1>4. "torn" \notin Troubles /\ Troubles' = Troubles \cup {"torn"}
  BY <1>1 DEF Troubles
<1>5. SavedNow' = TRUE
  BY <1>1, SavedNext
<1>6. Messages!Tear
  BY <1>3, <1>4, <1>5, Zenon DEF Messages!Tear, Ats, SavedNow, Troubles
<1> QED
  BY <1>6 DEF Messages!Next

(* After a crash the messages are where the file has them.                 *)
LEMMA CrashMoves ==
  ASSUME SidecarInv, Crash
  PROVE  Messages!Next
<1>1. /\ mem' = disk /\ disk' = disk /\ forgotten' = forgotten /\ recv' = recv
      /\ faults' = faults \cup {"crash"} /\ SidecarInv'
  BY CrashKeeps
<1>2. Troubles' = Troubles /\ SavedNow' = TRUE
  BY <1>1, SavedNext DEF Troubles
<1>3. CASE SavedNow
  <2>1. disk = Written(mem) /\ Queue(mem) /\ mem \in State
    BY <1>3, NowFields DEF SidecarInv, SavedNow, Good, Queue
  <2>2. disk.seen = mem.seen /\ OwedIn(disk) = OwedIn(mem) /\ Holds(disk) = Holds(mem)
    BY <2>1, WrittenFields, WrittenQueue
  <2>3. \A d \in DMs : Place(d)' = Place(d)
    BY <1>1, <2>2, PlaceIs, PlaceNext
  <2> QED
    BY <1>1, <1>2, <2>3, MovesAre
<1>4. CASE ~SavedNow
  <2>1. ASSUME NEW d \in DMs
        PROVE  \/ Place(d)' = Place(d)
               \/ Place(d) # "answered" /\ Place(d)' \in {"away", "held", "owed"}
               \/ Place(d) = "owed" /\ Place(d)' = "lost"
    <3>1. CASE d \in recv
      BY <1>1, <3>1, PlaceIs, PlaceNext
    <3>2. CASE d \notin recv /\ Place(d)' # "lost"
      <4>1. Place(d) # "answered"
        BY <3>2, PlaceIs
      <4>2. Place(d)' \in {"away", "held", "owed"}
        BY <1>1, <3>2, PlaceNext
      <4> QED
        BY <4>1, <4>2
    <3>3. CASE d \notin recv /\ Place(d)' = "lost"
      <4>1. d \notin Holds(disk) /\ d \in disk.seen /\ \E r \in forgotten : r[1] = d
        BY <1>1, <3>3, PlaceNext
      <4>2. d \in mem.seen /\ d \notin Holds(mem)
        BY <4>1, InvPlaces
      <4>3. Place(d) = "owed" \/ Place(d) = "lost"
        BY <3>3, <4>1, <4>2, PlaceIs
      <4> QED
        BY <3>3, <4>3
    <3> QED
      BY <3>1, <3>2, <3>3
  <2>2. /\ Ats' \in [DMs -> Messages!Places]
        /\ \A d \in DMs : \/ Ats'[d] = Ats[d]
                          \/ Ats[d] # "answered" /\ Ats'[d] \in {"away", "held", "owed"}
                          \/ Ats[d] = "owed" /\ Ats'[d] = "lost"
    BY <2>1, AtsAre
  <2>3. Messages!FallBack
    BY <1>2, <1>4, <2>2, Zenon DEF Messages!FallBack, Ats, SavedNow, Troubles
  <2> QED
    BY <2>3 DEF Messages!Next
<1> QED
  BY <1>3, <1>4

(* After a kill in the middle of a save nothing is known but what the      *)
(* server has been told.                                                   *)
LEMMA WipeMoves ==
  ASSUME SidecarInv, KilledInSave
  PROVE  Messages!Next
<1>1. /\ mem' = Empty /\ disk' = Empty /\ recv' = recv
      /\ faults' = faults \cup {"cut"} /\ "cut" \notin faults /\ SidecarInv'
  BY KilledInSaveKeeps
<1>2. "cut" \notin Troubles /\ Troubles' = Troubles \cup {"cut"} /\ SavedNow' = TRUE
  BY <1>1, SavedNext DEF Troubles
<1>3. \A d \in DMs : Place(d)' = IF Place(d) = "answered" THEN "answered" ELSE "away"
  BY <1>1, EmptyFields, PlaceIs, PlaceNext
<1>4. Ats' = [d \in DMs |-> IF Ats[d] = "answered" THEN "answered" ELSE "away"]
  BY <1>3 DEF Ats
<1>5. Messages!Wipe
  BY <1>2, <1>4, Zenon DEF Messages!Wipe, Ats, SavedNow, Troubles
<1> QED
  BY <1>5 DEF Messages!Next

(* The last receipt of a flush is answered: the messages whose receipts go *)
(* with it are answered, lost or owed again.                               *)
LEMMA AnsweredMoves ==
  ASSUME mem'.seen = mem.seen, Holds(mem)' = Holds(mem),
         \A a \in mem.acks : Settled(a[1]), \A x \in OwedIn(mem') : Settled(x),
         recv \subseteq recv', forgotten \subseteq forgotten',
         \A x \in OwedIn(mem) : x \in OwedIn(mem') \/ x \in recv' \/ \E a \in forgotten' : a[1] = x,
         \A x \in recv' : x \in recv \/ Settled(x),
         \A a \in forgotten' : a \in forgotten \/ a \in mem.acks,
         NEW d \in DMs
  PROVE  Place(d)' = Place(d) \/ <<Place(d), Place(d)'>> \in Messages!Ways
<1> DEFINE dropped  == \E a \in forgotten : a[1] = d
           droppedN == \E a \in forgotten' : a[1] = d
<1>1. Holds(mem') = Holds(mem)
  BY DEF Holds, PendingIn, Sources
<1>2. CASE d \in recv
  BY <1>2, PlaceIs, PlaceNext
<1>3. CASE d \notin recv /\ d \in Holds(mem)
  <2>1. ~Settled(d)
    BY <1>3 DEF Settled
  <2>2. d \notin OwedIn(mem) /\ d \notin OwedIn(mem') /\ d \notin recv'
    BY <1>3, <2>1 DEF OwedIn
  <2> QED
    BY <1>1, <1>3, <2>2, PlaceIs, PlaceNext
<1>4. CASE d \notin recv /\ d \notin Holds(mem) /\ Settled(d)
  <2>1. d \in mem.seen /\ (d \in OwedIn(mem) \/ dropped)
    BY <1>4 DEF Settled
  <2>2. Place(d) = IF d \in OwedIn(mem) THEN "owed" ELSE "lost"
    BY <1>4, <2>1, PlaceIs
  <2>3. d \in mem'.seen /\ (d \in OwedIn(mem') \/ d \in recv' \/ droppedN)
    BY <2>1
  <2>4. Place(d)' \in {"answered", "owed", "lost"}
    BY <1>1, <1>4, <2>3, PlaceNext
  <2> QED
    BY <2>2, <2>4 DEF Messages!Ways
<1>5. CASE d \notin recv /\ d \notin Holds(mem) /\ ~Settled(d)
  <2>1. d \notin OwedIn(mem) /\ d \notin OwedIn(mem') /\ d \notin recv'
    BY <1>5 DEF OwedIn
  <2>2. droppedN => dropped
    BY <2>1 DEF OwedIn
  <2>3. droppedN <=> dropped
    BY <2>2
  <2>4. Place(d) = IF d \in mem.seen /\ dropped THEN "lost" ELSE "away"
    BY <1>5, <2>1, PlaceIs
  <2>5. Place(d)' = IF d \in mem'.seen /\ droppedN THEN "lost" ELSE "away"
    BY <1>1, <1>5, <2>1, PlaceNext
  <2> QED
    BY <2>3, <2>4, <2>5
<1> QED
  BY <1>2, <1>3, <1>4, <1>5

LEMMA AnswerMoves ==
  ASSUME SidecarInv, Answer
  PROVE  Messages!Next
<1>1. PICK p \in Passes, r \in Receipt, arrived \in BOOLEAN, ok \in BOOLEAN :
        AckAnswered(p, r, arrived, ok)
  BY DEF Answer
<1>2. /\ r \in Owed(p) /\ recv' = (IF arrived THEN recv \cup {r[1]} ELSE recv)
      /\ faults' = faults
  BY <1>1 DEF AckAnswered
<1>3. (\A a \in mem.acks : Settled(a[1])) /\ Settled(r[1]) /\ FlushOK(p)
  <2>1. (\A a \in mem.acks : Settled(a[1])) /\ FlushOK(p)
    BY OwedAreSettled DEF SidecarInv
  <2> QED
    BY <1>2, <2>1 DEF Owed, FlushOK
<1>4. recv \subseteq recv' /\ \A x \in recv' : x \in recv \/ Settled(x)
  BY <1>2, <1>3
<1>5. \A d \in DMs : Place(d)' = Place(d) \/ <<Place(d), Place(d)'>> \in Messages!Ways
  <2>1. CASE ~(Owed(p) \subseteq pass[p].done \cup {r})
    <3>1. mem' = mem /\ forgotten' = forgotten
      BY <1>1, <2>1, AckGoesOn
    <3>2. Holds(mem)' = Holds(mem) /\ OwedIn(mem') = OwedIn(mem) /\ mem'.seen = mem.seen
      BY <3>1, NextParts
    <3>3. \A x \in OwedIn(mem') : Settled(x)
      BY <1>3, <3>2 DEF OwedIn
    <3> QED
      BY <1>3, <1>4, <3>1, <3>2, <3>3, AnsweredMoves
  <2>2. CASE Owed(p) \subseteq pass[p].done \cup {r}
    <3> DEFINE done == pass[p].done \cup {r}
               left == IF ok THEN pass[p].left ELSE pass[p].left \cup {r}
    <3>1. /\ mem' \in State /\ mem'.seen = mem.seen /\ mem'.pending = mem.pending
          /\ mem'.entry = mem.entry /\ mem'.acks = left
          /\ forgotten' = forgotten \cup (mem.acks \ (done \cup left))
          /\ \A a \in left : Settled(a[1])
          /\ \A a \in done : a \in left \/ a[1] \in recv'
      BY <1>1, <2>2, AckEnds
    <3> HIDE DEF done, left
    <3>2. Holds(mem)' = Holds(mem)
      BY <3>1 DEF Holds, PendingIn, Sources
    <3>3. \A x \in OwedIn(mem') : Settled(x)
      BY <3>1 DEF OwedIn
    <3>4. \A x \in OwedIn(mem) : x \in OwedIn(mem') \/ x \in recv' \/ \E a \in forgotten' : a[1] = x
      BY <3>1 DEF OwedIn
    <3>5. forgotten \subseteq forgotten' /\ \A a \in forgotten' : a \in forgotten \/ a \in mem.acks
      BY <3>1
    <3> QED
      BY <1>3, <1>4, <3>1, <3>2, <3>3, <3>4, <3>5, AnsweredMoves
  <2> QED
    BY <2>1, <2>2
<1>6. SidecarInv' /\ Troubles' = Troubles
  BY <1>2, AnswerKeeps DEF Troubles
<1> QED
  BY <1>5, <1>6, MovesAre

LEMMA InitIsAway ==
  ASSUME Init
  PROVE  Messages!Init
<1>1. mem = Empty /\ disk = Empty /\ recv = {} /\ faults = {}
  BY DEF Init
<1>2. \A d \in DMs : Place(d) = "away"
  BY <1>1, EmptyFields, PlaceIs
<1>3. Ats = [d \in DMs |-> "away"]
  BY <1>2 DEF Ats
<1>4. SavedNow = TRUE /\ Troubles = {}
  BY <1>1, EmptyWritten DEF SavedNow, Troubles
<1> QED
  BY <1>3, <1>4 DEF Messages!Init, Ats, SavedNow, Troubles

(* The sidecar (deliver, pruneStale, flushAcks, _saveState and _loadState  *)
(* in sidecar.js) keeps the promise of DirectMessages to the senders: in   *)
(* every step, each direct message moves in one of the ways allowed there. *)
(* A held message gets away in silence only when the process ends and the  *)
(* file is empty or old: killed in the middle of a save, or after a save   *)
(* that failed and before one that did not.                                *)
THEOREM DirectMessagesAreKept == Spec => Promise
<1>1. Init => Messages!Init
  BY InitIsAway
<1>2. SidecarInv /\ [Next]_vars => Messages!Next
  <2>1. SUFFICES ASSUME SidecarInv, [Next]_vars
                 PROVE  Messages!Next
    OBVIOUS
  <2>2. SidecarInv'
    BY <2>1, NextKeeps
  <2>3. TornKill => Messages!Next
    BY <2>1, <2>2, TornKillTears, TearMoves
  <2> QED
    BY <2>1, <2>2, <2>3, StepsAre, TurnMoves, AnswerMoves, CrashMoves, WipeMoves
<1>3. SidecarInv /\ [Next]_vars => [Messages!Next]_<<Ats, SavedNow, Troubles>>
  BY <1>2
<1>4. Messages!Spec <=> Messages!Init /\ [][Messages!Next]_<<Ats, SavedNow, Troubles>>
  BY DEF Messages!Spec, Ats, SavedNow, Troubles
<1> QED
  BY <1>1, <1>3, <1>4, SidecarHolds, PTL DEF Spec, Promise
=============================================================================
