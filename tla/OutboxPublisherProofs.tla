------------------------ MODULE OutboxPublisherProofs ------------------------
(***************************************************************************)
(* Proofs about OutboxPublisher for every set of messages and of cycles,   *)
(* every batch size, limit of attempts and pool, and every number of       *)
(* faults and leaks.                                                       *)
(*                                                                         *)
(* Claims, the inductive invariant, says what a cycle knows of the         *)
(* messages in its memory: between the SELECT and the commit their rows    *)
(* are its own and count one attempt less than it will write, afterwards   *)
(* the table has counted at least what it has in memory.  The sections     *)
(* below are about the batch a SELECT returns, and the steps.              *)
(***************************************************************************)
EXTENDS OutboxPublisher, FiniteSetTheorems, SequenceTheorems, TLAPS

Ids(c) == {batch[c][i].id : i \in DOMAIN batch[c]}

\* What cycle c has read, by where it is.
BatchShape(c) ==
  /\ \A i, j \in DOMAIN batch[c] : batch[c][i].id = batch[c][j].id => i = j
  /\ rowLocks[c] = IF pc[c] = "claim" THEN Ids(c) ELSE {}
  /\ pc[c] = "claim" =>
       \A i \in DOMAIN batch[c] : batch[c][i].attempts = attempts[batch[c][i].id] + 1
  /\ pc[c] \in {"emit", "mark"} =>
       \A i \in DOMAIN batch[c] : batch[c][i].attempts <= attempts[batch[c][i].id]
  /\ pc[c] = "mark" /\ verdict[c] = "ok" => sent[Current(c).id] > 0

\* No row is locked by two cycles.
RowsExclude == \A c, d \in Cycles : c # d => rowLocks[c] \cap rowLocks[d] = {}

Claims ==
  /\ TypeOK
  /\ \A c \in Cycles : BatchShape(c)
  /\ RowsExclude
  /\ PublishedWasSent /\ FailedWasTried /\ CopiesAreCounted

-----------------------------------------------------------------------------
(* The batch a SELECT returns *)

\* Later messages have higher ranks, and ranks are positions in S.
LEMMA RankInjective ==
  ASSUME NEW S \in SUBSET Messages
  PROVE  [m \in S |-> Rank(m, S)] \in Injection(S, 1 .. Cardinality(S))
<1> DEFINE upTo(m) == {x \in S : x <= m}
<1>1. IsFiniteSet(S) /\ Cardinality(S) \in Nat /\ S \subseteq Nat
  BY OutboxAssumption, FS_Subset, FS_CardinalityType
<1>2. ASSUME NEW m \in S
      PROVE  /\ IsFiniteSet(upTo(m)) /\ Cardinality(upTo(m)) \in 1 .. Cardinality(S)
             /\ Rank(m, S) = Cardinality(upTo(m))
  <2>1. upTo(m) \in SUBSET S /\ m \in upTo(m)
    BY <1>1
  <2>2. IsFiniteSet(upTo(m)) /\ Cardinality(upTo(m)) <= Cardinality(S)
    BY <1>1, <2>1, FS_Subset
  <2>3. Cardinality(upTo(m)) \in Nat /\ Cardinality(upTo(m)) # 0
    BY <2>1, <2>2, FS_CardinalityType, FS_EmptySet
  <2> QED BY <1>1, <2>2, <2>3 DEF Rank
<1>3. ASSUME NEW a \in S, NEW b \in S, a < b PROVE Rank(a, S) # Rank(b, S)
  <2>0. a \in Nat /\ b \in Nat /\ \A x \in S : x \in Nat
    BY <1>1
  <2>1. upTo(a) \in SUBSET upTo(b)
    <3>1. ASSUME NEW x \in S, x <= a PROVE x <= b
      BY <1>3, <2>0, <3>1
    <3> QED BY <3>1
  <2>3. b \in upTo(b) /\ b \notin upTo(a)
    BY <1>3, <2>0
  <2> HIDE DEF upTo
  <2>2. Cardinality(upTo(b)) # Cardinality(upTo(a))
    BY <1>2, <2>1, <2>3, FS_Subset
  <2> QED BY <1>2, <2>2
<1>4. ASSUME NEW a \in S, NEW b \in S, Rank(a, S) = Rank(b, S) PROVE a = b
  BY <1>1, <1>3, <1>4
<1> HIDE DEF upTo
<1> QED BY <1>2, <1>4 DEF Injection, IsInjective

\* Every position is the rank of a message.
LEMMA RankSurjective ==
  ASSUME NEW S \in SUBSET Messages, NEW i \in 1 .. Cardinality(S)
  PROVE  \E m \in S : Rank(m, S) = i
<1> DEFINE rank == [m \in S |-> Rank(m, S)]
           places == 1 .. Cardinality(S)
<1>1. IsFiniteSet(S) /\ Cardinality(S) \in Nat
  BY OutboxAssumption, FS_Subset, FS_CardinalityType
<1>2. IsFiniteSet(places) /\ Cardinality(places) = Cardinality(S)
  BY <1>1, FS_Interval
<1>3. rank \in Injection(S, places)
  BY RankInjective
<1>4. rank \in Surjection(S, places)
  <2> HIDE DEF rank, places
  <2> QED BY <1>2, <1>3, FS_Injection
<1> QED BY <1>4 DEF Surjection

\* A SELECT returns a sequence of messages of S, none of them twice.
LEMMA OldestBatch ==
  ASSUME NEW S \in SUBSET Messages
  PROVE  /\ Oldest(S) \in Seq(S)
         /\ \A i, j \in DOMAIN Oldest(S) : Oldest(S)[i] = Oldest(S)[j] => i = j
<1> DEFINE n == Min({BatchSize, Cardinality(S)})
           nth(i) == CHOOSE m \in S : Rank(m, S) = i
<1>1. IsFiniteSet(S) /\ Cardinality(S) \in Nat /\ BatchSize \in Nat
  BY OutboxAssumption, FS_Subset, FS_CardinalityType
<1>2. n \in Nat /\ n <= Cardinality(S)
  BY <1>1 DEF Min
<1>3. ASSUME NEW i \in 1 .. n PROVE nth(i) \in S /\ Rank(nth(i), S) = i
  BY <1>1, <1>2, RankSurjective
<1>4. Oldest(S) = [i \in 1 .. n |-> nth(i)]
  BY DEF Oldest
<1> HIDE DEF n, nth
<1>5. Oldest(S) \in Seq(S)
  BY <1>2, <1>3, <1>4
<1>6. \A i, j \in 1 .. n : nth(i) = nth(j) => i = j
  BY <1>3
<1> QED BY <1>4, <1>5, <1>6

-----------------------------------------------------------------------------
(* What every step relies on *)

\* A cycle that has a batch has entries of messages, and a first one.
LEMMA BatchType ==
  ASSUME TypeOK, NEW c \in Cycles
  PROVE  /\ batch[c] \in Seq([id : Messages, attempts : Nat])
         /\ Len(batch[c]) \in Nat /\ DOMAIN batch[c] = 1 .. Len(batch[c])
         /\ \A i \in DOMAIN batch[c] : batch[c][i].id \in Messages /\ batch[c][i].attempts \in Nat
         /\ pc[c] \in {"claim", "emit", "mark"} =>
              Len(batch[c]) >= 1 /\ Current(c) = batch[c][1] /\ Current(c).id \in Messages
<1>1. batch[c] \in Seq([id : Messages, attempts : Nat])
  BY DEF TypeOK
<1>2. Len(batch[c]) \in Nat /\ DOMAIN batch[c] = 1 .. Len(batch[c])
  BY <1>1
<1>3. ASSUME NEW i \in 1 .. Len(batch[c])
      PROVE  batch[c][i] \in [id : Messages, attempts : Nat]
  BY <1>1, ElementOfSeq
<1>4. pc[c] \in {"claim", "emit", "mark"} => batch[c] # <<>>
  BY DEF TypeOK
<1>5. batch[c] # <<>> => Len(batch[c]) >= 1 /\ Head(batch[c]) = batch[c][1]
  BY <1>1
<1> QED BY <1>1, <1>2, <1>3, <1>4, <1>5 DEF Current

\* The cycles that may yet send m are finitely many.
LEMMA PendingFinite ==
  ASSUME NEW m
  PROVE  IsFiniteSet(Pending(m)) /\ Cardinality(Pending(m)) \in Nat
<1>1. Pending(m) \in SUBSET Cycles
  BY DEF Pending
<1>2. IsFiniteSet(Pending(m))
  BY <1>1, OutboxAssumption, FS_Subset
<1> QED BY <1>2, FS_CardinalityType

\* Every copy that was sent was counted as an attempt before.
LEMMA SentAreCounted ==
  ASSUME Claims, NEW m \in Messages
  PROVE  sent[m] <= attempts[m]
<1>1. sent[m] \in Nat /\ attempts[m] \in Nat /\ Cardinality(Pending(m)) \in Nat
  BY PendingFinite DEF Claims, TypeOK
<1>2. sent[m] + Cardinality(Pending(m)) <= attempts[m]
  BY DEF Claims, CopiesAreCounted
<1> QED BY <1>1, <1>2

\* A cycle keeps its shape when others send, and count messages whose rows it
\* has not locked.
LEMMA OthersKeepBatch ==
  ASSUME Claims, NEW d \in Cycles,
         UNCHANGED <<batch[d], pc[d], verdict[d], rowLocks[d]>>,
         \A m \in Messages : /\ attempts'[m] \in Nat /\ attempts'[m] >= attempts[m]
                             /\ m \in rowLocks[d] => attempts'[m] = attempts[m]
                             /\ sent'[m] \in Nat /\ sent'[m] >= sent[m]
  PROVE  BatchShape(d)'
<1>1. BatchShape(d) /\ TypeOK
  BY DEF Claims
<1>2. \A i \in DOMAIN batch[d] : batch[d][i].id \in Messages /\ batch[d][i].attempts \in Nat
  BY <1>1, BatchType
<1>3. Ids(d)' = Ids(d) /\ Current(d)' = Current(d)
  BY DEF Ids, Current
<1>4. pc[d] = "claim" =>
        \A i \in DOMAIN batch[d] : attempts'[batch[d][i].id] = attempts[batch[d][i].id]
  BY <1>1, <1>2 DEF BatchShape, Ids
<1>5. pc[d] = "mark" => Current(d).id \in Messages
  BY <1>1, BatchType
<1>6. pc[d] \in {"emit", "mark"} =>
        \A i \in DOMAIN batch[d] : batch[d][i].attempts <= attempts'[batch[d][i].id]
  <2>1. \A i \in DOMAIN batch[d] : attempts[batch[d][i].id] \in Nat
    BY <1>1, <1>2 DEF TypeOK
  <2> QED BY <1>1, <1>2, <2>1 DEF BatchShape
<1>7. pc[d] = "mark" /\ verdict[d] = "ok" => sent'[Current(d).id] > 0
  <2>1. pc[d] = "mark" => sent[Current(d).id] \in Nat
    BY <1>1, <1>5 DEF TypeOK
  <2> QED BY <1>1, <1>5, <2>1 DEF BatchShape
<1> QED BY <1>1, <1>3, <1>4, <1>6, <1>7 DEF BatchShape

\* A step of c touches the memory of no other cycle.
Alone(c) ==
  \A d \in Cycles \ {c} : UNCHANGED <<batch[d], pc[d], verdict[d], rowLocks[d]>>

\* Whether another cycle may yet send m does not change in a step of c.
LEMMA PendingOfOthers ==
  ASSUME NEW c \in Cycles, Alone(c), NEW m
  PROVE  Pending(m)' \ {c} = Pending(m) \ {c}
BY DEF Alone, Pending

\* A message keeps its copies counted when no more cycles may send it.
LEMMA CopiesKept ==
  ASSUME Claims, NEW m \in Messages, Pending(m)' \subseteq Pending(m),
         sent'[m] = sent[m], attempts'[m] \in Nat, attempts'[m] >= attempts[m]
  PROVE  sent'[m] + Cardinality(Pending(m)') <= attempts'[m]
<1>1. Cardinality(Pending(m)') <= Cardinality(Pending(m)) /\ Cardinality(Pending(m)') \in Nat
  BY PendingFinite, FS_Subset, FS_CardinalityType
<1>2. sent[m] \in Nat /\ attempts[m] \in Nat /\ Cardinality(Pending(m)) \in Nat
  BY PendingFinite DEF Claims, TypeOK
<1>3. sent[m] + Cardinality(Pending(m)) <= attempts[m]
  BY DEF Claims, CopiesAreCounted
<1> QED BY <1>1, <1>2, <1>3

\* A step of c keeps the invariant when its own batch keeps its shape and no
\* row that another cycle has locked is counted or locked.
LEMMA StepClaims ==
  ASSUME Claims, TypeOK', NEW c \in Cycles, Alone(c), BatchShape(c)',
         \A m \in Messages : attempts'[m] >= attempts[m] /\ sent'[m] >= sent[m],
         \A m \in LockedByOthers(c) : attempts'[m] = attempts[m] /\ m \notin rowLocks'[c],
         PublishedWasSent', FailedWasTried', CopiesAreCounted'
  PROVE  Claims'
<1>1. ASSUME NEW d \in Cycles \ {c} PROVE BatchShape(d)'
  <2>1. rowLocks[d] \subseteq LockedByOthers(c) /\ UNCHANGED <<batch[d], pc[d], verdict[d], rowLocks[d]>>
    BY DEF LockedByOthers, Alone
  <2>2. \A m \in Messages : attempts'[m] \in Nat /\ sent'[m] \in Nat
    BY DEF TypeOK
  <2> QED BY <2>1, <2>2, OthersKeepBatch
<1>2. RowsExclude'
  <2>1. \A d \in Cycles \ {c} : rowLocks'[d] = rowLocks[d] /\ rowLocks'[c] \cap rowLocks[d] = {}
    BY DEF Alone, LockedByOthers
  <2> QED BY <2>1 DEF RowsExclude, Claims
<1> QED BY <1>1, <1>2 DEF Claims

-----------------------------------------------------------------------------
(* Every step keeps the invariant *)

\* Init gives the invariant.
LEMMA InitClaims == Init => Claims
<1> SUFFICES ASSUME Init PROVE Claims
  OBVIOUS
<1>1. TypeOK
  BY OutboxAssumption, FS_EmptySet, EmptySeq DEF Init, TypeOK
<1>2. ASSUME NEW c \in Cycles PROVE BatchShape(c)
  BY DEF Init, BatchShape
<1>3. RowsExclude /\ PublishedWasSent /\ FailedWasTried
  BY DEF Init, RowsExclude, PublishedWasSent, FailedWasTried
<1>4. ASSUME NEW m \in Messages PROVE sent[m] + Cardinality(Pending(m)) <= attempts[m]
  <2>1. Pending(m) = {}
    BY DEF Init, Pending
  <2> QED BY <2>1, FS_EmptySet DEF Init
<1> QED BY <1>1, <1>2, <1>3, <1>4 DEF Claims, CopiesAreCounted

\* A connection taken and one given back are counted.
LEMMA HeldType ==
  ASSUME TypeOK, NEW c \in Cycles
  PROVE  /\ IsFiniteSet(held) /\ Cardinality(held) \in Nat
         /\ Cardinality(held \cup {c}) \in Nat /\ Cardinality(held \cup {c}) <= Cardinality(held) + 1
         /\ Cardinality(held \ {c}) \in Nat /\ Cardinality(held \ {c}) <= Cardinality(held)
<1>1. IsFiniteSet(held)
  BY OutboxAssumption, FS_Subset DEF TypeOK
<1>2. Cardinality(held) \in Nat /\ IsFiniteSet(held \cup {c}) /\ IsFiniteSet(held \ {c})
  BY <1>1, FS_CardinalityType, FS_AddElement, FS_RemoveElement
<1>3. Cardinality(held \cup {c}) \in Nat /\ Cardinality(held \ {c}) \in Nat
  BY <1>2, FS_CardinalityType
<1> QED BY <1>1, <1>2, <1>3, FS_AddElement, FS_RemoveElement

\* A message is enqueued, or its backoff ends: no cycle has noticed.
LEMMA EnvironmentClaims ==
  ASSUME Claims, NEW m \in Messages, Enqueue(m) \/ BecomeDue(m)
  PROVE  Claims'
<1>1. /\ UNCHANGED <<attempts, sent, pc, batch, verdict, rowLocks, pool, faults>>
      /\ status' \in {status, [status EXCEPT ![m] = "pending"]}
      /\ due' = due \cup {m}
  BY DEF Enqueue, BecomeDue
<1>2. TypeOK'
  BY <1>1 DEF Claims, TypeOK, pool
<1>3. ASSUME NEW c \in Cycles PROVE BatchShape(c)'
  <2>1. \A x \in Messages : attempts[x] \in Nat /\ sent[x] \in Nat
    BY DEF Claims, TypeOK
  <2> QED BY <1>1, <2>1, OthersKeepBatch
<1>4. RowsExclude' /\ CopiesAreCounted'
  BY <1>1 DEF Claims, RowsExclude, CopiesAreCounted, Pending
<1>5. PublishedWasSent' /\ FailedWasTried'
  BY <1>1 DEF Claims, TypeOK, PublishedWasSent, FailedWasTried
<1> QED BY <1>2, <1>3, <1>4, <1>5 DEF Claims

\* Where a cycle has no batch.
Empty == {"idle", "connect", "select", "release"}

\* A step between places where c has no batch changes nothing that counts.
LEMMA MoveClaims ==
  ASSUME Claims, TypeOK', NEW c \in Cycles, NEW l \in Empty,
         pc[c] \in Empty, Goto(c, l),
         UNCHANGED <<table, sent, batch, verdict, rowLocks>>
  PROVE  Claims'
<1>1. UNCHANGED <<status, attempts, due, sent, batch, verdict, rowLocks>>
  BY DEF table
<1>2. Alone(c) /\ pc'[c] = l
  BY <1>1 DEF Alone, Goto, Claims, TypeOK
<1>3. BatchShape(c)'
  BY <1>1, <1>2 DEF BatchShape, Claims, Empty
<1>4. \A m \in Messages : attempts[m] \in Nat /\ sent[m] \in Nat
  BY DEF Claims, TypeOK
<1>5. CopiesAreCounted'
  <2>1. ASSUME NEW m \in Messages PROVE Pending(m)' \subseteq Pending(m)
    BY <1>1, <1>2, PendingOfOthers DEF Pending, Empty
  <2> QED BY <1>1, <1>4, <2>1, CopiesKept DEF CopiesAreCounted
<1>6. PublishedWasSent' /\ FailedWasTried'
  BY <1>1 DEF Claims, PublishedWasSent, FailedWasTried
<1>7. \A m \in LockedByOthers(c) : m \notin rowLocks'[c]
  BY <1>1, <1>2 DEF Claims, BatchShape, Empty
<1>8. \A m \in Messages : attempts'[m] >= attempts[m] /\ sent'[m] >= sent[m]
  BY <1>1, <1>4
<1> QED BY <1>1, <1>2, <1>3, <1>5, <1>6, <1>7, <1>8, StepClaims

\* The timer fires; a connection is taken, lost or given back.
LEMMA PoolClaims ==
  ASSUME Claims, NEW c \in Cycles, Tick(c) \/ Connect(c) \/ BeginFails(c) \/ Release(c)
  PROVE  Claims'
<1>1. \E l \in Empty : Goto(c, l) /\ pc'[c] = l
  BY DEF Tick, Connect, BeginFails, Release, Goto, Empty, Claims, TypeOK
<1>2. pc[c] \in Empty /\ UNCHANGED <<table, sent, batch, verdict, rowLocks, faults>>
  BY DEF Tick, Connect, BeginFails, Release, Empty
<1>3. /\ held' \subseteq Cycles /\ leaked' \in Nat
      /\ Cardinality(held') + leaked' <= PoolSize
  <2>1. /\ Cardinality(held) \in Nat /\ leaked \in Nat /\ held \subseteq Cycles
        /\ PoolSize \in Nat /\ Cardinality(held) + leaked <= PoolSize
    BY HeldType, OutboxAssumption DEF Claims, TypeOK
  <2>2. CASE Tick(c)
    BY <2>1, <2>2 DEF Tick, pool
  <2>3. CASE Connect(c)
    BY <2>1, <2>3, HeldType DEF Connect, CanConnect, Claims
  <2>4. CASE BeginFails(c)
    BY <2>1, <2>4 DEF BeginFails, CanConnect
  <2>5. CASE Release(c)
    BY <2>1, <2>5, HeldType DEF Release, Claims
  <2> QED BY <2>2, <2>3, <2>4, <2>5
<1>4. TypeOK'
  BY <1>1, <1>2, <1>3 DEF Goto, Empty, table, Claims, TypeOK
<1> QED BY <1>1, <1>2, <1>4, MoveClaims

\* The entries made of the messages of a SELECT.
LEMMA EntriesOf ==
  ASSUME TypeOK, NEW ids \in Seq(Messages)
  PROVE  LET b == [i \in 1 .. Len(ids) |-> Entry(ids[i])] IN
         /\ b \in Seq([id : Messages, attempts : Nat])
         /\ DOMAIN b = 1 .. Len(ids) /\ DOMAIN b = DOMAIN ids
         /\ \A i \in DOMAIN b : b[i].id = ids[i] /\ b[i].attempts = attempts[ids[i]] + 1
         /\ b = <<>> <=> ids = <<>>
<1> DEFINE E == [id : Messages, attempts : Nat]
           b == [i \in 1 .. Len(ids) |-> Entry(ids[i])]
<1>1. Len(ids) \in Nat /\ DOMAIN ids = 1 .. Len(ids)
  BY LenProperties
<1>2. ASSUME NEW i \in 1 .. Len(ids) PROVE ids[i] \in Messages /\ Entry(ids[i]) \in E
  <2>1. ids[i] \in Messages
    BY ElementOfSeq
  <2> QED BY <2>1 DEF Entry, TypeOK
<1>3. b \in [1 .. Len(ids) -> E]
  BY <1>2
<1>4. b \in Seq(E) /\ Len(b) = Len(ids)
  BY <1>1, <1>3
<1>5. b = <<>> <=> ids = <<>>
  BY <1>1, <1>4, EmptySeq
<1>6. ASSUME NEW i \in 1 .. Len(ids)
      PROVE  b[i].id = ids[i] /\ b[i].attempts = attempts[ids[i]] + 1
  BY DEF Entry
<1> QED BY <1>1, <1>4, <1>5, <1>6

\* The batch is of rows that nobody else has locked, and locks them.
LEMMA SelectClaims ==
  ASSUME Claims, NEW c \in Cycles, Select(c)
  PROVE  Claims'
<1> DEFINE S == Claimable(c)
           ids == Oldest(S)
           b == [i \in 1 .. Len(ids) |-> Entry(ids[i])]
           l == IF ids = <<>> THEN "release" ELSE "claim"
<1>1. /\ pc[c] = "select" /\ batch' = [batch EXCEPT ![c] = b]
      /\ rowLocks' = [rowLocks EXCEPT ![c] = ToSet(ids)]
      /\ pc' = [pc EXCEPT ![c] = l]
      /\ UNCHANGED <<status, attempts, due, sent, verdict, held, leaked, faults>>
  BY DEF Select, Goto, table, pool
<1>2. S \in SUBSET Messages /\ S \cap LockedByOthers(c) = {}
  BY DEF Claimable, Claims, TypeOK
<1>3. /\ ids \in Seq(S) /\ ids \in Seq(Messages)
      /\ \A i, j \in DOMAIN ids : ids[i] = ids[j] => i = j
  <2>1. ids \in Seq(S) /\ \A i, j \in DOMAIN ids : ids[i] = ids[j] => i = j
    BY <1>2, OldestBatch
  <2> QED BY <1>2, <2>1, SeqMonotonic
<1>4. /\ b \in Seq([id : Messages, attempts : Nat])
      /\ DOMAIN b = DOMAIN ids /\ DOMAIN ids = 1 .. Len(ids)
      /\ \A i \in DOMAIN b : b[i].id = ids[i] /\ b[i].attempts = attempts[ids[i]] + 1
      /\ b = <<>> <=> ids = <<>>
  BY <1>3, EntriesOf DEF Claims
<1>5. ToSet(ids) = {b[i].id : i \in DOMAIN b} /\ ToSet(ids) \subseteq S
  <2>1. \A i \in DOMAIN ids : ids[i] \in S
    BY <1>3, <1>4, ElementOfSeq
  <2>2. ToSet(ids) = {ids[i] : i \in DOMAIN ids}
    BY DEF ToSet
  <2>3. {ids[i] : i \in DOMAIN ids} = {b[i].id : i \in DOMAIN b}
    BY <1>4
  <2> QED BY <2>1, <2>2, <2>3
<1> HIDE DEF S, ids, b
<1>6. TypeOK'
  BY <1>1, <1>2, <1>4, <1>5 DEF Claims, TypeOK
<1>7. Alone(c) /\ batch'[c] = b /\ pc'[c] = l /\ rowLocks'[c] = ToSet(ids)
  BY <1>1 DEF Alone, Claims, TypeOK
<1>8. BatchShape(c)'
  <2>1. ids = <<>> => ToSet(ids) = {}
    BY <1>5, <1>4
  <2>2. Ids(c)' = ToSet(ids)
    BY <1>5, <1>7 DEF Ids
  <2>3. \A i, j \in DOMAIN b : b[i].id = b[j].id => i = j
    BY <1>3, <1>4
  <2>4. \A i \in DOMAIN b : b[i].attempts = attempts'[b[i].id] + 1
    BY <1>1, <1>4
  <2>5. CASE ids = <<>>
    BY <1>7, <2>1, <2>3, <2>5 DEF BatchShape
  <2>6. CASE ids # <<>>
    BY <1>7, <2>2, <2>3, <2>4, <2>6 DEF BatchShape
  <2> QED BY <2>5, <2>6
<1>9. \A m \in Messages : attempts[m] \in Nat /\ sent[m] \in Nat
  BY DEF Claims, TypeOK
<1>10. CopiesAreCounted'
  <2>1. ASSUME NEW m \in Messages PROVE Pending(m)' \subseteq Pending(m)
    <3>1. c \notin Pending(m)'
      BY <1>7 DEF Pending
    <3> QED BY <1>7, <3>1, PendingOfOthers
  <2> QED BY <1>1, <1>9, <2>1, CopiesKept DEF CopiesAreCounted
<1>11. PublishedWasSent' /\ FailedWasTried'
  BY <1>1 DEF Claims, PublishedWasSent, FailedWasTried
<1>12. \A m \in LockedByOthers(c) : attempts'[m] = attempts[m] /\ m \notin rowLocks'[c]
  BY <1>1, <1>2, <1>5, <1>7
<1>13. \A m \in Messages : attempts'[m] >= attempts[m] /\ sent'[m] >= sent[m]
  BY <1>1, <1>9
<1> QED BY <1>6, <1>7, <1>8, <1>10, <1>11, <1>12, <1>13, StepClaims

\* The commit of a batch counts one attempt more for each message in it.
LEMMA CountedAttempts ==
  ASSUME Claims, NEW c \in Cycles, Claim(c), NEW m \in Messages
  PROVE  attempts'[m] = IF m \in Ids(c) THEN attempts[m] + 1 ELSE attempts[m]
<1>1. BatchShape(c) /\ pc[c] = "claim"
  BY DEF Claims, Claim
<1>2. attempts'[m] = IF \E i \in DOMAIN batch[c] : batch[c][i].id = m
                     THEN (CHOOSE e \in ToSet(batch[c]) : e.id = m).attempts
                     ELSE attempts[m]
  BY DEF Claim
<1>3. CASE m \notin Ids(c)
  BY <1>2, <1>3 DEF Ids
<1>4. CASE m \in Ids(c)
  <2> DEFINE chosen == CHOOSE e \in ToSet(batch[c]) : e.id = m
  <2>1. \E e \in ToSet(batch[c]) : e.id = m
    BY <1>4 DEF Ids, ToSet
  <2>2. chosen \in ToSet(batch[c]) /\ chosen.id = m
    BY <2>1
  <2>3. PICK j \in DOMAIN batch[c] : chosen = batch[c][j]
    BY <2>2 DEF ToSet
  <2>4. attempts'[m] = chosen.attempts
    BY <1>2, <1>4 DEF Ids
  <2> HIDE DEF chosen
  <2> QED BY <1>1, <1>4, <2>2, <2>3, <2>4 DEF BatchShape
<1> QED BY <1>3, <1>4

\* Rows and counts are written together: c may send each message of its batch
\* once, and each of them is counted once more.
LEMMA ClaimClaims ==
  ASSUME Claims, NEW c \in Cycles, Claim(c)
  PROVE  Claims'
<1>1. /\ pc[c] = "claim" /\ pc' = [pc EXCEPT ![c] = "emit"]
      /\ rowLocks' = [rowLocks EXCEPT ![c] = {}]
      /\ UNCHANGED <<status, due, sent, batch, verdict, held, leaked, faults>>
  BY DEF Claim, Goto, pool
<1>2. Alone(c) /\ pc'[c] = "emit" /\ rowLocks'[c] = {} /\ batch'[c] = batch[c]
  BY <1>1 DEF Alone, Claims, TypeOK
<1>3. BatchShape(c) /\ TypeOK /\ rowLocks[c] = Ids(c)
  BY <1>1 DEF Claims, BatchShape
<1>4. \A m \in Messages : attempts[m] \in Nat /\ sent[m] \in Nat
  BY <1>3 DEF TypeOK
<1>5. \A m \in Messages :
        attempts'[m] = IF m \in Ids(c) THEN attempts[m] + 1 ELSE attempts[m]
  BY CountedAttempts
<1>6. \A m \in Messages : attempts'[m] \in Nat /\ attempts'[m] >= attempts[m]
  BY <1>4, <1>5
<1>7. TypeOK'
  <2>1. attempts' \in [Messages -> Nat]
    <3>1. DOMAIN attempts' = Messages /\ attempts' = [m \in Messages |-> attempts'[m]]
      BY DEF Claim
    <3> QED BY <1>6, <3>1
  <2> QED BY <1>1, <1>3, <2>1 DEF TypeOK
<1>8. BatchShape(c)'
  <2>1. \A i \in DOMAIN batch[c] : batch[c][i].id \in Messages /\ batch[c][i].id \in Ids(c)
    BY <1>3, BatchType DEF Ids
  <2>2. \A i \in DOMAIN batch[c] : batch[c][i].attempts <= attempts'[batch[c][i].id]
    BY <1>1, <1>3, <1>4, <1>5, <2>1 DEF BatchShape
  <2> QED BY <1>2, <1>3, <2>2 DEF BatchShape
<1>9. ASSUME NEW m \in LockedByOthers(c) PROVE attempts'[m] = attempts[m] /\ m \notin rowLocks'[c]
  <2>1. m \in Messages /\ m \notin rowLocks[c]
    BY <1>3 DEF LockedByOthers, RowsExclude, Claims, TypeOK
  <2> QED BY <1>2, <1>3, <1>5, <2>1
<1>10. ASSUME NEW m \in Messages PROVE sent'[m] + Cardinality(Pending(m)') <= attempts'[m]
  <2>1. CASE m \notin Ids(c)
    <3>1. c \notin Pending(m)'
      BY <1>2, <2>1 DEF Pending, Ids
    <3>2. Pending(m)' \subseteq Pending(m)
      BY <1>2, <3>1, PendingOfOthers
    <3> QED BY <1>1, <1>6, <3>2, CopiesKept
  <2>2. CASE m \in Ids(c)
    <3>1. c \notin Pending(m)
      BY <1>1 DEF Pending
    <3>2. Pending(m)' \subseteq Pending(m) \cup {c}
      BY <1>2, PendingOfOthers
    <3>3. /\ IsFiniteSet(Pending(m) \cup {c})
          /\ Cardinality(Pending(m) \cup {c}) = Cardinality(Pending(m)) + 1
      BY <3>1, PendingFinite, FS_AddElement
    <3>4. Cardinality(Pending(m)') <= Cardinality(Pending(m)) + 1 /\ Cardinality(Pending(m)') \in Nat
      BY <3>2, <3>3, FS_Subset, FS_CardinalityType
    <3>5. Cardinality(Pending(m)) \in Nat /\ sent[m] + Cardinality(Pending(m)) <= attempts[m]
      BY PendingFinite DEF Claims, CopiesAreCounted
    <3> QED BY <1>1, <1>4, <1>5, <2>2, <3>4, <3>5
  <2> QED BY <2>1, <2>2
<1>11. CopiesAreCounted'
  BY <1>10 DEF CopiesAreCounted
<1>12. PublishedWasSent' /\ FailedWasTried'
  <2>1. MaxAttempts \in Nat
    BY OutboxAssumption
  <2> QED BY <1>1, <1>4, <1>6, <2>1 DEF Claims, PublishedWasSent, FailedWasTried
<1>13. \A m \in Messages : attempts'[m] >= attempts[m] /\ sent'[m] >= sent[m]
  BY <1>1, <1>4, <1>6
<1> QED BY <1>2, <1>7, <1>8, <1>9, <1>11, <1>12, <1>13, StepClaims

\* A copy that leaves, or does not, spends what c could still send of it.
LEMMA SendClaims ==
  ASSUME Claims, NEW c \in Cycles, pc[c] = "emit", Goto(c, "mark"),
         NEW v \in {"ok", "failed"}, verdict' = [verdict EXCEPT ![c] = v],
         \/ sent' = [sent EXCEPT ![Current(c).id] = @ + 1]
         \/ v = "failed" /\ sent' = sent,
         UNCHANGED <<table, batch, rowLocks, pool>>, faults' \in Nat
  PROVE  Claims'
<1>0. PICK m0 : m0 = Current(c).id
  OBVIOUS
<1>1. /\ pc' = [pc EXCEPT ![c] = "mark"]
      /\ UNCHANGED <<status, attempts, due, batch, rowLocks, held, leaked>>
  BY DEF Goto, table, pool
<1>2. TypeOK /\ BatchShape(c)
  BY DEF Claims
<1>3. /\ Len(batch[c]) >= 1 /\ m0 \in Messages /\ m0 = batch[c][1].id
      /\ DOMAIN batch[c] = 1 .. Len(batch[c]) /\ Len(batch[c]) \in Nat
  BY <1>0, <1>2, BatchType
<1>4. \A m \in Messages : attempts[m] \in Nat /\ sent[m] \in Nat
  BY <1>2 DEF TypeOK
<1>5. Alone(c) /\ pc'[c] = "mark" /\ batch'[c] = batch[c] /\ rowLocks'[c] = {} /\ verdict'[c] = v
  BY <1>1, <1>2 DEF Alone, BatchShape, TypeOK
<1>6. \A m \in Messages : /\ m # m0 => sent'[m] = sent[m]
                          /\ sent'[m] \in {sent[m], sent[m] + 1}
                          /\ v = "ok" => sent'[m0] = sent[m0] + 1
  BY <1>0, <1>2, <1>3 DEF TypeOK
<1>7. TypeOK'
  <2>1. sent \in [Messages -> Nat]
    BY <1>2 DEF TypeOK
  <2>2. sent[m0] + 1 \in Nat
    BY <1>3, <1>4
  <2>3. sent' \in [Messages -> Nat]
    BY <1>0, <2>1, <2>2
  <2> QED BY <1>1, <1>2, <2>3 DEF TypeOK
<1>8. BatchShape(c)'
  <2>1. Current(c)' = Current(c)
    BY <1>1 DEF Current
  <2>2. v = "ok" => sent'[m0] > 0
    BY <1>3, <1>4, <1>6
  <2> QED BY <1>0, <1>1, <1>2, <1>5, <2>1, <2>2 DEF BatchShape
<1>9. ASSUME NEW m \in Messages \ {m0} PROVE sent'[m] + Cardinality(Pending(m)') <= attempts'[m]
  <2>1. c \in Pending(m)' => c \in Pending(m)
    BY <1>5 DEF Pending
  <2>2. Pending(m)' \subseteq Pending(m)
    BY <1>5, <2>1, PendingOfOthers
  <2>3. sent'[m] = sent[m] /\ attempts'[m] \in Nat /\ attempts'[m] >= attempts[m]
    BY <1>1, <1>4, <1>6
  <2> QED BY <2>2, <2>3, CopiesKept
<1>10. sent'[m0] + Cardinality(Pending(m0)') <= attempts'[m0]
  <2>1. c \in Pending(m0)
    BY <1>3 DEF Pending
  <2>2. c \notin Pending(m0)'
    <3>1. \A i \in DOMAIN batch[c] : batch[c][i].id = m0 => i = 1
      BY <1>2, <1>3 DEF BatchShape
    <3> QED BY <1>5, <3>1 DEF Pending
  <2>3. Pending(m0)' = Pending(m0) \ {c}
    <3> QED BY <1>5, <2>2, PendingOfOthers
  <2>4. Cardinality(Pending(m0)') = Cardinality(Pending(m0)) - 1
    BY <2>1, <2>3, PendingFinite, FS_RemoveElement
  <2>5. Cardinality(Pending(m0)) \in Nat /\ sent[m0] + Cardinality(Pending(m0)) <= attempts[m0]
    BY <1>3, PendingFinite DEF Claims, CopiesAreCounted
  <2> QED BY <1>1, <1>3, <1>4, <1>6, <2>4, <2>5
<1>11. CopiesAreCounted'
  <2>1. ASSUME NEW m \in Messages PROVE sent'[m] + Cardinality(Pending(m)') <= attempts'[m]
    <3>1. CASE m = m0
      BY <1>10, <3>1
    <3> QED BY <1>9, <3>1
  <2> QED BY <2>1 DEF CopiesAreCounted
<1>12. PublishedWasSent' /\ FailedWasTried'
  BY <1>1, <1>4, <1>6 DEF Claims, PublishedWasSent, FailedWasTried
<1>13. \A m \in LockedByOthers(c) : attempts'[m] = attempts[m] /\ m \notin rowLocks'[c]
  BY <1>1, <1>5
<1>14. \A m \in Messages : attempts'[m] >= attempts[m] /\ sent'[m] >= sent[m]
  BY <1>1, <1>4, <1>6
<1> QED BY <1>5, <1>7, <1>8, <1>11, <1>12, <1>13, <1>14, StepClaims

\* emit succeeds, or throws with or without the broker having accepted.
LEMMA EmitClaims ==
  ASSUME Claims, NEW c \in Cycles, Emit(c) \/ EmitFails(c)
  PROVE  Claims'
<1>1. faults' \in Nat
  BY DEF Emit, EmitFails, Claims, TypeOK
<1> QED BY <1>1, SendClaims DEF Emit, EmitFails

\* A batch that loses its head or is given up leaves c with less to send.
LEMMA ShrinkClaims ==
  ASSUME Claims, TypeOK', NEW c \in Cycles, Alone(c), NEW l, pc'[c] = l,
         \/ l = "release" /\ batch'[c] = <<>>
         \/ /\ l = "emit" /\ pc[c] = "mark"
            /\ batch'[c] = Tail(batch[c]),
         rowLocks'[c] = {}, UNCHANGED <<attempts, sent>>,
         PublishedWasSent', FailedWasTried'
  PROVE  Claims'
<1>1. TypeOK /\ BatchShape(c)
  BY DEF Claims
<1>2. ASSUME l = "emit", pc[c] = "mark", batch'[c] = Tail(batch[c])
      PROVE  /\ DOMAIN batch'[c] \subseteq Nat \ {0}
             /\ \A i \in DOMAIN batch'[c] :
                  i + 1 \in DOMAIN batch[c] /\ batch'[c][i] = batch[c][i + 1]
  <2>1. batch[c] \in Seq([id : Messages, attempts : Nat]) /\ batch[c] # <<>>
    BY <1>1, <1>2 DEF TypeOK
  <2>2. /\ Tail(batch[c]) \in Seq([id : Messages, attempts : Nat])
        /\ Len(Tail(batch[c])) = Len(batch[c]) - 1
        /\ \A i \in 1 .. Len(Tail(batch[c])) : Tail(batch[c])[i] = batch[c][i + 1]
    BY <2>1, HeadTailProperties
  <2>3. DOMAIN batch[c] = 1 .. Len(batch[c]) /\ Len(batch[c]) \in Nat
    BY <2>1, LenProperties
  <2>4. DOMAIN Tail(batch[c]) = 1 .. Len(Tail(batch[c]))
    BY <2>2, LenProperties
  <2> QED BY <1>2, <2>2, <2>3, <2>4
<1>3. BatchShape(c)'
  <2>1. CASE l = "release" /\ batch'[c] = <<>>
    BY <2>1 DEF BatchShape
  <2>2. CASE l = "emit" /\ pc[c] = "mark" /\ batch'[c] = Tail(batch[c])
    <3>1. \A i, j \in DOMAIN batch'[c] : batch'[c][i].id = batch'[c][j].id => i = j
      BY <1>1, <1>2, <2>2 DEF BatchShape
    <3>2. \A i \in DOMAIN batch'[c] : batch'[c][i].attempts <= attempts[batch'[c][i].id]
      BY <1>1, <1>2, <2>2 DEF BatchShape
    <3> QED BY <2>2, <3>1, <3>2 DEF BatchShape
  <2> QED BY <2>1, <2>2
<1>4. ASSUME NEW m \in Messages PROVE Pending(m)' \subseteq Pending(m)
  <2>1. CASE l = "release" /\ batch'[c] = <<>>
    <3>1. c \notin Pending(m)'
      BY <2>1 DEF Pending
    <3> QED BY <3>1, PendingOfOthers
  <2>2. CASE l = "emit" /\ pc[c] = "mark" /\ batch'[c] = Tail(batch[c])
    <3>1. c \in Pending(m)' => \E i \in DOMAIN batch'[c] : batch'[c][i].id = m
      BY DEF Pending
    <3>2. c \in Pending(m)' => \E i \in DOMAIN batch[c] : batch[c][i].id = m /\ i # 1
      BY <1>2, <2>2, <3>1
    <3>3. c \in Pending(m)' => c \in Pending(m)
      BY <2>2, <3>2 DEF Pending
    <3> QED BY <3>3, PendingOfOthers
  <2> QED BY <2>1, <2>2
<1>5. \A m \in Messages : attempts[m] \in Nat /\ sent[m] \in Nat
  BY <1>1 DEF TypeOK
<1>6. CopiesAreCounted'
  BY <1>4, <1>5, CopiesKept DEF CopiesAreCounted
<1> QED BY <1>3, <1>5, <1>6, StepClaims

\* The update to published is of a message that the broker has accepted, and
\* the one to failed of a message that was claimed often enough.
LEMMA MarkClaims ==
  ASSUME Claims, NEW c \in Cycles, MarkPublished(c) \/ MarkFailed(c)
  PROVE  Claims'
<1> DEFINE m0 == Current(c).id
           l == IF Len(batch[c]) = 1 THEN "release" ELSE "emit"
<1>1. /\ pc[c] = "mark" /\ pc' = [pc EXCEPT ![c] = l]
      /\ batch' = [batch EXCEPT ![c] = Tail(@)]
      /\ UNCHANGED <<attempts, sent, verdict, rowLocks, held, leaked, faults>>
  BY DEF MarkPublished, MarkFailed, Proceed, Goto, pool
<1>2. TypeOK /\ BatchShape(c)
  BY DEF Claims
<1>3. /\ Len(batch[c]) >= 1 /\ m0 \in Messages /\ m0 = batch[c][1].id
      /\ DOMAIN batch[c] = 1 .. Len(batch[c]) /\ Len(batch[c]) \in Nat
      /\ batch[c][1].attempts \in Nat /\ Current(c) = batch[c][1]
  BY <1>1, <1>2, BatchType
<1>4. /\ Alone(c) /\ pc'[c] = l /\ batch'[c] = Tail(batch[c]) /\ rowLocks'[c] = {}
  BY <1>1, <1>2 DEF Alone, BatchShape, TypeOK
<1>5. /\ Tail(batch[c]) \in Seq([id : Messages, attempts : Nat])
      /\ l = "release" => Tail(batch[c]) = <<>>
      /\ l = "emit" => Tail(batch[c]) # <<>>
  <2>1. batch[c] \in Seq([id : Messages, attempts : Nat]) /\ batch[c] # <<>>
    BY <1>1, <1>2 DEF TypeOK
  <2>2. /\ Tail(batch[c]) \in Seq([id : Messages, attempts : Nat])
        /\ Len(Tail(batch[c])) = Len(batch[c]) - 1
    BY <2>1, HeadTailProperties
  <2>3. Tail(batch[c]) = <<>> <=> Len(Tail(batch[c])) = 0
    BY <2>2, EmptySeq
  <2> QED BY <1>3, <2>2, <2>3
<1>6. \E s \in {"pending", "published", "failed"} :
        /\ status' = [status EXCEPT ![m0] = s]
        /\ s = "published" => verdict[c] = "ok"
        /\ s = "failed" => batch[c][1].attempts >= MaxAttempts
  BY <1>3 DEF MarkPublished, MarkFailed, Outcome
<1>7. PublishedWasSent'
  <2>1. verdict[c] = "ok" => sent[m0] > 0
    BY <1>1, <1>2 DEF BatchShape
  <2> QED BY <1>1, <1>2, <1>6, <2>1 DEF Claims, PublishedWasSent, TypeOK
<1>8. FailedWasTried'
  <2>1. batch[c][1].attempts <= attempts[m0] /\ attempts[m0] \in Nat /\ MaxAttempts \in Nat
    <3>1. 1 \in DOMAIN batch[c]
      BY <1>3
    <3> QED BY <1>1, <1>2, <1>3, <3>1, OutboxAssumption DEF BatchShape, TypeOK
  <2>2. batch[c][1].attempts >= MaxAttempts => attempts[m0] >= MaxAttempts
    BY <1>3, <2>1
  <2> QED BY <1>1, <1>2, <1>6, <2>2 DEF Claims, FailedWasTried, TypeOK
<1>9. TypeOK'
  <2>1. due' \subseteq Messages
    BY <1>2, <1>3 DEF MarkPublished, MarkFailed, TypeOK
  <2>2. status' \in [Messages -> {"absent", "pending", "published", "failed"}]
    BY <1>2, <1>6 DEF TypeOK
  <2> QED BY <1>1, <1>2, <1>5, <2>1, <2>2 DEF TypeOK
<1> QED BY <1>1, <1>4, <1>5, <1>7, <1>8, <1>9, ShrinkClaims

\* A cycle that gives up its batch is as well typed as before.
LEMMA GivenUpType ==
  ASSUME TypeOK, NEW c \in Cycles, pc' = [pc EXCEPT ![c] = "release"],
         batch' = [batch EXCEPT ![c] = <<>>], faults' = faults + 1,
         rowLocks' \in [Cycles -> SUBSET Messages],
         UNCHANGED <<status, attempts, due, sent, verdict, held, leaked>>
  PROVE  TypeOK'
<1>1. batch' \in [Cycles -> Seq([id : Messages, attempts : Nat])]
  <2>1. batch \in [Cycles -> Seq([id : Messages, attempts : Nat])]
    BY DEF TypeOK
  <2> QED BY <2>1, EmptySeq
<1>2. \A d \in Cycles : pc'[d] \in {"claim", "emit", "mark"} <=> batch'[d] # <<>>
  <2>1. pc'[c] = "release" /\ batch'[c] = <<>>
    BY DEF TypeOK
  <2>2. \A d \in Cycles \ {c} : pc'[d] = pc[d] /\ batch'[d] = batch[d]
    BY DEF TypeOK
  <2> QED BY <2>1, <2>2 DEF TypeOK
<1>3. faults' \in Nat /\ pc' \in [Cycles -> {"idle", "connect", "select", "claim", "emit", "mark", "release"}]
  BY DEF TypeOK
<1> QED BY <1>1, <1>2, <1>3 DEF TypeOK

\* A failed update makes a sent message count as failed, or ends the cycle.
LEMMA MarkFailsClaims ==
  ASSUME Claims, NEW c \in Cycles, MarkFails(c)
  PROVE  Claims'
<1>1. /\ pc[c] = "mark" /\ faults' = faults + 1
      /\ UNCHANGED <<status, attempts, due, sent, rowLocks, held, leaked>>
  BY DEF MarkFails, table, pool
<1>2. TypeOK /\ BatchShape(c) /\ PublishedWasSent' /\ FailedWasTried'
  BY <1>1 DEF Claims, PublishedWasSent, FailedWasTried
<1>3. \A m \in Messages : attempts[m] \in Nat /\ sent[m] \in Nat
  BY <1>2 DEF TypeOK
<1>4. CASE verdict' = [verdict EXCEPT ![c] = "failed"] /\ UNCHANGED <<pc, batch>>
  <2>1. TypeOK'
    <3>1. faults' \in Nat /\ verdict' \in [Cycles -> {"ok", "failed"}]
      BY <1>1, <1>2, <1>4 DEF TypeOK
    <3> QED BY <1>1, <1>2, <1>4, <3>1 DEF TypeOK
  <2>2. Alone(c) /\ verdict'[c] = "failed"
    BY <1>1, <1>2, <1>4 DEF Alone, TypeOK
  <2>3. BatchShape(c)'
    BY <1>1, <1>2, <1>4, <2>2 DEF BatchShape
  <2>4. CopiesAreCounted'
    <3>1. \A m \in Messages : Pending(m)' = Pending(m)
      BY <1>4 DEF Pending
    <3> QED BY <1>1, <1>3, <3>1, CopiesKept DEF CopiesAreCounted
  <2>5. \A m \in LockedByOthers(c) : m \notin rowLocks'[c]
    BY <1>1, <1>2 DEF BatchShape
  <2>6. \A m \in Messages : attempts'[m] >= attempts[m] /\ sent'[m] >= sent[m]
    BY <1>1, <1>3
  <2> QED BY <1>1, <1>2, <2>1, <2>2, <2>3, <2>4, <2>5, <2>6, StepClaims
<1>5. CASE batch' = [batch EXCEPT ![c] = <<>>] /\ Goto(c, "release") /\ UNCHANGED verdict
  <2>1. pc' = [pc EXCEPT ![c] = "release"] /\ pc'[c] = "release" /\ batch'[c] = <<>>
    BY <1>2, <1>5 DEF Goto, TypeOK
  <2>2. Alone(c) /\ rowLocks'[c] = {}
    BY <1>1, <1>2, <1>5, <2>1 DEF Alone, BatchShape, TypeOK
  <2>3. TypeOK'
    <3>1. rowLocks' \in [Cycles -> SUBSET Messages]
      BY <1>1, <1>2 DEF TypeOK
    <3> QED BY <1>1, <1>2, <1>5, <2>1, <3>1, GivenUpType
  <2> QED BY <1>1, <1>2, <2>1, <2>2, <2>3, ShrinkClaims
<1> QED BY <1>4, <1>5 DEF MarkFails

\* A rollback gives the rows back as they were.
LEMMA ClaimFailsClaims ==
  ASSUME Claims, NEW c \in Cycles, ClaimFails(c)
  PROVE  Claims'
<1>1. /\ pc' = [pc EXCEPT ![c] = "release"] /\ faults' = faults + 1
      /\ batch' = [batch EXCEPT ![c] = <<>>] /\ rowLocks' = [rowLocks EXCEPT ![c] = {}]
      /\ UNCHANGED <<status, attempts, due, sent, verdict, held, leaked>>
  BY DEF ClaimFails, Goto, table, pool
<1>2. TypeOK /\ PublishedWasSent' /\ FailedWasTried'
  BY <1>1 DEF Claims, PublishedWasSent, FailedWasTried
<1>3. Alone(c) /\ pc'[c] = "release" /\ batch'[c] = <<>> /\ rowLocks'[c] = {}
  BY <1>1, <1>2 DEF Alone, TypeOK
<1>4. TypeOK'
  <2>1. rowLocks' \in [Cycles -> SUBSET Messages]
    BY <1>1, <1>2 DEF TypeOK
  <2> QED BY <1>1, <1>2, <2>1, GivenUpType
<1> QED BY <1>1, <1>2, <1>3, <1>4, ShrinkClaims

\* A restart forgets every batch; what was counted stays counted.
LEMMA CrashClaims ==
  ASSUME Claims, Crash
  PROVE  Claims'
<1>1. /\ faults' = faults + 1 /\ UNCHANGED <<status, attempts, due, sent>>
      /\ pc' = [c \in Cycles |-> "idle"] /\ batch' = [c \in Cycles |-> <<>>]
      /\ verdict' = [c \in Cycles |-> "ok"] /\ rowLocks' = [c \in Cycles |-> {}]
      /\ held' = {} /\ leaked' = 0
  BY DEF Crash, table
<1>2. TypeOK'
  BY <1>1, OutboxAssumption, FS_EmptySet, EmptySeq DEF Claims, TypeOK
<1>3. ASSUME NEW c \in Cycles PROVE BatchShape(c)'
  BY <1>1 DEF BatchShape
<1>4. RowsExclude' /\ PublishedWasSent' /\ FailedWasTried'
  BY <1>1 DEF Claims, RowsExclude, PublishedWasSent, FailedWasTried
<1>5. CopiesAreCounted'
  <2>1. \A m \in Messages : Pending(m)' = {}
    BY <1>1 DEF Pending
  <2>2. \A m \in Messages : attempts[m] \in Nat /\ sent[m] \in Nat
    BY DEF Claims, TypeOK
  <2> QED BY <1>1, <2>1, <2>2, CopiesKept DEF CopiesAreCounted
<1> QED BY <1>2, <1>3, <1>4, <1>5 DEF Claims

\* A step that changes nothing, but may be a fault of another process.
LEMMA StutterClaims ==
  ASSUME Claims, UNCHANGED <<table, sent, pc, batch, verdict, rowLocks, pool>>, faults' \in Nat
  PROVE  Claims'
<1>1. UNCHANGED <<status, attempts, due, sent, pc, batch, verdict, rowLocks, held, leaked>>
  BY DEF table, pool
<1>2. TypeOK'
  BY <1>1 DEF Claims, TypeOK
<1>3. ASSUME NEW c \in Cycles PROVE BatchShape(c)'
  <2>1. \A m \in Messages : attempts[m] \in Nat /\ sent[m] \in Nat
    BY DEF Claims, TypeOK
  <2> QED BY <1>1, <2>1, OthersKeepBatch
<1>4. RowsExclude' /\ PublishedWasSent' /\ FailedWasTried' /\ CopiesAreCounted'
  BY <1>1 DEF Claims, RowsExclude, PublishedWasSent, FailedWasTried, CopiesAreCounted, Pending
<1> QED BY <1>2, <1>3, <1>4 DEF Claims

\* Every step keeps the invariant.
LEMMA NextClaims == Claims /\ [Next]_vars => Claims'
<1> SUFFICES ASSUME Claims, [Next]_vars PROVE Claims'
  OBVIOUS
<1>1. ASSUME NEW m \in Messages, Enqueue(m) \/ BecomeDue(m) PROVE Claims'
  BY <1>1, EnvironmentClaims
<1>2. ASSUME NEW c \in Cycles, Tick(c) \/ Step(c) PROVE Claims'
  BY <1>2, PoolClaims, SelectClaims, ClaimClaims, EmitClaims, MarkClaims DEF Step
<1>3. ASSUME NEW c \in Cycles,
             EmitFails(c) \/ MarkFails(c) \/ ClaimFails(c) \/ BeginFails(c)
      PROVE  Claims'
  BY <1>3, EmitClaims, MarkFailsClaims, ClaimFailsClaims, PoolClaims
<1>4. ASSUME Crash PROVE Claims'
  BY <1>4, CrashClaims
<1>5. ASSUME UNCHANGED vars PROVE Claims'
  <2>1. faults' \in Nat
    BY <1>5 DEF vars, Claims, TypeOK
  <2> QED BY <1>5, <2>1, StutterClaims DEF vars
<1> QED BY <1>1, <1>2, <1>3, <1>4, <1>5 DEF Next

\* Every state the publisher reaches has the invariant.
LEMMA AlwaysClaims == Spec => []Claims
BY InitClaims, NextClaims, PTL DEF Spec

\* A step is at most one fault, and has at most one copy accepted.
LEMMA NextSends ==
  ASSUME Claims, [Next]_vars
  PROVE  /\ faults' \in {faults, faults + 1}
         /\ sent' = sent \/ \E m \in Messages : sent' = [sent EXCEPT ![m] = @ + 1]
<1> USE DEF table, pool
<1>1. ASSUME NEW m \in Messages, Enqueue(m) \/ BecomeDue(m)
      PROVE  faults' = faults /\ sent' = sent
  BY <1>1 DEF Enqueue, BecomeDue
<1>2. ASSUME NEW c \in Cycles,
             \/ Tick(c) \/ Connect(c) \/ Select(c) \/ Claim(c) \/ MarkPublished(c)
             \/ MarkFailed(c) \/ Release(c) \/ BeginFails(c)
      PROVE  faults' = faults /\ sent' = sent
  BY <1>2 DEF Tick, Connect, Select, Claim, MarkPublished, MarkFailed, Release, BeginFails
<1>3. ASSUME NEW c \in Cycles, Emit(c) \/ EmitFails(c)
      PROVE  /\ faults' \in {faults, faults + 1} /\ pc[c] = "emit"
             /\ sent' = sent \/ sent' = [sent EXCEPT ![Current(c).id] = @ + 1]
  BY <1>3 DEF Emit, EmitFails
<1>4. ASSUME NEW c \in Cycles, pc[c] = "emit" PROVE Current(c).id \in Messages
  BY <1>4, BatchType DEF Claims
<1>5. ASSUME Crash \/ \E c \in Cycles : MarkFails(c) \/ ClaimFails(c)
      PROVE  faults' = faults + 1 /\ sent' = sent
  BY <1>5 DEF Crash, MarkFails, ClaimFails
<1>6. CASE UNCHANGED vars
  BY <1>6 DEF vars
<1> QED BY <1>1, <1>2, <1>3, <1>4, <1>5, <1>6 DEF Next, Step

\* The state is well typed, and no more connections are out than the pool has.
THEOREM TypeCorrect == Spec => []TypeOK
<1>1. Claims => TypeOK
  BY DEF Claims
<1> QED BY <1>1, AlwaysClaims, PTL

\* What is marked published was accepted by the broker, whatever cycles overlap,
\* fail and restart.
THEOREM PublishedIsSent == Spec => []PublishedWasSent
<1>1. Claims => PublishedWasSent
  BY DEF Claims
<1> QED BY <1>1, AlwaysClaims, PTL

\* What is given up was tried as often as the limit says.
THEOREM FailedIsTried == Spec => []FailedWasTried
<1>1. Claims => FailedWasTried
  BY DEF Claims
<1> QED BY <1>1, AlwaysClaims, PTL

\* The broker never gets more copies of a message than attempts were counted.
THEOREM CopiesBounded == Spec => []CopiesAreCounted
<1>1. Claims => CopiesAreCounted
  BY DEF Claims
<1> QED BY <1>1, AlwaysClaims, PTL
=============================================================================
