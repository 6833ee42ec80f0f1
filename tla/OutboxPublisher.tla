-------------------------- MODULE OutboxPublisher --------------------------
(***************************************************************************)
(* OutboxPublisherService: every second a timer starts a publishing cycle, *)
(* whether or not earlier cycles have ended.  A cycle takes a connection,  *)
(* claims a batch of due messages under row locks, commits, and then       *)
(* publishes the batch one by one; the outcome of each is written through  *)
(* the data source, on a second connection of the same pool, while the     *)
(* cycle still holds its own.                                              *)
(*                                                                         *)
(* External: the write path that enqueues, RabbitMQ, and the clock.        *)
(***************************************************************************)
EXTENDS Integers, FiniteSets, Sequences, FiniteSetsExt, SequencesExt

CONSTANTS
  Messages,    \* outbox messages, numbered by createdAt
  Cycles,      \* publishing cycles that can be open at the same time
  BatchSize,   \* messages claimed by one cycle
  MaxAttempts, \* MAX_ATTEMPTS_BEFORE_FAILURE
  PoolSize,    \* connections in the pool of the data source
  MaxFaults,   \* bound on injected faults
  MaxLeaks     \* bound on transactions that fail to begin

ASSUME OutboxAssumption ==
  /\ Messages \subseteq Nat /\ IsFiniteSet(Messages) /\ IsFiniteSet(Cycles)
  /\ BatchSize \in Nat \ {0}
  /\ MaxAttempts \in Nat \ {0}
  /\ PoolSize \in Nat \ {0}
  /\ MaxFaults \in Nat /\ MaxLeaks \in Nat

VARIABLES
  status,   \* status[m]: "absent" until the write path commits m
  attempts, \* attempts[m]
  due,      \* messages whose nextAttemptAt is null or has passed
  sent,     \* sent[m]: copies of m that the broker has accepted
  pc,       \* pc[c]: where cycle c is
  batch,    \* batch[c]: what c has read and not published, in order
  verdict,  \* verdict[c]: "ok" or "failed", how the publishing of the head went
  rowLocks, \* rowLocks[c]: message rows locked by the transaction of c
  held,     \* cycles that hold a connection
  leaked,   \* number of connections that nobody will release
  faults    \* number of faults injected

table == <<status, attempts, due>>
pool == <<held, leaked>>
vars == <<table, sent, pc, batch, verdict, rowLocks, pool, faults>>

Goto(c, l) == pc' = [pc EXCEPT ![c] = l]

Init ==
  /\ status = [m \in Messages |-> "absent"]
  /\ attempts = [m \in Messages |-> 0]
  /\ due = {}
  /\ sent = [m \in Messages |-> 0]
  /\ pc = [c \in Cycles |-> "idle"]
  /\ batch = [c \in Cycles |-> <<>>]
  /\ verdict = [c \in Cycles |-> "ok"]
  /\ rowLocks = [c \in Cycles |-> {}]
  /\ held = {}
  /\ leaked = 0
  /\ faults = 0

-----------------------------------------------------------------------------
(* The environment *)

\* enqueueOutbox and the commit of the wallet command.
Enqueue(m) ==
  /\ status[m] = "absent"
  /\ status' = [status EXCEPT ![m] = "pending"]
  /\ due' = due \cup {m}
  /\ UNCHANGED <<attempts, sent, pc, batch, verdict, rowLocks, pool, faults>>

\* nextAttemptAt passes.
MutBecomeDue(m) == FALSE
BecomeDue(m) ==
  /\ status[m] = "pending" /\ m \notin due
  /\ due' = due \cup {m}
  /\ UNCHANGED <<status, attempts, sent, pc, batch, verdict, rowLocks, pool, faults>>

-----------------------------------------------------------------------------
(* A cycle: publishPending *)

\* The timer fires.
Tick(c) ==
  /\ pc[c] = "idle"
  /\ Goto(c, "connect")
  /\ UNCHANGED <<table, sent, batch, verdict, rowLocks, pool, faults>>

\* The pool has a connection to give.
CanConnect == Cardinality(held) + leaked < PoolSize

Connect(c) ==
  /\ pc[c] = "connect"
  /\ CanConnect
  /\ held' = held \cup {c}
  /\ Goto(c, "select")
  /\ UNCHANGED <<table, sent, batch, verdict, rowLocks, leaked, faults>>

\* startTransaction throws, outside the try block: safePublishCycle logs it, and
\* the connection is never released.
BeginFails(c) ==
  /\ leaked < MaxLeaks
  /\ pc[c] = "connect"
  /\ CanConnect
  /\ leaked' = leaked + 1
  /\ Goto(c, "idle")
  /\ UNCHANGED <<table, sent, batch, verdict, rowLocks, held, faults>>

LockedByOthers(c) == UNION {rowLocks[d] : d \in Cycles \ {c}}

\* SELECT ... FOR UPDATE SKIP LOCKED: pending, due, oldest first.
MutClaimable(c) == {m \in due : status[m] = "pending"}
Claimable(c) == {m \in due : status[m] = "pending"} \ LockedByOthers(c)

\* The first BatchSize messages of S in the order of createdAt.
Rank(m, S) == Cardinality({x \in S : x <= m})
Oldest(S) ==
  [i \in 1 .. Min({BatchSize, Cardinality(S)}) |-> CHOOSE m \in S : Rank(m, S) = i]

MutEntry(m) == [id |-> m, attempts |-> attempts[m]]
Entry(m) == [id |-> m, attempts |-> attempts[m] + 1]

\* The batch is read under its locks and attempts are incremented in memory.
Select(c) ==
  LET ids == Oldest(Claimable(c)) IN
  /\ pc[c] = "select"
  /\ batch' = [batch EXCEPT ![c] = [i \in 1 .. Len(ids) |-> Entry(ids[i])]]
  /\ rowLocks' = [rowLocks EXCEPT ![c] = ToSet(ids)]
  /\ Goto(c, IF ids = <<>> THEN "release" ELSE "claim")
  /\ UNCHANGED <<table, sent, verdict, pool, faults>>

\* save(messages) and commit; the status stays pending.
Claim(c) ==
  /\ pc[c] = "claim"
  /\ attempts' = [m \in Messages |->
                    IF \E i \in DOMAIN batch[c] : batch[c][i].id = m
                    THEN (CHOOSE e \in ToSet(batch[c]) : e.id = m).attempts
                    ELSE attempts[m]]
  /\ rowLocks' = [rowLocks EXCEPT ![c] = {}]
  /\ Goto(c, "emit")
  /\ UNCHANGED <<status, due, sent, batch, verdict, pool, faults>>

Current(c) == Head(batch[c])

\* client.emit succeeds.
MutEmit(c) ==
  /\ pc[c] = "emit"
  /\ \/ UNCHANGED sent
     \/ sent' = [sent EXCEPT ![Current(c).id] = @ + 1]
  /\ verdict' = [verdict EXCEPT ![c] = "ok"]
  /\ Goto(c, "mark")
  /\ UNCHANGED <<table, batch, rowLocks, pool, faults>>
Emit(c) ==
  /\ pc[c] = "emit"
  /\ sent' = [sent EXCEPT ![Current(c).id] = @ + 1]
  /\ verdict' = [verdict EXCEPT ![c] = "ok"]
  /\ Goto(c, "mark")
  /\ UNCHANGED <<table, batch, rowLocks, pool, faults>>

\* client.emit throws; the broker may have accepted the message all the same.
EmitFails(c) ==
  /\ faults < MaxFaults
  /\ pc[c] = "emit"
  /\ faults' = faults + 1
  /\ \/ UNCHANGED sent
     \/ sent' = [sent EXCEPT ![Current(c).id] = @ + 1]
  /\ verdict' = [verdict EXCEPT ![c] = "failed"]
  /\ Goto(c, "mark")
  /\ UNCHANGED <<table, batch, rowLocks, pool>>

\* dataSource.manager.update: a connection besides the one c holds, and a row
\* that no other cycle has locked.
CanUpdate(c) ==
  /\ CanConnect
  /\ Current(c).id \notin LockedByOthers(c)

MutProceed(c) ==
  /\ batch' = [batch EXCEPT ![c] = Tail(@)]
  /\ Goto(c, "emit")
Proceed(c) ==
  /\ batch' = [batch EXCEPT ![c] = Tail(@)]
  /\ Goto(c, IF Len(batch[c]) = 1 THEN "release" ELSE "emit")

\* Written by id alone, whatever the row has become.
MarkPublished(c) ==
  LET m == Current(c).id IN
  /\ pc[c] = "mark" /\ verdict[c] = "ok"
  /\ CanUpdate(c)
  /\ status' = [status EXCEPT ![m] = "published"]
  /\ due' = due \cup {m}
  /\ Proceed(c)
  /\ UNCHANGED <<attempts, sent, verdict, rowLocks, pool, faults>>

\* Failed for good once the attempts counted when the batch was claimed reach
\* the limit, otherwise pending with a backoff.
MutOutcome(c) == IF Current(c).attempts + 1 >= MaxAttempts THEN "failed" ELSE "pending"
Outcome(c) == IF Current(c).attempts >= MaxAttempts THEN "failed" ELSE "pending"

MarkFailed(c) ==
  LET m == Current(c).id IN
  /\ pc[c] = "mark" /\ verdict[c] = "failed"
  /\ CanUpdate(c)
  /\ status' = [status EXCEPT ![m] = Outcome(c)]
  /\ due' = due \ {m}
  /\ Proceed(c)
  /\ UNCHANGED <<attempts, sent, verdict, rowLocks, pool, faults>>

\* The update fails: an update to published makes the message count as failed,
\* one to failed or pending ends the cycle and abandons the rest of the batch.
MarkFails(c) ==
  /\ faults < MaxFaults
  /\ pc[c] = "mark"
  /\ faults' = faults + 1
  /\ \/ /\ verdict[c] = "ok"
        /\ verdict' = [verdict EXCEPT ![c] = "failed"]
        /\ UNCHANGED <<pc, batch>>
     \/ /\ verdict[c] = "failed"
        /\ batch' = [batch EXCEPT ![c] = <<>>]
        /\ Goto(c, "release")
        /\ UNCHANGED verdict
  /\ UNCHANGED <<table, sent, rowLocks, pool>>

\* A statement before the commit fails: rollback, nothing was claimed.
ClaimFails(c) ==
  /\ faults < MaxFaults
  /\ pc[c] \in {"select", "claim"}
  /\ faults' = faults + 1
  /\ batch' = [batch EXCEPT ![c] = <<>>]
  /\ rowLocks' = [rowLocks EXCEPT ![c] = {}]
  /\ Goto(c, "release")
  /\ UNCHANGED <<table, sent, verdict, pool>>

Release(c) ==
  /\ pc[c] = "release"
  /\ held' = held \ {c}
  /\ Goto(c, "idle")
  /\ UNCHANGED <<table, sent, batch, verdict, rowLocks, leaked, faults>>

\* The process dies and starts again: open transactions roll back, batches
\* in memory are forgotten.
Crash ==
  /\ faults < MaxFaults
  /\ faults' = faults + 1
  /\ pc' = [c \in Cycles |-> "idle"]
  /\ batch' = [c \in Cycles |-> <<>>]
  /\ verdict' = [c \in Cycles |-> "ok"]
  /\ rowLocks' = [c \in Cycles |-> {}]
  /\ held' = {}
  /\ leaked' = 0
  /\ UNCHANGED <<table, sent>>

-----------------------------------------------------------------------------
Step(c) ==
  \/ Connect(c) \/ Select(c) \/ Claim(c) \/ Emit(c)
  \/ MarkPublished(c) \/ MarkFailed(c) \/ Release(c)

Next ==
  \/ \E m \in Messages : Enqueue(m) \/ BecomeDue(m)
  \/ \E c \in Cycles :
       Tick(c) \/ Step(c) \/ EmitFails(c) \/ MarkFails(c) \/ ClaimFails(c) \/ BeginFails(c)
  \/ Crash

Spec == Init /\ [][Next]_vars

\* The timer keeps firing, time passes, and a cycle goes on when the pool, the
\* rows and the broker let it.
FairSpec ==
  /\ Spec
  /\ \A m \in Messages : WF_vars(BecomeDue(m))
  /\ \A c \in Cycles : WF_vars(Tick(c)) /\ WF_vars(Step(c))

-----------------------------------------------------------------------------
(* Properties *)

\* The type invariant.
TypeOK ==
  /\ status \in [Messages -> {"absent", "pending", "published", "failed"}]
  /\ attempts \in [Messages -> Nat]
  /\ due \subseteq Messages
  /\ sent \in [Messages -> Nat]
  /\ pc \in [Cycles -> {"idle", "connect", "select", "claim", "emit", "mark", "release"}]
  /\ batch \in [Cycles -> Seq([id : Messages, attempts : Nat])]
  /\ \A c \in Cycles : pc[c] \in {"claim", "emit", "mark"} <=> batch[c] # <<>>
  /\ verdict \in [Cycles -> {"ok", "failed"}]
  /\ rowLocks \in [Cycles -> SUBSET Messages]
  /\ held \subseteq Cycles
  /\ leaked \in Nat /\ Cardinality(held) + leaked <= PoolSize
  /\ faults \in Nat

\* Nothing is marked published that the broker has not accepted, whatever
\* overlaps, fails or crashes between the two.
PublishedWasSent == \A m \in Messages : status[m] = "published" => sent[m] > 0

\* A message is given up only after the maximum of attempts.
FailedWasTried == \A m \in Messages : status[m] = "failed" => attempts[m] >= MaxAttempts

\* The cycles that have claimed m and may yet send it.
Pending(m) ==
  {c \in Cycles : pc[c] \in {"emit", "mark"} /\
     \E i \in DOMAIN batch[c] : batch[c][i].id = m /\ (i = 1 => pc[c] = "emit")}

\* No more copies reach the broker than attempts were counted: the count is
\* committed before each copy leaves, and claims never overwrite each other.
CopiesAreCounted == \A m \in Messages : sent[m] + Cardinality(Pending(m)) <= attempts[m]

\* At-least-once delivery (DESIGN.md:60): every enqueued message reaches the
\* broker or is given up as failed.
Delivered ==
  \A m \in Messages : status[m] = "pending" ~> sent[m] > 0 \/ status[m] = "failed"

\* Every enqueued message leaves the pending state for good; with
\* PublishedWasSent and FailedWasTried this is at-least-once delivery.
Settled ==
  \A m \in Messages : status[m] = "pending" ~> [](status[m] \in {"published", "failed"})
=============================================================================
