--------------------------- MODULE EventPipeline ---------------------------
(***************************************************************************)
(* From a committed event to its analytics: the outbox publisher, a queue  *)
(* of RabbitMQ, and the worker.                                            *)
(*                                                                         *)
(* A copy of a message is a pair of the message and its number; it is in   *)
(* the queue once the publisher has had it accepted.  The queue is durable *)
(* and its consumer acknowledges, but messages are sent without the        *)
(* persistent option: a broker that restarts has the queue, and none of    *)
(* the messages that nobody had acknowledged.                              *)
(***************************************************************************)
EXTENDS Integers, FiniteSets

CONSTANTS
  Events, Wallets, KnownWallets, Prefetch, HighAmount, RapidWithdrawal,
  Cycles, BatchSize, MaxAttempts, PoolSize, MaxLeaks, MaxFaults, MaxReplays,
  MaxCopies,  \* bound on the copies of a message, more than the publisher sends
  MaxRestarts \* bound on restarts of the broker

Messages == DOMAIN Events
Copies == Messages \X (1 .. MaxCopies)

VARIABLES
  status, attempts, due, sent, cycle, batch, verdict, rowLocks, held, leaked,
  known, spaced, rows, stats, consumed, message, handler, entity, seen, rowLock,
  applied, faults, replays,
  lost,     \* copies the broker has lost
  restarts  \* number of restarts of the broker

Pub == INSTANCE OutboxPublisher WITH pc <- cycle
Con == INSTANCE EventConsumer WITH
         pc <- handler, SpacedCopies <- {FALSE}, Deliveries <- [c \in Copies |-> c[1]]

\* What both ends assume, and the bounds of the broker.
ASSUME PipelineAssumption ==
  /\ Messages \subseteq Nat /\ IsFiniteSet(Messages) /\ IsFiniteSet(Cycles)
  /\ Events \in [Messages -> [type : Con!EventTypes, wallet : Wallets, amount : Nat]]
  /\ KnownWallets \subseteq SUBSET Wallets
  /\ {BatchSize, MaxAttempts, PoolSize, Prefetch, RapidWithdrawal} \subseteq Nat \ {0}
  /\ {MaxLeaks, MaxFaults, MaxReplays, HighAmount} \subseteq Nat
  /\ MaxCopies \in Nat \ {0} /\ MaxRestarts \in Nat

pubVars == <<status, attempts, due, sent, cycle, batch, verdict, rowLocks, held, leaked>>
conVars == <<known, spaced, rows, stats, consumed, message, handler, entity, seen,
             rowLock, applied, replays>>
broker == <<lost, restarts>>
vars == <<pubVars, conVars, broker, faults>>

Init == Pub!Init /\ Con!Init /\ lost = {} /\ restarts = 0

-----------------------------------------------------------------------------
\* The copies the broker has, delivered or not.
InBroker == {c \in Copies : c[2] <= sent[c[1]]} \ lost

PublisherStep == Pub!Next /\ UNCHANGED <<conVars, broker>>

\* The worker goes on with what it handles, and is delivered what the broker has.
Handle(c) ==
  /\ handler[c] = "idle" => c \in InBroker
  /\ Con!Step(c)
  /\ UNCHANGED <<pubVars, broker>>

WorkerFails ==
  /\ Con!Crash \/ \E c \in Copies : Con!Fail(c) \/ (c \in InBroker /\ Con!Replay(c))
  /\ UNCHANGED <<pubVars, broker>>

\* The broker restarts and loses what nobody has acknowledged, dead letters too.
\* A handler that is running ends; its ack or nack reaches nobody.
BrokerRestart ==
  /\ restarts < MaxRestarts
  /\ restarts' = restarts + 1
  /\ lost' = lost \cup {c \in InBroker : message[c] # "acked"}
  /\ UNCHANGED <<pubVars, conVars, faults>>

Next == PublisherStep \/ (\E c \in Copies : Handle(c)) \/ WorkerFails \/ BrokerRestart

Spec == Init /\ [][Next]_vars

\* The fairness of both ends.
FairSpec ==
  /\ Spec
  /\ \A m \in Messages : WF_vars(Pub!BecomeDue(m) /\ UNCHANGED <<conVars, broker>>)
  /\ \A k \in Cycles :
       /\ WF_vars(Pub!Tick(k) /\ UNCHANGED <<conVars, broker>>)
       /\ WF_vars(Pub!Step(k) /\ UNCHANGED <<conVars, broker>>)
  /\ \A c \in Copies : WF_vars(Handle(c))

-----------------------------------------------------------------------------
(* Properties *)

\* The copies of m that the publisher has had accepted.
SentCopies(m) == {c \in Copies : c[1] = m /\ c[2] <= sent[m]}

\* m went where nothing of this repository takes it up again.
Abandoned(m) ==
  \/ status[m] = "failed"
  \/ \E c \in SentCopies(m) : message[c] = "dead" \/ c \in lost

\* What the publisher has marked published does not vanish between the two
\* processes: it is on its way, processed, or abandoned.
NothingVanishes ==
  \A m \in Messages : status[m] = "published" =>
    \/ m \in consumed \/ Abandoned(m)
    \/ \E c \in SentCopies(m) : message[c] \in {"queued", "inflight"}

\* The side effects of an event are bounded by what the publisher counted: once
\* per attempt, once more per attempt for each fault (a crash redelivers all
\* copies that are being handled), and once per replayed dead letter.
EffectsBounded ==
  \A m \in Messages : applied[m] <= attempts[m] * (1 + faults) + replays

\* At-least-once delivery (DESIGN.md:60), end to end: a committed event is
\* processed unless it is abandoned.
AtLeastOnce ==
  \A m \in Messages : status[m] = "pending" ~> m \in consumed \/ Abandoned(m)
=============================================================================
