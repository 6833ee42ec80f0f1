--------------------------- MODULE EventConsumer ---------------------------
(***************************************************************************)
(* The worker that consumes wallet events: RmqConsumer with                *)
(* ackOnSuccessNackOnError around WalletEventsConsumerService.handleEvent. *)
(*                                                                         *)
(* A delivery is handled in five statements that share no transaction: a   *)
(* look-up in consumed_events; the update of wallet_analytics, itself a    *)
(* transaction of several statements; the insertion into consumed_events;  *)
(* the ack.  Up to Prefetch deliveries are handled at the same time, and   *)
(* an unacknowledged one comes back when the worker dies.                  *)
(*                                                                         *)
(* External: RabbitMQ, with the copies the outbox publisher may send.      *)
(***************************************************************************)
EXTENDS Integers, FiniteSets, Functions

CONSTANTS
  Events,         \* [event id -> [type, wallet, amount]]
  Deliveries,     \* [message -> event id]; a copy is a message of its own
  Wallets,        \* wallet ids
  KnownWallets,   \* the sets of wallets that may have an analytics row at the start
  Prefetch,       \* RABBITMQ_PREFETCH
  SpacedCopies,   \* may copies be delivered together, or only one after another:
                  \* {FALSE}, {TRUE} or both
  HighAmount,     \* highAmountThreshold
  RapidWithdrawal,\* rapidWithdrawalThreshold
  MaxFaults,      \* bound on injected faults
  MaxReplays      \* bound on replays of dead letters

Ids == DOMAIN Events
Messages == DOMAIN Deliveries

EventTypes ==
  {"FundsDeposited", "FundsWithdrawn", "TransferInitiated",
   "TransferCompleted", "TransferFailed", "TransferCompensated"}

ASSUME ConsumerAssumption ==
  /\ Events \in [Ids -> [type : EventTypes, wallet : Wallets, amount : Nat]]
  /\ IsFiniteSet(Ids)
  /\ Deliveries \in [Messages -> Ids] /\ IsFiniteSet(Messages)
  /\ KnownWallets \subseteq SUBSET Wallets
  /\ Prefetch \in Nat \ {0}
  /\ SpacedCopies \subseteq BOOLEAN
  /\ RapidWithdrawal \in Nat \ {0} /\ HighAmount \in Nat
  /\ MaxFaults \in Nat /\ MaxReplays \in Nat

VARIABLES
  known,    \* the wallets that had an analytics row at the start
  spaced,   \* is a copy delivered only when the one before it is settled
  rows,     \* wallets that have a committed wallet_analytics row
  stats,    \* stats[w]: the committed columns of that row
  consumed, \* event ids in consumed_events
  message,  \* message[d]: "queued", "inflight", "acked" or "dead"
  pc,       \* pc[d]: where the handler of d is
  entity,   \* entity[d]: the analytics row as the handler of d has changed it
  seen,     \* seen[d]: the row the SELECT of save() returned, if any
  rowLock,  \* rowLock[d]: the wallet whose row d's transaction has locked
  applied,  \* applied[e]: how often the analytics of event e were committed
  faults,   \* number of faults injected
  replays   \* number of dead letters replayed

db == <<rows, stats, consumed, applied>>
setting == <<known, spaced, replays>>
vars == <<setting, db, message, pc, entity, seen, rowLock, faults>>

Event(d) == Events[Deliveries[d]]
Wallet(d) == Event(d).wallet

Zero == [deposited |-> 0, deposits |-> 0, withdrawn |-> 0, withdrawals |-> 0,
         flagged |-> FALSE]

Goto(d, l) == pc' = [pc EXCEPT ![d] = l]

Init ==
  /\ known \in KnownWallets
  /\ spaced \in SpacedCopies
  /\ rows = known
  /\ stats = [w \in Wallets |-> Zero]
  /\ consumed = {}
  /\ message = [d \in Messages |-> "queued"]
  /\ pc = [d \in Messages |-> "idle"]
  /\ entity = [d \in Messages |-> Zero]
  /\ seen = [d \in Messages |-> {}]
  /\ rowLock = [d \in Messages |-> {}]
  /\ applied = [e \in Ids |-> 0]
  /\ faults = 0
  /\ replays = 0

\* The handler of d forgets its analytics row and lets go of the lock.
EndTx(d) ==
  /\ rowLock' = [rowLock EXCEPT ![d] = {}]
  /\ entity' = [entity EXCEPT ![d] = Zero]
  /\ seen' = [seen EXCEPT ![d] = {}]

-----------------------------------------------------------------------------
(* handleEvent *)

\* RabbitMQ delivers while fewer than Prefetch messages are unacknowledged.
Deliver(d) ==
  /\ message[d] = "queued"
  /\ Cardinality({x \in Messages : message[x] = "inflight"}) < Prefetch
  /\ spaced => \A x \in Messages : message[x] = "inflight" => Deliveries[x] # Deliveries[d]
  /\ message' = [message EXCEPT ![d] = "inflight"]
  /\ Goto(d, "check")
  /\ UNCHANGED <<setting, db, entity, seen, rowLock, faults>>

\* isAlreadyProcessed; only deposits and withdrawals have analytics.  The early
\* returns for a message without event id, type or wallet are left out: the
\* outbox, the only sender, writes both ids, and RmqConsumer the type.
MutCheck(d) ==
  /\ pc[d] = "check"
  /\ Goto(d, IF Event(d).type \in {"FundsDeposited", "FundsWithdrawn"}
             THEN "find" ELSE "mark")
  /\ UNCHANGED <<setting, db, message, entity, seen, rowLock, faults>>
MutSkip(d) ==
  /\ pc[d] = "check"
  /\ Goto(d, IF Deliveries[d] \in consumed THEN "idle"
             ELSE IF Event(d).type \in {"FundsDeposited", "FundsWithdrawn"}
             THEN "find" ELSE "mark")
  /\ UNCHANGED <<setting, db, message, entity, seen, rowLock, faults>>
Check(d) ==
  /\ pc[d] = "check"
  /\ Goto(d, IF Deliveries[d] \in consumed THEN "ack"
             ELSE IF Event(d).type \in {"FundsDeposited", "FundsWithdrawn"}
             THEN "find" ELSE "mark")
  /\ UNCHANGED <<setting, db, message, entity, seen, rowLock, faults>>

MutUnlocked(d) == TRUE
Unlocked(d) == \A x \in Messages \ {d} : Wallet(d) \notin rowLock[x]

\* The withdrawal heuristics.
MutSuspicious(amount, total) == amount >= HighAmount
Suspicious(amount, total) == amount >= HighAmount \/ total >= RapidWithdrawal

\* applyDeposit and applyWithdrawal on the columns of a row.
Apply(d, s) ==
  LET a == Event(d).amount IN
  IF Event(d).type = "FundsDeposited"
  THEN [s EXCEPT !.deposited = @ + a, !.deposits = @ + 1]
  ELSE [s EXCEPT !.withdrawn = @ + a, !.withdrawals = @ + 1,
                 !.flagged = @ \/ Suspicious(a, s.withdrawn + a)]

\* findOne with pessimistic_write: waits for the lock of a row that exists;
\* where there is none, nothing is locked and a new entity is made.
Find(d) ==
  LET w == Wallet(d) IN
  /\ pc[d] = "find"
  /\ \/ /\ w \in rows /\ Unlocked(d)
        /\ rowLock' = [rowLock EXCEPT ![d] = {w}]
     \/ w \notin rows /\ UNCHANGED rowLock
  /\ entity' = [entity EXCEPT ![d] = Apply(d, IF w \in rows THEN stats[w] ELSE Zero)]
  /\ Goto(d, "select")
  /\ UNCHANGED <<setting, db, message, seen, faults>>

\* save() selects the row by its primary key ...
SaveSelect(d) ==
  LET w == Wallet(d) IN
  /\ pc[d] = "select"
  /\ seen' = [seen EXCEPT ![d] = IF w \in rows THEN {stats[w]} ELSE {}]
  /\ Goto(d, "write")
  /\ UNCHANGED <<setting, db, message, entity, rowLock, faults>>

\* The columns the handler has assigned.
Assigned(d) ==
  IF Event(d).type = "FundsDeposited" THEN {"deposited", "deposits"}
  ELSE {"withdrawn", "withdrawals"} \cup (IF entity[d].flagged THEN {"flagged"} ELSE {})

\* An UPDATE writes the columns that differ from those selected.
Updated(d, old) ==
  [f \in DOMAIN old |->
     IF f \in Assigned(d) /\ \E s \in seen[d] : s[f] # entity[d][f]
     THEN entity[d][f] ELSE old[f]]

\* ... then inserts or updates it, waiting for whoever is writing it, and
\* the transaction commits.  An INSERT of a row that exists by now fails.
\* (The row of an insertion and its commit are one step: nothing that waits
\* for it could tell them apart.)
Write(d) ==
  LET w == Wallet(d) IN
  /\ pc[d] = "write"
  /\ Unlocked(d)
  /\ \/ /\ seen[d] = {} /\ w \in rows
        /\ Goto(d, "nack")
        /\ UNCHANGED <<rows, stats, applied>>
     \/ /\ seen[d] = {} /\ w \notin rows
        /\ rows' = rows \cup {w}
        /\ stats' = [stats EXCEPT ![w] = entity[d]]
        /\ applied' = [applied EXCEPT ![Deliveries[d]] = @ + 1]
        /\ Goto(d, "mark")
     \/ /\ seen[d] # {}
        /\ stats' = [stats EXCEPT ![w] = Updated(d, @)]
        /\ applied' = [applied EXCEPT ![Deliveries[d]] = @ + 1]
        /\ Goto(d, "mark")
        /\ UNCHANGED rows
  /\ EndTx(d)
  /\ UNCHANGED <<setting, consumed, message, faults>>

\* markProcessed: save() selects the id, and inserts it when it sees none,
\* which fails when another handler has inserted it in between.
MarkSelect(d) ==
  /\ pc[d] = "mark"
  /\ Goto(d, IF Deliveries[d] \in consumed THEN "ack" ELSE "insert")
  /\ UNCHANGED <<setting, db, message, entity, seen, rowLock, faults>>

MutMarkInsert(d) ==
  /\ pc[d] = "insert"
  /\ Goto(d, "ack")
  /\ consumed' \in {consumed, consumed \cup {Deliveries[d]}}
  /\ UNCHANGED <<setting, rows, stats, applied, message, entity, seen, rowLock, faults>>
MarkInsert(d) ==
  /\ pc[d] = "insert"
  /\ Goto(d, IF Deliveries[d] \in consumed THEN "nack" ELSE "ack")
  /\ consumed' = consumed \cup {Deliveries[d]}
  /\ UNCHANGED <<setting, rows, stats, applied, message, entity, seen, rowLock, faults>>

\* ackOnSuccessNackOnError; a nack does not requeue, the broker dead-letters.
MutSettle(d) ==
  /\ pc[d] \in {"ack", "nack"}
  /\ message' = [message EXCEPT ![d] = "queued"]
  /\ Goto(d, "idle")
  /\ UNCHANGED <<setting, db, entity, seen, rowLock, faults>>
Settle(d) ==
  /\ pc[d] \in {"ack", "nack"}
  /\ message' = [message EXCEPT ![d] = IF pc[d] = "ack" THEN "acked" ELSE "dead"]
  /\ Goto(d, "idle")
  /\ UNCHANGED <<setting, db, entity, seen, rowLock, faults>>

\* A statement fails: the transaction, if any, rolls back.
Fail(d) ==
  /\ faults < MaxFaults
  /\ pc[d] \in {"check", "find", "select", "write", "mark", "insert"}
  /\ faults' = faults + 1
  /\ EndTx(d)
  /\ Goto(d, "nack")
  /\ UNCHANGED <<setting, db, message>>

\* The worker dies: what it had not acknowledged is queued again.  That a channel
\* is lost under a worker that lives, whose handlers go on beside the redelivered
\* messages and can no longer acknowledge, is left out.
Crash ==
  /\ faults < MaxFaults
  /\ faults' = faults + 1
  /\ message' = [d \in Messages |-> IF message[d] = "inflight" THEN "queued" ELSE message[d]]
  /\ pc' = [d \in Messages |-> "idle"]
  /\ rowLock' = [d \in Messages |-> {}]
  /\ entity' = [d \in Messages |-> Zero]
  /\ seen' = [d \in Messages |-> {}]
  /\ UNCHANGED <<setting, db>>

\* Somebody moves a dead letter back to the queue.
Replay(d) ==
  /\ replays < MaxReplays
  /\ message[d] = "dead"
  /\ message' = [message EXCEPT ![d] = "queued"]
  /\ replays' = replays + 1
  /\ UNCHANGED <<known, spaced, db, pc, entity, seen, rowLock, faults>>

-----------------------------------------------------------------------------
Step(d) ==
  \/ Deliver(d) \/ Check(d) \/ Find(d) \/ SaveSelect(d) \/ Write(d)
  \/ MarkSelect(d) \/ MarkInsert(d) \/ Settle(d)

\* Every message is settled; the worker waits for more.
Quiet == (\A d \in Messages : message[d] \in {"acked", "dead"}) /\ UNCHANGED vars

Next ==
  \/ \E d \in Messages : Step(d) \/ Fail(d) \/ Replay(d)
  \/ Crash
  \/ Quiet

Spec == Init /\ [][Next]_vars

\* The worker goes on with what it was delivered and the broker delivers.
FairSpec == Spec /\ \A d \in Messages : WF_vars(Step(d))

-----------------------------------------------------------------------------
(* Properties *)

Stats == [deposited : Nat, deposits : Nat, withdrawn : Nat, withdrawals : Nat,
          flagged : BOOLEAN]

\* The type invariant; a handler runs exactly for what is unacknowledged.
TypeOK ==
  /\ known \subseteq rows /\ rows \subseteq Wallets
  /\ spaced \in BOOLEAN
  /\ stats \in [Wallets -> Stats]
  /\ consumed \subseteq Ids
  /\ message \in [Messages -> {"queued", "inflight", "acked", "dead"}]
  /\ pc \in [Messages -> {"idle", "check", "find", "select", "write",
                          "mark", "insert", "ack", "nack"}]
  /\ \A d \in Messages : message[d] = "inflight" <=> pc[d] # "idle"
  /\ entity \in [Messages -> Stats]
  /\ seen \in [Messages -> SUBSET Stats]
  /\ rowLock \in [Messages -> SUBSET Wallets]
  /\ applied \in [Ids -> Nat]
  /\ faults \in Nat /\ replays \in Nat

HasAnalytics(e) == Events[e].type \in {"FundsDeposited", "FundsWithdrawn"}

\* No event is acknowledged unprocessed: when one copy is acked the event is
\* in consumed_events, and its analytics have been committed.
AckedWasApplied ==
  \A d \in Messages : message[d] = "acked" =>
    /\ Deliveries[d] \in consumed
    /\ HasAnalytics(Deliveries[d]) => applied[Deliveries[d]] > 0

\* No recorded total escapes review: a wallet whose withdrawals reach the threshold
\* is flagged, although save() writes the columns that changed one by one.
FlagFollowsTotal ==
  \A w \in Wallets : stats[w].withdrawn >= RapidWithdrawal => stats[w].flagged

Of(t, w) == {e \in Ids : Events[e].type = t /\ Events[e].wallet = w}

\* The columns of w add up to the analytics committed for it, as often as they
\* were committed: no update is lost.
AddsUp(w) ==
  LET amounts == [e \in Ids |-> applied[e] * Events[e].amount]
  IN  /\ stats[w].deposited = SumFunctionOnSet(amounts, Of("FundsDeposited", w))
      /\ stats[w].withdrawn = SumFunctionOnSet(amounts, Of("FundsWithdrawn", w))
      /\ stats[w].deposits = SumFunctionOnSet(applied, Of("FundsDeposited", w))
      /\ stats[w].withdrawals = SumFunctionOnSet(applied, Of("FundsWithdrawn", w))

\* No update of a wallet that had its row is lost, whatever overlaps or fails.
KnownTotalsExact == \A w \in known : AddsUp(w)

\* "Maintains wallet_analytics totals, counts" (DESIGN.md:54).
TotalsExact == \A w \in Wallets : AddsUp(w)

Copies(e) == {d \in Messages : Deliveries[d] = e}

\* consumed_events bounds the side effects of an event: copies that come one
\* after another count as one, replayed or not, and each fault brings one more
\* round; of copies that come together each may count once a round, and once
\* more for each replayed dead letter.
DuplicatesBounded ==
  \A e \in Ids :
    applied[e] <= IF spaced THEN 1 + faults
                  ELSE Cardinality(Copies(e)) * (1 + faults) + replays

\* The side effects of an event happen at most once (DESIGN.md:50).
AppliedOnce == \A e \in Ids : applied[e] <= 1

\* Every message ends acknowledged or dead-lettered.
EveryMessageSettles ==
  \A d \in Messages : message[d] = "queued" ~> message[d] \in {"acked", "dead"}
=============================================================================
