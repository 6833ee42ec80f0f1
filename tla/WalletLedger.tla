---------------------------- MODULE WalletLedger ----------------------------
(***************************************************************************)
(* The write path of WalletService (src/modules/wallet/wallet.service.ts): *)
(* deposit, withdraw and transfer with its compensation, each one a        *)
(* transaction on PostgreSQL that locks wallet rows with SELECT FOR UPDATE *)
(* and runs beside the transactions of other requests.                     *)
(*                                                                         *)
(* Between two awaits any other request may run, so every await that reads *)
(* shared rows, waits for a lock or a connection, or makes writes visible  *)
(* is an action of its own.  What a transaction saves stays in its private *)
(* tx until it commits.  A statement may fail, a connection or the process *)
(* may be lost, and the answer to COMMIT may be lost after it took effect. *)
(***************************************************************************)
EXTENDS WalletTypes

CONSTANTS
  Commands,      \* the commands clients send
  Opening,       \* [existing wallets -> balance] before the first request
  SeedTransfers, \* transfer rows before the first request
  PoolSize,      \* connections in the pool of the data source
  MaxFaults      \* bound on injected faults

ASSUME WalletLedgerAssumption ==
  /\ Commands \subseteq Command
  /\ DOMAIN Opening \subseteq Wallets
  /\ \A w \in DOMAIN Opening : Opening[w] \in 0 .. MaxBalance
  /\ SeedTransfers \subseteq Transfer
  /\ \A t \in SeedTransfers : /\ t.id \in SeedIds /\ t.status = "debited"
                              /\ t.amount > 0  \* CHECK on transfers
  /\ \A t, u \in SeedTransfers : t.id = u.id => t = u
  /\ PoolSize \in Nat \ {0}
  /\ MaxFaults \in Nat

VARIABLES
  rows,       \* wallets that have a committed row
  balance,    \* committed balances; 0 where there is no row
  events,     \* committed wallet_events
  outbox,     \* the events carried by committed outbox_messages
  transfers,  \* committed transfers
  locked,     \* locked[r]: wallet rows whose lock r's transaction holds
  tx,         \* tx[r]: what r's transaction has read and saved
  cmd,        \* cmd[r]: the command of request r
  pc,         \* pc[r]: where the handler of r is
  phase,      \* phase[r]: in the command itself or in compensateTransfer
  nth,        \* nth[r]: which of its wallets r is locking
  result,     \* result[r]: what the caller of r is told
  held,       \* connections not in the pool: <<request, phase>> that took it
  faults      \* number of faults injected

database == <<rows, balance, events, outbox, transfers>>
session == <<locked, tx>>
vars == <<rows, balance, events, outbox, transfers, locked, tx,
          cmd, pc, phase, nth, result, held, faults>>

-----------------------------------------------------------------------------
(* Requests and the wallets they need *)

IsTransfer(r) == cmd[r].op = "transfer"

Amt(r) == Normalize(cmd[r].raw)

From(r) == cmd[r].wallet
To(r) == cmd[r].to

\* orderWalletIds: a transfer locks the smaller id first.
FirstId(r) == IF From(r) <= To(r) THEN From(r) ELSE To(r)
SecondId(r) == IF From(r) <= To(r) THEN To(r) ELSE From(r)

\* The wallet whose row r is about to lock.  (Mut... operators are faulty
\* variants of the definition that follows them.)
MutTarget(r) ==
  IF ~IsTransfer(r) THEN From(r)
  ELSE IF nth[r] = 1 THEN From(r) ELSE To(r)
Target(r) ==
  IF ~IsTransfer(r) THEN From(r)
  ELSE IF nth[r] = 1 THEN FirstId(r) ELSE SecondId(r)

LastLock(r) == IsTransfer(r) => nth[r] = 2

EmptyTx ==
  [balance |-> [w \in Wallets |-> 0], log |-> {}, out |-> {}, rows |-> {}]

Locking == {"find", "insert", "refind"}
Working == {"work", "move", "commit"}
InTx == Locking \cup Working

Goto(r, l) == pc' = [pc EXCEPT ![r] = l]

\* No other transaction holds the lock on the row of w, a row inserted by an
\* uncommitted transaction being locked by it.
MutUnlocked(r, w) == TRUE
Unlocked(r, w) == \A q \in Requests \ {r} : w \notin locked[q]

\* r's transaction is over: its locks and its private state are gone.
MutEndTx(r) ==
  /\ locked' = [locked EXCEPT ![r] = {}]
  /\ UNCHANGED tx
  /\ nth' = [nth EXCEPT ![r] = 1]
EndTx(r) ==
  /\ locked' = [locked EXCEPT ![r] = {}]
  /\ tx' = [tx EXCEPT ![r] = EmptyTx]
  /\ nth' = [nth EXCEPT ![r] = 1]

Init ==
  /\ rows = DOMAIN Opening
  /\ balance = [w \in Wallets |-> IF w \in DOMAIN Opening THEN Opening[w] ELSE 0]
  /\ events = {}
  /\ outbox = {}
  /\ transfers = SeedTransfers
  /\ locked = [r \in Requests |-> {}]
  /\ tx = [r \in Requests |-> EmptyTx]
  /\ cmd \in [Requests -> Commands]
  /\ pc = [r \in Requests |-> "idle"]
  /\ phase = [r \in Requests |-> "main"]
  /\ nth = [r \in Requests |-> 1]
  /\ result = [r \in Requests |-> "none"]
  /\ held = {}
  /\ faults = 0

-----------------------------------------------------------------------------
(* Accepting a request and opening its transaction *)

\* Refused before the database is touched: a transfer to the same wallet, or
\* an amount that is not greater than zero.
Invalid(r) ==
  \/ IsTransfer(r) /\ From(r) = To(r)
  \/ NotPositive(cmd[r].raw)

Refuse(r) ==
  /\ pc[r] = "idle"
  /\ Invalid(r)
  /\ Goto(r, "done")
  /\ result' = [result EXCEPT ![r] = "refused"]
  /\ UNCHANGED <<database, session, cmd, phase, nth, held, faults>>

Accept(r) ==
  /\ pc[r] = "idle"
  /\ ~Invalid(r)
  /\ Goto(r, "connect")
  /\ UNCHANGED <<database, session, cmd, phase, nth, result, held, faults>>

\* createQueryRunner, connect and startTransaction: waits for a connection.
Connect(r) ==
  /\ pc[r] = "connect"
  /\ Cardinality(held) < PoolSize
  /\ held' = held \cup {<<r, phase[r]>>}
  /\ Goto(r, "find")
  /\ UNCHANGED <<database, session, cmd, phase, nth, result, faults>>

-----------------------------------------------------------------------------
(* lockWallet *)

\* findOne with pessimistic_write finds the row, committed or inserted by r
\* itself, waits for its lock and reads the balance under it.
ReadLocked(r) ==
  LET w == Target(r) IN
  /\ pc[r] \in {"find", "refind"}
  /\ w \in rows \cup locked[r]
  /\ Unlocked(r, w)
  /\ locked' = [locked EXCEPT ![r] = @ \cup {w}]
  /\ tx' = [tx EXCEPT ![r].balance[w] = IF w \in rows THEN balance[w] ELSE 0]
  /\ Goto(r, IF LastLock(r) THEN "work" ELSE "find")
  /\ nth' = [nth EXCEPT ![r] = IF LastLock(r) THEN @ ELSE 2]
  /\ UNCHANGED <<database, cmd, phase, result, held, faults>>

\* findOne sees no row: a row another transaction has inserted and not
\* committed is invisible and does not make it wait.
Miss(r) ==
  /\ pc[r] = "find"
  /\ Target(r) \notin rows \cup locked[r]
  /\ Goto(r, "insert")
  /\ UNCHANGED <<database, session, cmd, phase, nth, result, held, faults>>

\* INSERT ... ON CONFLICT DO NOTHING of a row with balance 0: ignored when
\* the row exists by now, waits for a transaction that is inserting it.
MutInsert(r) ==
  /\ pc[r] = "insert"
  /\ IF Target(r) \in rows \/ ~Unlocked(r, Target(r))
     THEN UNCHANGED locked
     ELSE locked' = [locked EXCEPT ![r] = @ \cup {Target(r)}]
  /\ Goto(r, "refind")
  /\ UNCHANGED <<database, tx, cmd, phase, nth, result, held, faults>>
Insert(r) ==
  LET w == Target(r) IN
  /\ pc[r] = "insert"
  /\ \/ w \in rows /\ UNCHANGED locked
     \/ /\ w \notin rows
        /\ Unlocked(r, w)
        /\ locked' = [locked EXCEPT ![r] = @ \cup {w}]
  /\ Goto(r, "refind")
  /\ UNCHANGED <<database, tx, cmd, phase, nth, result, held, faults>>

-----------------------------------------------------------------------------
(* The body of each command, once its wallets are locked *)

\* save(WalletEventEntity, ...) and one enqueueOutbox per event.
MutLog(t, es) ==
  [t EXCEPT !.log = @ \cup es,
            !.out = @ \cup {e \in es : e.type # "TransferCompleted"}]
Log(t, es) == [t EXCEPT !.log = @ \cup es, !.out = @ \cup es]

\* The transaction saves t and goes on at l.
Save(r, t, l) ==
  /\ tx' = [tx EXCEPT ![r] = t]
  /\ Goto(r, l)

\* An exception or a constraint of the schema sends r to its catch block.
Throw(r) ==
  /\ Goto(r, "abort")
  /\ UNCHANGED tx

Deposit(r) ==
  LET w == From(r)
      b == tx[r].balance[w] + Amt(r)
  IN
  /\ pc[r] = "work" /\ phase[r] = "main" /\ cmd[r].op = "deposit"
  /\ \/ /\ b <= MaxBalance
        /\ Save(r, Log([tx[r] EXCEPT !.balance[w] = b],
                       {NewEvent(r, "FundsDeposited", w, Amt(r))}), "commit")
     \/ b > MaxBalance /\ Throw(r)
  /\ UNCHANGED <<database, locked, cmd, phase, nth, result, held, faults>>

MutWithdraw(r) ==
  /\ pc[r] = "work" /\ phase[r] = "main" /\ cmd[r].op = "withdraw"
  /\ Save(r, Log([tx[r] EXCEPT !.balance[From(r)] = @ - Amt(r)],
                 {NewEvent(r, "FundsWithdrawn", From(r), Amt(r))}), "commit")
  /\ UNCHANGED <<database, locked, cmd, phase, nth, result, held, faults>>
Withdraw(r) ==
  LET w == From(r)
      b == tx[r].balance[w] - Amt(r)
  IN
  /\ pc[r] = "work" /\ phase[r] = "main" /\ cmd[r].op = "withdraw"
  /\ \/ /\ b >= 0
        /\ Save(r, Log([tx[r] EXCEPT !.balance[w] = b],
                       {NewEvent(r, "FundsWithdrawn", w, Amt(r))}), "commit")
     \/ b < 0 /\ Throw(r)
  /\ UNCHANGED <<database, locked, cmd, phase, nth, result, held, faults>>

MutOwnTransfer(r, status) ==
  [id |-> r, from |-> From(r), to |-> To(r), amount |-> Amt(r),
   status |-> "initiated"]
OwnTransfer(r, status) ==
  [id |-> r, from |-> From(r), to |-> To(r), amount |-> Amt(r), status |-> status]

MutInitiateTransfer(r) ==
  LET sufficient == tx[r].balance[From(r)] >= Amt(r) IN
  /\ pc[r] = "work" /\ phase[r] = "main" /\ IsTransfer(r)
  /\ \/ /\ sufficient
        /\ Save(r, Log([tx[r] EXCEPT !.rows = {OwnTransfer(r, "initiated")}],
                       {NewEvent(r, "TransferInitiated", From(r), Amt(r))}), "move")
     \/ ~sufficient /\ Throw(r)
  /\ UNCHANGED <<database, locked, cmd, phase, nth, result, held, faults>>
\* The sender has the funds: the transfer row is saved as initiated.  Its
\* amount must be positive (CHECK on transfers), which a rounded one may not be.
InitiateTransfer(r) ==
  LET sufficient == tx[r].balance[From(r)] >= Amt(r) IN
  /\ pc[r] = "work" /\ phase[r] = "main" /\ IsTransfer(r)
  /\ \/ /\ sufficient /\ Amt(r) > 0
        /\ Save(r, Log([tx[r] EXCEPT !.rows = {OwnTransfer(r, "initiated")}],
                       {NewEvent(r, "TransferInitiated", From(r), Amt(r))}), "move")
     \/ ~(sufficient /\ Amt(r) > 0) /\ Throw(r)
  /\ UNCHANGED <<database, locked, cmd, phase, nth, result, held, faults>>

\* Debit and credit; both wallets are saved together, and the transfer goes
\* from initiated to credited without being saved as debited.
MoveFunds(r) ==
  LET debit == tx[r].balance[From(r)] - Amt(r)
      credit == tx[r].balance[To(r)] + Amt(r)
  IN
  /\ pc[r] = "move"
  /\ \/ /\ credit <= MaxBalance
        /\ Save(r, Log([tx[r] EXCEPT !.balance[From(r)] = debit,
                                     !.balance[To(r)] = credit,
                                     !.rows = {OwnTransfer(r, "credited")}],
                       {NewEvent(r, "FundsWithdrawn", From(r), Amt(r)),
                        NewEvent(r, "FundsDeposited", To(r), Amt(r)),
                        NewEvent(r, "TransferCompleted", From(r), Amt(r))}), "commit")
     \/ credit > MaxBalance /\ Throw(r)
  /\ UNCHANGED <<database, locked, cmd, phase, nth, result, held, faults>>

\* The rows compensateTransfer looks for: by wallets, amount and status, not
\* by request.  Their locks are free, as both wallets are locked.
MutCompensable(r) ==
  {t \in transfers : t.from = From(r) /\ t.to = To(r) /\ t.amount = Amt(r)}
Compensable(r) ==
  {t \in transfers : /\ t.from = From(r) /\ t.to = To(r)
                     /\ t.amount = Amt(r) /\ t.status = "debited"}

Compensate(r) ==
  /\ pc[r] = "work" /\ phase[r] = "comp"
  /\ \/ Compensable(r) = {} /\ Goto(r, "commit") /\ UNCHANGED tx
     \/ \E t \in Compensable(r) :
          LET b == tx[r].balance[From(r)] + Amt(r) IN
          \/ /\ b <= MaxBalance
             /\ Save(r, Log([tx[r] EXCEPT !.balance[From(r)] = b,
                                          !.rows = {[t EXCEPT !.status = "compensated"]}],
                            {NewEvent(r, "TransferFailed", From(r), Amt(r)),
                             NewEvent(r, "TransferCompensated", From(r), Amt(r))}), "commit")
          \/ b > MaxBalance /\ Throw(r)
  /\ UNCHANGED <<database, locked, cmd, phase, nth, result, held, faults>>

-----------------------------------------------------------------------------
(* Ending a transaction *)

\* COMMIT takes effect: rows inserted or saved by r become visible.
MutWriteBack(r) ==
  /\ rows' = rows \cup locked[r]
  /\ balance' = [balance EXCEPT ![From(r)] = tx[r].balance[From(r)]]
  /\ events' = events \cup tx[r].log
  /\ outbox' = outbox \cup tx[r].out
  /\ transfers' = {t \in transfers : \A u \in tx[r].rows : u.id # t.id}
                    \cup tx[r].rows
WriteBack(r) ==
  /\ rows' = rows \cup locked[r]
  /\ balance' = [w \in Wallets |->
                   IF w \in locked[r] THEN tx[r].balance[w] ELSE balance[w]]
  /\ events' = events \cup tx[r].log
  /\ outbox' = outbox \cup tx[r].out
  /\ transfers' = {t \in transfers : \A u \in tx[r].rows : u.id # t.id}
                    \cup tx[r].rows

\* What a committed transaction lets the handler answer.
MutAnswer(r) ==
  IF phase[r] = "main" THEN "ok" ELSE "compensated"
Answer(r) ==
  IF phase[r] = "main" THEN "ok"
  ELSE IF tx[r].rows = {} THEN "failed" ELSE "compensated"

Commit(r) ==
  /\ pc[r] = "commit"
  /\ WriteBack(r)
  /\ EndTx(r)
  /\ result' = [result EXCEPT ![r] = Answer(r)]
  /\ Goto(r, "release")
  /\ UNCHANGED <<cmd, phase, held, faults>>

\* The catch blocks.  A failed transfer goes on to compensateTransfer, in a
\* transaction on a connection of its own; any other failure is rethrown.
MutRollback(r) ==
  /\ pc[r] = "abort"
  /\ EndTx(r)
  /\ \/ /\ IsTransfer(r)
        /\ phase' = [phase EXCEPT ![r] = "comp"]
        /\ Goto(r, "connect")
        /\ held' = held \ {<<r, "comp">>}
        /\ UNCHANGED result
     \/ /\ ~IsTransfer(r)
        /\ result' = [result EXCEPT ![r] = "error"]
        /\ Goto(r, "release")
        /\ UNCHANGED <<phase, held>>
  /\ UNCHANGED <<database, cmd, faults>>
Rollback(r) ==
  /\ pc[r] = "abort"
  /\ EndTx(r)
  /\ \/ /\ phase[r] = "main" /\ IsTransfer(r)
        /\ phase' = [phase EXCEPT ![r] = "comp"]
        /\ Goto(r, "connect")
        /\ UNCHANGED result
     \/ /\ phase[r] = "comp" \/ ~IsTransfer(r)
        /\ result' = [result EXCEPT ![r] = "error"]
        /\ Goto(r, "release")
        /\ UNCHANGED phase
  /\ UNCHANGED <<database, cmd, held, faults>>

\* The finally block of phase p may run.  "return this.compensateTransfer()"
\* is not awaited in the catch block, so the first connection is released
\* while the compensation runs.
MayRelease(r, p) == pc[r] = "release" \/ p # phase[r]

Release(r, p) ==
  /\ <<r, p>> \in held
  /\ MayRelease(r, p)
  /\ held' = held \ {<<r, p>>}
  /\ Goto(r, IF pc[r] = "release" /\ {<<r, "main">>, <<r, "comp">>} \cap held' = {}
             THEN "done" ELSE pc[r])
  /\ UNCHANGED <<database, session, cmd, phase, nth, result, faults>>

-----------------------------------------------------------------------------
(* Faults *)

\* A statement of r's transaction fails; the handler's catch block is next.
Fail(r) ==
  /\ faults < MaxFaults
  /\ pc[r] \in InTx
  /\ faults' = faults + 1
  /\ Throw(r)
  /\ UNCHANGED <<database, locked, cmd, phase, nth, result, held>>

\* The connection or the process of r is lost, or none can be had: the
\* server rolls the transaction back and the client gets an error, if anything.
Drop(r) ==
  /\ faults < MaxFaults
  /\ pc[r] \in InTx \cup {"connect", "abort"}
  /\ faults' = faults + 1
  /\ EndTx(r)
  /\ held' = held \ {<<r, "main">>, <<r, "comp">>}
  /\ result' = [result EXCEPT ![r] = "error"]
  /\ Goto(r, "done")
  /\ UNCHANGED <<database, cmd, phase>>

\* startTransaction fails on a connection that lives.  It stands before the try
\* block: the caller gets the error, and nobody releases the connection.
BeginFails(r) ==
  /\ faults < MaxFaults
  /\ pc[r] = "connect"
  /\ Cardinality(held) < PoolSize
  /\ faults' = faults + 1
  /\ held' = held \cup {<<r, phase[r]>>}
  /\ EndTx(r)
  /\ result' = [result EXCEPT ![r] = "error"]
  /\ Goto(r, "done")
  /\ UNCHANGED <<database, cmd, phase>>

\* COMMIT takes effect but its answer is lost: the client gets an error.
LoseAnswer(r) ==
  /\ faults < MaxFaults
  /\ pc[r] = "commit"
  /\ faults' = faults + 1
  /\ WriteBack(r)
  /\ EndTx(r)
  /\ held' = held \ {<<r, "main">>, <<r, "comp">>}
  /\ result' = [result EXCEPT ![r] = "lost"]
  /\ Goto(r, "done")
  /\ UNCHANGED <<cmd, phase>>

-----------------------------------------------------------------------------
Step(r) ==
  \/ Connect(r) \/ ReadLocked(r) \/ Miss(r) \/ Insert(r)
  \/ Deposit(r) \/ Withdraw(r) \/ InitiateTransfer(r) \/ MoveFunds(r)
  \/ Compensate(r) \/ Commit(r) \/ Rollback(r)
  \/ \E p \in {"main", "comp"} : Release(r, p)

\* Every request has been served; the service waits for more.
Quiet == (\A r \in Requests : pc[r] = "done") /\ UNCHANGED vars

Next ==
  \/ \E r \in Requests : \/ Refuse(r) \/ Accept(r) \/ Step(r)
                         \/ Fail(r) \/ Drop(r) \/ BeginFails(r) \/ LoseAnswer(r)
  \/ Quiet

Spec == Init /\ [][Next]_vars

\* The event loop goes on with every handler it has started, PostgreSQL
\* grants a lock that stays free and the pool a connection that stays free.
FairSpec == Spec /\ \A r \in Requests : WF_vars(Step(r))

-----------------------------------------------------------------------------
(* Properties *)

Tx == [balance : [Wallets -> 0 .. MaxBalance], log : SUBSET Event,
       out : SUBSET Event, rows : SUBSET Transfer]

\* The type invariant; no balance is negative or too large for its column.
TypeOK ==
  /\ rows \subseteq Wallets
  /\ balance \in [Wallets -> 0 .. MaxBalance]
  /\ events \subseteq Event
  /\ outbox \subseteq Event
  /\ transfers \subseteq Transfer
  /\ locked \in [Requests -> SUBSET Wallets]
  /\ tx \in [Requests -> Tx]
  /\ cmd \in [Requests -> Commands]
  /\ pc \in [Requests -> InTx \cup {"idle", "connect", "abort", "release", "done"}]
  /\ phase \in [Requests -> {"main", "comp"}]
  /\ nth \in [Requests -> {1, 2}]
  /\ result \in [Requests -> {"none", "refused", "ok", "failed", "compensated",
                              "error", "lost"}]
  /\ held \subseteq Requests \X {"main", "comp"}
  /\ faults \in Nat

\* Row locks exclude: lockWallet never lets two transactions hold one wallet.
LocksExclude ==
  \A r, q \in Requests : r # q => locked[r] \cap locked[q] = {}

\* No lost update: until it saves a new balance, a handler computes with the
\* balance that is committed now, however long ago lockWallet read it.
ReadsStayCurrent ==
  \A r \in Requests : pc[r] \in Locking \cup {"work", "move"} =>
    \A w \in locked[r] : tx[r].balance[w] = balance[w]

\* Waiting chains climb: in a chain of transactions waiting for each other
\* the awaited ids grow, so that no chain closes.  orderWalletIds is for this.
WaitsFor(r, q) == r # q /\ pc[r] \in Locking /\ Target(r) \in locked[q]

WaitersClimb ==
  \A r, q, z \in Requests :
    WaitsFor(r, q) /\ WaitsFor(q, z) => Target(r) < Target(q)

\* lockWallet's second findOne always finds a row, whoever inserted it and
\* whether or not they rolled back: "Failed to load or create wallet" (line
\* 334) is never thrown.
RefindFinds ==
  \A r \in Requests : pc[r] = "refind" => Target(r) \in rows \cup locked[r]

\* No event is lost to the outbox: what is committed to wallet_events and
\* what is committed to outbox_messages never differ.
OutboxComplete == outbox = events

\* The types of the events request r has committed.
Logged(r) == {e.type : e \in {x \in events : x.req = r}}

Complete(r) ==
  CASE cmd[r].op = "deposit" -> {"FundsDeposited"}
    [] cmd[r].op = "withdraw" -> {"FundsWithdrawn"}
    [] OTHER -> {"TransferInitiated", "FundsWithdrawn", "FundsDeposited",
                 "TransferCompleted"}

Compensation == {"TransferFailed", "TransferCompensated"}

\* What the caller is told is what happened: success means all the events of
\* the command, failure none of them, compensation its two events; even when
\* the answer to COMMIT is lost the command took effect entirely.
AnswersAreTrue ==
  \A r \in Requests :
    /\ result[r] = "ok" => Logged(r) = Complete(r)
    /\ result[r] = "compensated" => Logged(r) = Compensation
    /\ result[r] \in {"none", "refused", "error", "failed"} => Logged(r) = {}
    /\ result[r] = "lost" => Logged(r) \in {{}, Complete(r), Compensation}

\* Every request accepted is answered: no deadlock on wallet rows, and none on
\* the pool when transfers compensate while another request's connection was
\* never given back.
EveryRequestEnds ==
  \A r \in Requests : pc[r] = "connect" ~> pc[r] = "done"

\* DESIGN.md:33: "On any failure after debit, compensation runs to restore
\* funds and emit TransferFailed + TransferCompensated".
DebitedFailureIsRecorded ==
  \A r \in Requests :
    pc[r] = "abort" /\ phase[r] = "main"
      /\ OwnTransfer(r, "credited") \in tx[r].rows
        ~> "TransferFailed" \in Logged(r)

\* The service implements the abstract ledger: in terms of committed rows
\* each command is one indivisible step.
Abstract == INSTANCE Ledger WITH Amounts <- {Normalize(c.raw) : c \in Commands}
Implements == Abstract!Spec
=============================================================================
