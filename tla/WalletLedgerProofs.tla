------------------------- MODULE WalletLedgerProofs -------------------------
(***************************************************************************)
(* Proofs about WalletLedger for every set of wallets, requests and        *)
(* commands, every pool size and every number of faults.                   *)
(*                                                                         *)
(* None of the properties is inductive alone.  The locks a transaction     *)
(* holds follow from where its handler is: LockShape says which they are,  *)
(* and Shape, the inductive invariant, is LockShape for every request with *)
(* the type invariant and LocksExclude.  The sections below prove that     *)
(* Init gives Shape, that each action keeps it, and what it implies.       *)
(*                                                                         *)
(* Fresh extends Shape with the contents of the transactions: what they    *)
(* have read under their locks is what is committed, wallets they have not *)
(* locked read as zero, as do wallets without a row, and each event saved  *)
(* has been put in the outbox too.  That is what makes the second findOne  *)
(* of lockWallet, the balances computed by the handlers and the outbox     *)
(* right.                                                                  *)
(*                                                                         *)
(* Truth, at the end, extends Shape with what each transaction has saved   *)
(* in wallet_events: which events, as a function of where its handler is,  *)
(* and that none of them is committed before the request has its answer.   *)
(***************************************************************************)
EXTENDS WalletLedger, TLAPS

\* The wallets r has locked before the one it is locking now.
Reached(r) == IF nth[r] = 1 THEN {} ELSE {FirstId(r)}

\* The wallets r has locked when its command runs.
Needed(r) == IF IsTransfer(r) THEN {From(r), To(r)} ELSE {From(r)}

\* What r holds at each point of its handler.  A transfer that is about to
\* debit its sender has checked the funds it read under the lock.
LockShape(r) ==
  /\ pc[r] \in {"idle", "connect", "release", "done"} => locked[r] = {}
  /\ pc[r] \in {"idle", "connect"} => nth[r] = 1
  /\ pc[r] \in {"find", "insert"} => locked[r] = Reached(r)
  /\ pc[r] = "refind" => /\ Reached(r) \subseteq locked[r]
                         /\ locked[r] \subseteq Reached(r) \cup {Target(r)}
  /\ pc[r] \in Working => locked[r] = Needed(r)
  /\ pc[r] \in Locking /\ nth[r] = 2 => IsTransfer(r)
  /\ pc[r] \notin {"idle", "done"} /\ IsTransfer(r) => From(r) # To(r)
  /\ pc[r] = "move" => Amt(r) <= tx[r].balance[From(r)]

Shape == TypeOK /\ LocksExclude /\ \A r \in Requests : LockShape(r)

-----------------------------------------------------------------------------
(* What every action relies on *)

\* normalizeAmount returns a natural number of units.
LEMMA NormalizeType ==
  ASSUME NEW raw \in Nat
  PROVE  Normalize(raw) \in Nat
BY SMT DEF Normalize

\* The parts of a command have the types the schema gives them.
LEMMA CommandTypes ==
  ASSUME TypeOK, NEW r \in Requests
  PROVE  /\ From(r) \in Wallets /\ To(r) \in Wallets /\ Amt(r) \in Nat
         /\ From(r) \in Nat /\ To(r) \in Nat
         /\ FirstId(r) \in Wallets /\ SecondId(r) \in Wallets
         /\ Target(r) \in Wallets
<1>1. cmd[r] \in Command
  BY WalletLedgerAssumption DEF TypeOK
<1>2. From(r) \in Wallets /\ To(r) \in Wallets /\ cmd[r].raw \in Nat
  BY <1>1 DEF Command, From, To
<1>3. Amt(r) \in Nat
  BY <1>2, NormalizeType DEF Amt
<1>4. From(r) \in Nat /\ To(r) \in Nat
  BY <1>2, WalletTypesAssumption
<1>5. FirstId(r) \in Wallets /\ SecondId(r) \in Wallets
  BY <1>2 DEF FirstId, SecondId
<1>6. Target(r) \in Wallets
  BY <1>2, <1>5 DEF Target
<1> QED BY <1>2, <1>3, <1>4, <1>5, <1>6

\* orderWalletIds orders the two wallets of a transfer and loses neither.
LEMMA IdsAreOrdered ==
  ASSUME TypeOK, NEW r \in Requests
  PROVE  /\ {FirstId(r), SecondId(r)} = {From(r), To(r)}
         /\ From(r) # To(r) => FirstId(r) < SecondId(r)
<1>1. From(r) \in Nat /\ To(r) \in Nat
  BY CommandTypes
<1> QED BY <1>1 DEF FirstId, SecondId

\* The shape of a request is not disturbed by a step of another one.
LEMMA OthersKeepShape ==
  ASSUME NEW q \in Requests, LockShape(q), UNCHANGED cmd,
         pc'[q] = pc[q], locked'[q] = locked[q], tx'[q] = tx[q], nth'[q] = nth[q]
  PROVE  LockShape(q)'
BY DEF LockShape, Reached, Needed, Target, FirstId, SecondId, From, To, Amt,
       IsTransfer

\* A step that takes no lock keeps them exclusive.
LEMMA FewerLocks ==
  ASSUME LocksExclude, \A q \in Requests : locked'[q] \subseteq locked[q]
  PROVE  LocksExclude'
BY DEF LocksExclude

\* An empty transaction is well typed.
LEMMA EmptyTxType == EmptyTx \in Tx
BY WalletTypesAssumption DEF EmptyTx, Tx

\* So is a transaction that saves a balance its column can hold.
LEMMA SetBalanceType ==
  ASSUME NEW t \in Tx, NEW w \in Wallets, NEW b \in 0 .. MaxBalance
  PROVE  [t EXCEPT !.balance[w] = b] \in Tx
<1>1. t.balance \in [Wallets -> 0 .. MaxBalance]
  BY DEF Tx
<1>2. [t.balance EXCEPT ![w] = b] \in [Wallets -> 0 .. MaxBalance]
  BY <1>1
<1>3. [t EXCEPT !.balance = [t.balance EXCEPT ![w] = b]] \in Tx
  BY <1>2 DEF Tx
<1> QED BY <1>3

\* Logging events of the right type keeps a transaction well typed.
LEMMA LogType ==
  ASSUME NEW t \in Tx, NEW es \in SUBSET Event
  PROVE  Log(t, es) \in Tx
BY DEF Log, Tx

\* An event of a request about a wallet is a row of wallet_events.
LEMMA EventType ==
  ASSUME NEW r \in Requests, NEW type \in EventTypes, NEW w \in Wallets, NEW a \in Nat
  PROVE  NewEvent(r, type, w, a) \in Event
BY DEF NewEvent, Event

\* Ending a transaction keeps types and locks in order.
LEMMA EndTxType ==
  ASSUME TypeOK, NEW r \in Requests, EndTx(r)
  PROVE  /\ locked' \in [Requests -> SUBSET Wallets]
         /\ tx' \in [Requests -> Tx]
         /\ nth' \in [Requests -> {1, 2}]
         /\ locked'[r] = {} /\ nth'[r] = 1
         /\ \A q \in Requests : locked'[q] \subseteq locked[q]
BY EmptyTxType DEF TypeOK, EndTx

\* Writing a transaction back keeps the database well typed.
LEMMA WriteBackType ==
  ASSUME TypeOK, NEW r \in Requests, WriteBack(r)
  PROVE  /\ rows' \subseteq Wallets
         /\ balance' \in [Wallets -> 0 .. MaxBalance]
         /\ events' \subseteq Event
         /\ outbox' \subseteq Event
         /\ transfers' \subseteq Transfer
<1>1. tx[r] \in Tx /\ locked[r] \subseteq Wallets
  BY DEF TypeOK
<1>2. balance' \in [Wallets -> 0 .. MaxBalance]
  BY <1>1 DEF TypeOK, WriteBack, Tx
<1> QED BY <1>1, <1>2 DEF TypeOK, WriteBack, Tx

-----------------------------------------------------------------------------
(* Every action keeps Shape *)

\* Initially nothing is locked.
LEMMA InitShape == Init => Shape
<1> SUFFICES ASSUME Init PROVE Shape
  OBVIOUS
<1>1. TypeOK
  <2>1. balance \in [Wallets -> 0 .. MaxBalance]
    BY WalletLedgerAssumption, WalletTypesAssumption DEF Init
  <2>2. tx \in [Requests -> Tx]
    BY EmptyTxType DEF Init
  <2> QED BY <2>1, <2>2, WalletLedgerAssumption DEF Init, TypeOK
<1>2. LocksExclude
  BY DEF Init, LocksExclude
<1>3. \A r \in Requests : LockShape(r)
  BY DEF Init, LockShape, Locking, Working
<1> QED BY <1>1, <1>2, <1>3 DEF Shape

\* A refused request has locked nothing.
LEMMA RefuseShape ==
  ASSUME Shape, NEW r \in Requests, Refuse(r)
  PROVE  Shape'
<1>1. TypeOK'
  BY DEF Shape, TypeOK, Refuse, Goto, database, session
<1>2. LocksExclude'
  BY FewerLocks DEF Shape, Refuse, session
<1>3. LockShape(r)'
  BY DEF Shape, TypeOK, LockShape, Refuse, Goto, session, Locking, Working
<1>4. ASSUME NEW q \in Requests, q # r PROVE LockShape(q)'
  BY <1>4, OthersKeepShape DEF Shape, TypeOK, Refuse, Goto, session
<1> QED BY <1>1, <1>2, <1>3, <1>4 DEF Shape

\* An accepted transfer is between two different wallets.
LEMMA AcceptShape ==
  ASSUME Shape, NEW r \in Requests, Accept(r)
  PROVE  Shape'
<1>1. TypeOK'
  BY DEF Shape, TypeOK, Accept, Goto, database, session
<1>2. LocksExclude'
  BY FewerLocks DEF Shape, Accept, session
<1>3. LockShape(r)'
  BY DEF Shape, TypeOK, LockShape, Accept, Invalid, Goto, session, Locking, Working,
         IsTransfer, From, To
<1>4. ASSUME NEW q \in Requests, q # r PROVE LockShape(q)'
  BY <1>4, OthersKeepShape DEF Shape, TypeOK, Accept, Goto, session
<1> QED BY <1>1, <1>2, <1>3, <1>4 DEF Shape

\* A transaction begins without locks.
LEMMA ConnectShape ==
  ASSUME Shape, NEW r \in Requests, Connect(r)
  PROVE  Shape'
<1>1. TypeOK'
  BY DEF Shape, TypeOK, Connect, Goto, InTx, Locking, database, session
<1>2. LocksExclude'
  BY FewerLocks DEF Shape, Connect, session
<1>3. LockShape(r)'
  BY DEF Shape, TypeOK, LockShape, Connect, Goto, session, Locking, Working, Reached,
         IsTransfer, From, To
<1>4. ASSUME NEW q \in Requests, q # r PROVE LockShape(q)'
  BY <1>4, OthersKeepShape DEF Shape, TypeOK, Connect, Goto, session
<1> QED BY <1>1, <1>2, <1>3, <1>4 DEF Shape

\* The row is locked only when no other request holds its lock.
LEMMA ReadLockedShape ==
  ASSUME Shape, NEW r \in Requests, ReadLocked(r)
  PROVE  Shape'
<1> DEFINE w == Target(r)
<1>0. /\ w \in Wallets /\ From(r) \in Nat /\ To(r) \in Nat
      /\ {FirstId(r), SecondId(r)} = {From(r), To(r)}
  BY CommandTypes, IdsAreOrdered DEF Shape
<1>1. TypeOK'
  <2>1. tx' \in [Requests -> Tx]
    <3>1. tx[r] \in Tx
      BY DEF Shape, TypeOK
    <3>2. balance[w] \in 0 .. MaxBalance
      BY <1>0 DEF Shape, TypeOK
    <3>3. 0 \in 0 .. MaxBalance
      BY WalletTypesAssumption
    <3>4. [tx[r] EXCEPT !.balance[w] = IF w \in rows THEN balance[w] ELSE 0] \in Tx
      BY <1>0, <3>1, <3>2, <3>3, SetBalanceType
    <3> QED BY <3>4 DEF Shape, TypeOK, ReadLocked
  <2>2. locked' \in [Requests -> SUBSET Wallets]
    BY <1>0 DEF Shape, TypeOK, ReadLocked
  <2> QED BY <2>1, <2>2 DEF Shape, TypeOK, ReadLocked, Goto, InTx, Locking, Working, database
<1>2. LocksExclude'
  BY <1>0 DEF Shape, TypeOK, LocksExclude, ReadLocked, Unlocked
<1>3. LockShape(r)'
  <2>1. nth[r] \in {1, 2} /\ (nth[r] = 2 => IsTransfer(r)) /\ (IsTransfer(r) => From(r) # To(r))
    BY DEF Shape, TypeOK, LockShape, ReadLocked, Locking
  <2>2. locked'[r] = Reached(r) \cup {w}
    BY <1>0 DEF Shape, TypeOK, LockShape, ReadLocked
  <2>3. CASE LastLock(r)
    <3>1. locked'[r] = Needed(r)
      BY <1>0, <2>1, <2>2, <2>3 DEF LastLock, Reached, Needed, Target
    <3>2. pc'[r] = "work" /\ UNCHANGED cmd
      BY <2>3 DEF Shape, TypeOK, ReadLocked, Goto
    <3> QED BY <2>1, <3>1, <3>2 DEF LockShape, Needed, Locking, Working, IsTransfer, From, To
  <2>4. CASE ~LastLock(r)
    <3>1. IsTransfer(r) /\ locked'[r] = {FirstId(r)}
      BY <2>1, <2>2, <2>4 DEF LastLock, Reached, Target
    <3>2. pc'[r] = "find" /\ nth'[r] = 2 /\ UNCHANGED cmd
      BY <2>4 DEF Shape, TypeOK, ReadLocked, Goto
    <3> QED BY <2>1, <3>1, <3>2
            DEF LockShape, Reached, Locking, Working, IsTransfer, FirstId, From, To
  <2> QED BY <2>3, <2>4
<1>4. ASSUME NEW q \in Requests, q # r PROVE LockShape(q)'
  BY <1>4, OthersKeepShape DEF Shape, TypeOK, ReadLocked, Goto
<1> QED BY <1>1, <1>2, <1>3, <1>4 DEF Shape

\* A SELECT that finds no row locks nothing.
LEMMA MissShape ==
  ASSUME Shape, NEW r \in Requests, Miss(r)
  PROVE  Shape'
<1>1. TypeOK'
  BY DEF Shape, TypeOK, Miss, Goto, InTx, Locking, database, session
<1>2. LocksExclude'
  BY FewerLocks DEF Shape, Miss, session
<1>3. LockShape(r)'
  BY DEF Shape, TypeOK, LockShape, Miss, Goto, session, Locking, Working, Reached,
         FirstId, IsTransfer, From, To
<1>4. ASSUME NEW q \in Requests, q # r PROVE LockShape(q)'
  BY <1>4, OthersKeepShape DEF Shape, TypeOK, Miss, Goto, session
<1> QED BY <1>1, <1>2, <1>3, <1>4 DEF Shape

\* The inserted row is locked by r, and only when nobody else has locked it.
LEMMA InsertShape ==
  ASSUME Shape, NEW r \in Requests, Insert(r)
  PROVE  Shape'
<1>0. Target(r) \in Wallets
  BY CommandTypes DEF Shape
<1>1. TypeOK'
  BY <1>0 DEF Shape, TypeOK, Insert, Goto, InTx, Locking, database
<1>2. LocksExclude'
  BY DEF Shape, TypeOK, LocksExclude, Insert, Unlocked
<1>3. LockShape(r)'
  <2>1. /\ Reached(r) \subseteq locked'[r]
        /\ locked'[r] \subseteq Reached(r) \cup {Target(r)}
    BY DEF Shape, TypeOK, LockShape, Insert
  <2>2. pc'[r] = "refind" /\ UNCHANGED <<cmd, nth>>
    BY DEF Shape, TypeOK, Insert, Goto
  <2>3. /\ nth[r] = 2 => IsTransfer(r)
        /\ IsTransfer(r) => From(r) # To(r)
    BY DEF Shape, LockShape, Insert, Locking
  <2> QED BY <2>1, <2>2, <2>3
          DEF LockShape, Locking, Working, Reached, Target, FirstId, SecondId,
              IsTransfer, From, To
<1>4. ASSUME NEW q \in Requests, q # r PROVE LockShape(q)'
  BY <1>4, OthersKeepShape DEF Shape, TypeOK, Insert, Goto
<1> QED BY <1>1, <1>2, <1>3, <1>4 DEF Shape

\* What the bodies of the commands have in common: they save a well typed
\* transaction and keep their locks.
LEMMA SaveShape ==
  ASSUME Shape, NEW r \in Requests, NEW t \in Tx, NEW l \in {"move", "commit"},
         pc[r] \in {"work", "move"}, Save(r, t, l),
         l = "move" => Amt(r) <= t.balance[From(r)],
         UNCHANGED <<database, locked, cmd, phase, nth, result, held, faults>>
  PROVE  Shape'
<1>1. TypeOK'
  BY DEF Shape, TypeOK, Save, Goto, InTx, Working, database
<1>2. LocksExclude'
  BY FewerLocks DEF Shape
<1>3. LockShape(r)'
  <2>1. /\ locked[r] = Needed(r)
        /\ IsTransfer(r) => From(r) # To(r)
    BY DEF Shape, LockShape, Working
  <2>2. pc'[r] = l /\ tx'[r] = t
    BY DEF Shape, TypeOK, Save, Goto
  <2> QED BY <2>1, <2>2
          DEF LockShape, Locking, Working, Needed, IsTransfer, From, To, Amt
<1>4. ASSUME NEW q \in Requests, q # r PROVE LockShape(q)'
  BY <1>4, OthersKeepShape DEF Shape, TypeOK, Save, Goto
<1> QED BY <1>1, <1>2, <1>3, <1>4 DEF Shape

\* An exception keeps the locks too: they go with the rollback.
LEMMA ThrowShape ==
  ASSUME Shape, NEW r \in Requests, pc[r] \in InTx, Throw(r), faults' \in Nat,
         UNCHANGED <<database, locked, cmd, phase, nth, result, held>>
  PROVE  Shape'
<1>1. TypeOK'
  BY DEF Shape, TypeOK, Throw, Goto, database
<1>2. LocksExclude'
  BY FewerLocks DEF Shape
<1>3. LockShape(r)'
  BY DEF Shape, TypeOK, LockShape, Throw, Goto, InTx, Locking, Working, IsTransfer,
         From, To
<1>4. ASSUME NEW q \in Requests, q # r PROVE LockShape(q)'
  BY <1>4, OthersKeepShape DEF Shape, TypeOK, Throw, Goto
<1> QED BY <1>1, <1>2, <1>3, <1>4 DEF Shape

\* A deposit saves a balance that its column can hold, or throws.
LEMMA DepositShape ==
  ASSUME Shape, NEW r \in Requests, Deposit(r)
  PROVE  Shape'
<1> DEFINE w == From(r)
           b == tx[r].balance[w] + Amt(r)
           es == {NewEvent(r, "FundsDeposited", w, Amt(r))}
           t == [tx[r] EXCEPT !.balance[w] = b]
<1>1. w \in Wallets /\ Amt(r) \in Nat
  BY CommandTypes DEF Shape
<1>2. tx[r] \in Tx
  BY DEF Shape, TypeOK
<1>3. tx[r].balance[w] \in 0 .. MaxBalance
  BY <1>1, <1>2 DEF Tx
<1>4. es \in SUBSET Event
  BY <1>1, EventType DEF EventTypes
<1>5. CASE b <= MaxBalance /\ Save(r, Log(t, es), "commit")
  <2>1. b \in 0 .. MaxBalance
    BY <1>1, <1>3, <1>5, WalletTypesAssumption
  <2>2. t \in Tx
    BY <1>1, <1>2, <2>1, SetBalanceType
  <2>3. Log(t, es) \in Tx
    BY <1>4, <2>2, LogType
  <2> HIDE DEF b, es, t
  <2> QED BY <1>5, <2>3, SaveShape DEF Deposit
<1>6. CASE Throw(r)
  BY <1>6, ThrowShape DEF Deposit, Shape, TypeOK, InTx, Working
<1> QED BY <1>5, <1>6 DEF Deposit

\* A withdrawal saves a balance that is not negative, or throws.
LEMMA WithdrawShape ==
  ASSUME Shape, NEW r \in Requests, Withdraw(r)
  PROVE  Shape'
<1> DEFINE w == From(r)
           b == tx[r].balance[w] - Amt(r)
           es == {NewEvent(r, "FundsWithdrawn", w, Amt(r))}
           t == [tx[r] EXCEPT !.balance[w] = b]
<1>1. w \in Wallets /\ Amt(r) \in Nat
  BY CommandTypes DEF Shape
<1>2. tx[r] \in Tx
  BY DEF Shape, TypeOK
<1>3. tx[r].balance[w] \in 0 .. MaxBalance
  BY <1>1, <1>2 DEF Tx
<1>4. es \in SUBSET Event
  BY <1>1, EventType DEF EventTypes
<1>5. CASE b >= 0 /\ Save(r, Log(t, es), "commit")
  <2>1. b \in 0 .. MaxBalance
    BY <1>1, <1>3, <1>5, WalletTypesAssumption
  <2>2. t \in Tx
    BY <1>1, <1>2, <2>1, SetBalanceType
  <2>3. Log(t, es) \in Tx
    BY <1>4, <2>2, LogType
  <2> HIDE DEF b, es, t
  <2> QED BY <1>5, <2>3, SaveShape DEF Withdraw
<1>6. CASE Throw(r)
  BY <1>6, ThrowShape DEF Withdraw, Shape, TypeOK, InTx, Working
<1> QED BY <1>5, <1>6 DEF Withdraw

\* Saving one transfer row keeps a transaction well typed.
LEMMA SetRowType ==
  ASSUME NEW t \in Tx, NEW x \in Transfer
  PROVE  [t EXCEPT !.rows = {x}] \in Tx
BY DEF Tx

\* The transfer of a request is a row of transfers.
LEMMA OwnTransferType ==
  ASSUME TypeOK, NEW r \in Requests, NEW status \in TransferStatuses
  PROVE  OwnTransfer(r, status) \in Transfer
BY CommandTypes DEF OwnTransfer, Transfer

\* The funds checked here are what MoveFunds relies on.
LEMMA InitiateTransferShape ==
  ASSUME Shape, NEW r \in Requests, InitiateTransfer(r)
  PROVE  Shape'
<1> DEFINE es == {NewEvent(r, "TransferInitiated", From(r), Amt(r))}
           t == [tx[r] EXCEPT !.rows = {OwnTransfer(r, "initiated")}]
<1>1. From(r) \in Wallets /\ Amt(r) \in Nat
  BY CommandTypes DEF Shape
<1>2. tx[r] \in Tx
  BY DEF Shape, TypeOK
<1>3. es \in SUBSET Event
  BY <1>1, EventType DEF EventTypes
<1>4. CASE tx[r].balance[From(r)] >= Amt(r) /\ Save(r, Log(t, es), "move")
  <2>1. OwnTransfer(r, "initiated") \in Transfer
    BY OwnTransferType DEF Shape, TransferStatuses
  <2>2. t \in Tx
    BY <1>2, <2>1, SetRowType
  <2>3. Log(t, es) \in Tx
    BY <1>3, <2>2, LogType
  <2>4. Log(t, es).balance = tx[r].balance
    BY <1>2 DEF Log, Tx
  <2>5. Amt(r) <= Log(t, es).balance[From(r)]
    <3>1. tx[r].balance[From(r)] \in 0 .. MaxBalance
      BY <1>1, <1>2 DEF Tx
    <3> QED BY <1>1, <1>4, <2>4, <3>1, WalletTypesAssumption
  <2> HIDE DEF es, t
  <2> QED BY <1>4, <2>3, <2>5, SaveShape DEF InitiateTransfer
<1>5. CASE Throw(r)
  BY <1>5, ThrowShape DEF InitiateTransfer, Shape, TypeOK, InTx, Working
<1> QED BY <1>4, <1>5 DEF InitiateTransfer

\* The debit cannot go below zero: the funds are still those checked.
LEMMA MoveFundsShape ==
  ASSUME Shape, NEW r \in Requests, MoveFunds(r)
  PROVE  Shape'
<1> DEFINE debit == tx[r].balance[From(r)] - Amt(r)
           credit == tx[r].balance[To(r)] + Amt(r)
           es == {NewEvent(r, "FundsWithdrawn", From(r), Amt(r)),
                  NewEvent(r, "FundsDeposited", To(r), Amt(r)),
                  NewEvent(r, "TransferCompleted", From(r), Amt(r))}
           own == OwnTransfer(r, "credited")
           t1 == [tx[r] EXCEPT !.balance[From(r)] = debit]
           t2 == [t1 EXCEPT !.balance[To(r)] = credit]
           t3 == [t2 EXCEPT !.rows = {own}]
<1>1. From(r) \in Wallets /\ To(r) \in Wallets /\ Amt(r) \in Nat
  BY CommandTypes DEF Shape
<1>2. tx[r] \in Tx
  BY DEF Shape, TypeOK
<1>3. /\ tx[r].balance[From(r)] \in 0 .. MaxBalance
      /\ tx[r].balance[To(r)] \in 0 .. MaxBalance
  BY <1>1, <1>2 DEF Tx
<1>4. es \in SUBSET Event
  BY <1>1, EventType DEF EventTypes
<1>5. CASE credit <= MaxBalance /\ Save(r, Log(t3, es), "commit")
  <2>1. debit \in 0 .. MaxBalance
    <3>1. Amt(r) <= tx[r].balance[From(r)]
      BY DEF Shape, LockShape, MoveFunds
    <3> QED BY <1>1, <1>3, <3>1, WalletTypesAssumption
  <2>2. credit \in 0 .. MaxBalance
    BY <1>1, <1>3, <1>5, WalletTypesAssumption
  <2>3. t2 \in Tx
    <3>1. t1 \in Tx
      BY <1>1, <1>2, <2>1, SetBalanceType
    <3> HIDE DEF t1, credit
    <3> QED BY <1>1, <2>2, <3>1, SetBalanceType
  <2>4. own \in Transfer
    BY OwnTransferType DEF Shape, TransferStatuses
  <2>5. t3 \in Tx
    <3> HIDE DEF t2, own
    <3> QED BY <2>3, <2>4, SetRowType
  <2>6. Log(t3, es) \in Tx
    <3> HIDE DEF t3, es
    <3> QED BY <1>4, <2>5, LogType
  <2> HIDE DEF es, t3
  <2> QED BY <1>5, <2>6, SaveShape DEF MoveFunds
<1>6. CASE Throw(r)
  BY <1>6, ThrowShape DEF MoveFunds, Shape, TypeOK, InTx, Working
<1> QED BY <1>5, <1>6 DEF MoveFunds

\* A compensation saves a balance that its column can hold, or throws.
LEMMA CompensateShape ==
  ASSUME Shape, NEW r \in Requests, Compensate(r)
  PROVE  Shape'
<1> DEFINE b == tx[r].balance[From(r)] + Amt(r)
           es == {NewEvent(r, "TransferFailed", From(r), Amt(r)),
                  NewEvent(r, "TransferCompensated", From(r), Amt(r))}
           row(x) == [x EXCEPT !.status = "compensated"]
           t1 == [tx[r] EXCEPT !.balance[From(r)] = b]
           t2(x) == [t1 EXCEPT !.rows = {row(x)}]
<1>1. From(r) \in Wallets /\ Amt(r) \in Nat
  BY CommandTypes DEF Shape
<1>2. tx[r] \in Tx
  BY DEF Shape, TypeOK
<1>3. tx[r].balance[From(r)] \in 0 .. MaxBalance
  BY <1>1, <1>2 DEF Tx
<1>4. es \in SUBSET Event
  BY <1>1, EventType DEF EventTypes
<1>5. CASE Goto(r, "commit") /\ UNCHANGED tx
  <2>1. Save(r, tx[r], "commit")
    BY <1>5 DEF Save, Shape, TypeOK
  <2> QED BY <1>2, <2>1, SaveShape DEF Compensate
<1>6. ASSUME NEW x \in Compensable(r), b <= MaxBalance, Save(r, Log(t2(x), es), "commit")
      PROVE  Shape'
  <2>1. t1 \in Tx
    <3>1. b \in 0 .. MaxBalance
      BY <1>1, <1>3, <1>6, WalletTypesAssumption
    <3> HIDE DEF b
    <3> QED BY <1>1, <1>2, <3>1, SetBalanceType
  <2>2. row(x) \in Transfer
    BY DEF Shape, TypeOK, Compensable, Transfer, TransferStatuses
  <2>3. t2(x) \in Tx
    <3> HIDE DEF t1, row
    <3> QED BY <2>1, <2>2, SetRowType
  <2>4. Log(t2(x), es) \in Tx
    <3> HIDE DEF t2, es
    <3> QED BY <1>4, <2>3, LogType
  <2> HIDE DEF es, t2
  <2> QED BY <1>6, <2>4, SaveShape DEF Compensate
<1>7. CASE Throw(r)
  BY <1>7, ThrowShape DEF Compensate, Shape, TypeOK, InTx, Working
<1> QED BY <1>5, <1>6, <1>7 DEF Compensate

\* What the ends of a transaction have in common: no lock is left.
LEMMA EndShape ==
  ASSUME Shape, NEW r \in Requests, NEW l \in {"connect", "release", "done"},
         EndTx(r), Goto(r, l), UNCHANGED cmd, TypeOK', pc[r] \notin {"idle", "done"}
  PROVE  Shape'
<1>1. LocksExclude'
  BY EndTxType, FewerLocks DEF Shape
<1>2. LockShape(r)'
  <2>1. locked'[r] = {} /\ nth'[r] = 1 /\ pc'[r] = l
    BY EndTxType DEF Shape, TypeOK, Goto
  <2> QED BY <2>1 DEF Shape, LockShape, Locking, Working, IsTransfer, From, To
<1>3. ASSUME NEW q \in Requests, q # r PROVE LockShape(q)'
  BY <1>3, OthersKeepShape DEF Shape, TypeOK, EndTx, Goto
<1> QED BY <1>1, <1>2, <1>3 DEF Shape

\* A commit gives up every lock.
LEMMA CommitShape ==
  ASSUME Shape, NEW r \in Requests, Commit(r)
  PROVE  Shape'
<1>1. Answer(r) \in {"ok", "failed", "compensated"}
  BY DEF Answer
<1>2. TypeOK'
  BY <1>1, EndTxType, WriteBackType DEF Shape, TypeOK, Commit, Goto
<1> QED BY <1>2, EndShape DEF Commit

\* So does a rollback, before compensation begins.
LEMMA RollbackShape ==
  ASSUME Shape, NEW r \in Requests, Rollback(r)
  PROVE  Shape'
<1>1. TypeOK'
  BY EndTxType DEF Shape, TypeOK, Rollback, Goto, database
<1> QED BY <1>1, EndShape DEF Rollback

\* The finally block gives a connection back and touches nothing else.
LEMMA ReleaseShape ==
  ASSUME Shape, NEW r \in Requests, NEW p \in {"main", "comp"}, Release(r, p)
  PROVE  Shape'
<1>1. TypeOK'
  BY DEF Shape, TypeOK, Release, Goto, database, session
<1>2. LocksExclude'
  BY FewerLocks DEF Shape, Release, session
<1>3. LockShape(r)'
  <2>1. CASE pc'[r] = "done" /\ pc[r] = "release"
    BY <2>1 DEF Shape, LockShape, Release, session, Locking, Working
  <2>2. CASE pc'[r] = pc[r]
    BY <2>2, OthersKeepShape DEF Shape, Release, session
  <2> QED BY <2>1, <2>2 DEF Shape, TypeOK, Release, Goto
<1>4. ASSUME NEW q \in Requests, q # r PROVE LockShape(q)'
  BY <1>4, OthersKeepShape DEF Shape, TypeOK, Release, Goto, session
<1> QED BY <1>1, <1>2, <1>3, <1>4 DEF Shape

\* A failed statement is an exception at any await of a transaction.
LEMMA FailShape ==
  ASSUME Shape, NEW r \in Requests, Fail(r)
  PROVE  Shape'
BY ThrowShape DEF Fail, Shape, TypeOK

\* A lost connection gives up every lock.
LEMMA DropShape ==
  ASSUME Shape, NEW r \in Requests, Drop(r)
  PROVE  Shape'
<1>1. TypeOK'
  BY EndTxType DEF Shape, TypeOK, Drop, Goto, database
<1> QED BY <1>1, EndShape DEF Drop, InTx, Locking, Working

\* A transaction that did not begin has no lock.
LEMMA BeginFailsShape ==
  ASSUME Shape, NEW r \in Requests, BeginFails(r)
  PROVE  Shape'
<1>1. TypeOK'
  BY EndTxType DEF Shape, TypeOK, BeginFails, Goto, database
<1> QED BY <1>1, EndShape DEF BeginFails

\* A commit whose answer is lost gives up every lock.
LEMMA LoseAnswerShape ==
  ASSUME Shape, NEW r \in Requests, LoseAnswer(r)
  PROVE  Shape'
<1>1. TypeOK'
  BY EndTxType, WriteBackType DEF Shape, TypeOK, LoseAnswer, Goto
<1> QED BY <1>1, EndShape DEF LoseAnswer

\* A stuttering step keeps Shape.
LEMMA StutterShape ==
  ASSUME Shape, UNCHANGED vars
  PROVE  Shape'
<1>1. TypeOK'
  BY DEF Shape, TypeOK, vars
<1>2. LocksExclude'
  BY FewerLocks DEF Shape, vars
<1>3. ASSUME NEW q \in Requests PROVE LockShape(q)'
  BY OthersKeepShape DEF Shape, vars
<1> QED BY <1>1, <1>2, <1>3 DEF Shape

\* Shape is an inductive invariant.
LEMMA NextShape == Shape /\ [Next]_vars => Shape'
<1> SUFFICES ASSUME Shape, [Next]_vars PROVE Shape'
  OBVIOUS
<1>1. ASSUME NEW r \in Requests, Step(r) PROVE Shape'
  BY <1>1, ConnectShape, ReadLockedShape, MissShape, InsertShape, DepositShape,
     WithdrawShape, InitiateTransferShape, MoveFundsShape, CompensateShape,
     CommitShape, RollbackShape, ReleaseShape
     DEF Step
<1>2. ASSUME NEW r \in Requests,
             \/ Refuse(r) \/ Accept(r)
             \/ Fail(r) \/ Drop(r) \/ BeginFails(r) \/ LoseAnswer(r)
      PROVE  Shape'
  BY <1>2, RefuseShape, AcceptShape, FailShape, DropShape, BeginFailsShape,
     LoseAnswerShape
<1>3. CASE Quiet \/ UNCHANGED vars
  BY <1>3, StutterShape DEF Quiet
<1> QED BY <1>1, <1>2, <1>3 DEF Next

\* Shape holds in every reachable state.
LEMMA ShapeHolds == Spec => []Shape
BY InitShape, NextShape, PTL DEF Spec

-----------------------------------------------------------------------------
(* What Shape implies *)

\* The service is well typed in every reachable state: no committed balance
\* is negative or exceeds numeric(20, 4), in any interleaving of deposits,
\* withdrawals, transfers, compensations and faults.
THEOREM TypeCorrect == Spec => []TypeOK
BY ShapeHolds, PTL DEF Shape

\* lockWallet's row locks exclude each other: no two transactions ever hold
\* the same wallet, whether the row was there, inserted or created by both.
THEOREM MutualExclusion == Spec => []LocksExclude
BY ShapeHolds, PTL DEF Shape

\* A request that waits for a lock holds only wallets with smaller ids.
LEMMA HeldIsSmaller ==
  ASSUME Shape, NEW q \in Requests, pc[q] \in Locking,
         NEW w \in locked[q], w # Target(q)
  PROVE  w < Target(q)
<1>1. w \in Reached(q)
  BY DEF Shape, LockShape, Locking
<1>2. nth[q] = 2 /\ w = FirstId(q)
  BY <1>1 DEF Reached, Shape, TypeOK
<1>3. IsTransfer(q) /\ From(q) # To(q)
  BY <1>2 DEF Shape, LockShape, Locking
<1> QED BY <1>2, <1>3, IdsAreOrdered DEF Target, Shape

\* Deadlock freedom of the wallet locks: along a chain of transactions that
\* wait for each other the awaited ids grow, so that no chain closes, however
\* many transfers run in opposite directions.  This is what orderWalletIds
\* is for.
THEOREM LockOrder == Spec => []WaitersClimb
<1>1. Shape => WaitersClimb
  <2> SUFFICES ASSUME Shape, NEW r \in Requests, NEW q \in Requests,
                      NEW z \in Requests, WaitsFor(r, q), WaitsFor(q, z)
               PROVE  Target(r) < Target(q)
    BY DEF WaitersClimb
  <2>1. Target(r) \in locked[q] /\ pc[q] \in Locking
    BY DEF WaitsFor
  <2>2. Target(r) # Target(q)
    BY <2>1 DEF WaitsFor, Shape, LocksExclude
  <2> QED BY <2>1, <2>2, HeldIsSmaller
<1> QED BY <1>1, ShapeHolds, PTL

-----------------------------------------------------------------------------
(* What transactions have read: Fresh *)

\* A wallet without a row has no balance.
Rowless == \A w \in Wallets \ rows : balance[w] = 0

\* What r's transaction contains at each point of its handler.
ReadShape(r) ==
  /\ pc[r] \in Locking \cup {"idle", "connect"} =>
       \A w \in Wallets \ locked[r] : tx[r].balance[w] = 0
  /\ pc[r] \in Locking \cup {"work", "move"} =>
       \A w \in locked[r] : tx[r].balance[w] = balance[w]
  /\ pc[r] = "refind" => Target(r) \in rows \cup locked[r]
  /\ tx[r].out = tx[r].log

Fresh == Shape /\ Rowless /\ OutboxComplete /\ \A r \in Requests : ReadShape(r)

-----------------------------------------------------------------------------
(* What every action relies on *)

\* A step of r that changes committed balances only of wallets r has locked,
\* and deletes no row, leaves what the others have read as it was.
LEMMA OthersKeepReads ==
  ASSUME Shape, NEW r \in Requests, NEW q \in Requests, q # r, ReadShape(q),
         UNCHANGED cmd, pc'[q] = pc[q], locked'[q] = locked[q], tx'[q] = tx[q],
         nth'[q] = nth[q], rows \subseteq rows',
         \A w \in Wallets \ locked[r] : balance'[w] = balance[w]
  PROVE  ReadShape(q)'
<1>1. \A w \in locked[q] : w \in Wallets /\ balance'[w] = balance[w]
  BY DEF Shape, TypeOK, LocksExclude
<1>2. Target(q)' = Target(q)
  BY DEF Target, FirstId, SecondId, From, To, IsTransfer
<1> QED BY <1>1, <1>2 DEF ReadShape

\* Steps that change neither the database nor a transaction.
LEMMA IdleStepFresh ==
  ASSUME Fresh, Shape', NEW r \in Requests, NEW l, Goto(r, l),
         UNCHANGED <<database, session, cmd, nth>>,
         \/ pc[r] = "idle" /\ l \in {"done", "connect"}
         \/ pc[r] = "connect" /\ l = "find"
         \/ pc[r] = "find" /\ l = "insert"
         \/ pc[r] = "release" /\ l = "done"
         \/ l = pc[r]
  PROVE  Fresh'
<1>1. Rowless' /\ OutboxComplete'
  BY DEF Fresh, Rowless, OutboxComplete, database
<1>2. ReadShape(r)'
  <2>1. pc'[r] = l
    BY DEF Fresh, Shape, TypeOK, Goto
  <2>2. CASE l = pc[r]
    <3>1. Target(r)' = Target(r)
      BY DEF Target, FirstId, SecondId, From, To, IsTransfer
    <3> QED BY <2>1, <2>2, <3>1 DEF Fresh, ReadShape, database, session
  <2>3. CASE pc[r] = "connect" /\ l = "find"
    BY <2>1, <2>3 DEF Fresh, Shape, ReadShape, LockShape, session, database, Locking
  <2>4. CASE pc[r] = "find" /\ l = "insert"
    BY <2>1, <2>4 DEF Fresh, ReadShape, session, database, Locking
  <2>5. CASE pc[r] = "idle" /\ l \in {"done", "connect"}
    BY <2>1, <2>5 DEF Fresh, ReadShape, session, database, Locking
  <2>6. CASE pc[r] = "release" /\ l = "done"
    BY <2>1, <2>6 DEF Fresh, ReadShape, session, database, Locking
  <2> QED BY <2>2, <2>3, <2>4, <2>5, <2>6
<1>3. ASSUME NEW q \in Requests, q # r PROVE ReadShape(q)'
  BY <1>3, OthersKeepReads DEF Fresh, Shape, TypeOK, Goto, database, session
<1> QED BY <1>1, <1>2, <1>3 DEF Fresh

\* Saves and exceptions in the body of a command.
LEMMA BodyFresh ==
  ASSUME Fresh, Shape', NEW r \in Requests, NEW t, NEW l, Save(r, t, l),
         t.out = t.log,
         \/ l \in {"commit", "abort"}
         \/ l = "move" /\ pc[r] = "work" /\ t.balance = tx[r].balance,
         UNCHANGED <<database, locked, cmd, phase, nth, result, held>>
  PROVE  Fresh'
<1>1. Rowless' /\ OutboxComplete'
  BY DEF Fresh, Rowless, OutboxComplete, database
<1>2. ReadShape(r)'
  <2>1. pc'[r] = l /\ tx'[r] = t
    BY DEF Fresh, Shape, TypeOK, Save, Goto
  <2> QED BY <2>1 DEF Fresh, ReadShape, Locking, database
<1>3. ASSUME NEW q \in Requests, q # r PROVE ReadShape(q)'
  BY <1>3, OthersKeepReads DEF Fresh, Shape, TypeOK, Save, Goto, database
<1> QED BY <1>1, <1>2, <1>3 DEF Fresh

\* The end of a transaction, with or without its writes.
LEMMA EndFresh ==
  ASSUME Fresh, Shape', NEW r \in Requests, NEW l \in {"connect", "release", "done"},
         EndTx(r), Goto(r, l), UNCHANGED cmd,
         UNCHANGED database \/ WriteBack(r)
  PROVE  Fresh'
<1>1. /\ rows \subseteq rows'
      /\ \A w \in Wallets \ locked[r] : balance'[w] = balance[w]
  BY DEF database, WriteBack
<1>2. Rowless'
  BY DEF Fresh, Rowless, database, WriteBack
<1>3. OutboxComplete'
  BY DEF Fresh, OutboxComplete, ReadShape, database, WriteBack
<1>4. ReadShape(r)'
  <2>1. pc'[r] = l /\ tx'[r] = EmptyTx
    BY DEF Fresh, Shape, TypeOK, EndTx, Goto
  <2> QED BY <2>1 DEF ReadShape, EmptyTx, Locking
<1>5. ASSUME NEW q \in Requests, q # r PROVE ReadShape(q)'
  BY <1>1, <1>5, OthersKeepReads DEF Fresh, Shape, TypeOK, EndTx, Goto
<1> QED BY <1>2, <1>3, <1>4, <1>5 DEF Fresh

-----------------------------------------------------------------------------
(* Every action keeps Fresh *)

\* Initially no transaction has read anything and both logs are empty.
LEMMA InitFresh == Init => Fresh
<1> SUFFICES ASSUME Init PROVE Fresh
  OBVIOUS
<1>1. Shape
  BY InitShape
<1>2. Rowless /\ OutboxComplete
  BY DEF Init, Rowless, OutboxComplete
<1>3. ASSUME NEW r \in Requests PROVE ReadShape(r)
  BY DEF Init, ReadShape, EmptyTx, Locking
<1> QED BY <1>1, <1>2, <1>3 DEF Fresh

\* Under the lock r reads what is committed; a row it has inserted reads zero.
LEMMA ReadLockedFresh ==
  ASSUME Fresh, Shape', NEW r \in Requests, ReadLocked(r)
  PROVE  Fresh'
<1> DEFINE w == Target(r)
           b == IF w \in rows THEN balance[w] ELSE 0
<1>0. w \in Wallets
  BY CommandTypes DEF Fresh, Shape
<1>1. Rowless' /\ OutboxComplete'
  BY DEF Fresh, Rowless, OutboxComplete, ReadLocked, database
<1>2. ReadShape(r)'
  <2>1. tx[r] \in Tx /\ tx[r].balance \in [Wallets -> 0 .. MaxBalance]
    BY DEF Fresh, Shape, TypeOK, Tx
  <2>2. tx'[r] = [tx[r] EXCEPT !.balance = [tx[r].balance EXCEPT ![w] = b]]
    BY DEF Fresh, Shape, TypeOK, ReadLocked
  <2>3. /\ tx'[r].balance = [tx[r].balance EXCEPT ![w] = b]
        /\ tx'[r].out = tx[r].out /\ tx'[r].log = tx[r].log
    BY <2>1, <2>2 DEF Tx
  <2>4. b = balance[w]
    BY <1>0 DEF Fresh, Rowless
  <2>5. locked'[r] = locked[r] \cup {w} /\ UNCHANGED <<rows, balance>>
    BY DEF Fresh, Shape, TypeOK, ReadLocked, database
  <2>6. pc[r] \in Locking /\ pc'[r] \in {"find", "work"}
    BY DEF Fresh, Shape, TypeOK, ReadLocked, Goto, Locking
  <2> HIDE DEF b
  <2>7. \A v \in Wallets \ locked'[r] : tx'[r].balance[v] = 0
    BY <2>1, <2>3, <2>5, <2>6 DEF Fresh, ReadShape
  <2>8. \A v \in locked'[r] : tx'[r].balance[v] = balance'[v]
    <3>1. locked[r] \subseteq Wallets
      BY DEF Fresh, Shape, TypeOK
    <3> QED BY <1>0, <2>1, <2>3, <2>4, <2>5, <2>6, <3>1 DEF Fresh, ReadShape
  <2> QED BY <2>3, <2>6, <2>7, <2>8 DEF Fresh, ReadShape
<1>3. ASSUME NEW q \in Requests, q # r PROVE ReadShape(q)'
  BY <1>3, OthersKeepReads DEF Fresh, Shape, TypeOK, ReadLocked, Goto, database
<1> QED BY <1>1, <1>2, <1>3 DEF Fresh

\* After the insert the row is committed or r's own.
LEMMA InsertFresh ==
  ASSUME Fresh, Shape', NEW r \in Requests, Insert(r)
  PROVE  Fresh'
<1>0. Target(r) \in Wallets
  BY CommandTypes DEF Fresh, Shape
<1>1. Rowless' /\ OutboxComplete'
  BY DEF Fresh, Rowless, OutboxComplete, Insert, database
<1>2. ReadShape(r)'
  <2>1. pc'[r] = "refind" /\ Target(r)' = Target(r)
    BY DEF Fresh, Shape, TypeOK, Insert, Goto, Target, FirstId, SecondId, From, To,
           IsTransfer
  <2>2. UNCHANGED <<rows, balance, tx>> /\ pc[r] = "insert"
    BY DEF Insert, database
  <2>3. \/ Target(r) \in rows /\ locked'[r] = locked[r]
        \/ Target(r) \notin rows /\ locked'[r] = locked[r] \cup {Target(r)}
    BY DEF Fresh, Shape, TypeOK, Insert
  <2>4. \A w \in Wallets \ locked'[r] : tx'[r].balance[w] = 0
    BY <2>2, <2>3 DEF Fresh, ReadShape, Locking
  <2>5. \A w \in locked'[r] : tx'[r].balance[w] = balance'[w]
    <3>1. \A w \in locked[r] : tx[r].balance[w] = balance[w]
      BY <2>2 DEF Fresh, ReadShape, Locking
    <3>2. ASSUME Target(r) \notin rows, Target(r) \notin locked[r]
          PROVE  tx[r].balance[Target(r)] = 0 /\ balance[Target(r)] = 0
      BY <1>0, <2>2, <3>2 DEF Fresh, Rowless, ReadShape, Locking
    <3> QED BY <2>2, <2>3, <3>1, <3>2
  <2> QED BY <2>1, <2>2, <2>3, <2>4, <2>5 DEF Fresh, ReadShape
<1>3. ASSUME NEW q \in Requests, q # r PROVE ReadShape(q)'
  BY <1>3, OthersKeepReads DEF Fresh, Shape, TypeOK, Insert, Goto, database
<1> QED BY <1>1, <1>2, <1>3 DEF Fresh

\* An exception keeps what was saved, until the rollback.
LEMMA ThrowFresh ==
  ASSUME Fresh, Shape', NEW r \in Requests, Throw(r),
         UNCHANGED <<database, locked, cmd, phase, nth, result, held>>
  PROVE  Fresh'
<1>1. Save(r, tx[r], "abort")
  BY DEF Throw, Save, Fresh, Shape, TypeOK
<1>2. tx[r].out = tx[r].log
  BY DEF Fresh, ReadShape
<1> QED BY <1>1, <1>2, BodyFresh

\* A deposit sends the event it logs.
LEMMA DepositFresh ==
  ASSUME Fresh, Shape', NEW r \in Requests, Deposit(r)
  PROVE  Fresh'
<1> DEFINE t == Log([tx[r] EXCEPT !.balance[From(r)] = tx[r].balance[From(r)] + Amt(r)],
                    {NewEvent(r, "FundsDeposited", From(r), Amt(r))})
<1>1. CASE Save(r, t, "commit")
  <2>1. t.out = t.log
    BY DEF Fresh, Shape, TypeOK, Tx, ReadShape, Log
  <2> HIDE DEF t
  <2> QED BY <1>1, <2>1, BodyFresh DEF Deposit
<1>2. CASE Throw(r)
  BY <1>2, ThrowFresh DEF Deposit
<1> QED BY <1>1, <1>2 DEF Deposit

\* A withdrawal sends the event it logs.
LEMMA WithdrawFresh ==
  ASSUME Fresh, Shape', NEW r \in Requests, Withdraw(r)
  PROVE  Fresh'
<1> DEFINE t == Log([tx[r] EXCEPT !.balance[From(r)] = tx[r].balance[From(r)] - Amt(r)],
                    {NewEvent(r, "FundsWithdrawn", From(r), Amt(r))})
<1>1. CASE Save(r, t, "commit")
  <2>1. t.out = t.log
    BY DEF Fresh, Shape, TypeOK, Tx, ReadShape, Log
  <2> HIDE DEF t
  <2> QED BY <1>1, <2>1, BodyFresh DEF Withdraw
<1>2. CASE Throw(r)
  BY <1>2, ThrowFresh DEF Withdraw
<1> QED BY <1>1, <1>2 DEF Withdraw

\* The transfer row is saved before the balances are touched.
LEMMA InitiateTransferFresh ==
  ASSUME Fresh, Shape', NEW r \in Requests, InitiateTransfer(r)
  PROVE  Fresh'
<1> DEFINE t == Log([tx[r] EXCEPT !.rows = {OwnTransfer(r, "initiated")}],
                    {NewEvent(r, "TransferInitiated", From(r), Amt(r))})
<1>1. CASE Save(r, t, "move")
  <2>1. t.out = t.log /\ t.balance = tx[r].balance
    BY DEF Fresh, Shape, TypeOK, Tx, ReadShape, Log
  <2> HIDE DEF t
  <2> QED BY <1>1, <2>1, BodyFresh DEF InitiateTransfer
<1>2. CASE Throw(r)
  BY <1>2, ThrowFresh DEF InitiateTransfer
<1> QED BY <1>1, <1>2 DEF InitiateTransfer

\* Debit and credit are saved last, and their three events are sent.
LEMMA MoveFundsFresh ==
  ASSUME Fresh, Shape', NEW r \in Requests, MoveFunds(r)
  PROVE  Fresh'
<1> DEFINE t == Log([tx[r] EXCEPT !.balance[From(r)] = tx[r].balance[From(r)] - Amt(r),
                                  !.balance[To(r)] = tx[r].balance[To(r)] + Amt(r),
                                  !.rows = {OwnTransfer(r, "credited")}],
                    {NewEvent(r, "FundsWithdrawn", From(r), Amt(r)),
                     NewEvent(r, "FundsDeposited", To(r), Amt(r)),
                     NewEvent(r, "TransferCompleted", From(r), Amt(r))})
<1>1. CASE Save(r, t, "commit")
  <2>1. t.out = t.log
    BY DEF Fresh, Shape, TypeOK, Tx, ReadShape, Log
  <2> HIDE DEF t
  <2> QED BY <1>1, <2>1, BodyFresh DEF MoveFunds
<1>2. CASE Throw(r)
  BY <1>2, ThrowFresh DEF MoveFunds
<1> QED BY <1>1, <1>2 DEF MoveFunds

\* A compensation sends the two events it logs, or none.
LEMMA CompensateFresh ==
  ASSUME Fresh, Shape', NEW r \in Requests, Compensate(r)
  PROVE  Fresh'
<1> DEFINE t(x) == Log([tx[r] EXCEPT !.balance[From(r)] = tx[r].balance[From(r)] + Amt(r),
                                     !.rows = {[x EXCEPT !.status = "compensated"]}],
                       {NewEvent(r, "TransferFailed", From(r), Amt(r)),
                        NewEvent(r, "TransferCompensated", From(r), Amt(r))})
<1>1. CASE Goto(r, "commit") /\ UNCHANGED tx
  <2>1. Save(r, tx[r], "commit") /\ tx[r].out = tx[r].log
    BY <1>1 DEF Save, Fresh, Shape, TypeOK, ReadShape
  <2> QED BY <2>1, BodyFresh DEF Compensate
<1>2. ASSUME NEW x \in Compensable(r), Save(r, t(x), "commit")
      PROVE  Fresh'
  <2>1. t(x).out = t(x).log
    BY DEF Fresh, Shape, TypeOK, Tx, ReadShape, Log
  <2> HIDE DEF t
  <2> QED BY <1>2, <2>1, BodyFresh DEF Compensate
<1>3. CASE Throw(r)
  BY <1>3, ThrowFresh DEF Compensate
<1> QED BY <1>1, <1>2, <1>3 DEF Compensate

\* The finally block reads and writes no row.
LEMMA ReleaseFresh ==
  ASSUME Fresh, Shape', NEW r \in Requests, NEW p \in {"main", "comp"}, Release(r, p)
  PROVE  Fresh'
<1>1. (Goto(r, "done") /\ pc[r] = "release") \/ Goto(r, pc[r])
  BY DEF Release
<1> QED BY <1>1, IdleStepFresh DEF Release

\* A stuttering step keeps Fresh.
LEMMA StutterFresh ==
  ASSUME Fresh, Shape', UNCHANGED vars
  PROVE  Fresh'
<1>1. Rowless' /\ OutboxComplete'
  BY DEF Fresh, Rowless, OutboxComplete, vars
<1>2. ASSUME NEW r \in Requests PROVE ReadShape(r)'
  BY DEF Fresh, ReadShape, vars, Target, FirstId, SecondId, From, To, IsTransfer
<1> QED BY <1>1, <1>2 DEF Fresh

\* Fresh is an inductive invariant.
LEMMA NextFresh == Fresh /\ [Next]_vars => Fresh'
<1> SUFFICES ASSUME Fresh, [Next]_vars PROVE Fresh'
  OBVIOUS
<1>1. Shape'
  BY NextShape DEF Fresh
<1>2. ASSUME NEW r \in Requests, Step(r) PROVE Fresh'
  <2>1. CASE Connect(r) \/ Miss(r)
    BY <1>1, <2>1, IdleStepFresh DEF Connect, Miss, session
  <2>2. CASE Commit(r) \/ Rollback(r)
    BY <1>1, <2>2, EndFresh DEF Commit, Rollback
  <2> QED BY <1>1, <1>2, <2>1, <2>2, ReadLockedFresh, InsertFresh, DepositFresh,
             WithdrawFresh, InitiateTransferFresh, MoveFundsFresh, CompensateFresh,
             ReleaseFresh
          DEF Step
<1>3. ASSUME NEW r \in Requests, Refuse(r) \/ Accept(r) PROVE Fresh'
  BY <1>1, <1>3, IdleStepFresh DEF Refuse, Accept
<1>4. ASSUME NEW r \in Requests, Fail(r) PROVE Fresh'
  BY <1>1, <1>4, ThrowFresh DEF Fail
<1>5. ASSUME NEW r \in Requests, Drop(r) \/ BeginFails(r) \/ LoseAnswer(r) PROVE Fresh'
  BY <1>1, <1>5, EndFresh DEF Drop, BeginFails, LoseAnswer
<1>6. CASE Quiet \/ UNCHANGED vars
  BY <1>1, <1>6, StutterFresh DEF Quiet
<1> QED BY <1>2, <1>3, <1>4, <1>5, <1>6 DEF Next

\* Fresh holds in every reachable state.
LEMMA FreshHolds == Spec => []Fresh
BY InitFresh, NextFresh, PTL DEF Spec

-----------------------------------------------------------------------------
(* What Fresh implies *)

\* No lost update: from lockWallet's read until the new balance is saved, the
\* balance a handler computes with is the committed one, whatever other
\* requests commit in between.
THEOREM NoLostUpdate == Spec => []ReadsStayCurrent
<1>1. Fresh => ReadsStayCurrent
  BY DEF Fresh, ReadShape, ReadsStayCurrent
<1> QED BY <1>1, FreshHolds, PTL

\* "Failed to load or create wallet" (wallet.service.ts:334) is unreachable:
\* the second findOne of lockWallet finds a committed row or r's own insert.
THEOREM RefindSucceeds == Spec => []RefindFinds
<1>1. Fresh => RefindFinds
  BY DEF Fresh, ReadShape, RefindFinds
<1> QED BY <1>1, FreshHolds, PTL

\* wallet_events and outbox_messages account for the same events at every
\* moment, through every crash and lost answer.
THEOREM NoEventLost == Spec => []OutboxComplete
BY FreshHolds, PTL DEF Fresh
-----------------------------------------------------------------------------
(* Answers *)

\* The types of the events in S.
Kinds(S) == {e.type : e \in S}

\* AnswersAreTrue for one request.
TrueAnswer(r) ==
  /\ result[r] = "ok" => Logged(r) = Complete(r)
  /\ result[r] = "compensated" => Logged(r) = Compensation
  /\ result[r] \in {"none", "refused", "error", "failed"} => Logged(r) = {}
  /\ result[r] = "lost" => Logged(r) \in {{}, Complete(r), Compensation}

\* What r's transaction has saved at each point of its handler.
SavedShape(r) ==
  /\ \A e \in tx[r].log : e.req = r
  /\ pc[r] \in InTx \cup {"idle", "connect", "abort"} => result[r] = "none"
  /\ pc[r] \in Locking \cup {"idle", "connect", "work"} =>
       tx[r].log = {} /\ tx[r].rows = {}
  /\ pc[r] = "move" => /\ phase[r] = "main" /\ IsTransfer(r)
                       /\ Kinds(tx[r].log) = {"TransferInitiated"}
  /\ pc[r] = "commit" =>
       Kinds(tx[r].log) = IF phase[r] = "main" THEN Complete(r)
                          ELSE IF tx[r].rows = {} THEN {} ELSE Compensation

Truth == Shape /\ \A r \in Requests : TrueAnswer(r) /\ SavedShape(r)

-----------------------------------------------------------------------------
(* What every action keeps of the answers *)

\* The types of the events a statement adds.
LEMMA KindsOfUnion ==
  ASSUME NEW S, NEW T
  PROVE  Kinds(S \cup T) = Kinds(S) \cup Kinds(T)
BY DEF Kinds

\* A step of r that commits events of r only leaves the others' answers true.
LEMMA OthersKeepAnswers ==
  ASSUME NEW r \in Requests, NEW q \in Requests, q # r,
         TrueAnswer(q), SavedShape(q), UNCHANGED cmd, pc'[q] = pc[q],
         tx'[q] = tx[q], phase'[q] = phase[q], result'[q] = result[q],
         events \subseteq events', \A e \in events' \ events : e.req = r
  PROVE  TrueAnswer(q)' /\ SavedShape(q)'
<1>1. Logged(q)' = Logged(q)
  <2>1. {x \in events' : x.req = q} = {x \in events : x.req = q}
    OBVIOUS
  <2> QED BY <2>1 DEF Logged
<1>2. Complete(q)' = Complete(q) /\ IsTransfer(q)' = IsTransfer(q)
  BY DEF Complete, IsTransfer
<1>3. TrueAnswer(q)'
  BY <1>1, <1>2 DEF TrueAnswer
<1>4. SavedShape(q)'
  BY <1>2 DEF SavedShape
<1> QED BY <1>3, <1>4

\* Steps that change neither the database nor a transaction.
LEMMA IdleStepTruth ==
  ASSUME Truth, Shape', NEW r \in Requests, NEW l, Goto(r, l),
         UNCHANGED <<database, session, cmd, phase>>,
         \/ /\ pc[r] = "idle" /\ l = "done"
            /\ result' = [result EXCEPT ![r] = "refused"]
         \/ /\ UNCHANGED result
            /\ \/ pc[r] = "idle" /\ l = "connect"
               \/ pc[r] = "connect" /\ l = "find"
               \/ pc[r] = "find" /\ l = "insert"
               \/ pc[r] = "release" /\ l = "done"
               \/ l = pc[r]
  PROVE  Truth'
<1>1. pc'[r] = l
  BY DEF Truth, Shape, TypeOK, Goto
<1>2. /\ Logged(r)' = Logged(r) /\ Complete(r)' = Complete(r)
      /\ IsTransfer(r)' = IsTransfer(r) /\ UNCHANGED <<tx, phase>>
  BY DEF Logged, Complete, IsTransfer, database, session
<1>3. TrueAnswer(r)' /\ SavedShape(r)'
  <2>1. CASE pc[r] = "idle" /\ l = "done" /\ result' = [result EXCEPT ![r] = "refused"]
    <3>1. Logged(r) = {} /\ result'[r] = "refused"
      BY <2>1 DEF Truth, TrueAnswer, SavedShape, Shape, TypeOK
    <3> QED BY <1>1, <1>2, <2>1, <3>1
            DEF Truth, TrueAnswer, SavedShape, InTx, Locking, Working
  <2>2. CASE UNCHANGED result
    <3>1. TrueAnswer(r)'
      BY <1>2, <2>2 DEF Truth, TrueAnswer
    <3>2. SavedShape(r)'
      BY <1>1, <1>2, <2>2 DEF Truth, SavedShape, InTx, Locking, Working
    <3> QED BY <3>1, <3>2
  <2> QED BY <2>1, <2>2
<1>4. ASSUME NEW q \in Requests, q # r PROVE TrueAnswer(q)' /\ SavedShape(q)'
  <2>1. result'[q] = result[q] /\ pc'[q] = pc[q]
    BY <1>4 DEF Truth, Shape, TypeOK, Goto
  <2> QED BY <1>4, <2>1, OthersKeepAnswers DEF Truth, database, session
<1> QED BY <1>3, <1>4 DEF Truth

\* A step inside the transaction of r, which commits nothing.
LEMMA PrivateStepTruth ==
  ASSUME Truth, Shape', NEW r \in Requests, pc[r] \in InTx,
         UNCHANGED <<database, cmd, phase, result>>,
         \A q \in Requests \ {r} : pc'[q] = pc[q] /\ tx'[q] = tx[q],
         pc'[r] \in InTx \cup {"abort"},
         SavedShape(r)'
  PROVE  Truth'
<1>1. TrueAnswer(r)'
  BY DEF Truth, TrueAnswer, Logged, Complete, database
<1>2. ASSUME NEW q \in Requests, q # r PROVE TrueAnswer(q)' /\ SavedShape(q)'
  BY <1>2, OthersKeepAnswers DEF Truth, database
<1> QED BY <1>1, <1>2 DEF Truth

\* Locking a wallet saves no event.
LEMMA ReadLockedTruth ==
  ASSUME Truth, Shape', NEW r \in Requests, ReadLocked(r)
  PROVE  Truth'
<1>1. pc[r] \in Locking /\ pc'[r] \in {"find", "work"}
  BY DEF Truth, Shape, TypeOK, ReadLocked, Goto, Locking
<1>2. tx'[r].log = tx[r].log /\ tx'[r].rows = tx[r].rows
  <2> DEFINE b == IF Target(r) \in rows THEN balance[Target(r)] ELSE 0
             f == [tx[r].balance EXCEPT ![Target(r)] = b]
  <2>1. tx[r] \in Tx
    BY DEF Truth, Shape, TypeOK
  <2>2. tx'[r] = [tx[r] EXCEPT !.balance = f]
    BY DEF Truth, Shape, TypeOK, ReadLocked
  <2> HIDE DEF f
  <2> QED BY <2>1, <2>2 DEF Tx
<1>3. tx[r].log = {} /\ tx[r].rows = {} /\ result[r] = "none"
  BY <1>1 DEF Truth, SavedShape, InTx
<1>4. SavedShape(r)'
  BY <1>1, <1>2, <1>3 DEF SavedShape, ReadLocked, InTx, Locking, Working
<1> QED BY <1>1, <1>4, PrivateStepTruth
        DEF Truth, Shape, TypeOK, ReadLocked, Goto, InTx, Locking, Working

\* Neither does creating it on demand.
LEMMA InsertTruth ==
  ASSUME Truth, Shape', NEW r \in Requests, Insert(r)
  PROVE  Truth'
<1>1. pc[r] = "insert" /\ pc'[r] = "refind" /\ UNCHANGED <<tx, result>>
  BY DEF Truth, Shape, TypeOK, Insert, Goto
<1>2. SavedShape(r)'
  BY <1>1 DEF Truth, SavedShape, InTx, Locking, Working
<1> QED BY <1>1, <1>2, PrivateStepTruth
        DEF Truth, Shape, TypeOK, Insert, Goto, InTx, Locking

\* An exception: what was saved is still r's own.
LEMMA ThrowTruth ==
  ASSUME Truth, Shape', NEW r \in Requests, pc[r] \in InTx, Throw(r),
         UNCHANGED <<database, cmd, phase, result>>
  PROVE  Truth'
<1>1. pc'[r] = "abort" /\ UNCHANGED tx
  BY DEF Truth, Shape, TypeOK, Throw, Goto
<1>2. SavedShape(r)'
  BY <1>1 DEF Truth, SavedShape, InTx, Locking, Working
<1> QED BY <1>1, <1>2, PrivateStepTruth DEF Truth, Shape, TypeOK, Throw, Goto

\* The body of a command saves the events es of r and goes on at l.
LEMMA SaveTruth ==
  ASSUME Truth, Shape', NEW r \in Requests, NEW t, NEW es, NEW l \in {"move", "commit"},
         pc[r] \in {"work", "move"}, Save(r, t, l),
         t.log = tx[r].log \cup es, \A e \in es : e.req = r,
         l = "move" => /\ phase[r] = "main" /\ IsTransfer(r)
                       /\ Kinds(t.log) = {"TransferInitiated"},
         l = "commit" => Kinds(t.log) = IF phase[r] = "main" THEN Complete(r)
                                        ELSE IF t.rows = {} THEN {} ELSE Compensation,
         UNCHANGED <<database, cmd, phase, result>>
  PROVE  Truth'
<1>1. pc'[r] = l /\ tx'[r] = t
  BY DEF Truth, Shape, TypeOK, Save, Goto
<1>2. result'[r] = "none" /\ \A e \in t.log : e.req = r
  BY DEF Truth, SavedShape, InTx, Working
<1>3. Complete(r)' = Complete(r) /\ IsTransfer(r)' = IsTransfer(r)
  BY DEF Complete, IsTransfer
<1>4. SavedShape(r)'
  <2>1. Kinds(tx'[r].log) = Kinds(t.log)
    BY <1>1
  <2> QED BY <1>1, <1>2, <1>3, <2>1 DEF SavedShape, Locking
<1> QED BY <1>1, <1>4, PrivateStepTruth
        DEF Truth, Shape, TypeOK, Save, Goto, InTx, Working

\* Before the body of a command nothing has been saved.
LEMMA NothingSavedYet ==
  ASSUME Truth, NEW r \in Requests, pc[r] = "work"
  PROVE  tx[r].log = {} /\ tx[r].rows = {} /\ tx[r] \in Tx
BY DEF Truth, Shape, TypeOK, SavedShape

\* A deposit saves its one event.
LEMMA DepositTruth ==
  ASSUME Truth, Shape', NEW r \in Requests, Deposit(r)
  PROVE  Truth'
<1> DEFINE es == {NewEvent(r, "FundsDeposited", From(r), Amt(r))}
           f == [tx[r].balance EXCEPT ![From(r)] = tx[r].balance[From(r)] + Amt(r)]
           t == Log([tx[r] EXCEPT !.balance = f], es)
<1>1. CASE Save(r, t, "commit")
  <2>1. tx[r].log = {} /\ tx[r] \in Tx /\ pc[r] = "work" /\ phase[r] = "main"
    BY NothingSavedYet DEF Deposit
  <2>2. t.log = tx[r].log \cup es
    <3> HIDE DEF f, es
    <3> QED BY <2>1 DEF Log, Tx
  <2>3. \A e \in es : e.req = r
    BY DEF NewEvent
  <2>4. Kinds(t.log) = Complete(r)
    <3>1. Kinds(es) = Complete(r)
      BY DEF Kinds, NewEvent, Complete, Deposit
    <3> HIDE DEF t, es
    <3> QED BY <2>1, <2>2, <3>1
  <2> HIDE DEF t, es
  <2> QED BY <1>1, <2>1, <2>2, <2>3, <2>4, SaveTruth DEF Deposit
<1>2. CASE Throw(r)
  BY <1>2, ThrowTruth DEF Deposit, InTx, Working
<1> QED BY <1>1, <1>2 DEF Deposit

\* A withdrawal saves its one event.
LEMMA WithdrawTruth ==
  ASSUME Truth, Shape', NEW r \in Requests, Withdraw(r)
  PROVE  Truth'
<1> DEFINE es == {NewEvent(r, "FundsWithdrawn", From(r), Amt(r))}
           f == [tx[r].balance EXCEPT ![From(r)] = tx[r].balance[From(r)] - Amt(r)]
           t == Log([tx[r] EXCEPT !.balance = f], es)
<1>1. CASE Save(r, t, "commit")
  <2>1. tx[r].log = {} /\ tx[r] \in Tx /\ pc[r] = "work" /\ phase[r] = "main"
    BY NothingSavedYet DEF Withdraw
  <2>2. t.log = tx[r].log \cup es
    <3> HIDE DEF f, es
    <3> QED BY <2>1 DEF Log, Tx
  <2>3. \A e \in es : e.req = r
    BY DEF NewEvent
  <2>4. Kinds(t.log) = Complete(r)
    <3>1. Kinds(es) = Complete(r)
      BY DEF Kinds, NewEvent, Complete, Withdraw
    <3> HIDE DEF t, es
    <3> QED BY <2>1, <2>2, <3>1
  <2> HIDE DEF t, es
  <2> QED BY <1>1, <2>1, <2>2, <2>3, <2>4, SaveTruth DEF Withdraw
<1>2. CASE Throw(r)
  BY <1>2, ThrowTruth DEF Withdraw, InTx, Working
<1> QED BY <1>1, <1>2 DEF Withdraw

\* A transfer first saves TransferInitiated ...
LEMMA InitiateTransferTruth ==
  ASSUME Truth, Shape', NEW r \in Requests, InitiateTransfer(r)
  PROVE  Truth'
<1> DEFINE es == {NewEvent(r, "TransferInitiated", From(r), Amt(r))}
           own == {OwnTransfer(r, "initiated")}
           t == Log([tx[r] EXCEPT !.rows = own], es)
<1>1. CASE Save(r, t, "move")
  <2>1. /\ tx[r].log = {} /\ tx[r] \in Tx /\ pc[r] = "work"
        /\ phase[r] = "main" /\ IsTransfer(r)
    BY NothingSavedYet DEF InitiateTransfer
  <2>2. t.log = tx[r].log \cup es
    <3> HIDE DEF own, es
    <3> QED BY <2>1 DEF Log, Tx
  <2>3. \A e \in es : e.req = r
    BY DEF NewEvent
  <2>4. Kinds(t.log) = {"TransferInitiated"}
    <3>1. Kinds(es) = {"TransferInitiated"}
      BY DEF Kinds, NewEvent
    <3> HIDE DEF t, es
    <3> QED BY <2>1, <2>2, <3>1
  <2> HIDE DEF t, es
  <2> QED BY <1>1, <2>1, <2>2, <2>3, <2>4, SaveTruth DEF InitiateTransfer
<1>2. CASE Throw(r)
  BY <1>2, ThrowTruth DEF InitiateTransfer, InTx, Working
<1> QED BY <1>1, <1>2 DEF InitiateTransfer

\* ... and then the other three events of a complete transfer.
LEMMA MoveFundsTruth ==
  ASSUME Truth, Shape', NEW r \in Requests, MoveFunds(r)
  PROVE  Truth'
<1> DEFINE es == {NewEvent(r, "FundsWithdrawn", From(r), Amt(r)),
                  NewEvent(r, "FundsDeposited", To(r), Amt(r)),
                  NewEvent(r, "TransferCompleted", From(r), Amt(r))}
           t1 == [tx[r] EXCEPT !.balance[From(r)] = tx[r].balance[From(r)] - Amt(r),
                               !.balance[To(r)] = tx[r].balance[To(r)] + Amt(r),
                               !.rows = {OwnTransfer(r, "credited")}]
           t == Log(t1, es)
<1>1. CASE Save(r, t, "commit")
  <2>1. /\ tx[r] \in Tx /\ pc[r] = "move" /\ phase[r] = "main" /\ IsTransfer(r)
        /\ Kinds(tx[r].log) = {"TransferInitiated"}
    BY DEF MoveFunds, Truth, Shape, TypeOK, SavedShape
  <2>2. t.log = tx[r].log \cup es
    BY <2>1 DEF Log, Tx
  <2>3. \A e \in es : e.req = r
    BY DEF NewEvent
  <2>4. Kinds(t.log) = Complete(r)
    <3>1. Kinds(es) = {"FundsWithdrawn", "FundsDeposited", "TransferCompleted"}
      BY DEF Kinds, NewEvent
    <3>2. Kinds(t.log) = Kinds(tx[r].log) \cup Kinds(es)
      BY <2>2, KindsOfUnion
    <3>3. Complete(r) = {"TransferInitiated", "FundsWithdrawn", "FundsDeposited",
                         "TransferCompleted"}
      BY <2>1 DEF Complete, IsTransfer
    <3> QED BY <2>1, <3>1, <3>2, <3>3
  <2> HIDE DEF t, es
  <2> QED BY <1>1, <2>1, <2>2, <2>3, <2>4, SaveTruth DEF MoveFunds
<1>2. CASE Throw(r)
  BY <1>2, ThrowTruth DEF MoveFunds, InTx, Working
<1> QED BY <1>1, <1>2 DEF MoveFunds

\* A compensation saves its two events with the transfer row, or nothing.
LEMMA CompensateTruth ==
  ASSUME Truth, Shape', NEW r \in Requests, Compensate(r)
  PROVE  Truth'
<1> DEFINE es == {NewEvent(r, "TransferFailed", From(r), Amt(r)),
                  NewEvent(r, "TransferCompensated", From(r), Amt(r))}
           t1(x) == [tx[r] EXCEPT !.balance[From(r)] = tx[r].balance[From(r)] + Amt(r),
                                  !.rows = {[x EXCEPT !.status = "compensated"]}]
           t(x) == Log(t1(x), es)
<1>1. /\ tx[r].log = {} /\ tx[r].rows = {} /\ tx[r] \in Tx
      /\ pc[r] = "work" /\ phase[r] = "comp"
  BY NothingSavedYet DEF Compensate
<1>2. CASE Goto(r, "commit") /\ UNCHANGED tx
  <2>1. Save(r, tx[r], "commit")
    BY <1>2 DEF Save, Truth, Shape, TypeOK
  <2>2. Kinds(tx[r].log) = {} /\ tx[r].log = tx[r].log \cup {}
    BY <1>1 DEF Kinds
  <2> QED BY <1>1, <2>1, <2>2, SaveTruth DEF Compensate
<1>3. ASSUME NEW x \in Compensable(r), Save(r, t(x), "commit")
      PROVE  Truth'
  <2>1. t(x).log = tx[r].log \cup es /\ t(x).rows # {}
    BY <1>1 DEF Log, Tx
  <2>2. \A e \in es : e.req = r
    BY DEF NewEvent
  <2>3. Kinds(t(x).log) = Compensation
    <3>1. Kinds(es) = Compensation
      BY DEF Kinds, NewEvent, Compensation
    <3> HIDE DEF t, es
    <3> QED BY <1>1, <2>1, <3>1
  <2> HIDE DEF t, es
  <2> QED BY <1>1, <1>3, <2>1, <2>2, <2>3, SaveTruth DEF Compensate
<1>4. CASE Throw(r)
  BY <1>4, ThrowTruth DEF Compensate, InTx, Working
<1> QED BY <1>2, <1>3, <1>4 DEF Compensate

\* The end of a transaction that commits nothing.
LEMMA AbandonTruth ==
  ASSUME Truth, Shape', NEW r \in Requests, NEW l \in {"connect", "release", "done"},
         EndTx(r), Goto(r, l), UNCHANGED <<database, cmd>>,
         pc[r] \in InTx \cup {"connect", "abort"},
         \A q \in Requests \ {r} : phase'[q] = phase[q] /\ result'[q] = result[q],
         result'[r] = IF l = "connect" THEN "none" ELSE "error"
  PROVE  Truth'
<1>1. pc'[r] = l /\ tx'[r] = EmptyTx
  BY DEF Truth, Shape, TypeOK, EndTx, Goto
<1>2. Logged(r)' = {}
  BY DEF Truth, SavedShape, TrueAnswer, Logged, database
<1>3. TrueAnswer(r)' /\ SavedShape(r)'
  BY <1>1, <1>2 DEF TrueAnswer, SavedShape, EmptyTx, InTx, Locking, Working
<1>4. ASSUME NEW q \in Requests, q # r PROVE TrueAnswer(q)' /\ SavedShape(q)'
  BY <1>4, OthersKeepAnswers DEF Truth, Shape, TypeOK, EndTx, Goto, database
<1> QED BY <1>3, <1>4 DEF Truth

\* A commit publishes exactly the events that the answer stands for.
LEMMA WriteBackTruth ==
  ASSUME Truth, Shape', NEW r \in Requests, NEW l \in {"release", "done"}, NEW a,
         pc[r] = "commit", WriteBack(r), EndTx(r), Goto(r, l),
         result' = [result EXCEPT ![r] = a],
         a = Answer(r) \/ a = "lost",
         UNCHANGED <<cmd, phase>>
  PROVE  Truth'
<1>1. pc'[r] = l /\ tx'[r] = EmptyTx /\ result'[r] = a
  BY DEF Truth, Shape, TypeOK, EndTx, Goto
<1>2. Logged(r)' = Kinds(tx[r].log)
  <2>1. Logged(r) = {}
    BY DEF Truth, SavedShape, TrueAnswer, InTx, Working
  <2>2. {x \in events' : x.req = r} = tx[r].log
    BY <2>1 DEF Logged, WriteBack, Truth, SavedShape
  <2> QED BY <2>2 DEF Logged, Kinds
<1>3. Complete(r)' = Complete(r)
  BY DEF Complete
<1>4. Kinds(tx[r].log) = IF phase[r] = "main" THEN Complete(r)
                         ELSE IF tx[r].rows = {} THEN {} ELSE Compensation
  BY DEF Truth, SavedShape
<1>5. TrueAnswer(r)'
  BY <1>1, <1>2, <1>3, <1>4 DEF TrueAnswer, Answer
<1>6. SavedShape(r)'
  BY <1>1 DEF SavedShape, EmptyTx, InTx, Locking, Working
<1>7. ASSUME NEW q \in Requests, q # r PROVE TrueAnswer(q)' /\ SavedShape(q)'
  <2>1. /\ pc'[q] = pc[q] /\ tx'[q] = tx[q] /\ result'[q] = result[q]
        /\ phase'[q] = phase[q]
    BY <1>7 DEF Truth, Shape, TypeOK, EndTx, Goto
  <2>2. events \subseteq events' /\ \A e \in events' \ events : e.req = r
    BY DEF WriteBack, Truth, SavedShape
  <2> QED BY <1>7, <2>1, <2>2, OthersKeepAnswers DEF Truth
<1> QED BY <1>5, <1>6, <1>7 DEF Truth

-----------------------------------------------------------------------------
(* Truth is an inductive invariant *)

\* Initially nobody has been answered and nothing is committed.
LEMMA InitTruth == Init => Truth
<1> SUFFICES ASSUME Init PROVE Truth
  OBVIOUS
<1>1. Shape
  BY InitShape
<1>2. ASSUME NEW r \in Requests PROVE TrueAnswer(r) /\ SavedShape(r)
  BY DEF Init, TrueAnswer, SavedShape, Logged, EmptyTx, InTx, Locking, Working
<1> QED BY <1>1, <1>2 DEF Truth

\* Every action keeps Truth.
LEMMA NextTruth == Truth /\ [Next]_vars => Truth'
<1> SUFFICES ASSUME Truth, [Next]_vars PROVE Truth'
  OBVIOUS
<1>1. Shape'
  BY NextShape DEF Truth
<1>2. ASSUME NEW r \in Requests, Connect(r) \/ Miss(r) \/ Accept(r) \/ Refuse(r)
      PROVE  Truth'
  BY <1>1, <1>2, IdleStepTruth DEF Connect, Miss, Accept, Refuse
<1>3. ASSUME NEW r \in Requests, NEW p \in {"main", "comp"}, Release(r, p)
      PROVE  Truth'
  <2>1. (Goto(r, "done") /\ pc[r] = "release") \/ Goto(r, pc[r])
    BY <1>3 DEF Release
  <2> QED BY <1>1, <1>3, <2>1, IdleStepTruth DEF Release
<1>4. ASSUME NEW r \in Requests, Commit(r) \/ LoseAnswer(r) PROVE Truth'
  BY <1>1, <1>4, WriteBackTruth DEF Commit, LoseAnswer
<1>5. ASSUME NEW r \in Requests, Rollback(r) PROVE Truth'
  <2>1. pc[r] = "abort" /\ result[r] = "none"
    BY <1>5 DEF Rollback, Truth, SavedShape
  <2>2. EndTx(r) /\ UNCHANGED <<database, cmd>>
    BY <1>5 DEF Rollback
  <2>3. CASE /\ Goto(r, "connect") /\ UNCHANGED result
             /\ phase' = [phase EXCEPT ![r] = "comp"]
    <3>1. \A q \in Requests \ {r} : phase'[q] = phase[q] /\ result'[q] = result[q]
      BY <2>3 DEF Truth, Shape, TypeOK
    <3> QED BY <1>1, <2>1, <2>2, <2>3, <3>1, AbandonTruth
  <2>4. CASE /\ Goto(r, "release") /\ UNCHANGED phase
             /\ result' = [result EXCEPT ![r] = "error"]
    <3>1. result'[r] = "error" /\
          \A q \in Requests \ {r} : phase'[q] = phase[q] /\ result'[q] = result[q]
      BY <2>4 DEF Truth, Shape, TypeOK
    <3> QED BY <1>1, <2>1, <2>2, <2>4, <3>1, AbandonTruth
  <2> QED BY <1>5, <2>3, <2>4 DEF Rollback
<1>6. ASSUME NEW r \in Requests, Drop(r) \/ BeginFails(r) PROVE Truth'
  BY <1>1, <1>6, AbandonTruth DEF Drop, BeginFails, Truth, Shape, TypeOK
<1>7. ASSUME NEW r \in Requests, Fail(r) PROVE Truth'
  BY <1>1, <1>7, ThrowTruth DEF Fail
<1>8. ASSUME NEW r \in Requests, Step(r) PROVE Truth'
  BY <1>1, <1>2, <1>3, <1>4, <1>5, <1>8, ReadLockedTruth, InsertTruth, DepositTruth,
     WithdrawTruth, InitiateTransferTruth, MoveFundsTruth, CompensateTruth
     DEF Step
<1>9. CASE Quiet \/ UNCHANGED vars
  <2>1. ASSUME NEW r \in Requests PROVE TrueAnswer(r)' /\ SavedShape(r)'
    <3>1. UNCHANGED <<events, tx, cmd, pc, phase, result>>
      BY <1>9 DEF Quiet, vars
    <3>2. /\ Logged(r)' = Logged(r) /\ Complete(r)' = Complete(r)
          /\ IsTransfer(r)' = IsTransfer(r)
      BY <3>1 DEF Logged, Complete, IsTransfer
    <3>3. TrueAnswer(r)'
      BY <3>1, <3>2 DEF Truth, TrueAnswer
    <3> QED BY <3>1, <3>2, <3>3 DEF Truth, SavedShape
  <2> QED BY <1>1, <2>1 DEF Truth
<1> QED BY <1>2, <1>4, <1>6, <1>7, <1>8, <1>9 DEF Next

\* Truth holds in every reachable state.
LEMMA TruthHolds == Spec => []Truth
BY InitTruth, NextTruth, PTL DEF Spec

\* What the caller is told is what happened, in every interleaving and with
\* every fault: success means all the events of the command are committed,
\* failure none, compensation its two events, and an error after a lost answer
\* to COMMIT hides a command that took effect entirely.
THEOREM AnswersTrue == Spec => []AnswersAreTrue
<1>1. Truth => AnswersAreTrue
  BY DEF Truth, TrueAnswer, AnswersAreTrue
<1> QED BY <1>1, TruthHolds, PTL
=============================================================================
