-------------------------- MODULE WalletAuditProofs --------------------------
(***************************************************************************)
(* Proof that WalletLedger implements the abstract Ledger, and of the      *)
(* properties of WalletAudit, for every value of the constants.            *)
(*                                                                         *)
(* The step that takes effect in the ledger is the COMMIT, long after the  *)
(* balances it writes were read, so the invariant must say what a          *)
(* transaction that waits for its COMMIT will do: Prepared says that it is *)
(* one action of the ledger, on the balances that are committed now.       *)
(* TransferShape and EventShape say what the rows of transfers and         *)
(* wallet_events look like; Truth and Fresh, of the module extended here,  *)
(* say which events a transaction carries and that its reads are current.  *)
(*                                                                         *)
(* With the steps of the ledger known, what adds up is an invariant by     *)
(* itself: Balanced only needs the log to be finite, each new event to be  *)
(* one that is not in it, and a compensation to be that of a transfer.     *)
(***************************************************************************)
EXTENDS WalletAudit, WalletLedgerProofs, SumTheorems

\* The four events of a transfer.
OwnEvents(r) ==
  {NewEvent(r, "TransferInitiated", From(r), Amt(r)),
   NewEvent(r, "FundsWithdrawn", From(r), Amt(r)),
   NewEvent(r, "FundsDeposited", To(r), Amt(r)),
   NewEvent(r, "TransferCompleted", From(r), Amt(r))}

\* What the COMMIT of r will do, as an action of the ledger or none of them.
WillDeposit(r) ==
  /\ tx[r].balance[From(r)] = balance[From(r)] + Amt(r)
  /\ tx[r].log = {NewEvent(r, "FundsDeposited", From(r), Amt(r))}
  /\ tx[r].rows = {}

WillWithdraw(r) ==
  /\ tx[r].balance[From(r)] = balance[From(r)] - Amt(r)
  /\ tx[r].log = {NewEvent(r, "FundsWithdrawn", From(r), Amt(r))}
  /\ tx[r].rows = {}

WillTransfer(r) ==
  /\ Amt(r) > 0
  /\ tx[r].balance[From(r)] = balance[From(r)] - Amt(r)
  /\ tx[r].balance[To(r)] = balance[To(r)] + Amt(r)
  /\ tx[r].log = OwnEvents(r)
  /\ tx[r].rows = {OwnTransfer(r, "credited")}

Compensated(x) == [x EXCEPT !.status = "compensated"]

WillCompensate(r) ==
  /\ tx[r].balance[From(r)] = balance[From(r)] + Amt(r)
  /\ \A w \in locked[r] \ {From(r)} : tx[r].balance[w] = balance[w]
  /\ tx[r].log = {NewEvent(r, "TransferFailed", From(r), Amt(r)),
                  NewEvent(r, "TransferCompensated", From(r), Amt(r))}
  /\ \E x \in Compensable(r) : tx[r].rows = {Compensated(x)}

WillDoNothing(r) ==
  /\ \A w \in locked[r] : tx[r].balance[w] = balance[w]
  /\ tx[r].log = {}
  /\ tx[r].rows = {}

WillCommit(r) ==
  \/ phase[r] = "main" /\ cmd[r].op = "deposit" /\ WillDeposit(r)
  \/ phase[r] = "main" /\ cmd[r].op = "withdraw" /\ WillWithdraw(r)
  \/ phase[r] = "main" /\ IsTransfer(r) /\ WillTransfer(r)
  \/ phase[r] = "comp" /\ (WillCompensate(r) \/ WillDoNothing(r))

Prepared(r) ==
  /\ pc[r] = "move" =>
       /\ Amt(r) > 0
       /\ tx[r].log = {NewEvent(r, "TransferInitiated", From(r), Amt(r))}
  /\ pc[r] = "commit" => WillCommit(r)

\* Ids are keys; only rows from before the first request wait as debited, and
\* a row of a request is credited and has its TransferCompleted in the log.
RowShape(t) ==
  /\ t.amount > 0
  /\ \/ t.id \in SeedIds /\ t.status \in {"debited", "compensated"}
     \/ /\ t.id \in Requests /\ t.status = "credited"
        /\ \E e \in events : e.req = t.id /\ e.type = "TransferCompleted"

TransferShape ==
  /\ \A t, u \in transfers : t.id = u.id => t = u
  /\ \A t \in transfers : RowShape(t)
  /\ \A e \in events : e.type = "TransferCompleted" =>
       \E t \in transfers : t.id = e.req

\* An event carries the amount of its request, positive in a transfer.
EventShape ==
  \A e \in events : e.amount = Amt(e.req) /\ (IsTransfer(e.req) => e.amount > 0)

Accounts == TransferShape /\ EventShape /\ \A r \in Requests : Prepared(r)

Books == Truth /\ Fresh /\ Accounts

-----------------------------------------------------------------------------
(* What every action relies on *)

\* The facts of the other invariants about a request in its transaction.
LEMMA WorkingFacts ==
  ASSUME Books, NEW r \in Requests, pc[r] \in Working
  PROVE  /\ locked[r] = Needed(r) /\ From(r) \in locked[r]
         /\ IsTransfer(r) => From(r) # To(r) /\ To(r) \in locked[r]
         /\ locked[r] \subseteq Wallets
         /\ From(r) \in Wallets /\ To(r) \in Wallets /\ Amt(r) \in Nat
         /\ tx[r] \in Tx /\ tx[r].balance \in [Wallets -> 0 .. MaxBalance]
         /\ balance \in [Wallets -> 0 .. MaxBalance]
         /\ tx[r].out = tx[r].log
         /\ Logged(r) = {}
<1>1. Shape
  BY DEF Books, Fresh
<1>2. LockShape(r)
  BY <1>1 DEF Shape
<1>3. locked[r] = Needed(r) /\ (IsTransfer(r) => From(r) # To(r))
  BY <1>2 DEF LockShape, Working
<1>4. From(r) \in Wallets /\ To(r) \in Wallets /\ Amt(r) \in Nat
  BY <1>1, CommandTypes DEF Shape
<1>5. tx[r] \in Tx /\ balance \in [Wallets -> 0 .. MaxBalance]
  BY <1>1 DEF Shape, TypeOK
<1>6. tx[r].balance \in [Wallets -> 0 .. MaxBalance]
  BY <1>5 DEF Tx
<1>7. tx[r].out = tx[r].log
  BY DEF Books, Fresh, ReadShape
<1>8. Logged(r) = {}
  BY DEF Books, Truth, TrueAnswer, SavedShape, InTx
<1> QED BY <1>3, <1>4, <1>5, <1>6, <1>7, <1>8 DEF Needed

\* Before its body r has saved nothing, and has read what is committed.
LEMMA WorkFacts ==
  ASSUME Books, NEW r \in Requests, pc[r] \in {"work", "move"}
  PROVE  /\ \A w \in locked[r] : tx[r].balance[w] = balance[w]
         /\ pc[r] = "work" => tx[r].log = {} /\ tx[r].rows = {}
<1>1. ReadShape(r) /\ SavedShape(r)
  BY DEF Books, Fresh, Truth
<1> QED BY <1>1 DEF ReadShape, SavedShape

\* Prepared survives every step that leaves r's transaction, the balances it
\* has locked and the rows it may compensate alone.
LEMMA KeepsPrepared ==
  ASSUME Books, NEW r \in Requests, UNCHANGED cmd, pc'[r] = pc[r], tx'[r] = tx[r],
         phase'[r] = phase[r], locked'[r] = locked[r],
         \A w \in locked[r] : balance'[w] = balance[w],
         \A x \in transfers : x.from \in locked[r] => x \in transfers'
  PROVE  Prepared(r)'
<1>1. /\ From(r)' = From(r) /\ To(r)' = To(r) /\ Amt(r)' = Amt(r)
      /\ IsTransfer(r)' = IsTransfer(r) /\ cmd'[r] = cmd[r]
  BY DEF From, To, Amt, IsTransfer
<1>2. Prepared(r)
  BY DEF Books, Accounts
<1>3. CASE pc[r] = "commit"
  <2>1. /\ From(r) \in locked[r] /\ (IsTransfer(r) => To(r) \in locked[r])
    BY <1>3, WorkingFacts DEF Working
  <2>2. balance'[From(r)] = balance[From(r)]
    BY <2>1
  <2>3. WillDeposit(r) => WillDeposit(r)'
    BY <1>1, <2>2 DEF WillDeposit
  <2>4. WillWithdraw(r) => WillWithdraw(r)'
    BY <1>1, <2>2 DEF WillWithdraw
  <2>5. IsTransfer(r) /\ WillTransfer(r) => WillTransfer(r)'
    BY <1>1, <2>1, <2>2 DEF WillTransfer, OwnEvents, OwnTransfer
  <2>6. WillCompensate(r) => WillCompensate(r)'
    <3>1. \A x \in Compensable(r) : x \in Compensable(r)'
      BY <1>1, <2>1 DEF Compensable
    <3> QED BY <1>1, <2>2, <3>1 DEF WillCompensate
  <2>7. WillDoNothing(r) => WillDoNothing(r)'
    BY <1>1 DEF WillDoNothing
  <2>8. WillCommit(r)'
    BY <1>1, <1>2, <1>3, <2>3, <2>4, <2>5, <2>6, <2>7 DEF WillCommit, Prepared
  <2> QED BY <1>3, <2>8 DEF Prepared
<1>4. CASE pc[r] # "commit"
  BY <1>1, <1>2, <1>4 DEF Prepared
<1> QED BY <1>3, <1>4

\* A step that leaves the database and the other requests alone.
LEMMA PrivateStepAccounts ==
  ASSUME Books, NEW r \in Requests, UNCHANGED <<database, cmd>>,
         \A q \in Requests \ {r} : /\ pc'[q] = pc[q] /\ tx'[q] = tx[q]
                                   /\ phase'[q] = phase[q] /\ locked'[q] = locked[q],
         Prepared(r)'
  PROVE  Accounts'
<1>1. TransferShape'
  BY DEF Books, Accounts, TransferShape, RowShape, database
<1>2. EventShape'
  BY DEF Books, Accounts, EventShape, Amt, IsTransfer, database
<1>3. ASSUME NEW q \in Requests, q # r PROVE Prepared(q)'
  BY <1>3, KeepsPrepared DEF database
<1> QED BY <1>1, <1>2, <1>3 DEF Accounts

\* A request that is neither about to move funds nor to commit promises nothing.
LEMMA UnpreparedStepAccounts ==
  ASSUME Books, NEW r \in Requests, NEW l, UNCHANGED <<database, cmd>>,
         Goto(r, l), l \notin {"move", "commit"},
         \A q \in Requests \ {r} : /\ tx'[q] = tx[q] /\ phase'[q] = phase[q]
                                   /\ locked'[q] = locked[q]
  PROVE  Accounts'
<1>1. pc'[r] = l /\ \A q \in Requests \ {r} : pc'[q] = pc[q]
  BY DEF Books, Fresh, Shape, TypeOK, Goto
<1>2. Prepared(r)'
  BY <1>1 DEF Prepared
<1> QED BY <1>1, <1>2, PrivateStepAccounts

\* The body of a command saves t, which must be what Prepared says.
LEMMA SaveAccounts ==
  ASSUME Books, NEW r \in Requests, NEW t, NEW l, Save(r, t, l),
         UNCHANGED <<database, locked, cmd, phase>>, Prepared(r)'
  PROVE  Accounts'
<1>1. \A q \in Requests \ {r} : pc'[q] = pc[q] /\ tx'[q] = tx[q]
  BY DEF Books, Fresh, Shape, TypeOK, Save, Goto
<1> QED BY <1>1, PrivateStepAccounts

\* An exception promises nothing.
LEMMA ThrowAccounts ==
  ASSUME Books, NEW r \in Requests, Throw(r), UNCHANGED <<database, locked, cmd, phase>>
  PROVE  Accounts'
BY UnpreparedStepAccounts DEF Throw

-----------------------------------------------------------------------------
(* The bodies of the commands *)

\* What Save and Log leave in r's transaction.
LEMMA SavedTx ==
  ASSUME Books, NEW r \in Requests, NEW l, NEW b, NEW rs, NEW es,
         Save(r, Log([tx[r] EXCEPT !.balance = b, !.rows = rs], es), l)
  PROVE  /\ pc'[r] = l /\ tx'[r].balance = b /\ tx'[r].rows = rs
         /\ tx'[r].log = tx[r].log \cup es
<1> DEFINE t == [tx[r] EXCEPT !.balance = b, !.rows = rs]
<1>1. tx[r] \in Tx
  BY DEF Books, Fresh, Shape, TypeOK
<1>2. t.balance = b /\ t.rows = rs /\ t.log = tx[r].log
  BY <1>1 DEF Tx
<1>3. t \in [balance : {b}, log : SUBSET Event, out : SUBSET Event, rows : {rs}]
  BY <1>1 DEF Tx
<1>4. pc'[r] = l /\ tx'[r] = Log(t, es)
  BY DEF Books, Fresh, Shape, TypeOK, Save, Goto
<1>5. /\ Log(t, es).balance = t.balance /\ Log(t, es).rows = t.rows
      /\ Log(t, es).log = t.log \cup es
  <2> HIDE DEF t
  <2> QED BY <1>3 DEF Log
<1> QED BY <1>2, <1>4, <1>5

\* A deposit adds to the balance that is committed now.
LEMMA DepositAccounts ==
  ASSUME Books, NEW r \in Requests, Deposit(r)
  PROVE  Accounts'
<1> DEFINE w == From(r)
           b == [tx[r].balance EXCEPT ![w] = tx[r].balance[w] + Amt(r)]
           es == {NewEvent(r, "FundsDeposited", w, Amt(r))}
           t == Log([tx[r] EXCEPT !.balance[w] = tx[r].balance[w] + Amt(r)], es)
<1>1. CASE Save(r, t, "commit")
  <2>1. /\ pc[r] = "work" /\ phase[r] = "main" /\ cmd[r].op = "deposit"
        /\ UNCHANGED <<database, locked, cmd, phase>>
    BY DEF Deposit
  <2>2. /\ w \in locked[r] /\ w \in Wallets
        /\ tx[r].balance \in [Wallets -> 0 .. MaxBalance] /\ tx[r] \in Tx
    BY <2>1, WorkingFacts DEF Working
  <2>3. tx[r].log = {} /\ tx[r].rows = {} /\ tx[r].balance[w] = balance[w]
    BY <2>1, <2>2, WorkFacts
  <2>4. t = Log([tx[r] EXCEPT !.balance = b, !.rows = {}], es)
    BY <2>2, <2>3 DEF Tx
  <2>5. /\ pc'[r] = "commit" /\ tx'[r].balance = b /\ tx'[r].rows = {}
        /\ tx'[r].log = tx[r].log \cup es
    <3> HIDE DEF b, es, t
    <3> QED BY <1>1, <2>4, SavedTx
  <2>6. b[w] = balance[w] + Amt(r)
    BY <2>2, <2>3
  <2>7. Prepared(r)'
    BY <2>1, <2>3, <2>5, <2>6
       DEF Prepared, WillCommit, WillDeposit, From, Amt, database
  <2> HIDE DEF t
  <2> QED BY <1>1, <2>1, <2>7, SaveAccounts
<1>2. CASE Throw(r)
  BY <1>2, ThrowAccounts DEF Deposit
<1> QED BY <1>1, <1>2 DEF Deposit

\* A withdrawal subtracts from the balance that is committed now.
LEMMA WithdrawAccounts ==
  ASSUME Books, NEW r \in Requests, Withdraw(r)
  PROVE  Accounts'
<1> DEFINE w == From(r)
           b == [tx[r].balance EXCEPT ![w] = tx[r].balance[w] - Amt(r)]
           es == {NewEvent(r, "FundsWithdrawn", w, Amt(r))}
           t == Log([tx[r] EXCEPT !.balance[w] = tx[r].balance[w] - Amt(r)], es)
<1>1. CASE Save(r, t, "commit")
  <2>1. /\ pc[r] = "work" /\ phase[r] = "main" /\ cmd[r].op = "withdraw"
        /\ UNCHANGED <<database, locked, cmd, phase>>
    BY DEF Withdraw
  <2>2. /\ w \in locked[r] /\ w \in Wallets
        /\ tx[r].balance \in [Wallets -> 0 .. MaxBalance] /\ tx[r] \in Tx
    BY <2>1, WorkingFacts DEF Working
  <2>3. tx[r].log = {} /\ tx[r].rows = {} /\ tx[r].balance[w] = balance[w]
    BY <2>1, <2>2, WorkFacts
  <2>4. t = Log([tx[r] EXCEPT !.balance = b, !.rows = {}], es)
    BY <2>2, <2>3 DEF Tx
  <2>5. /\ pc'[r] = "commit" /\ tx'[r].balance = b /\ tx'[r].rows = {}
        /\ tx'[r].log = tx[r].log \cup es
    <3> HIDE DEF b, es, t
    <3> QED BY <1>1, <2>4, SavedTx
  <2>6. b[w] = balance[w] - Amt(r)
    BY <2>2, <2>3
  <2>7. Prepared(r)'
    BY <2>1, <2>3, <2>5, <2>6
       DEF Prepared, WillCommit, WillWithdraw, From, Amt, database
  <2> HIDE DEF t
  <2> QED BY <1>1, <2>1, <2>7, SaveAccounts
<1>2. CASE Throw(r)
  BY <1>2, ThrowAccounts DEF Withdraw
<1> QED BY <1>1, <1>2 DEF Withdraw

\* A transfer that goes on has a positive rounded amount.
LEMMA InitiateTransferAccounts ==
  ASSUME Books, NEW r \in Requests, InitiateTransfer(r)
  PROVE  Accounts'
<1> DEFINE es == {NewEvent(r, "TransferInitiated", From(r), Amt(r))}
           own == {OwnTransfer(r, "initiated")}
           t == Log([tx[r] EXCEPT !.rows = own], es)
<1>1. CASE Save(r, t, "move") /\ Amt(r) > 0
  <2>1. /\ pc[r] = "work" /\ UNCHANGED <<database, locked, cmd, phase>>
    BY DEF InitiateTransfer
  <2>2. tx[r] \in Tx /\ tx[r].log = {}
    BY <2>1, WorkingFacts, WorkFacts DEF Working
  <2>3. t = Log([tx[r] EXCEPT !.balance = tx[r].balance, !.rows = own], es)
    <3> HIDE DEF own, es
    <3> QED BY <2>2 DEF Tx
  <2>4. pc'[r] = "move" /\ tx'[r].log = tx[r].log \cup es
    <3> HIDE DEF own, es, t
    <3> QED BY <1>1, <2>3, SavedTx
  <2>5. Prepared(r)'
    BY <1>1, <2>1, <2>2, <2>4 DEF Prepared, From, Amt
  <2> HIDE DEF t
  <2> QED BY <1>1, <2>1, <2>5, SaveAccounts
<1>2. CASE Throw(r)
  BY <1>2, ThrowAccounts DEF InitiateTransfer
<1> QED BY <1>1, <1>2 DEF InitiateTransfer

\* Debit and credit are computed from the balances committed now, and the two
\* wallets differ.
LEMMA MoveFundsAccounts ==
  ASSUME Books, NEW r \in Requests, MoveFunds(r)
  PROVE  Accounts'
<1> DEFINE debit == tx[r].balance[From(r)] - Amt(r)
           credit == tx[r].balance[To(r)] + Amt(r)
           b == [tx[r].balance EXCEPT ![From(r)] = debit, ![To(r)] = credit]
           own == {OwnTransfer(r, "credited")}
           es == {NewEvent(r, "FundsWithdrawn", From(r), Amt(r)),
                  NewEvent(r, "FundsDeposited", To(r), Amt(r)),
                  NewEvent(r, "TransferCompleted", From(r), Amt(r))}
           t == Log([tx[r] EXCEPT !.balance[From(r)] = debit,
                                  !.balance[To(r)] = credit, !.rows = own], es)
<1>1. CASE Save(r, t, "commit")
  <2>1. /\ pc[r] = "move" /\ UNCHANGED <<database, locked, cmd, phase>>
    BY DEF MoveFunds
  <2>2. phase[r] = "main" /\ IsTransfer(r)
    BY <2>1 DEF Books, Truth, SavedShape
  <2>3. /\ From(r) \in locked[r] /\ To(r) \in locked[r] /\ From(r) # To(r)
        /\ From(r) \in Wallets /\ To(r) \in Wallets
        /\ tx[r].balance \in [Wallets -> 0 .. MaxBalance] /\ tx[r] \in Tx
    BY <2>1, <2>2, WorkingFacts DEF Working
  <2>4. /\ tx[r].balance[From(r)] = balance[From(r)]
        /\ tx[r].balance[To(r)] = balance[To(r)]
    BY <2>1, <2>3, WorkFacts
  <2>5. /\ Amt(r) > 0
        /\ tx[r].log = {NewEvent(r, "TransferInitiated", From(r), Amt(r))}
    BY <2>1 DEF Books, Accounts, Prepared
  <2>6. t = Log([tx[r] EXCEPT !.balance = b, !.rows = own], es)
    <3> HIDE DEF own, es, debit, credit
    <3> QED BY <2>3 DEF Tx
  <2>7. /\ pc'[r] = "commit" /\ tx'[r].balance = b /\ tx'[r].rows = own
        /\ tx'[r].log = tx[r].log \cup es
    <3> HIDE DEF b, own, es, t
    <3> QED BY <1>1, <2>6, SavedTx
  <2>8. b[From(r)] = balance[From(r)] - Amt(r) /\ b[To(r)] = balance[To(r)] + Amt(r)
    BY <2>3, <2>4
  <2>9. tx[r].log \cup es = OwnEvents(r)
    BY <2>5 DEF OwnEvents
  <2>10. UNCHANGED <<balance, cmd, phase>>
    BY <2>1 DEF database
  <2>11. WillTransfer(r)'
    <3> HIDE DEF b, es
    <3> QED BY <2>5, <2>7, <2>8, <2>9, <2>10
            DEF WillTransfer, OwnEvents, OwnTransfer, From, To, Amt
  <2>12. Prepared(r)'
    BY <2>2, <2>7, <2>10, <2>11 DEF Prepared, WillCommit, IsTransfer
  <2> HIDE DEF t
  <2> QED BY <1>1, <2>1, <2>12, SaveAccounts
<1>2. CASE Throw(r)
  BY <1>2, ThrowAccounts DEF MoveFunds
<1> QED BY <1>1, <1>2 DEF MoveFunds

\* A compensation gives back the amount of a debited row, or finds none.
LEMMA CompensateAccounts ==
  ASSUME Books, NEW r \in Requests, Compensate(r)
  PROVE  Accounts'
<1> DEFINE w == From(r)
           b == [tx[r].balance EXCEPT ![w] = tx[r].balance[w] + Amt(r)]
           es == {NewEvent(r, "TransferFailed", w, Amt(r)),
                  NewEvent(r, "TransferCompensated", w, Amt(r))}
           row(x) == {Compensated(x)}
           t(x) == Log([tx[r] EXCEPT !.balance[w] = tx[r].balance[w] + Amt(r),
                                     !.rows = row(x)], es)
<1>1. /\ pc[r] = "work" /\ phase[r] = "comp"
      /\ UNCHANGED <<database, locked, cmd, phase>>
  BY DEF Compensate
<1>2. /\ w \in locked[r] /\ locked[r] \subseteq Wallets
      /\ tx[r].balance \in [Wallets -> 0 .. MaxBalance] /\ tx[r] \in Tx
  BY <1>1, WorkingFacts DEF Working
<1>3. /\ tx[r].log = {} /\ tx[r].rows = {}
      /\ \A v \in locked[r] : tx[r].balance[v] = balance[v]
  BY <1>1, WorkFacts
<1>4. UNCHANGED <<balance, transfers, cmd, phase, locked>>
  BY <1>1 DEF database
<1>5. CASE Goto(r, "commit") /\ UNCHANGED tx
  <2>1. Save(r, tx[r], "commit") /\ pc'[r] = "commit"
    BY <1>5 DEF Save, Goto, Books, Fresh, Shape, TypeOK
  <2>2. WillDoNothing(r)'
    BY <1>3, <1>4, <1>5 DEF WillDoNothing
  <2>3. Prepared(r)'
    BY <1>1, <1>4, <2>1, <2>2 DEF Prepared, WillCommit
  <2> QED BY <1>1, <2>1, <2>3, SaveAccounts
<1>6. ASSUME NEW x \in Compensable(r), Save(r, t(x), "commit")
      PROVE  Accounts'
  <2>0. PICK rs : rs = row(x)
    OBVIOUS
  <2>1. t(x) = Log([tx[r] EXCEPT !.balance = b, !.rows = rs], es)
    <3> HIDE DEF row, es
    <3> QED BY <1>2, <2>0 DEF Tx
  <2>2. /\ pc'[r] = "commit" /\ tx'[r].balance = b /\ tx'[r].rows = rs
        /\ tx'[r].log = tx[r].log \cup es
    <3> HIDE DEF b, row, es, t
    <3>1. Save(r, Log([tx[r] EXCEPT !.balance = b, !.rows = rs], es), "commit")
      BY <1>6, <2>1
    <3> QED BY <3>1, SavedTx
  <2>3. /\ b[w] = balance[w] + Amt(r)
        /\ \A v \in locked[r] \ {w} : b[v] = balance[v]
    BY <1>2, <1>3
  <2>4. x \in Compensable(r)'
    BY <1>4, <1>6 DEF Compensable, From, To, Amt
  <2>5. From(r)' = From(r) /\ Amt(r)' = Amt(r)
    BY <1>4 DEF From, Amt
  <2>6. WillCompensate(r)'
    <3> HIDE DEF b
    <3> QED BY <1>3, <1>4, <2>0, <2>2, <2>3, <2>4, <2>5 DEF WillCompensate
  <2>7. Prepared(r)'
    BY <1>1, <1>4, <2>2, <2>6 DEF Prepared, WillCommit
  <2> HIDE DEF t
  <2> QED BY <1>1, <1>6, <2>7, SaveAccounts
<1>7. CASE Throw(r)
  BY <1>1, <1>7, ThrowAccounts
<1>8. \/ Goto(r, "commit") /\ UNCHANGED tx
      \/ \E x \in Compensable(r) : Save(r, t(x), "commit") \/ Throw(r)
  BY DEF Compensate, Compensated
<1> QED BY <1>5, <1>6, <1>7, <1>8

-----------------------------------------------------------------------------
(* A COMMIT is one step of the ledger *)

\* A request that has logged nothing has not taken effect, and has no row.
LEMMA NotUsedYet ==
  ASSUME Books, NEW r \in Requests, Logged(r) = {}
  PROVE  /\ Abstract!Unused(r)
         /\ \A t \in transfers : t.id # r
<1>1. \A e \in events : e.req # r
  BY DEF Logged
<1>2. ASSUME NEW t \in transfers, t.id = r PROVE FALSE
  <2>1. t.id \notin SeedIds
    BY <1>2, WalletTypesAssumption
  <2>2. RowShape(t)
    BY DEF Books, Accounts, TransferShape
  <2> QED BY <1>1, <1>2, <2>1, <2>2 DEF RowShape
<1> QED BY <1>1, <1>2 DEF Abstract!Unused

\* The amount of a request is one of the amounts of the ledger.
LEMMA AmountOfCommand ==
  ASSUME Shape, NEW r \in Requests
  PROVE  Amt(r) \in {Normalize(c.raw) : c \in Commands}
BY DEF Shape, TypeOK, Amt

\* The events a COMMIT publishes are those it sends.
LEMMA Published ==
  ASSUME Books, NEW r \in Requests, pc[r] = "commit", WriteBack(r)
  PROVE  Abstract!Record(tx[r].log)
BY WorkingFacts DEF WriteBack, Abstract!Record, Working

\* Without a row of its own a transaction leaves the transfers alone.
LEMMA NoRows ==
  ASSUME NEW r \in Requests, WriteBack(r), tx[r].rows = {}
  PROVE  UNCHANGED transfers
BY DEF WriteBack

\* The COMMIT of a deposit is the Deposit of the ledger.
LEMMA DepositEffect ==
  ASSUME Books, NEW r \in Requests, pc[r] = "commit", WriteBack(r),
         cmd[r].op = "deposit", WillDeposit(r)
  PROVE  Abstract!Deposit(r, From(r), Amt(r))
<1>1. /\ locked[r] = {From(r)} /\ From(r) \in Wallets /\ Amt(r) \in Nat
      /\ balance \in [Wallets -> 0 .. MaxBalance] /\ Logged(r) = {}
      /\ tx[r].balance \in [Wallets -> 0 .. MaxBalance]
  BY WorkingFacts DEF Working, Needed, IsTransfer
<1>2. balance' = [balance EXCEPT ![From(r)] = balance[From(r)] + Amt(r)]
  BY <1>1 DEF WriteBack, WillDeposit
<1>3. balance[From(r)] + Amt(r) <= MaxBalance
  <2>1. tx[r].balance[From(r)] \in 0 .. MaxBalance
    BY <1>1
  <2> QED BY <2>1, WalletTypesAssumption DEF WillDeposit
<1>4. Abstract!Record({NewEvent(r, "FundsDeposited", From(r), Amt(r))})
  BY Published DEF WillDeposit
<1>5. UNCHANGED transfers
  BY NoRows DEF WillDeposit
<1>6. Abstract!Unused(r)
  BY <1>1, NotUsedYet
<1> QED BY <1>2, <1>3, <1>4, <1>5, <1>6 DEF Abstract!Deposit, Abstract!NewEvent, NewEvent

\* The COMMIT of a withdrawal is the Withdraw of the ledger.
LEMMA WithdrawEffect ==
  ASSUME Books, NEW r \in Requests, pc[r] = "commit", WriteBack(r),
         cmd[r].op = "withdraw", WillWithdraw(r)
  PROVE  Abstract!Withdraw(r, From(r), Amt(r))
<1>1. /\ locked[r] = {From(r)} /\ From(r) \in Wallets /\ Amt(r) \in Nat
      /\ balance \in [Wallets -> 0 .. MaxBalance] /\ Logged(r) = {}
      /\ tx[r].balance \in [Wallets -> 0 .. MaxBalance]
  BY WorkingFacts DEF Working, Needed, IsTransfer
<1>2. balance' = [balance EXCEPT ![From(r)] = balance[From(r)] - Amt(r)]
  BY <1>1 DEF WriteBack, WillWithdraw
<1>3. Amt(r) <= balance[From(r)]
  <2>1. tx[r].balance[From(r)] \in 0 .. MaxBalance /\ balance[From(r)] \in 0 .. MaxBalance
    BY <1>1
  <2> QED BY <1>1, <2>1, WalletTypesAssumption DEF WillWithdraw
<1>4. Abstract!Record({NewEvent(r, "FundsWithdrawn", From(r), Amt(r))})
  BY Published DEF WillWithdraw
<1>5. UNCHANGED transfers
  BY NoRows DEF WillWithdraw
<1>6. Abstract!Unused(r)
  BY <1>1, NotUsedYet
<1> QED BY <1>2, <1>3, <1>4, <1>5, <1>6 DEF Abstract!Withdraw, Abstract!NewEvent, NewEvent

\* The COMMIT of a transfer is the MakeTransfer of the ledger: both balances, its
\* row and its four events at once.
LEMMA TransferEffect ==
  ASSUME Books, NEW r \in Requests, pc[r] = "commit", WriteBack(r),
         IsTransfer(r), WillTransfer(r)
  PROVE  Abstract!MakeTransfer(r, From(r), To(r), Amt(r))
<1>1. /\ locked[r] = {From(r), To(r)} /\ From(r) \in Wallets /\ Amt(r) \in Nat
      /\ To(r) \in Wallets /\ From(r) # To(r) /\ Logged(r) = {}
      /\ balance \in [Wallets -> 0 .. MaxBalance]
      /\ tx[r].balance \in [Wallets -> 0 .. MaxBalance]
  BY WorkingFacts DEF Working, Needed
<1>2. balance' = [balance EXCEPT ![From(r)] = balance[From(r)] - Amt(r),
                                 ![To(r)] = balance[To(r)] + Amt(r)]
  BY <1>1 DEF WriteBack, WillTransfer
<1>3. Amt(r) <= balance[From(r)] /\ balance[To(r)] + Amt(r) <= MaxBalance
  <2>1. /\ tx[r].balance[From(r)] \in 0 .. MaxBalance /\ balance[From(r)] \in 0 .. MaxBalance
        /\ tx[r].balance[To(r)] \in 0 .. MaxBalance
    BY <1>1
  <2> QED BY <1>1, <2>1, WalletTypesAssumption DEF WillTransfer
<1>4. Abstract!Record(OwnEvents(r))
  BY Published DEF WillTransfer
<1>5. OwnEvents(r) = Abstract!TransferEvents(r, From(r), To(r), Amt(r))
  BY DEF OwnEvents, Abstract!TransferEvents, Abstract!NewEvent, NewEvent
<1>6. Abstract!Unused(r) /\ \A t \in transfers : t.id # r
  BY <1>1, NotUsedYet
<1>7. transfers' = transfers \cup {OwnTransfer(r, "credited")}
  <2>1. OwnTransfer(r, "credited").id = r
    BY DEF OwnTransfer
  <2>2. tx[r].rows = {OwnTransfer(r, "credited")}
    BY DEF WillTransfer
  <2> QED BY <1>6, <2>1, <2>2 DEF WriteBack
<1>8. balance' = [balance EXCEPT ![From(r)] = @ - Amt(r), ![To(r)] = @ + Amt(r)]
  BY <1>1, <1>2
<1>9. Amt(r) > 0
  BY DEF WillTransfer
<1> QED BY <1>1, <1>3, <1>4, <1>5, <1>6, <1>7, <1>8, <1>9
        DEF Abstract!MakeTransfer, OwnTransfer

\* The COMMIT of a compensation is the Compensate of the ledger.
LEMMA CompensateEffect ==
  ASSUME Books, NEW r \in Requests, pc[r] = "commit", WriteBack(r),
         WillCompensate(r)
  PROVE  \E x \in Compensable(r) : Abstract!Compensate(r, x)
<1>1. /\ From(r) \in locked[r] /\ locked[r] \subseteq Wallets /\ Amt(r) \in Nat
      /\ balance \in [Wallets -> 0 .. MaxBalance] /\ Logged(r) = {}
      /\ tx[r].balance \in [Wallets -> 0 .. MaxBalance]
  BY WorkingFacts DEF Working
<1>2. balance' = [balance EXCEPT ![From(r)] = balance[From(r)] + Amt(r)]
  BY <1>1 DEF WriteBack, WillCompensate
<1>3. balance[From(r)] + Amt(r) <= MaxBalance
  <2>1. tx[r].balance[From(r)] \in 0 .. MaxBalance
    BY <1>1
  <2> QED BY <2>1, WalletTypesAssumption DEF WillCompensate
<1>4. Abstract!Record({NewEvent(r, "TransferFailed", From(r), Amt(r)),
                       NewEvent(r, "TransferCompensated", From(r), Amt(r))})
  BY Published DEF WillCompensate
<1>5. Abstract!Unused(r)
  BY <1>1, NotUsedYet
<1>6. PICK x \in Compensable(r) : tx[r].rows = {Compensated(x)}
  BY DEF WillCompensate
<1>7. /\ x \in transfers /\ x.from = From(r) /\ x.amount = Amt(r)
      /\ x.status = "debited" /\ x \in Transfer
  BY DEF Compensable, Books, Fresh, Shape, TypeOK
<1>8. Compensated(x).id = x.id
  BY <1>7 DEF Compensated, Transfer
<1>9. \A t \in transfers : t.id = x.id <=> t = x
  BY <1>7 DEF Books, Accounts, TransferShape
<1>10. transfers' = (transfers \ {x}) \cup {Compensated(x)}
  BY <1>6, <1>8, <1>9 DEF WriteBack
<1>11. Abstract!Compensate(r, x)
  BY <1>2, <1>3, <1>4, <1>5, <1>7, <1>10
     DEF Abstract!Compensate, Abstract!NewEvent, NewEvent, Compensated
<1> QED BY <1>11

\* A compensation that finds no row commits nothing.
LEMMA NothingEffect ==
  ASSUME Books, NEW r \in Requests, pc[r] = "commit", WriteBack(r), WillDoNothing(r)
  PROVE  UNCHANGED <<balance, events, outbox, transfers>>
<1>1. balance \in [Wallets -> 0 .. MaxBalance]
  BY WorkingFacts DEF Working
<1>2. UNCHANGED balance
  BY <1>1 DEF WriteBack, WillDoNothing
<1>3. UNCHANGED <<events, outbox>>
  BY Published DEF WillDoNothing, Abstract!Record
<1>4. UNCHANGED transfers
  BY NoRows DEF WillDoNothing
<1> QED BY <1>2, <1>3, <1>4

\* One indivisible step: a COMMIT is one action of the ledger or none.
LEMMA CommitIsOneStep ==
  ASSUME Books, NEW r \in Requests, pc[r] = "commit", WriteBack(r)
  PROVE  Abstract!TakeEffect(r) \/ UNCHANGED Abstract!vars
<1>1. /\ From(r) \in Wallets /\ To(r) \in Wallets
      /\ Amt(r) \in {Normalize(c.raw) : c \in Commands}
  BY CommandTypes, AmountOfCommand DEF Books, Fresh, Shape
<1>2. WillCommit(r)
  BY DEF Books, Accounts, Prepared
<1>3. CASE cmd[r].op = "deposit" /\ WillDeposit(r)
  BY <1>1, <1>3, DepositEffect DEF Abstract!TakeEffect
<1>4. CASE cmd[r].op = "withdraw" /\ WillWithdraw(r)
  BY <1>1, <1>4, WithdrawEffect DEF Abstract!TakeEffect
<1>5. CASE IsTransfer(r) /\ WillTransfer(r)
  BY <1>1, <1>5, TransferEffect DEF Abstract!TakeEffect
<1>6. CASE WillCompensate(r)
  <2>1. \A x \in Compensable(r) : x \in transfers
    BY DEF Compensable
  <2> QED BY <1>6, <2>1, CompensateEffect DEF Abstract!TakeEffect
<1>7. CASE WillDoNothing(r)
  BY <1>7, NothingEffect DEF Abstract!vars
<1> QED BY <1>2, <1>3, <1>4, <1>5, <1>6, <1>7 DEF WillCommit

-----------------------------------------------------------------------------
(* The rows after a COMMIT *)

\* What the steps of the ledger do to the rows of transfers and events.
LEMMA NoTransferKeepsRows ==
  ASSUME Books, NEW r \in Requests, UNCHANGED <<cmd, transfers>>, ~IsTransfer(r),
         NEW type, type # "TransferCompleted", NEW w,
         events' = events \cup {NewEvent(r, type, w, Amt(r))}
  PROVE  TransferShape' /\ EventShape'
<1>1. \A t \in transfers : RowShape(t) => RowShape(t)'
  BY DEF RowShape
<1>2. \A e \in events' : e \in events \/ (e.type # "TransferCompleted" /\ e.req = r
                                           /\ e.amount = Amt(r))
  BY DEF NewEvent
<1>3. TransferShape'
  BY <1>1, <1>2 DEF Books, Accounts, TransferShape
<1>4. EventShape'
  BY <1>2 DEF Books, Accounts, EventShape, Amt, IsTransfer
<1> QED BY <1>3, <1>4

\* A transfer adds its row and its TransferCompleted together.
LEMMA TransferKeepsRows ==
  ASSUME Books, NEW r \in Requests, UNCHANGED cmd, Amt(r) > 0, Logged(r) = {},
         events' = events \cup OwnEvents(r),
         transfers' = transfers \cup {OwnTransfer(r, "credited")}
  PROVE  TransferShape' /\ EventShape'
<1> DEFINE done == NewEvent(r, "TransferCompleted", From(r), Amt(r))
<1>0. PICK own : own = OwnTransfer(r, "credited")
  OBVIOUS
<1>1. own.id = r /\ own.amount = Amt(r) /\ own.status = "credited"
  BY <1>0 DEF OwnTransfer
<1>2. done \in events' /\ done.req = r /\ done.type = "TransferCompleted"
  BY DEF OwnEvents, NewEvent
<1>3. \A e \in events' : e \in events \/ (e.req = r /\ e.amount = Amt(r))
  BY DEF OwnEvents, NewEvent
<1>4. \A t \in transfers : t.id # r
  BY NotUsedYet
<1>5. \A t \in transfers : RowShape(t) => RowShape(t)'
  BY DEF RowShape
<1> HIDE DEF done
<1>6. RowShape(own)'
  <2>1. \E e \in events' : e.req = own.id /\ e.type = "TransferCompleted"
    BY <1>1, <1>2
  <2> QED BY <1>1, <2>1 DEF RowShape
<1>7. TransferShape'
  <2>1. \A t, u \in transfers' : t.id = u.id => t = u
    BY <1>0, <1>1, <1>4 DEF Books, Accounts, TransferShape
  <2>2. \A t \in transfers' : RowShape(t)'
    BY <1>0, <1>5, <1>6 DEF Books, Accounts, TransferShape
  <2>3. ASSUME NEW e \in events', e.type = "TransferCompleted"
        PROVE  \E t \in transfers' : t.id = e.req
    BY <1>0, <1>1, <1>3, <2>3 DEF Books, Accounts, TransferShape
  <2> QED BY <2>1, <2>2, <2>3 DEF TransferShape
<1>8. EventShape'
  BY <1>3 DEF Books, Accounts, EventShape, Amt, IsTransfer
<1> QED BY <1>7, <1>8

\* A compensation changes the status of a row from before the first request.
LEMMA CompensateKeepsRows ==
  ASSUME Books, NEW r \in Requests, UNCHANGED cmd, NEW x \in Compensable(r),
         events' = events \cup {NewEvent(r, "TransferFailed", From(r), Amt(r)),
                                NewEvent(r, "TransferCompensated", From(r), Amt(r))},
         transfers' = (transfers \ {x}) \cup {Compensated(x)}
  PROVE  TransferShape' /\ EventShape'
<1>1. /\ x \in transfers /\ x.status = "debited" /\ x \in Transfer
      /\ x.amount = Amt(r)
  BY DEF Compensable, Books, Fresh, Shape, TypeOK
<1>2. RowShape(x)
  BY <1>1 DEF Books, Accounts, TransferShape
<1>3. /\ Compensated(x).id = x.id /\ Compensated(x).amount = x.amount
      /\ Compensated(x).status = "compensated"
  BY <1>1 DEF Compensated, Transfer
<1>4. RowShape(Compensated(x))'
  BY <1>1, <1>2, <1>3 DEF RowShape
<1>5. \A t \in transfers : RowShape(t) => RowShape(t)'
  BY DEF RowShape
<1>6. \A e \in events' : e \in events \/ (e.type # "TransferCompleted" /\ e.req = r
                                           /\ e.amount = Amt(r))
  BY DEF NewEvent
<1>7. TransferShape'
  <2>1. \A t, u \in transfers' : t.id = u.id => t = u
    BY <1>1, <1>3 DEF Books, Accounts, TransferShape
  <2>2. \A t \in transfers' : RowShape(t)'
    BY <1>4, <1>5 DEF Books, Accounts, TransferShape
  <2>3. ASSUME NEW e \in events', e.type = "TransferCompleted"
        PROVE  \E t \in transfers' : t.id = e.req
    <3>1. e \in events
      BY <1>6, <2>3
    <3>2. PICK t \in transfers : t.id = e.req
      BY <2>3, <3>1 DEF Books, Accounts, TransferShape
    <3> QED BY <1>3, <3>2
  <2> QED BY <2>1, <2>2, <2>3 DEF TransferShape
<1>8. EventShape'
  <2>1. Amt(r) > 0
    BY <1>1, <1>2 DEF RowShape
  <2> QED BY <1>6, <2>1 DEF Books, Accounts, EventShape, Amt, IsTransfer
<1> QED BY <1>7, <1>8

\* Whatever a COMMIT does, the rows keep their shape, and no row that another
\* transaction may be compensating disappears: that one holds its sender.
LEMMA CommitKeepsRows ==
  ASSUME Books, NEW r \in Requests, pc[r] = "commit", WriteBack(r), UNCHANGED cmd
  PROVE  /\ TransferShape' /\ EventShape'
         /\ \A x \in transfers : x.from \notin locked[r] => x \in transfers'
<1>1. WillCommit(r)
  BY DEF Books, Accounts, Prepared
<1>2. From(r) \in locked[r] /\ Logged(r) = {}
  BY WorkingFacts DEF Working
<1>3. CASE cmd[r].op = "deposit" /\ WillDeposit(r)
  <2>1. ~IsTransfer(r)
    BY <1>3 DEF IsTransfer
  <2>2. /\ UNCHANGED transfers
        /\ events' = events \cup {NewEvent(r, "FundsDeposited", From(r), Amt(r))}
    BY <1>3, NoRows, Published DEF WillDeposit, Abstract!Record
  <2> QED BY <2>1, <2>2, NoTransferKeepsRows
<1>4. CASE cmd[r].op = "withdraw" /\ WillWithdraw(r)
  <2>1. ~IsTransfer(r)
    BY <1>4 DEF IsTransfer
  <2>2. /\ UNCHANGED transfers
        /\ events' = events \cup {NewEvent(r, "FundsWithdrawn", From(r), Amt(r))}
    BY <1>4, NoRows, Published DEF WillWithdraw, Abstract!Record
  <2> QED BY <2>1, <2>2, NoTransferKeepsRows
<1>5. CASE IsTransfer(r) /\ WillTransfer(r)
  <2>1. Amt(r) > 0 /\ events' = events \cup OwnEvents(r)
    BY <1>5, Published DEF WillTransfer, Abstract!Record
  <2>2. transfers' = transfers \cup {OwnTransfer(r, "credited")}
    BY <1>5, TransferEffect DEF Abstract!MakeTransfer, OwnTransfer
  <2> QED BY <1>2, <2>1, <2>2, TransferKeepsRows
<1>6. CASE WillCompensate(r)
  <2>1. PICK x \in Compensable(r) : Abstract!Compensate(r, x)
    BY <1>6, CompensateEffect
  <2>2. x.from = From(r) /\ x.amount = Amt(r)
    BY DEF Compensable
  <2>3. transfers' = (transfers \ {x}) \cup {Compensated(x)}
    BY <2>1 DEF Abstract!Compensate, Compensated
  <2>4. events' = events \cup {NewEvent(r, "TransferFailed", From(r), Amt(r)),
                               NewEvent(r, "TransferCompensated", From(r), Amt(r))}
    BY <1>6, Published DEF WillCompensate, Abstract!Record
  <2> QED BY <1>2, <2>2, <2>3, <2>4, CompensateKeepsRows
<1>7. CASE WillDoNothing(r)
  <2>1. UNCHANGED <<events, transfers>>
    BY <1>7, NothingEffect
  <2> QED BY <2>1 DEF Books, Accounts, TransferShape, RowShape, EventShape, Amt, IsTransfer
<1> QED BY <1>1, <1>3, <1>4, <1>5, <1>6, <1>7 DEF WillCommit

\* A COMMIT keeps the books.
LEMMA CommitAccounts ==
  ASSUME Books, NEW r \in Requests, NEW l \in {"release", "done"}, pc[r] = "commit",
         WriteBack(r), EndTx(r), Goto(r, l), UNCHANGED <<cmd, phase>>
  PROVE  Accounts'
<1>1. /\ TransferShape' /\ EventShape'
      /\ \A x \in transfers : x.from \notin locked[r] => x \in transfers'
  BY CommitKeepsRows
<1>2. Prepared(r)'
  <2>1. pc'[r] = l
    BY DEF Books, Fresh, Shape, TypeOK, Goto
  <2> QED BY <2>1 DEF Prepared
<1>3. ASSUME NEW q \in Requests, q # r PROVE Prepared(q)'
  <2>1. /\ pc'[q] = pc[q] /\ tx'[q] = tx[q] /\ phase'[q] = phase[q]
        /\ locked'[q] = locked[q]
    BY <1>3 DEF Books, Fresh, Shape, TypeOK, Goto, EndTx
  <2>2. locked[q] \subseteq Wallets /\ locked[q] \cap locked[r] = {}
    BY <1>3 DEF Books, Fresh, Shape, TypeOK, LocksExclude
  <2>3. \A w \in locked[q] : balance'[w] = balance[w]
    BY <2>2 DEF WriteBack
  <2>4. \A x \in transfers : x.from \in locked[q] => x \in transfers'
    BY <1>1, <2>2
  <2> QED BY <2>1, <2>3, <2>4, KeepsPrepared
<1> QED BY <1>1, <1>2, <1>3 DEF Accounts

-----------------------------------------------------------------------------
(* Books is an inductive invariant *)

\* Initially nothing is logged and every transfer row is one of the seeds.
LEMMA InitBooks == Init => Books
<1> SUFFICES ASSUME Init PROVE Books
  OBVIOUS
<1>1. TransferShape
  BY WalletLedgerAssumption DEF Init, TransferShape, RowShape
<1>2. EventShape /\ \A r \in Requests : Prepared(r)
  BY DEF Init, EventShape, Prepared
<1> QED BY <1>1, <1>2, InitTruth, InitFresh DEF Books, Accounts

\* Every action keeps the books.
LEMMA NextBooks == Books /\ [Next]_vars => Books'
<1> SUFFICES ASSUME Books, [Next]_vars PROVE Accounts'
  BY NextTruth, NextFresh DEF Books
<1>1. ASSUME NEW r \in Requests, Connect(r) \/ Miss(r) \/ Refuse(r) \/ Accept(r)
      PROVE  Accounts'
  BY <1>1, UnpreparedStepAccounts DEF Connect, Miss, Refuse, Accept, session
<1>2. ASSUME NEW r \in Requests, Insert(r) PROVE Accounts'
  <2>1. \A q \in Requests \ {r} : locked'[q] = locked[q]
    BY <1>2 DEF Insert, Books, Fresh, Shape, TypeOK
  <2> QED BY <1>2, <2>1, UnpreparedStepAccounts DEF Insert
<1>3. ASSUME NEW r \in Requests, ReadLocked(r) PROVE Accounts'
  <2>1. \A q \in Requests \ {r} : locked'[q] = locked[q] /\ tx'[q] = tx[q]
    BY <1>3 DEF ReadLocked, Books, Fresh, Shape, TypeOK
  <2>2. UNCHANGED <<database, cmd, phase>>
        /\ \E l \in {"work", "find"} : Goto(r, l)
    BY <1>3 DEF ReadLocked
  <2> QED BY <2>1, <2>2, UnpreparedStepAccounts
<1>4. ASSUME NEW r \in Requests, Rollback(r) \/ Drop(r) \/ BeginFails(r)
      PROVE  Accounts'
  <2>1. EndTx(r) /\ UNCHANGED <<database, cmd>>
        /\ \E l \in {"connect", "release", "done"} : Goto(r, l)
    BY <1>4 DEF Rollback, Drop, BeginFails
  <2>2. \A q \in Requests \ {r} : /\ locked'[q] = locked[q] /\ tx'[q] = tx[q]
                                  /\ phase'[q] = phase[q]
    BY <1>4, <2>1 DEF Rollback, Drop, BeginFails, EndTx, Books, Fresh, Shape, TypeOK
  <2> QED BY <2>1, <2>2, UnpreparedStepAccounts
<1>5. ASSUME NEW r \in Requests, Fail(r) PROVE Accounts'
  BY <1>5, ThrowAccounts DEF Fail
<1>6. ASSUME NEW r \in Requests, Commit(r) \/ LoseAnswer(r) PROVE Accounts'
  BY <1>6, CommitAccounts DEF Commit, LoseAnswer
<1>7. ASSUME NEW r \in Requests, NEW p \in {"main", "comp"}, Release(r, p)
      PROVE  Accounts'
  <2>1. UNCHANGED <<database, session, cmd, phase>>
    BY <1>7 DEF Release
  <2>2. CASE Goto(r, "done")
    BY <2>1, <2>2, UnpreparedStepAccounts DEF session
  <2>3. CASE Goto(r, pc[r])
    <3>1. pc' = pc
      BY <2>3 DEF Goto, Books, Fresh, Shape, TypeOK
    <3>2. Prepared(r)'
      BY <2>1, <3>1, KeepsPrepared DEF database, session
    <3> QED BY <2>1, <3>1, <3>2, PrivateStepAccounts DEF session
  <2> QED BY <1>7, <2>2, <2>3 DEF Release
<1>8. ASSUME NEW r \in Requests, Step(r) PROVE Accounts'
  BY <1>1, <1>2, <1>3, <1>4, <1>6, <1>7, <1>8, DepositAccounts, WithdrawAccounts,
     InitiateTransferAccounts, MoveFundsAccounts, CompensateAccounts
     DEF Step
<1>9. CASE Quiet \/ UNCHANGED vars
  <2>1. UNCHANGED vars
    BY <1>9 DEF Quiet
  <2>2. TransferShape' /\ EventShape'
    BY <2>1 DEF Books, Accounts, TransferShape, RowShape, EventShape, Amt, IsTransfer,
                vars
  <2>3. ASSUME NEW r \in Requests PROVE Prepared(r)'
    BY <2>1, KeepsPrepared DEF vars
  <2> QED BY <2>2, <2>3 DEF Accounts
<1> QED BY <1>1, <1>4, <1>5, <1>6, <1>8, <1>9 DEF Next

\* Books holds in every reachable state.
LEMMA BooksHold == Spec => []Books
BY InitBooks, NextBooks, PTL DEF Spec

-----------------------------------------------------------------------------
(* What Books implies *)

\* A step that is not a COMMIT changes nothing the ledger sees.
LEMMA OtherStepsStutter ==
  ASSUME NEW r \in Requests, Step(r) \/ Refuse(r) \/ Accept(r) \/ Fail(r) \/ Drop(r)
                             \/ BeginFails(r),
         ~Commit(r)
  PROVE  UNCHANGED Abstract!vars
BY DEF Step, Refuse, Accept, Fail, Drop, BeginFails, Connect, ReadLocked, Miss, Insert,
       Deposit, Withdraw, InitiateTransfer, MoveFunds, Compensate, Rollback, Release,
       database, Abstract!vars

\* Every step of the service is a step of the ledger or none.
LEMMA StepSimulates ==
  Books /\ [Next]_vars => [Abstract!Next]_(Abstract!vars)
<1> SUFFICES ASSUME Books, [Next]_vars
             PROVE  Abstract!Next \/ UNCHANGED Abstract!vars
  OBVIOUS
<1>1. ASSUME NEW r \in Requests, Commit(r) \/ LoseAnswer(r)
      PROVE  Abstract!Next \/ UNCHANGED Abstract!vars
  <2>1. pc[r] = "commit" /\ WriteBack(r)
    BY <1>1 DEF Commit, LoseAnswer
  <2> QED BY <2>1, CommitIsOneStep DEF Abstract!Next
<1>2. CASE Quiet \/ UNCHANGED vars
  BY <1>2 DEF Quiet, vars, Abstract!vars
<1> QED BY <1>1, <1>2, OtherStepsStutter DEF Next

\* The service starts where the ledger does.
LEMMA StartSimulates == Init => Abstract!Init
BY DEF Init, Abstract!Init, Abstract!OpeningBalance

\* The write path implements the abstract ledger: although a command locks its
\* wallets one by one, reads them, computes and may be cut off at any await,
\* each command takes effect in one indivisible step, at most once, on the
\* balances of that moment, with the events and the outbox messages that
\* account for it.
THEOREM LedgerImplemented == Spec => Implements
<1> QED BY StartSimulates, StepSimulates, BooksHold, PTL
        DEF Spec, Implements, Abstract!Spec

\* A transfer row tells what the log tells, in every reachable state: credited
\* exactly when the log has its TransferCompleted, and no row of the table is
\* ever left initiated or failed.
THEOREM TransfersAreLogged == Spec => []TransfersMatchLog
<1>1. Books => TransfersMatchLog
  <2> SUFFICES ASSUME Books PROVE TransfersMatchLog
    OBVIOUS
  <2>1. \A t \in transfers : RowShape(t)
    BY DEF Books, Accounts, TransferShape
  <2>2. ASSUME NEW t \in transfers, t.status = "credited"
        PROVE  \E e \in events : e.req = t.id /\ e.type = "TransferCompleted"
    BY <2>1, <2>2 DEF RowShape
  <2>3. ASSUME NEW e \in events, e.type = "TransferCompleted"
        PROVE  \E t \in transfers : t.id = e.req /\ t.status = "credited"
    <3>1. PICK t \in transfers : t.id = e.req
      BY <2>3 DEF Books, Accounts, TransferShape
    <3>2. t.id \notin SeedIds
      BY <3>1, WalletTypesAssumption DEF Books, Fresh, Shape, TypeOK, Event
    <3> QED BY <2>1, <3>1, <3>2 DEF RowShape
  <2>4. {t.id : t \in {x \in transfers : x.status = "credited"}}
          = {e.req : e \in {x \in events : x.type = "TransferCompleted"}}
    BY <2>2, <2>3
  <2> QED BY <2>1, <2>4 DEF TransfersMatchLog, RowShape
<1> QED BY <1>1, BooksHold, PTL

\* Rounding to four decimals moves an amount by at most half a unit.
LEMMA RoundingError ==
  ASSUME NEW raw \in Nat
  PROVE  10 * Normalize(raw) - raw \in -4 .. 5
BY SMT DEF Normalize

\* What a command records differs from what was asked by at most half a unit,
\* and every event and every row of a transfer has a positive amount, although
\* the amount is tested before it is rounded.
THEOREM AmountsRecorded == Spec => []AmountsAsAsked
<1>1. Books => AmountsAsAsked
  <2> SUFFICES ASSUME Books PROVE AmountsAsAsked
    OBVIOUS
  <2>1. ASSUME NEW e \in events
        PROVE  /\ 10 * e.amount - cmd[e.req].raw \in -4 .. 5
               /\ cmd[e.req].op = "transfer" => e.amount > 0
    <3>1. e.req \in Requests
      BY DEF Books, Fresh, Shape, TypeOK, Event
    <3>2. cmd[e.req].raw \in Nat
      BY <3>1, WalletLedgerAssumption DEF Books, Fresh, Shape, TypeOK, Command
    <3>3. /\ e.amount = Normalize(cmd[e.req].raw)
          /\ cmd[e.req].op = "transfer" => e.amount > 0
      BY DEF Books, Accounts, EventShape, Amt, IsTransfer
    <3> QED BY <3>2, <3>3, RoundingError
  <2>2. \A t \in transfers : t.amount > 0
    BY DEF Books, Accounts, TransferShape, RowShape
  <2> QED BY <2>1, <2>2 DEF AmountsAsAsked
<1> QED BY <1>1, BooksHold, PTL

-----------------------------------------------------------------------------
(* Sums of amounts *)

\* The effect of an event is a number, and it depends on the type.
LEMMA EffectType ==
  ASSUME NEW e, e.amount \in Nat
  PROVE  Effect(e) \in Int
BY DEF Effect

LEMMA EffectOfNew ==
  ASSUME NEW r, NEW w, NEW a \in Nat
  PROVE  /\ Effect(NewEvent(r, "FundsDeposited", w, a)) = a
         /\ Effect(NewEvent(r, "TransferCompensated", w, a)) = a
         /\ Effect(NewEvent(r, "FundsWithdrawn", w, a)) = -a
         /\ Effect(NewEvent(r, "TransferInitiated", w, a)) = 0
         /\ Effect(NewEvent(r, "TransferCompleted", w, a)) = 0
         /\ Effect(NewEvent(r, "TransferFailed", w, a)) = 0
BY DEF Effect, NewEvent

\* Nothing has no effect.
LEMMA NetOfNothing == Net({}) = 0
BY SumStep, FS_EmptySet DEF Net, SumFunction

\* The net effect of finitely many events is a number.
LEMMA NetType ==
  ASSUME NEW es, IsFiniteSet(es), \A x \in es : Effect(x) \in Int
  PROVE  Net(es) \in Int
BY SumType DEF Net, SumFunction

\* A new event adds its effect to that of the events so far.
LEMMA NetAdd ==
  ASSUME NEW es, IsFiniteSet(es), \A x \in es : Effect(x) \in Int,
         NEW e, e \notin es, Effect(e) \in Int
  PROVE  Net(es \cup {e}) = Net(es) + Effect(e)
<1> DEFINE f == [x \in es \cup {e} |-> Effect(x)]
           g == [x \in es |-> Effect(x)]
<1>1. /\ f[e] = Effect(e) /\ f[e] \in Int
      /\ \A y \in es : f[y] \in Int /\ g[y] = f[y]
  OBVIOUS
<1>2. DOMAIN f = es \cup {e} /\ DOMAIN g = es
  OBVIOUS
<1>3. Net(es \cup {e}) = SumFunctionOnSet(f, es \cup {e}) /\ Net(es) = SumFunctionOnSet(g, es)
  BY <1>2 DEF Net, SumFunction
<1> HIDE DEF f, g
<1> QED BY <1>1, <1>3, SumAdd

\* One balance that changes changes the sum of all by as much.
LEMMA BalanceChange ==
  ASSUME NEW b \in [Wallets -> Int], NEW w \in Wallets, NEW n \in Int
  PROVE  /\ SumFunction(b) \in Int
         /\ SumFunction([b EXCEPT ![w] = n]) = SumFunction(b) + (n - b[w])
<1> DEFINE c == [b EXCEPT ![w] = n]
<1>1. /\ c[w] = n /\ DOMAIN b = Wallets /\ DOMAIN c = Wallets
      /\ \A v \in Wallets : b[v] \in Int /\ c[v] \in Int
      /\ \A v \in Wallets \ {w} : c[v] = b[v]
  OBVIOUS
<1> HIDE DEF c
<1>2. SumFunctionOnSet(c, Wallets) = SumFunctionOnSet(b, Wallets) + (c[w] - b[w])
  BY <1>1, SumChange, WalletAuditAssumption
<1>3. SumFunctionOnSet(b, Wallets) \in Int
  BY <1>1, SumType, WalletAuditAssumption
<1> QED BY <1>1, <1>2, <1>3 DEF SumFunction, c

\* What is in flight is a number, and a transfer that is compensated takes its
\* amount out of it.
LEMMA InFlightType ==
  ASSUME NEW ts, IsFiniteSet(ts), ts \subseteq Transfer
  PROVE  InFlight(ts) \in Int
<1> DEFINE D == {t \in ts : t.status = "debited"}
           f == [t \in D |-> t.amount]
<1>1. IsFiniteSet(D)
  BY FS_Subset
<1>2. DOMAIN f = D /\ \A t \in D : f[t] \in Int
  BY DEF Transfer
<1>3. InFlight(ts) = SumFunctionOnSet(f, D)
  BY <1>2 DEF InFlight, SumFunction
<1> HIDE DEF D, f
<1> QED BY <1>1, <1>2, <1>3, SumType

LEMMA InFlightLess ==
  ASSUME NEW ts, IsFiniteSet(ts), ts \subseteq Transfer, NEW x \in ts,
         x.status = "debited", NEW y, y.status # "debited"
  PROVE  InFlight(ts) = InFlight((ts \ {x}) \cup {y}) + x.amount
<1> DEFINE D == {t \in ts : t.status = "debited"}
           R == {t \in (ts \ {x}) \cup {y} : t.status = "debited"}
           f == [t \in D |-> t.amount]
           g == [t \in R |-> t.amount]
<1>1. D = R \cup {x} /\ x \notin R /\ IsFiniteSet(R)
  <2>1. R \in SUBSET ts /\ x \notin R /\ D = R \cup {x}
    OBVIOUS
  <2> QED BY <2>1, FS_Subset
<1>2. /\ DOMAIN f = D /\ DOMAIN g = R
      /\ \A t \in D : f[t] = t.amount /\ f[t] \in Int
      /\ \A t \in R : g[t] = t.amount
  BY DEF Transfer
<1>3. /\ InFlight(ts) = SumFunctionOnSet(f, D)
      /\ InFlight((ts \ {x}) \cup {y}) = SumFunctionOnSet(g, R)
  BY <1>2 DEF InFlight, SumFunction
<1> HIDE DEF D, R, f, g
<1>4. f[x] = x.amount /\ f[x] \in Int /\ \A t \in R : f[t] \in Int /\ g[t] = f[t]
  BY <1>1, <1>2
<1> QED BY <1>1, <1>3, <1>4, SumAdd

-----------------------------------------------------------------------------
(* What a COMMIT does to the sums *)

\* What adds up, with what it takes to add up: the log and the rows of transfers
\* are finite, and only a transfer compensates.
Balanced ==
  /\ Books
  /\ IsFiniteSet(events) /\ IsFiniteSet(transfers)
  /\ \A r \in Requests : phase[r] = "comp" => IsTransfer(r)
  /\ AuditTrail
  /\ MoneyConserved

EventsOf(w) == {e \in Event : e.wallet = w}
Externals == {e \in Event : External(e)}

\* The types the sums rely on.
LEMMA BalancedTypes ==
  ASSUME Balanced
  PROVE  /\ events \subseteq Event /\ transfers \subseteq Transfer
         /\ balance \in [Wallets -> Int]
         /\ \A e \in events : Effect(e) \in Int
         /\ \A Q : Net(events \cap Q) \in Int
         /\ InFlight(transfers) \in Int /\ InFlight(SeedTransfers) \in Int
         /\ SumFunction(balance) \in Int
         /\ Abstract!OpeningBalance \in [Wallets -> Int]
         /\ SumFunction(Abstract!OpeningBalance) \in Int
<1>1. /\ events \subseteq Event /\ transfers \subseteq Transfer
      /\ balance \in [Wallets -> Int]
  <2>1. TypeOK
    BY DEF Balanced, Books, Fresh, Shape
  <2> QED BY <2>1, WalletTypesAssumption DEF TypeOK
<1>2. \A e \in events : Effect(e) \in Int
  BY <1>1, EffectType DEF Event
<1>3. ASSUME NEW Q PROVE Net(events \cap Q) \in Int
  <2>1. IsFiniteSet(events \cap Q) /\ \A e \in events \cap Q : Effect(e) \in Int
    <3>1. IsFiniteSet(events) /\ events \cap Q \in SUBSET events
      BY DEF Balanced
    <3> QED BY <1>2, <3>1, FS_Subset
  <2> QED BY <2>1, NetType
<1>4. InFlight(transfers) \in Int /\ InFlight(SeedTransfers) \in Int
  BY <1>1, InFlightType, WalletAuditAssumption, WalletLedgerAssumption DEF Balanced
<1>5. Abstract!OpeningBalance \in [Wallets -> Int]
  BY WalletLedgerAssumption, WalletTypesAssumption DEF Abstract!OpeningBalance
<1>6. ASSUME NEW b \in [Wallets -> Int] PROVE SumFunction(b) \in Int
  BY SumType, WalletAuditAssumption DEF SumFunction
<1> QED BY <1>1, <1>2, <1>3, <1>4, <1>5, <1>6

\* The audit trail holds on if each wallet's events account for its change.
LEMMA TrailGoesOn ==
  ASSUME Balanced, events' \subseteq Event, balance' \in [Wallets -> Int],
         \A w \in Wallets : Net(events' \cap EventsOf(w))
           = Net(events \cap EventsOf(w)) + (balance'[w] - balance[w])
  PROVE  AuditTrail'
<1>1. ASSUME NEW w \in Wallets
      PROVE  balance'[w] = Abstract!OpeningBalance[w]
                             + Net({e \in events' : e.wallet = w})
  <2>1. /\ {e \in events : e.wallet = w} = events \cap EventsOf(w)
        /\ {e \in events' : e.wallet = w} = events' \cap EventsOf(w)
    BY BalancedTypes DEF EventsOf
  <2>2. PICK n \in Int, o \in Int, b \in Int, c \in Int :
          /\ n = Net(events \cap EventsOf(w)) /\ o = Abstract!OpeningBalance[w]
          /\ b = balance[w] /\ c = balance'[w]
    BY BalancedTypes
  <2>3. b = o + n
    BY <2>1, <2>2 DEF Balanced, AuditTrail
  <2>4. Net(events' \cap EventsOf(w)) = n + (c - b)
    BY <2>2
  <2>5. c = o + (n + (c - b))
    BY <2>3
  <2> QED BY <2>1, <2>2, <2>4, <2>5
<1> QED BY <1>1 DEF AuditTrail, Net, SumFunction, Effect, Abstract!OpeningBalance

\* Money is conserved if what balances and transfers in flight gain together is
\* what external events bring.
LEMMA MoneyStaysConserved ==
  ASSUME Balanced, UNCHANGED cmd, events' \subseteq Event, NEW n \in Int,
         SumFunction(balance') + InFlight(transfers')
           = SumFunction(balance) + InFlight(transfers) + n,
         Net(events' \cap Externals) = Net(events \cap Externals) + n
  PROVE  MoneyConserved'
<1>1. /\ {e \in events : External(e)} = events \cap Externals
      /\ {e \in events' : External(e)} = events' \cap Externals
  BY BalancedTypes DEF Externals
<1>2. PICK m \in Int, o \in Int, s \in Int, b \in Int, f \in Int :
        /\ m = Net(events \cap Externals) /\ o = SumFunction(Abstract!OpeningBalance)
        /\ s = InFlight(SeedTransfers)
        /\ b = SumFunction(balance) /\ f = InFlight(transfers)
  BY BalancedTypes
<1>3. b + f = o + s + m
  BY <1>1, <1>2 DEF Balanced, MoneyConserved
<1>4. /\ SumFunction(balance') + InFlight(transfers') = b + f + n
      /\ Net(events' \cap Externals) = m + n
  BY <1>2
<1>5. b + f + n = o + s + (m + n)
  BY <1>3
<1>6. SumFunction(balance') + InFlight(transfers')
        = SumFunction(Abstract!OpeningBalance) + InFlight(SeedTransfers)
            + Net({e \in events' : External(e)})
  BY <1>1, <1>2, <1>4, <1>5
<1>7. {e \in events' : External(e)'} = {e \in events' : External(e)}
  BY DEF External
<1> QED BY <1>6, <1>7 DEF MoneyConserved, InFlight, Net, SumFunction, Effect,
                          Abstract!OpeningBalance

\* The events es may be summed.
Summable(es) == IsFiniteSet(es) /\ \A e \in es : Effect(e) \in Int

\* Wherever it counts, e adds n to what the events es add up to.
Adds(es, e, n) ==
  /\ Summable(es \cup {e})
  /\ \A Q : /\ Net(es \cap Q) \in Int
            /\ e \in Q => Net((es \cup {e}) \cap Q) = Net(es \cap Q) + n
            /\ e \notin Q => Net((es \cup {e}) \cap Q) = Net(es \cap Q)

\* A new event of its request adds its effect.
LEMMA OneMoreEvent ==
  ASSUME NEW es, Summable(es), NEW e, e.amount \in Nat, NEW n, n = Effect(e),
         \A x \in es : ~(x.req = e.req /\ x.type = e.type)
  PROVE  Adds(es, e, n)
<1>1. e \notin es /\ Effect(e) \in Int
  BY EffectType
<1>2. Summable(es \cup {e})
  BY <1>1, FS_AddElement DEF Summable
<1>3. ASSUME NEW Q
      PROVE  /\ Net(es \cap Q) \in Int
             /\ e \in Q => Net((es \cup {e}) \cap Q) = Net(es \cap Q) + n
             /\ e \notin Q => Net((es \cup {e}) \cap Q) = Net(es \cap Q)
  <2>1. PICK part : part = es \cap Q
    OBVIOUS
  <2>2. IsFiniteSet(part) /\ \A x \in part : Effect(x) \in Int
    <3>1. part \in SUBSET es
      BY <2>1
    <3> QED BY <3>1, FS_Subset DEF Summable
  <2>3. Net(part) \in Int
    BY <2>2, NetType
  <2>4. e \in Q => (es \cup {e}) \cap Q = part \cup {e}
    BY <2>1
  <2>5. e \notin Q => (es \cup {e}) \cap Q = part
    BY <2>1
  <2>6. Net(part \cup {e}) = Net(part) + Effect(e)
    BY <1>1, <2>1, <2>2, NetAdd
  <2> QED BY <2>1, <2>3, <2>4, <2>5, <2>6
<1> QED BY <1>2, <1>3 DEF Adds

\* A deposit or a withdrawal is an external event of its wallet.
LEMMA ExternalAddsUp ==
  ASSUME Balanced, Shape', NEW r \in Requests, UNCHANGED <<cmd, transfers>>,
         ~IsTransfer(r), Abstract!Unused(r), NEW w \in Wallets, NEW a \in Nat,
         NEW type \in {"FundsDeposited", "FundsWithdrawn"},
         NEW n \in Int, n = Effect(NewEvent(r, type, w, a)),
         events' = events \cup {NewEvent(r, type, w, a)},
         balance' = [balance EXCEPT ![w] = balance[w] + n]
  PROVE  IsFiniteSet(events') /\ AuditTrail' /\ MoneyConserved'
<1>0. PICK e : e = NewEvent(r, type, w, a)
  OBVIOUS
<1>1. e \in events' /\ e.req = r /\ e.wallet = w
  BY <1>0 DEF NewEvent
<1>2. /\ IsFiniteSet(events')
      /\ \A Q : /\ e \in Q => Net(events' \cap Q) = Net(events \cap Q) + n
                /\ e \notin Q => Net(events' \cap Q) = Net(events \cap Q)
  <2>1. \A x \in events : ~(x.req = e.req /\ x.type = e.type)
    BY <1>1 DEF Abstract!Unused
  <2>2. e.amount \in Nat /\ n = Effect(e) /\ events' = events \cup {e}
    BY <1>0 DEF NewEvent
  <2>3. Adds(events, e, n)
    BY <2>1, <2>2, OneMoreEvent, BalancedTypes DEF Balanced, Summable
  <2> QED BY <2>2, <2>3 DEF Adds, Summable
<1>3. events' \subseteq Event /\ balance' \in [Wallets -> Int]
  BY WalletTypesAssumption DEF Shape, TypeOK
<1>4. AuditTrail'
  <2>1. ASSUME NEW v \in Wallets
        PROVE  Net(events' \cap EventsOf(v))
                 = Net(events \cap EventsOf(v)) + (balance'[v] - balance[v])
    <3>1. e \in EventsOf(v) <=> v = w
      BY <1>1, <1>3 DEF EventsOf
    <3>2. PICK b \in Int, m \in Int : b = balance[v] /\ m = Net(events \cap EventsOf(v))
      BY BalancedTypes
    <3>3. balance'[v] - b = IF v = w THEN n ELSE 0
      BY <3>2, BalancedTypes
    <3>4. Net(events' \cap EventsOf(v)) = m + IF v = w THEN n ELSE 0
      BY <1>2, <3>1, <3>2
    <3> QED BY <3>2, <3>3, <3>4
  <2> QED BY <1>3, <2>1, TrailGoesOn
<1>5. MoneyConserved'
  <2>1. e \in Externals
    BY <1>1, <1>3 DEF Externals, External, IsTransfer
  <2>2. SumFunction(balance') = SumFunction(balance) + n
    <3>1. PICK b, m : b \in Int /\ b = balance[w] /\ m = b + n
      BY BalancedTypes
    <3>2. m \in Int /\ m - b = n
      BY <3>1
    <3>3. balance' = [balance EXCEPT ![w] = m] /\ balance \in [Wallets -> Int]
      BY <3>1, BalancedTypes
    <3>4. SumFunction([balance EXCEPT ![w] = m]) = SumFunction(balance) + (m - balance[w])
      BY <3>2, <3>3, BalanceChange
    <3> QED BY <3>1, <3>2, <3>3, <3>4
  <2>3. SumFunction(balance') + InFlight(transfers')
          = SumFunction(balance) + InFlight(transfers) + n
    <3>1. PICK b \in Int, f \in Int : b = SumFunction(balance) /\ f = InFlight(transfers)
      BY BalancedTypes
    <3>2. (b + n) + f = b + f + n
      OBVIOUS
    <3>3. InFlight(transfers') = f
      BY <3>1
    <3> QED BY <2>2, <3>1, <3>2, <3>3
  <2>4. Net(events' \cap Externals) = Net(events \cap Externals) + n
    BY <1>2, <2>1
  <2> QED BY <1>3, <2>3, <2>4, MoneyStaysConserved
<1> QED BY <1>2, <1>4, <1>5

\* A transfer takes from one wallet what it gives to the other; none of its four
\* events is external.
LEMMA TransferAddsUp ==
  ASSUME Balanced, Shape', NEW r \in Requests, UNCHANGED cmd,
         IsTransfer(r), Amt(r) \in Nat, Abstract!MakeTransfer(r, From(r), To(r), Amt(r)),
         From(r) \in Wallets, To(r) \in Wallets
  PROVE  IsFiniteSet(events') /\ AuditTrail' /\ MoneyConserved'
<1>0. PICK f \in Wallets, t \in Wallets, a \in Nat : f = From(r) /\ t = To(r) /\ a = Amt(r)
  OBVIOUS
<1>1. PICK ti, fw, fd, tc :
        /\ ti = NewEvent(r, "TransferInitiated", f, a)
        /\ fw = NewEvent(r, "FundsWithdrawn", f, a)
        /\ fd = NewEvent(r, "FundsDeposited", t, a)
        /\ tc = NewEvent(r, "TransferCompleted", f, a)
  OBVIOUS
<1>2. /\ ti.req = r /\ fw.req = r /\ fd.req = r /\ tc.req = r
      /\ ti.type = "TransferInitiated" /\ fw.type = "FundsWithdrawn"
      /\ fd.type = "FundsDeposited" /\ tc.type = "TransferCompleted"
      /\ fw.wallet = f /\ fd.wallet = t
      /\ ti.amount = a /\ fw.amount = a /\ fd.amount = a /\ tc.amount = a
  BY <1>1 DEF NewEvent
<1>3. Effect(ti) = 0 /\ Effect(fw) = -a /\ Effect(fd) = a /\ Effect(tc) = 0
  BY <1>1, EffectOfNew
<1>4. /\ f # t /\ \A x \in events : x.req # r
      /\ balance' = [balance EXCEPT ![f] = @ - a, ![t] = @ + a]
      /\ transfers' = transfers \cup {OwnTransfer(r, "credited")}
      /\ events' = events \cup {ti, fw, fd, tc}
  BY <1>0, <1>1 DEF Abstract!MakeTransfer, Abstract!Unused, Abstract!Record,
                    Abstract!TransferEvents, Abstract!NewEvent, NewEvent, OwnTransfer
<1>5. PICK e1, e2, e3 : /\ e1 = events \cup {ti} /\ e2 = e1 \cup {fw}
                        /\ e3 = e2 \cup {fd} /\ events' = e3 \cup {tc}
  <2>1. events' = ((events \cup {ti}) \cup {fw}) \cup {fd} \cup {tc}
    BY <1>4
  <2> QED BY <2>1, Zenon
<1>6. Adds(events, ti, 0)
  BY <1>2, <1>3, <1>4, OneMoreEvent, BalancedTypes DEF Balanced, Summable
<1>7. Adds(e1, fw, -a)
  <2>1. \A x \in e1 : ~(x.req = fw.req /\ x.type = fw.type)
    BY <1>2, <1>4, <1>5
  <2>2. Summable(e1)
    BY <1>5, <1>6 DEF Adds
  <2> QED BY <1>2, <1>3, <2>1, <2>2, OneMoreEvent
<1>8. Adds(e2, fd, a)
  <2>1. \A x \in e2 : ~(x.req = fd.req /\ x.type = fd.type)
    BY <1>2, <1>4, <1>5
  <2>2. Summable(e2)
    BY <1>5, <1>7 DEF Adds
  <2> QED BY <1>2, <1>3, <2>1, <2>2, OneMoreEvent
<1>9. Adds(e3, tc, 0)
  <2>1. \A x \in e3 : ~(x.req = tc.req /\ x.type = tc.type)
    BY <1>2, <1>4, <1>5
  <2>2. Summable(e3)
    BY <1>5, <1>8 DEF Adds
  <2> QED BY <1>2, <1>3, <2>1, <2>2, OneMoreEvent
<1>10. ASSUME NEW Q, NEW n \in Int, n = Net(events \cap Q)
       PROVE  Net(events' \cap Q)
                = n + (IF fw \in Q THEN -a ELSE 0) + (IF fd \in Q THEN a ELSE 0)
  <2>1. PICK n1 : n1 = Net(e1 \cap Q)
    OBVIOUS
  <2>2. PICK n2 : n2 = Net(e2 \cap Q)
    OBVIOUS
  <2>3. PICK n3 : n3 = Net(e3 \cap Q)
    OBVIOUS
  <2>4. (ti \in Q => n1 = n + 0) /\ (ti \notin Q => n1 = n)
    BY <1>5, <1>6, <1>10, <2>1 DEF Adds
  <2>5. (fw \in Q => n2 = n1 + (-a)) /\ (fw \notin Q => n2 = n1)
    BY <1>5, <1>7, <2>1, <2>2 DEF Adds
  <2>6. (fd \in Q => n3 = n2 + a) /\ (fd \notin Q => n3 = n2)
    BY <1>5, <1>8, <2>2, <2>3 DEF Adds
  <2>7. n3 = n + (IF fw \in Q THEN -a ELSE 0) + (IF fd \in Q THEN a ELSE 0)
    BY <2>4, <2>5, <2>6
  <2>8. n3 \in Int
    BY <2>7
  <2>9. /\ tc \in Q => Net(events' \cap Q) = n3 + 0
        /\ tc \notin Q => Net(events' \cap Q) = n3
    BY <1>5, <1>9, <2>3 DEF Adds
  <2>10. Net(events' \cap Q) = n3
    BY <2>8, <2>9
  <2> QED BY <2>7, <2>10
<1>11. events' \subseteq Event /\ balance' \in [Wallets -> Int] /\ fw \in events' /\ fd \in events'
  BY <1>4, WalletTypesAssumption DEF Shape, TypeOK
<1>12. AuditTrail'
  <2>1. ASSUME NEW v \in Wallets
        PROVE  Net(events' \cap EventsOf(v))
                 = Net(events \cap EventsOf(v)) + (balance'[v] - balance[v])
    <3>1. (fw \in EventsOf(v) <=> v = f) /\ (fd \in EventsOf(v) <=> v = t)
      BY <1>2, <1>11 DEF EventsOf
    <3>2. PICK b \in Int, n \in Int : b = balance[v] /\ n = Net(events \cap EventsOf(v))
      BY BalancedTypes
    <3>3. balance'[v] = IF v = f THEN b - a ELSE IF v = t THEN b + a ELSE b
      BY <1>4, <3>2, BalancedTypes
    <3>4. Net(events' \cap EventsOf(v))
            = n + (IF v = f THEN -a ELSE 0) + (IF v = t THEN a ELSE 0)
      BY <1>10, <3>1, <3>2
    <3> QED BY <1>4, <3>2, <3>3, <3>4
  <2> QED BY <1>11, <2>1, TrailGoesOn
<1>13. MoneyConserved'
  <2>1. fw \notin Externals /\ fd \notin Externals
    BY <1>2 DEF Externals, External, IsTransfer
  <2>2. Net(events' \cap Externals) = Net(events \cap Externals) + 0
    <3>1. PICK n \in Int : n = Net(events \cap Externals)
      BY BalancedTypes
    <3> QED BY <1>10, <2>1, <3>1
  <2>3. SumFunction(balance') = SumFunction(balance)
    <3>1. PICK x \in Int, y \in Int, s \in Int :
            x = balance[f] /\ y = balance[t] /\ s = SumFunction(balance)
      BY BalancedTypes
    <3>2. PICK b : b = [balance EXCEPT ![f] = x - a]
      OBVIOUS
    <3>3. b \in [Wallets -> Int] /\ b[t] = y /\ balance' = [b EXCEPT ![t] = y + a]
      BY <1>4, <3>1, <3>2, BalancedTypes
    <3>4. PICK p \in Int, q \in Int : p = x - a /\ q = y + a
      OBVIOUS
    <3>5. SumFunction(b) = s + (p - x)
      <4>1. SumFunction([balance EXCEPT ![f] = p]) = SumFunction(balance) + (p - balance[f])
        BY <3>4, BalanceChange, BalancedTypes
      <4> QED BY <3>1, <3>2, <3>4, <4>1
    <3>6. SumFunction(balance') = SumFunction(b) + (q - y)
      <4>1. SumFunction([b EXCEPT ![t] = q]) = SumFunction(b) + (q - b[t])
        BY <3>3, <3>4, BalanceChange
      <4> QED BY <3>3, <3>4, <4>1
    <3>7. s + (p - x) + (q - y) = s
      BY <3>4
    <3> QED BY <3>1, <3>5, <3>6, <3>7
  <2>4. InFlight(transfers') = InFlight(transfers)
    <3>1. OwnTransfer(r, "credited").status = "credited"
      BY DEF OwnTransfer
    <3>2. {x \in transfers' : x.status = "debited"} = {x \in transfers : x.status = "debited"}
      BY <1>4, <3>1
    <3> QED BY <3>2 DEF InFlight
  <2>5. SumFunction(balance') + InFlight(transfers')
          = SumFunction(balance) + InFlight(transfers) + 0
    BY <2>3, <2>4, BalancedTypes
  <2>6. PICK n \in Int : n = 0
    OBVIOUS
  <2> QED BY <1>11, <2>2, <2>5, <2>6, MoneyStaysConserved
<1>14. IsFiniteSet(events')
  BY <1>5, <1>9 DEF Adds, Summable
<1> QED BY <1>12, <1>13, <1>14

\* A compensation gives its wallet what was in flight; its events are not
\* external.
LEMMA CompensationAddsUp ==
  ASSUME Balanced, Shape', NEW r \in Requests, UNCHANGED cmd, IsTransfer(r),
         NEW x \in Compensable(r), Abstract!Compensate(r, x)
  PROVE  IsFiniteSet(events') /\ AuditTrail' /\ MoneyConserved'
<1>0. /\ x \in transfers /\ x.status = "debited" /\ x.from \in Wallets /\ x.amount \in Nat
      /\ x \in Transfer
  BY BalancedTypes DEF Compensable, Transfer
<1>1. PICK f \in Wallets, a \in Nat : f = x.from /\ a = x.amount
  BY <1>0
<1>2. PICK tf, tc : /\ tf = NewEvent(r, "TransferFailed", f, a)
                    /\ tc = NewEvent(r, "TransferCompensated", f, a)
  OBVIOUS
<1>3. /\ tf.req = r /\ tc.req = r /\ tc.wallet = f /\ tf.amount = a /\ tc.amount = a
      /\ tf.type = "TransferFailed" /\ tc.type = "TransferCompensated"
  BY <1>2 DEF NewEvent
<1>4. Effect(tf) = 0 /\ Effect(tc) = a
  BY <1>2, EffectOfNew
<1>5. /\ \A e \in events : e.req # r
      /\ balance' = [balance EXCEPT ![f] = @ + a]
      /\ transfers' = (transfers \ {x}) \cup {Compensated(x)}
      /\ events' = events \cup {tf, tc}
  BY <1>1, <1>2 DEF Abstract!Compensate, Abstract!Unused, Abstract!Record,
                    Abstract!NewEvent, NewEvent, Compensated
<1>6. PICK e1 : e1 = events \cup {tf} /\ events' = e1 \cup {tc}
  <2>1. events' = (events \cup {tf}) \cup {tc}
    BY <1>5
  <2> QED BY <2>1, Zenon
<1>7. Adds(events, tf, 0)
  BY <1>3, <1>4, <1>5, OneMoreEvent, BalancedTypes DEF Balanced, Summable
<1>8. Adds(e1, tc, a)
  <2>1. \A e \in e1 : ~(e.req = tc.req /\ e.type = tc.type)
    BY <1>3, <1>5, <1>6
  <2>2. Summable(e1)
    BY <1>6, <1>7 DEF Adds
  <2> QED BY <1>3, <1>4, <2>1, <2>2, OneMoreEvent
<1>9. ASSUME NEW Q, NEW n \in Int, n = Net(events \cap Q)
      PROVE  Net(events' \cap Q) = n + IF tc \in Q THEN a ELSE 0
  <2>1. PICK n1 : n1 = Net(e1 \cap Q)
    OBVIOUS
  <2>2. (tf \in Q => n1 = n + 0) /\ (tf \notin Q => n1 = n)
    BY <1>6, <1>7, <1>9, <2>1 DEF Adds
  <2>3. n1 = n
    BY <2>2
  <2>4. /\ tc \in Q => Net(events' \cap Q) = n1 + a
        /\ tc \notin Q => Net(events' \cap Q) = n1
    BY <1>6, <1>8, <2>1 DEF Adds
  <2> QED BY <2>3, <2>4
<1>10. events' \subseteq Event /\ balance' \in [Wallets -> Int] /\ tc \in events'
  BY <1>5, WalletTypesAssumption DEF Shape, TypeOK
<1>11. AuditTrail'
  <2>1. ASSUME NEW v \in Wallets
        PROVE  Net(events' \cap EventsOf(v))
                 = Net(events \cap EventsOf(v)) + (balance'[v] - balance[v])
    <3>1. tc \in EventsOf(v) <=> v = f
      BY <1>3, <1>10 DEF EventsOf
    <3>2. PICK b \in Int, n \in Int : b = balance[v] /\ n = Net(events \cap EventsOf(v))
      BY BalancedTypes
    <3>3. balance'[v] = IF v = f THEN b + a ELSE b
      BY <1>5, <3>2, BalancedTypes
    <3>4. Net(events' \cap EventsOf(v)) = n + IF v = f THEN a ELSE 0
      BY <1>9, <3>1, <3>2
    <3> QED BY <3>2, <3>3, <3>4
  <2> QED BY <1>10, <2>1, TrailGoesOn
<1>12. MoneyConserved'
  <2>1. tc \notin Externals
    BY <1>3 DEF Externals, External, IsTransfer
  <2>2. Net(events' \cap Externals) = Net(events \cap Externals) + 0
    <3>1. PICK n \in Int : n = Net(events \cap Externals)
      BY BalancedTypes
    <3> QED BY <1>9, <2>1, <3>1
  <2>3. PICK b \in Int, s \in Int, g \in Int, c \in Int :
          /\ b = balance[f] /\ s = SumFunction(balance) /\ g = InFlight(transfers)
          /\ c = b + a
    BY BalancedTypes
  <2>4. SumFunction(balance') = s + (c - b)
    <3>1. SumFunction([balance EXCEPT ![f] = c]) = SumFunction(balance) + (c - balance[f])
      BY BalanceChange, BalancedTypes
    <3>2. balance' = [balance EXCEPT ![f] = c]
      BY <1>5, <2>3, BalancedTypes
    <3> QED BY <2>3, <3>1, <3>2
  <2>5. PICK h \in Int : h = InFlight(transfers')
    <3>1. IsFiniteSet(transfers') /\ transfers' \subseteq Transfer
      BY <1>5, FS_AddElement, FS_RemoveElement DEF Balanced, Shape, TypeOK
    <3> QED BY <3>1, InFlightType
  <2>6. g = h + a
    <3>1. Compensated(x).status # "debited"
      BY <1>0 DEF Compensated, Transfer
    <3> QED BY <1>0, <1>1, <1>5, <2>3, <2>5, <3>1, InFlightLess, BalancedTypes DEF Balanced
  <2>7. SumFunction(balance') + InFlight(transfers')
          = SumFunction(balance) + InFlight(transfers) + 0
    <3>1. s + (c - b) + h = s + g + 0
      BY <2>3, <2>6
    <3> QED BY <2>3, <2>4, <2>5, <3>1
  <2>8. PICK n \in Int : n = 0
    OBVIOUS
  <2> QED BY <1>10, <2>2, <2>7, <2>8, MoneyStaysConserved
<1>13. IsFiniteSet(events')
  BY <1>6, <1>8 DEF Adds, Summable
<1> QED BY <1>11, <1>12, <1>13

\* Nothing that is summed changes.
LEMMA SumsStay ==
  ASSUME Balanced, UNCHANGED <<cmd, balance, events, transfers>>
  PROVE  IsFiniteSet(events') /\ AuditTrail' /\ MoneyConserved'
<1>1. {e \in events : External(e)'} = {e \in events : External(e)}
  BY DEF External
<1> QED BY <1>1 DEF Balanced, AuditTrail, MoneyConserved, InFlight, Net, SumFunction,
                    Effect, Abstract!OpeningBalance

\* Whatever a COMMIT does adds up.
LEMMA CommitAddsUp ==
  ASSUME Balanced, Shape', NEW r \in Requests, pc[r] = "commit", WriteBack(r),
         UNCHANGED cmd
  PROVE  IsFiniteSet(events') /\ AuditTrail' /\ MoneyConserved'
<1>1. Books /\ WillCommit(r)
  BY DEF Balanced, Books, Accounts, Prepared
<1>2. From(r) \in Wallets /\ To(r) \in Wallets /\ Amt(r) \in Nat
  BY <1>1, CommandTypes DEF Books, Fresh, Shape
<1>3. CASE cmd[r].op = "deposit" /\ WillDeposit(r)
  <2>1. Abstract!Deposit(r, From(r), Amt(r))
    BY <1>1, <1>3, DepositEffect
  <2>2. PICK w \in Wallets, a \in Nat, n \in Int : w = From(r) /\ a = Amt(r) /\ n = a
    BY <1>2
  <2>3. /\ Abstract!Unused(r) /\ UNCHANGED transfers
        /\ events' = events \cup {NewEvent(r, "FundsDeposited", w, a)}
        /\ balance' = [balance EXCEPT ![w] = balance[w] + n]
    BY <2>1, <2>2 DEF Abstract!Deposit, Abstract!Record, Abstract!NewEvent, NewEvent
  <2>4. n = Effect(NewEvent(r, "FundsDeposited", w, a))
    BY <2>2, EffectOfNew
  <2>5. ~IsTransfer(r)
    BY <1>3 DEF IsTransfer
  <2>6. PICK type \in {"FundsDeposited", "FundsWithdrawn"} : type = "FundsDeposited"
    OBVIOUS
  <2> QED BY <2>3, <2>4, <2>5, <2>6, ExternalAddsUp
<1>4. CASE cmd[r].op = "withdraw" /\ WillWithdraw(r)
  <2>1. Abstract!Withdraw(r, From(r), Amt(r))
    BY <1>1, <1>4, WithdrawEffect
  <2>2. PICK w \in Wallets, a \in Nat, n \in Int : w = From(r) /\ a = Amt(r) /\ n = -a
    BY <1>2
  <2>3. /\ Abstract!Unused(r) /\ UNCHANGED transfers
        /\ events' = events \cup {NewEvent(r, "FundsWithdrawn", w, a)}
        /\ balance' = [balance EXCEPT ![w] = balance[w] - a]
    BY <2>1, <2>2 DEF Abstract!Withdraw, Abstract!Record, Abstract!NewEvent, NewEvent
  <2>4. n = Effect(NewEvent(r, "FundsWithdrawn", w, a))
    BY <2>2, EffectOfNew
  <2>5. ~IsTransfer(r)
    BY <1>4 DEF IsTransfer
  <2>6. PICK type \in {"FundsDeposited", "FundsWithdrawn"} : type = "FundsWithdrawn"
    OBVIOUS
  <2>7. balance' = [balance EXCEPT ![w] = balance[w] + n]
    <3>1. balance[w] - a = balance[w] + n
      BY <2>2, BalancedTypes
    <3> QED BY <2>3, <3>1
  <2> QED BY <2>3, <2>4, <2>5, <2>6, <2>7, ExternalAddsUp
<1>5. CASE IsTransfer(r) /\ WillTransfer(r)
  BY <1>1, <1>2, <1>5, TransferEffect, TransferAddsUp
<1>6. CASE phase[r] = "comp" /\ WillCompensate(r)
  <2>1. IsTransfer(r)
    BY <1>6 DEF Balanced
  <2> QED BY <1>1, <1>6, <2>1, CompensateEffect, CompensationAddsUp
<1>7. CASE WillDoNothing(r)
  BY <1>1, <1>7, NothingEffect, SumsStay
<1> QED BY <1>1, <1>3, <1>4, <1>5, <1>6, <1>7 DEF WillCommit

\* A COMMIT leaves finitely many rows of transfers.
LEMMA CommitFinite ==
  ASSUME Balanced, NEW r \in Requests, pc[r] = "commit", WriteBack(r)
  PROVE  IsFiniteSet(transfers')
<1>1. WillCommit(r)
  BY DEF Balanced, Books, Accounts, Prepared
<1>2. IsFiniteSet(tx[r].rows)
  <2>1. tx[r].rows = {} \/ \E x : tx[r].rows = {x}
    BY <1>1 DEF WillCommit, WillDeposit, WillWithdraw, WillTransfer, WillCompensate,
                WillDoNothing
  <2> QED BY <2>1, FS_EmptySet, FS_Singleton
<1>3. IsFiniteSet({t \in transfers : \A u \in tx[r].rows : u.id # t.id})
  BY FS_Subset DEF Balanced
<1> QED BY <1>2, <1>3, FS_Union DEF WriteBack

-----------------------------------------------------------------------------
(* Balanced is an inductive invariant *)

\* Nothing has happened to the opening balances and to the seeded rows.
LEMMA InitBalanced == Init => Balanced
<1> SUFFICES ASSUME Init PROVE Balanced
  OBVIOUS
<1>1. /\ Books /\ IsFiniteSet(events) /\ IsFiniteSet(transfers)
      /\ \A r \in Requests : phase[r] = "comp" => IsTransfer(r)
  BY InitBooks, FS_EmptySet, WalletAuditAssumption DEF Init
<1>2. balance = Abstract!OpeningBalance /\ transfers = SeedTransfers
  BY DEF Init, Abstract!OpeningBalance
<1>3. /\ \A w \in Wallets : {e \in events : e.wallet = w} = {}
      /\ {e \in events : External(e)} = {}
  BY DEF Init
<1>4. Abstract!OpeningBalance \in [Wallets -> Int]
  BY WalletLedgerAssumption, WalletTypesAssumption DEF Abstract!OpeningBalance
<1>5. AuditTrail
  BY <1>2, <1>3, <1>4, NetOfNothing DEF AuditTrail
<1>6. MoneyConserved
  <2>1. PICK o \in Int, s \in Int :
          o = SumFunction(Abstract!OpeningBalance) /\ s = InFlight(SeedTransfers)
    BY <1>4, SumType, InFlightType, WalletAuditAssumption, WalletLedgerAssumption
       DEF SumFunction
  <2>2. o + s = o + s + 0
    OBVIOUS
  <2> QED BY <1>2, <1>3, <2>1, <2>2, NetOfNothing DEF MoneyConserved
<1> QED BY <1>1, <1>5, <1>6 DEF Balanced

\* Every step keeps the sums.
LEMMA NextBalanced == Balanced /\ [Next]_vars => Balanced'
<1> SUFFICES ASSUME Balanced, [Next]_vars PROVE Balanced'
  OBVIOUS
<1>1. Books /\ Books' /\ Shape'
  BY NextBooks DEF Balanced, Books, Fresh
<1>2. UNCHANGED cmd
  BY DEF Next, Step, Refuse, Accept, Fail, Drop, BeginFails, LoseAnswer, Connect,
         ReadLocked, Miss, Insert, Deposit, Withdraw, InitiateTransfer, MoveFunds,
         Compensate, Commit, Rollback, Release, Quiet, vars
<1>3. ASSUME NEW q \in Requests, phase'[q] = "comp"
      PROVE  IsTransfer(q)'
  <2>1. phase \in [Requests -> {"main", "comp"}]
    BY <1>1 DEF Books, Fresh, Shape, TypeOK
  <2>2. \/ UNCHANGED phase
        \/ \E r \in Requests : IsTransfer(r) /\ phase' = [phase EXCEPT ![r] = "comp"]
    BY DEF Next, Step, Refuse, Accept, Fail, Drop, BeginFails, LoseAnswer, Connect,
           ReadLocked, Miss, Insert, Deposit, Withdraw, InitiateTransfer, MoveFunds,
           Compensate, Commit, Rollback, Release, Quiet, vars
  <2> QED BY <1>2, <1>3, <2>1, <2>2 DEF Balanced, IsTransfer
<1>4. IsFiniteSet(events') /\ IsFiniteSet(transfers') /\ AuditTrail' /\ MoneyConserved'
  <2>1. ASSUME NEW r \in Requests, Commit(r) \/ LoseAnswer(r)
        PROVE  IsFiniteSet(events') /\ IsFiniteSet(transfers') /\ AuditTrail' /\ MoneyConserved'
    <3>1. pc[r] = "commit" /\ WriteBack(r)
      BY <2>1 DEF Commit, LoseAnswer
    <3> QED BY <1>1, <1>2, <3>1, CommitAddsUp, CommitFinite
  <2>2. CASE UNCHANGED Abstract!vars
    BY <1>2, <2>2, SumsStay DEF Abstract!vars, Balanced
  <2>3. CASE Quiet \/ UNCHANGED vars
    BY <2>2, <2>3 DEF Quiet, vars, Abstract!vars
  <2> QED BY <2>1, <2>2, <2>3, OtherStepsStutter DEF Next
<1> QED BY <1>1, <1>3, <1>4 DEF Balanced

\* Balanced holds in every reachable state.
LEMMA BalancedHolds == Spec => []Balanced
BY InitBalanced, NextBalanced, PTL DEF Spec

\* The audit log explains the balances: at every moment each of them is its
\* opening balance and what the events of its wallet say, whatever commands
\* overlap, fail, compensate or lose their answer.
THEOREM TrailExplainsBalances == Spec => []AuditTrail
<1>1. Balanced => AuditTrail
  BY DEF Balanced
<1> QED BY <1>1, BalancedHolds, PTL

\* Money is conserved: balances and debited transfers together change by what
\* external deposits and withdrawals bring and take, and by nothing else.
THEOREM MoneyIsConserved == Spec => []MoneyConserved
<1>1. Balanced => MoneyConserved
  BY DEF Balanced
<1> QED BY <1>1, BalancedHolds, PTL
=============================================================================
