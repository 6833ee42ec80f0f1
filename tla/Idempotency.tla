---------------------------- MODULE Idempotency ----------------------------
(***************************************************************************)
(* Idempotency keys: the deposit, withdraw and transfer handlers of        *)
(* WalletController with IdempotencyService around the wallet command, and *)
(* the hourly IdempotencyCleanupService.                                   *)
(*                                                                         *)
(* The three handlers have one shape: get, begin, command, finalize,       *)
(* answer.  Each statement of the repository is an action, because other   *)
(* requests, of this instance or of another, run between two statements,   *)
(* and a fault may strike after any of them.  The command itself is one    *)
(* step, as WalletLedger shows it to be.                                   *)
(***************************************************************************)
EXTENDS Integers, FiniteSets

CONSTANTS
  Keys,        \* idempotency keys
  Payloads,    \* payload hashes
  Transfers,   \* those of transfers: the hash covers the path of the request
  Requests,    \* HTTP requests
  SerialKeys,  \* keys on which clients send a request after the last one ended,
               \* and which live longer than its handler runs
  MaxFaults    \* bound on injected faults

ASSUME IdempotencyAssumption ==
  /\ SerialKeys \subseteq Keys
  /\ Transfers \subseteq Payloads
  /\ "none" \notin Requests \* what stands for no request
  /\ MaxFaults \in Nat

Absent == [status |-> "absent", hash |-> "none", body |-> "none"]

\* A row of idempotency_keys.  A stored response is identified by the request
\* whose command returned it.  No code path writes the status "failed".
Row == [status : {"processing", "completed"}, hash : Payloads,
        body : Requests \cup {"none"}]

VARIABLES
  row,       \* row[k]: the row of key k, or Absent
  expired,   \* keys whose updatedAt is older than the time to live
  req,       \* req[q]: key and payload of request q
  pc,        \* pc[q]: where the handler of q is
  seen,      \* seen[q]: what the SELECT made by save() returned to q
  reply,     \* reply[q]: what the client of q has been told
  committed, \* requests whose command took effect
  failed,    \* requests whose transfer returned the status 'failed', without effect
  counted,   \* counted[k]: requests whose command took effect or returned since
             \* the row of k was last cleaned up
  disturbed, \* requests that overlapped another one of their key, or whose row
             \* was cleaned up before they were answered
  faults     \* number of faults injected

vars == <<row, expired, req, pc, seen, reply, committed, failed, counted, disturbed, faults>>

Key(q) == req[q].key
Hash(q) == req[q].hash

\* q has been received and its handler has not ended.
InFlight(q) == pc[q] \notin {"idle", "done"}

NoReply == [code |-> "none", body |-> "none"]
Ok(b) == [code |-> "ok", body |-> b]
Error(c) == [code |-> c, body |-> "none"]

Goto(q, l) == pc' = [pc EXCEPT ![q] = l]

\* The handler of q ends with the answer a.
End(q, a) ==
  /\ Goto(q, "done")
  /\ reply' = [reply EXCEPT ![q] = a]

Init ==
  /\ row = [k \in Keys |-> Absent]
  /\ expired = {}
  /\ req \in [Requests -> [key : Keys, hash : Payloads]]
  /\ pc = [q \in Requests |-> "idle"]
  /\ seen = [q \in Requests |-> Absent]
  /\ reply = [q \in Requests |-> NoReply]
  /\ committed = {}
  /\ failed = {}
  /\ counted = [k \in Keys |-> {}]
  /\ disturbed = {}
  /\ faults = 0

-----------------------------------------------------------------------------
(* The handlers *)

\* Nothing is in flight on a key that is used serially.
Free(k) == k \in SerialKeys => \A q \in Requests : Key(q) = k => ~InFlight(q)

Receive(q) ==
  LET others == {p \in Requests : Key(p) = Key(q) /\ InFlight(p)} IN
  /\ pc[q] = "idle"
  /\ Free(Key(q))
  /\ Goto(q, "get")
  /\ disturbed' = disturbed \cup others \cup {p \in {q} : others # {}}
  /\ UNCHANGED <<row, expired, req, seen, reply, committed, failed, counted, faults>>

\* The key was used with a different payload.
MutMismatch(q) == FALSE
Mismatch(q) == row[Key(q)] # Absent /\ row[Key(q)].hash # Hash(q)

\* get(): refuses another payload, replays a stored response, or goes on.
Get(q) ==
  /\ pc[q] = "get"
  /\ \/ Mismatch(q) /\ End(q, Error("mismatch"))
     \/ /\ ~Mismatch(q)
        /\ row[Key(q)].status = "completed"
        /\ End(q, Ok(row[Key(q)].body))
     \/ /\ ~Mismatch(q)
        /\ row[Key(q)].status # "completed"
        /\ Goto(q, "begin")
        /\ UNCHANGED reply
  /\ UNCHANGED <<row, expired, req, seen, committed, failed, counted, disturbed, faults>>

\* begin(): the findOne and the checks on what it returns.
MutBegin(q) ==
  /\ pc[q] = "begin"
  /\ \/ Mismatch(q) /\ End(q, Error("mismatch"))
     \/ /\ ~Mismatch(q)
        /\ Goto(q, "select")
        /\ UNCHANGED reply
  /\ UNCHANGED <<row, expired, req, seen, committed, failed, counted, disturbed, faults>>
Begin(q) ==
  /\ pc[q] = "begin"
  /\ \/ Mismatch(q) /\ End(q, Error("mismatch"))
     \/ /\ ~Mismatch(q) /\ row[Key(q)] # Absent
        /\ End(q, Error(row[Key(q)].status))
     \/ /\ ~Mismatch(q) /\ row[Key(q)] = Absent
        /\ Goto(q, "select")
        /\ UNCHANGED reply
  /\ UNCHANGED <<row, expired, req, seen, committed, failed, counted, disturbed, faults>>

\* begin(): save() first selects the row by its primary key ...
SaveSelect(q) ==
  /\ pc[q] = "select"
  /\ seen' = [seen EXCEPT ![q] = row[Key(q)]]
  /\ Goto(q, "write")
  /\ UNCHANGED <<row, expired, req, reply, committed, failed, counted, disturbed, faults>>

\* The record begin() saves; responseBody is initialized to null.
NewRow(q) == [status |-> "processing", hash |-> Hash(q), body |-> "none"]

\* The columns of the row that differ from what save() has selected.
MutChanged(q, old) == [NewRow(q) EXCEPT !.body = old.body]
Changed(q, old) ==
  [f \in DOMAIN old |-> IF seen[q][f] = NewRow(q)[f] THEN old[f] ELSE NewRow(q)[f]]

\* ... then inserts it, which fails when it exists by now, or updates the
\* columns that have changed, which does nothing when it is gone by now.
Conflict(q) == seen[q] = Absent /\ row[Key(q)] # Absent

Save(q) ==
  LET k == Key(q) IN
  /\ row' = [row EXCEPT ![k] =
               CASE seen[q] = Absent -> NewRow(q)
                 [] seen[q] # Absent /\ @ # Absent -> Changed(q, @)
                 [] OTHER -> @]
  /\ expired' = expired \ {k}

SaveWrite(q) ==
  /\ pc[q] = "write"
  /\ \/ Conflict(q) /\ End(q, Error("error")) /\ UNCHANGED <<row, expired>>
     \/ ~Conflict(q) /\ Goto(q, "command") /\ Save(q) /\ UNCHANGED reply
  /\ seen' = [seen EXCEPT ![q] = Absent]
  /\ UNCHANGED <<req, committed, failed, counted, disturbed, faults>>

Count(q) == counted' = [counted EXCEPT ![Key(q)] = @ \cup {q}]

TakeEffect(q) ==
  /\ committed' = committed \cup {q}
  /\ Count(q)

\* The wallet command takes effect and returns: also when a failing transfer
\* compensates a debited one and returns the status 'compensated'.
Commit(q) ==
  /\ pc[q] = "command"
  /\ TakeEffect(q)
  /\ Goto(q, "finalize")
  /\ UNCHANGED <<row, expired, req, seen, reply, failed, disturbed, faults>>

\* A transfer that fails for want of funds, or for an error after which the
\* database still answers, does not throw: it returns the status 'failed', and
\* the handler goes on as after a success.
FailTransfer(q) ==
  /\ pc[q] = "command"
  /\ Hash(q) \in Transfers
  /\ failed' = failed \cup {q}
  /\ Count(q)
  /\ Goto(q, "finalize")
  /\ UNCHANGED <<row, expired, req, seen, reply, committed, disturbed, faults>>

\* The wallet command throws, a deposit or withdrawal for funds or an error, a
\* transfer that is invalid or cannot compensate: nothing records that it did.
MutReject(q) ==
  /\ pc[q] = "command"
  /\ End(q, Error("error"))
  /\ row' = [row EXCEPT ![Key(q)] =
               [status |-> "completed", hash |-> Hash(q), body |-> q]]
  /\ UNCHANGED <<expired, req, seen, committed, failed, counted, disturbed, faults>>
Reject(q) ==
  /\ pc[q] = "command"
  /\ End(q, Error("error"))
  /\ UNCHANGED <<row, expired, req, seen, committed, failed, counted, disturbed, faults>>

\* finalize(): an UPDATE by key alone, whoever wrote the row.
Complete(q) ==
  LET k == Key(q) IN
  /\ row' = [row EXCEPT ![k] =
               IF @ = Absent THEN @ ELSE [@ EXCEPT !.status = "completed", !.body = q]]
  /\ expired' = expired \ {k}

MutFinalize(q) ==
  /\ pc[q] = "finalize"
  /\ Goto(q, "answer")
  /\ UNCHANGED <<row, expired, req, seen, reply, committed, failed, counted, disturbed, faults>>
Finalize(q) ==
  /\ pc[q] = "finalize"
  /\ Complete(q)
  /\ Goto(q, "answer")
  /\ UNCHANGED <<req, seen, reply, committed, failed, counted, disturbed, faults>>

\* The response is sent and reaches the client.
Answer(q) ==
  /\ pc[q] = "answer"
  /\ End(q, Ok(q))
  /\ UNCHANGED <<row, expired, req, seen, committed, failed, counted, disturbed, faults>>

\* A statement fails or the process dies.  The statement may have been carried
\* out, only its answer being lost; at "answer" only the response is.
Fault(q) ==
  /\ faults < MaxFaults
  /\ InFlight(q)
  /\ faults' = faults + 1
  /\ End(q, Error("error"))
  /\ \/ UNCHANGED <<row, expired, committed, counted>>
     \/ /\ pc[q] = "write" /\ ~Conflict(q)
        /\ Save(q)
        /\ UNCHANGED <<committed, counted>>
     \/ /\ pc[q] = "command"
        /\ TakeEffect(q)
        /\ UNCHANGED <<row, expired>>
     \/ /\ pc[q] = "finalize"
        /\ Complete(q)
        /\ UNCHANGED <<committed, counted>>
  /\ seen' = [seen EXCEPT ![q] = Absent]
  /\ UNCHANGED <<req, failed, disturbed>>

-----------------------------------------------------------------------------
(* Cleanup *)

\* The time to live passes after the last update of the row.
Expire(k) ==
  /\ row[k] # Absent /\ k \notin expired
  /\ Free(k)
  /\ expired' = expired \cup {k}
  /\ UNCHANGED <<row, req, pc, seen, reply, committed, failed, counted, disturbed, faults>>

\* q has saved its row and is not answered yet.
Holds(q) == pc[q] \in {"command", "finalize", "answer"}

\* cleanupExpired: one DELETE, whatever the status of the rows.
MutCleanup ==
  /\ row' = [k \in Keys |-> Absent]
  /\ counted' = [k \in Keys |-> {}]
  /\ disturbed' = disturbed \cup {q \in Requests : Holds(q)}
  /\ expired' = {}
  /\ UNCHANGED <<req, pc, seen, reply, committed, failed, faults>>
Cleanup ==
  /\ expired # {}
  /\ row' = [k \in Keys |-> IF k \in expired THEN Absent ELSE row[k]]
  /\ counted' = [k \in Keys |-> IF k \in expired THEN {} ELSE counted[k]]
  /\ disturbed' = disturbed \cup {q \in Requests : Key(q) \in expired /\ Holds(q)}
  /\ expired' = {}
  /\ UNCHANGED <<req, pc, seen, reply, committed, failed, faults>>

-----------------------------------------------------------------------------
\* Every request has ended; the service waits for more.
Quiet == (\A q \in Requests : pc[q] = "done") /\ UNCHANGED vars

Next ==
  \/ \E q \in Requests :
       \/ Receive(q) \/ Get(q) \/ Begin(q) \/ SaveSelect(q) \/ SaveWrite(q)
       \/ Commit(q) \/ FailTransfer(q) \/ Reject(q)
       \/ Finalize(q) \/ Answer(q) \/ Fault(q)
  \/ \E k \in Keys : Expire(k)
  \/ Cleanup
  \/ Quiet

Spec == Init /\ [][Next]_vars

-----------------------------------------------------------------------------
(* Properties *)

\* The type invariant; a row has a response exactly when it is completed,
\* although save() writes single columns of rows that others have changed.
TypeOK ==
  /\ row \in [Keys -> Row \cup {Absent}]
  /\ \A k \in Keys : row[k].status = "completed" <=> row[k].body # "none"
  /\ expired \subseteq {k \in Keys : row[k] # Absent}
  /\ req \in [Requests -> [key : Keys, hash : Payloads]]
  /\ pc \in [Requests -> {"idle", "get", "begin", "select", "write", "command",
                          "finalize", "answer", "done"}]
  /\ seen \in [Requests -> Row \cup {Absent}]
  /\ reply \in [Requests ->
       [code : {"none", "ok", "error", "mismatch", "processing", "completed"},
        body : Requests \cup {"none"}]]
  /\ committed \subseteq Requests /\ failed \subseteq Requests
  /\ counted \in [Keys -> SUBSET (committed \cup failed)]
  /\ disturbed \subseteq Requests
  /\ faults \in Nat

\* What a key promises rests on its requests being handled one by one: this
\* one was, as all of a key that is used serially are.
Undisturbed(b) == Key(b) \in SerialKeys \/ b \notin disturbed

\* The commands that took effect under k since its row was last cleaned up.
Payers(k) == counted[k] \cap committed

\* A key pays once: until its row is cleaned up, no second command takes effect
\* under it, whatever failed, lost its answer and was retried in between, except
\* one that overlapped another request or whose row was cleaned up under it.
AtMostOnce == \A k \in Keys : Cardinality({b \in Payers(k) : Undisturbed(b)}) <= 1

\* Every key pays once: "duplicate-safe across instances" (README.md:45).
DuplicateSafe == \A k \in Keys : Cardinality(Payers(k)) <= 1

\* An answer is true: a client that is given a response, first-hand or from the
\* store, is given one of its key, that of a command which took effect, or that
\* of a transfer which failed and took none.
AnswersHaveEffects ==
  \A q \in Requests : reply[q].code = "ok" =>
    /\ Key(reply[q].body) = Key(q)
    /\ reply[q].body \in committed \cup failed
    /\ reply[q].body \notin committed \cap failed

\* ... and that of a command with its own payload, unless this command was
\* disturbed: begin() and save() of overlapping requests write one row together.
AnswersMatchPayload ==
  \A q \in Requests : reply[q].code = "ok" /\ Undisturbed(reply[q].body) =>
    Hash(reply[q].body) = Hash(q)

\* Clients of a key are told the same: once one has been told of the outcome of
\* an undisturbed command, that outcome is the one stored for the others until
\* it is cleaned up, whoever finalizes by key alone or saves what it selected.
OneOutcome ==
  \A q \in Requests : LET b == reply[q].body IN
    reply[q].code = "ok" /\ b \in counted[Key(q)] /\ Undisturbed(b) =>
      row[Key(q)].status = "completed" /\ row[Key(q)].body = b

\* A client refused because its "Request is already processing"
\* (idempotency.service.ts:50) is refused while another one is.
ProcessingIsTrue ==
  [][\A q \in Requests :
       reply[q] = NoReply /\ reply'[q] = Error("processing") =>
         \E p \in Requests \ {q} : Key(p) = Key(q) /\ InFlight(p)]_vars
-----------------------------------------------------------------------------
Serial == {q \in Requests : Key(q) \in SerialKeys}

\* What the abstract keys see: the outcomes that count, the requests in flight
\* and the answered ones, and what each client has been told: that the command
\* failed, or that it did not.
OutcomeOf ==
  [k \in SerialKeys |-> {[of |-> b, paid |-> b \in committed] : b \in counted[k]}]
OpenNow == {q \in Serial : InFlight(q)}
EndedNow == {q \in Serial : pc[q] = "done"}
ToldTo ==
  [q \in Requests |->
     {[of |-> b, paid |-> b \notin failed] :
        b \in {reply[p].body : p \in {q} \cap {p \in Serial : reply[p].code = "ok"}}}]

Outcomes == INSTANCE KeyedOutcomes
              WITH outcome <- OutcomeOf, open <- OpenNow, ended <- EndedNow, told <- ToldTo

\* The statements of a handler, interleaved with retries, faults, lost answers
\* and the cleanup, implement a key under which one command runs to an outcome.
ImplementsOutcomes == Outcomes!Spec
=============================================================================
