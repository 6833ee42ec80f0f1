------------------------- MODULE IdempotencyProofs -------------------------
(***************************************************************************)
(* Proofs about Idempotency for every set of keys, payloads and requests   *)
(* and every number of faults.                                             *)
(*                                                                         *)
(* Two inductive invariants, one on top of the other.  Stored is about     *)
(* every request: what a row stores and what a client is told is what a    *)
(* command of the key returned.  Keyed adds what only requests that were   *)
(* not disturbed can rely on: while such a handler is past begin() the row *)
(* is absent or its own, and of what counts under a key its command is the *)
(* only undisturbed one, the one whose response the row stores.            *)
(***************************************************************************)
EXTENDS Idempotency, FiniteSetTheorems, TLAPS

\* Where the handler of a request is before its command has returned.
Early == {"idle", "get", "begin", "select", "write", "command"}

\* A record has a response exactly when it is completed.
Consistent(s) == s.status = "completed" <=> s.body # "none"

\* The command of b returned, and its handler is past finalize().
Stable(b) ==
  /\ pc[b] \in {"answer", "done"}
  /\ b \in committed \cup failed

\* What a request has been told, and what has become of it, by where it is.
RequestShape(q) ==
  /\ Consistent(seen[q])
  /\ q \notin committed \cap failed
  /\ pc[q] \in Early => q \notin committed \cup failed
  /\ pc[q] \in {"finalize", "answer"} => q \in committed \cup failed
  /\ pc[q] # "done" => reply[q] = NoReply
  /\ pc[q] = "done" => reply[q].code # "none"
  /\ reply[q].code = "ok" => Key(reply[q].body) = Key(q) /\ Stable(reply[q].body)

\* The response a row stores is what a command returned under its key.
StoreShape(k) ==
  /\ row[k].body # "none" => Key(row[k].body) = k /\ Stable(row[k].body)
  /\ \A b \in counted[k] : Key(b) = k

Stored ==
  /\ TypeOK
  /\ \A q \in Requests : RequestShape(q)
  /\ \A k \in Keys : StoreShape(k)

\* The part of TypeOK about the table.
RowsTyped ==
  /\ row \in [Keys -> Row \cup {Absent}]
  /\ \A k \in Keys : Consistent(row[k])
  /\ expired \subseteq {k \in Keys : row[k] # Absent}

\* What a handler may answer.
Response ==
  [code : {"none", "ok", "error", "mismatch", "processing", "completed"},
   body : Requests \cup {"none"}]

Places == Early \cup {"finalize", "answer", "done"}

-----------------------------------------------------------------------------
(* What every action relies on *)

\* "none" is the name of no request, so an absent record has no response.
LEMMA NoneIsNoRequest == "none" \notin Requests
BY IdempotencyAssumption

\* A request names a key and a payload.
LEMMA RequestType ==
  ASSUME TypeOK, NEW q \in Requests
  PROVE  Key(q) \in Keys /\ Hash(q) \in Payloads
BY DEF TypeOK, Key, Hash

\* The type invariant, part by part.
LEMMA TypeParts ==
  TypeOK <=> /\ RowsTyped
             /\ req \in [Requests -> [key : Keys, hash : Payloads]]
             /\ pc \in [Requests -> Places]
             /\ seen \in [Requests -> Row \cup {Absent}]
             /\ reply \in [Requests -> Response]
             /\ committed \subseteq Requests /\ failed \subseteq Requests
             /\ counted \in [Keys -> SUBSET (committed \cup failed)]
             /\ disturbed \subseteq Requests
             /\ faults \in Nat
BY DEF TypeOK, RowsTyped, Consistent, Places, Early, Response

\* The record begin() saves is a row that has no response.
LEMMA NewRowType ==
  ASSUME TypeOK, NEW q \in Requests
  PROVE  NewRow(q) \in Row /\ Consistent(NewRow(q))
BY RequestType DEF NewRow, Row, Consistent

\* save() writes single columns, and a row stays a row whose status and response
\* agree: the record it compares with was consistent when it was selected.
LEMMA ChangedType ==
  ASSUME TypeOK, NEW q \in Requests, NEW old \in Row,
         Consistent(old), seen[q] \in Row, Consistent(seen[q])
  PROVE  /\ Changed(q, old) \in Row
         /\ Consistent(Changed(q, old))
         /\ Changed(q, old).body \in {old.body, "none"}
<1> DEFINE new(f) == IF seen[q][f] = NewRow(q)[f] THEN old[f] ELSE NewRow(q)[f]
<1>1. DOMAIN old = {"status", "hash", "body"}
  BY DEF Row
<1>2. Changed(q, old) = [f \in {"status", "hash", "body"} |-> new(f)]
  BY <1>1 DEF Changed
<1>3. Changed(q, old) = [status |-> new("status"), hash |-> new("hash"), body |-> new("body")]
  BY <1>2
<1>4. new("status") \in {"processing", "completed"} /\ new("hash") \in Payloads
  BY RequestType DEF NewRow, Row
<1>5. new("body") \in Requests \cup {"none"} /\ new("body") \in {old.body, "none"}
  BY DEF NewRow, Row
<1>6. new("status") = "completed" <=> new("body") # "none"
  BY DEF NewRow, Row, Consistent
<1> QED BY <1>3, <1>4, <1>5, <1>6 DEF Row, Consistent

\* The write of save() leaves rows that agree with themselves, gives no row a
\* response it did not have, and removes none.
LEMMA SaveRows ==
  ASSUME Stored, NEW q \in Requests, Save(q), ~Conflict(q)
  PROVE  /\ RowsTyped'
         /\ \A k \in Keys : row'[k].body \in {row[k].body, "none"}
<1> DEFINE k == Key(q)
<1>1. k \in Keys /\ RowsTyped
  BY RequestType, TypeParts DEF Stored
<1>2. PICK new : /\ row' = [row EXCEPT ![k] = new]
                 /\ \/ seen[q] = Absent /\ new = NewRow(q)
                    \/ seen[q] # Absent /\ row[k] # Absent /\ new = Changed(q, row[k])
                    \/ seen[q] # Absent /\ row[k] = Absent /\ new = row[k]
  BY <1>1 DEF Save, RowsTyped
<1>3. /\ new \in Row \cup {Absent} /\ Consistent(new)
      /\ new.body \in {row[k].body, "none"}
      /\ new = Absent => row[k] = Absent
  <2>1. CASE seen[q] = Absent /\ new = NewRow(q)
    <3>1. new \in Row /\ Consistent(new)
      BY <2>1, NewRowType DEF Stored
    <3> QED BY <2>1, <3>1 DEF NewRow, Row, Absent
  <2>2. CASE seen[q] # Absent /\ row[k] # Absent /\ new = Changed(q, row[k])
    <3>1. row[k] \in Row /\ Consistent(row[k]) /\ seen[q] \in Row /\ Consistent(seen[q])
      BY <1>1, <2>2 DEF Stored, TypeOK, RequestShape, RowsTyped
    <3>2. new \in Row
      BY <2>2, <3>1, ChangedType DEF Stored
    <3> QED BY <2>2, <3>1, <3>2, ChangedType DEF Stored, Row, Absent
  <2>3. CASE seen[q] # Absent /\ row[k] = Absent /\ new = row[k]
    BY <1>1, <2>3 DEF RowsTyped
  <2> QED BY <1>2, <2>1, <2>2, <2>3
<1>4. expired' = expired \ {k}
  BY DEF Save
<1> QED BY <1>1, <1>2, <1>3, <1>4 DEF RowsTyped, Consistent

\* The UPDATE of finalize() stores a response in the row of q, if it is there.
LEMMA CompleteRows ==
  ASSUME Stored, NEW q \in Requests, Complete(q)
  PROVE  /\ RowsTyped'
         /\ \A k \in Keys : row'[k].body \in {row[k].body, q}
                            /\ (k # Key(q) => row'[k].body = row[k].body)
<1> DEFINE k == Key(q)
<1>1. k \in Keys /\ RowsTyped
  BY RequestType, TypeParts DEF Stored
<1>2. row' = [row EXCEPT ![k] =
                IF @ = Absent THEN @ ELSE [@ EXCEPT !.status = "completed", !.body = q]]
      /\ expired' = expired \ {k}
  BY DEF Complete
<1>3. CASE row[k] = Absent
  <2>1. row' = row
    BY <1>1, <1>2, <1>3 DEF RowsTyped
  <2> QED BY <1>1, <1>2, <2>1 DEF RowsTyped, Consistent
<1>4. CASE row[k] # Absent
  <2> DEFINE new == [row[k] EXCEPT !.status = "completed", !.body = q]
  <2>1. row[k] \in Row
    BY <1>1, <1>4 DEF RowsTyped
  <2>2. new \in Row /\ new.status = "completed" /\ new.body = q
    BY <2>1 DEF Row
  <2>3. Consistent(new) /\ new # Absent
    BY <2>2, NoneIsNoRequest DEF Consistent, Absent
  <2>4. row' = [row EXCEPT ![k] = new]
    BY <1>2, <1>4
  <2> HIDE DEF new
  <2> QED BY <1>1, <1>2, <2>2, <2>3, <2>4 DEF RowsTyped, Consistent
<1> QED BY <1>3, <1>4

\* Init gives the invariant.
LEMMA InitStored == Init => Stored
<1> SUFFICES ASSUME Init PROVE Stored
  OBVIOUS
<1> USE DEF Init, Absent, NoReply
<1>1. TypeOK
  BY DEF TypeOK
<1>2. ASSUME NEW q \in Requests PROVE RequestShape(q)
  BY DEF RequestShape, Consistent, Early
<1>3. ASSUME NEW k \in Keys PROVE StoreShape(k)
  BY DEF StoreShape
<1> QED BY <1>1, <1>2, <1>3 DEF Stored

-----------------------------------------------------------------------------
(* Every action keeps it *)

\* A command that returned has returned, and a handler past finalize() stays so.
LEMMA StableStays ==
  ASSUME Stored, NEW q \in Requests, pc[q] # "done",
         NEW l, pc' = [pc EXCEPT ![q] = l], pc[q] = "answer" => l = "done",
         committed \subseteq committed', failed \subseteq failed',
         NEW b \in Requests, Stable(b)
  PROVE  Stable(b)'
BY DEF Stable, Stored, TypeOK

\* A step of q keeps the invariant when it leaves alone what the others were
\* told and have selected, its own shape holds afterwards, no row is given a
\* response but that of q, and nothing else is counted.
LEMMA StepStored ==
  ASSUME Stored, NEW q \in Requests, pc[q] # "done",
         NEW l, pc' = [pc EXCEPT ![q] = l], pc[q] = "answer" => l = "done",
         req' = req,
         committed' \in {committed, committed \cup {q}},
         failed' \in {failed, failed \cup {q}},
         \A p \in Requests \ {q} : reply'[p] = reply[p] /\ seen'[p] = seen[p],
         TypeOK', RequestShape(q)',
         \A k \in Keys : \/ row'[k].body \in {row[k].body, "none"}
                         \/ row'[k].body = q /\ Key(q) = k /\ Stable(q)',
         \A k \in Keys : \A b \in counted'[k] : b \in counted[k] \/ (b = q /\ Key(q) = k)
  PROVE  Stored'
<1>1. \A p \in Requests : Key(p)' = Key(p)
  BY DEF Key
<1>2. \A b \in Requests : Stable(b) => Stable(b)'
  BY StableStays
<1>3. ASSUME NEW p \in Requests \ {q} PROVE RequestShape(p)'
  <2>1. RequestShape(p) /\ pc'[p] = pc[p] /\ reply[p] \in Response
    BY TypeParts DEF Stored
  <2>2. reply[p].code = "ok" => reply[p].body \in Requests
    BY <2>1 DEF RequestShape, Stable, Response, Stored, TypeOK
  <2>3. /\ p \in committed' <=> p \in committed
        /\ p \in failed' <=> p \in failed
    OBVIOUS
  <2> QED BY <1>1, <1>2, <2>1, <2>2, <2>3 DEF RequestShape
<1>4. ASSUME NEW k \in Keys PROVE StoreShape(k)'
  <2>1. StoreShape(k) /\ counted[k] \subseteq Requests
    BY DEF Stored, TypeOK
  <2>2. row[k].body # "none" => row[k].body \in Requests
    BY <2>1 DEF StoreShape, Stable, Stored, TypeOK
  <2>3. PICK b : b = row'[k].body
    OBVIOUS
  <2>4. b # "none" => Key(b)' = k /\ Stable(b)'
    BY <1>1, <1>2, <2>1, <2>2, <2>3 DEF StoreShape
  <2>5. \A x \in counted'[k] : Key(x)' = k
    BY <1>1, <2>1 DEF StoreShape
  <2> QED BY <2>3, <2>4, <2>5 DEF StoreShape, Key, Stable
<1> QED BY <1>3, <1>4 DEF Stored

\* A request that ends with an answer keeps its shape, when a response it is
\* given is what a command of its key returned.
LEMMA EndShape ==
  ASSUME Stored, NEW q \in Requests, NEW a \in Response, End(q, a),
         a.code # "none",
         a.code = "ok" => Key(a.body) = Key(q) /\ Stable(a.body)',
         req' = req, seen'[q] \in {seen[q], Absent},
         q \notin committed' \cap failed'
  PROVE  RequestShape(q)'
<1>1. pc'[q] = "done" /\ reply'[q] = a
  BY DEF End, Goto, Stored, TypeOK
<1>2. Consistent(seen'[q])
  BY DEF Stored, RequestShape, Consistent, Absent
<1> QED BY <1>1, <1>2 DEF RequestShape, Early, Key

\* q goes on to l with no answer, having changed nothing but perhaps what it
\* has selected.
LEMMA ProceedStored ==
  ASSUME Stored, NEW q \in Requests, pc[q] # "done",
         NEW l \in {"get", "begin", "select", "write"}, Goto(q, l),
         pc[q] \in Early,
         NEW s \in Row \cup {Absent}, Consistent(s), seen' = [seen EXCEPT ![q] = s],
         disturbed' \subseteq Requests,
         UNCHANGED <<row, expired, req, reply, committed, failed, counted, faults>>
  PROVE  Stored'
<1>1. TypeOK'
  BY DEF Goto, Stored, TypeOK
<1>2. RequestShape(q)'
  <2>1. reply'[q] = NoReply /\ pc'[q] = l /\ seen'[q] = s
    BY DEF Goto, Stored, TypeOK, RequestShape
  <2>2. q \notin committed' \cup failed'
    BY DEF Stored, RequestShape
  <2> QED BY <2>1, <2>2 DEF RequestShape, NoReply, Early
<1>3. \A p \in Requests \ {q} : reply'[p] = reply[p] /\ seen'[p] = seen[p]
  BY DEF Stored, TypeOK
<1>4. pc' = [pc EXCEPT ![q] = l] /\ pc[q] # "answer"
  BY DEF Goto, Early
<1>5. /\ \A k \in Keys : row'[k].body \in {row[k].body, "none"}
      /\ \A k \in Keys : \A b \in counted'[k] : b \in counted[k]
  OBVIOUS
<1> QED BY <1>1, <1>2, <1>3, <1>4, <1>5, StepStored

\* q ends with the answer a, and nothing else changes.
LEMMA AnswerStored ==
  ASSUME Stored, NEW q \in Requests, pc[q] # "done",
         NEW a \in Response, End(q, a), a.code # "none",
         a.code = "ok" => Key(a.body) = Key(q) /\ Stable(a.body)',
         seen' \in {seen, [seen EXCEPT ![q] = Absent]}, faults' \in Nat,
         UNCHANGED <<row, expired, req, committed, failed, counted, disturbed>>
  PROVE  Stored'
<1>1. TypeOK'
  <2>1. reply' \in [Requests -> Response] /\ pc' \in [Requests -> Places]
    BY TypeParts DEF End, Goto, Stored, Places
  <2>2. seen' \in [Requests -> Row \cup {Absent}] /\ RowsTyped'
    BY TypeParts DEF Stored, RowsTyped, Consistent
  <2> QED BY <2>1, <2>2, TypeParts DEF Stored, TypeOK, RowsTyped, Consistent, Places, Early, Response
<1>2. RequestShape(q)'
  <2>1. seen'[q] \in {seen[q], Absent} /\ q \notin committed' \cap failed'
    BY DEF Stored, TypeOK, RequestShape
  <2> QED BY <2>1, EndShape
<1>3. \A p \in Requests \ {q} : reply'[p] = reply[p] /\ seen'[p] = seen[p]
  BY DEF End, Stored, TypeOK
<1>4. pc' = [pc EXCEPT ![q] = "done"]
  BY DEF End, Goto
<1>5. /\ \A k \in Keys : row'[k].body \in {row[k].body, "none"}
      /\ \A k \in Keys : \A b \in counted'[k] : b \in counted[k]
  OBVIOUS
<1> QED BY <1>1, <1>2, <1>3, <1>4, <1>5, StepStored

\* A refusal is an answer.
LEMMA ErrorType ==
  ASSUME NEW c \in {"error", "mismatch", "processing", "completed"}
  PROVE  Error(c) \in Response /\ Error(c).code \notin {"none", "ok"}
BY DEF Response, Error

\* A response is an answer.
LEMMA OkType ==
  ASSUME NEW b \in Requests
  PROVE  Ok(b) \in Response /\ Ok(b).code = "ok" /\ Ok(b).body = b
BY DEF Response, Ok

\* A request is received.
LEMMA ReceiveStored ==
  ASSUME Stored, NEW q \in Requests, Receive(q)
  PROVE  Stored'
<1>1. seen[q] \in Row \cup {Absent} /\ Consistent(seen[q])
      /\ seen' = [seen EXCEPT ![q] = seen[q]]
  BY DEF Receive, Stored, TypeOK, RequestShape
<1>2. disturbed' \subseteq Requests
  BY DEF Receive, Stored, TypeOK
<1> QED BY <1>1, <1>2, ProceedStored DEF Receive, Early

\* get() answers with what is stored under the key, or goes on.
LEMMA GetStored ==
  ASSUME Stored, NEW q \in Requests, Get(q)
  PROVE  Stored'
<1>1. Key(q) \in Keys /\ row[Key(q)] \in Row \cup {Absent}
  BY RequestType DEF Stored, TypeOK
<1>2. CASE End(q, Error("mismatch"))
  BY <1>2, AnswerStored, ErrorType DEF Get, Stored, TypeOK
<1>3. CASE row[Key(q)].status = "completed" /\ End(q, Ok(row[Key(q)].body))
  <2> DEFINE b == row[Key(q)].body
  <2>1. b \in Requests
    BY <1>1, <1>3 DEF Row, Absent, Stored, TypeOK
  <2>2. Key(b) = Key(q) /\ Stable(b)
    BY <1>1, <2>1, NoneIsNoRequest DEF Stored, StoreShape
  <2>3. PICK x \in Requests : x = b /\ Key(x) = Key(q) /\ Stable(x)
    BY <2>1, <2>2
  <2>4. End(q, Ok(x))
    BY <1>3, <2>3
  <2>5. Stable(x)'
    BY <2>3, <2>4, StableStays DEF Get, End, Goto
  <2> HIDE DEF b
  <2> QED BY <2>3, <2>4, <2>5, OkType, AnswerStored DEF Get, Stored, TypeOK
<1>4. CASE Goto(q, "begin") /\ UNCHANGED reply
  <2>1. seen[q] \in Row \cup {Absent} /\ Consistent(seen[q])
        /\ seen' = [seen EXCEPT ![q] = seen[q]] /\ disturbed' \subseteq Requests
    BY DEF Get, Stored, TypeOK, RequestShape
  <2> QED BY <1>4, <2>1, ProceedStored DEF Get, Early
<1> QED BY <1>2, <1>3, <1>4 DEF Get

\* begin() refuses, or goes on.
LEMMA BeginStored ==
  ASSUME Stored, NEW q \in Requests, Begin(q)
  PROVE  Stored'
<1>1. Key(q) \in Keys /\ row[Key(q)] \in Row \cup {Absent}
  BY RequestType DEF Stored, TypeOK
<1>2. CASE \E c \in {"error", "mismatch", "processing", "completed"} : End(q, Error(c))
  BY <1>2, AnswerStored, ErrorType DEF Begin, Stored, TypeOK
<1>3. CASE Goto(q, "select") /\ UNCHANGED reply
  <2>1. seen[q] \in Row \cup {Absent} /\ Consistent(seen[q])
        /\ seen' = [seen EXCEPT ![q] = seen[q]] /\ disturbed' \subseteq Requests
    BY DEF Begin, Stored, TypeOK, RequestShape
  <2> QED BY <1>3, <2>1, ProceedStored DEF Begin, Early
<1> QED BY <1>1, <1>2, <1>3 DEF Begin, Row

\* The SELECT of save() returns a row as it is.
LEMMA SaveSelectStored ==
  ASSUME Stored, NEW q \in Requests, SaveSelect(q)
  PROVE  Stored'
<1>1. Key(q) \in Keys /\ row[Key(q)] \in Row \cup {Absent} /\ Consistent(row[Key(q)])
      /\ disturbed' \subseteq Requests
  BY RequestType DEF Stored, TypeOK, Consistent, SaveSelect
<1> QED BY <1>1, ProceedStored DEF SaveSelect, Early

\* The wallet command throws.
LEMMA RejectStored ==
  ASSUME Stored, NEW q \in Requests, Reject(q)
  PROVE  Stored'
BY AnswerStored, ErrorType DEF Reject, Stored, TypeOK

\* The response reaches the client.
LEMMA AnswerSentStored ==
  ASSUME Stored, NEW q \in Requests, Answer(q)
  PROVE  Stored'
<1>1. pc[q] = "answer" /\ End(q, Ok(q)) /\ pc'[q] = "done" /\ q \in committed \cup failed
  BY DEF Answer, End, Goto, Stored, TypeOK, RequestShape
<1>2. Stable(q)'
  BY <1>1 DEF Stable, Answer
<1> QED BY <1>1, <1>2, OkType, AnswerStored DEF Answer, Stored, TypeOK

\* A command that returns or takes effect counts under its key.
LEMMA CountType ==
  ASSUME Stored, NEW q \in Requests, Count(q), q \in committed' \cup failed',
         committed \subseteq committed', failed \subseteq failed'
  PROVE  /\ counted' \in [Keys -> SUBSET (committed' \cup failed')]
         /\ \A k \in Keys : \A b \in counted'[k] : b \in counted[k] \/ (b = q /\ Key(q) = k)
<1>1. Key(q) \in Keys /\ counted \in [Keys -> SUBSET (committed \cup failed)]
  BY RequestType DEF Stored, TypeOK
<1>2. counted' = [counted EXCEPT ![Key(q)] = counted[Key(q)] \cup {q}]
  BY DEF Count
<1> QED BY <1>1, <1>2

\* The write of save() leaves rows that agree with themselves, and gives none a
\* response it did not have.
LEMMA SaveWriteStored ==
  ASSUME Stored, NEW q \in Requests, SaveWrite(q)
  PROVE  Stored'
<1>1. pc[q] = "write" /\ seen' = [seen EXCEPT ![q] = Absent]
      /\ UNCHANGED <<req, committed, failed, counted, disturbed, faults>>
  BY DEF SaveWrite
<1>2. CASE End(q, Error("error")) /\ UNCHANGED <<row, expired>>
  BY <1>1, <1>2, AnswerStored, ErrorType DEF Stored, TypeOK
<1>3. CASE ~Conflict(q) /\ Goto(q, "command") /\ Save(q) /\ UNCHANGED reply
  <2>1. RowsTyped' /\ \A k \in Keys : row'[k].body \in {row[k].body, "none"}
    BY <1>3, SaveRows
  <2>2. pc' \in [Requests -> Places] /\ seen' \in [Requests -> Row \cup {Absent}]
    BY <1>1, <1>3, TypeParts DEF Stored, Goto, Places, Early
  <2>3. TypeOK'
    <3>1. RowsTyped' /\ Response' = Response /\ Places' = Places
      BY <2>1
    <3> QED BY <1>1, <1>3, <2>2, <3>1
            DEF Stored, TypeOK, RowsTyped, Consistent, Places, Early
  <2>4. RequestShape(q)'
    <3>1. reply'[q] = NoReply /\ pc'[q] = "command" /\ seen'[q] = Absent
      BY <1>1, <1>3 DEF Goto, Stored, TypeOK, RequestShape
    <3>2. q \notin committed' \cup failed'
      BY <1>1 DEF Stored, RequestShape, Early
    <3> QED BY <3>1, <3>2 DEF RequestShape, NoReply, Consistent, Absent
  <2>5. \A p \in Requests \ {q} : reply'[p] = reply[p] /\ seen'[p] = seen[p]
    BY <1>1, <1>3 DEF Stored, TypeOK
  <2>6. \A k \in Keys : \A b \in counted'[k] : b \in counted[k]
    BY <1>1
  <2> QED BY <1>1, <1>3, <2>1, <2>3, <2>4, <2>5, <2>6, StepStored DEF Goto
<1> QED BY <1>2, <1>3 DEF SaveWrite

\* A command that returned, having taken effect or failed without, counts.
LEMMA ReturnStored ==
  ASSUME Stored, NEW q \in Requests, pc[q] = "command", Count(q), Goto(q, "finalize"),
         \/ committed' = committed \cup {q} /\ failed' = failed
         \/ committed' = committed /\ failed' = failed \cup {q},
         UNCHANGED <<row, expired, req, seen, reply, disturbed, faults>>
  PROVE  Stored'
<1>1. q \in committed' \cup failed' /\ q \notin committed' \cap failed'
      /\ committed \subseteq committed' /\ failed \subseteq failed'
  BY DEF Stored, RequestShape, Early
<1>2. /\ counted' \in [Keys -> SUBSET (committed' \cup failed')]
      /\ \A k \in Keys : \A b \in counted'[k] : b \in counted[k] \/ (b = q /\ Key(q) = k)
  BY <1>1, CountType
<1>3. TypeOK'
  <2>1. committed' \subseteq Requests /\ failed' \subseteq Requests
    BY DEF Stored, TypeOK
  <2> QED BY <1>2, <2>1 DEF Goto, Stored, TypeOK
<1>4. RequestShape(q)'
  <2>1. reply'[q] = NoReply /\ pc'[q] = "finalize" /\ Consistent(seen'[q])
    BY DEF Goto, Stored, TypeOK, RequestShape
  <2> QED BY <1>1, <2>1 DEF RequestShape, NoReply, Early, Consistent
<1>5. /\ \A p \in Requests \ {q} : reply'[p] = reply[p] /\ seen'[p] = seen[p]
      /\ \A k \in Keys : row'[k].body \in {row[k].body, "none"}
  OBVIOUS
<1>6. /\ committed' \in {committed, committed \cup {q}}
      /\ failed' \in {failed, failed \cup {q}}
  OBVIOUS
<1> QED BY <1>2, <1>3, <1>4, <1>5, <1>6, StepStored DEF Goto

\* finalize() stores what a command returned.
LEMMA FinalizeStored ==
  ASSUME Stored, NEW q \in Requests, Finalize(q)
  PROVE  Stored'
<1>1. /\ pc[q] = "finalize" /\ Complete(q) /\ pc' = [pc EXCEPT ![q] = "answer"]
      /\ pc'[q] = "answer"
      /\ UNCHANGED <<req, seen, reply, committed, failed, counted, disturbed, faults>>
  BY DEF Finalize, Goto, Stored, TypeOK
<1>2. /\ RowsTyped'
      /\ \A k \in Keys : row'[k].body \in {row[k].body, q}
                         /\ (k # Key(q) => row'[k].body = row[k].body)
  BY <1>1, CompleteRows
<1>3. q \in committed \cup failed /\ q \notin committed \cap failed
  BY <1>1 DEF Stored, RequestShape
<1>4. TypeOK'
  <2>1. pc' \in [Requests -> Places]
    BY <1>1, TypeParts DEF Stored, Places
  <2> QED BY <1>1, <1>2, <2>1 DEF Stored, TypeOK, RowsTyped, Consistent, Places, Early
<1>5. RequestShape(q)'
  <2>1. reply'[q] = NoReply /\ Consistent(seen'[q])
    BY <1>1 DEF Stored, RequestShape, Consistent
  <2> QED BY <1>1, <1>3, <2>1 DEF RequestShape, NoReply, Early, Consistent
<1>6. Stable(q)'
  BY <1>1, <1>3 DEF Stable
<1>7. /\ \A p \in Requests \ {q} : reply'[p] = reply[p] /\ seen'[p] = seen[p]
      /\ \A k \in Keys : \A b \in counted'[k] : b \in counted[k]
  BY <1>1
<1>8. \A k \in Keys : \/ row'[k].body \in {row[k].body, "none"}
                      \/ row'[k].body = q /\ Key(q) = k /\ Stable(q)'
  BY <1>2, <1>6
<1> QED BY <1>1, <1>4, <1>5, <1>7, <1>8, StepStored

\* A fault ends the request with an error, whether its statement was carried out
\* or not.
LEMMA FaultStored ==
  ASSUME Stored, NEW q \in Requests, Fault(q)
  PROVE  Stored'
<1>1. /\ Error("error") \in Response /\ Error("error").code \notin {"none", "ok"}
      /\ pc[q] # "done" /\ End(q, Error("error")) /\ faults' \in Nat
      /\ seen' = [seen EXCEPT ![q] = Absent]
      /\ UNCHANGED <<req, failed, disturbed>>
  BY ErrorType DEF Fault, InFlight, Stored, TypeOK
<1>2. /\ pc' = [pc EXCEPT ![q] = "done"] /\ pc'[q] = "done"
      /\ pc' \in [Requests -> Places]
      /\ reply' \in [Requests -> Response]
      /\ seen' \in [Requests -> Row \cup {Absent}] /\ seen'[q] = Absent
      /\ \A p \in Requests \ {q} : reply'[p] = reply[p] /\ seen'[p] = seen[p]
  BY <1>1, TypeParts DEF End, Goto, Stored, Places
<1>3. q \notin committed \cap failed /\ (pc[q] = "command" => q \notin committed \cup failed)
  BY DEF Stored, RequestShape, Early
\* What is left to show when rows, or what counts, change.
<1>4. ASSUME RowsTyped', committed' \in {committed, committed \cup {q}},
             counted' \in [Keys -> SUBSET (committed' \cup failed')],
             q \notin committed' \cap failed',
             \A k \in Keys : \/ row'[k].body \in {row[k].body, "none"}
                             \/ row'[k].body = q /\ Key(q) = k /\ Stable(q)',
             \A k \in Keys : \A b \in counted'[k] : b \in counted[k] \/ (b = q /\ Key(q) = k)
      PROVE  Stored'
  <2>1. TypeOK'
    <3>1. committed' \subseteq Requests
      BY <1>4 DEF Stored, TypeOK
    <3> QED BY <1>1, <1>2, <1>4, <3>1
            DEF Stored, TypeOK, RowsTyped, Consistent, Places, Early, Response
  <2>2. RequestShape(q)'
    BY <1>1, <1>2, <1>4, EndShape
  <2> QED BY <1>1, <1>2, <1>4, <2>1, <2>2, StepStored
<1>5. CASE UNCHANGED <<row, expired, committed, counted>>
  BY <1>1, <1>5, AnswerStored
<1>6. CASE pc[q] = "write" /\ ~Conflict(q) /\ Save(q) /\ UNCHANGED <<committed, counted>>
  <2>1. RowsTyped' /\ \A k \in Keys : row'[k].body \in {row[k].body, "none"}
    BY <1>6, SaveRows
  <2>2. counted' \in [Keys -> SUBSET (committed' \cup failed')]
    BY <1>1, <1>6 DEF Stored, TypeOK
  <2> QED BY <1>1, <1>3, <1>4, <1>6, <2>1, <2>2
<1>7. CASE pc[q] = "command" /\ TakeEffect(q) /\ UNCHANGED <<row, expired>>
  <2>1. RowsTyped' /\ \A k \in Keys : row'[k].body \in {row[k].body, "none"}
    BY <1>7, TypeParts DEF Stored, RowsTyped, Consistent
  <2>2. committed' = committed \cup {q} /\ Count(q)
    BY <1>7 DEF TakeEffect
  <2>3. /\ counted' \in [Keys -> SUBSET (committed' \cup failed')]
        /\ \A k \in Keys : \A b \in counted'[k] : b \in counted[k] \/ (b = q /\ Key(q) = k)
    BY <1>1, <2>2, CountType
  <2> QED BY <1>1, <1>3, <1>4, <1>7, <2>1, <2>2, <2>3
<1>8. CASE pc[q] = "finalize" /\ Complete(q) /\ UNCHANGED <<committed, counted>>
  <2>1. /\ RowsTyped'
        /\ \A k \in Keys : row'[k].body \in {row[k].body, q}
                           /\ (k # Key(q) => row'[k].body = row[k].body)
    BY <1>8, CompleteRows
  <2>2. Stable(q)'
    BY <1>1, <1>2, <1>8 DEF Stable, Stored, RequestShape
  <2>3. counted' \in [Keys -> SUBSET (committed' \cup failed')]
    BY <1>1, <1>8 DEF Stored, TypeOK
  <2> QED BY <1>1, <1>3, <1>4, <1>8, <2>1, <2>2, <2>3
<1> QED BY <1>5, <1>6, <1>7, <1>8 DEF Fault

\* A row gets old.
LEMMA ExpireStored ==
  ASSUME Stored, NEW k \in Keys, Expire(k)
  PROVE  Stored'
<1>1. TypeOK'
  BY DEF Expire, Stored, TypeOK
<1>2. ASSUME NEW p \in Requests PROVE RequestShape(p)'
  BY DEF Expire, Stored, RequestShape, Key, Stable
<1>3. ASSUME NEW x \in Keys PROVE StoreShape(x)'
  BY DEF Expire, Stored, StoreShape, Key, Stable
<1> QED BY <1>1, <1>2, <1>3 DEF Stored

\* The cleanup deletes whole rows and what counted under them.
LEMMA CleanupStored ==
  ASSUME Stored, Cleanup
  PROVE  Stored'
<1>1. TypeOK'
  BY DEF Cleanup, Stored, TypeOK, Absent
<1>2. ASSUME NEW p \in Requests PROVE RequestShape(p)'
  BY DEF Cleanup, Stored, RequestShape, Key, Stable
<1>3. ASSUME NEW k \in Keys PROVE StoreShape(k)'
  BY DEF Cleanup, Stored, StoreShape, TypeOK, Key, Absent, Stable
<1> QED BY <1>1, <1>2, <1>3 DEF Stored

\* A step that changes nothing.
LEMMA StutterStored ==
  ASSUME Stored, UNCHANGED vars
  PROVE  Stored'
BY DEF vars, Stored, TypeOK, RequestShape, StoreShape, Key, Stable

\* Every step keeps the invariant.
LEMMA NextStored == Stored /\ [Next]_vars => Stored'
<1> SUFFICES ASSUME Stored, [Next]_vars PROVE Stored'
  OBVIOUS
<1>1. ASSUME NEW q \in Requests,
             Receive(q) \/ Get(q) \/ Begin(q) \/ SaveSelect(q)
      PROVE  Stored'
  BY <1>1, ReceiveStored, GetStored, BeginStored, SaveSelectStored
<1>2. ASSUME NEW q \in Requests, Commit(q) \/ FailTransfer(q)
      PROVE  Stored'
  BY <1>2, ReturnStored DEF Commit, FailTransfer, TakeEffect
<1>3. ASSUME NEW q \in Requests,
             SaveWrite(q) \/ Reject(q) \/ Finalize(q) \/ Answer(q) \/ Fault(q)
      PROVE  Stored'
  BY <1>3, SaveWriteStored, RejectStored, FinalizeStored, AnswerSentStored, FaultStored
<1>4. ASSUME (\E k \in Keys : Expire(k)) \/ Cleanup PROVE Stored'
  BY <1>4, ExpireStored, CleanupStored
<1>5. ASSUME Quiet \/ UNCHANGED vars PROVE Stored'
  BY <1>5, StutterStored DEF Quiet
<1> QED BY <1>1, <1>2, <1>3, <1>4, <1>5 DEF Next

\* Every state the service reaches has the invariant.
LEMMA AlwaysStored == Spec => []Stored
BY InitStored, NextStored, PTL DEF Spec

\* Whatever overlaps, fails, retries or is cleaned up, the state is well typed,
\* and a row has a response exactly when it is completed.
THEOREM TypeCorrect == Spec => []TypeOK
<1>1. Stored => TypeOK
  BY DEF Stored
<1> QED BY <1>1, AlwaysStored, PTL

\* A client that is given a response is given that of a command of its key which
\* took effect, or that of a transfer which failed and took none, on every key,
\* first-hand or after its answer was lost.
THEOREM SuccessIsReal == Spec => []AnswersHaveEffects
<1>1. ASSUME Stored, NEW q \in Requests, reply[q].code = "ok"
      PROVE  /\ Key(reply[q].body) = Key(q)
             /\ reply[q].body \in committed \cup failed
             /\ reply[q].body \notin committed \cap failed
  <2>1. Key(reply[q].body) = Key(q) /\ Stable(reply[q].body)
    BY <1>1 DEF Stored, RequestShape
  <2>2. reply[q].body \in committed \cup failed /\ reply[q].body \in Requests
    BY <1>1, <2>1 DEF Stable, Stored, TypeOK
  <2> QED BY <1>1, <2>1, <2>2 DEF Stored, RequestShape
<1>2. Stored => AnswersHaveEffects
  BY <1>1 DEF AnswersHaveEffects
<1> QED BY <1>2, AlwaysStored, PTL
-----------------------------------------------------------------------------
(* Requests that are not disturbed *)

\* Two handlers that are in flight on one key have disturbed each other.
Apart ==
  \A p, q \in Requests :
    Key(p) = Key(q) /\ InFlight(p) /\ InFlight(q) /\ p # q => p \in disturbed

\* Once past begin() an undisturbed q finds no row; then the row is its own, it
\* counts, and the row stores its response.  On a key that is used serially the
\* row does not expire before q is answered.
CalmShape(q) ==
  LET k == Key(q) IN
  q \notin disturbed =>
    /\ pc[q] \in {"select", "write"} => row[k] = Absent
    /\ pc[q] = "write" => seen[q] = Absent
    /\ pc[q] \in {"command", "finalize"} => row[k] = NewRow(q)
    /\ pc[q] \in {"finalize", "answer"} => q \in counted[k]
    /\ pc[q] = "answer" => row[k].body = q
    /\ k \in SerialKeys /\ Holds(q) => k \notin expired

\* What q was told of an undisturbed command is of its own payload, and as long
\* as it counts under the key it is what the row stores.
ToldShape(q) ==
  LET b == reply[q].body IN
  reply[q].code = "ok" /\ b \notin disturbed =>
    /\ Hash(b) = Hash(q)
    /\ b \in counted[Key(q)] => row[Key(q)].body = b

\* Where a handler has not selected from the table, or no longer writes to it.
Aside == {"idle", "get", "begin", "done"}

\* Of what counts under a key one command at most is undisturbed: the one whose
\* payload the row has, while no other handler is between begin() and its answer.
KeyShape(k) ==
  /\ row[k] = Absent => counted[k] \subseteq disturbed
  /\ \A b \in counted[k] \ disturbed :
       /\ counted[k] \subseteq disturbed \cup {b}
       /\ row[k].hash = Hash(b)
       /\ \A r \in Requests \ {b} : Key(r) = k => pc[r] \in Aside
  /\ row[k].body \notin {"none"} \cup disturbed => row[k].body \in counted[k]

Keyed ==
  /\ Stored
  /\ Apart
  /\ \A q \in Requests : CalmShape(q) /\ ToldShape(q)
  /\ \A k \in Keys : KeyShape(k)
  /\ \A q \in Serial : q \notin disturbed

\* Init gives the invariant.
LEMMA InitKeyed == Init => Keyed
<1> SUFFICES ASSUME Init PROVE Keyed
  OBVIOUS
<1>1. Stored
  BY InitStored
<1>2. Apart /\ \A q \in Serial : q \notin disturbed
  BY DEF Init, Apart, InFlight
<1>3. ASSUME NEW q \in Requests PROVE CalmShape(q) /\ ToldShape(q)
  BY <1>3 DEF Init, CalmShape, ToldShape, Holds, NoReply
<1>4. ASSUME NEW k \in Keys PROVE KeyShape(k)
  BY <1>4 DEF Init, KeyShape, Absent
<1> QED BY <1>1, <1>2, <1>3, <1>4 DEF Keyed

\* While q is between begin() and its answer, nothing undisturbed counts under
\* its key but q itself, and that only once its command has returned.
LEMMA Sole ==
  ASSUME Keyed, NEW q \in Requests, pc[q] \notin Aside
  PROVE  /\ \A b \in counted[Key(q)] \ disturbed : b = q
         /\ pc[q] \in Early => counted[Key(q)] \subseteq disturbed
<1>1. Key(q) \in Keys /\ KeyShape(Key(q))
  BY RequestType DEF Keyed, Stored
<1>2. \A b \in counted[Key(q)] \ disturbed : b = q
  BY <1>1 DEF KeyShape
<1>3. counted[Key(q)] \subseteq committed \cup failed
  BY <1>1 DEF Keyed, Stored, TypeOK
<1>4. pc[q] \in Early => q \notin committed \cup failed
  BY DEF Keyed, Stored, RequestShape
<1> QED BY <1>2, <1>3, <1>4

\* A step of q keeps the invariant when it touches no other key and no other
\* request, requests in flight beside it are disturbed, none on a key that is
\* used serially is, and what the invariant says of q, of its key and of what
\* the clients of this key were told holds afterwards.
LEMMA StepKeyed ==
  ASSUME Keyed, Stored', NEW q \in Requests, NEW l, pc' = [pc EXCEPT ![q] = l],
         req' = req, disturbed \subseteq disturbed',
         \/ InFlight(q)
         \/ \A p \in Requests \ {q} :
              Key(p) = Key(q) /\ InFlight(p) => p \in disturbed' /\ q \in disturbed',
         \A p \in Serial : p \notin disturbed',
         \A p \in Requests \ {q} : reply'[p] = reply[p] /\ seen'[p] = seen[p],
         \A k \in Keys \ {Key(q)} : /\ row'[k] = row[k]
                                    /\ counted'[k] = counted[k]
                                    /\ k \in expired' => k \in expired,
         CalmShape(q)', KeyShape(Key(q))',
         \A p \in Requests : Key(p) = Key(q) => ToldShape(p)'
  PROVE  Keyed'
<1>1. Serial' = Serial /\ \A p \in Requests : Key(p)' = Key(p) /\ Hash(p)' = Hash(p)
  BY DEF Serial, Key, Hash
<1>2. \A p \in Requests : Key(p) \in Keys
  BY RequestType DEF Keyed, Stored
<1>3. \A p \in Requests \ {q} : pc'[p] = pc[p] /\ (InFlight(p)' <=> InFlight(p))
  BY DEF Keyed, Stored, TypeOK, InFlight
<1>4. \A p \in Requests \ {q} :
        Key(p) = Key(q) /\ InFlight(p) => /\ p \in disturbed'
                                          /\ InFlight(q)' => q \in disturbed'
  BY DEF Keyed, Apart
<1>5. Apart'
  <2> SUFFICES ASSUME NEW p \in Requests, NEW r \in Requests,
                      Key(p)' = Key(r)', InFlight(p)', InFlight(r)', p # r
               PROVE  p \in disturbed'
    BY DEF Apart
  <2>1. CASE p # q /\ r # q
    BY <1>1, <1>3, <2>1 DEF Keyed, Apart
  <2>2. CASE p = q \/ r = q
    BY <1>1, <1>3, <1>4, <2>2
  <2> QED BY <2>1, <2>2
<1>6. ASSUME NEW p \in Requests \ {q}, Key(p) = Key(q) PROVE CalmShape(p)'
  <2>1. CASE InFlight(p)
    BY <1>4, <1>6, <2>1 DEF CalmShape
  <2>2. CASE ~InFlight(p)
    BY <1>3, <1>6, <2>2 DEF CalmShape, InFlight, Holds
  <2> QED BY <2>1, <2>2
<1>7. ASSUME NEW p \in Requests \ {q}, Key(p) # Key(q)
      PROVE  CalmShape(p)' /\ ToldShape(p)'
  <2>1. /\ row'[Key(p)] = row[Key(p)] /\ counted'[Key(p)] = counted[Key(p)]
        /\ Key(p) \in expired' => Key(p) \in expired
        /\ reply'[p] = reply[p] /\ seen'[p] = seen[p] /\ pc'[p] = pc[p]
    BY <1>2, <1>3, <1>7
  <2>2. CalmShape(p) /\ ToldShape(p) /\ NewRow(p)' = NewRow(p)
    BY <1>1 DEF Keyed, NewRow
  <2>3. reply[p].code = "ok" => reply[p].body \in Requests
    BY DEF Keyed, Stored, RequestShape, Stable, TypeOK
  <2>4. CalmShape(p)'
    BY <1>1, <2>1, <2>2 DEF CalmShape, Holds
  <2>5. ToldShape(p)'
    BY <1>1, <2>1, <2>2, <2>3 DEF ToldShape
  <2> QED BY <2>4, <2>5
<1>8. ASSUME NEW k \in Keys, k # Key(q) PROVE KeyShape(k)'
  <2>1. row'[k] = row[k] /\ counted'[k] = counted[k]
    BY <1>8
  <2>2. KeyShape(k) /\ counted[k] \subseteq Requests
    BY DEF Keyed, Stored, TypeOK
  <2>3. \A r \in Requests : Key(r) = k => pc'[r] = pc[r]
    BY <1>3, <1>8
  <2> QED BY <1>1, <2>1, <2>2, <2>3 DEF KeyShape
<1>9. ASSUME NEW p \in Requests PROVE CalmShape(p)' /\ ToldShape(p)'
  <2>1. CASE p = q
    BY <2>1
  <2>2. CASE p # q
    BY <1>6, <1>7, <2>2
  <2> QED BY <2>1, <2>2
<1>10. ASSUME NEW k \in Keys PROVE KeyShape(k)'
  <2>1. CASE k = Key(q)
    <3>1. KeyShape(Key(q))' /\ Key(q)' = k
      BY <1>1, <2>1
    <3> QED BY <2>1, <3>1 DEF KeyShape
  <2>2. CASE k # Key(q)
    BY <1>8, <2>2
  <2> QED BY <2>1, <2>2
<1> QED BY <1>1, <1>5, <1>9, <1>10 DEF Keyed

\* ... in particular when the step touches no row and nothing new counts.
LEMMA SteadyKeyed ==
  ASSUME Keyed, Stored', NEW q \in Requests, NEW l, pc' = [pc EXCEPT ![q] = l],
         disturbed \subseteq disturbed',
         \/ InFlight(q)
         \/ \A p \in Requests \ {q} :
              Key(p) = Key(q) /\ InFlight(p) => p \in disturbed' /\ q \in disturbed',
         \A p \in Serial : p \notin disturbed',
         \A p \in Requests \ {q} : reply'[p] = reply[p] /\ seen'[p] = seen[p],
         UNCHANGED <<req, row, expired, counted>>,
         \A b \in counted[Key(q)] \ disturbed : b = q \/ l \in Aside,
         CalmShape(q)', ToldShape(q)'
  PROVE  Keyed'
<1>1. \A p \in Requests : Key(p)' = Key(p) /\ Hash(p)' = Hash(p)
  BY DEF Key, Hash
<1>2. KeyShape(Key(q))'
  <2>1. Key(q) \in Keys /\ KeyShape(Key(q)) /\ counted[Key(q)] \subseteq Requests
    BY RequestType DEF Keyed, Stored, TypeOK
  <2>2. \A r \in Requests : pc'[r] = IF r = q THEN l ELSE pc[r]
    BY DEF Keyed, Stored, TypeOK
  <2> QED BY <1>1, <2>1, <2>2 DEF KeyShape
<1>3. ASSUME NEW p \in Requests \ {q} PROVE ToldShape(p)'
  <2>1. ToldShape(p) /\ RequestShape(p)
    BY DEF Keyed, Stored
  <2>2. reply[p].code = "ok" => reply[p].body \in Requests
    BY <2>1 DEF Keyed, Stored, RequestShape, Stable, TypeOK
  <2> QED BY <1>1, <2>1, <2>2 DEF ToldShape
<1>4. \A p \in Requests : Key(p) = Key(q) => ToldShape(p)'
  BY <1>3
<1> QED BY <1>2, <1>4, StepKeyed

\* Refusing a request keeps the invariant.
LEMMA RefuseKeyed ==
  ASSUME Keyed, Stored', NEW q \in Requests, InFlight(q),
         NEW c \in {"error", "mismatch", "processing", "completed"}, End(q, Error(c)),
         \A p \in Requests \ {q} : seen'[p] = seen[p],
         UNCHANGED <<req, row, expired, counted, disturbed>>
  PROVE  Keyed'
<1>1. pc' = [pc EXCEPT ![q] = "done"] /\ reply' = [reply EXCEPT ![q] = Error(c)]
      /\ pc'[q] = "done" /\ reply'[q] = Error(c)
      /\ \A p \in Requests \ {q} : reply'[p] = reply[p] /\ seen'[p] = seen[p]
  BY DEF End, Goto, Keyed, Stored, TypeOK
<1>2. CalmShape(q)' /\ ToldShape(q)'
  BY <1>1 DEF CalmShape, Holds, ToldShape, Error
<1>3. \A p \in Serial : p \notin disturbed'
  BY DEF Keyed
<1>4. \A b \in counted[Key(q)] \ disturbed : b = q \/ "done" \in Aside
  BY DEF Aside
<1> QED BY <1>1, <1>2, <1>3, <1>4, SteadyKeyed

\* A handler that goes on to l has told its client nothing.
LEMMA GoOnKeyed ==
  ASSUME Keyed, Stored', NEW q \in Requests, InFlight(q),
         NEW l, Goto(q, l), UNCHANGED <<req, row, expired, reply, counted, disturbed>>,
         \A p \in Requests \ {q} : seen'[p] = seen[p],
         \A b \in counted[Key(q)] \ disturbed : b = q \/ l \in Aside,
         CalmShape(q)'
  PROVE  Keyed'
<1>1. reply'[q] = NoReply
  BY DEF Keyed, Stored, RequestShape, InFlight
<1>2. ToldShape(q)'
  BY <1>1 DEF ToldShape, NoReply
<1>3. \A p \in Serial : p \notin disturbed'
  BY DEF Keyed
<1>4. \A p \in Requests \ {q} : reply'[p] = reply[p] /\ seen'[p] = seen[p]
  OBVIOUS
<1> QED BY <1>2, <1>3, <1>4, SteadyKeyed DEF Goto

\* A request that is received beside others is disturbed, and so are they.
LEMMA ReceiveKeyed ==
  ASSUME Keyed, NEW q \in Requests, Receive(q)
  PROVE  Keyed'
<1> DEFINE others == {p \in Requests : Key(p) = Key(q) /\ InFlight(p)}
<1>1. Stored'
  BY ReceiveStored DEF Keyed
<1>2. /\ pc' = [pc EXCEPT ![q] = "get"] /\ pc'[q] = "get" /\ pc[q] = "idle" /\ Free(Key(q))
      /\ disturbed' = disturbed \cup others \cup {p \in {q} : others # {}}
      /\ UNCHANGED <<row, expired, req, seen, reply, counted>>
  BY DEF Receive, Goto, Keyed, Stored, TypeOK
<1>3. \A p \in Requests \ {q} :
        Key(p) = Key(q) /\ InFlight(p) => p \in disturbed' /\ q \in disturbed'
  BY <1>2
<1>4. \A p \in Serial : p \notin disturbed'
  <2>1. Key(q) \in SerialKeys => others = {}
    BY <1>2 DEF Free
  <2>2. Key(q) \notin SerialKeys => \A p \in others \cup {q} : p \notin Serial
    BY DEF Serial
  <2> QED BY <1>2, <2>1, <2>2 DEF Keyed, Serial
<1>5. CalmShape(q)'
  BY <1>2 DEF CalmShape, Holds
<1>6. ToldShape(q)'
  BY <1>2 DEF ToldShape, NoReply, Keyed, Stored, RequestShape
<1>7. /\ \A b \in counted[Key(q)] \ disturbed : b = q \/ "get" \in Aside
      /\ disturbed \subseteq disturbed'
      /\ \A p \in Requests \ {q} : reply'[p] = reply[p] /\ seen'[p] = seen[p]
  BY <1>2 DEF Aside
<1> QED BY <1>1, <1>2, <1>3, <1>4, <1>5, <1>6, <1>7, SteadyKeyed

\* What get() replays of an undisturbed command counts, and is of q's payload.
LEMMA GetKeyed ==
  ASSUME Keyed, NEW q \in Requests, Get(q)
  PROVE  Keyed'
<1>1. Stored' /\ InFlight(q) /\ UNCHANGED <<row, expired, req, seen, counted, disturbed>>
  BY GetStored DEF Keyed, Get, InFlight
<1>2. CASE End(q, Error("mismatch"))
  BY <1>1, <1>2, RefuseKeyed
<1>3. CASE /\ ~Mismatch(q) /\ row[Key(q)].status = "completed"
           /\ End(q, Ok(row[Key(q)].body))
  <2>1. PICK b : b = row[Key(q)].body
    OBVIOUS
  <2>2. /\ pc' = [pc EXCEPT ![q] = "done"] /\ pc'[q] = "done"
        /\ reply'[q] = Ok(b)
        /\ \A p \in Requests \ {q} : reply'[p] = reply[p] /\ seen'[p] = seen[p]
    BY <1>1, <1>3, <2>1 DEF End, Goto, Keyed, Stored, TypeOK
  <2>3. b \notin disturbed => Hash(b) = Hash(q)
    <3>1. Key(q) \in Keys /\ KeyShape(Key(q)) /\ row[Key(q)] # Absent /\ b # "none"
      BY <1>3, <2>1, RequestType DEF Keyed, Stored, TypeOK, Absent
    <3> QED BY <1>3, <2>1, <3>1 DEF KeyShape, Mismatch
  <2>4. ToldShape(q)'
    BY <1>1, <2>1, <2>2, <2>3 DEF ToldShape, Ok, Hash, Key
  <2>5. CalmShape(q)'
    BY <2>2 DEF CalmShape, Holds
  <2>6. \A p \in Serial : p \notin disturbed'
    BY <1>1 DEF Keyed
  <2>7. \A x \in counted[Key(q)] \ disturbed : x = q \/ "done" \in Aside
    BY DEF Aside
  <2> QED BY <1>1, <2>2, <2>4, <2>5, <2>6, <2>7, SteadyKeyed
<1>4. CASE Goto(q, "begin") /\ UNCHANGED reply
  <2>1. pc'[q] = "begin"
    BY <1>4 DEF Goto, Keyed, Stored, TypeOK
  <2>2. CalmShape(q)'
    BY <2>1 DEF CalmShape, Holds
  <2>3. \A b \in counted[Key(q)] \ disturbed : b = q \/ "begin" \in Aside
    BY DEF Aside
  <2> QED BY <1>1, <1>4, <2>2, <2>3, GoOnKeyed
<1> QED BY <1>2, <1>3, <1>4 DEF Get

\* begin() goes on when it finds no row, and then nothing undisturbed counts.
LEMMA BeginKeyed ==
  ASSUME Keyed, NEW q \in Requests, Begin(q)
  PROVE  Keyed'
<1>1. Stored' /\ InFlight(q) /\ UNCHANGED <<row, expired, req, seen, counted, disturbed>>
  BY BeginStored DEF Keyed, Begin, InFlight
<1>2. CASE \E c \in {"error", "mismatch", "processing", "completed"} : End(q, Error(c))
  BY <1>1, <1>2, RefuseKeyed
<1>3. CASE row[Key(q)] = Absent /\ Goto(q, "select") /\ UNCHANGED reply
  <2>1. pc'[q] = "select" /\ Key(q)' = Key(q)
    BY <1>1, <1>3 DEF Goto, Keyed, Stored, TypeOK, Key
  <2>2. CalmShape(q)'
    BY <1>1, <1>3, <2>1 DEF CalmShape, Holds
  <2>3. \A b \in counted[Key(q)] \ disturbed : b = q \/ "select" \in Aside
    BY <1>3, RequestType DEF Keyed, KeyShape, Stored
  <2> QED BY <1>1, <1>3, <2>2, <2>3, GoOnKeyed
<1>4. Key(q) \in Keys /\ row[Key(q)] \in Row \cup {Absent}
  BY RequestType DEF Keyed, Stored, TypeOK
<1> QED BY <1>2, <1>3, <1>4 DEF Begin, Row

\* The save() of an undisturbed handler selects no row.
LEMMA SaveSelectKeyed ==
  ASSUME Keyed, NEW q \in Requests, SaveSelect(q)
  PROVE  Keyed'
<1>1. /\ Stored' /\ InFlight(q) /\ pc[q] = "select"
      /\ UNCHANGED <<row, expired, req, reply, counted, disturbed>>
  BY SaveSelectStored DEF Keyed, SaveSelect, InFlight
<1>2. /\ Goto(q, "write") /\ pc'[q] = "write" /\ seen'[q] = row[Key(q)]
      /\ Key(q)' = Key(q)
      /\ \A p \in Requests \ {q} : seen'[p] = seen[p]
  BY DEF SaveSelect, Goto, Keyed, Stored, TypeOK, Key
<1>3. CalmShape(q)'
  BY <1>1, <1>2 DEF Keyed, CalmShape, Holds
<1>4. \A b \in counted[Key(q)] \ disturbed : b = q \/ "write" \in Aside
  BY <1>1, Sole DEF Aside
<1> QED BY <1>1, <1>2, <1>3, <1>4, GoOnKeyed

\* The write of save() finds nothing undisturbed under its key, and gives no row
\* a response.
LEMMA SavedKeyed ==
  ASSUME Keyed, Stored', NEW q \in Requests, pc[q] = "write", ~Conflict(q), Save(q),
         NEW l \in {"command", "done"}, Goto(q, l), reply'[q].code # "ok",
         \A p \in Requests \ {q} : reply'[p] = reply[p] /\ seen'[p] = seen[p],
         UNCHANGED <<req, counted, disturbed>>
  PROVE  Keyed'
<1> DEFINE k == Key(q)
<1>1. /\ k \in Keys /\ Key(q)' = k /\ InFlight(q)
      /\ pc'[q] = l /\ pc' = [pc EXCEPT ![q] = l]
  BY RequestType DEF Keyed, Stored, TypeOK, Key, InFlight, Goto
<1>2. counted[k] \subseteq disturbed /\ counted'[k] \subseteq disturbed'
  BY Sole DEF Aside, Early
<1>3. PICK new : row' = [row EXCEPT ![k] = new] /\ (seen[q] = Absent => new = NewRow(q))
  BY <1>1 DEF Save, Keyed, Stored, TypeOK
<1>4. /\ \A x \in Keys \ {k} : /\ row'[x] = row[x] /\ counted'[x] = counted[x]
                               /\ x \in expired' => x \in expired
      /\ k \notin expired' /\ row'[k] = new
  BY <1>1, <1>3 DEF Save, Keyed, Stored, TypeOK
<1>5. CalmShape(q)'
  <2>1. NewRow(q)' = NewRow(q)
    BY DEF NewRow, Hash
  <2>2. q \notin disturbed => new = NewRow(q)
    BY <1>3 DEF Keyed, CalmShape
  <2>3. q \notin disturbed' => row'[k] = NewRow(q)'
    BY <1>4, <2>1, <2>2
  <2>4. pc'[q] \in {"command", "done"} /\ k \notin expired'
    BY <1>1, <1>4
  <2> HIDE DEF k
  <2> QED BY <1>1, <2>3, <2>4 DEF CalmShape
<1>6. KeyShape(k)'
  <2>1. PICK b : b = row'[k].body
    OBVIOUS
  <2>2. b \in {row[k].body, "none"}
    BY <1>1, <2>1, SaveRows DEF Keyed
  <2>3. KeyShape(k)
    BY <1>1 DEF Keyed
  <2>4. b \notin {"none"} \cup disturbed' => b \in counted'[k]
    BY <2>2, <2>3 DEF KeyShape
  <2> QED BY <1>1, <1>2, <2>1, <2>4 DEF KeyShape
<1>7. ASSUME NEW p \in Requests, Key(p) = k PROVE ToldShape(p)'
  <2>1. CASE p = q
    BY <2>1 DEF ToldShape
  <2>2. CASE p # q
    <3>1. ToldShape(p) /\ reply'[p] = reply[p] /\ Key(p)' = k
      BY <1>7, <2>2 DEF Keyed, Key
    <3>2. Hash(p)' = Hash(p) /\ Hash(reply[p].body)' = Hash(reply[p].body)
      BY <2>2 DEF Hash
    <3> QED BY <1>2, <3>1, <3>2 DEF ToldShape, Hash
  <2> QED BY <2>1, <2>2
<1>8. \A p \in Serial : p \notin disturbed'
  BY DEF Keyed
<1> QED BY <1>1, <1>4, <1>5, <1>6, <1>7, <1>8, StepKeyed

\* save() fails, or goes on to the command.
LEMMA SaveWriteKeyed ==
  ASSUME Keyed, NEW q \in Requests, SaveWrite(q)
  PROVE  Keyed'
<1>1. /\ Stored' /\ InFlight(q) /\ UNCHANGED <<req, committed, counted, disturbed>>
      /\ pc[q] = "write"
  BY SaveWriteStored DEF Keyed, SaveWrite, InFlight
<1>2. \A p \in Requests \ {q} : seen'[p] = seen[p]
  BY DEF SaveWrite, Keyed, Stored, TypeOK
<1>3. CASE End(q, Error("error")) /\ UNCHANGED <<row, expired>>
  BY <1>1, <1>2, <1>3, RefuseKeyed
<1>4. CASE ~Conflict(q) /\ Goto(q, "command") /\ Save(q) /\ UNCHANGED reply
  <2>1. reply'[q].code # "ok" /\ \A p \in Requests \ {q} : reply'[p] = reply[p]
    BY <1>1, <1>4 DEF Keyed, Stored, RequestShape, NoReply
  <2> QED BY <1>1, <1>2, <1>4, <2>1, SavedKeyed
<1> QED BY <1>3, <1>4 DEF SaveWrite

\* A command that returns is the only undisturbed one under its key, and nobody
\* has been told of it.
LEMMA CountedKeyed ==
  ASSUME Keyed, Stored', NEW q \in Requests, pc[q] = "command", Count(q),
         NEW l \in {"finalize", "done"}, Goto(q, l), reply'[q].code # "ok",
         \A p \in Requests \ {q} : reply'[p] = reply[p] /\ seen'[p] = seen[p],
         UNCHANGED <<req, row, expired, disturbed>>
  PROVE  Keyed'
<1> DEFINE k == Key(q)
<1>1. /\ k \in Keys /\ Key(q)' = k /\ InFlight(q) /\ Hash(q)' = Hash(q)
      /\ pc'[q] = l /\ pc' = [pc EXCEPT ![q] = l]
      /\ \A p \in Requests \ {q} : pc'[p] = pc[p]
  BY RequestType DEF Keyed, Stored, TypeOK, Key, Hash, InFlight, Goto
<1>2. counted[k] \subseteq disturbed
  BY Sole DEF Aside, Early
<1>3. /\ counted'[k] = counted[k] \cup {q}
      /\ \A x \in Keys \ {k} : counted'[x] = counted[x]
  BY <1>1 DEF Count, Keyed, Stored, TypeOK
<1>4. q \notin disturbed => row[k] = NewRow(q) /\ (k \in SerialKeys => k \notin expired)
  BY DEF Keyed, CalmShape, Holds
<1>5. CalmShape(q)'
  <2>1. NewRow(q)' = NewRow(q)
    BY DEF NewRow, Hash
  <2> HIDE DEF k
  <2> QED BY <1>1, <1>3, <1>4, <2>1 DEF CalmShape
<1>6. KeyShape(k)'
  <2>1. KeyShape(k)
    BY <1>1 DEF Keyed
  <2>2. row[k] = Absent => q \in disturbed
    BY <1>4 DEF NewRow, Absent
  <2>3. q \notin disturbed => row[k].hash = Hash(q)
    BY <1>4 DEF NewRow
  <2>4. ASSUME q \notin disturbed, NEW r \in Requests \ {q}, Key(r) = k PROVE pc'[r] \in Aside
    <3>1. ~InFlight(r)
      BY <1>1, <2>4 DEF Keyed, Apart
    <3> QED BY <1>1, <2>4, <3>1 DEF InFlight, Aside
  <2>5. \A r \in Requests : Key(r)' = Key(r)
    BY DEF Key
  <2>6. \A b \in counted'[k] \ disturbed : b = q
    BY <1>2, <1>3
  <2>7. \A b \in counted'[k] \ disturbed' :
          /\ counted'[k] \subseteq disturbed' \cup {b}
          /\ row'[k].hash = Hash(b)'
          /\ \A r \in Requests \ {b} : Key(r)' = k => pc'[r] \in Aside
    BY <1>1, <1>2, <1>3, <2>3, <2>4, <2>5, <2>6
  <2>8. row'[k] = Absent => counted'[k] \subseteq disturbed'
    BY <1>2, <1>3, <2>2
  <2>9. row'[k].body \notin {"none"} \cup disturbed' => row'[k].body \in counted'[k]
    BY <1>3, <2>1 DEF KeyShape
  <2> QED BY <1>1, <2>7, <2>8, <2>9 DEF KeyShape
<1>7. ASSUME NEW p \in Requests, Key(p) = k PROVE ToldShape(p)'
  <2>1. CASE p = q
    BY <2>1 DEF ToldShape
  <2>2. CASE p # q
    <3>1. ToldShape(p) /\ RequestShape(p) /\ reply'[p] = reply[p] /\ Key(p)' = k
      BY <1>7, <2>2 DEF Keyed, Stored, Key
    <3>2. reply[p].code = "ok" => reply[p].body # q
      BY <3>1 DEF RequestShape, Stable
    <3>3. Hash(p)' = Hash(p) /\ Hash(reply[p].body)' = Hash(reply[p].body)
      BY <2>2 DEF Hash
    <3> QED BY <1>2, <1>3, <3>1, <3>2, <3>3 DEF ToldShape, Hash
  <2> QED BY <2>1, <2>2
<1>8. \A p \in Serial : p \notin disturbed'
  BY DEF Keyed
<1> QED BY <1>1, <1>3, <1>5, <1>6, <1>7, <1>8, StepKeyed

\* The wallet command returns, having taken effect or failed without.
LEMMA ReturnKeyed ==
  ASSUME Keyed, NEW q \in Requests, Commit(q) \/ FailTransfer(q)
  PROVE  Keyed'
<1>1. Stored'
  BY ReturnStored DEF Keyed, Commit, FailTransfer, TakeEffect
<1>2. /\ pc[q] = "command" /\ Count(q) /\ Goto(q, "finalize")
      /\ UNCHANGED <<req, row, expired, seen, reply, disturbed>>
  BY DEF Commit, FailTransfer, TakeEffect
<1>3. /\ reply'[q].code # "ok"
      /\ \A p \in Requests \ {q} : reply'[p] = reply[p] /\ seen'[p] = seen[p]
  BY <1>2 DEF Keyed, Stored, RequestShape, NoReply
<1> QED BY <1>1, <1>2, <1>3, CountedKeyed

\* The wallet command throws.
LEMMA RejectKeyed ==
  ASSUME Keyed, NEW q \in Requests, Reject(q)
  PROVE  Keyed'
<1>1. Stored'
  BY RejectStored DEF Keyed
<1> QED BY <1>1, RefuseKeyed DEF Reject, InFlight

\* finalize() stores the response of the only undisturbed command, or that of a
\* disturbed one where no other counts.
LEMMA CompletedKeyed ==
  ASSUME Keyed, Stored', NEW q \in Requests, pc[q] = "finalize", Complete(q),
         NEW l \in {"answer", "done"}, Goto(q, l), reply'[q].code # "ok",
         \A p \in Requests \ {q} : reply'[p] = reply[p] /\ seen'[p] = seen[p],
         UNCHANGED <<req, counted, disturbed>>
  PROVE  Keyed'
<1> DEFINE k == Key(q)
<1>1. /\ k \in Keys /\ Key(q)' = k /\ InFlight(q) /\ Hash(q)' = Hash(q)
      /\ pc'[q] = l /\ pc' = [pc EXCEPT ![q] = l]
      /\ \A p \in Requests \ {q} : pc'[p] = pc[p]
  BY RequestType DEF Keyed, Stored, TypeOK, Key, Hash, InFlight, Goto
<1>2. \A b \in counted[k] \ disturbed : b = q
  BY Sole DEF Aside
<1>3. PICK new : /\ row' = [row EXCEPT ![k] = new]
                 /\ row[k] = Absent => new = Absent
                 /\ row[k] # Absent => new # Absent /\ new.body = q /\ new.hash = row[k].hash
  <2>1. row[k] \in Row \cup {Absent}
    BY <1>1 DEF Keyed, Stored, TypeOK
  <2>2. CASE row[k] = Absent
    BY <2>2 DEF Complete
  <2>3. CASE row[k] # Absent
    <3> DEFINE new == [row[k] EXCEPT !.status = "completed", !.body = q]
    <3>1. new.body = q /\ new.hash = row[k].hash
      BY <2>1, <2>3 DEF Row
    <3>2. new # Absent
      BY <3>1, NoneIsNoRequest DEF Absent
    <3>3. row' = [row EXCEPT ![k] = new]
      BY <2>3 DEF Complete
    <3> HIDE DEF new
    <3> QED BY <2>3, <3>1, <3>2, <3>3
  <2> QED BY <2>2, <2>3
<1>4. /\ \A x \in Keys \ {k} : /\ row'[x] = row[x] /\ counted'[x] = counted[x]
                               /\ x \in expired' => x \in expired
      /\ k \notin expired' /\ row'[k] = new
  BY <1>1, <1>3 DEF Complete, Keyed, Stored, TypeOK
<1>5. q \notin disturbed => row[k] = NewRow(q) /\ row[k] # Absent /\ q \in counted[k]
  BY DEF Keyed, CalmShape, NewRow, Absent
<1>6. CalmShape(q)'
  <2> HIDE DEF k
  <2> QED BY <1>1, <1>3, <1>4, <1>5 DEF CalmShape
<1>7. KeyShape(k)'
  <2>1. KeyShape(k)
    BY <1>1 DEF Keyed
  <2>2. row'[k] = Absent => counted'[k] \subseteq disturbed'
    BY <1>3, <1>4, <2>1 DEF KeyShape
  <2>3. ASSUME NEW b \in counted'[k] \ disturbed'
        PROVE  /\ counted'[k] \subseteq disturbed' \cup {b}
               /\ row'[k].hash = Hash(b)'
               /\ \A r \in Requests \ {b} : Key(r)' = k => pc'[r] \in Aside
    <3>1. b = q /\ row[k] # Absent
      BY <1>2, <2>1, <2>3 DEF KeyShape
    <3>2. /\ counted[k] \subseteq disturbed \cup {b} /\ row[k].hash = Hash(b)
          /\ \A r \in Requests \ {b} : Key(r) = k => pc[r] \in Aside
      BY <2>1, <2>3 DEF KeyShape
    <3>3. \A r \in Requests : Key(r)' = Key(r)
      BY DEF Key
    <3> QED BY <1>1, <1>3, <1>4, <3>1, <3>2, <3>3
  <2>4. row'[k].body \notin {"none"} \cup disturbed' => row'[k].body \in counted'[k]
    BY <1>3, <1>4, <1>5 DEF Absent
  <2> QED BY <1>1, <2>2, <2>3, <2>4 DEF KeyShape
<1>8. ASSUME NEW p \in Requests, Key(p) = k PROVE ToldShape(p)'
  <2>1. CASE p = q
    BY <2>1 DEF ToldShape
  <2>2. CASE p # q
    <3>1. ToldShape(p) /\ RequestShape(p) /\ reply'[p] = reply[p] /\ Key(p)' = k
      BY <1>8, <2>2 DEF Keyed, Stored, Key
    <3>2. reply[p].code = "ok" => reply[p].body # q
      BY <3>1 DEF RequestShape, Stable
    <3>3. Hash(p)' = Hash(p) /\ Hash(reply[p].body)' = Hash(reply[p].body)
      BY <2>2 DEF Hash
    <3> QED BY <1>2, <3>1, <3>2, <3>3 DEF ToldShape, Hash
  <2> QED BY <2>1, <2>2
<1>9. \A p \in Serial : p \notin disturbed'
  BY DEF Keyed
<1> QED BY <1>1, <1>4, <1>6, <1>7, <1>8, <1>9, StepKeyed

\* finalize() is carried out.
LEMMA FinalizeKeyed ==
  ASSUME Keyed, NEW q \in Requests, Finalize(q)
  PROVE  Keyed'
<1>1. /\ Stored' /\ reply'[q].code # "ok"
      /\ \A p \in Requests \ {q} : reply'[p] = reply[p] /\ seen'[p] = seen[p]
  BY FinalizeStored DEF Finalize, Keyed, Stored, RequestShape, NoReply
<1> QED BY <1>1, CompletedKeyed DEF Finalize

\* The answer that is sent is the response that is stored.
LEMMA AnswerSentKeyed ==
  ASSUME Keyed, NEW q \in Requests, Answer(q)
  PROVE  Keyed'
<1>1. /\ Stored' /\ InFlight(q) /\ pc[q] = "answer"
      /\ UNCHANGED <<row, expired, req, seen, counted, disturbed>>
  BY AnswerSentStored DEF Keyed, Answer, InFlight
<1>2. /\ pc' = [pc EXCEPT ![q] = "done"] /\ pc'[q] = "done" /\ reply'[q] = Ok(q)
      /\ \A p \in Requests \ {q} : reply'[p] = reply[p] /\ seen'[p] = seen[p]
  BY <1>1 DEF Answer, End, Goto, Keyed, Stored, TypeOK
<1>3. q \notin disturbed => row[Key(q)].body = q
  BY <1>1 DEF Keyed, CalmShape
<1>4. ToldShape(q)'
  BY <1>1, <1>2, <1>3 DEF ToldShape, Ok, Key, Hash
<1>5. CalmShape(q)'
  BY <1>2 DEF CalmShape, Holds
<1>6. \A p \in Serial : p \notin disturbed'
  BY <1>1 DEF Keyed
<1>7. \A b \in counted[Key(q)] \ disturbed : b = q \/ "done" \in Aside
  BY DEF Aside
<1> QED BY <1>1, <1>2, <1>4, <1>5, <1>6, <1>7, SteadyKeyed

\* A fault loses the answer, and perhaps only the answer.
LEMMA FaultKeyed ==
  ASSUME Keyed, NEW q \in Requests, Fault(q)
  PROVE  Keyed'
<1>1. /\ Stored' /\ InFlight(q) /\ End(q, Error("error")) /\ Goto(q, "done")
      /\ reply'[q].code # "ok"
      /\ \A p \in Requests \ {q} : reply'[p] = reply[p] /\ seen'[p] = seen[p]
      /\ UNCHANGED <<req, disturbed>>
  BY FaultStored DEF Fault, End, Error, Keyed, Stored, TypeOK
<1>2. CASE UNCHANGED <<row, expired, committed, counted>>
  BY <1>1, <1>2, RefuseKeyed
<1>3. CASE pc[q] = "write" /\ ~Conflict(q) /\ Save(q) /\ UNCHANGED <<committed, counted>>
  BY <1>1, <1>3, SavedKeyed
<1>4. CASE pc[q] = "command" /\ TakeEffect(q) /\ UNCHANGED <<row, expired>>
  BY <1>1, <1>4, CountedKeyed DEF TakeEffect
<1>5. CASE pc[q] = "finalize" /\ Complete(q) /\ UNCHANGED <<committed, counted>>
  BY <1>1, <1>5, CompletedKeyed
<1> QED BY <1>2, <1>3, <1>4, <1>5 DEF Fault

\* A row that is used serially gets old only when nobody is in flight on it.
LEMMA ExpireKeyed ==
  ASSUME Keyed, NEW k \in Keys, Expire(k)
  PROVE  Keyed'
<1>1. /\ Stored' /\ expired' = expired \cup {k} /\ Serial' = Serial
      /\ UNCHANGED <<row, req, pc, seen, reply, counted, disturbed>>
  BY ExpireStored DEF Expire, Keyed, Serial, Key
<1>2. ASSUME NEW q \in Requests PROVE CalmShape(q)' /\ ToldShape(q)'
  <2>1. CalmShape(q) /\ ToldShape(q)
    BY DEF Keyed
  <2>2. Key(q) = k /\ k \in SerialKeys => ~Holds(q)
    BY DEF Expire, Free, InFlight, Holds
  <2> QED BY <1>1, <2>1, <2>2 DEF CalmShape, ToldShape, Holds, NewRow, Key, Hash
<1>3. ASSUME NEW x \in Keys PROVE KeyShape(x)'
  BY <1>1 DEF Keyed, KeyShape, Hash, Key
<1>4. Apart' /\ \A q \in Serial : q \notin disturbed'
  BY <1>1 DEF Keyed, Apart, InFlight, Key
<1> QED BY <1>1, <1>2, <1>3, <1>4 DEF Keyed

\* The cleanup forgets a key altogether, its row and what counts under it, and
\* disturbs whoever holds the row.
LEMMA CleanupKeyed ==
  ASSUME Keyed, Cleanup
  PROVE  Keyed'
<1>1. /\ Stored' /\ expired' = {} /\ Serial' = Serial
      /\ disturbed \subseteq disturbed'
      /\ \A q \in Requests : Key(q) \in expired /\ Holds(q) => q \in disturbed'
      /\ UNCHANGED <<req, pc, seen, reply>>
  BY CleanupStored DEF Cleanup, Keyed, Serial, Key
<1>2. ASSUME NEW k \in Keys
      PROVE  /\ k \in expired => row'[k] = Absent /\ counted'[k] = {}
             /\ k \notin expired => row'[k] = row[k] /\ counted'[k] = counted[k]
  BY DEF Cleanup
<1>3. ASSUME NEW q \in Requests PROVE CalmShape(q)' /\ ToldShape(q)'
  <2>1. CalmShape(q) /\ ToldShape(q) /\ Key(q) \in Keys
    BY RequestType DEF Keyed, Stored
  <2>2. CASE Key(q) \in expired
    BY <1>1, <1>2, <2>1, <2>2 DEF CalmShape, ToldShape, Holds, Key, Hash
  <2>3. CASE Key(q) \notin expired
    BY <1>1, <1>2, <2>1, <2>3 DEF CalmShape, ToldShape, Holds, NewRow, Key, Hash
  <2> QED BY <2>2, <2>3
<1>4. ASSUME NEW k \in Keys PROVE KeyShape(k)'
  <2>1. KeyShape(k)
    BY DEF Keyed
  <2>2. CASE k \in expired
    BY <1>2, <2>1, <2>2 DEF KeyShape, Absent
  <2>3. CASE k \notin expired
    BY <1>1, <1>2, <2>1, <2>3 DEF KeyShape, Hash, Key
  <2> QED BY <2>2, <2>3
<1>5. Apart'
  BY <1>1 DEF Keyed, Apart, InFlight, Key
<1>6. ASSUME NEW q \in Serial PROVE q \notin disturbed'
  <2>1. q \in Requests /\ q \notin disturbed /\ Key(q) \in SerialKeys
    BY DEF Keyed, Serial
  <2>2. ~(Key(q) \in expired /\ Holds(q))
    BY <2>1 DEF Keyed, CalmShape
  <2> QED BY <2>1, <2>2 DEF Cleanup
<1> QED BY <1>1, <1>3, <1>4, <1>5, <1>6 DEF Keyed

\* A step that changes nothing.
LEMMA StutterKeyed ==
  ASSUME Keyed, UNCHANGED vars
  PROVE  Keyed'
<1>1. Stored' /\ Serial' = Serial
  BY StutterStored DEF Keyed, Serial, Key, vars
<1>2. ASSUME NEW q \in Requests PROVE CalmShape(q)' /\ ToldShape(q)'
  BY DEF Keyed, vars, CalmShape, ToldShape, Holds, NewRow, Key, Hash
<1>3. ASSUME NEW k \in Keys PROVE KeyShape(k)'
  BY DEF Keyed, vars, KeyShape, Hash, Key
<1>4. Apart' /\ \A q \in Serial : q \notin disturbed'
  BY DEF Keyed, vars, Apart, InFlight, Key
<1> QED BY <1>1, <1>2, <1>3, <1>4 DEF Keyed

\* Every step keeps the invariant.
LEMMA NextKeyed == Keyed /\ [Next]_vars => Keyed'
<1> SUFFICES ASSUME Keyed, [Next]_vars PROVE Keyed'
  OBVIOUS
<1>1. ASSUME NEW q \in Requests,
             Receive(q) \/ Get(q) \/ Begin(q) \/ SaveSelect(q) \/ SaveWrite(q)
      PROVE  Keyed'
  BY <1>1, ReceiveKeyed, GetKeyed, BeginKeyed, SaveSelectKeyed, SaveWriteKeyed
<1>2. ASSUME NEW q \in Requests,
             \/ Commit(q) \/ FailTransfer(q) \/ Reject(q)
             \/ Finalize(q) \/ Answer(q) \/ Fault(q)
      PROVE  Keyed'
  BY <1>2, ReturnKeyed, RejectKeyed, FinalizeKeyed, AnswerSentKeyed, FaultKeyed
<1>3. ASSUME (\E k \in Keys : Expire(k)) \/ Cleanup PROVE Keyed'
  BY <1>3, ExpireKeyed, CleanupKeyed
<1>4. ASSUME Quiet \/ UNCHANGED vars PROVE Keyed'
  BY <1>4, StutterKeyed DEF Quiet
<1> QED BY <1>1, <1>2, <1>3, <1>4 DEF Next

\* Every state the service reaches has the invariant.
LEMMA AlwaysKeyed == Spec => []Keyed
BY InitKeyed, NextKeyed, PTL DEF Spec

\* A set of which every element is the only one has at most one.
LEMMA AtMostOneElement ==
  ASSUME NEW S, \A x \in S : S = {x}
  PROVE  Cardinality(S) <= 1
<1>1. CASE S = {}
  BY <1>1, FS_EmptySet
<1>2. CASE \E x : S = {x}
  BY <1>2, FS_Singleton
<1> QED BY <1>1, <1>2

\* Every request of a key that is used serially is handled undisturbed.
LEMMA SerialIsCalm ==
  ASSUME Keyed, NEW b \in Requests, Undisturbed(b)
  PROVE  b \notin disturbed
BY DEF Keyed, Undisturbed, Serial

\* Until its row is cleaned up, at most one undisturbed command takes effect
\* under a key, whatever fails, loses its answer and is retried in between.
THEOREM PaidOnce == Spec => []AtMostOnce
<1>1. ASSUME Keyed, NEW k \in Keys
      PROVE  Cardinality({b \in Payers(k) : Undisturbed(b)}) <= 1
  <2> DEFINE S == {b \in Payers(k) : Undisturbed(b)}
  <2>1. KeyShape(k) /\ counted[k] \subseteq Requests
    BY <1>1 DEF Keyed, Stored, TypeOK
  <2>2. \A b \in S : b \in counted[k] \ disturbed
    BY <1>1, <2>1, SerialIsCalm DEF Payers
  <2>3. \A b \in S : S = {b}
    BY <2>1, <2>2 DEF KeyShape
  <2> QED BY <2>3, AtMostOneElement
<1>2. Keyed => AtMostOnce
  BY <1>1 DEF AtMostOnce
<1> QED BY <1>2, AlwaysKeyed, PTL

\* A response that is given, first-hand or from the store, is that of a command
\* with the client's own payload, unless this command was disturbed.
THEOREM OwnPayload == Spec => []AnswersMatchPayload
<1>1. ASSUME Keyed, NEW q \in Requests, reply[q].code = "ok", Undisturbed(reply[q].body)
      PROVE  Hash(reply[q].body) = Hash(q)
  <2>1. reply[q].body \in Requests
    BY <1>1 DEF Keyed, Stored, RequestShape, Stable, TypeOK
  <2> QED BY <1>1, <2>1, SerialIsCalm DEF Keyed, ToldShape
<1>2. Keyed => AnswersMatchPayload
  BY <1>1 DEF AnswersMatchPayload
<1> QED BY <1>2, AlwaysKeyed, PTL

\* What one client of a key was told of an undisturbed command is what is stored
\* for the others, also when that command's own answer was lost.
THEOREM SameOutcome == Spec => []OneOutcome
<1>1. ASSUME Keyed, NEW q \in Requests, NEW b, b = reply[q].body,
             reply[q].code = "ok", b \in counted[Key(q)], Undisturbed(b)
      PROVE  row[Key(q)].status = "completed" /\ row[Key(q)].body = b
  <2>1. b \in Requests /\ Key(q) \in Keys
    BY <1>1, RequestType DEF Keyed, Stored, RequestShape, Stable, TypeOK
  <2>2. row[Key(q)].body = b
    BY <1>1, <2>1, SerialIsCalm DEF Keyed, ToldShape
  <2> QED BY <1>1, <2>1, <2>2, NoneIsNoRequest DEF Keyed, Stored, TypeOK
<1>2. Keyed => OneOutcome
  BY <1>1 DEF OneOutcome
<1> QED BY <1>2, AlwaysKeyed, PTL

-----------------------------------------------------------------------------
(* The refinement of KeyedOutcomes *)

\* The step does not change whether a command that counts took effect or failed.
Settled ==
  \A b \in Serial \cap (committed \cup failed) :
    /\ b \in committed' <=> b \in committed
    /\ b \in failed' <=> b \in failed

\* No step does.
LEMMA StepSettles ==
  ASSUME Keyed, Next
  PROVE  Settled /\ req' = req
<1>1. ASSUME NEW q \in Requests,
             \/ Receive(q) \/ Get(q) \/ Begin(q) \/ SaveSelect(q) \/ SaveWrite(q)
             \/ Reject(q) \/ Finalize(q) \/ Answer(q)
      PROVE  Settled /\ req' = req
  BY <1>1 DEF Receive, Get, Begin, SaveSelect, SaveWrite, Reject, Finalize, Answer, Settled
<1>2. ASSUME NEW q \in Requests, Commit(q) \/ FailTransfer(q) \/ Fault(q)
      PROVE  Settled /\ req' = req
  <2>1. pc[q] = "command" => q \notin committed \cup failed
    BY DEF Keyed, Stored, RequestShape, Early
  <2>2. /\ req' = req
        /\ \/ committed' = committed /\ failed' = failed
           \/ pc[q] = "command" /\ \A b \in Requests \ {q} : /\ b \in committed' <=> b \in committed
                                                             /\ b \in failed' <=> b \in failed
    BY <1>2 DEF Commit, FailTransfer, Fault, TakeEffect
  <2> QED BY <2>1, <2>2 DEF Settled, Serial
<1>3. ASSUME (\E k \in Keys : Expire(k)) \/ Cleanup \/ Quiet PROVE Settled /\ req' = req
  BY <1>3 DEF Expire, Cleanup, Quiet, vars, Settled
<1> QED BY <1>1, <1>2, <1>3 DEF Next

\* The outcomes of the keys stay when nothing new counts.
LEMMA OutcomesStay ==
  ASSUME Keyed, Settled, \A k \in SerialKeys : counted'[k] = counted[k]
  PROVE  OutcomeOf' = OutcomeOf
<1>1. ASSUME NEW k \in SerialKeys, NEW b \in counted[k]
      PROVE  b \in committed' <=> b \in committed
  <2>1. k \in Keys /\ b \in committed \cup failed /\ b \in Requests
    BY <1>1, IdempotencyAssumption DEF Keyed, Stored, TypeOK
  <2>2. Key(b) = k
    BY <1>1, <2>1 DEF Keyed, Stored, StoreShape
  <2> QED BY <1>1, <2>1, <2>2 DEF Settled, Serial
<1>2. ASSUME NEW k \in SerialKeys
      PROVE  {[of |-> b, paid |-> b \in committed'] : b \in counted'[k]}
             = {[of |-> b, paid |-> b \in committed] : b \in counted[k]}
  BY <1>1, <1>2
<1> QED BY <1>2 DEF OutcomeOf

\* What a client of a key that is used serially was told.
LEMMA ToldAt ==
  ASSUME NEW q \in Requests
  PROVE  ToldTo[q] = IF q \in Serial /\ reply[q].code = "ok"
                     THEN {[of |-> reply[q].body, paid |-> reply[q].body \notin failed]}
                     ELSE {}
BY DEF ToldTo

\* What the other clients were told stays what it is.
LEMMA OthersTold ==
  ASSUME Keyed, Settled, req' = req, NEW q \in Requests, reply'[q] = reply[q]
  PROVE  ToldTo'[q] = ToldTo[q]
<1>1. Serial' = Serial
  BY DEF Serial, Key
<1>2. ASSUME q \in Serial, reply[q].code = "ok"
      PROVE  reply[q].body \in failed' <=> reply[q].body \in failed
  <2>1. reply[q].body \in committed \cup failed /\ reply[q].body \in Requests
    BY <1>2 DEF Keyed, Stored, RequestShape, Stable, TypeOK
  <2>2. reply[q].body \in Serial
    BY <1>2, <2>1 DEF Keyed, Stored, RequestShape, Serial
  <2> QED BY <2>1, <2>2 DEF Settled
<1> QED BY <1>1, <1>2 DEF ToldTo

\* Two descriptions of what all were told agree when they do client by client.
LEMMA ToldExtensional ==
  ASSUME Keyed, Settled, req' = req, NEW q \in Requests,
         \A p \in Requests \ {q} : reply'[p] = reply[p]
  PROVE  /\ reply'[q] = reply[q] => ToldTo' = ToldTo
         /\ ToldTo' = [ToldTo EXCEPT ![q] = ToldTo'[q]]
<1>1. \A p \in Requests \ {q} : ToldTo'[p] = ToldTo[p]
  BY OthersTold
<1>2. reply'[q] = reply[q] => ToldTo'[q] = ToldTo[q]
  BY OthersTold
<1>3. /\ ToldTo = [p \in Requests |-> ToldTo[p]]
      /\ ToldTo' = [p \in Requests |-> ToldTo'[p]]
  BY DEF ToldTo
<1> HIDE DEF ToldTo
<1> QED BY <1>1, <1>2, <1>3

\* A handler that ends closes its request.
LEMMA CloseRefines ==
  ASSUME Keyed, NEW q \in Serial, InFlight(q), Goto(q, "done"), req' = req
  PROVE  Outcomes!Close(q)
<1>1. q \in Requests /\ Serial' = Serial
  BY DEF Serial, Key
<1>2. q \in OpenNow
  BY DEF OpenNow
<1>3. OpenNow' = OpenNow \ {q} /\ EndedNow' = EndedNow \cup {q}
  BY <1>1 DEF OpenNow, EndedNow, Goto, Serial, InFlight, Keyed, Stored, TypeOK
<1> QED BY <1>2, <1>3 DEF Outcomes!Close

\* A step of q that ends it with an error closes it and tells it nothing.
LEMMA RefusalRefines ==
  ASSUME Keyed, Settled, NEW q \in Serial, InFlight(q),
         NEW c \in {"error", "mismatch", "processing", "completed"}, End(q, Error(c)),
         UNCHANGED req
  PROVE  Outcomes!Close(q) /\ ToldTo' = ToldTo
<1>1. q \in Requests /\ Serial' = Serial /\ Goto(q, "done")
  BY DEF Serial, Key, End
<1>2. reply'[q] = Error(c) /\ \A p \in Requests \ {q} : reply'[p] = reply[p]
  BY <1>1 DEF End, Keyed, Stored, TypeOK
<1>3. reply[q] = NoReply
  BY <1>1 DEF Keyed, Stored, RequestShape, InFlight
<1>4. ToldTo'[q] = {} /\ ToldTo[q] = {}
  BY <1>1, <1>2, <1>3 DEF ToldTo, Error, NoReply
<1>5. ToldTo' = [ToldTo EXCEPT ![q] = ToldTo[q]]
  BY <1>1, <1>2, <1>4, ToldExtensional
<1>6. ToldTo' = ToldTo
  BY <1>5 DEF ToldTo
<1> QED BY <1>1, <1>6, CloseRefines

\* A handler that goes on stays open, and its client has been told nothing.
LEMMA GoOnRefines ==
  ASSUME Keyed, Settled, NEW q \in Requests, InFlight(q),
         NEW l \in {"begin", "select", "write", "command", "finalize", "answer"}, Goto(q, l),
         UNCHANGED <<req, reply>>
  PROVE  UNCHANGED <<req, OpenNow, EndedNow, ToldTo>>
<1>1. Serial' = Serial
  BY DEF Serial, Key
<1>2. OpenNow' = OpenNow /\ EndedNow' = EndedNow
  BY <1>1 DEF OpenNow, EndedNow, InFlight, Goto, Serial, Keyed, Stored, TypeOK
<1>3. ToldTo' = ToldTo
  BY ToldExtensional
<1> QED BY <1>2, <1>3

\* What happens on a key that is not used serially is invisible.
LEMMA OtherKeysInvisible ==
  ASSUME Keyed, Settled, NEW q \in Requests \ Serial,
         NEW l, pc' = [pc EXCEPT ![q] = l],
         \A p \in Requests \ {q} : reply'[p] = reply[p],
         \A k \in Keys \ {Key(q)} : counted'[k] = counted[k],
         UNCHANGED req
  PROVE  UNCHANGED Outcomes!vars
<1>1. Serial' = Serial
  BY DEF Serial, Key
<1>2. OpenNow' = OpenNow /\ EndedNow' = EndedNow
  BY <1>1 DEF OpenNow, EndedNow, InFlight, Serial, Keyed, Stored, TypeOK
<1>3. ToldTo' = ToldTo
  <2>1. ToldTo'[q] = {} /\ ToldTo[q] = {}
    BY <1>1 DEF ToldTo
  <2>2. ToldTo' = [ToldTo EXCEPT ![q] = ToldTo[q]]
    BY <2>1, ToldExtensional
  <2> QED BY <2>2 DEF ToldTo
<1>4. \A k \in SerialKeys : counted'[k] = counted[k]
  BY IdempotencyAssumption DEF Serial
<1>5. OutcomeOf' = OutcomeOf
  BY <1>4, OutcomesStay
<1> QED BY <1>2, <1>3, <1>5 DEF Outcomes!vars

\* Nobody was told of anything in the initial states.
LEMMA InitRefines == Init => Outcomes!Init
<1> SUFFICES ASSUME Init PROVE Outcomes!Init
  OBVIOUS
<1>1. OutcomeOf = [k \in SerialKeys |-> {}]
  BY IdempotencyAssumption DEF Init, OutcomeOf
<1>2. OpenNow = {} /\ EndedNow = {}
  BY DEF Init, OpenNow, EndedNow, InFlight, Serial
<1>3. ToldTo = [q \in Requests |-> {}]
  BY DEF Init, ToldTo, NoReply
<1> QED BY <1>1, <1>2, <1>3 DEF Outcomes!Init

\* A request received on a free key opens.
LEMMA ReceiveRefines ==
  ASSUME Keyed, Settled, NEW q \in Serial, Receive(q)
  PROVE  Outcomes!Open(q)
<1>1. q \in Requests /\ Serial' = Serial /\ Key(q) \in SerialKeys
  BY DEF Receive, Serial, Key
<1>2. UNCHANGED <<req, reply, counted>> /\ pc[q] = "idle"
  BY DEF Receive
<1>3. q \notin EndedNow
  BY <1>2 DEF EndedNow
<1>4. \A p \in OpenNow : ~Outcomes!Uses(p, req[q].key)
  BY <1>1 DEF Receive, Free, OpenNow, Outcomes!Uses, Serial, Key
<1>5. OpenNow' = OpenNow \cup {q} /\ EndedNow' = EndedNow
  BY <1>1 DEF Receive, Goto, OpenNow, EndedNow, InFlight, Serial, Keyed, Stored, TypeOK
<1>6. OutcomeOf' = OutcomeOf /\ ToldTo' = ToldTo
  BY <1>1, <1>2, OutcomesStay, ToldExtensional
<1> QED BY <1>2, <1>3, <1>4, <1>5, <1>6 DEF Outcomes!Open

\* q ends with the outcome that counts under its key.
LEMMA SuccessRefines ==
  ASSUME Keyed, Settled, NEW q \in Serial, InFlight(q),
         NEW b \in counted[Key(q)], req[b] = req[q],
         End(q, Ok(b)), UNCHANGED <<req, counted, failed>>
  PROVE  Outcomes!Succeed(q)
<1>1. q \in Requests /\ Serial' = Serial /\ Key(q) \in SerialKeys /\ Key(q) \in Keys
      /\ Goto(q, "done")
  BY IdempotencyAssumption DEF Serial, Key, End
<1>2. reply'[q] = Ok(b) /\ \A p \in Requests \ {q} : reply'[p] = reply[p]
  BY <1>1 DEF End, Keyed, Stored, TypeOK
<1>3. b \in committed \cup failed /\ b \in Requests
  BY <1>1 DEF Keyed, Stored, TypeOK
<1>4. b \in committed <=> b \notin failed
  BY <1>3 DEF Keyed, Stored, RequestShape
<1> DEFINE o == [of |-> b, paid |-> b \in committed]
<1>5. o \in OutcomeOf[req[q].key] /\ OutcomeOf' = OutcomeOf
  BY <1>1, OutcomesStay DEF OutcomeOf, Key
<1>6. o = [of |-> b, paid |-> b \notin failed]
  BY <1>4
<1>7. ToldTo'[q] = {o}
  <2>1. ToldTo'[q] = {[of |-> b, paid |-> b \notin failed']}
    BY <1>1, <1>2 DEF ToldTo, Ok
  <2> QED BY <1>6, <2>1
<1>8. ToldTo' = [ToldTo EXCEPT ![q] = {o}]
  BY <1>1, <1>2, <1>7, ToldExtensional
<1>9. req[o.of] = req[q]
  OBVIOUS
<1>10. Outcomes!Close(q)
  BY <1>1, CloseRefines
<1> HIDE DEF o
<1> QED BY <1>5, <1>8, <1>9, <1>10 DEF Outcomes!Succeed

\* On a key that is used serially the stored response is of a command that
\* counts, and with the same payload it is that of an equal request.
LEMMA StoredOutcome ==
  ASSUME Keyed, NEW q \in Serial, ~Mismatch(q), row[Key(q)].status = "completed"
  PROVE  row[Key(q)].body \in counted[Key(q)] /\ req[row[Key(q)].body] = req[q]
<1> DEFINE b == row[Key(q)].body
<1>1. q \in Requests /\ Key(q) \in SerialKeys /\ Key(q) \in Keys
  BY IdempotencyAssumption DEF Serial
<1>2. row[Key(q)] # Absent /\ row[Key(q)].hash = Hash(q) /\ b \in Requests
  BY <1>1 DEF Absent, Mismatch, Keyed, Stored, TypeOK, Row
<1>3. Key(b) = Key(q)
  BY <1>1, <1>2, NoneIsNoRequest DEF Keyed, Stored, StoreShape
<1>4. b \notin disturbed
  BY <1>1, <1>2, <1>3 DEF Keyed, Serial
<1>5. b \in counted[Key(q)]
  BY <1>1, <1>2, <1>4, NoneIsNoRequest DEF Keyed, KeyShape
<1>6. Hash(b) = Hash(q)
  BY <1>1, <1>2, <1>4, <1>5 DEF Keyed, KeyShape
<1>7. ASSUME NEW p \in Requests PROVE req[p] = [key |-> Key(p), hash |-> Hash(p)]
  BY DEF Key, Hash, Keyed, Stored, TypeOK
<1>8. req[b] = req[q]
  BY <1>1, <1>2, <1>3, <1>6, <1>7
<1> QED BY <1>5, <1>8

\* A command that returns on a key used serially is the first that counts.
LEMMA ConcludeRefines ==
  ASSUME Keyed, Settled, NEW q \in Serial, pc[q] = "command", Count(q)
  PROVE  Outcomes!Conclude(q, q \in committed')
<1>1. q \in Requests /\ Key(q) \in SerialKeys /\ Key(q) \in Keys
  BY IdempotencyAssumption DEF Serial
<1>2. counted[Key(q)] = {}
  <2>1. counted[Key(q)] \subseteq disturbed
    BY <1>1, Sole DEF Aside, Early
  <2>2. \A b \in counted[Key(q)] : b \in Requests /\ Key(b) = Key(q)
    BY <1>1 DEF Keyed, Stored, TypeOK, StoreShape
  <2> QED BY <1>1, <2>1, <2>2 DEF Keyed, Serial
<1>3. /\ counted'[Key(q)] = {q}
      /\ \A k \in Keys \ {Key(q)} : counted'[k] = counted[k]
  BY <1>1, <1>2 DEF Count, Keyed, Stored, TypeOK
<1>4. ASSUME NEW k \in SerialKeys, k # Key(q), NEW b \in counted[k]
      PROVE  b \in committed' <=> b \in committed
  <2>1. k \in Keys /\ b \in committed \cup failed /\ b \in Requests
    BY <1>4, IdempotencyAssumption DEF Keyed, Stored, TypeOK
  <2>2. Key(b) = k
    BY <1>4, <2>1 DEF Keyed, Stored, StoreShape
  <2> QED BY <1>4, <2>1, <2>2 DEF Settled, Serial
<1>5. ASSUME NEW k \in SerialKeys
      PROVE  {[of |-> b, paid |-> b \in committed'] : b \in counted'[k]}
             = IF k = Key(q) THEN {[of |-> q, paid |-> q \in committed']}
               ELSE {[of |-> b, paid |-> b \in committed] : b \in counted[k]}
  <2>1. k \in Keys
    BY <1>5, IdempotencyAssumption
  <2> QED BY <1>3, <1>4, <1>5, <2>1
<1>6. OutcomeOf' = [OutcomeOf EXCEPT ![Key(q)] = {[of |-> q, paid |-> q \in committed']}]
  BY <1>1, <1>5 DEF OutcomeOf
<1>7. OutcomeOf[Key(q)] = {}
  BY <1>1, <1>2 DEF OutcomeOf
<1> QED BY <1>6, <1>7 DEF Outcomes!Conclude, Key

\* The cleanup forgets the outcomes of expired keys; none of them is open.
LEMMA CleanupRefines ==
  ASSUME Keyed, Settled, Cleanup
  PROVE  Outcomes!Forget(expired \cap SerialKeys)
<1>1. ASSUME NEW k \in expired \cap SerialKeys, NEW b \in counted[k]
      PROVE  b \notin OpenNow
  <2>1. SUFFICES ASSUME InFlight(b), b \in Serial PROVE FALSE
    BY DEF OpenNow
  <2>2. k \in Keys /\ b \in Requests /\ Key(b) = k /\ b \in committed \cup failed
    BY <1>1, IdempotencyAssumption DEF Keyed, Stored, TypeOK, StoreShape
  <2>3. Holds(b)
    BY <2>1, <2>2 DEF Keyed, Stored, RequestShape, Early, TypeOK, InFlight, Holds
  <2> QED BY <1>1, <2>1, <2>2, <2>3 DEF Keyed, CalmShape
<1>2. \A k \in expired \cap SerialKeys : \A o \in OutcomeOf[k] : o.of \notin OpenNow
  BY <1>1 DEF OutcomeOf
<1>3. OutcomeOf' = [k \in SerialKeys |-> IF k \in expired \cap SerialKeys
                                          THEN {} ELSE OutcomeOf[k]]
  BY IdempotencyAssumption DEF Cleanup, OutcomeOf
<1>4. UNCHANGED <<req, OpenNow, EndedNow, ToldTo>>
  BY DEF Cleanup, Serial, OpenNow, EndedNow, ToldTo, InFlight, Key
<1> QED BY <1>2, <1>3, <1>4 DEF Outcomes!Forget

\* A step of a request whose key is not used serially is invisible.
LEMMA OtherKeysRefine ==
  ASSUME Keyed, Settled, NEW q \in Requests \ Serial,
         \/ Receive(q) \/ Get(q) \/ Begin(q) \/ SaveSelect(q) \/ SaveWrite(q)
         \/ Commit(q) \/ FailTransfer(q) \/ Reject(q)
         \/ Finalize(q) \/ Answer(q) \/ Fault(q)
  PROVE  UNCHANGED Outcomes!vars
<1> USE DEF Receive, Get, Begin, SaveSelect, SaveWrite, Commit, FailTransfer, Reject,
            Finalize, Answer, Fault, TakeEffect, End, Goto
<1>1. \E l : pc' = [pc EXCEPT ![q] = l]
  OBVIOUS
<1>2. \A p \in Requests \ {q} : reply'[p] = reply[p]
  BY DEF Keyed, Stored, TypeOK
<1>3. \A k \in Keys \ {Key(q)} : counted'[k] = counted[k]
  BY DEF Count, Keyed, Stored, TypeOK
<1>4. req' = req
  OBVIOUS
<1> QED BY <1>1, <1>2, <1>3, <1>4, OtherKeysInvisible

\* The handler of a key that is used serially, before its command runs: it is
\* received, refused, told the stored outcome, or goes on unseen.
LEMMA BeforeRefines ==
  ASSUME Keyed, Settled, NEW q \in Serial,
         \/ Receive(q) \/ Get(q) \/ Begin(q) \/ SaveSelect(q) \/ SaveWrite(q) \/ Reject(q)
  PROVE  Outcomes!Next \/ UNCHANGED Outcomes!vars
<1>1. q \in Requests /\ req[q].key \in SerialKeys
  BY DEF Serial, Key
<1>2. CASE Receive(q)
  BY <1>1, <1>2, ReceiveRefines DEF Outcomes!Next
<1>3. CASE ~Receive(q)
  <2>1. InFlight(q) /\ UNCHANGED <<req, committed, failed, counted>>
    BY <1>3 DEF Get, Begin, SaveSelect, SaveWrite, Reject, InFlight
  <2>2. OutcomeOf' = OutcomeOf
    BY <2>1, OutcomesStay
  <2>3. CASE \E c \in {"error", "mismatch", "processing", "completed"} : End(q, Error(c))
    <3>1. Outcomes!Refuse(q)
      BY <2>1, <2>2, <2>3, RefusalRefines DEF Outcomes!Refuse
    <3> QED BY <1>1, <3>1 DEF Outcomes!Next
  <2>4. CASE ~Mismatch(q) /\ row[Key(q)].status = "completed" /\ End(q, Ok(row[Key(q)].body))
    <3>1. Outcomes!Succeed(q)
      BY <2>1, <2>4, StoredOutcome, SuccessRefines
    <3> QED BY <1>1, <3>1 DEF Outcomes!Next
  <2>5. CASE (\E l \in {"begin", "select", "write", "command"} : Goto(q, l)) /\ UNCHANGED reply
    <3>1. UNCHANGED <<req, OpenNow, EndedNow, ToldTo>>
      BY <1>1, <2>1, <2>5, GoOnRefines
    <3> QED BY <2>2, <3>1 DEF Outcomes!vars
  <2>6. Key(q) \in Keys /\ row[Key(q)] \in Row \cup {Absent}
    BY <1>1, RequestType DEF Keyed, Stored, TypeOK
  <2> QED BY <1>3, <2>3, <2>4, <2>5, <2>6
          DEF Get, Begin, SaveSelect, SaveWrite, Reject, Row
<1> QED BY <1>2, <1>3

\* From its command on: it runs to an outcome, which the client is told, unless
\* a fault loses the answer.
LEMMA AfterRefines ==
  ASSUME Keyed, Settled, NEW q \in Serial,
         Commit(q) \/ FailTransfer(q) \/ Finalize(q) \/ Answer(q) \/ Fault(q)
  PROVE  Outcomes!Next \/ UNCHANGED Outcomes!vars
<1>1. q \in Requests /\ req[q].key \in SerialKeys
  BY DEF Serial, Key
<1>2. CASE Commit(q) \/ FailTransfer(q)
  <2>1. /\ pc[q] = "command" /\ Count(q) /\ Goto(q, "finalize") /\ InFlight(q)
        /\ UNCHANGED <<req, reply>>
    BY <1>2 DEF Commit, FailTransfer, TakeEffect, InFlight
  <2>2. Outcomes!Conclude(q, q \in committed')
    BY <2>1, ConcludeRefines
  <2>3. UNCHANGED <<req, OpenNow, EndedNow, ToldTo>> /\ q \in OpenNow
    BY <1>1, <2>1, GoOnRefines DEF OpenNow
  <2>4. (q \in committed') \in BOOLEAN
    OBVIOUS
  <2>5. Outcomes!Run(q)
    BY <2>2, <2>3, <2>4 DEF Outcomes!Run
  <2> QED BY <1>1, <2>5 DEF Outcomes!Next
<1>3. CASE Finalize(q)
  <2>1. /\ Goto(q, "answer") /\ InFlight(q) /\ UNCHANGED <<req, reply, counted>>
    BY <1>3 DEF Finalize, InFlight
  <2>2. UNCHANGED <<req, OpenNow, EndedNow, ToldTo>> /\ OutcomeOf' = OutcomeOf
    BY <1>1, <2>1, GoOnRefines, OutcomesStay
  <2> QED BY <2>2 DEF Outcomes!vars
<1>4. CASE Answer(q)
  <2>1. /\ InFlight(q) /\ End(q, Ok(q)) /\ UNCHANGED <<req, counted, failed>>
        /\ q \in counted[Key(q)]
    BY <1>1, <1>4 DEF Answer, InFlight, Keyed, CalmShape
  <2>2. Outcomes!Succeed(q)
    BY <2>1, SuccessRefines
  <2> QED BY <1>1, <2>2 DEF Outcomes!Next
<1>5. CASE Fault(q)
  <2>1. InFlight(q) /\ req' = req /\ End(q, Error("error"))
    BY <1>5 DEF Fault
  <2>2. Outcomes!Close(q) /\ ToldTo' = ToldTo
    BY <2>1, RefusalRefines
  <2>3. CASE UNCHANGED counted
    <3>1. OutcomeOf' = OutcomeOf
      BY <2>3, OutcomesStay
    <3>2. Outcomes!Refuse(q)
      BY <2>1, <2>2, <3>1 DEF Outcomes!Refuse
    <3> QED BY <1>1, <3>2 DEF Outcomes!Next
  <2>4. CASE pc[q] = "command" /\ TakeEffect(q)
    <3>1. Outcomes!Conclude(q, q \in committed')
      BY <2>4, ConcludeRefines DEF TakeEffect
    <3>2. (q \in committed') = TRUE
      BY <2>4 DEF TakeEffect
    <3>3. Outcomes!Conclude(q, TRUE)
      BY <3>1, <3>2
    <3>4. Outcomes!PayUnheard(q)
      BY <2>1, <2>2, <3>3 DEF Outcomes!PayUnheard
    <3> QED BY <1>1, <3>4 DEF Outcomes!Next
  <2> QED BY <1>5, <2>3, <2>4 DEF Fault
<1> QED BY <1>2, <1>3, <1>4, <1>5

\* Every step is a step of the abstract keys, or invisible to them.
LEMMA NextRefines == Keyed /\ [Next]_vars => [Outcomes!Next]_Outcomes!vars
<1> SUFFICES ASSUME Keyed, [Next]_vars PROVE Outcomes!Next \/ UNCHANGED Outcomes!vars
  OBVIOUS
<1>1. CASE Next
  <2>1. Settled
    BY <1>1, StepSettles
  <2>2. ASSUME NEW q \in Requests,
               \/ Receive(q) \/ Get(q) \/ Begin(q) \/ SaveSelect(q) \/ SaveWrite(q)
               \/ Commit(q) \/ FailTransfer(q) \/ Reject(q)
               \/ Finalize(q) \/ Answer(q) \/ Fault(q)
        PROVE  Outcomes!Next \/ UNCHANGED Outcomes!vars
    <3>1. CASE q \notin Serial
      BY <2>1, <2>2, <3>1, OtherKeysRefine
    <3>2. CASE q \in Serial
      BY <2>1, <2>2, <3>2, BeforeRefines, AfterRefines
    <3> QED BY <3>1, <3>2
  <2>3. ASSUME (\E k \in Keys : Expire(k)) \/ Quiet PROVE UNCHANGED Outcomes!vars
    <3>1. UNCHANGED <<req, pc, reply, committed, failed, counted>>
      BY <2>3 DEF Expire, Quiet, vars
    <3> QED BY <3>1 DEF Outcomes!vars, OutcomeOf, OpenNow, EndedNow, ToldTo, Serial,
                        InFlight, Key
  <2>4. ASSUME Cleanup PROVE Outcomes!Next
    <3>1. Outcomes!Forget(expired \cap SerialKeys)
      BY <2>1, <2>4, CleanupRefines
    <3> QED BY <3>1 DEF Outcomes!Next
  <2> QED BY <1>1, <2>2, <2>3, <2>4 DEF Next
<1>2. CASE UNCHANGED vars
  BY <1>2 DEF vars, Outcomes!vars, OutcomeOf, OpenNow, EndedNow, ToldTo, Serial, InFlight, Key
<1> QED BY <1>1, <1>2

\* The statements of the handlers, with every overlap, retry, fault, lost answer
\* and cleanup, implement keys under which one command runs to an outcome, paid
\* or failed, and whoever is told one is told that.
THEOREM KeysImplemented == Spec => ImplementsOutcomes
<1>1. Init => Outcomes!Init
  BY InitRefines
<1>2. Keyed /\ [Next]_vars => [Outcomes!Next]_Outcomes!vars
  BY NextRefines
<1> QED BY <1>1, <1>2, AlwaysKeyed, PTL DEF Spec, ImplementsOutcomes, Outcomes!Spec
=============================================================================
