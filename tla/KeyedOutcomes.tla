--------------------------- MODULE KeyedOutcomes ---------------------------
(***************************************************************************)
(* What an idempotency key promises a client that uses it serially: one    *)
(* command runs to an outcome under it, paid or failed, and whoever is     *)
(* given an outcome is given that one.  A request may be refused at any    *)
(* time, also when only the answer of its command is lost, and an outcome  *)
(* is forgotten only when the request it is of has been answered.          *)
(***************************************************************************)
CONSTANTS Keys, Requests, SerialKeys

VARIABLES
  req,     \* req[q]: key and payload of request q
  outcome, \* outcome[k]: the outcome of key k, a set of one record when it has one
  open,    \* requests that have been received and not answered
  ended,   \* requests that have been answered, with an outcome or a refusal
  told     \* told[q]: the outcome that q was told, if any

vars == <<req, outcome, open, ended, told>>

Init ==
  /\ outcome = [k \in SerialKeys |-> {}]
  /\ open = {}
  /\ ended = {}
  /\ told = [q \in Requests |-> {}]

Uses(p, k) == req[p].key = k

Open(q) ==
  /\ q \notin ended
  /\ \A p \in open : ~Uses(p, req[q].key)
  /\ open' = open \cup {q}
  /\ UNCHANGED <<req, outcome, ended, told>>

Close(q) ==
  /\ q \in open
  /\ open' = open \ {q}
  /\ ended' = ended \cup {q}

Conclude(q, paid) ==
  /\ outcome[req[q].key] = {}
  /\ outcome' = [outcome EXCEPT ![req[q].key] = {[of |-> q, paid |-> paid]}]

\* The command runs to its outcome.
Run(q) ==
  /\ q \in open
  /\ \E paid \in BOOLEAN : Conclude(q, paid)
  /\ UNCHANGED <<req, open, ended, told>>

\* The command takes effect and its answer is lost in the same step.
PayUnheard(q) ==
  /\ Conclude(q, TRUE)
  /\ Close(q)
  /\ UNCHANGED <<req, told>>

Refuse(q) ==
  /\ Close(q)
  /\ UNCHANGED <<req, outcome, told>>

\* q is told the outcome, its own or that of an equal request before it.
Succeed(q) ==
  /\ Close(q)
  /\ \E o \in outcome[req[q].key] :
       req[o.of] = req[q] /\ told' = [told EXCEPT ![q] = {o}]
  /\ UNCHANGED <<req, outcome>>

Forget(K) ==
  /\ \A k \in K : \A o \in outcome[k] : o.of \notin open
  /\ outcome' = [k \in SerialKeys |-> IF k \in K THEN {} ELSE outcome[k]]
  /\ UNCHANGED <<req, open, ended, told>>

Next ==
  \/ \E q \in Requests :
       /\ req[q].key \in SerialKeys
       /\ Open(q) \/ Run(q) \/ PayUnheard(q) \/ Succeed(q) \/ Refuse(q)
  \/ \E K \in SUBSET SerialKeys : Forget(K)

Spec == Init /\ [][Next]_vars
=============================================================================
