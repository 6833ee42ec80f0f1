------------------------- MODULE EventConsumerProofs -------------------------
(***************************************************************************)
(* Proofs about EventConsumer for all events and copies of them, every     *)
(* prefetch and threshold, and every number of faults and replays.         *)
(*                                                                         *)
(* Handling, the inductive invariant, is a conjunction of parts that keep  *)
(* themselves once the state is well typed: what an ack relies on, what    *)
(* keeps a wallet flagged, and how often a copy may still count, for       *)
(* copies that come together and for copies that come one by one.          *)
(* Exact adds to it what a handler holds of the row of a known wallet, and *)
(* that the columns of that row add up.                                    *)
(***************************************************************************)
EXTENDS EventConsumer, SumTheorems, FiniteSetTheorems, TLAPS

\* What the table of processed events and the handlers know of the analytics.
Acknowledged ==
  /\ \A e \in consumed : HasAnalytics(e) => applied[e] > 0
  /\ \A d \in Messages :
       /\ pc[d] \in {"find", "select", "write"} => HasAnalytics(Deliveries[d])
       /\ pc[d] \in {"mark", "insert"} /\ HasAnalytics(Deliveries[d])
            => applied[Deliveries[d]] > 0
       /\ pc[d] = "ack" \/ message[d] = "acked" => Deliveries[d] \in consumed

Reviewed(s) == s.withdrawn >= RapidWithdrawal => s.flagged

\* A row, and what a handler makes of one, is flagged when it should be; the row
\* that a handler has seen is still there, and has kept its flag.
Flags ==
  /\ \A w \in Wallets : Reviewed(stats[w])
  /\ \A d \in Messages :
       /\ Reviewed(entity[d])
       /\ \A s \in seen[d] : Wallet(d) \in rows /\ (s.flagged => stats[Wallet(d)].flagged)

\* The copies of e that may yet have its analytics committed.
MayApply(e) ==
  {d \in Copies(e) : message[d] = "queued" \/ pc[d] \in {"check", "find", "select", "write"}}

\* How often an event may count whose copies are those in S: each copy once a
\* round, of which every fault begins a new one, and once for every replay.
Room(S) == Cardinality(S) * (1 + faults) + replays

\* There is room for the copies in S that may still count.
Fits(e, S) == applied[e] + Cardinality(MayApply(e) \cap S) <= Room(S)

\* Copies that come together: each of them counts once a round.
Together == ~spaced => \A e \in Ids : Fits(e, Copies(e))

\* e is in consumed_events, or about to be.
Marked(e) ==
  e \in consumed \/ \E d \in Copies(e) : pc[d] \in {"mark", "insert"}

\* Copies that come one after another: a round that has not marked the event
\* may still count.
OneByOne ==
  spaced =>
    /\ \A x, y \in Messages :
         message[x] = "inflight" /\ message[y] = "inflight" /\ Deliveries[x] = Deliveries[y]
           => x = y
    /\ \A d \in Messages :
         pc[d] \in {"find", "select", "write", "mark", "insert"} => Deliveries[d] \notin consumed
    /\ \A e \in Ids : applied[e] + (IF Marked(e) THEN 0 ELSE 1) <= 1 + faults

Handling == TypeOK /\ Acknowledged /\ Flags /\ Together /\ OneByOne

-----------------------------------------------------------------------------
(* Types *)

\* An event has a wallet and an amount.
LEMMA EventType ==
  ASSUME NEW d \in Messages
  PROVE  /\ Deliveries[d] \in Ids /\ Event(d).type \in EventTypes
         /\ Wallet(d) \in Wallets /\ Event(d).amount \in Nat
         /\ HasAnalytics(Deliveries[d]) <=> Event(d).type \in {"FundsDeposited", "FundsWithdrawn"}
<1>1. Deliveries[d] \in Ids
  BY ConsumerAssumption
<1>2. Events[Deliveries[d]] \in [type : EventTypes, wallet : Wallets, amount : Nat]
  BY <1>1, ConsumerAssumption
<1> QED BY <1>1, <1>2 DEF Event, Wallet, HasAnalytics

\* A row stays a row when an event is applied to it.
LEMMA ApplyType ==
  ASSUME NEW d \in Messages, NEW s \in Stats
  PROVE  Apply(d, s) \in Stats
<1>1. Event(d).amount \in Nat
  BY EventType
<1>2. s.deposited + Event(d).amount \in Nat /\ s.deposits + 1 \in Nat
  BY <1>1 DEF Stats
<1>3. s.withdrawn + Event(d).amount \in Nat /\ s.withdrawals + 1 \in Nat
  BY <1>1 DEF Stats
<1>4. (s.flagged \/ Suspicious(Event(d).amount, s.withdrawn + Event(d).amount)) \in BOOLEAN
  OBVIOUS
<1> QED BY <1>2, <1>3, <1>4 DEF Apply, Stats

\* A row stays a row when the columns that differ are written.
LEMMA UpdatedType ==
  ASSUME TypeOK, NEW d \in Messages, NEW old \in Stats
  PROVE  /\ Updated(d, old) \in Stats
         /\ Updated(d, old).withdrawn \in {old.withdrawn, entity[d].withdrawn}
<1>1. entity[d] \in Stats
  BY DEF TypeOK
<1>2. DOMAIN old = {"deposited", "deposits", "withdrawn", "withdrawals", "flagged"}
  BY DEF Stats
<1>3. \A f \in DOMAIN old : Updated(d, old)[f] \in {old[f], entity[d][f]}
  BY DEF Updated
<1>4. DOMAIN Updated(d, old) = DOMAIN old
  BY DEF Updated
<1> QED BY <1>1, <1>2, <1>3, <1>4 DEF Stats, Updated

\* No row, no message delivered: the initial state is well typed.
LEMMA InitType == Init => TypeOK
<1> SUFFICES ASSUME Init PROVE TypeOK
  OBVIOUS
<1>1. Zero \in Stats
  BY DEF Zero, Stats
<1>2. known \subseteq Wallets /\ spaced \in BOOLEAN
  BY ConsumerAssumption DEF Init
<1> QED BY <1>1, <1>2 DEF Init, TypeOK

\* Where a handler is.
Places == {"idle", "check", "find", "select", "write", "mark", "insert", "ack", "nack"}

\* A handler that goes on keeps the type of its place, and its message
\* unacknowledged.
LEMMA GotoType ==
  ASSUME TypeOK, NEW d \in Messages, NEW l \in Places \ {"idle"}, pc[d] # "idle",
         Goto(d, l), UNCHANGED message
  PROVE  /\ pc' \in [Messages -> Places]
         /\ \A x \in Messages : message'[x] = "inflight" <=> pc'[x] # "idle"
BY DEF TypeOK, Goto, Places

\* The type invariant, for what most steps leave alone.
LEMMA MemoryType ==
  ASSUME TypeOK,
         pc' \in [Messages -> Places],
         message' \in [Messages -> {"queued", "inflight", "acked", "dead"}],
         \A x \in Messages : message'[x] = "inflight" <=> pc'[x] # "idle",
         entity' \in [Messages -> Stats], seen' \in [Messages -> SUBSET Stats],
         rowLock' \in [Messages -> SUBSET Wallets],
         UNCHANGED <<known, spaced, rows, stats, applied>>,
         consumed' \subseteq Ids, faults' \in Nat, replays' \in Nat
  PROVE  TypeOK'
BY DEF TypeOK, Places

\* Ending a transaction keeps the types of what it ends.
LEMMA EndTxType ==
  ASSUME TypeOK, NEW d \in Messages, EndTx(d)
  PROVE  /\ entity' \in [Messages -> Stats] /\ seen' \in [Messages -> SUBSET Stats]
         /\ rowLock' \in [Messages -> SUBSET Wallets]
<1>1. Zero \in Stats
  BY DEF Zero, Stats
<1> QED BY <1>1 DEF EndTx, TypeOK

\* The transaction of an event commits, or finds its row inserted by another.
LEMMA WriteType ==
  ASSUME TypeOK, NEW d \in Messages, Write(d)
  PROVE  TypeOK'
<1>1. Deliveries[d] \in Ids /\ Wallet(d) \in Wallets
  BY EventType
<1>2. entity[d] \in Stats /\ stats[Wallet(d)] \in Stats
  BY <1>1 DEF TypeOK
<1>3. Updated(d, stats[Wallet(d)]) \in Stats
  BY <1>2, UpdatedType
<1>4. stats' \in [Wallets -> Stats]
  BY <1>1, <1>2, <1>3 DEF TypeOK, Write
<1>5. applied' \in [Ids -> Nat]
  BY <1>1 DEF TypeOK, Write
<1>6. known' \subseteq rows' /\ rows' \subseteq Wallets /\ spaced' \in BOOLEAN
  BY <1>1 DEF TypeOK, Write, setting
<1>7. /\ pc' \in [Messages -> Places]
      /\ \A x \in Messages : message'[x] = "inflight" <=> pc'[x] # "idle"
  BY GotoType DEF Write, Places
<1>8. EndTx(d) /\ UNCHANGED <<consumed, message, faults, replays>>
  BY DEF Write, setting
<1>9. /\ entity' \in [Messages -> Stats] /\ seen' \in [Messages -> SUBSET Stats]
      /\ rowLock' \in [Messages -> SUBSET Wallets]
  BY <1>8, EndTxType
<1> QED BY <1>4, <1>5, <1>6, <1>7, <1>8, <1>9 DEF TypeOK, Places

\* Every step keeps the types.
LEMMA NextType == TypeOK /\ [Next]_vars => TypeOK'
<1> SUFFICES ASSUME TypeOK, [Next]_vars PROVE TypeOK'
  OBVIOUS
<1> USE DEF setting, db
<1>1. ASSUME NEW d \in Messages, Deliver(d) PROVE TypeOK'
  <2>1. /\ message' = [message EXCEPT ![d] = "inflight"]
        /\ pc' = [pc EXCEPT ![d] = "check"]
    BY <1>1 DEF Deliver, Goto
  <2>2. UNCHANGED <<known, spaced, replays, rows, stats, consumed, applied, entity, seen, rowLock, faults>>
    BY <1>1 DEF Deliver
  <2> QED BY <2>1, <2>2, MemoryType DEF TypeOK, Places
<1>2. ASSUME NEW d \in Messages, Check(d) \/ MarkSelect(d) \/ MarkInsert(d) PROVE TypeOK'
  <2>1. \E l \in Places \ {"idle"} : Goto(d, l)
    BY <1>2 DEF Check, MarkSelect, MarkInsert, Places
  <2>2. /\ pc[d] # "idle" /\ consumed' \subseteq Ids
        /\ UNCHANGED <<known, spaced, replays, rows, stats, applied, message, entity, seen, rowLock, faults>>
    BY <1>2, EventType DEF Check, MarkSelect, MarkInsert, TypeOK
  <2>3. /\ pc' \in [Messages -> Places]
        /\ \A x \in Messages : message'[x] = "inflight" <=> pc'[x] # "idle"
    BY <2>1, <2>2, GotoType
  <2> QED BY <2>2, <2>3, MemoryType DEF TypeOK
<1>3. ASSUME NEW d \in Messages, Find(d) \/ SaveSelect(d) PROVE TypeOK'
  <2>1. (Goto(d, "select") \/ Goto(d, "write")) /\ pc[d] # "idle"
    BY <1>3 DEF Find, SaveSelect
  <2>2. UNCHANGED <<known, spaced, replays, rows, stats, consumed, applied, message, faults>>
    BY <1>3 DEF Find, SaveSelect
  <2>3. /\ pc' \in [Messages -> Places]
        /\ \A x \in Messages : message'[x] = "inflight" <=> pc'[x] # "idle"
    BY <2>1, <2>2, GotoType DEF Places
  <2>4. stats[Wallet(d)] \in Stats /\ Zero \in Stats /\ Wallet(d) \in Wallets
    BY EventType DEF Zero, Stats, TypeOK
  <2>5. Apply(d, IF Wallet(d) \in rows THEN stats[Wallet(d)] ELSE Zero) \in Stats
    BY <2>4, ApplyType
  <2>6. /\ entity' \in [Messages -> Stats] /\ seen' \in [Messages -> SUBSET Stats]
        /\ rowLock' \in [Messages -> SUBSET Wallets]
    BY <1>3, <2>4, <2>5 DEF Find, SaveSelect, TypeOK
  <2> QED BY <2>2, <2>3, <2>6, MemoryType DEF TypeOK
<1>4. ASSUME NEW d \in Messages, Settle(d) PROVE TypeOK'
  <2>1. /\ \E r \in {"acked", "dead"} : message' = [message EXCEPT ![d] = r]
        /\ pc' = [pc EXCEPT ![d] = "idle"]
    BY <1>4 DEF Settle, Goto
  <2>2. UNCHANGED <<known, spaced, replays, rows, stats, consumed, applied, entity, seen, rowLock, faults>>
    BY <1>4 DEF Settle
  <2> QED BY <2>1, <2>2, MemoryType DEF TypeOK, Places
<1>5. ASSUME NEW d \in Messages, Fail(d) PROVE TypeOK'
  <2>1. /\ Goto(d, "nack") /\ pc[d] # "idle" /\ EndTx(d) /\ faults' \in Nat
        /\ UNCHANGED <<known, spaced, replays, rows, stats, consumed, applied, message>>
    BY <1>5 DEF Fail, TypeOK
  <2>2. /\ pc' \in [Messages -> Places]
        /\ \A x \in Messages : message'[x] = "inflight" <=> pc'[x] # "idle"
    BY <2>1, GotoType DEF Places
  <2>3. /\ entity' \in [Messages -> Stats] /\ seen' \in [Messages -> SUBSET Stats]
        /\ rowLock' \in [Messages -> SUBSET Wallets]
    BY <2>1, EndTxType
  <2> QED BY <2>1, <2>2, <2>3, MemoryType DEF TypeOK
<1>6. ASSUME Crash PROVE TypeOK'
  <2>1. Zero \in Stats
    BY DEF Zero, Stats
  <2>2. /\ message' \in [Messages -> {"queued", "inflight", "acked", "dead"}]
        /\ \A x \in Messages : message'[x] # "inflight" /\ pc'[x] = "idle"
        /\ pc' \in [Messages -> Places]
    BY <1>6 DEF Crash, TypeOK, Places
  <2>3. /\ entity' \in [Messages -> Stats] /\ seen' \in [Messages -> SUBSET Stats]
        /\ rowLock' \in [Messages -> SUBSET Wallets]
    BY <1>6, <2>1 DEF Crash
  <2>4. UNCHANGED <<known, spaced, replays, rows, stats, consumed, applied>> /\ faults' \in Nat
    BY <1>6 DEF Crash, TypeOK
  <2> QED BY <2>2, <2>3, <2>4, MemoryType DEF TypeOK
<1>7. ASSUME NEW d \in Messages, Replay(d) PROVE TypeOK'
  <2>1. /\ message[d] = "dead" /\ message' = [message EXCEPT ![d] = "queued"] /\ replays' \in Nat
        /\ UNCHANGED <<known, spaced, rows, stats, consumed, applied, pc, entity, seen, rowLock, faults>>
    BY <1>7 DEF Replay, TypeOK
  <2> QED BY <2>1, MemoryType DEF TypeOK, Places
<1>8. ASSUME UNCHANGED vars PROVE TypeOK'
  BY <1>8 DEF vars, TypeOK
<1> QED BY <1>1, <1>2, <1>3, <1>4, <1>5, <1>6, <1>7, <1>8, WriteType DEF Next, Step, Quiet

-----------------------------------------------------------------------------
(* Acknowledged *)

\* What Acknowledged says of one message.
AckShape(d) ==
  /\ pc[d] \in {"find", "select", "write"} => HasAnalytics(Deliveries[d])
  /\ pc[d] \in {"mark", "insert"} /\ HasAnalytics(Deliveries[d])
       => applied[Deliveries[d]] > 0
  /\ pc[d] = "ack" \/ message[d] = "acked" => Deliveries[d] \in consumed

\* A step of d moves no other handler and settles no other message.
Alone(d) == \A x \in Messages \ {d} : pc'[x] = pc[x] /\ message'[x] = message[x]

\* Analytics are only added, and so are processed events.
LEMMA AckStep ==
  ASSUME TypeOK, TypeOK', Acknowledged, NEW d \in Messages, Alone(d), AckShape(d)',
         \A e \in Ids : applied'[e] >= applied[e],
         consumed \subseteq consumed',
         \A e \in consumed' \ consumed : HasAnalytics(e) => applied'[e] > 0
  PROVE  Acknowledged'
<1>1. \A e \in Ids : applied[e] \in Nat /\ applied'[e] \in Nat
  BY DEF TypeOK
<1>2. consumed' \subseteq Ids /\ \A x \in Messages : Deliveries[x] \in Ids
  BY EventType DEF TypeOK
<1>3. \A e \in consumed' : HasAnalytics(e) => applied'[e] > 0
  BY <1>1, <1>2 DEF Acknowledged
<1>4. ASSUME NEW x \in Messages \ {d} PROVE AckShape(x)'
  <2>1. AckShape(x) /\ Deliveries[x] \in Ids /\ pc'[x] = pc[x] /\ message'[x] = message[x]
    BY <1>2 DEF Acknowledged, AckShape, Alone
  <2> QED BY <1>1, <2>1 DEF AckShape
<1> QED BY <1>3, <1>4 DEF Acknowledged, AckShape

\* Every step keeps what an acknowledgement relies on.
LEMMA NextAcknowledged == TypeOK /\ TypeOK' /\ Acknowledged /\ [Next]_vars => Acknowledged'
<1> SUFFICES ASSUME TypeOK, TypeOK', Acknowledged, [Next]_vars PROVE Acknowledged'
  OBVIOUS
<1> USE DEF setting, db
<1>0. \A e \in Ids : applied[e] \in Nat
  BY DEF TypeOK
<1>1. ASSUME NEW d \in Messages, NEW l \in Places, pc' = [pc EXCEPT ![d] = l], Alone(d),
             UNCHANGED <<applied, consumed>>, AckShape(d)'
      PROVE  Acknowledged'
  <2>1. (\A e \in Ids : applied'[e] >= applied[e]) /\ consumed' = consumed
    BY <1>0, <1>1
  <2> QED BY <1>1, <2>1, AckStep
<1>2. ASSUME NEW d \in Messages PROVE AckShape(d) /\ Deliveries[d] \in Ids
  BY EventType DEF Acknowledged, AckShape
<1>3. ASSUME NEW d \in Messages, Deliver(d) \/ Check(d) \/ Find(d) \/ SaveSelect(d) \/ MarkSelect(d)
      PROVE  Acknowledged'
  <2>1. /\ \E l \in Places : pc' = [pc EXCEPT ![d] = l]
        /\ Alone(d) /\ UNCHANGED <<applied, consumed>>
    BY <1>3 DEF Deliver, Check, Find, SaveSelect, MarkSelect, Goto, Places, Alone, TypeOK
  <2>2. AckShape(d)'
    <3>1. CASE Deliver(d)
      BY <1>2, <3>1 DEF Deliver, Goto, AckShape, TypeOK
    <3>2. CASE Check(d)
      BY <1>2, <3>2, EventType DEF Check, Goto, AckShape, TypeOK
    <3>3. CASE Find(d) \/ SaveSelect(d)
      BY <1>2, <3>3 DEF Find, SaveSelect, Goto, AckShape, TypeOK
    <3>4. CASE MarkSelect(d)
      BY <1>2, <3>4 DEF MarkSelect, Goto, AckShape, TypeOK
    <3> QED BY <1>3, <3>1, <3>2, <3>3, <3>4
  <2> QED BY <1>1, <2>1, <2>2
<1>4. ASSUME NEW d \in Messages, Settle(d) \/ Fail(d) PROVE Acknowledged'
  <2>1. /\ \E l \in Places : pc' = [pc EXCEPT ![d] = l]
        /\ Alone(d) /\ UNCHANGED <<applied, consumed>>
    BY <1>4 DEF Settle, Fail, Goto, Places, Alone, TypeOK
  <2>2. AckShape(d)'
    BY <1>2, <1>4 DEF Settle, Fail, Goto, AckShape, TypeOK
  <2> QED BY <1>1, <2>1, <2>2
<1>5. ASSUME NEW d \in Messages, Write(d) PROVE Acknowledged'
  <2>1. /\ Alone(d) /\ consumed' = consumed /\ message' = message
        /\ \/ pc'[d] = "nack" /\ applied' = applied
           \/ pc'[d] = "mark" /\ applied' = [applied EXCEPT ![Deliveries[d]] = @ + 1]
    BY <1>5 DEF Write, Goto, Alone, TypeOK
  <2>2. Deliveries[d] \in Ids /\ applied[Deliveries[d]] \in Nat
    BY <1>0, <1>2
  <2>3. \A e \in Ids : applied'[e] >= applied[e]
    BY <1>0, <2>1, <2>2 DEF TypeOK
  <2>4. pc'[d] = "mark" => applied'[Deliveries[d]] > 0
    BY <2>1, <2>2 DEF TypeOK
  <2>5. AckShape(d)'
    BY <1>2, <1>5, <2>1, <2>4 DEF Write, AckShape, TypeOK
  <2> QED BY <2>1, <2>3, <2>5, AckStep
<1>6. ASSUME NEW d \in Messages, MarkInsert(d) PROVE Acknowledged'
  <2>1. /\ Alone(d) /\ message' = message /\ applied' = applied
        /\ pc[d] = "insert" /\ pc'[d] \in {"ack", "nack"}
        /\ consumed' = consumed \cup {Deliveries[d]}
    BY <1>6 DEF MarkInsert, Goto, Alone, TypeOK
  <2>2. HasAnalytics(Deliveries[d]) => applied'[Deliveries[d]] > 0
    BY <1>2, <2>1 DEF AckShape
  <2>3. AckShape(d)'
    BY <1>2, <2>1 DEF AckShape
  <2>4. \A e \in Ids : applied'[e] >= applied[e]
    BY <1>0, <2>1
  <2> QED BY <2>1, <2>2, <2>3, <2>4, AckStep
<1>7. ASSUME Crash PROVE Acknowledged'
  <2>1. /\ \A x \in Messages : pc'[x] = "idle" /\ (message'[x] = "acked" => message[x] = "acked")
        /\ UNCHANGED <<applied, consumed>>
    BY <1>7 DEF Crash
  <2> QED BY <2>1 DEF Acknowledged
<1>8. ASSUME NEW d \in Messages, Replay(d) PROVE Acknowledged'
  <2>1. /\ \A x \in Messages : message'[x] = "acked" => message[x] = "acked"
        /\ UNCHANGED <<pc, applied, consumed>>
    BY <1>8 DEF Replay, TypeOK
  <2> QED BY <2>1 DEF Acknowledged
<1>9. ASSUME UNCHANGED vars PROVE Acknowledged'
  BY <1>9 DEF vars, Acknowledged
<1> QED BY <1>3, <1>4, <1>5, <1>6, <1>7, <1>8, <1>9 DEF Next, Step, Quiet

-----------------------------------------------------------------------------
(* Flags *)

\* The threshold is not reached by a new row.
LEMMA ZeroReviewed == Zero \in Stats /\ Reviewed(Zero)
BY ConsumerAssumption DEF Zero, Stats, Reviewed

\* The heuristics flag what reaches the threshold.
LEMMA ApplyReviewed ==
  ASSUME NEW d \in Messages, NEW s \in Stats, Reviewed(s)
  PROVE  Reviewed(Apply(d, s))
<1>1. s.withdrawn \in Nat /\ Event(d).amount \in Nat /\ RapidWithdrawal \in Nat
  BY EventType, ConsumerAssumption DEF Stats
<1>2. CASE Event(d).type = "FundsDeposited"
  BY <1>2 DEF Apply, Reviewed, Stats
<1>3. CASE Event(d).type # "FundsDeposited"
  <2>1. /\ Apply(d, s).withdrawn = s.withdrawn + Event(d).amount
        /\ Apply(d, s).flagged = (s.flagged \/ Suspicious(Event(d).amount, s.withdrawn + Event(d).amount))
    BY <1>3 DEF Apply, Stats
  <2> QED BY <2>1 DEF Reviewed, Suspicious
<1> QED BY <1>2, <1>3

\* Written column by column, a row keeps its flag, and gets one with the total
\* that calls for it: a flag that is not written has been seen set.
LEMMA UpdatedReviewed ==
  ASSUME TypeOK, Flags, NEW d \in Messages, seen[d] # {}
  PROVE  LET old == stats[Wallet(d)]
             new == Updated(d, old)
         IN  Reviewed(new) /\ (old.flagged => new.flagged)
<1> DEFINE old == stats[Wallet(d)]
           new == Updated(d, old)
<1>1. old \in Stats /\ entity[d] \in Stats /\ seen[d] \subseteq Stats /\ new \in Stats
  BY EventType, UpdatedType DEF TypeOK
<1>2. /\ "flagged" \in DOMAIN old /\ "withdrawn" \in DOMAIN old
      /\ \A f \in DOMAIN old :
           new[f] = IF f \in Assigned(d) /\ \E s \in seen[d] : s[f] # entity[d][f]
                    THEN entity[d][f] ELSE old[f]
  BY <1>1 DEF Updated, Stats
<1>3. "flagged" \in Assigned(d) => entity[d].flagged
  BY DEF Assigned
<1>4. old.flagged => new.flagged
  BY <1>2, <1>3
<1>5. Reviewed(old) /\ Reviewed(entity[d])
  BY EventType DEF Flags
<1>6. CASE new.withdrawn = old.withdrawn
  BY <1>4, <1>5, <1>6 DEF Reviewed
<1>7. CASE new.withdrawn # old.withdrawn
  <2>1. "withdrawn" \in Assigned(d) /\ new.withdrawn = entity[d].withdrawn
    BY <1>2, <1>7
  <2>2. entity[d].flagged => "flagged" \in Assigned(d)
    BY <2>1 DEF Assigned
  <2>3. ASSUME entity[d].flagged PROVE new.flagged
    <3>1. PICK s \in seen[d] : s \in Stats
      BY <1>1
    <3>2. CASE s.flagged
      BY <1>4, <3>1, <3>2 DEF Flags
    <3>3. CASE ~s.flagged
      BY <1>2, <2>2, <2>3, <3>1, <3>3
    <3> QED BY <3>2, <3>3
  <2>4. new.withdrawn >= RapidWithdrawal => entity[d].flagged
    BY <1>5, <2>1 DEF Reviewed
  <2> QED BY <1>4, <2>3, <2>4 DEF Reviewed
<1> QED BY <1>6, <1>7

\* The transaction of an event leaves every row reviewed.
LEMMA WriteFlags ==
  ASSUME TypeOK, TypeOK', Flags, NEW d \in Messages, Write(d)
  PROVE  Flags'
<1> DEFINE w == Wallet(d)
<1>1. w \in Wallets /\ \A x \in Messages : Wallet(x) \in Wallets
  BY EventType
<1>2. /\ \A x \in Messages \ {d} : entity'[x] = entity[x] /\ seen'[x] = seen[x]
      /\ entity'[d] = Zero /\ seen'[d] = {}
  BY DEF Write, EndTx, TypeOK
<1>3. Reviewed(entity'[d]) /\ \A x \in Messages \ {d} : Reviewed(entity'[x])
  BY <1>2, ZeroReviewed DEF Flags
<1>4. CASE UNCHANGED <<rows, stats>>
  BY <1>2, <1>3, <1>4 DEF Flags, Reviewed
<1>5. CASE /\ seen[d] = {} /\ w \notin rows /\ rows' = rows \cup {w}
           /\ stats' = [stats EXCEPT ![w] = entity[d]]
  <2>1. stats'[w] = entity[d] /\ \A v \in Wallets \ {w} : stats'[v] = stats[v]
    BY <1>1, <1>5 DEF TypeOK
  <2>2. \A v \in Wallets : Reviewed(stats'[v])
    BY <2>1 DEF Flags
  <2>3. \A x \in Messages : \A s \in seen'[x] : Wallet(x) # w
    BY <1>2, <1>5 DEF Flags
  <2>4. \A x \in Messages : \A s \in seen'[x] :
          Wallet(x) \in rows' /\ (s.flagged => stats'[Wallet(x)].flagged)
    BY <1>1, <1>2, <1>5, <2>1, <2>3 DEF Flags
  <2> QED BY <1>3, <2>2, <2>4 DEF Flags, Reviewed
<1>6. CASE /\ seen[d] # {} /\ rows' = rows
           /\ stats' = [stats EXCEPT ![w] = Updated(d, @)]
  <2>1. stats'[w] = Updated(d, stats[w]) /\ \A v \in Wallets \ {w} : stats'[v] = stats[v]
    BY <1>1, <1>6 DEF TypeOK
  <2>2. Reviewed(stats'[w]) /\ (stats[w].flagged => stats'[w].flagged)
    BY <1>6, <2>1, UpdatedReviewed
  <2>3. \A v \in Wallets : Reviewed(stats'[v]) /\ (stats[v].flagged => stats'[v].flagged)
    BY <2>1, <2>2 DEF Flags
  <2>4. \A x \in Messages : \A s \in seen'[x] :
          Wallet(x) \in rows' /\ (s.flagged => stats'[Wallet(x)].flagged)
    BY <1>1, <1>2, <1>6, <2>3 DEF Flags
  <2> QED BY <1>3, <2>3, <2>4 DEF Flags, Reviewed
<1> QED BY <1>4, <1>5, <1>6 DEF Write

\* Every step keeps every row, and what is made of it, reviewed.
LEMMA NextFlags == TypeOK /\ TypeOK' /\ Flags /\ [Next]_vars => Flags'
<1> SUFFICES ASSUME TypeOK, TypeOK', Flags, [Next]_vars PROVE Flags'
  OBVIOUS
<1> USE DEF setting, db
<1>1. ASSUME UNCHANGED <<rows, stats, entity, seen>> PROVE Flags'
  BY <1>1 DEF Flags, Reviewed
<1>2. ASSUME NEW d \in Messages,
             Deliver(d) \/ Check(d) \/ MarkSelect(d) \/ MarkInsert(d) \/ Settle(d) \/ Replay(d)
      PROVE  Flags'
  <2>1. UNCHANGED <<rows, stats, entity, seen>>
    BY <1>2 DEF Deliver, Check, MarkSelect, MarkInsert, Settle, Replay
  <2> QED BY <1>1, <2>1
<1>3. ASSUME NEW d \in Messages, Find(d) PROVE Flags'
  <2>1. Wallet(d) \in Wallets /\ stats[Wallet(d)] \in Stats /\ Reviewed(stats[Wallet(d)])
    BY EventType DEF TypeOK, Flags
  <2>2. Reviewed(Apply(d, IF Wallet(d) \in rows THEN stats[Wallet(d)] ELSE Zero))
    BY <2>1, ZeroReviewed, ApplyReviewed
  <2>3. /\ UNCHANGED <<rows, stats, seen>>
        /\ entity' = [entity EXCEPT ![d] = Apply(d, IF Wallet(d) \in rows THEN stats[Wallet(d)] ELSE Zero)]
    BY <1>3 DEF Find
  <2>4. \A x \in Messages : Reviewed(entity'[x])
    BY <2>2, <2>3 DEF TypeOK, Flags
  <2> QED BY <2>3, <2>4 DEF Flags, Reviewed
<1>4. ASSUME NEW d \in Messages, SaveSelect(d) PROVE Flags'
  <2>1. /\ UNCHANGED <<rows, stats, entity>>
        /\ seen' = [seen EXCEPT ![d] = IF Wallet(d) \in rows THEN {stats[Wallet(d)]} ELSE {}]
    BY <1>4 DEF SaveSelect
  <2>2. \A x \in Messages : \A s \in seen'[x] :
          Wallet(x) \in rows /\ (s.flagged => stats[Wallet(x)].flagged)
    BY <2>1 DEF TypeOK, Flags
  <2> QED BY <2>1, <2>2 DEF Flags, Reviewed
<1>5. ASSUME Crash \/ \E d \in Messages : Fail(d) PROVE Flags'
  <2>1. /\ UNCHANGED <<rows, stats>>
        /\ \A x \in Messages : \/ entity'[x] = Zero /\ seen'[x] = {}
                               \/ entity'[x] = entity[x] /\ seen'[x] = seen[x]
    BY <1>5 DEF Crash, Fail, EndTx, TypeOK
  <2>2. \A x \in Messages : Reviewed(entity'[x])
    BY <2>1, ZeroReviewed DEF Flags
  <2> QED BY <2>1, <2>2 DEF Flags, Reviewed
<1>6. ASSUME UNCHANGED vars PROVE Flags'
  BY <1>1, <1>6 DEF vars
<1> QED BY <1>2, <1>3, <1>4, <1>5, <1>6, WriteFlags DEF Next, Step, Quiet

-----------------------------------------------------------------------------
(* Together *)

\* Copies come together in a whole behaviour, or one by one in all of it.
LEMMA SpacedIsFixed == [Next]_vars => spaced' = spaced
<1>1. ASSUME NEW d \in Messages, Step(d) PROVE spaced' = spaced
  BY <1>1 DEF Step, setting, Deliver, Check, Find, SaveSelect, Write, MarkSelect,
              MarkInsert, Settle
<1>2. ASSUME NEW d \in Messages, Fail(d) \/ Replay(d) PROVE spaced' = spaced
  BY <1>2 DEF Fail, Replay, setting
<1>3. ASSUME Crash \/ UNCHANGED vars PROVE spaced' = spaced
  BY <1>3 DEF Crash, vars, setting
<1> QED BY <1>1, <1>2, <1>3 DEF Next, Quiet

\* The copies of an event are finitely many.
LEMMA SomeCopies ==
  ASSUME NEW e, NEW S \in SUBSET Copies(e), NEW T \in SUBSET S
  PROVE  /\ IsFiniteSet(S) /\ IsFiniteSet(T)
         /\ Cardinality(S) \in Nat /\ Cardinality(T) \in Nat
         /\ Cardinality(T) <= Cardinality(S)
<1>1. S \in SUBSET Messages
  BY DEF Copies
<1>2. IsFiniteSet(S)
  BY <1>1, ConsumerAssumption, FS_Subset
<1> QED BY <1>2, FS_Subset, FS_CardinalityType

\* A fault makes room for one round of the copies in S, a replay for one copy.
LEMMA RoomGrows ==
  ASSUME TypeOK, TypeOK', NEW e, NEW S \in SUBSET Copies(e)
  PROVE  /\ Room(S) \in Int /\ Room(S)' \in Int
         /\ faults' = faults /\ replays' = replays => Room(S)' = Room(S)
         /\ faults' = faults /\ replays' = replays + 1 => Room(S)' = Room(S) + 1
         /\ faults' = faults + 1 /\ replays' = replays => Room(S)' = Room(S) + Cardinality(S)
<1>1. PICK n : n = Cardinality(S)
  OBVIOUS
<1>2. n \in Nat
  BY <1>1, SomeCopies
<1>3. faults \in Nat /\ replays \in Nat /\ faults' \in Nat /\ replays' \in Nat
  BY DEF TypeOK
<1>4. \A f \in Nat : n * (1 + f) \in Nat /\ n * (1 + (f + 1)) = n * (1 + f) + n
  BY <1>2
<1>5. Room(S) = n * (1 + faults) + replays /\ Room(S)' = n * (1 + faults') + replays'
  BY <1>1 DEF Room
<1> QED BY <1>1, <1>2, <1>3, <1>4, <1>5

\* The numbers Fits compares.
LEMMA FitsType ==
  ASSUME TypeOK, TypeOK', NEW e \in Ids, NEW S \in SUBSET Copies(e)
  PROVE  /\ applied[e] \in Nat /\ applied'[e] \in Nat
         /\ IsFiniteSet(MayApply(e) \cap S) /\ Cardinality(MayApply(e) \cap S) \in Nat
         /\ Cardinality(MayApply(e)' \cap S) \in Nat
         /\ Cardinality(MayApply(e)' \cap S) <= Cardinality(S) /\ Cardinality(S) \in Nat
         /\ Room(S) \in Int /\ Room(S)' \in Int
<1>1. /\ IsFiniteSet(MayApply(e) \cap S) /\ Cardinality(MayApply(e) \cap S) \in Nat
      /\ Cardinality(S) \in Nat
  BY SomeCopies
<1>2. Cardinality(MayApply(e)' \cap S) \in Nat /\ Cardinality(MayApply(e)' \cap S) <= Cardinality(S)
  BY SomeCopies
<1> QED BY <1>1, <1>2, RoomGrows DEF TypeOK

\* A step that adds no copy that may count, and counts none.
LEMMA FewerCopies ==
  ASSUME TypeOK, TypeOK', NEW e \in Ids, NEW S \in SUBSET Copies(e), Fits(e, S),
         MayApply(e)' \cap S \subseteq MayApply(e) \cap S, applied'[e] = applied[e],
         Room(S)' >= Room(S)
  PROVE  Fits(e, S)'
<1>0. /\ applied[e] \in Nat /\ applied'[e] \in Nat
      /\ IsFiniteSet(MayApply(e) \cap S) /\ Cardinality(MayApply(e) \cap S) \in Nat
      /\ Cardinality(MayApply(e)' \cap S) \in Nat
      /\ Cardinality(MayApply(e)' \cap S) <= Cardinality(S) /\ Cardinality(S) \in Nat
      /\ Room(S) \in Int /\ Room(S)' \in Int
  BY FitsType
<1>1. Cardinality(MayApply(e)' \cap S) <= Cardinality(MayApply(e) \cap S)
  BY <1>0, FS_Subset
<1> QED BY <1>1, <1>0 DEF Fits

\* A step of one message, and whether it may still count.
LEMMA OneCopy ==
  ASSUME NEW e, NEW S, NEW d \in Messages, Alone(d),
         d \in MayApply(e)' => d \in MayApply(e)
  PROVE  MayApply(e)' \cap S \subseteq MayApply(e) \cap S
BY DEF Alone, MayApply, Copies

\* The analytics of d are committed: d will not count again.
LEMMA CommitCopies ==
  ASSUME TypeOK, TypeOK', NEW d \in Messages, Write(d), NEW e \in Ids,
         NEW S \in SUBSET Copies(e), Fits(e, S), \A x \in Copies(e) \ S : pc[x] = "idle"
  PROVE  Fits(e, S)'
<1>0. /\ applied[e] \in Nat /\ applied'[e] \in Nat
      /\ IsFiniteSet(MayApply(e) \cap S) /\ Cardinality(MayApply(e) \cap S) \in Nat
      /\ Cardinality(MayApply(e)' \cap S) \in Nat
      /\ Cardinality(MayApply(e)' \cap S) <= Cardinality(S) /\ Cardinality(S) \in Nat
      /\ Room(S) \in Int /\ Room(S)' \in Int
  BY FitsType
<1>1. /\ Alone(d) /\ message' = message /\ pc[d] = "write" /\ pc'[d] \in {"nack", "mark"}
      /\ faults' = faults /\ replays' = replays
      /\ \/ applied' = applied
         \/ applied' = [applied EXCEPT ![Deliveries[d]] = @ + 1]
  BY DEF Write, Goto, Alone, TypeOK, setting
<1>2. message[d] = "inflight"
  BY <1>1 DEF TypeOK
<1>3. Room(S)' = Room(S)
  BY <1>1, RoomGrows
<1>4. d \notin MayApply(e)'
  BY <1>1, <1>2 DEF MayApply
<1>5. CASE applied'[e] = applied[e]
  <2>1. MayApply(e)' \cap S \subseteq MayApply(e) \cap S
    BY <1>1, <1>4, OneCopy
  <2> QED BY <1>3, <1>5, <2>1, FewerCopies, <1>0
<1>6. CASE applied'[e] # applied[e]
  <2>1. Deliveries[d] = e /\ applied'[e] = applied[e] + 1
    BY <1>1, <1>6 DEF TypeOK
  <2>2. d \in MayApply(e) \cap S
    BY <1>1, <2>1 DEF MayApply, Copies
  <2>3. MayApply(e)' \cap S = (MayApply(e) \cap S) \ {d}
    BY <1>1, <1>4 DEF Alone, MayApply, Copies
  <2>4. Cardinality(MayApply(e)' \cap S) = Cardinality(MayApply(e) \cap S) - 1
    BY <2>2, <2>3, <1>0, FS_RemoveElement
  <2> QED BY <1>3, <2>1, <2>4, <1>0 DEF Fits
<1> QED BY <1>5, <1>6

\* Every step leaves room for the copies in S that may still count, as long as
\* no other copy is handled.
LEMMA NextFits ==
  ASSUME TypeOK, TypeOK', [Next]_vars, NEW e \in Ids, NEW S \in SUBSET Copies(e),
         Fits(e, S), \A x \in Copies(e) \ S : pc[x] = "idle"
  PROVE  Fits(e, S)'
<1> USE DEF setting, db
<1>0. /\ applied[e] \in Nat /\ applied'[e] \in Nat
      /\ IsFiniteSet(MayApply(e) \cap S) /\ Cardinality(MayApply(e) \cap S) \in Nat
      /\ Cardinality(MayApply(e)' \cap S) \in Nat
      /\ Cardinality(MayApply(e)' \cap S) <= Cardinality(S) /\ Cardinality(S) \in Nat
      /\ Room(S) \in Int /\ Room(S)' \in Int
  BY FitsType
<1>1. ASSUME NEW d \in Messages,
             Deliver(d) \/ Check(d) \/ Find(d) \/ SaveSelect(d) \/ MarkSelect(d)
               \/ MarkInsert(d) \/ Settle(d)
      PROVE  Fits(e, S)'
  <2>1. Alone(d) /\ UNCHANGED <<applied, faults, replays>>
    BY <1>1 DEF Alone, TypeOK, Goto, Deliver, Check, Find, SaveSelect, MarkSelect,
                MarkInsert, Settle
  <2>2. d \in MayApply(e)' => d \in MayApply(e)
    <3>1. message'[d] = "queued" => message[d] = "queued"
      BY <1>1 DEF TypeOK, Deliver, Check, Find, SaveSelect, MarkSelect, MarkInsert, Settle
    <3>2. pc'[d] \in {"check", "find", "select", "write"} =>
            message[d] = "queued" \/ pc[d] \in {"check", "find", "select", "write"}
      BY <1>1 DEF TypeOK, Goto, Deliver, Check, Find, SaveSelect, MarkSelect, MarkInsert, Settle
    <3> QED BY <3>1, <3>2 DEF MayApply
  <2>3. MayApply(e)' \cap S \subseteq MayApply(e) \cap S
    BY <2>1, <2>2, OneCopy
  <2>4. Room(S)' = Room(S)
    BY <2>1, RoomGrows
  <2> QED BY <2>1, <2>3, <2>4, FewerCopies, <1>0
<1>2. ASSUME NEW d \in Messages, Fail(d)
      PROVE  Fits(e, S)'
  <2>1. /\ Alone(d) /\ UNCHANGED <<applied, replays, message>> /\ faults' = faults + 1
        /\ pc'[d] = "nack"
    BY <1>2 DEF Fail, Goto, Alone, TypeOK
  <2>2. d \in MayApply(e)' => d \in MayApply(e)
    BY <2>1 DEF MayApply
  <2>3. MayApply(e)' \cap S \subseteq MayApply(e) \cap S
    BY <2>1, <2>2, OneCopy
  <2>4. Room(S)' >= Room(S)
    BY <2>1, RoomGrows, <1>0
  <2> QED BY <2>1, <2>3, <2>4, FewerCopies
<1>3. ASSUME Crash
      PROVE  Fits(e, S)'
  <2>1. faults' = faults + 1 /\ UNCHANGED <<applied, replays>>
    BY <1>3 DEF Crash
  <2>2. Room(S)' = Room(S) + Cardinality(S)
    BY <2>1, RoomGrows
  <2> QED BY <2>1, <2>2, <1>0 DEF Fits
<1>4. ASSUME NEW d \in Messages, Replay(d)
      PROVE  Fits(e, S)'
  <2> DEFINE may == MayApply(e) \cap S
  <2>1. /\ replays' = replays + 1 /\ UNCHANGED <<applied, faults, pc>>
        /\ message' = [message EXCEPT ![d] = "queued"]
    BY <1>4 DEF Replay
  <2>2. MayApply(e)' \cap S \subseteq may \cup {d}
    BY <2>1 DEF MayApply, TypeOK, Copies
  <2>3. IsFiniteSet(may) /\ Cardinality(may) \in Nat
    BY <1>0
  <2>4. /\ IsFiniteSet(may \cup {d})
        /\ Cardinality(may \cup {d}) \in {Cardinality(may), Cardinality(may) + 1}
    BY <2>3, FS_AddElement
  <2>5. Cardinality(MayApply(e)' \cap S) <= Cardinality(may \cup {d})
    BY <2>2, <2>4, FS_Subset
  <2>6. Room(S)' = Room(S) + 1
    BY <2>1, RoomGrows
  <2>7. Cardinality(MayApply(e)' \cap S) <= Cardinality(may) + 1
    BY <2>3, <2>4, <2>5, <1>0
  <2>8. applied[e] + Cardinality(may) <= Room(S)
    BY DEF Fits
  <2>9. applied'[e] + Cardinality(MayApply(e)' \cap S) <= Room(S)'
    BY <2>1, <2>3, <2>6, <2>7, <2>8, <1>0
  <2> QED BY <2>9 DEF Fits
<1>5. ASSUME UNCHANGED vars
      PROVE  Fits(e, S)'
  <2>1. UNCHANGED <<applied, faults, replays, pc, message>>
    BY <1>5 DEF vars
  <2> QED BY <2>1 DEF Fits, MayApply, Room
<1> QED BY <1>1, <1>2, <1>3, <1>4, <1>5, CommitCopies DEF Next, Step, Quiet

\* Another copy brings room for itself, and a fault of whatever process a round.
LEMMA MoreFits ==
  ASSUME TypeOK, TypeOK', UNCHANGED <<applied, message, pc, replays>>,
         faults' \in {faults, faults + 1}, NEW e \in Ids, NEW S \in SUBSET Copies(e),
         NEW d \in Copies(e), Fits(e, S)
  PROVE  Fits(e, S)' /\ Fits(e, S \cup {d})'
<1> DEFINE T == S \cup {d}
<1>0. /\ applied[e] \in Nat /\ Cardinality(S) \in Nat /\ IsFiniteSet(S)
      /\ IsFiniteSet(MayApply(e) \cap S) /\ Cardinality(MayApply(e) \cap S) \in Nat
      /\ Room(S) \in Int /\ Room(S)' \in Int /\ faults' \in Nat /\ replays' \in Nat
  BY FitsType, SomeCopies DEF TypeOK
<1>1. UNCHANGED MayApply(e)
  BY DEF MayApply
<1>2. Room(S)' >= Room(S)
  BY <1>0, RoomGrows
<1>3. Fits(e, S)'
  BY <1>0, <1>1, <1>2 DEF Fits
<1>4. CASE d \in S
  <2>1. T = S
    BY <1>4
  <2> QED BY <1>3, <2>1
<1>5. CASE d \notin S
  <2>1. Cardinality(T) = Cardinality(S) + 1
    BY <1>0, <1>5, FS_AddElement
  <2>2. PICK n : n = Cardinality(S)
    OBVIOUS
  <2>3. (n + 1) * (1 + faults') = n * (1 + faults') + (1 + faults')
    BY <1>0, <2>2
  <2>4. Room(T)' = Room(S)' + 1 + faults'
    <3>1. Room(T)' = (n + 1) * (1 + faults') + replays' /\ Room(S)' = n * (1 + faults') + replays'
      BY <2>1, <2>2 DEF Room
    <3>2. n * (1 + faults') \in Int
      BY <1>0, <2>2
    <3> QED BY <1>0, <2>3, <3>1, <3>2
  <2>5. MayApply(e) \cap T \subseteq (MayApply(e) \cap S) \cup {d}
    OBVIOUS
  <2>6. /\ IsFiniteSet((MayApply(e) \cap S) \cup {d})
        /\ Cardinality((MayApply(e) \cap S) \cup {d})
             \in {Cardinality(MayApply(e) \cap S), Cardinality(MayApply(e) \cap S) + 1}
    BY <1>0, FS_AddElement
  <2>7. /\ Cardinality(MayApply(e) \cap T) <= Cardinality((MayApply(e) \cap S) \cup {d})
        /\ IsFiniteSet(MayApply(e) \cap T) /\ Cardinality(MayApply(e) \cap T) \in Nat
    BY <2>5, <2>6, FS_Subset, FS_CardinalityType
  <2>8. Cardinality(MayApply(e) \cap T) <= Cardinality(MayApply(e) \cap S) + 1
    BY <1>0, <2>6, <2>7
  <2>9. applied[e] + Cardinality(MayApply(e) \cap S) <= Room(S)
    BY DEF Fits
  <2>10. applied'[e] + Cardinality(MayApply(e)' \cap T) <= Room(T)'
    BY <1>0, <1>1, <1>2, <2>4, <2>7, <2>8, <2>9
  <2> QED BY <1>3, <2>10 DEF Fits
<1> QED BY <1>4, <1>5

\* What Fits bounds, when S has at most k copies.
LEMMA FitsBounds ==
  ASSUME TypeOK, NEW e \in Ids, NEW S \in SUBSET Copies(e), Fits(e, S),
         NEW k \in Nat, Cardinality(S) <= k
  PROVE  applied[e] <= k * (1 + faults) + replays
<1>1. /\ applied[e] \in Nat /\ faults \in Nat /\ replays \in Nat
      /\ Cardinality(MayApply(e) \cap S) \in Nat /\ Cardinality(S) \in Nat
  BY SomeCopies DEF TypeOK
<1>2. PICK n : n = Cardinality(S)
  OBVIOUS
<1>3. PICK j \in Nat : k = n + j
  <2>1. k - n \in Nat /\ k = n + (k - n)
    BY <1>1, <1>2
  <2> QED BY <2>1
<1>4. n * (1 + faults) \in Nat /\ j * (1 + faults) \in Nat
  BY <1>1, <1>2
<1>5. k * (1 + faults) = n * (1 + faults) + j * (1 + faults)
  <2>1. n \in Nat /\ \A f \in Nat : (n + j) * (1 + f) = n * (1 + f) + j * (1 + f)
    BY <1>1, <1>2
  <2> QED BY <1>1, <1>3, <2>1
<1>6. applied[e] <= n * (1 + faults) + replays
  BY <1>1, <1>2, <1>4 DEF Fits, Room
<1> QED BY <1>1, <1>4, <1>5, <1>6

\* Every step leaves room for the copies that may still count.
LEMMA NextTogether == TypeOK /\ TypeOK' /\ Together /\ [Next]_vars => Together'
<1> SUFFICES ASSUME TypeOK, TypeOK', Together, [Next]_vars, ~spaced, NEW e \in Ids
             PROVE  Fits(e, Copies(e))'
  BY SpacedIsFixed DEF Together
<1> QED BY NextFits DEF Together

-----------------------------------------------------------------------------
(* OneByOne *)

\* The handlers that run for an event nobody has entered in consumed_events.
Unmarked == {"find", "select", "write", "mark", "insert"}

\* No two copies of an event are being handled.
OneInFlight ==
  \A x, y \in Messages :
    message[x] = "inflight" /\ message[y] = "inflight" /\ Deliveries[x] = Deliveries[y] => x = y

\* A handler that has found its event new still finds it so.
StaysNew == \A d \in Messages : pc[d] \in Unmarked => Deliveries[d] \notin consumed

\* An event counts once a round, and the round that has marked it is over.
Round(e) == applied[e] + (IF Marked(e) THEN 0 ELSE 1) <= 1 + faults

\* The parts of OneByOne by their names.
LEMMA OneByOneParts == OneByOne <=> (spaced => OneInFlight /\ StaysNew /\ \A e \in Ids : Round(e))
BY DEF OneByOne, OneInFlight, StaysNew, Round, Unmarked

\* A copy is delivered when no other is being handled.
LEMMA NextOneInFlight ==
  ASSUME TypeOK, spaced, OneInFlight, [Next]_vars
  PROVE  OneInFlight'
<1> USE DEF setting, db
<1>1. ASSUME \A x \in Messages : message'[x] = "inflight" => message[x] = "inflight"
      PROVE  OneInFlight'
  BY <1>1 DEF OneInFlight
<1>2. ASSUME NEW d \in Messages, Deliver(d) PROVE OneInFlight'
  <2>1. /\ message' = [message EXCEPT ![d] = "inflight"]
        /\ \A x \in Messages : message[x] = "inflight" => Deliveries[x] # Deliveries[d]
    BY <1>2 DEF Deliver
  <2> QED BY <2>1 DEF OneInFlight, TypeOK
<1>3. ASSUME NEW d \in Messages,
             \/ Check(d) \/ Find(d) \/ SaveSelect(d) \/ Write(d) \/ MarkSelect(d)
             \/ MarkInsert(d) \/ Settle(d) \/ Fail(d) \/ Replay(d)
      PROVE  OneInFlight'
  <2>1. \/ message' = message
        \/ \E r \in {"acked", "dead", "queued"} : message' = [message EXCEPT ![d] = r]
    BY <1>3 DEF Check, Find, SaveSelect, Write, MarkSelect, MarkInsert, Settle, Fail, Replay
  <2> QED BY <1>1, <2>1 DEF TypeOK
<1>4. ASSUME Crash \/ UNCHANGED vars PROVE OneInFlight'
  <2>1. \A x \in Messages : message'[x] = "inflight" => message[x] = "inflight"
    BY <1>4 DEF Crash, vars
  <2> QED BY <1>1, <2>1
<1> QED BY <1>2, <1>3, <1>4 DEF Next, Step, Quiet

\* Only the handler of a copy enters its event in consumed_events, and there is
\* one such handler.
LEMMA NextStaysNew ==
  ASSUME TypeOK, OneInFlight, StaysNew, [Next]_vars
  PROVE  StaysNew'
<1> USE DEF setting, db
<1>1. ASSUME consumed' = consumed, NEW d \in Messages, Alone(d),
             pc'[d] \in Unmarked => Deliveries[d] \notin consumed
      PROVE  StaysNew'
  BY <1>1 DEF StaysNew, Alone
<1>2. ASSUME NEW d \in Messages,
             \/ Deliver(d) \/ Check(d) \/ Find(d) \/ SaveSelect(d) \/ Write(d)
             \/ MarkSelect(d) \/ Settle(d) \/ Fail(d)
      PROVE  StaysNew'
  <2>1. Alone(d) /\ consumed' = consumed
    BY <1>2 DEF Alone, TypeOK, Goto, Deliver, Check, Find, SaveSelect, Write, MarkSelect,
                Settle, Fail
  <2>2. pc'[d] \in Unmarked => pc[d] \in Unmarked \/ Deliveries[d] \notin consumed
    BY <1>2 DEF TypeOK, Unmarked, Goto, Deliver, Check, Find, SaveSelect, Write, MarkSelect,
                Settle, Fail
  <2> QED BY <1>1, <2>1, <2>2 DEF StaysNew
<1>3. ASSUME NEW d \in Messages, MarkInsert(d) PROVE StaysNew'
  <2>1. /\ pc[d] = "insert" /\ pc' \in {[pc EXCEPT ![d] = "nack"], [pc EXCEPT ![d] = "ack"]}
        /\ consumed' = consumed \cup {Deliveries[d]}
    BY <1>3 DEF MarkInsert, Goto
  <2>2. ASSUME NEW x \in Messages, pc'[x] \in Unmarked PROVE Deliveries[x] \notin consumed'
    <3>1. x # d /\ pc'[x] = pc[x]
      BY <2>1, <2>2 DEF TypeOK, Unmarked
    <3>2. message[x] = "inflight" /\ message[d] = "inflight"
      BY <2>1, <2>2, <3>1 DEF TypeOK, Unmarked
    <3>3. Deliveries[x] # Deliveries[d]
      BY <3>1, <3>2 DEF OneInFlight
    <3> QED BY <2>1, <2>2, <3>1, <3>3 DEF StaysNew
  <2> QED BY <2>2 DEF StaysNew
<1>4. ASSUME Crash PROVE StaysNew'
  <2>1. \A x \in Messages : pc'[x] = "idle"
    BY <1>4 DEF Crash
  <2> QED BY <2>1 DEF StaysNew, Unmarked
<1>5. ASSUME UNCHANGED <<pc, consumed>> PROVE StaysNew'
  BY <1>5 DEF StaysNew
<1>6. ASSUME UNCHANGED vars \/ \E d \in Messages : Replay(d) PROVE StaysNew'
  BY <1>5, <1>6 DEF vars, Replay
<1> QED BY <1>2, <1>3, <1>4, <1>6 DEF Next, Step, Quiet

\* An event that was marked stays marked, and counts no more in its round.
LEMMA NextRound ==
  ASSUME TypeOK, OneInFlight, StaysNew, \A e \in Ids : Round(e), [Next]_vars, NEW e \in Ids
  PROVE  Round(e)'
<1> USE DEF setting, db
<1>0. faults \in Nat /\ applied[e] \in Nat /\ Round(e)
  BY DEF TypeOK
<1>1. ASSUME applied'[e] = applied[e], faults' = faults, Marked(e) => Marked(e)'
      PROVE  Round(e)'
  BY <1>0, <1>1 DEF Round
<1>2. ASSUME applied'[e] = applied[e], faults' = faults + 1
      PROVE  Round(e)'
  BY <1>0, <1>2 DEF Round
<1>3. ASSUME NEW d \in Messages, Alone(d), consumed' = consumed,
             pc[d] \in {"mark", "insert"} =>
               pc'[d] \in {"mark", "insert"} \/ Deliveries[d] \in consumed
      PROVE  Marked(e) => Marked(e)'
  BY <1>3 DEF Marked, Alone, Copies
<1>4. ASSUME NEW d \in Messages,
             \/ Deliver(d) \/ Check(d) \/ Find(d) \/ SaveSelect(d) \/ MarkSelect(d) \/ Settle(d)
      PROVE  Round(e)'
  <2>1. Alone(d) /\ UNCHANGED <<consumed, applied, faults>>
    BY <1>4 DEF Alone, TypeOK, Goto, Deliver, Check, Find, SaveSelect, MarkSelect, Settle
  <2>2. pc[d] \in {"mark", "insert"} =>
          pc'[d] \in {"mark", "insert"} \/ Deliveries[d] \in consumed
    <3>1. pc[d] \in {"mark", "insert"} => MarkSelect(d)
      BY <1>4 DEF TypeOK, Deliver, Check, Find, SaveSelect, Settle
    <3> QED BY <3>1 DEF MarkSelect, Goto, TypeOK
  <2> QED BY <1>1, <1>3, <2>1, <2>2
<1>5. ASSUME NEW d \in Messages, Write(d) PROVE Round(e)'
  <2>1. /\ Alone(d) /\ consumed' = consumed /\ faults' = faults /\ pc[d] = "write"
        /\ \/ applied' = applied
           \/ /\ applied' = [applied EXCEPT ![Deliveries[d]] = @ + 1]
              /\ pc'[d] = "mark"
    BY <1>5 DEF Write, Goto, Alone, TypeOK
  <2>2. CASE applied'[e] = applied[e]
    BY <1>1, <1>3, <2>1, <2>2
  <2>3. CASE applied'[e] # applied[e]
    <3>1. Deliveries[d] = e /\ applied'[e] = applied[e] + 1 /\ pc'[d] = "mark"
      BY <2>1, <2>3 DEF TypeOK
    <3>2. e \notin consumed
      BY <2>1, <3>1 DEF StaysNew, Unmarked
    <3>3. ASSUME NEW x \in Copies(e) PROVE pc[x] \notin {"mark", "insert"}
      <4>1. x \in Messages /\ Deliveries[x] = Deliveries[d]
        BY <3>1 DEF Copies
      <4>2. message[d] = "inflight" /\ (pc[x] \in {"mark", "insert"} => message[x] = "inflight")
        BY <2>1, <4>1 DEF TypeOK
      <4> QED BY <2>1, <4>1, <4>2 DEF OneInFlight
    <3>4. ~Marked(e)
      BY <3>2, <3>3 DEF Marked
    <3>5. Marked(e)'
      BY <3>1 DEF Marked, Copies
    <3> QED BY <1>0, <2>1, <3>1, <3>4, <3>5 DEF Round
  <2> QED BY <2>2, <2>3
<1>6. ASSUME NEW d \in Messages, MarkInsert(d) PROVE Round(e)'
  <2>1. /\ Alone(d) /\ UNCHANGED <<applied, faults>>
        /\ consumed' = consumed \cup {Deliveries[d]}
    BY <1>6 DEF MarkInsert, Goto, Alone, TypeOK
  <2>2. Marked(e) => Marked(e)'
    BY <2>1 DEF Marked, Alone, Copies
  <2> QED BY <1>1, <2>1, <2>2
<1>7. ASSUME Crash \/ \E d \in Messages : Fail(d) PROVE Round(e)'
  BY <1>2, <1>7 DEF Crash, Fail
<1>8. ASSUME UNCHANGED vars \/ \E d \in Messages : Replay(d) PROVE Round(e)'
  <2>1. UNCHANGED <<applied, faults, consumed, pc>>
    BY <1>8 DEF vars, Replay
  <2>2. Marked(e)' <=> Marked(e)
    BY <2>1 DEF Marked
  <2> QED BY <1>1, <2>1, <2>2
<1> QED BY <1>4, <1>5, <1>6, <1>7, <1>8 DEF Next, Step, Quiet

\* Every step keeps the rounds of copies that come one by one.
LEMMA NextOneByOne == TypeOK /\ OneByOne /\ [Next]_vars => OneByOne'
<1> SUFFICES ASSUME TypeOK, OneByOne, [Next]_vars PROVE OneByOne'
  OBVIOUS
<1>1. CASE ~spaced
  BY <1>1, SpacedIsFixed DEF OneByOne
<1>2. CASE spaced
  <2>1. OneInFlight /\ StaysNew /\ \A e \in Ids : Round(e)
    BY <1>2, OneByOneParts
  <2>2. OneInFlight' /\ StaysNew' /\ \A e \in Ids : Round(e)'
    BY <1>2, <2>1, NextOneInFlight, NextStaysNew, NextRound
  <2> QED BY <2>2 DEF OneByOne, OneInFlight, StaysNew, Round, Unmarked
<1> QED BY <1>1, <1>2

-----------------------------------------------------------------------------
(* The theorems *)

\* Init gives the invariant: nothing is applied and every copy may count once.
LEMMA InitHandling == Init => Handling
<1> SUFFICES ASSUME Init PROVE Handling
  OBVIOUS
<1>1. TypeOK
  BY InitType
<1>2. Acknowledged
  BY DEF Init, Acknowledged
<1>3. Flags
  BY ZeroReviewed DEF Init, Flags
<1>4. ASSUME NEW e \in Ids
      PROVE  Fits(e, Copies(e))
  <2>1. /\ Cardinality(MayApply(e) \cap Copies(e)) \in Nat /\ Cardinality(Copies(e)) \in Nat
        /\ Cardinality(MayApply(e) \cap Copies(e)) <= Cardinality(Copies(e))
    BY SomeCopies
  <2> QED BY <2>1 DEF Init, Fits, Room
<1>5. OneByOne
  BY DEF Init, OneByOne
<1> QED BY <1>1, <1>2, <1>3, <1>4, <1>5 DEF Handling, Together

\* Every step keeps the invariant.
LEMMA NextHandling == Handling /\ [Next]_vars => Handling'
<1> SUFFICES ASSUME Handling, [Next]_vars PROVE Handling'
  OBVIOUS
<1>1. TypeOK'
  BY NextType DEF Handling
<1> QED BY <1>1, NextAcknowledged, NextFlags, NextTogether, NextOneByOne DEF Handling

\* Every state the worker reaches has the invariant.
LEMMA AlwaysHandling == Spec => []Handling
BY InitHandling, NextHandling, PTL DEF Spec

\* A handler starts only by the step of its own message.
LEMMA Starts ==
  ASSUME TypeOK
  PROVE  /\ \A d \in Messages : Step(d) =>
              \A x \in Messages : pc'[x] # "idle" => pc[x] # "idle" \/ x = d
         /\ Crash \/ (\E d \in Messages : Fail(d) \/ Replay(d)) =>
              \A x \in Messages : pc'[x] # "idle" => pc[x] # "idle"
<1>1. ASSUME NEW d \in Messages, Step(d), NEW x \in Messages \ {d} PROVE pc'[x] = pc[x]
  BY <1>1 DEF TypeOK, Step, Goto, Deliver, Check, Find, SaveSelect, Write, MarkSelect,
              MarkInsert, Settle
<1>2. ASSUME NEW d \in Messages, Fail(d) \/ Replay(d), NEW x \in Messages
      PROVE  pc'[x] # "idle" => pc[x] # "idle"
  BY <1>2 DEF TypeOK, Goto, Fail, Replay
<1>3. ASSUME Crash, NEW x \in Messages PROVE pc'[x] = "idle"
  BY <1>3 DEF Crash
<1> QED BY <1>1, <1>2, <1>3

\* A fault of another process leaves the worker alone.
LEMMA FaultElsewhere ==
  ASSUME Handling, faults' \in {faults, faults + 1},
         UNCHANGED <<setting, db, message, pc, entity, seen, rowLock>>
  PROVE  Handling'
<1> USE DEF setting, db
<1>1. TypeOK'
  BY DEF Handling, TypeOK
<1>2. Acknowledged'
  BY DEF Handling, Acknowledged
<1>3. Flags'
  BY DEF Handling, Flags, Reviewed
<1>4. Together'
  <2> SUFFICES ASSUME ~spaced, NEW e \in Ids PROVE Fits(e, Copies(e))'
    BY DEF Together
  <2>1. TypeOK /\ Fits(e, Copies(e))
    BY DEF Handling, Together
  <2>2. Room(Copies(e))' >= Room(Copies(e))
    <3>1. /\ Room(Copies(e)) \in Int /\ Cardinality(Copies(e)) \in Nat
          /\ \/ Room(Copies(e))' = Room(Copies(e))
             \/ Room(Copies(e))' = Room(Copies(e)) + Cardinality(Copies(e))
      BY <1>1, <2>1, RoomGrows, SomeCopies
    <3> QED BY <3>1
  <2>3. UNCHANGED MayApply(e)
    BY DEF MayApply
  <2> QED BY <1>1, <2>1, <2>2, <2>3, FewerCopies
<1>5. OneByOne'
  <2>1. faults \in Nat /\ \A e \in Ids : applied[e] \in Nat /\ (Marked(e)' <=> Marked(e))
    BY DEF Handling, TypeOK, Marked
  <2>2. ASSUME NEW e \in Ids, Round(e) PROVE Round(e)'
    BY <2>1, <2>2 DEF Round
  <2>3. spaced => OneInFlight /\ StaysNew /\ \A e \in Ids : Round(e)
    BY OneByOneParts DEF Handling
  <2>4. spaced' => OneInFlight' /\ StaysNew' /\ \A e \in Ids : Round(e)'
    BY <2>2, <2>3 DEF OneInFlight, StaysNew
  <2> QED BY <2>4 DEF OneByOne, OneInFlight, StaysNew, Round, Unmarked
<1> QED BY <1>1, <1>2, <1>3, <1>4, <1>5 DEF Handling

\* The state is well typed, and a handler runs exactly for what the broker
\* waits for.
THEOREM TypeCorrect == Spec => []TypeOK
<1>1. Handling => TypeOK
  BY DEF Handling
<1> QED BY <1>1, AlwaysHandling, PTL

\* What the worker acknowledges is in consumed_events and in the analytics,
\* whatever handlers overlap, statements fail and processes die.
THEOREM AckIsApplied == Spec => []AckedWasApplied
<1>1. Handling => AckedWasApplied
  BY DEF Handling, Acknowledged, AckedWasApplied
<1> QED BY <1>1, AlwaysHandling, PTL

\* A wallet whose recorded withdrawals reach the threshold is under review.
THEOREM TotalsAreFlagged == Spec => []FlagFollowsTotal
<1>1. Handling => FlagFollowsTotal
  BY DEF Handling, Flags, Reviewed, FlagFollowsTotal
<1> QED BY <1>1, AlwaysHandling, PTL

\* consumed_events bounds how often an event counts.
THEOREM DuplicatesAreBounded == Spec => []DuplicatesBounded
<1>1. ASSUME Handling PROVE DuplicatesBounded
  <2>1. ASSUME NEW e \in Ids, spaced PROVE applied[e] <= 1 + faults
    <3>1. applied[e] \in Nat /\ faults \in Nat
      BY <1>1 DEF Handling, TypeOK
    <3> QED BY <1>1, <2>1, <3>1 DEF Handling, OneByOne
  <2>2. ASSUME NEW e \in Ids, ~spaced
        PROVE  applied[e] <= Cardinality(Copies(e)) * (1 + faults) + replays
    <3>1. TypeOK /\ Fits(e, Copies(e)) /\ Cardinality(Copies(e)) \in Nat
      BY <1>1, <2>2, SomeCopies DEF Handling, Together
    <3>2. Cardinality(Copies(e)) <= Cardinality(Copies(e))
      BY <3>1
    <3> QED BY <3>1, <3>2, FitsBounds
  <2> QED BY <2>1, <2>2 DEF DuplicatesBounded
<1> QED BY <1>1, AlwaysHandling, PTL

-----------------------------------------------------------------------------
(* Totals of wallets that had their row *)

\* A handler of a known wallet holds the lock of its row from findOne to the
\* commit, and works on the columns that are committed.
HeldBy(d) ==
  Wallet(d) \in known =>
    /\ pc[d] \in {"select", "write"} =>
         rowLock[d] = {Wallet(d)} /\ entity[d] = Apply(d, stats[Wallet(d)])
    /\ pc[d] = "write" => seen[d] = {stats[Wallet(d)]}

Held == \A d \in Messages : HeldBy(d)

\* What each event comes to that counts as often as f says.
Amounts(f) == [e \in Ids |-> f[e] * Events[e].amount]

Exact == Handling /\ Held /\ KnownTotalsExact

\* UPDATE writes what the handler has made of the row, column by column.
LEMMA Written ==
  ASSUME TypeOK, NEW d \in Messages, HasAnalytics(Deliveries[d]),
         NEW old \in Stats, seen[d] = {old}, entity[d] = Apply(d, old),
         NEW a, a = Event(d).amount
  PROVE  Updated(d, old) =
           IF Event(d).type = "FundsDeposited"
           THEN [old EXCEPT !.deposited = @ + a, !.deposits = @ + 1]
           ELSE [old EXCEPT !.withdrawn = @ + a, !.withdrawals = @ + 1,
                            !.flagged = entity[d].flagged]
<1> DEFINE F == {"deposited", "deposits", "withdrawn", "withdrawals", "flagged"}
<1>1. DOMAIN old = F /\ old = [f \in F |-> old[f]]
  BY DEF Stats
<1>2. CASE Event(d).type = "FundsDeposited"
  <2>1. PICK new : new = [old EXCEPT !.deposited = @ + a, !.deposits = @ + 1]
    OBVIOUS
  <2>2. entity[d] = new /\ Assigned(d) = {"deposited", "deposits"}
    BY <1>2, <2>1 DEF Apply, Assigned
  <2>3. /\ new = [f \in F |-> new[f]]
        /\ \A f \in F \ {"deposited", "deposits"} : new[f] = old[f]
    BY <1>1, <2>1
  <2>4. ASSUME NEW f \in F
        PROVE  (IF f \in Assigned(d) /\ \E s \in seen[d] : s[f] # entity[d][f]
                THEN entity[d][f] ELSE old[f]) = new[f]
    <3>1. (\E s \in seen[d] : s[f] # entity[d][f]) <=> old[f] # new[f]
      BY <2>2
    <3> QED BY <2>2, <2>3, <3>1
  <2>5. Updated(d, old) = [f \in F |-> new[f]]
    BY <1>1, <2>4 DEF Updated
  <2> QED BY <1>2, <2>1, <2>3, <2>5
<1>3. CASE Event(d).type # "FundsDeposited"
  <2>1. PICK new : new = [old EXCEPT !.withdrawn = @ + a, !.withdrawals = @ + 1,
                                     !.flagged = entity[d].flagged]
    OBVIOUS
  <2>2. /\ entity[d] = [old EXCEPT !.withdrawn = @ + a, !.withdrawals = @ + 1,
                                   !.flagged = @ \/ Suspicious(a, old.withdrawn + a)]
        /\ Assigned(d) = {"withdrawn", "withdrawals"}
                           \cup (IF entity[d].flagged THEN {"flagged"} ELSE {})
    BY <1>3 DEF Apply, Assigned
  <2>3. /\ entity[d].withdrawn = old.withdrawn + a
        /\ entity[d].withdrawals = old.withdrawals + 1
        /\ entity[d].flagged = (old.flagged \/ Suspicious(a, old.withdrawn + a))
        /\ old.flagged \in BOOLEAN /\ entity[d].flagged \in BOOLEAN
    BY <1>1, <2>2 DEF TypeOK, Stats
  <2>4. /\ new = [f \in F |-> new[f]]
        /\ new["withdrawn"] = entity[d]["withdrawn"]
        /\ new["withdrawals"] = entity[d]["withdrawals"]
        /\ new["flagged"] = entity[d]["flagged"]
        /\ \A f \in {"deposited", "deposits"} : new[f] = old[f]
    BY <1>1, <2>1, <2>3
  <2>5. ASSUME NEW f \in F
        PROVE  (IF f \in Assigned(d) /\ \E s \in seen[d] : s[f] # entity[d][f]
                THEN entity[d][f] ELSE old[f]) = new[f]
    <3>1. (\E s \in seen[d] : s[f] # entity[d][f]) <=> old[f] # entity[d][f]
      OBVIOUS
    <3>2. CASE f = "flagged"
      <4>1. f \in Assigned(d) <=> entity[d].flagged
        BY <2>2, <3>2
      <4>2. ~entity[d].flagged => ~old.flagged
        BY <2>3
      <4> QED BY <2>3, <2>4, <3>1, <3>2, <4>1, <4>2
    <3>3. CASE f \in {"withdrawn", "withdrawals"}
      BY <2>2, <2>4, <3>1, <3>3
    <3>4. CASE f \in {"deposited", "deposits"}
      BY <2>2, <2>4, <3>4
    <3> QED BY <3>2, <3>3, <3>4
  <2>6. Updated(d, old) = [f \in F |-> new[f]]
    BY <1>1, <2>5 DEF Updated
  <2> QED BY <1>3, <2>1, <2>4, <2>6
<1> QED BY <1>2, <1>3

\* A step of d that leaves the rows of the other handlers' wallets alone.
LEMMA HeldStep ==
  ASSUME Held, NEW d \in Messages, HeldBy(d)', UNCHANGED known,
         \A x \in Messages \ {d} :
           /\ pc'[x] = pc[x] /\ entity'[x] = entity[x] /\ seen'[x] = seen[x]
           /\ rowLock'[x] = rowLock[x]
           /\ Wallet(x) \in known /\ pc[x] \in {"select", "write"} =>
                stats'[Wallet(x)] = stats[Wallet(x)]
  PROVE  Held'
<1>1. ASSUME NEW x \in Messages \ {d} PROVE HeldBy(x)'
  BY DEF Held, HeldBy
<1> QED BY <1>1 DEF Held

\* While d writes the row of its wallet no other handler has it locked.
LEMMA OnlyWriter ==
  ASSUME Held, NEW d \in Messages, Write(d), NEW x \in Messages \ {d},
         Wallet(x) = Wallet(d), Wallet(x) \in known
  PROVE  pc[x] \notin {"select", "write"}
BY DEF Held, HeldBy, Write, Unlocked

\* Every step keeps what handlers of known wallets hold.
LEMMA NextHeld == TypeOK /\ Held /\ [Next]_vars => Held'
<1> SUFFICES ASSUME TypeOK, Held, [Next]_vars PROVE Held'
  OBVIOUS
<1> USE DEF setting, db
<1>1. ASSUME NEW d \in Messages,
             Deliver(d) \/ Check(d) \/ MarkSelect(d) \/ MarkInsert(d) \/ Settle(d) \/ Fail(d)
      PROVE  Held'
  <2>1. /\ pc'[d] \notin {"select", "write"} /\ UNCHANGED <<known, stats>>
        /\ \A x \in Messages \ {d} :
             /\ pc'[x] = pc[x] /\ entity'[x] = entity[x] /\ seen'[x] = seen[x]
             /\ rowLock'[x] = rowLock[x]
    BY <1>1 DEF TypeOK, Goto, EndTx, Deliver, Check, MarkSelect, MarkInsert, Settle, Fail
  <2>2. HeldBy(d)'
    BY <2>1 DEF HeldBy
  <2> QED BY <2>1, <2>2, HeldStep
<1>2. ASSUME NEW d \in Messages, Find(d) PROVE Held'
  <2>1. /\ pc'[d] = "select" /\ UNCHANGED <<known, rows, stats>>
        /\ \A x \in Messages \ {d} :
             /\ pc'[x] = pc[x] /\ entity'[x] = entity[x] /\ seen'[x] = seen[x]
             /\ rowLock'[x] = rowLock[x]
    BY <1>2 DEF TypeOK, Goto, Find
  <2>2. ASSUME Wallet(d) \in known
        PROVE  rowLock'[d] = {Wallet(d)} /\ entity'[d] = Apply(d, stats[Wallet(d)])
    <3>1. Wallet(d) \in rows
      BY <2>2 DEF TypeOK
    <3> QED BY <1>2, <3>1 DEF TypeOK, Find
  <2>3. HeldBy(d)'
    BY <2>1, <2>2 DEF HeldBy, Wallet, Event, Apply
  <2> QED BY <2>1, <2>3, HeldStep
<1>3. ASSUME NEW d \in Messages, SaveSelect(d) PROVE Held'
  <2>1. /\ pc[d] = "select" /\ pc'[d] = "write"
        /\ UNCHANGED <<known, rows, stats, rowLock, entity>>
        /\ \A x \in Messages \ {d} :
             /\ pc'[x] = pc[x] /\ entity'[x] = entity[x] /\ seen'[x] = seen[x]
             /\ rowLock'[x] = rowLock[x]
    BY <1>3 DEF TypeOK, Goto, SaveSelect
  <2>2. ASSUME Wallet(d) \in known PROVE seen'[d] = {stats[Wallet(d)]}
    <3>1. Wallet(d) \in rows
      BY <2>2 DEF TypeOK
    <3> QED BY <1>3, <3>1 DEF TypeOK, SaveSelect
  <2>3. HeldBy(d)'
    BY <2>1, <2>2 DEF Held, HeldBy, Wallet, Event, Apply
  <2> QED BY <2>1, <2>3, HeldStep
<1>4. ASSUME NEW d \in Messages, Write(d) PROVE Held'
  <2>1. /\ pc'[d] \notin {"select", "write"} /\ UNCHANGED known
        /\ \A x \in Messages \ {d} :
             /\ pc'[x] = pc[x] /\ entity'[x] = entity[x] /\ seen'[x] = seen[x]
             /\ rowLock'[x] = rowLock[x]
        /\ \A v \in Wallets \ {Wallet(d)} : stats'[v] = stats[v]
    BY <1>4 DEF TypeOK, Goto, EndTx, Write
  <2>2. HeldBy(d)'
    BY <2>1 DEF HeldBy
  <2>3. ASSUME NEW x \in Messages \ {d}, Wallet(x) \in known, pc[x] \in {"select", "write"}
        PROVE  stats'[Wallet(x)] = stats[Wallet(x)]
    <3>1. Wallet(x) \in Wallets /\ Wallet(x) # Wallet(d)
      BY <1>4, <2>3, OnlyWriter, EventType
    <3> QED BY <2>1, <3>1
  <2> QED BY <2>1, <2>2, <2>3, HeldStep
<1>5. ASSUME Crash PROVE Held'
  <2>1. \A d \in Messages : pc'[d] = "idle"
    BY <1>5 DEF Crash
  <2> QED BY <2>1 DEF Held, HeldBy
<1>6. ASSUME UNCHANGED vars \/ \E d \in Messages : Replay(d) PROVE Held'
  <2>1. UNCHANGED <<known, stats, pc, entity, seen, rowLock>>
    BY <1>6 DEF vars, Replay
  <2> QED BY <2>1 DEF Held, HeldBy
<1> QED BY <1>1, <1>2, <1>3, <1>4, <1>5, <1>6 DEF Next, Step, Quiet

\* Event e counts once more in g than in f.
Counted(f, g, e) == f \in [Ids -> Nat] /\ e \in Ids /\ g = [f EXCEPT ![e] = @ + 1]

\* An event that counts once more adds one to the counts it is in, and its amount
\* to the totals.
LEMMA CountOnce ==
  ASSUME NEW f, NEW g, NEW e, Counted(f, g, e), NEW S \in SUBSET Ids
  PROVE  /\ SumFunctionOnSet(f, S) \in Int /\ SumFunctionOnSet(Amounts(f), S) \in Int
         /\ e \in S =>
              /\ SumFunctionOnSet(g, S) = SumFunctionOnSet(f, S) + 1
              /\ SumFunctionOnSet(Amounts(g), S)
                   = SumFunctionOnSet(Amounts(f), S) + Events[e].amount
         /\ e \notin S =>
              /\ SumFunctionOnSet(g, S) = SumFunctionOnSet(f, S)
              /\ SumFunctionOnSet(Amounts(g), S) = SumFunctionOnSet(Amounts(f), S)
<1>1. IsFiniteSet(S)
  BY ConsumerAssumption, FS_Subset
<1>2. \A x \in Ids : Events[x].amount \in Nat
  <2>1. ASSUME NEW x \in Ids PROVE Events[x].amount \in Nat
    <3>1. Events[x] \in [type : EventTypes, wallet : Wallets, amount : Nat]
      BY ConsumerAssumption
    <3> QED BY <3>1
  <2> QED BY <2>1
<1>3. /\ e \in Ids /\ f \in [Ids -> Nat] /\ g \in [Ids -> Nat]
      /\ g[e] = f[e] + 1 /\ \A x \in Ids \ {e} : g[x] = f[x]
  BY DEF Counted
<1>4. \A x \in S : f[x] \in Int /\ g[x] \in Int
  BY <1>3
<1>5. PICK A, B : A = Amounts(f) /\ B = Amounts(g)
  OBVIOUS
<1>6. \A x \in Ids : A[x] = f[x] * Events[x].amount /\ B[x] = g[x] * Events[x].amount
  BY <1>5 DEF Amounts
<1>7. \A x \in S : A[x] \in Int /\ B[x] \in Int
  <2>1. \A n \in Nat, m \in Nat : n * m \in Int
    OBVIOUS
  <2>2. \A x \in S : f[x] \in Nat /\ g[x] \in Nat /\ Events[x].amount \in Nat
    BY <1>2, <1>3
  <2> QED BY <1>6, <2>1, <2>2
<1>8. A[e] \in Int /\ B[e] = A[e] + Events[e].amount
  <2>1. PICK n \in Nat, m \in Nat : n = f[e] /\ m = Events[e].amount
    BY <1>2, <1>3
  <2>2. (n + 1) * m = n * m + m /\ n * m \in Int
    OBVIOUS
  <2>3. A[e] = n * m /\ B[e] = (n + 1) * m
    BY <1>3, <1>6, <2>1
  <2> QED BY <2>1, <2>2, <2>3
<1>9. \A x \in Ids \ {e} : B[x] = A[x]
  BY <1>3, <1>6
<1>10. SumFunctionOnSet(f, S) \in Int /\ SumFunctionOnSet(A, S) \in Int
  BY <1>1, <1>4, <1>7, SumType
<1>11. CASE e \in S
  <2>1. \A x \in S \ {e} : g[x] = f[x] /\ B[x] = A[x]
    BY <1>3, <1>9
  <2>2. SumFunctionOnSet(g, S) = SumFunctionOnSet(f, S) + (g[e] - f[e])
    <3>1. \A x \in S \ {e} : g[x] = f[x]
      BY <2>1
    <3> QED BY <1>1, <1>4, <1>11, <3>1, SumChange
  <2>3. SumFunctionOnSet(B, S) = SumFunctionOnSet(A, S) + (B[e] - A[e])
    <3>1. \A x \in S \ {e} : B[x] = A[x]
      BY <2>1
    <3> QED BY <1>1, <1>7, <1>11, <3>1, SumChange
  <2>4. g[e] - f[e] = 1 /\ B[e] - A[e] = Events[e].amount
    BY <1>2, <1>3, <1>8
  <2> QED BY <1>5, <1>10, <1>11, <2>2, <2>3, <2>4
<1>12. CASE e \notin S
  <2>1. \A x \in S : g[x] = f[x] /\ B[x] = A[x]
    BY <1>3, <1>9, <1>12
  <2>2. SumFunctionOnSet(g, S) = SumFunctionOnSet(f, S)
    BY <1>1, <2>1, SumSame
  <2>3. SumFunctionOnSet(B, S) = SumFunctionOnSet(A, S)
    BY <1>1, <2>1, SumSame
  <2> QED BY <1>5, <1>10, <1>12, <2>2, <2>3
<1> QED BY <1>11, <1>12

\* What the columns of a wallet come to, for the counts of f and a row s.
Explains(f, s, w) ==
  /\ s.deposited = SumFunctionOnSet(Amounts(f), Of("FundsDeposited", w))
  /\ s.withdrawn = SumFunctionOnSet(Amounts(f), Of("FundsWithdrawn", w))
  /\ s.deposits = SumFunctionOnSet(f, Of("FundsDeposited", w))
  /\ s.withdrawals = SumFunctionOnSet(f, Of("FundsWithdrawn", w))

LEMMA Explained == KnownTotalsExact <=> \A w \in known : Explains(applied, stats[w], w)
BY DEF KnownTotalsExact, AddsUp, Explains, Amounts

\* An event that counts once more is nothing to the wallets it is not of.
LEMMA ExplainsOthers ==
  ASSUME NEW f, NEW g, NEW e, Counted(f, g, e),
         NEW w, Events[e].wallet # w, NEW s, Explains(f, s, w)
  PROVE  Explains(g, s, w)
<1>1. \A t : Of(t, w) \in SUBSET Ids /\ e \notin Of(t, w)
  BY DEF Of, Counted
<1>2. ASSUME NEW t
      PROVE  /\ SumFunctionOnSet(g, Of(t, w)) = SumFunctionOnSet(f, Of(t, w))
             /\ SumFunctionOnSet(Amounts(g), Of(t, w)) = SumFunctionOnSet(Amounts(f), Of(t, w))
  BY <1>1, CountOnce
<1> QED BY <1>2 DEF Explains

\* A deposit that counts once more is in the columns of deposits, and only there.
LEMMA ExplainsDeposit ==
  ASSUME NEW f, NEW g, NEW e, Counted(f, g, e),
         Events[e].type = "FundsDeposited", NEW a, a = Events[e].amount,
         NEW w, Events[e].wallet = w, NEW s, Explains(f, s, w),
         NEW r, r.deposited = s.deposited + a, r.deposits = s.deposits + 1,
         r.withdrawn = s.withdrawn, r.withdrawals = s.withdrawals
  PROVE  Explains(g, r, w)
<1>1. PICK D, W : D = Of("FundsDeposited", w) /\ W = Of("FundsWithdrawn", w)
  OBVIOUS
<1>2. D \in SUBSET Ids /\ W \in SUBSET Ids /\ e \in D /\ e \notin W
  BY <1>1 DEF Of, Counted
<1>3. /\ SumFunctionOnSet(g, D) = SumFunctionOnSet(f, D) + 1
      /\ SumFunctionOnSet(Amounts(g), D) = SumFunctionOnSet(Amounts(f), D) + a
  BY <1>2, CountOnce
<1>4. /\ SumFunctionOnSet(g, W) = SumFunctionOnSet(f, W)
      /\ SumFunctionOnSet(Amounts(g), W) = SumFunctionOnSet(Amounts(f), W)
  BY <1>2, CountOnce
<1> QED BY <1>1, <1>3, <1>4 DEF Explains

\* A withdrawal that counts once more is in the columns of withdrawals, and only
\* there.
LEMMA ExplainsWithdrawal ==
  ASSUME NEW f, NEW g, NEW e, Counted(f, g, e),
         Events[e].type = "FundsWithdrawn", NEW a, a = Events[e].amount,
         NEW w, Events[e].wallet = w, NEW s, Explains(f, s, w),
         NEW r, r.withdrawn = s.withdrawn + a, r.withdrawals = s.withdrawals + 1,
         r.deposited = s.deposited, r.deposits = s.deposits
  PROVE  Explains(g, r, w)
<1>1. PICK D, W : D = Of("FundsDeposited", w) /\ W = Of("FundsWithdrawn", w)
  OBVIOUS
<1>2. D \in SUBSET Ids /\ W \in SUBSET Ids /\ e \notin D /\ e \in W
  BY <1>1 DEF Of, Counted
<1>3. /\ SumFunctionOnSet(g, W) = SumFunctionOnSet(f, W) + 1
      /\ SumFunctionOnSet(Amounts(g), W) = SumFunctionOnSet(Amounts(f), W) + a
  BY <1>2, CountOnce
<1>4. /\ SumFunctionOnSet(g, D) = SumFunctionOnSet(f, D)
      /\ SumFunctionOnSet(Amounts(g), D) = SumFunctionOnSet(Amounts(f), D)
  BY <1>2, CountOnce
<1> QED BY <1>1, <1>3, <1>4 DEF Explains

\* A commit brings the columns of its wallet up to the new count.
LEMMA WriteExact ==
  ASSUME Handling, Held, KnownTotalsExact, NEW d \in Messages, Write(d)
  PROVE  KnownTotalsExact'
<1> USE DEF setting
<1>1. CASE UNCHANGED <<stats, applied>>
  BY <1>1 DEF KnownTotalsExact, AddsUp, Write
<1>2. CASE applied' = [applied EXCEPT ![Deliveries[d]] = @ + 1]
  <2>1. PICK e \in Ids, W \in Wallets : e = Deliveries[d] /\ W = Wallet(d)
    BY EventType
  <2>2. PICK g : g = applied'
    OBVIOUS
  <2>3. /\ applied \in [Ids -> Nat] /\ stats \in [Wallets -> Stats] /\ known \subseteq Wallets
        /\ known \subseteq rows /\ known' = known /\ Events[e].wallet = W
        /\ Counted(applied, g, e)
    BY <1>2, <2>1, <2>2 DEF Handling, TypeOK, Write, Wallet, Event, Counted
  <2>4. ASSUME NEW v \in known, v # W PROVE Explains(g, stats'[v], v)
    <3>1. stats'[v] = stats[v]
      BY <2>1, <2>3, <2>4 DEF Write
    <3>2. Explains(applied, stats[v], v)
      BY Explained
    <3> QED BY <2>3, <2>4, <3>1, <3>2, ExplainsOthers
  <2>5. ASSUME W \in known PROVE Explains(g, stats'[W], W)
    <3>1. PICK old \in Stats : old = stats[W]
      BY <2>3
    <3>2. /\ seen[d] = {old} /\ entity[d] = Apply(d, old) /\ HasAnalytics(e)
      BY <2>1, <2>5, <3>1 DEF Held, HeldBy, Write, Handling, Acknowledged
    <3>3. stats'[W] = Updated(d, old)
      BY <2>1, <2>3, <2>5, <3>1, <3>2 DEF Write
    <3>4. PICK a : a = Event(d).amount
      OBVIOUS
    <3>5. /\ a = Events[e].amount /\ Event(d).type = Events[e].type
          /\ Events[e].type \in {"FundsDeposited", "FundsWithdrawn"}
      BY <2>1, <3>2, <3>4 DEF Event, HasAnalytics
    <3>6. Explains(applied, old, W)
      BY <2>5, <3>1, Explained
    <3>7. CASE Events[e].type = "FundsDeposited"
      <4>1. stats'[W] = [old EXCEPT !.deposited = @ + a, !.deposits = @ + 1]
        BY <2>1, <3>2, <3>3, <3>4, <3>5, <3>7, Written DEF Handling
      <4>2. PICK r : r = stats'[W]
        OBVIOUS
      <4>3. /\ r.deposited = old.deposited + a /\ r.deposits = old.deposits + 1
            /\ r.withdrawn = old.withdrawn /\ r.withdrawals = old.withdrawals
        BY <4>1, <4>2 DEF Stats
      <4> QED BY <2>3, <3>5, <3>6, <3>7, <4>2, <4>3, ExplainsDeposit
    <3>8. CASE Events[e].type = "FundsWithdrawn"
      <4>1. stats'[W] = [old EXCEPT !.withdrawn = @ + a, !.withdrawals = @ + 1,
                                    !.flagged = entity[d].flagged]
        BY <2>1, <3>2, <3>3, <3>4, <3>5, <3>8, Written DEF Handling
      <4>2. PICK r : r = stats'[W]
        OBVIOUS
      <4>3. /\ r.withdrawn = old.withdrawn + a /\ r.withdrawals = old.withdrawals + 1
            /\ r.deposited = old.deposited /\ r.deposits = old.deposits
        BY <4>1, <4>2 DEF Stats
      <4> QED BY <2>3, <3>5, <3>6, <3>8, <4>2, <4>3, ExplainsWithdrawal
    <3> QED BY <3>5, <3>7, <3>8
  <2>6. \A v \in known' : Explains(applied', stats'[v], v)
    BY <2>2, <2>3, <2>4, <2>5
  <2> QED BY <2>6 DEF KnownTotalsExact, AddsUp, Explains, Amounts
<1> QED BY <1>1, <1>2 DEF Write

\* No other step touches the columns or the counts.
LEMMA OthersExact ==
  ASSUME KnownTotalsExact, [Next]_vars, \A d \in Messages : ~Write(d)
  PROVE  KnownTotalsExact'
<1>1. UNCHANGED <<known, stats, applied>>
  BY DEF Next, Step, Deliver, Check, Find, SaveSelect, MarkSelect, MarkInsert, Settle, Fail,
         Replay, Crash, Quiet, vars, db, setting
<1> QED BY <1>1 DEF KnownTotalsExact, AddsUp

\* Nothing has counted, and the columns are zero.
LEMMA InitExact == Init => Exact
<1> SUFFICES ASSUME Init PROVE Exact
  OBVIOUS
<1>1. Handling /\ TypeOK
  BY InitHandling DEF Handling
<1>2. Held
  BY DEF Init, Held, HeldBy
<1>3. ASSUME NEW w \in known PROVE Explains(applied, stats[w], w)
  <2>1. \A t : IsFiniteSet(Of(t, w)) /\ Of(t, w) \subseteq Ids
    <3>1. \A t : Of(t, w) \subseteq Ids
      BY DEF Of
    <3> QED BY <3>1, ConsumerAssumption, FS_Subset
  <2>2. \A x \in Ids : applied[x] = 0 /\ Events[x].amount \in Nat
    <3>1. ASSUME NEW x \in Ids PROVE Events[x].amount \in Nat
      <4>1. Events[x] \in [type : EventTypes, wallet : Wallets, amount : Nat]
        BY ConsumerAssumption
      <4> QED BY <4>1
    <3> QED BY <3>1 DEF Init
  <2>3. \A x \in Ids : Amounts(applied)[x] = 0
    BY <2>2 DEF Amounts
  <2>4. ASSUME NEW t
        PROVE  /\ SumFunctionOnSet(applied, Of(t, w)) = 0
               /\ SumFunctionOnSet(Amounts(applied), Of(t, w)) = 0
    <3>1. PICK A, S : A = Amounts(applied) /\ S = Of(t, w)
      OBVIOUS
    <3>2. IsFiniteSet(S) /\ \A x \in S : applied[x] = 0 /\ A[x] = 0
      BY <2>1, <2>2, <2>3, <3>1
    <3>3. SumFunctionOnSet(applied, S) = 0 /\ SumFunctionOnSet(A, S) = 0
      BY <3>2, SumZero
    <3> QED BY <3>1, <3>3
  <2>5. stats[w] = Zero
    BY <1>1 DEF Init, TypeOK
  <2> QED BY <2>4, <2>5 DEF Explains, Zero
<1> QED BY <1>1, <1>2, <1>3, Explained DEF Exact

LEMMA NextExact == Exact /\ [Next]_vars => Exact'
<1> SUFFICES ASSUME Exact, [Next]_vars PROVE Exact'
  OBVIOUS
<1>1. Handling' /\ Held'
  BY NextHandling, NextHeld DEF Exact, Handling
<1>2. KnownTotalsExact'
  BY WriteExact, OthersExact DEF Exact
<1> QED BY <1>1, <1>2 DEF Exact

\* The columns of a wallet that had its analytics row are, in every reachable
\* state, what its events committed: however handlers overlap, fail or die, none
\* of its updates is lost, for the row is locked from findOne to the commit.
THEOREM TotalsAreExact == Spec => []KnownTotalsExact
<1>1. Spec => []Exact
  BY InitExact, NextExact, PTL DEF Spec
<1>2. Exact => KnownTotalsExact
  BY DEF Exact
<1> QED BY <1>1, <1>2, PTL
=============================================================================
