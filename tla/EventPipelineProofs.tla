------------------------- MODULE EventPipelineProofs -------------------------
(***************************************************************************)
(* Proofs about EventPipeline for all events, any number of cycles and of  *)
(* copies, and every number of faults, restarts and replays.               *)
(*                                                                         *)
(* The invariants of the two ends hold in the composition: a step of one   *)
(* end is a stutter of the other, but for the counter of faults they       *)
(* share.  What joins the ends, Linked, is that the worker handles only    *)
(* copies the publisher has had accepted, and that these copies have room  *)
(* for what they may still do; EventConsumerProofs!Fits, which says that   *)
(* there of all copies that could exist, says it here of those that do.    *)
(***************************************************************************)
EXTENDS EventPipeline, FiniteSetTheorems, TLAPS

PubP == INSTANCE OutboxPublisherProofs WITH pc <- cycle
ConP == INSTANCE EventConsumerProofs WITH
          pc <- handler, SpacedCopies <- {FALSE}, Deliveries <- [c \in Copies |-> c[1]]

\* A copy that is handled was sent, and the copies of m that were sent are all
\* that count.
Linked ==
  /\ \A c \in Copies : handler[c] # "idle" => c[2] <= sent[c[1]]
  /\ \A m \in Messages : ConP!Fits(m, SentCopies(m))

Ends == PubP!Claims /\ ConP!Handling /\ Linked

-----------------------------------------------------------------------------
(* The theorems of both ends apply here *)

\* What an INSTANCE makes of the standard modules is what they are.
LEMMA SameSets ==
  /\ \A S : IsFiniteSet(S) => PubP!IsFiniteSet(S) /\ ConP!IsFiniteSet(S)
  /\ \A S : ConP!Cardinality(S) = Cardinality(S)
BY DEF IsFiniteSet, PubP!IsFiniteSet, ConP!IsFiniteSet, Cardinality, ConP!Cardinality

\* The copies of an event, by number.
LEMMA CopiesAreFinite == IsFiniteSet(Copies)
<1>1. IsFiniteSet(1 .. MaxCopies)
  BY PipelineAssumption, FS_Interval
<1> QED BY <1>1, PipelineAssumption, FS_Product DEF Copies

\* The messages of the worker are the copies, their events those of Events.
LEMMA WorkerNames ==
  /\ ConP!Messages = Copies /\ ConP!Ids = Messages
  /\ \A m \in Messages : ConP!Copies(m) = {c \in Copies : c[1] = m}
  /\ \A c \in Copies : c[1] \in Messages /\ c[2] \in 1 .. MaxCopies /\ c = <<c[1], c[2]>>
BY DEF ConP!Messages, ConP!Ids, ConP!Copies, Messages, Copies

\* The assumption of the publisher.
LEMMA PublisherAssumes ==
  /\ Messages \subseteq Nat /\ PubP!IsFiniteSet(Messages) /\ PubP!IsFiniteSet(Cycles)
  /\ BatchSize \in Nat \ {0}
  /\ MaxAttempts \in Nat \ {0}
  /\ PoolSize \in Nat \ {0}
  /\ MaxFaults \in Nat /\ MaxLeaks \in Nat
BY PipelineAssumption, SameSets

\* The assumption of the worker.
LEMMA WorkerAssumes ==
  /\ Events \in [ConP!Ids -> [type : ConP!EventTypes, wallet : Wallets, amount : Nat]]
  /\ ConP!IsFiniteSet(ConP!Ids)
  /\ [c \in Copies |-> c[1]] \in [ConP!Messages -> ConP!Ids] /\ ConP!IsFiniteSet(ConP!Messages)
  /\ KnownWallets \subseteq SUBSET Wallets
  /\ Prefetch \in Nat \ {0}
  /\ {FALSE} \subseteq BOOLEAN
  /\ RapidWithdrawal \in Nat \ {0} /\ HighAmount \in Nat
  /\ MaxFaults \in Nat /\ MaxReplays \in Nat
<1>1. ConP!EventTypes = Con!EventTypes
  BY DEF ConP!EventTypes, Con!EventTypes
<1> QED BY <1>1, PipelineAssumption, SameSets, CopiesAreFinite, WorkerNames

\* The publisher of EventPipeline is the one the theorems are about ...
LEMMA SamePublisher ==
  /\ Pub!Init <=> PubP!Init
  /\ Pub!Next <=> PubP!Next
<1>1. Pub!Init <=> PubP!Init
  BY DEF Pub!Init, PubP!Init
<1>2. Pub!Next <=> PubP!Next
  BY Zenon
   DEF Pub!table, PubP!table, Pub!pool, PubP!pool, Pub!vars, PubP!vars,
       Pub!Goto, PubP!Goto, Pub!Enqueue, PubP!Enqueue, Pub!BecomeDue,
       PubP!BecomeDue, Pub!Tick, PubP!Tick, Pub!CanConnect, PubP!CanConnect,
       Pub!Connect, PubP!Connect, Pub!BeginFails, PubP!BeginFails,
       Pub!LockedByOthers, PubP!LockedByOthers, Pub!Claimable,
       PubP!Claimable, Pub!Rank, PubP!Rank, Pub!Oldest, PubP!Oldest,
       Pub!Entry, PubP!Entry, Pub!Select, PubP!Select, Pub!Claim,
       PubP!Claim, Pub!Current, PubP!Current, Pub!Emit, PubP!Emit,
       Pub!EmitFails, PubP!EmitFails, Pub!CanUpdate, PubP!CanUpdate,
       Pub!Proceed, PubP!Proceed, Pub!MarkPublished, PubP!MarkPublished,
       Pub!Outcome, PubP!Outcome, Pub!MarkFailed, PubP!MarkFailed,
       Pub!MarkFails, PubP!MarkFails, Pub!ClaimFails, PubP!ClaimFails,
       Pub!Release, PubP!Release, Pub!Crash, PubP!Crash, Pub!Step,
       PubP!Step, Pub!Next, PubP!Next, Pub!Min, PubP!Min, Pub!Cardinality,
       PubP!Cardinality, Pub!ToSet, PubP!ToSet
<1> QED BY <1>1, <1>2

\* ... and so is the worker.
LEMMA SameWorker ==
  /\ Con!Init <=> ConP!Init
  /\ Con!Crash <=> ConP!Crash
  /\ \A c \in Copies : /\ Con!Step(c) <=> ConP!Step(c)
                       /\ Con!Fail(c) <=> ConP!Fail(c)
                       /\ Con!Replay(c) <=> ConP!Replay(c)
<1>1. Con!Init <=> ConP!Init
  BY DEF Con!Init, ConP!Init, Con!Messages, ConP!Messages, Con!Zero, ConP!Zero,
         Con!Ids, ConP!Ids
<1> QED BY Zenon, <1>1
   DEF Con!Messages, ConP!Messages, Con!db, ConP!db, Con!setting,
       ConP!setting, Con!vars, ConP!vars, Con!Event, ConP!Event, Con!Wallet,
       ConP!Wallet, Con!Zero, ConP!Zero, Con!Goto, ConP!Goto, Con!EndTx,
       ConP!EndTx, Con!Deliver, ConP!Deliver, Con!Check, ConP!Check,
       Con!Unlocked, ConP!Unlocked, Con!Suspicious, ConP!Suspicious,
       Con!Apply, ConP!Apply, Con!Find, ConP!Find, Con!SaveSelect,
       ConP!SaveSelect, Con!Assigned, ConP!Assigned, Con!Updated,
       ConP!Updated, Con!Write, ConP!Write, Con!MarkSelect, ConP!MarkSelect,
       Con!MarkInsert, ConP!MarkInsert, Con!Settle, ConP!Settle, Con!Fail,
       ConP!Fail, Con!Crash, ConP!Crash, Con!Replay, ConP!Replay, Con!Step,
       ConP!Step, Con!Cardinality, ConP!Cardinality

\* The invariants of the ends, by the lemmas of their modules.
LEMMA EndsBegin == Pub!Init /\ Con!Init => PubP!Claims /\ ConP!Handling
<1>1. PubP!Init => PubP!Claims
  BY PubP!InitClaims, PublisherAssumes
<1>2. ConP!Init => ConP!Handling
  BY ConP!InitHandling, WorkerAssumes
<1> QED BY <1>1, <1>2, SamePublisher, SameWorker

\* What a step of the publisher does to the publisher.
LEMMA PublisherKeeps ==
  ASSUME PubP!Claims, Pub!Next
  PROVE  /\ PubP!Claims'
         /\ faults' \in {faults, faults + 1}
         /\ sent' = sent \/ \E m \in Messages : sent' = [sent EXCEPT ![m] = @ + 1]
<1>1. PubP!Next
  BY SamePublisher
<1>2. PubP!Claims'
  BY <1>1, PubP!NextClaims, PublisherAssumes
<1>3. /\ faults' \in {faults, faults + 1}
      /\ sent' = sent \/ \E m \in Messages : sent' = [sent EXCEPT ![m] = @ + 1]
  BY <1>1, PubP!NextSends, PublisherAssumes
<1> QED BY <1>2, <1>3

\* A step of the worker, as one of the worker's own module.
LEMMA WorkerKeeps ==
  ASSUME ConP!Handling,
         Con!Crash \/ \E c \in Copies : Con!Step(c) \/ Con!Fail(c) \/ Con!Replay(c)
  PROVE  ConP!Next /\ ConP!Handling'
<1>1. ConP!Crash \/ \E c \in Copies : ConP!Step(c) \/ ConP!Fail(c) \/ ConP!Replay(c)
  BY SameWorker
<1>2. ConP!Next
  BY <1>1, WorkerNames DEF ConP!Next
<1>3. ConP!Handling'
  BY <1>2, ConP!NextHandling, WorkerAssumes
<1> QED BY <1>2, <1>3

\* The publisher is not concerned when the worker moves, nor when it fails.
LEMMA PublisherRests ==
  ASSUME PubP!Claims, UNCHANGED pubVars, faults' \in Nat
  PROVE  PubP!Claims'
<1>1. UNCHANGED <<PubP!table, sent, cycle, batch, verdict, rowLocks, PubP!pool>>
  BY DEF pubVars, PubP!table, PubP!pool
<1> QED BY <1>1, PubP!StutterClaims, PublisherAssumes

\* Nor is the worker when the publisher does.
LEMMA WorkerRests ==
  ASSUME ConP!Handling, UNCHANGED conVars, faults' \in {faults, faults + 1}
  PROVE  ConP!Handling'
<1>1. UNCHANGED <<ConP!setting, ConP!db, message, handler, entity, seen, rowLock>>
  BY DEF conVars, ConP!setting, ConP!db
<1> QED BY <1>1, ConP!FaultElsewhere, WorkerAssumes

\* The typed parts of the ends that the composition uses.
LEMMA EndTypes ==
  ASSUME PubP!Claims, ConP!Handling
  PROVE  /\ sent \in [Messages -> Nat] /\ attempts \in [Messages -> Nat]
         /\ message \in [Copies -> {"queued", "inflight", "acked", "dead"}]
         /\ applied \in [Messages -> Nat] /\ faults \in Nat /\ replays \in Nat
         /\ ConP!TypeOK
BY WorkerNames DEF PubP!Claims, PubP!TypeOK, ConP!Handling, ConP!TypeOK

-----------------------------------------------------------------------------
(* Every step keeps the link *)

\* The copies of m that were sent are copies of the event m, as the worker
\* counts them.
LEMMA SentAreCopies ==
  ASSUME NEW m \in Messages
  PROVE  SentCopies(m) \in SUBSET ConP!Copies(m)
BY WorkerNames DEF SentCopies

\* A step that sends nothing, and makes handlers run only for what was sent.
LEMMA NothingSent ==
  ASSUME PubP!Claims, ConP!Handling, ConP!Handling', Linked, sent' = sent, ConP!Next,
         \A c \in Copies : handler'[c] # "idle" => handler[c] # "idle" \/ c[2] <= sent[c[1]]
  PROVE  Linked'
<1>1. \A c \in Copies : handler'[c] # "idle" => c[2] <= sent'[c[1]]
  BY DEF Linked
<1>2. ASSUME NEW m \in Messages PROVE ConP!Fits(m, SentCopies(m))'
  <2>1. PICK S : S = SentCopies(m)
    OBVIOUS
  <2>2. SentCopies(m)' = S
    BY <2>1 DEF SentCopies
  <2>3. S \in SUBSET ConP!Copies(m) /\ \A x \in ConP!Copies(m) \ S : handler[x] = "idle"
    BY <2>1, SentAreCopies, WorkerNames DEF SentCopies, Linked
  <2>4. ConP!Fits(m, S) /\ m \in ConP!Ids
    BY <2>1, WorkerNames DEF Linked
  <2>5. ConP!TypeOK /\ ConP!TypeOK'
    BY DEF ConP!Handling
  <2>6. ConP!Fits(m, S)'
    BY <2>3, <2>4, <2>5, ConP!NextFits, WorkerAssumes
  <2> QED BY <2>2, <2>6 DEF ConP!Fits
<1> QED BY <1>1, <1>2 DEF Linked

\* A step of the publisher, which may send one more copy.
LEMMA OneSent ==
  ASSUME PubP!Claims, ConP!Handling, ConP!Handling', Linked, UNCHANGED conVars,
         faults' \in {faults, faults + 1},
         sent' = sent \/ \E m \in Messages : sent' = [sent EXCEPT ![m] = @ + 1]
  PROVE  Linked'
<1>1. sent \in [Messages -> Nat] /\ \A m \in Messages : sent'[m] \in {sent[m], sent[m] + 1}
  BY EndTypes
<1>2. ASSUME NEW c \in Copies, handler'[c] # "idle" PROVE c[2] <= sent'[c[1]]
  <2>1. c[2] <= sent[c[1]] /\ c[1] \in Messages /\ c[2] \in Nat
    BY <1>2, WorkerNames, PipelineAssumption DEF Linked, conVars
  <2> QED BY <1>1, <2>1
<1>3. ASSUME NEW m \in Messages PROVE ConP!Fits(m, SentCopies(m))'
  <2>1. PICK S : S = SentCopies(m)
    OBVIOUS
  <2>2. S \in SUBSET ConP!Copies(m) /\ ConP!Fits(m, S) /\ m \in ConP!Ids
    BY <2>1, SentAreCopies, WorkerNames DEF Linked
  <2>3. ConP!TypeOK /\ ConP!TypeOK' /\ UNCHANGED <<applied, message, handler, replays>>
    BY DEF ConP!Handling, conVars
  <2>4. ASSUME NEW d \in ConP!Copies(m) PROVE ConP!Fits(m, S)' /\ ConP!Fits(m, S \cup {d})'
    BY <2>2, <2>3, ConP!MoreFits, WorkerAssumes
  <2>5. SentCopies(m)' = S \/ \E d \in ConP!Copies(m) : SentCopies(m)' = S \cup {d}
    <3>1. CASE sent'[m] = sent[m]
      BY <2>1, <3>1 DEF SentCopies
    <3>2. CASE sent'[m] = sent[m] + 1 /\ sent[m] + 1 \in 1 .. MaxCopies
      <4>1. <<m, sent[m] + 1>> \in Copies
        BY <3>2 DEF Copies
      <4>2. <<m, sent[m] + 1>> \in ConP!Copies(m)
        BY <4>1, WorkerNames
      <4>3. \A c \in Copies : c[1] = m /\ c[2] <= sent[m] + 1 <=>
              (c[1] = m /\ c[2] <= sent[m]) \/ c = <<m, sent[m] + 1>>
        BY <1>1, WorkerNames, PipelineAssumption
      <4>4. SentCopies(m)' = S \cup {<<m, sent[m] + 1>>}
        BY <2>1, <3>2, <4>1, <4>3 DEF SentCopies
      <4> QED BY <4>2, <4>4
    <3>3. CASE sent'[m] = sent[m] + 1 /\ sent[m] + 1 \notin 1 .. MaxCopies
      <4>1. \A c \in Copies : c[1] = m => (c[2] <= sent[m] + 1 <=> c[2] <= sent[m])
        BY <1>1, <3>3, WorkerNames, PipelineAssumption
      <4> QED BY <2>1, <3>3, <4>1 DEF SentCopies
    <3> QED BY <1>1, <3>1, <3>2, <3>3
  <2>6. <<m, 1>> \in ConP!Copies(m)
    BY WorkerNames, PipelineAssumption DEF Copies
  <2> QED BY <2>4, <2>5, <2>6 DEF ConP!Fits
<1> QED BY <1>2, <1>3 DEF Linked

-----------------------------------------------------------------------------
(* Ends is an inductive invariant *)

\* Initially nothing is sent and nothing is handled.
LEMMA InitEnds == Init => Ends
<1> SUFFICES ASSUME Init PROVE Ends
  OBVIOUS
<1>1. PubP!Claims /\ ConP!Handling
  BY EndsBegin DEF Init
<1>2. /\ sent = [m \in Messages |-> 0] /\ handler = [c \in Copies |-> "idle"]
      /\ applied = [m \in Messages |-> 0] /\ faults = 0 /\ replays = 0
  BY WorkerNames, SameWorker DEF Init, Pub!Init, ConP!Init
<1>3. ASSUME NEW m \in Messages PROVE ConP!Fits(m, SentCopies(m))
  <2>1. SentCopies(m) = {}
    BY <1>2, WorkerNames, PipelineAssumption DEF SentCopies
  <2>2. ConP!Cardinality({}) = 0
    BY SameSets, FS_EmptySet
  <2> QED BY <1>2, <2>1, <2>2 DEF ConP!Fits, ConP!Room
<1> QED BY <1>1, <1>2, <1>3 DEF Ends, Linked

\* A broker that restarts loses copies, which neither end notices.
LEMMA RestartEnds ==
  ASSUME Ends, BrokerRestart \/ UNCHANGED vars
  PROVE  Ends'
<1>1. UNCHANGED <<pubVars, conVars, faults>>
  BY DEF BrokerRestart, vars
<1>2. faults \in Nat /\ faults' = faults
  BY <1>1, EndTypes DEF Ends
<1>3. PubP!Claims'
  BY <1>1, <1>2, PublisherRests DEF Ends
<1>4. ConP!Handling'
  BY <1>1, <1>2, WorkerRests DEF Ends
<1>5. sent' = sent
  BY <1>1 DEF pubVars
<1> QED BY <1>1, <1>2, <1>3, <1>4, <1>5, OneSent DEF Ends

\* Every step keeps the invariant.
LEMMA NextEnds == Ends /\ [Next]_vars => Ends'
<1> SUFFICES ASSUME Ends, [Next]_vars PROVE Ends'
  OBVIOUS
<1>1. CASE PublisherStep
  <2>1. PubP!Claims /\ Pub!Next /\ UNCHANGED conVars
    BY <1>1 DEF PublisherStep, Ends
  <2>2. /\ PubP!Claims' /\ faults' \in {faults, faults + 1}
        /\ sent' = sent \/ \E m \in Messages : sent' = [sent EXCEPT ![m] = @ + 1]
    BY <2>1, PublisherKeeps
  <2>3. ConP!Handling'
    BY <2>1, <2>2, WorkerRests DEF Ends
  <2> QED BY <2>1, <2>2, <2>3, OneSent DEF Ends
<1>2. ASSUME UNCHANGED pubVars,
             Con!Crash \/ \E c \in Copies : Con!Step(c) \/ Con!Fail(c) \/ Con!Replay(c),
             \A c \in Copies : handler'[c] # "idle" => handler[c] # "idle" \/ c[2] <= sent[c[1]]
      PROVE  Ends'
  <2>1. ConP!Next /\ ConP!Handling'
    BY <1>2, WorkerKeeps DEF Ends
  <2>2. faults' \in Nat
    BY <2>1 DEF ConP!Handling, ConP!TypeOK
  <2>3. PubP!Claims'
    BY <1>2, <2>2, PublisherRests DEF Ends
  <2>4. sent' = sent
    BY <1>2 DEF pubVars
  <2> QED BY <1>2, <2>1, <2>3, <2>4, NothingSent DEF Ends
<1>3. ConP!TypeOK
  BY EndTypes DEF Ends
<1>4. ASSUME NEW d \in Copies, Handle(d) PROVE Ends'
  <2>1. Con!Step(d) /\ UNCHANGED pubVars
    BY <1>4 DEF Handle
  <2>2. handler[d] # "idle" \/ d[2] <= sent[d[1]]
    BY <1>4 DEF Handle, InBroker
  <2>3. ConP!Step(d)
    BY <2>1, SameWorker
  <2>4. \A x \in Copies : handler'[x] # "idle" => handler[x] # "idle" \/ x = d
    BY <1>3, <2>3, ConP!Starts, WorkerAssumes, WorkerNames
  <2> QED BY <1>2, <2>1, <2>2, <2>4
<1>5. CASE WorkerFails
  <2>1. /\ Con!Crash \/ \E d \in Copies : Con!Fail(d) \/ Con!Replay(d)
        /\ UNCHANGED pubVars
    BY <1>5 DEF WorkerFails
  <2>2. ConP!Crash \/ \E d \in Copies : ConP!Fail(d) \/ ConP!Replay(d)
    BY <2>1, SameWorker
  <2>3. \A x \in Copies : handler'[x] # "idle" => handler[x] # "idle"
    BY <1>3, <2>2, ConP!Starts, WorkerAssumes, WorkerNames
  <2> QED BY <1>2, <2>1, <2>3
<1>6. CASE BrokerRestart \/ UNCHANGED vars
  BY <1>6, RestartEnds
<1> QED BY <1>1, <1>4, <1>5, <1>6 DEF Next

\* Every state the pipeline reaches has the invariant.
LEMMA AlwaysEnds == Spec => []Ends
BY InitEnds, NextEnds, PTL DEF Spec

-----------------------------------------------------------------------------
(* The theorems *)

\* No event that was marked published vanishes between the two processes: it is
\* processed, or a copy of it is on its way, dead-lettered, or lost by a broker
\* that restarted, whatever overlaps and fails at either end.
THEOREM NothingIsDropped == Spec => []NothingVanishes
<1>1. ASSUME Ends, NEW m \in Messages, status[m] = "published"
      PROVE  \/ m \in consumed \/ Abandoned(m)
             \/ \E c \in SentCopies(m) : message[c] \in {"queued", "inflight"}
  <2>1. sent[m] \in Nat /\ sent[m] > 0
    BY <1>1, EndTypes DEF Ends, PubP!Claims, PubP!PublishedWasSent
  <2>2. PICK c \in Copies : c = <<m, 1>>
    <3>1. 1 \in 1 .. MaxCopies
      BY PipelineAssumption
    <3>2. <<m, 1>> \in Copies
      BY <3>1 DEF Copies
    <3> QED BY <3>2
  <2>3. c \in SentCopies(m)
    BY <2>1, <2>2 DEF SentCopies
  <2>4. message[c] \in {"queued", "inflight", "acked", "dead"}
    BY <1>1, EndTypes DEF Ends
  <2>5. message[c] = "acked" => [x \in Copies |-> x[1]][c] \in consumed
    BY <1>1, WorkerNames DEF Ends, ConP!Handling, ConP!Acknowledged
  <2>6. message[c] = "acked" => m \in consumed
    BY <2>2, <2>5
  <2> QED BY <2>3, <2>4, <2>6 DEF Abandoned
<1>2. Ends => NothingVanishes
  BY <1>1 DEF NothingVanishes
<1> QED BY <1>2, AlwaysEnds, PTL

\* An event counts at most once for each attempt the publisher counted and each
\* round of handling, and once for each dead letter that somebody replayed.
THEOREM EffectsAreBounded == Spec => []EffectsBounded
<1>1. ASSUME Ends, NEW m \in Messages
      PROVE  applied[m] <= attempts[m] * (1 + faults) + replays
  <2>1. sent[m] \in Nat /\ attempts[m] \in Nat /\ ConP!TypeOK
    BY <1>1, EndTypes DEF Ends
  <2>2. ConP!Cardinality(SentCopies(m)) <= attempts[m]
    <3>1. PICK f : f = [c \in SentCopies(m) |-> c[2]]
      OBVIOUS
    <3>2. f \in Injection(SentCopies(m), 1 .. sent[m])
      BY <2>1, <3>1, WorkerNames, PipelineAssumption
         DEF SentCopies, Injection, IsInjective
    <3>3. IsFiniteSet(1 .. sent[m]) /\ Cardinality(1 .. sent[m]) = sent[m]
      <4>1. PICK n \in Nat : n = sent[m]
        BY <2>1
      <4>2. 1 \in Int /\ n \in Int
        OBVIOUS
      <4>3. IsFiniteSet(1 .. n) /\ Cardinality(1 .. n) = IF 1 > n THEN 0 ELSE n - 1 + 1
        BY <4>2, FS_Interval
      <4>4. Cardinality(1 .. n) = n
        BY <4>3
      <4> QED BY <4>1, <4>3, <4>4
    <3>4. IsFiniteSet(SentCopies(m)) /\ Cardinality(SentCopies(m)) <= sent[m]
      BY <3>2, <3>3, FS_Injection
    <3>5. Cardinality(SentCopies(m)) \in Nat
      BY <3>4, FS_CardinalityType
    <3>6. sent[m] <= attempts[m]
      BY <1>1, PubP!SentAreCounted, PublisherAssumes DEF Ends
    <3> QED BY <2>1, <3>4, <3>5, <3>6, SameSets
  <2>3. SentCopies(m) \in SUBSET ConP!Copies(m) /\ m \in ConP!Ids
    BY SentAreCopies, WorkerNames
  <2>4. ConP!Fits(m, SentCopies(m))
    BY <1>1 DEF Ends, Linked
  <2> QED BY <2>1, <2>2, <2>3, <2>4, ConP!FitsBounds, WorkerAssumes
<1>2. Ends => EffectsBounded
  BY <1>1 DEF EffectsBounded
<1> QED BY <1>2, AlwaysEnds, PTL
=============================================================================
