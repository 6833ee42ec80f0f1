---------------------------- MODULE BalanceCache ----------------------------
(***************************************************************************)
(* getBalance: RedisCacheService.wrap around a SELECT without a lock.  A   *)
(* reader asks Redis, on a miss selects the row, stores what it found with *)
(* a time to live, and answers.  Commands commit between any two of these  *)
(* steps and touch no entry: an entry only ever ends by its time to live.  *)
(*                                                                         *)
(* A balance is identified by its version, the number of commits that have *)
(* changed the wallet; version 0 is what was there before, "0.0000" for a  *)
(* wallet without a row.  Time passes in ticks.                            *)
(***************************************************************************)
EXTENDS ReadClients

CONSTANTS
  TTL,      \* REDIS_TTL, in ticks
  FillTime  \* the longest time from the SELECT of a reader to its SET, in ticks

ASSUME CacheAssumption ==
  /\ TTL \in Nat \ {0}
  /\ FillTime \in Nat \ {0}

NoEntry == [version |-> 0, lag |-> 0, left |-> 0, raced |-> FALSE]
NoRead == [version |-> 0, lag |-> 0, age |-> 0, raced |-> FALSE]
NoAnswer == [version |-> -1, raced |-> FALSE]

VARIABLES
  version, \* version[w]: commits that have changed the balance of w
  cache,   \* cache[w]: the entry of w: version, ticks since it was outdated,
           \* ticks left to live, and whether its fill overlapped another
  told,    \* told[w]: the newest version any client has been answered
  pc,      \* pc[d]: where reader d is
  wallet,  \* wallet[d]: the wallet it asks for
  read,    \* read[d]: what its SELECT returned, and how long ago
  floor,   \* floor[d]: told of that wallet when d asked
  answer   \* answer[d]: the version d was answered and whether its fill raced,
           \* or NoAnswer

readers == <<pc, wallet, read, floor, answer>>
cacheVars == <<version, cache, told, readers>>

CacheInit ==
  /\ version = [w \in Wallets |-> 0]
  /\ cache = [w \in Wallets |-> NoEntry]
  /\ told = [w \in Wallets |-> 0]
  /\ pc = [d \in Clients |-> "idle"]
  /\ wallet \in [Clients -> Watched]
  /\ read = [d \in Clients |-> NoRead]
  /\ floor = [d \in Clients |-> 0]
  /\ answer = [d \in Clients |-> NoAnswer]

Goto(d, l) == pc' = [pc EXCEPT ![d] = l]

\* The clients between a miss and the end of their fill of w.
Filling(w) == {d \in Clients : pc[d] \in {"select", "set"} /\ wallet[d] = w}

\* A command has committed: the balances it changed are outdated.
Supersede ==
  version' = [w \in Wallets |-> version[w] + IF balance'[w] # balance[w] THEN 1 ELSE 0]

-----------------------------------------------------------------------------
(* getBalance *)

Ask(d) ==
  /\ uses[d] = "balance" /\ pc[d] = "idle"
  /\ Goto(d, "get")
  /\ \E w \in Watched : /\ wallet' = [wallet EXCEPT ![d] = w]
                        /\ floor' = [floor EXCEPT ![d] = told[w]]
  /\ answer' = [answer EXCEPT ![d] = NoAnswer]
  /\ UNCHANGED <<version, cache, told, read>>

\* The answer to d is what x, an entry or a row just read, says.
Tell(d, x) ==
  /\ answer' = [answer EXCEPT ![d] = [version |-> x.version, raced |-> x.raced]]
  /\ told' = [told EXCEPT ![wallet[d]] = IF x.version > @ THEN x.version ELSE @]
  /\ read' = [read EXCEPT ![d] = NoRead]
  /\ Goto(d, "idle")

\* wrap(): the entry is there.
MutHit(d) ==
  /\ pc[d] = "get" /\ cache[wallet[d]] # NoEntry
  /\ Tell(d, cache[wallet[d]])
  /\ cache' = [cache EXCEPT ![wallet[d]].left = TTL]
  /\ UNCHANGED <<version, wallet, floor>>
Hit(d) ==
  /\ pc[d] = "get" /\ cache[wallet[d]] # NoEntry
  /\ Tell(d, cache[wallet[d]])
  /\ UNCHANGED <<version, cache, wallet, floor>>

\* It is not; whoever fills the same entry meanwhile races this reader.
Miss(d) ==
  LET w == wallet[d] IN
  /\ pc[d] = "get" /\ cache[w] = NoEntry
  /\ Goto(d, "select")
  /\ read' = [x \in Clients |->
                IF Filling(w) # {} /\ x \in Filling(w) \cup {d}
                THEN [read[x] EXCEPT !.raced = TRUE] ELSE read[x]]
  /\ UNCHANGED <<version, cache, told, wallet, floor, answer>>

\* findOne sees the balance that is committed.
MutSelect(d) ==
  /\ pc[d] = "select"
  /\ \E v \in {version[wallet[d]], version[wallet[d]] - 1} \cap Nat :
       read' = [read EXCEPT ![d].version = v]
  /\ Goto(d, "set")
  /\ UNCHANGED <<version, cache, told, wallet, floor, answer>>
Select(d) ==
  /\ pc[d] = "select"
  /\ read' = [read EXCEPT ![d].version = version[wallet[d]]]
  /\ Goto(d, "set")
  /\ UNCHANGED <<version, cache, told, wallet, floor, answer>>

Entry(d) == [version |-> read[d].version, lag |-> read[d].lag, left |-> TTL,
             raced |-> read[d].raced]

\* set() with the time to live, over whatever is stored by now.
Set(d) ==
  /\ pc[d] = "set"
  /\ cache' = [cache EXCEPT ![wallet[d]] = Entry(d)]
  /\ Tell(d, read[d])
  /\ UNCHANGED <<version, wallet, floor>>

\* Redis or PostgreSQL fails, and the request with it; the entry may have been
\* written all the same.
ReadFails(d) ==
  /\ pc[d] \in {"get", "select", "set"}
  /\ cache' \in {cache} \cup
       IF pc[d] = "set" THEN {[cache EXCEPT ![wallet[d]] = Entry(d)]} ELSE {}
  /\ read' = [read EXCEPT ![d] = NoRead]
  /\ Goto(d, "idle")
  /\ UNCHANGED <<version, told, wallet, floor, answer>>

-----------------------------------------------------------------------------
(* Time *)

Older(x, w) == x.lag + IF x.version < version[w] THEN 1 ELSE 0

\* Redis drops the entries that have lived their time.
MutAged(w) ==
  IF cache[w] = NoEntry THEN NoEntry ELSE [cache[w] EXCEPT !.lag = 0]
MutKept(w) ==
  IF cache[w].left = 0 THEN NoEntry
  ELSE [cache[w] EXCEPT !.left = @ - 1, !.lag = Older(cache[w], w)]
Aged(w) ==
  IF cache[w].left <= 1 THEN NoEntry
  ELSE [cache[w] EXCEPT !.left = @ - 1, !.lag = Older(cache[w], w)]

\* No fill takes longer than FillTime.
Tick ==
  /\ \A d \in Clients : read[d].age < FillTime
  /\ cache' = [w \in Wallets |-> Aged(w)]
  /\ read' = [d \in Clients |->
                IF pc[d] = "set"
                THEN [read[d] EXCEPT !.age = @ + 1, !.lag = Older(read[d], wallet[d])]
                ELSE read[d]]
  /\ UNCHANGED <<version, told, pc, wallet, floor, answer>>

Reader(d) == Hit(d) \/ Miss(d) \/ Select(d) \/ Set(d)

-----------------------------------------------------------------------------
(* Properties *)

\* The type invariant: an entry lives between one tick and TTL, and nothing
\* that is read, stored or answered was not committed before.
CacheTypeOK ==
  /\ version \in [Wallets -> Nat]
  /\ \A w \in Wallets : cache[w] # NoEntry =>
       /\ cache[w].version \in 0 .. version[w]
       /\ cache[w].left \in 1 .. TTL
       /\ cache[w].lag \in Nat /\ cache[w].raced \in BOOLEAN
  /\ \A w \in Wallets : told[w] \in 0 .. version[w]
  /\ pc \in [Clients -> {"idle", "get", "select", "set"}]
  /\ wallet \in [Clients -> Watched]
  /\ \A d \in Clients :
       /\ read[d].version \in 0 .. version[wallet[d]]
       /\ read[d].lag \in 0 .. read[d].age /\ read[d].age \in 0 .. FillTime
       /\ read[d].raced \in BOOLEAN
       /\ floor[d] \in 0 .. told[wallet[d]]
       /\ answer[d].version \in -1 .. told[wallet[d]] /\ answer[d].raced \in BOOLEAN

\* "Cached balances may briefly lag" (DESIGN.md:40), and how long: what is
\* served was the balance no more than the time to live and one fill ago.
LagBounded ==
  \A w \in Wallets : cache[w] # NoEntry => cache[w].lag <= FillTime + TTL - cache[w].left

\* A client is answered an older balance than somebody had been answered when
\* it asked only from an entry whose fill overlapped another fill.
GoesBackOnlyByRace ==
  \A d \in Clients :
    answer[d] # NoAnswer /\ answer[d].version < floor[d] => answer[d].raced

\* An outdated entry does not stay: the cache catches up with the database.
StaleEntriesGo ==
  \A w \in Watched :
    cache[w] # NoEntry /\ cache[w].version < version[w]
      ~> cache[w] = NoEntry \/ cache[w].version = version[w]
=============================================================================
