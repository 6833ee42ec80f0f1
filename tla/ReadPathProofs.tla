--------------------------- MODULE ReadPathProofs ---------------------------
(***************************************************************************)
(* Proofs about the two read endpoints beside the commands of the ledger,  *)
(* for every number of clients, every time to live and length of a fill,   *)
(* and all page sizes.                                                     *)
(*                                                                         *)
(* How far an answer may go back depends on what runs beside its fill.     *)
(* Served says what the cache relies on: readers that fill one entry       *)
(* together are all marked as racing, a reader that fills alone finds no   *)
(* entry until it stores its own, and what it read, or what it stored, is  *)
(* at least as new as anything a client has been answered.                 *)
(*                                                                         *)
(* What a client misses or gets twice depends on what commits between two  *)
(* of its pages.  Paged says where a client stands: which events it has    *)
(* received, which ones its cursor has passed, and what explains every     *)
(* passed event that was not received and every received one that was not  *)
(* passed.                                                                 *)
(***************************************************************************)
EXTENDS ReadPath, FiniteSetTheorems, TLAPS

Row == [version : Nat, lag : Nat, left : Nat, raced : BOOLEAN]
Reading == [version : Nat, lag : Nat, age : Nat, raced : BOOLEAN]

\* The functions the variables are; CacheTypeOK bounds their values.
Domains ==
  /\ cache \in [Wallets -> Row]
  /\ told \in [Wallets -> Nat]
  /\ read \in [Clients -> Reading]
  /\ floor \in [Clients -> Nat]
  /\ answer \in [Clients -> [version : Int, raced : BOOLEAN]]

\* Reader d is between its miss and the end of its fill, and nobody else fills
\* the entry meanwhile.
Alone(d) == pc[d] \in {"select", "set"} /\ ~read[d].raced

Overlaps ==
  \A d, x \in Clients :
    d # x /\ d \in Filling(wallet[x]) /\ x \in Filling(wallet[x])
      => read[d].raced /\ read[x].raced

FillShape(d) ==
  /\ pc[d] \in {"idle", "get"} => read[d] = NoRead
  /\ Alone(d) => cache[wallet[d]] = NoEntry
  /\ Alone(d) /\ pc[d] = "set" => told[wallet[d]] <= read[d].version

\* Nobody has been answered anything newer than an entry that did not race.
EntriesAreNewest ==
  \A w \in Wallets :
    cache[w] # NoEntry /\ ~cache[w].raced => told[w] <= cache[w].version

Served ==
  /\ CacheTypeOK
  /\ Domains
  /\ Overlaps
  /\ \A d \in Clients : FillShape(d)
  /\ EntriesAreNewest
  /\ LagBounded
  /\ GoesBackOnlyByRace

-----------------------------------------------------------------------------
(* What every action relies on *)

\* No entry, no read and no answer are values of their types.
LEMMA Nothings ==
  NoEntry \in Row /\ NoRead \in Reading /\ NoAnswer \in [version : Int, raced : BOOLEAN]
BY DEF NoEntry, Row, NoRead, Reading, NoAnswer

\* The typed parts of one reader, and of the wallet it asks for.
LEMMA ReaderFacts ==
  ASSUME Served, NEW d \in Clients
  PROVE  /\ wallet[d] \in Watched /\ wallet[d] \in Wallets
         /\ read[d] \in Reading /\ read[d].version \in 0 .. version[wallet[d]]
         /\ read[d].lag \in 0 .. read[d].age /\ read[d].age \in 0 .. FillTime
         /\ version[wallet[d]] \in Nat /\ told[wallet[d]] \in 0 .. version[wallet[d]]
         /\ floor[d] \in 0 .. told[wallet[d]]
BY ClientsAssumption DEF Served, CacheTypeOK, Domains

\* An entry is there exactly as long as it has time to live.
LEMMA EntryFacts ==
  ASSUME Served, NEW w \in Wallets, cache[w] # NoEntry
  PROVE  /\ cache[w] \in Row /\ cache[w].version \in 0 .. version[w]
         /\ cache[w].left \in 1 .. TTL /\ cache[w].lag <= FillTime + TTL - cache[w].left
BY DEF Served, CacheTypeOK, Domains, LagBounded

\* Readers that fill the same entry race.
LEMMA TogetherRace ==
  ASSUME Served, NEW d \in Clients, NEW x \in Clients, d # x, wallet[d] = wallet[x],
         pc[d] \in {"select", "set"}, pc[x] \in {"select", "set"}
  PROVE  read[d].raced /\ read[x].raced
BY DEF Served, Overlaps, Filling

\* What answering d with x does, x being at least as new as any answer unless
\* its fill raced.
LEMMA TellFacts ==
  ASSUME Served, NEW d \in Clients, NEW x, Tell(d, x),
         x.version \in 0 .. version[wallet[d]], x.raced \in BOOLEAN,
         ~x.raced => told[wallet[d]] <= x.version,
         UNCHANGED <<version, wallet, floor>>
  PROVE  /\ pc' \in [Clients -> {"idle", "get", "select", "set"}]
         /\ pc'[d] = "idle" /\ read'[d] = NoRead
         /\ \A z \in Clients \ {d} : pc'[z] = pc[z] /\ read'[z] = read[z]
         /\ read' \in [Clients -> Reading]
         /\ told' \in [Wallets -> Nat]
         /\ \A w \in Wallets : told[w] <= told'[w] /\ told'[w] \in 0 .. version[w]
         /\ \A w \in Wallets \ {wallet[d]} : told'[w] = told[w]
         /\ ~x.raced => told'[wallet[d]] <= x.version
         /\ answer' \in [Clients -> [version : Int, raced : BOOLEAN]]
         /\ \A z \in Clients : answer'[z].version \in -1 .. told'[wallet[z]]
         /\ GoesBackOnlyByRace'
<1>1. /\ wallet[d] \in Wallets /\ told[wallet[d]] \in 0 .. version[wallet[d]]
      /\ version[wallet[d]] \in Nat /\ floor[d] \in 0 .. told[wallet[d]]
  BY ReaderFacts
<1>2. /\ told \in [Wallets -> Nat] /\ read \in [Clients -> Reading]
      /\ answer \in [Clients -> [version : Int, raced : BOOLEAN]]
      /\ floor \in [Clients -> Nat]
  BY DEF Served, Domains
<1>3. /\ pc' \in [Clients -> {"idle", "get", "select", "set"}] /\ pc'[d] = "idle"
      /\ \A z \in Clients \ {d} : pc'[z] = pc[z]
  BY DEF Tell, Goto, Served, CacheTypeOK
<1>4. /\ read' \in [Clients -> Reading] /\ read'[d] = NoRead
      /\ \A z \in Clients \ {d} : read'[z] = read[z]
  BY <1>2, Nothings DEF Tell
<1>5. \A w \in Wallets : told[w] \in 0 .. version[w] /\ version[w] \in Nat
  BY DEF Served, CacheTypeOK
<1>6. /\ told' \in [Wallets -> Nat]
      /\ told'[wallet[d]] = IF x.version > told[wallet[d]] THEN x.version
                            ELSE told[wallet[d]]
      /\ \A w \in Wallets \ {wallet[d]} : told'[w] = told[w]
  BY <1>1, <1>2 DEF Tell
<1>7. /\ \A w \in Wallets : told[w] <= told'[w] /\ told'[w] \in 0 .. version[w]
      /\ ~x.raced => told'[wallet[d]] <= x.version
  BY <1>1, <1>2, <1>5, <1>6
<1>8. /\ answer' \in [Clients -> [version : Int, raced : BOOLEAN]]
      /\ answer'[d] = [version |-> x.version, raced |-> x.raced]
      /\ \A z \in Clients \ {d} : answer'[z] = answer[z]
  BY <1>1, <1>2 DEF Tell
<1>9. \A z \in Clients : answer'[z].version \in -1 .. told'[wallet[z]]
  <2>1. ASSUME NEW z \in Clients, z # d PROVE answer'[z].version \in -1 .. told'[wallet[z]]
    <3>1. wallet[z] \in Wallets /\ answer[z].version \in -1 .. told[wallet[z]]
      BY ReaderFacts DEF Served, CacheTypeOK
    <3> QED BY <1>2, <1>6, <1>7, <1>8, <2>1, <3>1
  <2>2. answer'[d].version \in -1 .. told'[wallet[d]]
    BY <1>1, <1>6, <1>8
  <2> QED BY <2>1, <2>2
<1>10. GoesBackOnlyByRace'
  <2>1. ASSUME NEW z \in Clients, z # d, answer'[z] # NoAnswer,
               answer'[z].version < floor'[z]
        PROVE  answer'[z].raced
    BY <1>8, <2>1 DEF Served, GoesBackOnlyByRace
  <2>2. ASSUME answer'[d].version < floor'[d] PROVE answer'[d].raced
    BY <1>1, <1>8, <2>2
  <2> QED BY <2>1, <2>2 DEF GoesBackOnlyByRace
<1> QED BY <1>3, <1>4, <1>6, <1>7, <1>8, <1>9, <1>10

-----------------------------------------------------------------------------
(* Every action keeps Served *)

\* Initially the cache is empty and nobody has asked.
LEMMA InitServed == ReadInit => Served
<1> SUFFICES ASSUME ReadInit PROVE Served
  OBVIOUS
<1>1. CacheInit
  BY DEF ReadInit
<1>2. Domains
  BY <1>1, Nothings DEF CacheInit, Domains
<1>3. CacheTypeOK
  <2>1. \A w \in Wallets : cache[w] = NoEntry /\ told[w] = 0 /\ version[w] = 0
    BY <1>1 DEF CacheInit
  <2>2. \A d \in Clients : /\ wallet[d] \in Wallets /\ read[d] = NoRead
                           /\ floor[d] = 0 /\ answer[d] = NoAnswer
    BY <1>1, ClientsAssumption DEF CacheInit
  <2>3. ASSUME NEW d \in Clients
        PROVE  /\ read[d].version \in 0 .. version[wallet[d]]
               /\ read[d].lag \in 0 .. read[d].age /\ read[d].age \in 0 .. FillTime
               /\ floor[d] \in 0 .. told[wallet[d]]
               /\ answer[d].version \in -1 .. told[wallet[d]]
    BY <2>1, <2>2, CacheAssumption DEF NoRead, NoAnswer
  <2>5. \A d \in Clients : read[d].raced \in BOOLEAN /\ answer[d].raced \in BOOLEAN
    BY <2>2, Nothings DEF Reading
  <2>4. /\ version \in [Wallets -> Nat] /\ wallet \in [Clients -> Watched]
        /\ pc \in [Clients -> {"idle", "get", "select", "set"}]
    BY <1>1 DEF CacheInit
  <2> QED BY <2>1, <2>3, <2>4, <2>5 DEF CacheTypeOK
<1>4. Overlaps /\ \A d \in Clients : FillShape(d)
  BY <1>1 DEF CacheInit, Overlaps, Filling, FillShape, Alone
<1>5. EntriesAreNewest /\ LagBounded /\ GoesBackOnlyByRace
  BY <1>1 DEF CacheInit, EntriesAreNewest, LagBounded, GoesBackOnlyByRace
<1> QED BY <1>2, <1>3, <1>4, <1>5 DEF Served

\* A commit makes versions grow and tells nobody.
LEMMA CommitServed ==
  ASSUME Served, NEW r \in Requests, Commit(r)
  PROVE  Served'
<1>1. UNCHANGED <<cache, told, pc, wallet, read, floor, answer>>
  BY DEF Commit, readers
<1>2. /\ version' \in [Wallets -> Nat]
      /\ \A w \in Wallets : version[w] <= version'[w] /\ version[w] \in Nat
  BY DEF Commit, Supersede, Served, CacheTypeOK
<1>3. CacheTypeOK'
  <2>1. ASSUME NEW w \in Wallets, cache[w] # NoEntry
        PROVE  /\ cache[w].version \in 0 .. version'[w]
               /\ cache[w].left \in 1 .. TTL
               /\ cache[w].lag \in Nat /\ cache[w].raced \in BOOLEAN
    BY <1>2, <2>1, EntryFacts DEF Row
  <2>2. \A w \in Wallets : told[w] \in 0 .. version'[w]
    BY <1>2 DEF Served, CacheTypeOK
  <2>3. ASSUME NEW d \in Clients PROVE read[d].version \in 0 .. version'[wallet[d]]
    BY <1>2, ReaderFacts
  <2> QED BY <1>1, <1>2, <2>1, <2>2, <2>3 DEF Served, CacheTypeOK
<1>4. Domains' /\ Overlaps' /\ EntriesAreNewest' /\ LagBounded' /\ GoesBackOnlyByRace'
  BY <1>1 DEF Served, Domains, Overlaps, Filling, EntriesAreNewest, LagBounded,
              GoesBackOnlyByRace
<1>5. \A d \in Clients : FillShape(d)'
  BY <1>1 DEF Served, FillShape, Alone
<1> QED BY <1>3, <1>4, <1>5 DEF Served

\* A reader that asks has read nothing yet.
LEMMA AskServed ==
  ASSUME Served, NEW d \in Clients, Ask(d)
  PROVE  Served'
<1>1. /\ pc[d] = "idle" /\ pc' = [pc EXCEPT ![d] = "get"]
      /\ UNCHANGED <<version, cache, told, read>>
      /\ answer' = [answer EXCEPT ![d] = NoAnswer]
  BY DEF Ask, Goto
<1>2. PICK w \in Watched : /\ wallet' = [wallet EXCEPT ![d] = w]
                           /\ floor' = [floor EXCEPT ![d] = told[w]]
  BY DEF Ask
<1>3. /\ pc \in [Clients -> {"idle", "get", "select", "set"}]
      /\ wallet \in [Clients -> Watched] /\ w \in Wallets
      /\ told \in [Wallets -> Nat] /\ floor \in [Clients -> Nat]
      /\ answer \in [Clients -> [version : Int, raced : BOOLEAN]]
      /\ told[w] \in 0 .. version[w] /\ version[w] \in Nat
  BY ClientsAssumption DEF Served, CacheTypeOK, Domains
<1>4. Domains'
  BY <1>1, <1>2, <1>3, Nothings DEF Served, Domains
<1>5. \A x \in Clients \ {d} : /\ wallet'[x] = wallet[x] /\ floor'[x] = floor[x]
                               /\ answer'[x] = answer[x] /\ pc'[x] = pc[x]
  BY <1>1, <1>2, <1>3
<1>6. /\ wallet'[d] = w /\ floor'[d] = told[w] /\ answer'[d] = NoAnswer
      /\ pc'[d] = "get" /\ read[d] = NoRead
  BY <1>1, <1>2, <1>3 DEF Served, FillShape
<1>7. CacheTypeOK'
  <2>1. /\ pc' \in [Clients -> {"idle", "get", "select", "set"}]
        /\ wallet' \in [Clients -> Watched]
    BY <1>1, <1>2, <1>3
  <2>2. ASSUME NEW x \in Clients, x # d
        PROVE  /\ read[x].version \in 0 .. version[wallet'[x]]
               /\ floor'[x] \in 0 .. told[wallet'[x]]
               /\ answer'[x].version \in -1 .. told[wallet'[x]]
               /\ answer'[x].raced \in BOOLEAN
    BY <1>5, <2>2 DEF Served, CacheTypeOK
  <2>3. /\ read[d].version \in 0 .. version[wallet'[d]]
        /\ floor'[d] \in 0 .. told[wallet'[d]]
        /\ answer'[d].version \in -1 .. told[wallet'[d]]
        /\ answer'[d].raced \in BOOLEAN
    BY <1>3, <1>6 DEF NoRead, NoAnswer
  <2>4. \A x \in Clients : /\ read[x].lag \in 0 .. read[x].age
                           /\ read[x].age \in 0 .. FillTime
                           /\ read[x].raced \in BOOLEAN
    BY DEF Served, CacheTypeOK
  <2> QED BY <1>1, <2>1, <2>2, <2>3, <2>4 DEF Served, CacheTypeOK
<1>8. Overlaps'
  BY <1>1, <1>5, <1>6 DEF Served, Overlaps, Filling
<1>9. ASSUME NEW x \in Clients PROVE FillShape(x)'
  BY <1>1, <1>5, <1>6 DEF Served, FillShape, Alone
<1>10. EntriesAreNewest' /\ LagBounded'
  BY <1>1 DEF Served, EntriesAreNewest, LagBounded
<1>11. GoesBackOnlyByRace'
  BY <1>5, <1>6 DEF Served, GoesBackOnlyByRace
<1> QED BY <1>4, <1>7, <1>8, <1>9, <1>10, <1>11 DEF Served

\* What the two ways to an answer have in common: nobody else's fill notices.
LEMMA AnswerServed ==
  ASSUME Served, NEW d \in Clients, NEW x, Tell(d, x),
         x.version \in 0 .. version[wallet[d]], x.raced \in BOOLEAN,
         ~x.raced => told[wallet[d]] <= x.version,
         UNCHANGED <<version, wallet, floor>>,
         cache' \in [Wallets -> Row],
         \A w \in Wallets \ {wallet[d]} : cache'[w] = cache[w],
         cache'[wallet[d]].version = x.version, cache'[wallet[d]].raced = x.raced,
         cache'[wallet[d]].left \in 1 .. TTL,
         cache'[wallet[d]].lag <= FillTime + TTL - cache'[wallet[d]].left,
         \A z \in Clients \ {d} : Alone(z) => wallet[z] # wallet[d]
  PROVE  Served'
<1> DEFINE w == wallet[d]
<1>1. /\ pc' \in [Clients -> {"idle", "get", "select", "set"}]
      /\ pc'[d] = "idle" /\ read'[d] = NoRead
      /\ \A z \in Clients \ {d} : pc'[z] = pc[z] /\ read'[z] = read[z]
      /\ read' \in [Clients -> Reading]
      /\ told' \in [Wallets -> Nat]
      /\ \A v \in Wallets : told[v] <= told'[v] /\ told'[v] \in 0 .. version[v]
      /\ \A v \in Wallets \ {w} : told'[v] = told[v]
      /\ ~x.raced => told'[w] <= x.version
      /\ answer' \in [Clients -> [version : Int, raced : BOOLEAN]]
      /\ \A z \in Clients : answer'[z].version \in -1 .. told'[wallet[z]]
      /\ GoesBackOnlyByRace'
  BY TellFacts
<1>2. w \in Wallets /\ version[w] \in Nat
  BY ReaderFacts
<1>3. Domains'
  BY <1>1 DEF Served, Domains
<1>4. CacheTypeOK'
  <2>1. ASSUME NEW v \in Wallets, cache'[v] # NoEntry
        PROVE  /\ cache'[v].version \in 0 .. version[v]
               /\ cache'[v].left \in 1 .. TTL
               /\ cache'[v].lag \in Nat /\ cache'[v].raced \in BOOLEAN
    <3>1. CASE v = w
      BY <3>1 DEF Row
    <3>2. CASE v # w
      BY <2>1, <3>2, EntryFacts DEF Row
    <3> QED BY <3>1, <3>2
  <2>2. ASSUME NEW z \in Clients
        PROVE  /\ read'[z].version \in 0 .. version[wallet[z]]
               /\ read'[z].lag \in 0 .. read'[z].age /\ read'[z].age \in 0 .. FillTime
    <3>1. CASE z = d
      BY <1>1, <1>2, <3>1, CacheAssumption DEF NoRead
    <3>2. CASE z # d
      BY <1>1, <3>2, ReaderFacts DEF Reading
    <3> QED BY <3>1, <3>2
  <2>3. ASSUME NEW z \in Clients PROVE floor[z] \in 0 .. told'[wallet[z]]
    <3>1. /\ wallet[z] \in Wallets /\ floor[z] \in 0 .. told[wallet[z]]
          /\ told[wallet[z]] \in Nat
      BY ReaderFacts
    <3> QED BY <1>1, <3>1
  <2>4. \A z \in Clients : answer'[z].raced \in BOOLEAN /\ read'[z].raced \in BOOLEAN
    BY <1>1 DEF Reading
  <2> QED BY <1>1, <2>1, <2>2, <2>3, <2>4 DEF Served, CacheTypeOK
<1>5. Overlaps'
  BY <1>1 DEF Served, Overlaps, Filling
<1>6. ASSUME NEW z \in Clients PROVE FillShape(z)'
  <2>1. CASE z = d
    BY <1>1, <2>1 DEF FillShape, Alone
  <2>2. CASE z # d
    <3>1. wallet[z] \in Wallets /\ FillShape(z)
      BY ReaderFacts DEF Served
    <3>2. Alone(z) => cache'[wallet[z]] = cache[wallet[z]] /\ told'[wallet[z]] = told[wallet[z]]
      BY <1>1, <2>2, <3>1
    <3> QED BY <1>1, <2>2, <3>1, <3>2 DEF FillShape, Alone
  <2> QED BY <2>1, <2>2
<1>7. EntriesAreNewest'
  BY <1>1 DEF Served, EntriesAreNewest
<1>8. LagBounded'
  BY DEF Served, LagBounded
<1> QED BY <1>1, <1>3, <1>4, <1>5, <1>6, <1>7, <1>8 DEF Served

\* A hit answers with the entry as it is, and moves nothing in it.
LEMMA HitServed ==
  ASSUME Served, NEW d \in Clients, Hit(d)
  PROVE  Served'
<1> DEFINE w == wallet[d]
<1>1. /\ w \in Wallets /\ cache[w] # NoEntry /\ Tell(d, cache[w])
      /\ UNCHANGED <<version, cache, wallet, floor>>
  BY ReaderFacts DEF Hit
<1>2. /\ cache[w] \in Row /\ cache[w].version \in 0 .. version[w]
      /\ cache[w].left \in 1 .. TTL /\ cache[w].lag <= FillTime + TTL - cache[w].left
  BY <1>1, EntryFacts
<1>3. cache[w].raced \in BOOLEAN /\ (~cache[w].raced => told[w] <= cache[w].version)
  BY <1>1, <1>2 DEF Row, Served, EntriesAreNewest
<1>4. \A z \in Clients \ {d} : Alone(z) => wallet[z] # w
  BY <1>1 DEF Served, FillShape
<1>5. cache \in [Wallets -> Row]
  BY DEF Served, Domains
<1> HIDE DEF w
<1> QED BY <1>1, <1>2, <1>3, <1>4, <1>5, AnswerServed DEF w

\* What a reader is about to store.
LEMMA EntryOfReader ==
  ASSUME Served, NEW d \in Clients, pc[d] = "set"
  PROVE  /\ Entry(d) \in Row
         /\ Entry(d).version = read[d].version /\ Entry(d).raced = read[d].raced
         /\ Entry(d).left = TTL
         /\ Entry(d).lag \in Nat /\ Entry(d).lag <= FillTime
         /\ ~read[d].raced => told[wallet[d]] <= read[d].version
         /\ \A z \in Clients \ {d} : Alone(z) => wallet[z] # wallet[d]
<1>1. /\ read[d] \in Reading /\ read[d].lag \in 0 .. read[d].age
      /\ read[d].age \in 0 .. FillTime
  BY ReaderFacts
<1>2. Entry(d) \in Row /\ Entry(d).lag \in Nat /\ Entry(d).lag <= FillTime
  BY <1>1, CacheAssumption DEF Entry, Row, Reading
<1>3. ~read[d].raced => told[wallet[d]] <= read[d].version
  BY DEF Served, FillShape, Alone
<1>4. \A z \in Clients \ {d} : Alone(z) => wallet[z] # wallet[d]
  BY TogetherRace DEF Alone
<1> QED BY <1>2, <1>3, <1>4 DEF Entry

\* A fill stores what it read, and answers it.
LEMMA SetServed ==
  ASSUME Served, NEW d \in Clients, Set(d)
  PROVE  Served'
<1> DEFINE w == wallet[d]
<1>1. /\ pc[d] = "set" /\ cache' = [cache EXCEPT ![w] = Entry(d)]
      /\ Tell(d, read[d]) /\ UNCHANGED <<version, wallet, floor>>
  BY DEF Set
<1>2. /\ Entry(d) \in Row
      /\ Entry(d).version = read[d].version /\ Entry(d).raced = read[d].raced
      /\ Entry(d).left = TTL
      /\ Entry(d).lag \in Nat /\ Entry(d).lag <= FillTime
      /\ ~read[d].raced => told[w] <= read[d].version
      /\ \A z \in Clients \ {d} : Alone(z) => wallet[z] # w
  BY <1>1, EntryOfReader
<1>3. /\ w \in Wallets /\ read[d].version \in 0 .. version[w]
      /\ read[d].raced \in BOOLEAN /\ cache \in [Wallets -> Row]
  BY ReaderFacts DEF Reading, Served, Domains
<1>4. /\ cache' \in [Wallets -> Row] /\ cache'[w] = Entry(d)
      /\ \A v \in Wallets \ {w} : cache'[v] = cache[v]
  BY <1>1, <1>2, <1>3
<1>5. /\ cache'[w].left \in 1 .. TTL
      /\ cache'[w].lag <= FillTime + TTL - cache'[w].left
  BY <1>2, <1>4, CacheAssumption
<1> HIDE DEF w
<1> QED BY <1>1, <1>2, <1>3, <1>4, <1>5, AnswerServed DEF w

\* A miss begins a fill, which races every other fill of the entry.
LEMMA MissServed ==
  ASSUME Served, NEW d \in Clients, Miss(d)
  PROVE  Served'
<1> DEFINE w == wallet[d]
           race == Filling(w) # {}
           marked(x) == race /\ x \in Filling(w) \cup {d}
<1>1. /\ pc[d] = "get" /\ cache[w] = NoEntry /\ pc' = [pc EXCEPT ![d] = "select"]
      /\ read' = [x \in Clients |-> IF marked(x) THEN [read[x] EXCEPT !.raced = TRUE]
                                    ELSE read[x]]
      /\ UNCHANGED <<version, cache, told, wallet, floor, answer>>
  BY DEF Miss, Goto
<1>2. /\ read \in [Clients -> Reading]
      /\ pc \in [Clients -> {"idle", "get", "select", "set"}]
  BY DEF Served, Domains, CacheTypeOK
<1>3. ASSUME NEW x \in Clients
      PROVE  /\ read'[x] \in Reading /\ read'[x].version = read[x].version
             /\ read'[x].lag = read[x].lag /\ read'[x].age = read[x].age
             /\ read'[x].raced = (read[x].raced \/ marked(x))
  <2>1. read[x] \in Reading
    BY <1>2
  <2>2. CASE marked(x)
    <3>1. read'[x] = [read[x] EXCEPT !.raced = TRUE]
      BY <1>1, <2>2
    <3> HIDE DEF marked
    <3> QED BY <2>1, <2>2, <3>1 DEF Reading
  <2>3. CASE ~marked(x)
    <3>1. read'[x] = read[x]
      BY <1>1, <2>3
    <3> HIDE DEF marked
    <3> QED BY <2>1, <2>3, <3>1 DEF Reading
  <2> QED BY <2>2, <2>3
<1>4. /\ read' \in [Clients -> Reading]
      /\ pc' \in [Clients -> {"idle", "get", "select", "set"}] /\ pc'[d] = "select"
      /\ \A x \in Clients \ {d} : pc'[x] = pc[x]
  <2>1. \A x \in Clients : read'[x] \in Reading
    BY <1>3
  <2> HIDE DEF marked
  <2> QED BY <1>1, <1>2, <2>1
<1>5. Domains'
  BY <1>1, <1>4 DEF Served, Domains
<1>6. CacheTypeOK'
  <2>1. \A x \in Clients : read'[x].raced \in BOOLEAN
    BY <1>3 DEF Reading
  <2>2. \A x \in Clients : /\ read'[x].version \in 0 .. version[wallet[x]]
                           /\ read'[x].lag \in 0 .. read'[x].age
                           /\ read'[x].age \in 0 .. FillTime
    BY <1>3 DEF Served, CacheTypeOK
  <2> QED BY <1>1, <1>4, <2>1, <2>2 DEF Served, CacheTypeOK
<1>7. Overlaps'
  <2> SUFFICES ASSUME NEW x \in Clients, NEW z \in Clients, x # z,
                      x \in Filling(wallet[z])', z \in Filling(wallet[z])'
               PROVE  read'[x].raced /\ read'[z].raced
    BY <1>1 DEF Overlaps, Filling
  <2>1. /\ wallet[x] = wallet[z]
        /\ pc'[x] \in {"select", "set"} /\ pc'[z] \in {"select", "set"}
    BY <1>1 DEF Filling
  <2>2. CASE x # d /\ z # d
    <3>1. read[x].raced /\ read[z].raced
      BY <1>4, <2>1, <2>2, TogetherRace
    <3> QED BY <1>3, <3>1
  <2>3. CASE x = d \/ z = d
    <3>1. x \in Filling(w) \cup {d} /\ z \in Filling(w) \cup {d} /\ race
      BY <1>4, <2>1, <2>3 DEF Filling
    <3> QED BY <1>3, <3>1
  <2> QED BY <2>2, <2>3
<1>8. ASSUME NEW x \in Clients PROVE FillShape(x)'
  <2>1. CASE x = d
    BY <1>1, <1>4, <2>1 DEF FillShape, Alone
  <2>2. CASE x # d
    <3>1. FillShape(x) /\ pc'[x] = pc[x]
      BY <1>4, <2>2 DEF Served
    <3>2. Alone(x)' => Alone(x)
      BY <1>3, <3>1 DEF Alone
    <3>3. pc[x] \in {"idle", "get"} => read'[x] = NoRead
      <4>1. pc[x] \in {"idle", "get"} => ~marked(x)
        BY <2>2 DEF Filling
      <4> HIDE DEF marked
      <4> QED BY <1>1, <3>1, <4>1 DEF FillShape
    <3> QED BY <1>1, <1>3, <3>1, <3>2, <3>3 DEF FillShape
  <2> QED BY <2>1, <2>2
<1>9. EntriesAreNewest' /\ LagBounded' /\ GoesBackOnlyByRace'
  BY <1>1 DEF Served, EntriesAreNewest, LagBounded, GoesBackOnlyByRace
<1> QED BY <1>5, <1>6, <1>7, <1>8, <1>9 DEF Served

\* The SELECT sees the balance that is committed, which nobody has got past.
LEMMA SelectServed ==
  ASSUME Served, NEW d \in Clients, Select(d)
  PROVE  Served'
<1> DEFINE v == version[wallet[d]]
<1>1. /\ pc[d] = "select" /\ pc' = [pc EXCEPT ![d] = "set"]
      /\ read' = [read EXCEPT ![d] = [read[d] EXCEPT !.version = v]]
      /\ UNCHANGED <<version, cache, told, wallet, floor, answer>>
  BY DEF Select, Goto
<1>2. /\ read \in [Clients -> Reading] /\ v \in Nat
      /\ pc \in [Clients -> {"idle", "get", "select", "set"}]
      /\ told[wallet[d]] \in 0 .. v
  BY ReaderFacts DEF Served, Domains, CacheTypeOK
<1>3. /\ [read[d] EXCEPT !.version = v] \in Reading
      /\ [read[d] EXCEPT !.version = v].version = v
      /\ [read[d] EXCEPT !.version = v].lag = read[d].lag
      /\ [read[d] EXCEPT !.version = v].age = read[d].age
      /\ [read[d] EXCEPT !.version = v].raced = read[d].raced
  <2> HIDE DEF v
  <2> QED BY <1>2 DEF Reading
<1>4. /\ read' \in [Clients -> Reading] /\ read'[d].version = v
      /\ \A x \in Clients : /\ read'[x].lag = read[x].lag /\ read'[x].age = read[x].age
                            /\ read'[x].raced = read[x].raced
      /\ \A x \in Clients \ {d} : read'[x] = read[x] /\ pc'[x] = pc[x]
      /\ pc' \in [Clients -> {"idle", "get", "select", "set"}] /\ pc'[d] = "set"
  BY <1>1, <1>2, <1>3
<1>5. Domains'
  BY <1>1, <1>4 DEF Served, Domains
<1>6. CacheTypeOK'
  <2>1. \A x \in Clients : read'[x].version \in 0 .. version[wallet[x]]
    BY <1>2, <1>4 DEF Served, CacheTypeOK
  <2>2. \A x \in Clients : /\ read'[x].lag \in 0 .. read'[x].age
                           /\ read'[x].age \in 0 .. FillTime
    BY <1>4 DEF Served, CacheTypeOK
  <2>3. \A x \in Clients : read'[x].raced \in BOOLEAN
    BY <1>4 DEF Reading
  <2> QED BY <1>1, <1>4, <2>1, <2>2, <2>3 DEF Served, CacheTypeOK
<1>7. Overlaps'
  BY <1>1, <1>4 DEF Served, Overlaps, Filling
<1>8. ASSUME NEW x \in Clients PROVE FillShape(x)'
  <2>1. CASE x = d
    BY <1>1, <1>2, <1>4, <2>1 DEF Served, FillShape, Alone
  <2>2. CASE x # d
    BY <1>1, <1>4, <2>2 DEF Served, FillShape, Alone
  <2> QED BY <2>1, <2>2
<1>9. EntriesAreNewest' /\ LagBounded' /\ GoesBackOnlyByRace'
  BY <1>1 DEF Served, EntriesAreNewest, LagBounded, GoesBackOnlyByRace
<1> QED BY <1>5, <1>6, <1>7, <1>8, <1>9 DEF Served

\* A failed read answers nobody; the entry it may have written is as good as
\* one that was answered.
LEMMA ReadFailsServed ==
  ASSUME Served, NEW d \in Clients, ReadFails(d)
  PROVE  Served'
<1> DEFINE w == wallet[d]
<1>1. /\ pc' = [pc EXCEPT ![d] = "idle"] /\ read' = [read EXCEPT ![d] = NoRead]
      /\ UNCHANGED <<version, told, wallet, floor, answer>>
      /\ \/ cache' = cache
         \/ pc[d] = "set" /\ cache' = [cache EXCEPT ![w] = Entry(d)]
  BY DEF ReadFails, Goto
<1>2. /\ read \in [Clients -> Reading] /\ cache \in [Wallets -> Row] /\ w \in Wallets
      /\ pc \in [Clients -> {"idle", "get", "select", "set"}]
      /\ read[d].version \in 0 .. version[w] /\ version[w] \in Nat
  BY ReaderFacts DEF Served, Domains, CacheTypeOK
<1>3. /\ read' \in [Clients -> Reading] /\ read'[d] = NoRead
      /\ pc' \in [Clients -> {"idle", "get", "select", "set"}] /\ pc'[d] = "idle"
      /\ \A x \in Clients \ {d} : pc'[x] = pc[x] /\ read'[x] = read[x]
  BY <1>1, <1>2, Nothings
<1>4. /\ cache' \in [Wallets -> Row]
      /\ \A v \in Wallets \ {w} : cache'[v] = cache[v]
      /\ \/ cache'[w] = cache[w]
         \/ /\ pc[d] = "set" /\ cache'[w] = Entry(d)
  BY <1>1, <1>2, EntryOfReader
<1>5. CASE cache'[w] = cache[w]
  <2>1. cache' = cache
    BY <1>1, <1>2, <1>5
  <2>2. Domains'
    BY <1>1, <1>3, <2>1 DEF Served, Domains
  <2>3. CacheTypeOK'
    <3>1. ASSUME NEW x \in Clients
          PROVE  /\ read'[x].version \in 0 .. version[wallet[x]]
                 /\ read'[x].lag \in 0 .. read'[x].age /\ read'[x].age \in 0 .. FillTime
      <4>1. CASE x = d
        BY <1>2, <1>3, <4>1, CacheAssumption DEF NoRead
      <4>2. CASE x # d
        BY <1>3, <4>2 DEF Served, CacheTypeOK
      <4> QED BY <4>1, <4>2
    <3>2. \A x \in Clients : read'[x].raced \in BOOLEAN
      BY <1>3 DEF Reading
    <3> QED BY <1>1, <1>3, <2>1, <3>1, <3>2 DEF Served, CacheTypeOK
  <2>4. Overlaps'
    BY <1>1, <1>3 DEF Served, Overlaps, Filling
  <2>5. ASSUME NEW x \in Clients PROVE FillShape(x)'
    BY <1>1, <1>3, <2>1 DEF Served, FillShape, Alone
  <2>6. EntriesAreNewest' /\ LagBounded' /\ GoesBackOnlyByRace'
    BY <1>1, <2>1 DEF Served, EntriesAreNewest, LagBounded, GoesBackOnlyByRace
  <2> QED BY <2>2, <2>3, <2>4, <2>5, <2>6 DEF Served
<1>6. CASE pc[d] = "set" /\ cache'[w] = Entry(d)
  <2>1. /\ Entry(d).version = read[d].version /\ Entry(d).raced = read[d].raced
        /\ Entry(d).left = TTL /\ Entry(d).lag \in Nat /\ Entry(d).lag <= FillTime
        /\ ~read[d].raced => told[w] <= read[d].version
        /\ \A z \in Clients \ {d} : Alone(z) => wallet[z] # w
    BY <1>6, EntryOfReader
  <2>2. Domains'
    BY <1>1, <1>3, <1>4 DEF Served, Domains
  <2>3. CacheTypeOK'
    <3>1. ASSUME NEW v \in Wallets, cache'[v] # NoEntry
          PROVE  /\ cache'[v].version \in 0 .. version[v]
                 /\ cache'[v].left \in 1 .. TTL /\ cache'[v].lag \in Nat
      <4>1. CASE v = w
        BY <1>2, <1>6, <2>1, <4>1, CacheAssumption
      <4>2. CASE v # w
        BY <1>4, <3>1, <4>2, EntryFacts DEF Row
      <4> QED BY <4>1, <4>2
    <3>2. ASSUME NEW x \in Clients
          PROVE  /\ read'[x].version \in 0 .. version[wallet[x]]
                 /\ read'[x].lag \in 0 .. read'[x].age /\ read'[x].age \in 0 .. FillTime
      <4>1. CASE x = d
        BY <1>2, <1>3, <4>1, CacheAssumption DEF NoRead
      <4>2. CASE x # d
        BY <1>3, <4>2 DEF Served, CacheTypeOK
      <4> QED BY <4>1, <4>2
    <3>3. \A x \in Clients : read'[x].raced \in BOOLEAN
      BY <1>3 DEF Reading
    <3>4. \A v \in Wallets : cache'[v].raced \in BOOLEAN
      BY <1>4 DEF Row
    <3> QED BY <1>1, <1>3, <3>1, <3>2, <3>3, <3>4 DEF Served, CacheTypeOK
  <2>4. Overlaps'
    BY <1>1, <1>3 DEF Served, Overlaps, Filling
  <2>5. ASSUME NEW x \in Clients PROVE FillShape(x)'
    <3>1. CASE x = d
      BY <1>3, <3>1 DEF FillShape, Alone
    <3>2. CASE x # d
      <4>1. wallet[x] \in Wallets /\ FillShape(x) /\ (Alone(x) => wallet[x] # w)
        BY <2>1, <3>2, ReaderFacts DEF Served
      <4>2. Alone(x) => cache'[wallet[x]] = cache[wallet[x]]
        BY <1>4, <4>1
      <4> QED BY <1>1, <1>3, <3>2, <4>1, <4>2 DEF FillShape, Alone
    <3> QED BY <3>1, <3>2
  <2>6. EntriesAreNewest'
    BY <1>1, <1>4, <1>6, <2>1 DEF Served, EntriesAreNewest
  <2>7. LagBounded'
    <3>1. ASSUME NEW v \in Wallets, cache'[v] # NoEntry
          PROVE  cache'[v].lag <= FillTime + TTL - cache'[v].left
      <4>1. CASE v = w
        BY <1>6, <2>1, <4>1, CacheAssumption
      <4>2. CASE v # w
        BY <1>4, <3>1, <4>2, EntryFacts
      <4> QED BY <4>1, <4>2
    <3> QED BY <3>1 DEF LagBounded
  <2>8. GoesBackOnlyByRace'
    BY <1>1 DEF Served, GoesBackOnlyByRace
  <2> QED BY <2>2, <2>3, <2>4, <2>5, <2>6, <2>7, <2>8 DEF Served
<1> QED BY <1>4, <1>5, <1>6

\* An entry that outlives a tick has one tick less to live, and is outdated
\* by at most one more.
LEMMA AgedFacts ==
  ASSUME Served, NEW w \in Wallets
  PROVE  /\ Aged(w) \in Row
         /\ Aged(w) # NoEntry =>
              /\ cache[w] # NoEntry
              /\ Aged(w).version = cache[w].version /\ Aged(w).raced = cache[w].raced
              /\ Aged(w).left \in 1 .. TTL
              /\ Aged(w).lag <= FillTime + TTL - Aged(w).left
<1>1. cache[w] \in Row /\ version[w] \in Nat
  BY DEF Served, Domains, CacheTypeOK
<1>2. CASE cache[w].left <= 1
  BY <1>2, Nothings DEF Aged
<1>3. CASE cache[w].left > 1
  <2> DEFINE lag == Older(cache[w], w)
             a == [cache[w] EXCEPT !.left = cache[w].left - 1, !.lag = lag]
  <2>1. Aged(w) = a
    BY <1>1, <1>3 DEF Aged, Row
  <2>2. cache[w] # NoEntry
    BY <1>3 DEF NoEntry
  <2>3. /\ cache[w].left \in 1 .. TTL
        /\ cache[w].lag <= FillTime + TTL - cache[w].left
    BY <2>2, EntryFacts
  <2>4. lag \in Nat /\ lag <= cache[w].lag + 1
    BY <1>1 DEF Older, Row
  <2> HIDE DEF lag
  <2>5. /\ a \in Row /\ a.version = cache[w].version /\ a.raced = cache[w].raced
        /\ a.left = cache[w].left - 1 /\ a.lag = lag
    <3>1. cache[w].left - 1 \in Nat
      BY <1>1, <1>3 DEF Row
    <3>2. PICK l \in Nat : l = cache[w].left - 1
      BY <3>1
    <3> DEFINE y == [cache[w] EXCEPT !.left = l]
    <3>3. /\ y \in Row /\ y.version = cache[w].version /\ y.raced = cache[w].raced
          /\ y.left = l
      BY <1>1 DEF Row
    <3>4. a = [y EXCEPT !.lag = lag]
      BY <3>2
    <3> HIDE DEF a, y
    <3> QED BY <2>4, <3>2, <3>3, <3>4 DEF Row
  <2> HIDE DEF a
  <2>6. a.left \in 1 .. TTL /\ a.lag <= FillTime + TTL - a.left
    BY <1>1, <1>3, <2>3, <2>4, <2>5, CacheAssumption DEF Row
  <2> QED BY <2>1, <2>2, <2>5, <2>6
<1> QED BY <1>1, <1>2, <1>3 DEF Row

\* A tick ages the entries and what readers are about to store.
LEMMA TickServed ==
  ASSUME Served, Tick
  PROVE  Served'
<1>1. /\ cache' = [w \in Wallets |-> Aged(w)]
      /\ UNCHANGED <<version, told, pc, wallet, floor, answer>>
  BY DEF Tick
<1>2. ASSUME NEW d \in Clients
      PROVE  /\ read'[d] \in Reading /\ read'[d].version = read[d].version
             /\ read'[d].raced = read[d].raced
             /\ read'[d].lag \in 0 .. read'[d].age /\ read'[d].age \in 0 .. FillTime
             /\ pc[d] # "set" => read'[d] = read[d]
  <2>1. /\ read[d] \in Reading /\ version[wallet[d]] \in Nat
        /\ read[d].lag \in 0 .. read[d].age /\ read[d].age \in 0 .. FillTime
    BY ReaderFacts
  <2>2. CASE pc[d] = "set"
    <3> DEFINE lag == Older(read[d], wallet[d])
               a == [read[d] EXCEPT !.age = read[d].age + 1, !.lag = lag]
    <3>1. read'[d] = a
      BY <2>1, <2>2 DEF Tick, Reading
    <3>2. lag \in Nat /\ lag <= read[d].lag + 1
      BY <2>1 DEF Older, Reading
    <3>3. read[d].age < FillTime
      BY DEF Tick
    <3> HIDE DEF lag
    <3>4. /\ a \in Reading /\ a.version = read[d].version /\ a.raced = read[d].raced
          /\ a.age = read[d].age + 1 /\ a.lag = lag
      <4>1. read[d].age + 1 \in Nat
        BY <2>1 DEF Reading
      <4>2. PICK g \in Nat : g = read[d].age + 1
        BY <4>1
      <4> DEFINE y == [read[d] EXCEPT !.age = g]
      <4>3. /\ y \in Reading /\ y.version = read[d].version
            /\ y.raced = read[d].raced /\ y.age = g
        BY <2>1 DEF Reading
      <4>4. a = [y EXCEPT !.lag = lag]
        BY <4>2
      <4> HIDE DEF a, y
      <4> QED BY <3>2, <4>2, <4>3, <4>4 DEF Reading
    <3> HIDE DEF a
    <3> QED BY <2>1, <2>2, <3>1, <3>2, <3>3, <3>4, CacheAssumption DEF Reading
  <2>3. CASE pc[d] # "set"
    BY <2>1, <2>3 DEF Tick
  <2> QED BY <2>2, <2>3
<1>3. Domains'
  <2>1. cache' \in [Wallets -> Row]
    BY <1>1, AgedFacts
  <2>2. read' \in [Clients -> Reading]
    <3>1. \A d \in Clients : read'[d] \in Reading
      BY <1>2
    <3>2. read' = [d \in Clients |-> read'[d]]
      BY DEF Tick
    <3> QED BY <3>1, <3>2
  <2> QED BY <1>1, <2>1, <2>2 DEF Served, Domains
<1>4. CacheTypeOK'
  <2>1. ASSUME NEW w \in Wallets, cache'[w] # NoEntry
        PROVE  /\ cache'[w].version \in 0 .. version[w]
               /\ cache'[w].left \in 1 .. TTL /\ cache'[w].lag \in Nat
    <3>1. cache'[w] = Aged(w)
      BY <1>1
    <3> QED BY <2>1, <3>1, AgedFacts, EntryFacts DEF Row
  <2>2. \A w \in Wallets : cache'[w].raced \in BOOLEAN
    BY <1>3 DEF Domains, Row
  <2>3. \A d \in Clients : read'[d].version \in 0 .. version[wallet[d]]
    BY <1>2, ReaderFacts
  <2>4. \A d \in Clients : read'[d].raced \in BOOLEAN
    BY <1>2 DEF Reading
  <2> QED BY <1>1, <1>2, <2>1, <2>2, <2>3, <2>4 DEF Served, CacheTypeOK
<1>5. Overlaps'
  BY <1>1, <1>2 DEF Served, Overlaps, Filling
<1>6. ASSUME NEW d \in Clients PROVE FillShape(d)'
  <2>1. wallet[d] \in Wallets /\ FillShape(d)
    BY ReaderFacts DEF Served
  <2>2. cache[wallet[d]] = NoEntry => cache'[wallet[d]] = NoEntry
    BY <1>1, <2>1, AgedFacts
  <2> QED BY <1>1, <1>2, <2>1, <2>2 DEF FillShape, Alone
<1>7. EntriesAreNewest'
  BY <1>1, AgedFacts DEF Served, EntriesAreNewest
<1>8. LagBounded'
  BY <1>1, AgedFacts DEF LagBounded
<1>9. GoesBackOnlyByRace'
  BY <1>1 DEF Served, GoesBackOnlyByRace
<1> QED BY <1>3, <1>4, <1>5, <1>6, <1>7, <1>8, <1>9 DEF Served

\* What does not touch the cache keeps Served.
LEMMA OutsideServed ==
  ASSUME Served, UNCHANGED cacheVars
  PROVE  Served'
<1>1. UNCHANGED <<version, cache, told, pc, wallet, read, floor, answer>>
  BY DEF cacheVars, readers
<1>2. CacheTypeOK' /\ Domains'
  BY <1>1 DEF Served, CacheTypeOK, Domains
<1>3. Overlaps' /\ \A d \in Clients : FillShape(d)'
  BY <1>1 DEF Served, Overlaps, Filling, FillShape, Alone
<1>4. EntriesAreNewest' /\ LagBounded' /\ GoesBackOnlyByRace'
  BY <1>1 DEF Served, EntriesAreNewest, LagBounded, GoesBackOnlyByRace
<1> QED BY <1>2, <1>3, <1>4 DEF Served

\* Served is an inductive invariant.
LEMMA NextServed == Served /\ [ReadNext]_readVars => Served'
<1> SUFFICES ASSUME Served, [ReadNext]_readVars PROVE Served'
  OBVIOUS
<1>1. ASSUME NEW r \in Requests, Commit(r) \/ (Begin(r) /\ UNCHANGED <<vars, cacheVars, uses>>)
      PROVE  Served'
  BY <1>1, CommitServed, OutsideServed
<1>2. ASSUME NEW d \in Clients, Ask(d) \/ ReadFails(d) \/ Continue(d)
      PROVE  Served'
  BY <1>2, AskServed, ReadFailsServed, HitServed, MissServed, SelectServed, SetServed
     DEF Continue, Reader
<1>3. ASSUME NEW d \in Clients, Fetch(d) /\ UNCHANGED <<vars, cacheVars, uses>>
      PROVE  Served'
  BY <1>3, OutsideServed
<1>4. CASE Pass
  BY <1>4, TickServed DEF Pass
<1>5. CASE UNCHANGED readVars
  BY <1>5, OutsideServed DEF readVars
<1> QED BY <1>1, <1>2, <1>3, <1>4, <1>5 DEF ReadNext

\* Served holds in every reachable state.
LEMMA ServedHolds == ReadSpec => []Served
BY InitServed, NextServed, PTL DEF ReadSpec

-----------------------------------------------------------------------------
(* What Served implies *)

\* The cache and its readers are well typed in every reachable state; above
\* all, nothing is read, stored or answered that was not committed before.
THEOREM TypeCorrect == ReadSpec => []CacheTypeOK
BY ServedHolds, PTL DEF Served

\* "Cached balances may briefly lag" (DESIGN.md:40): an entry is never outdated
\* for longer than the time to live and one fill, however slow the readers are
\* and whatever fails.
THEOREM LagIsBounded == ReadSpec => []LagBounded
BY ServedHolds, PTL DEF Served

\* A client is answered an older balance than somebody had been answered when
\* it asked only if the fill of the entry it was answered from overlapped
\* another fill of the same entry.
THEOREM BackOnlyByRace == ReadSpec => []GoesBackOnlyByRace
BY ServedHolds, PTL DEF Served

-----------------------------------------------------------------------------
(* History: what a client that pages has received *)

\* The events of w that come before e in every order, and those that sort as e.
Ahead(w, e) == {f \in Log(w) : Newer(f, e)}
Ties(w, e) == {f \in Log(w) : f.req = e.req}

\* The transactions whose events are there have begun, no two at a time.
Chronicle ==
  /\ began \in Seq(Requests)
  /\ \A i, j \in DOMAIN began : began[i] = began[j] => i = j
  /\ \A e \in events : \E i \in DOMAIN began : began[i] = e.req
  /\ IsFiniteSet(events)

PagerShape(p) ==
  /\ got[p] \subseteq Log(about[p]) /\ again[p] \subseteq got[p]
  /\ first[p] \subseteq Log(about[p])
  /\ offset[p] <= Cardinality(Log(about[p]))
  /\ paging[p] = "no" => offset[p] = 0 /\ got[p] = {} /\ first[p] = {}

TiedRepeat(p, e) == \E f \in again[p] : f.req = e.req

\* p has not passed e: it has received no more rows than may come before it.
NotPassed(p, e) ==
  /\ paging[p] # "done"
  /\ offset[p] <= Cardinality(Ahead(about[p], e)) + Cardinality(Ties(about[p], e) \cap got[p])

\* Why p may receive e a second time.
Explained(p, e) ==
  \/ \E f \in Log(about[p]) \ {e} : f.req = e.req
  \/ \E f \in Log(about[p]) \ first[p] : Newer(f, e)

Pager(p) ==
  /\ PagerShape(p)
  /\ \A e \in first[p] \ got[p] : TiedRepeat(p, e) \/ NotPassed(p, e)
  /\ \A e \in got[p] : Explained(p, e) \/ Cardinality(Ahead(about[p], e)) < offset[p]
  /\ \A e \in again[p] : Explained(p, e)

Paged ==
  /\ Chronicle
  /\ paging \in [Clients -> {"no", "yes", "done"}] /\ about \in [Clients -> Watched]
  /\ offset \in [Clients -> Nat]
  /\ got \in [Clients -> SUBSET events] /\ again \in [Clients -> SUBSET events]
  /\ first \in [Clients -> SUBSET events]
  /\ \A p \in Clients : Pager(p)

-----------------------------------------------------------------------------
(* Sizes of sets *)

\* A subset of a finite set is finite, and no larger.
LEMMA Smaller ==
  ASSUME NEW T, IsFiniteSet(T), NEW S \in SUBSET T
  PROVE  IsFiniteSet(S) /\ Cardinality(S) \in Nat /\ Cardinality(T) \in Nat
         /\ Cardinality(S) <= Cardinality(T)
BY FS_Subset, FS_CardinalityType

\* Two disjoint sets have together what each of them has.
LEMMA Apart ==
  ASSUME NEW U, IsFiniteSet(U), NEW S \in SUBSET U, NEW T \in SUBSET U, S \cap T = {}
  PROVE  /\ Cardinality(S \cup T) = Cardinality(S) + Cardinality(T)
         /\ Cardinality(S \cup T) \in Nat /\ Cardinality(S \cup T) <= Cardinality(U)
         /\ Cardinality(S) \in Nat /\ Cardinality(T) \in Nat
<1>1. IsFiniteSet(S) /\ IsFiniteSet(T) /\ S \cup T \in SUBSET U
  BY Smaller
<1>2. Cardinality(S) \in Nat /\ Cardinality(T) \in Nat
  BY Smaller
<1>3. Cardinality(S \cup T) \in Nat /\ Cardinality(S \cup T) <= Cardinality(U)
  BY <1>1, Smaller
<1>4. Cardinality(S \cup T) = Cardinality(S) + Cardinality(T) - Cardinality(S \cap T)
  BY <1>1, FS_Union
<1>5. Cardinality(S \cap T) = 0
  BY FS_EmptySet
<1> QED BY <1>2, <1>3, <1>4, <1>5

\* The smaller of two numbers.
LEMMA MinOfTwo ==
  ASSUME NEW a \in Int, NEW b \in Int
  PROVE  Min({a, b}) \in {a, b} /\ Min({a, b}) <= a /\ Min({a, b}) <= b
<1>1. \E x \in {a, b} : \A y \in {a, b} : x <= y
  <2>1. CASE a <= b
    BY <2>1
  <2>2. CASE b <= a
    BY <2>2
  <2> QED BY <2>1, <2>2
<1> QED BY <1>1 DEF Min

-----------------------------------------------------------------------------
(* The order of the query *)

\* createdAt is a number, and says which command an event is of.
LEMMA Stamps ==
  ASSUME Chronicle, NEW e \in events
  PROVE  /\ CreatedAt(e) \in DOMAIN began /\ CreatedAt(e) \in Nat
         /\ began[CreatedAt(e)] = e.req
         /\ \A f \in events : CreatedAt(f) = CreatedAt(e) <=> f.req = e.req
<1>1. \A f \in events : /\ CreatedAt(f) \in DOMAIN began
                        /\ began[CreatedAt(f)] = f.req
  BY DEF Chronicle, CreatedAt
<1>2. DOMAIN began \subseteq Nat
  BY DEF Chronicle
<1>3. ASSUME NEW f \in events PROVE CreatedAt(f) = CreatedAt(e) <=> f.req = e.req
  BY <1>1 DEF Chronicle
<1> QED BY <1>1, <1>2, <1>3

\* The events of a wallet, and those that come before or with one of them.
LEMMA Places ==
  ASSUME Chronicle, NEW w, NEW e \in Log(w)
  PROVE  /\ e \in events /\ IsFiniteSet(Log(w))
         /\ Ahead(w, e) \in SUBSET Log(w) /\ Ties(w, e) \in SUBSET Log(w)
         /\ e \in Ties(w, e) /\ Ahead(w, e) \cap Ties(w, e) = {}
         /\ \A f \in Log(w) : ~Newer(e, f) => f \in Ahead(w, e) \cup Ties(w, e)
         /\ \A f, g \in Log(w) : g \in Ahead(w, e) /\ ~Newer(g, f) => f \in Ahead(w, e)
         /\ \A f, g \in Log(w) : g \in Ties(w, e) /\ ~Newer(g, f)
                                   => f \in Ahead(w, e) \cup Ties(w, e)
<1>1. Log(w) \in SUBSET events /\ e \in events
  BY DEF Log
<1>2. IsFiniteSet(Log(w))
  BY <1>1, FS_Subset DEF Chronicle
<1>3. \A f \in Log(w) : CreatedAt(f) \in Nat /\ (CreatedAt(f) = CreatedAt(e) <=> f.req = e.req)
  BY <1>1, Stamps
<1> QED BY <1>1, <1>2, <1>3 DEF Ahead, Ties, Newer

\* A page and what it skips.
LEMMA PageFacts ==
  ASSUME Chronicle, NEW w, NEW n \in Nat, n <= Cardinality(Log(w)), NEW l \in Limits,
         NEW rows \in Pages(Log(w), n, Min({l, MaxLimit}))
  PROVE  \E skipped \in SUBSET Log(w) :
           /\ Cardinality(skipped) = n /\ skipped \cap rows = {} /\ rows \in SUBSET Log(w)
           /\ IsFiniteSet(Log(w)) /\ Cardinality(rows) \in Nat
           /\ Cardinality(skipped \cup rows) = n + Cardinality(rows)
           /\ n + Cardinality(rows) <= Cardinality(Log(w))
           /\ Cardinality(rows) < l => skipped \cup rows = Log(w)
           /\ Leads(skipped, Log(w)) /\ Leads(skipped \cup rows, Log(w))
<1>1. IsFiniteSet(Log(w))
  BY FS_Subset DEF Chronicle, Log
<1>2. PICK log : log = Log(w)
  OBVIOUS
<1>3. Min({l, MaxLimit}) = l /\ l \in Nat
  <2>1. l \in 1 .. MaxLimit /\ MaxLimit \in Nat
    BY HistoryAssumption
  <2> QED BY <2>1, MinOfTwo
<1>4. Cardinality(log) \in Nat
  BY <1>1, <1>2, FS_CardinalityType
<1>5. /\ rows \in SUBSET log
      /\ Cardinality(rows) = Min({l, Cardinality(log) - n})
      /\ \E skipped \in kSubset(n, log \ rows) :
           Leads(skipped, log) /\ Leads(skipped \cup rows, log)
  BY <1>2, <1>3 DEF Pages
<1>6. PICK skipped \in SUBSET (log \ rows) :
        /\ Cardinality(skipped) = n
        /\ Leads(skipped, log) /\ Leads(skipped \cup rows, log)
  BY <1>5 DEF kSubset
<1>7. /\ Cardinality(rows) \in {l, Cardinality(log) - n}
      /\ Cardinality(rows) <= Cardinality(log) - n
  BY <1>3, <1>4, <1>5, MinOfTwo
<1>8. /\ Cardinality(skipped \cup rows) = n + Cardinality(rows)
      /\ Cardinality(rows) \in Nat
  BY <1>1, <1>2, <1>5, <1>6, Apart
<1>9. Cardinality(rows) < l => skipped \cup rows = log
  <2>1. skipped \cup rows \in SUBSET log
    BY <1>5, <1>6
  <2>2. Cardinality(rows) < l => Cardinality(log) = Cardinality(skipped \cup rows)
    BY <1>2, <1>3, <1>4, <1>7, <1>8
  <2> QED BY <1>1, <1>2, <2>1, <2>2, FS_Subset
<1>10. n + Cardinality(rows) <= Cardinality(log)
  BY <1>4, <1>7, <1>8
<1>11. skipped \in SUBSET log /\ skipped \cap rows = {}
  OBVIOUS
<1> QED BY <1>1, <1>2, <1>5, <1>6, <1>8, <1>9, <1>10, <1>11

-----------------------------------------------------------------------------
(* The next page *)

\* A page of tied events only adds them to what was received of the tie.
LEMMA TiedPage ==
  ASSUME Chronicle, NEW w, NEW e \in Log(w), NEW have \in SUBSET Log(w),
         NEW rows \in SUBSET Ties(w, e), have \cap rows = {}, NEW n \in Nat,
         n <= Cardinality(Ahead(w, e)) + Cardinality(Ties(w, e) \cap have)
  PROVE  n + Cardinality(rows)
           <= Cardinality(Ahead(w, e)) + Cardinality(Ties(w, e) \cap (have \cup rows))
<1>1. /\ IsFiniteSet(Log(w)) /\ Ties(w, e) \in SUBSET Log(w)
      /\ Ahead(w, e) \in SUBSET Log(w)
  BY Places
<1>2. PICK old \in SUBSET Log(w) : old = Ties(w, e) \cap have
  BY <1>1
<1>3. Ties(w, e) \cap (have \cup rows) = old \cup rows /\ old \cap rows = {}
  BY <1>2
<1>4. rows \in SUBSET Log(w)
  BY <1>1
<1>5. /\ Cardinality(old \cup rows) = Cardinality(old) + Cardinality(rows)
      /\ Cardinality(old) \in Nat /\ Cardinality(rows) \in Nat
  BY <1>1, <1>3, <1>4, Apart
<1>6. Cardinality(Ahead(w, e)) \in Nat
  BY <1>1, Smaller
<1>7. n <= Cardinality(Ahead(w, e)) + Cardinality(old)
  BY <1>2
<1>8. n + Cardinality(rows) <= Cardinality(Ahead(w, e)) + Cardinality(old \cup rows)
  BY <1>5, <1>6, <1>7
<1> QED BY <1>3, <1>8

\* What is received of a page that begins before e and does not reach it.
LEMMA EarlyPage ==
  ASSUME Chronicle, NEW w, NEW e \in Log(w), NEW have \in SUBSET Log(w),
         NEW rows \in SUBSET Log(w), NEW skipped \in SUBSET Ahead(w, e),
         skipped \cap rows = {}, rows \in SUBSET (Ahead(w, e) \cup Ties(w, e))
  PROVE  Cardinality(skipped) + Cardinality(rows)
           <= Cardinality(Ahead(w, e)) + Cardinality(Ties(w, e) \cap (have \cup rows))
<1> DEFINE early == rows \cap Ahead(w, e)
           tied == rows \cap Ties(w, e)
<1>1. /\ IsFiniteSet(Log(w)) /\ Ties(w, e) \in SUBSET Log(w)
      /\ Ahead(w, e) \in SUBSET Log(w) /\ Ahead(w, e) \cap Ties(w, e) = {}
  BY Places
<1>2. IsFiniteSet(Ahead(w, e))
  BY <1>1, Smaller
<1>3. /\ early \in SUBSET Ahead(w, e) /\ skipped \cap early = {}
      /\ early \in SUBSET Log(w) /\ tied \in SUBSET Log(w)
      /\ early \cap tied = {} /\ early \cup tied = rows
  BY <1>1
<1>4. tied \in SUBSET (Ties(w, e) \cap (have \cup rows))
  OBVIOUS
<1>5. IsFiniteSet(Ties(w, e) \cap (have \cup rows))
  BY <1>1, Smaller
<1> HIDE DEF early, tied
<1>6. /\ Cardinality(skipped) \in Nat /\ Cardinality(early) \in Nat
      /\ Cardinality(Ahead(w, e)) \in Nat
      /\ Cardinality(skipped) + Cardinality(early) <= Cardinality(Ahead(w, e))
  <2>1. Cardinality(Ahead(w, e)) \in Nat
    BY <1>1, Smaller
  <2>2. /\ Cardinality(skipped \cup early) = Cardinality(skipped) + Cardinality(early)
        /\ Cardinality(skipped \cup early) <= Cardinality(Ahead(w, e))
        /\ Cardinality(skipped) \in Nat /\ Cardinality(early) \in Nat
    BY <1>2, <1>3, Apart
  <2> QED BY <2>1, <2>2
<1>7. Cardinality(rows) = Cardinality(early) + Cardinality(tied)
  BY <1>1, <1>3, Apart
<1>8. /\ Cardinality(tied) \in Nat /\ Cardinality(Ties(w, e) \cap (have \cup rows)) \in Nat
      /\ Cardinality(tied) <= Cardinality(Ties(w, e) \cap (have \cup rows))
  BY <1>4, <1>5, Smaller
<1> QED BY <1>6, <1>7, <1>8

\* If no tied event comes twice, a page either brings e, or leaves it ahead of
\* the client; in particular it is not the last page.
LEMMA NotPassedYet ==
  ASSUME Chronicle, NEW w, NEW e \in Log(w), NEW have \in SUBSET Log(w), e \notin have,
         NEW rows \in SUBSET Log(w), e \notin rows,
         NEW skipped \in SUBSET Log(w), skipped \cap rows = {},
         Cardinality(skipped)
           <= Cardinality(Ahead(w, e)) + Cardinality(Ties(w, e) \cap have),
         Leads(skipped, Log(w)), Leads(skipped \cup rows, Log(w)),
         \A f \in have \cap rows : f.req # e.req
  PROVE  /\ skipped \cup rows # Log(w)
         /\ Cardinality(skipped) + Cardinality(rows)
              <= Cardinality(Ahead(w, e)) + Cardinality(Ties(w, e) \cap (have \cup rows))
<1>1. /\ IsFiniteSet(Log(w)) /\ Ties(w, e) \in SUBSET Log(w)
      /\ Ahead(w, e) \in SUBSET Log(w) /\ e \in Ties(w, e)
      /\ Ahead(w, e) \cap Ties(w, e) = {}
      /\ \A f \in Log(w) : ~Newer(e, f) => f \in Ahead(w, e) \cup Ties(w, e)
      /\ \A f, g \in Log(w) : g \in Ahead(w, e) /\ ~Newer(g, f) => f \in Ahead(w, e)
      /\ \A f, g \in Log(w) : g \in Ties(w, e) /\ ~Newer(g, f)
                                => f \in Ahead(w, e) \cup Ties(w, e)
  BY Places
<1>2. Ties(w, e) \cap have \cap rows = {}
  BY DEF Ties
<1>3. Cardinality(skipped) \in Nat /\ Cardinality(rows) \in Nat
  BY <1>1, Smaller
<1>4. ASSUME rows \in SUBSET Ties(w, e)
      PROVE  Cardinality(skipped) + Cardinality(rows)
               <= Cardinality(Ahead(w, e)) + Cardinality(Ties(w, e) \cap (have \cup rows))
  <2>1. PICK mine \in SUBSET Log(w) : mine = Ties(w, e) \cap have
    BY <1>1
  <2>2. mine \cap rows = {} /\ Ties(w, e) \cap mine = mine
    BY <1>2, <2>1
  <2>3. Cardinality(skipped) <= Cardinality(Ahead(w, e)) + Cardinality(Ties(w, e) \cap mine)
    BY <2>1, <2>2
  <2>4. Cardinality(skipped) + Cardinality(rows)
          <= Cardinality(Ahead(w, e)) + Cardinality(Ties(w, e) \cap (mine \cup rows))
    BY <1>3, <1>4, <2>2, <2>3, TiedPage
  <2>5. Ties(w, e) \cap (mine \cup rows) = Ties(w, e) \cap (have \cup rows)
    BY <2>1
  <2> QED BY <2>4, <2>5
<1>5. CASE e \notin skipped
  <2>1. skipped \cup rows # Log(w)
    BY <1>5
  <2>2. \A x \in skipped \cup rows : ~Newer(e, x)
    BY <1>5 DEF Leads
  <2>3. skipped \cup rows \in SUBSET (Ahead(w, e) \cup Ties(w, e))
    BY <1>1, <2>2
  <2>4. CASE \E r \in rows : r \in Ahead(w, e)
    <3>1. PICK r \in rows : r \in Ahead(w, e)
      BY <2>4
    <3>2. \A x \in skipped : ~Newer(r, x)
      BY <3>1 DEF Leads
    <3>3. skipped \in SUBSET Ahead(w, e)
      BY <1>1, <3>1, <3>2
    <3> QED BY <2>1, <2>3, <3>3, EarlyPage
  <2>5. CASE ~ \E r \in rows : r \in Ahead(w, e)
    BY <1>4, <2>1, <2>3, <2>5
  <2> QED BY <2>4, <2>5
<1>6. CASE e \in skipped
  <2>1. Ahead(w, e) \in SUBSET skipped
    BY <1>1, <1>6 DEF Leads, Ahead
  <2>2. PICK g \in Ties(w, e) \cap have : g \notin skipped
    <3> SUFFICES ASSUME Ties(w, e) \cap have \subseteq skipped PROVE FALSE
      OBVIOUS
    <3> DEFINE mine == Ties(w, e) \cap have
               others == Ahead(w, e) \cup mine
    <3>1. /\ mine \in SUBSET Log(w) /\ Ahead(w, e) \cap mine = {}
          /\ others \in SUBSET skipped /\ e \notin others
          /\ others \in SUBSET Log(w)
          /\ others \cup {e} \in SUBSET skipped
      BY <1>1, <1>6, <2>1
    <3>2. Cardinality(skipped) <= Cardinality(Ahead(w, e)) + Cardinality(mine)
      OBVIOUS
    <3> HIDE DEF mine
    <3>3. Cardinality(others) = Cardinality(Ahead(w, e)) + Cardinality(mine)
      BY <1>1, <3>1, Apart
    <3> HIDE DEF others
    <3>4. IsFiniteSet(skipped) /\ IsFiniteSet(others)
      BY <1>1, <3>1, Smaller
    <3>5. Cardinality(others \cup {e}) = Cardinality(others) + 1
      BY <3>1, <3>4, FS_AddElement
    <3>6. Cardinality(others \cup {e}) <= Cardinality(skipped) /\ Cardinality(others) \in Nat
      BY <3>1, <3>4, Smaller
    <3> QED BY <1>3, <3>2, <3>3, <3>5, <3>6
  <2>3. g \notin skipped \cup rows /\ g \in Log(w)
    BY <1>1, <1>2, <2>2
  <2>4. \A x \in rows : ~Newer(g, x)
    BY <2>3 DEF Leads
  <2>5. rows \in SUBSET (Ahead(w, e) \cup Ties(w, e))
    BY <1>1, <2>2, <2>3, <2>4
  <2>6. rows \in SUBSET Ties(w, e)
    BY <2>1, <2>5
  <2> QED BY <1>4, <2>3, <2>6
<1> QED BY <1>5, <1>6

\* A client that receives e for the second time, though it asked for rows after
\* all those that come before e, skipped a row that was not there at first.
LEMMA RepeatedPage ==
  ASSUME Chronicle, NEW w, NEW e \in Log(w), NEW skipped \in SUBSET Log(w), e \notin skipped,
         Leads(skipped, Log(w)), Ties(w, e) = {e}
  PROVE  Cardinality(skipped) <= Cardinality(Ahead(w, e))
<1>1. \A x \in skipped : ~Newer(e, x)
  BY DEF Leads
<1>2. skipped \in SUBSET Ahead(w, e)
  BY <1>1, Places
<1>3. IsFiniteSet(Ahead(w, e))
  BY Places, Smaller
<1> QED BY <1>2, <1>3, Smaller

\* A page that brings e reaches past all that come before e.
LEMMA ReachedPage ==
  ASSUME Chronicle, NEW w, NEW prefix \in SUBSET Log(w), NEW e \in prefix, Leads(prefix, Log(w))
  PROVE  Cardinality(Ahead(w, e)) < Cardinality(prefix)
<1>1. /\ IsFiniteSet(Log(w)) /\ Ahead(w, e) \in SUBSET Log(w)
      /\ e \in Ties(w, e) /\ Ahead(w, e) \cap Ties(w, e) = {}
  BY Places
<1>2. Ahead(w, e) \in SUBSET prefix
  BY <1>1 DEF Leads, Ahead
<1>3. IsFiniteSet(prefix) /\ IsFiniteSet(Ahead(w, e)) /\ e \notin Ahead(w, e)
  BY <1>1, Smaller
<1>4. Cardinality(Ahead(w, e) \cup {e}) = Cardinality(Ahead(w, e)) + 1
  BY <1>3, FS_AddElement
<1>5. Cardinality(Ahead(w, e) \cup {e}) <= Cardinality(prefix)
  BY <1>2, <1>3, Smaller
<1>6. Cardinality(Ahead(w, e)) \in Nat /\ Cardinality(prefix) \in Nat
  BY <1>3, Smaller
<1> QED BY <1>4, <1>5, <1>6

\* What the next page does to the client that asks for it.
LEMMA FetchPager ==
  ASSUME Paged, NEW p \in Clients, Fetch(p), UNCHANGED events
  PROVE  /\ Pager(p)'
         /\ offset'[p] \in Nat /\ got'[p] \in SUBSET events /\ again'[p] \in SUBSET events
         /\ first'[p] \in SUBSET events
<1> DEFINE w == about[p]
           n == offset[p]
           F == IF paging[p] = "no" THEN Log(w) ELSE first[p]
<1>1. /\ Chronicle /\ Pager(p) /\ n \in Nat /\ w \in Watched
      /\ paging \in [Clients -> {"no", "yes", "done"}]
      /\ offset \in [Clients -> Nat]
      /\ got \in [Clients -> SUBSET events] /\ again \in [Clients -> SUBSET events]
      /\ first \in [Clients -> SUBSET events]
  BY DEF Paged
<1>2. PICK l \in Limits : \E rows \in Pages(Log(w), n, Min({l, MaxLimit})) :
        /\ got' = [got EXCEPT ![p] = @ \cup rows]
        /\ again' = [again EXCEPT ![p] = @ \cup (got[p] \cap rows)]
        /\ offset' = [offset EXCEPT ![p] = @ + Cardinality(rows)]
        /\ paging' = [paging EXCEPT ![p] = IF Cardinality(rows) < l THEN "done" ELSE "yes"]
  BY DEF Fetch
<1>3. PICK rows \in Pages(Log(w), n, Min({l, MaxLimit})) :
        /\ got' = [got EXCEPT ![p] = @ \cup rows]
        /\ again' = [again EXCEPT ![p] = @ \cup (got[p] \cap rows)]
        /\ offset' = [offset EXCEPT ![p] = @ + Cardinality(rows)]
        /\ paging' = [paging EXCEPT ![p] = IF Cardinality(rows) < l THEN "done" ELSE "yes"]
  BY <1>2
<1>4. /\ about' = about /\ began' = began /\ paging[p] # "done"
      /\ first' = [first EXCEPT ![p] = F]
  BY DEF Fetch
<1>5. /\ got[p] \in SUBSET Log(w) /\ again[p] \in SUBSET got[p] /\ first[p] \in SUBSET Log(w)
      /\ n <= Cardinality(Log(w))
      /\ paging[p] = "no" => n = 0 /\ got[p] = {} /\ first[p] = {}
  BY <1>1 DEF Pager, PagerShape
<1>6. PICK skipped \in SUBSET Log(w) :
        /\ Cardinality(skipped) = n /\ skipped \cap rows = {} /\ rows \in SUBSET Log(w)
        /\ IsFiniteSet(Log(w)) /\ Cardinality(rows) \in Nat
        /\ Cardinality(skipped \cup rows) = n + Cardinality(rows)
        /\ n + Cardinality(rows) <= Cardinality(Log(w))
        /\ Cardinality(rows) < l => skipped \cup rows = Log(w)
        /\ Leads(skipped, Log(w)) /\ Leads(skipped \cup rows, Log(w))
  <2>1. rows \in Pages(Log(w), n, Min({l, MaxLimit}))
    OBVIOUS
  <2>2. Chronicle /\ n \in Nat /\ n <= Cardinality(Log(w)) /\ l \in Limits
    BY <1>1, <1>5
  <2> HIDE DEF w, n
  <2> QED BY <2>1, <2>2, PageFacts
<1>7. /\ got'[p] = got[p] \cup rows /\ again'[p] = again[p] \cup (got[p] \cap rows)
      /\ offset'[p] = n + Cardinality(rows) /\ first'[p] = F /\ about'[p] = w
      /\ paging'[p] = IF Cardinality(rows) < l THEN "done" ELSE "yes"
  BY <1>1, <1>3, <1>4
<1>8. F \in SUBSET Log(w) /\ Log(w) \in SUBSET events
  BY <1>5 DEF Log
<1>9. \A x, e : /\ Log(x)' = Log(x) /\ Ahead(x, e)' = Ahead(x, e)
                /\ Ties(x, e)' = Ties(x, e)
  BY <1>4 DEF Log, Ahead, Ties, Newer, CreatedAt
<1> HIDE DEF F
<1>10. PagerShape(p)'
  BY <1>5, <1>6, <1>7, <1>8, <1>9 DEF PagerShape
<1>11. ASSUME NEW e \in F, e \notin got'[p], \A f \in again'[p] : f.req # e.req
       PROVE  NotPassed(p, e)'
  <2>1. e \in Log(w) /\ e \notin got[p] /\ e \notin rows
    BY <1>7, <1>8, <1>11
  <2>2. n <= Cardinality(Ahead(w, e)) + Cardinality(Ties(w, e) \cap got[p])
    <3>1. CASE paging[p] = "no"
      <4>1. Ahead(w, e) \in SUBSET Log(w) /\ Ties(w, e) \cap got[p] \in SUBSET Log(w)
        BY <1>1, <1>5, <2>1, Places
      <4>2. /\ Cardinality(Ahead(w, e)) \in Nat
            /\ Cardinality(Ties(w, e) \cap got[p]) \in Nat
        BY <1>6, <4>1, Smaller
      <4> QED BY <1>5, <3>1, <4>2
    <3>2. CASE paging[p] # "no"
      <4>1. e \in first[p] \ got[p] /\ \A f \in again[p] : f.req # e.req
        BY <1>7, <1>11, <2>1, <3>2 DEF F
      <4> QED BY <1>1, <4>1 DEF Pager, TiedRepeat, NotPassed
    <3> QED BY <3>1, <3>2
  <2>3. \A f \in got[p] \cap rows : f.req # e.req
    BY <1>7, <1>11
  <2>4. /\ skipped \cup rows # Log(w)
        /\ Cardinality(skipped) + Cardinality(rows)
             <= Cardinality(Ahead(w, e)) + Cardinality(Ties(w, e) \cap (got[p] \cup rows))
    <3>1. Cardinality(skipped) <= Cardinality(Ahead(w, e)) + Cardinality(Ties(w, e) \cap got[p])
      BY <1>6, <2>2
    <3> QED BY <1>1, <1>5, <1>6, <2>1, <2>3, <3>1, NotPassedYet
  <2>5. paging'[p] # "done"
    BY <1>6, <1>7, <2>4
  <2>6. offset'[p] <= Cardinality(Ahead(w, e)) + Cardinality(Ties(w, e) \cap got'[p])
    BY <1>6, <1>7, <2>4
  <2> QED BY <1>7, <1>9, <2>5, <2>6 DEF NotPassed
<1>12. ASSUME NEW e \in got[p], Explained(p, e) PROVE Explained(p, e)'
  <2>1. F = first[p]
    BY <1>5, <1>12 DEF F
  <2> QED BY <1>4, <1>7, <1>9, <1>12, <2>1 DEF Explained, Newer, CreatedAt
<1>13. ASSUME NEW e \in got'[p]
       PROVE  Explained(p, e)' \/ Cardinality(Ahead(w, e)) < offset'[p]
  <2>1. CASE e \in rows
    <3>1. skipped \cup rows \in SUBSET Log(w) /\ e \in skipped \cup rows
      BY <1>6, <2>1
    <3>2. Cardinality(Ahead(w, e)) < Cardinality(skipped \cup rows)
      BY <1>1, <1>6, <3>1, ReachedPage
    <3> QED BY <1>6, <1>7, <3>2
  <2>2. CASE e \notin rows
    <3>1. e \in got[p] /\ e \in Log(w)
      BY <1>5, <1>7, <1>13, <2>2
    <3>2. Explained(p, e) \/ Cardinality(Ahead(w, e)) < n
      BY <1>1, <3>1 DEF Pager
    <3>3. Cardinality(Ahead(w, e)) \in Nat
      BY <1>1, <1>6, <3>1, Places, Smaller
    <3> QED BY <1>1, <1>6, <1>7, <1>12, <3>1, <3>2, <3>3
  <2> QED BY <2>1, <2>2
<1>14. ASSUME NEW e \in again'[p] PROVE Explained(p, e)'
  <2>1. CASE e \in again[p]
    BY <1>1, <1>5, <1>12, <2>1 DEF Pager
  <2>2. CASE e \in got[p] \cap rows /\ ~Explained(p, e)
    <3>1. e \in Log(w) /\ e \notin skipped /\ e \in got[p]
      BY <1>5, <1>6, <2>2
    <3>2. Ties(w, e) = {e}
      BY <2>2, <3>1 DEF Explained, Ties
    <3>3. Cardinality(skipped) <= Cardinality(Ahead(w, e))
      BY <1>1, <1>6, <3>1, <3>2, RepeatedPage
    <3>4. Cardinality(Ahead(w, e)) < n
      BY <1>1, <2>2, <3>1 DEF Pager
    <3>5. Cardinality(Ahead(w, e)) \in Nat
      BY <1>1, <1>6, <3>1, Places, Smaller
    <3> QED BY <1>1, <1>6, <3>3, <3>4, <3>5
  <2>3. CASE e \in got[p] /\ Explained(p, e)
    BY <1>12, <2>3
  <2> QED BY <1>7, <1>14, <2>1, <2>2, <2>3
<1>15. Pager(p)'
  <2>1. \A e \in first'[p] \ got'[p] : TiedRepeat(p, e)' \/ NotPassed(p, e)'
    BY <1>7, <1>11 DEF TiedRepeat
  <2>2. \A e \in got'[p] : Explained(p, e)' \/ Cardinality(Ahead(about[p], e))' < offset'[p]
    BY <1>7, <1>9, <1>13
  <2> QED BY <1>10, <1>14, <2>1, <2>2 DEF Pager
<1>16. /\ offset'[p] \in Nat /\ got'[p] \in SUBSET events /\ again'[p] \in SUBSET events
       /\ first'[p] \in SUBSET events
  BY <1>1, <1>5, <1>6, <1>7, <1>8
<1> QED BY <1>15, <1>16

-----------------------------------------------------------------------------
(* Every action keeps Paged *)

\* Initially there are no events and no pages.
LEMMA InitPaged == ReadInit => Paged
<1> SUFFICES ASSUME ReadInit PROVE Paged
  OBVIOUS
<1>1. HistoryInit /\ events = {}
  BY DEF ReadInit, Init
<1>2. Chronicle
  <2>1. began = <<>> /\ DOMAIN began = {}
    BY <1>1 DEF HistoryInit
  <2> QED BY <1>1, <2>1, FS_EmptySet DEF Chronicle
<1>3. ASSUME NEW p \in Clients PROVE Pager(p)
  <2>1. /\ offset[p] = 0 /\ got[p] = {} /\ again[p] = {} /\ first[p] = {}
    BY <1>1 DEF HistoryInit
  <2>2. Cardinality(Log(about[p])) = 0
    BY <1>1, FS_EmptySet DEF Log
  <2> QED BY <2>1, <2>2 DEF Pager, PagerShape
<1> QED BY <1>1, <1>2, <1>3 DEF HistoryInit, Paged

\* What a client has received stays as well explained when events come, whatever
\* their transactions' times.
LEMMA MoreEvents ==
  ASSUME Paged, UNCHANGED pages, events \subseteq events', Chronicle',
         \A e \in events : CreatedAt(e)' = CreatedAt(e)
  PROVE  Paged'
<1>1. UNCHANGED <<paging, about, offset, got, again, first>>
  BY DEF pages
<1>2. /\ Chronicle
      /\ offset \in [Clients -> Nat]
      /\ got \in [Clients -> SUBSET events] /\ again \in [Clients -> SUBSET events]
      /\ first \in [Clients -> SUBSET events]
  BY DEF Paged
<1>3. ASSUME NEW w PROVE /\ Log(w) \in SUBSET Log(w)' /\ IsFiniteSet(Log(w)')
                         /\ Log(w) \in SUBSET events
  <2>1. Log(w) \in SUBSET Log(w)' /\ Log(w) \in SUBSET events /\ Log(w)' \in SUBSET events'
    BY DEF Log
  <2>2. IsFiniteSet(events')
    BY DEF Chronicle
  <2> QED BY <2>1, <2>2, FS_Subset
<1>4. \A e, f \in events : Newer(f, e)' <=> Newer(f, e)
  BY DEF Newer
<1>5. ASSUME NEW w, NEW e \in Log(w)
      PROVE  /\ Ahead(w, e) \in SUBSET Ahead(w, e)' /\ IsFiniteSet(Ahead(w, e)')
             /\ Ties(w, e) \in SUBSET Ties(w, e)' /\ IsFiniteSet(Ties(w, e)')
             /\ Ahead(w, e)' \cap Log(w) \in SUBSET Ahead(w, e)
  <2>1. Log(w) \in SUBSET Log(w)' /\ IsFiniteSet(Log(w)') /\ Log(w) \in SUBSET events
    BY <1>3
  <2>2. Ahead(w, e)' \in SUBSET Log(w)' /\ Ties(w, e)' \in SUBSET Log(w)'
    BY DEF Ahead, Ties
  <2>3. IsFiniteSet(Ahead(w, e)') /\ IsFiniteSet(Ties(w, e)')
    BY <2>1, <2>2, FS_Subset
  <2> QED BY <1>4, <2>1, <2>3 DEF Ahead, Ties
<1>6. ASSUME NEW p \in Clients PROVE Pager(p)'
  <2>0. PICK w : w = about[p]
    OBVIOUS
  <2>1. PagerShape(p) /\ Pager(p) /\ about'[p] = w /\ offset[p] \in Nat
    BY <1>1, <1>2, <2>0 DEF Paged, Pager
  <2>2. /\ Log(w) \in SUBSET Log(w)' /\ IsFiniteSet(Log(w)') /\ Log(w) \in SUBSET events
        /\ got[p] \in SUBSET Log(w) /\ first[p] \in SUBSET Log(w) /\ again[p] \in SUBSET got[p]
    BY <1>3, <2>0, <2>1 DEF PagerShape
  <2>3. PagerShape(p)'
    <3>1. /\ Cardinality(Log(w)) <= Cardinality(Log(w)')
          /\ Cardinality(Log(w)) \in Nat /\ Cardinality(Log(w)') \in Nat
      BY <2>2, Smaller
    <3> QED BY <1>1, <2>0, <2>1, <2>2, <3>1 DEF PagerShape
  <2>4. ASSUME NEW e \in first[p] \ got[p], NotPassed(p, e) PROVE NotPassed(p, e)'
    <3>1. e \in Log(w)
      BY <2>2
    <3> DEFINE mine == Ties(w, e) \cap got[p]
               ours == Ties(w, e)' \cap got[p]
    <3>2. mine \in SUBSET ours /\ ours \in SUBSET Ties(w, e)'
      BY <1>5, <3>1
    <3>3. IsFiniteSet(ours)
      BY <1>5, <3>1, <3>2, Smaller
    <3>4. paging[p] # "done" /\ offset[p] <= Cardinality(Ahead(w, e)) + Cardinality(mine)
      BY <2>0, <2>4 DEF NotPassed
    <3> HIDE DEF mine, ours
    <3>5. /\ Cardinality(mine) \in Nat /\ Cardinality(ours) \in Nat
          /\ Cardinality(mine) <= Cardinality(ours)
      BY <3>2, <3>3, Smaller
    <3>6. /\ Cardinality(Ahead(w, e)) \in Nat /\ Cardinality(Ahead(w, e)') \in Nat
          /\ Cardinality(Ahead(w, e)) <= Cardinality(Ahead(w, e)')
      BY <1>5, <3>1, Smaller
    <3>7. offset[p] <= Cardinality(Ahead(w, e)') + Cardinality(ours)
      BY <2>1, <3>4, <3>5, <3>6
    <3> QED BY <1>1, <2>0, <3>4, <3>7 DEF NotPassed, ours
  <2>5. ASSUME NEW e \in got[p], Explained(p, e) PROVE Explained(p, e)'
    <3>1. \A f \in Log(w) : Newer(f, e) => Newer(f, e)'
      BY <1>4, <2>2
    <3> QED BY <1>1, <2>0, <2>2, <2>5, <3>1 DEF Explained
  <2>6. ASSUME NEW e \in got[p], ~Explained(p, e)'
        PROVE  Cardinality(Ahead(w, e)') < offset[p]
    <3>1. e \in Log(w)
      BY <2>2
    <3>2. \A f \in Log(w)' : Newer(f, e)' => f \in Log(w)
      BY <1>1, <2>0, <2>2, <2>6 DEF Explained
    <3>3. Ahead(w, e)' = Ahead(w, e)
      BY <1>5, <3>1, <3>2 DEF Ahead
    <3>4. ~Explained(p, e)
      BY <2>5, <2>6
    <3> QED BY <2>0, <2>1, <3>3, <3>4 DEF Pager
  <2>7. \A e \in first'[p] \ got'[p] : TiedRepeat(p, e)' \/ NotPassed(p, e)'
    BY <1>1, <2>1, <2>4 DEF Pager, TiedRepeat
  <2>8. \A e \in got'[p] : Explained(p, e)' \/ Cardinality(Ahead(about[p], e))' < offset'[p]
    BY <1>1, <2>0, <2>6
  <2>9. \A e \in again'[p] : Explained(p, e)'
    BY <1>1, <2>1, <2>2, <2>5 DEF Pager
  <2> QED BY <2>3, <2>7, <2>8, <2>9 DEF Pager
<1>7. /\ got' \in [Clients -> SUBSET events'] /\ again' \in [Clients -> SUBSET events']
      /\ first' \in [Clients -> SUBSET events']
  BY <1>1, <1>2
<1> QED BY <1>1, <1>6, <1>7 DEF Paged

\* What a command records is of this command, and finite.
LEMMA EffectEvents ==
  ASSUME NEW r \in Requests, TakeEffect(r)
  PROVE  \E es : events' = events \cup es /\ IsFiniteSet(es) /\ \A e \in es : e.req = r
<1>1. \A a : IsFiniteSet({a})
  BY FS_Singleton
<1>2. \A a, b : IsFiniteSet({a, b})
  <2>1. ASSUME NEW a, NEW b PROVE IsFiniteSet({a, b})
    <3>1. IsFiniteSet({a} \cup {b})
      BY <1>1, FS_AddElement
    <3>2. {a} \cup {b} = {a, b}
      OBVIOUS
    <3> QED BY <3>1, <3>2
  <2> QED BY <2>1
<1>3. \A a, b, c, d : IsFiniteSet({a, b, c, d})
  <2>1. ASSUME NEW a, NEW b, NEW c, NEW d PROVE IsFiniteSet({a, b, c, d})
    <3>1. IsFiniteSet({a, b} \cup {c})
      BY <1>2, FS_AddElement
    <3>2. IsFiniteSet(({a, b} \cup {c}) \cup {d})
      BY <3>1, FS_AddElement
    <3>3. ({a, b} \cup {c}) \cup {d} = {a, b, c, d}
      OBVIOUS
    <3> QED BY <3>2, <3>3
  <2> QED BY <2>1
<1>4. \A type, w, a : NewEvent(r, type, w, a).req = r
  BY DEF NewEvent
<1>5. ASSUME NEW w \in Wallets, NEW a \in Amounts, Deposit(r, w, a) \/ Withdraw(r, w, a)
      PROVE  \E es : events' = events \cup es /\ IsFiniteSet(es) /\ \A e \in es : e.req = r
  <2>1. PICK type : events' = events \cup {NewEvent(r, type, w, a)}
    BY <1>5 DEF Deposit, Withdraw, Record
  <2>2. PICK e : e = NewEvent(r, type, w, a)
    OBVIOUS
  <2>3. events' = events \cup {e} /\ IsFiniteSet({e}) /\ e.req = r
    BY <1>1, <1>4, <2>1, <2>2
  <2> QED BY <2>3
<1>6. ASSUME NEW f \in Wallets, NEW t \in Wallets, NEW a \in Amounts, MakeTransfer(r, f, t, a)
      PROVE  \E es : events' = events \cup es /\ IsFiniteSet(es) /\ \A e \in es : e.req = r
  <2>1. events' = events \cup TransferEvents(r, f, t, a)
    BY <1>6 DEF MakeTransfer, Record
  <2>2. IsFiniteSet(TransferEvents(r, f, t, a))
    BY <1>3 DEF TransferEvents
  <2>3. \A e \in TransferEvents(r, f, t, a) : e.req = r
    BY <1>4 DEF TransferEvents
  <2> QED BY <2>1, <2>2, <2>3
<1>7. ASSUME NEW x \in transfers, Compensate(r, x)
      PROVE  \E es : events' = events \cup es /\ IsFiniteSet(es) /\ \A e \in es : e.req = r
  <2> DEFINE es == {NewEvent(r, "TransferFailed", x.from, x.amount),
                    NewEvent(r, "TransferCompensated", x.from, x.amount)}
  <2>1. events' = events \cup es
    BY <1>7 DEF Compensate, Record
  <2>2. IsFiniteSet(es)
    BY <1>2
  <2>3. \A e \in es : e.req = r
    BY <1>4
  <2> HIDE DEF es
  <2> QED BY <2>1, <2>2, <2>3
<1> QED BY <1>5, <1>6, <1>7 DEF TakeEffect

\* A command commits the events of a transaction that had begun before.
LEMMA CommitPaged ==
  ASSUME Paged, NEW r \in Requests, Commit(r)
  PROVE  Paged'
<1>1. /\ began' = began /\ UNCHANGED pages /\ TakeEffect(r)
      /\ \E i \in DOMAIN began : began[i] = r
  BY DEF Commit, ToSet
<1>2. PICK es : events' = events \cup es /\ IsFiniteSet(es) /\ \A e \in es : e.req = r
  BY <1>1, EffectEvents
<1>3. Chronicle /\ IsFiniteSet(events')
  BY <1>2, FS_Union DEF Paged, Chronicle
<1>4. Chronicle'
  BY <1>1, <1>2, <1>3 DEF Chronicle
<1>5. \A e : CreatedAt(e)' = CreatedAt(e)
  BY <1>1 DEF CreatedAt
<1> QED BY <1>1, <1>2, <1>4, <1>5, MoreEvents

\* A transaction that begins has the latest time, and nothing to show for it.
LEMMA BeginPaged ==
  ASSUME Paged, NEW r \in Requests, Begin(r), UNCHANGED events
  PROVE  Paged'
<1>1. /\ began' = Append(began, r) /\ UNCHANGED pages /\ Chronicle
      /\ \A i \in DOMAIN began : began[i] # r
  BY DEF Begin, ToSet, Paged
<1>2. began \in Seq(Requests) /\ began' \in Seq(Requests)
  BY <1>1 DEF Chronicle
<1>3. /\ DOMAIN began = 1 .. Len(began) /\ DOMAIN began' = 1 .. Len(began) + 1
      /\ \A i \in DOMAIN began : i \in DOMAIN began' /\ began'[i] = began[i]
      /\ began'[Len(began) + 1] = r /\ Len(began) \in Nat
  BY <1>1, <1>2
<1>4. \A i, j \in DOMAIN began' : began'[i] = began'[j] => i = j
  BY <1>1, <1>3 DEF Chronicle
<1>5. Chronicle'
  BY <1>1, <1>2, <1>3, <1>4 DEF Chronicle
<1>6. ASSUME NEW e \in events PROVE CreatedAt(e)' = CreatedAt(e)
  <2>1. CreatedAt(e) \in DOMAIN began /\ began[CreatedAt(e)] = e.req
    BY <1>1, Stamps
  <2>2. /\ CreatedAt(e)' \in DOMAIN began' /\ began'[CreatedAt(e)'] = e.req
    BY <1>3, <2>1 DEF CreatedAt
  <2> QED BY <1>3, <1>4, <2>1, <2>2
<1> QED BY <1>1, <1>5, <1>6, MoreEvents

\* A client that fetches a page disturbs no other.
LEMMA FetchPaged ==
  ASSUME Paged, NEW p \in Clients, Fetch(p), UNCHANGED events
  PROVE  Paged'
<1>1. /\ Pager(p)' /\ offset'[p] \in Nat
      /\ got'[p] \in SUBSET events /\ again'[p] \in SUBSET events /\ first'[p] \in SUBSET events
  BY FetchPager
<1>2. /\ began' = began /\ about' = about /\ events' = events
      /\ \A q \in Clients \ {p} :
           /\ paging'[q] = paging[q] /\ offset'[q] = offset[q] /\ got'[q] = got[q]
           /\ again'[q] = again[q] /\ first'[q] = first[q]
  BY DEF Fetch, Paged
<1>3. /\ paging' \in [Clients -> {"no", "yes", "done"}]
      /\ offset' \in [Clients -> Nat] /\ got' \in [Clients -> SUBSET events]
      /\ again' \in [Clients -> SUBSET events] /\ first' \in [Clients -> SUBSET events]
  BY <1>1, <1>2 DEF Fetch, Paged
<1>4. Chronicle'
  BY <1>2 DEF Paged, Chronicle
<1>5. \A x, e : /\ Log(x)' = Log(x) /\ Ahead(x, e)' = Ahead(x, e)
                /\ Ties(x, e)' = Ties(x, e) /\ Newer(x, e)' = Newer(x, e)
  BY <1>2 DEF Log, Ahead, Ties, Newer, CreatedAt
<1>6. ASSUME NEW q \in Clients, q # p PROVE Pager(q)'
  <2>1. Pager(q)
    BY DEF Paged
  <2> QED BY <1>2, <1>5, <1>6, <2>1
          DEF Pager, PagerShape, TiedRepeat, NotPassed, Explained
<1> QED BY <1>1, <1>2, <1>3, <1>4, <1>6 DEF Paged

\* What leaves the events and the pages alone keeps Paged.
LEMMA ElsewherePaged ==
  ASSUME Paged, UNCHANGED <<events, began, pages>>
  PROVE  Paged'
<1>1. Chronicle' /\ events \subseteq events'
  BY DEF Paged, Chronicle
<1>2. \A e : CreatedAt(e)' = CreatedAt(e)
  BY DEF CreatedAt
<1> QED BY <1>1, <1>2, MoreEvents

\* Paged is an inductive invariant.
LEMMA NextPaged == Paged /\ [ReadNext]_readVars => Paged'
<1> SUFFICES ASSUME Paged, [ReadNext]_readVars PROVE Paged'
  OBVIOUS
<1>1. ASSUME NEW r \in Requests, Commit(r) PROVE Paged'
  BY <1>1, CommitPaged
<1>2. ASSUME NEW r \in Requests, Begin(r), UNCHANGED vars PROVE Paged'
  BY <1>2, BeginPaged DEF vars
<1>3. ASSUME NEW d \in Clients, Fetch(d), UNCHANGED vars PROVE Paged'
  BY <1>3, FetchPaged DEF vars
<1>4. ASSUME UNCHANGED <<vars, began, pages>> PROVE Paged'
  BY <1>4, ElsewherePaged DEF vars
<1> QED BY <1>1, <1>2, <1>3, <1>4 DEF ReadNext, Continue, Pass, readVars

\* Paged holds in every reachable state.
LEMMA PagedHolds == ReadSpec => []Paged
BY InitPaged, NextPaged, PTL DEF ReadSpec

-----------------------------------------------------------------------------
(* What Paged implies *)

\* An event that was there when a client began to page through the history is
\* left out only if another one of its command, which sorts equal to it, came
\* twice; commands that commit meanwhile hide nothing.
THEOREM SkipsAreTies == ReadSpec => []SkippedOnlyByTies
<1>1. Paged => SkippedOnlyByTies
  BY DEF Paged, Pager, TiedRepeat, NotPassed, SkippedOnlyByTies
<1> QED BY <1>1, PagedHolds, PTL

\* An event comes twice only if one that sorts equal to it exists, or a newer one
\* has been committed since the client began.
THEOREM RepeatsAreCommits == ReadSpec => []RepeatedOnlyByCommits
<1>1. Paged => RepeatedOnlyByCommits
  BY DEF Paged, Pager, Explained, Newer, RepeatedOnlyByCommits
<1> QED BY <1>1, PagedHolds, PTL
=============================================================================
