------------------------------ MODULE History ------------------------------
(***************************************************************************)
(* getHistory: the events of a wallet by createdAt, newest first, a page   *)
(* at a time, while commands commit between the pages.                     *)
(*                                                                         *)
(* createdAt is filled in by PostgreSQL with the time at which the         *)
(* transaction began, no two in the same microsecond.  The events of one   *)
(* command share it, and a command that waited for a lock commits events   *)
(* older than some that have been visible for long.  The query orders by nothing else: rows with the *)
(* same createdAt come in any order, another one each time.                *)
(*                                                                         *)
(* External: a client that asks for pages until it gets a short one, each  *)
(* starting after the rows it has received.                                *)
(***************************************************************************)
EXTENDS ReadClients, FiniteSetsExt, SequencesExt

CONSTANTS
  Limits,   \* page sizes they ask for; HistoryQueryDto allows 1 to 200
  MaxLimit  \* the largest page, 200

ASSUME HistoryAssumption ==
  /\ MaxLimit \in Nat \ {0}
  /\ Limits \subseteq 1 .. MaxLimit

VARIABLES
  began,  \* the requests whose transactions have begun, in order
  paging, \* paging[p]: "no", "yes", "done"
  about,  \* about[p]: the wallet p asks about
  offset, \* offset[p]: how many rows p has received
  got,    \* got[p]: the events among them
  again,  \* again[p]: those it has received more than once
  first   \* first[p]: the events of the wallet when p received its first page

pages == <<paging, about, offset, got, again, first>>

HistoryInit ==
  /\ began = <<>>
  /\ paging = [p \in Clients |-> "no"]
  /\ about \in [Clients -> Watched]
  /\ offset = [p \in Clients |-> 0]
  /\ got = [p \in Clients |-> {}]
  /\ again = [p \in Clients |-> {}]
  /\ first = [p \in Clients |-> {}]

\* startTransaction of the command r.
Begin(r) ==
  /\ r \notin ToSet(began)
  /\ began' = Append(began, r)
  /\ UNCHANGED pages

CreatedAt(e) == CHOOSE i \in DOMAIN began : began[i] = e.req

Log(w) == {e \in events : e.wallet = w}

MutNewer(a, b) == CreatedAt(a) < CreatedAt(b)
Newer(a, b) == CreatedAt(a) > CreatedAt(b)

\* S may be the first rows of log in an order by createdAt, newest first.
Leads(S, log) == \A a \in S, b \in log \ S : ~Newer(b, a)

\* The rows that may come after n rows of log, at most l of them: whichever
\* order the query chooses this time among those that sort equal.
MutPages(log, n, l) ==
  LET from == Min({n + 1, Cardinality(log)}) IN
  {rows \in SUBSET log :
     /\ Cardinality(rows) = Min({l, Cardinality(log) - from})
     /\ \E skipped \in kSubset(from, log \ rows) :
          Leads(skipped, log) /\ Leads(skipped \cup rows, log)}
Pages(log, n, l) ==
  {rows \in SUBSET log :
     /\ Cardinality(rows) = Min({l, Cardinality(log) - n})
     /\ \E skipped \in kSubset(n, log \ rows) :
          Leads(skipped, log) /\ Leads(skipped \cup rows, log)}

\* p asks for the next page.
Fetch(p) ==
  LET log == Log(about[p]) IN
  /\ uses[p] = "history" /\ paging[p] # "done"
  /\ \E l \in Limits : \E rows \in Pages(log, offset[p], Min({l, MaxLimit})) :
       /\ got' = [got EXCEPT ![p] = @ \cup rows]
       /\ again' = [again EXCEPT ![p] = @ \cup (got[p] \cap rows)]
       /\ offset' = [offset EXCEPT ![p] = @ + Cardinality(rows)]
       /\ paging' = [paging EXCEPT ![p] = IF Cardinality(rows) < l THEN "done" ELSE "yes"]
  /\ first' = [first EXCEPT ![p] = IF paging[p] = "no" THEN log ELSE @]
  /\ UNCHANGED <<began, about>>

-----------------------------------------------------------------------------
(* Properties *)

\* An event that was there when the paging began is skipped only if another one
\* of the same command, which sorts equal to it, came in its place a second
\* time; commands that commit meanwhile, however old, hide nothing.
SkippedOnlyByTies ==
  \A p \in Clients : paging[p] = "done" =>
    \A e \in first[p] \ got[p] : \E f \in again[p] : f.req = e.req

\* An event is received twice only if one that sorts equal to it exists, or a
\* newer one has been committed since the paging began.
RepeatedOnlyByCommits ==
  \A p \in Clients : \A e \in again[p] :
    \/ \E f \in Log(about[p]) \ {e} : f.req = e.req
    \/ \E f \in Log(about[p]) \ first[p] : CreatedAt(f) > CreatedAt(e)
=============================================================================
