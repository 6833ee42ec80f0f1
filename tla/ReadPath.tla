------------------------------ MODULE ReadPath ------------------------------
(***************************************************************************)
(* The two read endpoints beside the commands of the ledger.  Neither takes *)
(* a lock, so commands are the single steps that WalletLedger implements.  *)
(***************************************************************************)
EXTENDS BalanceCache, History

readVars == <<vars, cacheVars, began, pages, uses>>

ReadInit == Init /\ UsesInit /\ CacheInit /\ HistoryInit

\* A command commits; its transaction began some time ago.
Commit(r) ==
  /\ r \in ToSet(began)
  /\ TakeEffect(r)
  /\ Supersede
  /\ UNCHANGED <<cache, told, readers, began, pages, uses>>

\* A request for a balance goes on to its answer.
Continue(d) == Reader(d) /\ UNCHANGED <<vars, began, pages, uses>>

Pass == Tick /\ UNCHANGED <<vars, began, pages, uses>>

ReadNext ==
  \/ \E r \in Requests :
       Commit(r) \/ (Begin(r) /\ UNCHANGED <<vars, cacheVars, uses>>)
  \/ \E d \in Clients :
       \/ (Ask(d) \/ ReadFails(d)) /\ UNCHANGED <<vars, began, pages, uses>>
       \/ Continue(d)
       \/ Fetch(d) /\ UNCHANGED <<vars, cacheVars, uses>>
  \/ Pass

ReadSpec == ReadInit /\ [][ReadNext]_readVars

\* Time passes, and a reader that has asked goes on.
ReadFairSpec ==
  /\ ReadSpec
  /\ WF_readVars(Pass)
  /\ \A d \in Clients : WF_readVars(Continue(d))
=============================================================================
