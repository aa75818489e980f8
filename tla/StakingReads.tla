----------------------------- MODULE StakingReads -----------------------------
(* The staking queries whose answers take several reads of something that       *)
(* changes meanwhile: the events of a vault, from a node, and the pages of a    *)
(* wallet's transactions, from the subgraph. They share nothing, so that a      *)
(* behaviour exercises one of them while the other stays as it began.           *)
EXTENDS VaultEventScan, TransactionPages

CONSTANT Queries  \* which of the two are exercised

ASSUME QueriesAssumption == Queries \subseteq {"events", "transactions"}

VARIABLE query

readVars == <<query, scanVars, pageVars>>

ReadsInit ==
  /\ query \in Queries /\ ScanInit /\ PagesInit
  \* What only matters to the one is fixed for the other.
  /\ query = "events" => request = CHOOSE r \in FirstRequests : TRUE
  /\ query = "transactions" => height = 0 /\ stamp = CHOOSE f \in Chains : TRUE

ReadEvents == query = "events" /\ ScanNext /\ UNCHANGED <<query, pageVars>>
ReadTransactions == query = "transactions" /\ PagesNext /\ UNCHANGED <<query, scanVars>>

ReadsNext == ReadEvents \/ ReadTransactions

EventsGoOn == query = "events" /\ ScanGoesOn /\ UNCHANGED <<query, pageVars>>

FairReadsSpec == ReadsInit /\ [][ReadsNext]_readVars /\ WF_readVars(EventsGoOn)

\* The history of the wallet, the client's request and the scan have their types.
ReadsTypeOK == query \in Queries /\ ScanTypeOK /\ PagesTypeOK
=============================================================================
