------------------------------- MODULE Services -------------------------------
(* The request handlers and jobs of the API server that share no table, no      *)
(* cache entry and no call: the marketplace, the rewards of developers, the     *)
(* outbound webhooks, the price jobs, the requests for prices beside them, the  *)
(* linked accounts of users and the metadata of tokens. A behaviour exercises   *)
(* one of them, its focus, while the others wait in their initial states;       *)
(* nothing is lost by that, for no step of one reads or writes the state of     *)
(* another (the requests for prices come with the cache they share with jobs).  *)
EXTENDS Marketplace, DeveloperRewards, WebhookSubscriptions, PriceHistory, LinkedAccounts,
        TokenMetadata

CONSTANT Focuses  \* which of the services are exercised

ServiceNames == {"market", "rewards", "webhooks", "prices", "history", "accounts",
                 "tokens"}

ASSUME ServicesAssumption == Focuses \subseteq ServiceNames

VARIABLE focus

servicesVars == <<focus, marketVars, rewardVars, hookVars, priceVars, historyVars,
                  accountVars, metadataVars>>

ServicesInit ==
  /\ focus \in Focuses
  /\ MarketInit /\ RewardInit /\ HookInit /\ PriceInit /\ HistoryInit
  /\ AccountsInit /\ MetadataInit
  \* Who takes part is of interest to the service in focus only.
  /\ focus = "market" \/ made = CHOOSE cast \in Casts : TRUE
  /\ focus = "history" \/ together = CHOOSE cast \in Together : TRUE

Serve(service) == focus = service /\ UNCHANGED focus

MarketServes ==
  /\ Serve("market") /\ MarketNext
  /\ UNCHANGED <<rewardVars, hookVars, priceVars, historyVars, accountVars, metadataVars>>
RewardsServe ==
  /\ Serve("rewards") /\ RewardNext
  /\ UNCHANGED <<marketVars, hookVars, priceVars, historyVars, accountVars, metadataVars>>
WebhooksServe ==
  /\ Serve("webhooks") /\ HookNext
  /\ UNCHANGED <<marketVars, rewardVars, priceVars, historyVars, accountVars, metadataVars>>
PricesServe ==
  /\ Serve("prices") /\ PriceNext
  /\ UNCHANGED <<marketVars, rewardVars, hookVars, historyVars, accountVars, metadataVars>>
HistoryServes ==
  /\ Serve("history") /\ HistoryNext
  /\ UNCHANGED <<marketVars, rewardVars, hookVars, accountVars, metadataVars>>
AccountsServe ==
  /\ Serve("accounts") /\ AccountsNext
  /\ UNCHANGED <<marketVars, rewardVars, hookVars, priceVars, historyVars, metadataVars>>
TokensServe ==
  /\ Serve("tokens") /\ MetadataNext
  /\ UNCHANGED <<marketVars, rewardVars, hookVars, priceVars, historyVars, accountVars>>

ServicesNext ==
  \/ MarketServes \/ RewardsServe \/ WebhooksServe \/ PricesServe \/ HistoryServes
  \/ AccountsServe \/ TokensServe

ServicesSpec == ServicesInit /\ [][ServicesNext]_servicesVars

\* Tables, caches, timers and the local variables of every service have their types.
ServicesTypeOK ==
  /\ focus \in Focuses
  /\ MarketTypeOK /\ RewardTypeOK /\ HookTypeOK /\ PriceTypeOK /\ HistoryTypeOK
  /\ AccountsTypeOK /\ MetadataTypeOK
=============================================================================
