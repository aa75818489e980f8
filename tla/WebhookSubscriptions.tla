------------------------- MODULE WebhookSubscriptions -------------------------
(* Webhook subscriptions are kept twice: as an endpoint at Svix, which delivers *)
(* the messages, and as a row of webhook_subscriptions. Creating, updating and  *)
(* deleting one are a call to Svix and then a statement, each of which may fail. *)
EXTENDS FiniteSets

CONSTANTS
  None,
  Creations,   \* requests that create a subscription; each names it by itself
  Deletions, Updates,
  Urls

Hooks == Creations \cup Deletions \cup Updates
Fields == {"url", "types", "status"}

ASSUME HookAssumption ==
  /\ None \notin Urls
  /\ Creations \cap Deletions = {} /\ Creations \cap Updates = {}
  /\ Deletions \cap Updates = {}

VARIABLES endpoint,  \* the URL of the endpoint at Svix, for each subscription
          subscription, \* the URL in its row
          hook,      \* the requests
          broken     \* subscriptions whose request died after it changed Svix

hookVars == <<endpoint, subscription, hook, broken>>

HookRequest == [pc : {"idle", "svix", "row", "end"}, id : Creations \cup {None},
                url : Urls \cup {None},  \* for an update, of the row it read
                fields : SUBSET Fields, newUrl : Urls \cup {None}]

NoHook == [pc |-> "idle", id |-> None, url |-> None, fields |-> {}, newUrl |-> None]

Proceed(h, pc) == hook' = [hook EXCEPT ![h] = IF pc = "end" THEN [NoHook EXCEPT !.pc = pc]
                                                           ELSE [@ EXCEPT !.pc = pc]]

BeginHook(h, request) ==
  /\ hook[h].pc = "idle"
  /\ hook' = [hook EXCEPT ![h] = request]
  /\ UNCHANGED <<endpoint, subscription, broken>>

\* ----------------------------------------------------------------- requests
CreateSubscription(h) ==
  /\ h \in Creations
  /\ \E u \in Urls : BeginHook(h, [NoHook EXCEPT !.pc = "svix", !.id = h, !.url = u])

\* createApplication and createEndpoint; the application has no state of interest.
CreateEndpoint(h) ==
  /\ h \in Creations /\ hook[h].pc = "svix"
  /\ endpoint' = [endpoint EXCEPT ![h] = hook[h].url]
  /\ Proceed(h, "row") /\ UNCHANGED <<subscription, broken>>

InsertSubscription(h) ==
  /\ h \in Creations /\ hook[h].pc = "row"
  /\ subscription' = [subscription EXCEPT ![h] = hook[h].url]
  /\ Proceed(h, "end") /\ UNCHANGED <<endpoint, broken>>

\* Deletion and update begin with findById.
Stored == {id \in Creations : subscription[id] # None}

DeleteSubscription(h) ==
  /\ h \in Deletions
  /\ \E id \in Stored : BeginHook(h, [NoHook EXCEPT !.pc = "svix", !.id = id])

\* Svix refuses to delete or to update an endpoint it does not have.
DeleteEndpoint(h) ==
  /\ h \in Deletions /\ hook[h].pc = "svix"
  /\ endpoint' = [endpoint EXCEPT ![hook[h].id] = None]
  /\ Proceed(h, IF endpoint[hook[h].id] = None THEN "end" ELSE "row")
  /\ UNCHANGED <<subscription, broken>>

DeleteRow(h) ==
  /\ h \in Deletions /\ hook[h].pc = "row"
  /\ subscription' = [subscription EXCEPT ![hook[h].id] = None]
  /\ Proceed(h, "end") /\ UNCHANGED <<endpoint, broken>>

UpdateSubscription(h) ==
  /\ h \in Updates
  /\ \E id \in Stored, f \in SUBSET Fields, u \in Urls :
       BeginHook(h, [pc |-> IF f \subseteq {"status"} THEN "row" ELSE "svix", id |-> id,
                     url |-> subscription[id], fields |-> f,
                     newUrl |-> IF "url" \in f THEN u ELSE None])

\* updateEndpoint with the new URL, or with that of the row. The entity a repository
\* returns has no updateUrl: a request with a URL throws once Svix has answered.
UpdateEndpoint(h) ==
  /\ h \in Updates /\ hook[h].pc = "svix"
  /\ LET q == hook[h]
     IN  IF endpoint[q.id] = None
           THEN Proceed(h, "end") /\ UNCHANGED endpoint
           ELSE /\ endpoint' = [endpoint EXCEPT ![q.id] =
                                  IF q.newUrl # None THEN q.newUrl ELSE q.url]
                /\ Proceed(h, IF "url" \in q.fields THEN "end" ELSE "row")
  /\ UNCHANGED <<subscription, broken>>

\* update writes the URL that was read, and throws when the row is gone.
WriteSubscriptionUpsert(h) ==
  /\ h \in Updates /\ hook[h].pc = "row"
  /\ subscription' = [subscription EXCEPT ![hook[h].id] = hook[h].url]
  /\ Proceed(h, "end") /\ UNCHANGED <<endpoint, broken>>

WriteSubscription(h) ==
  /\ h \in Updates /\ hook[h].pc = "row"
  /\ subscription' = [subscription EXCEPT ![hook[h].id] =
                        IF @ = None THEN None ELSE hook[h].url]
  /\ Proceed(h, "end") /\ UNCHANGED <<endpoint, broken>>

\* A call is rejected, or the process stops.
CallFails(h) ==
  /\ hook[h].pc \in {"svix", "row"}
  /\ broken' = IF hook[h].pc = "row" /\ h \notin Updates
                 THEN broken \cup {hook[h].id} ELSE broken
  /\ Proceed(h, "end") /\ UNCHANGED <<endpoint, subscription>>

\* ------------------------------------------------------------ specification
HookInit ==
  /\ endpoint = [id \in Creations |-> None]
  /\ subscription = [id \in Creations |-> None]
  /\ hook = [h \in Hooks |-> NoHook]
  /\ broken = {}

HookNext ==
  \E h \in Hooks :
    \/ CreateSubscription(h) \/ CreateEndpoint(h) \/ InsertSubscription(h)
    \/ DeleteSubscription(h) \/ DeleteEndpoint(h) \/ DeleteRow(h)
    \/ UpdateSubscription(h) \/ UpdateEndpoint(h) \/ WriteSubscription(h)
    \/ CallFails(h)

HookSpec == HookInit /\ [][HookNext]_hookVars

\* --------------------------------------------------------------- properties
\* Endpoints, rows and requests have their types.
HookTypeOK ==
  /\ endpoint \in [Creations -> Urls \cup {None}]
  /\ subscription \in [Creations -> Urls \cup {None}]
  /\ hook \in [Hooks -> HookRequest]
  /\ broken \in SUBSET Creations

Between(id) == \E h \in Hooks \ Updates : hook[h].pc = "row" /\ hook[h].id = id

\* A row and its endpoint exist together, however updates and deletions overlap, but
\* while a creation or deletion is between its two calls, or after it died there.
EndpointsMatchRows ==
  \A id \in Creations :
    (endpoint[id] = None <=> subscription[id] = None) \/ Between(id) \/ id \in broken
=============================================================================
