---------------------------- MODULE LinkedAccounts ----------------------------
(* ManageLinkedAccountsUseCase: a user links a wallet, an address or another    *)
(* account by type and identifier. That another user has it is looked up before *)
(* the row is saved; the primary key of linked_accounts has the owner in it.    *)
EXTENDS Naturals, FiniteSets

CONSTANTS Users, Accounts,
          Nobody,  \* the lookup finds no row
          Links    \* requests in flight

ASSUME AccountsAssumption == Nobody \notin Users

VARIABLES linked,  \* the rows of linked_accounts: an owner and an account
          link,    \* the requests
          contested \* accounts that one user linked while another was linking them

accountVars == <<linked, link, contested>>

LinkRequest == [pc : {"idle", "find", "save"}, user : Users \cup {Nobody},
                account : Accounts \cup {Nobody}]
NoLink == [pc |-> "idle", user |-> Nobody, account |-> Nobody]

Answer(l) == link' = [link EXCEPT ![l] = NoLink]

OwnersOf(a) == {u \in Users : <<u, a>> \in linked}

\* findByTypeAndIdentifier takes any of the rows.
FindByTypeOwnerAndIdentifier(u, a) == IF <<u, a>> \in linked THEN {u} ELSE {Nobody}
FindByTypeAndIdentifier(u, a) == IF OwnersOf(a) = {} THEN {Nobody} ELSE OwnersOf(a)

LinkAccount(l) ==
  /\ link[l].pc = "idle"
  /\ \E u \in Users, a \in Accounts :
       link' = [link EXCEPT ![l] = [pc |-> "find", user |-> u, account |-> a]]
  /\ UNCHANGED <<linked, contested>>

\* The account of another user is refused.
CheckOwner(l) ==
  /\ link[l].pc = "find"
  /\ \E owner \in FindByTypeAndIdentifier(link[l].user, link[l].account) :
       IF owner \in {Nobody, link[l].user}
         THEN /\ link' = [link EXCEPT ![l].pc = "save"]
              /\ contested' = contested \cup
                   {a \in Accounts : a = link[l].account /\ \E m \in Links :
                      link[m].pc = "save" /\ link[m].account = a
                      /\ link[m].user # link[l].user}
         ELSE Answer(l) /\ UNCHANGED contested
  /\ UNCHANGED linked

\* An upsert by the primary key.
Save(l) ==
  /\ link[l].pc = "save"
  /\ linked' = linked \cup {<<link[l].user, link[l].account>>}
  /\ Answer(l) /\ UNCHANGED contested

UnlinkAccount ==
  /\ \E row \in linked : linked' = linked \ {row}
  /\ UNCHANGED <<link, contested>>

LinkFails(l) ==
  /\ link[l].pc # "idle"
  /\ Answer(l) /\ UNCHANGED <<linked, contested>>

\* ------------------------------------------------------------ specification
AccountsInit ==
  /\ linked = {} /\ contested = {}
  /\ link = [l \in Links |-> NoLink]

AccountsNext ==
  \/ \E l \in Links : LinkAccount(l) \/ CheckOwner(l) \/ Save(l) \/ LinkFails(l)
  \/ UnlinkAccount

AccountsSpec == AccountsInit /\ [][AccountsNext]_accountVars

\* --------------------------------------------------------------- properties
AccountsTypeOK ==
  /\ linked \subseteq Users \X Accounts /\ contested \subseteq Accounts
  /\ link \in [Links -> LinkRequest]

\* An account belongs to one user, whatever is linked, linked again and unlinked, but
\* where two users linked it at once: the primary key lets both rows in.
OneOwner == \A a \in Accounts : Cardinality(OwnersOf(a)) > 1 => a \in contested
=============================================================================
