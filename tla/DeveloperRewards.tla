--------------------------- MODULE DeveloperRewards ---------------------------
(* DeveloperContributionProcessor over the table developer_contributions: a     *)
(* contribution is submitted unless it repeats one, verified by a remote check  *)
(* whose answer is cached, and marked as distributed by a batch. Verification   *)
(* and distribution write back the whole row that they read.                    *)
EXTENDS Integers, Sequences, FiniteSets

CONSTANTS
  NoRow,
  Contributions, \* what a developer may submit: the identifiers it names
  Submissions, Verifications, Distributions,  \* executions
  MaxRows        \* bound on the rows inserted

Executions == Submissions \cup Verifications \cup Distributions

ASSUME RewardAssumption ==
  /\ Submissions \cap Verifications = {} /\ Submissions \cap Distributions = {}
  /\ Verifications \cap Distributions = {}
  /\ MaxRows \in Nat

VARIABLES contributions,  \* the rows, of one wallet, action type and season
          verdicts,       \* the cached answers of performVerification
          reward,         \* executions with their local variables
          overlapped      \* two submissions were under way at once

rewardVars == <<contributions, verdicts, reward, overlapped>>

Contribution == [details : Contributions, verified : BOOLEAN, distributed : BOOLEAN]
Rows == 1 .. MaxRows

RewardExecution == [pc : {"idle", "check", "validate", "insert", "verify", "save", "mark", "end"},
                    details : Contributions \cup {{}},
                    todo : SUBSET Rows,  \* rows still to be read, checked or written
                    read : UNION {[ids -> Contribution] : ids \in SUBSET Rows}]

NoExecution == [pc |-> "idle", details |-> {}, todo |-> {}, read |-> <<>>]

RowsRead(ids) == [i \in ids |-> contributions[i]]

Step(e, execution) == reward' = [reward EXCEPT ![e] = execution]
End(e) == Step(e, [NoExecution EXCEPT !.pc = "end"])

\* --------------------------------------------------------------- submission
\* checkDuplicateContribution: the ids first, then a query for each of them.
ProcessContribution(e) ==
  /\ e \in Submissions /\ reward[e].pc = "idle"
  /\ \E d \in Contributions :
       Step(e, [NoExecution EXCEPT !.pc = "check", !.details = d,
                                   !.todo = DOMAIN contributions])
  /\ overlapped' = (overlapped \/ \E s \in Submissions : reward[s].pc \notin {"idle", "end"})
  /\ UNCHANGED <<contributions, verdicts>>

\* areActionDetailsEqual: one identifier in common is enough.
AreActionDetailsSame(c, d) == c = d
AreActionDetailsEqual(c, d) == c \cap d # {}

CheckDuplicate(e) ==
  /\ e \in Submissions /\ reward[e].pc = "check" /\ reward[e].todo # {}
  /\ \E i \in reward[e].todo :
       IF AreActionDetailsEqual(contributions[i].details, reward[e].details)
         THEN End(e)
         ELSE Step(e, [reward[e] EXCEPT !.todo = @ \ {i}])
  /\ UNCHANGED <<contributions, verdicts, overlapped>>

\* validateAction, the fraud check and the reward, which may refuse the action.
Validate(e) ==
  /\ e \in Submissions /\ reward[e].pc = "check" /\ reward[e].todo = {}
  /\ End(e) \/ Step(e, [reward[e] EXCEPT !.pc = "insert"])
  /\ UNCHANGED <<contributions, verdicts, overlapped>>

InsertContribution(e) ==
  /\ e \in Submissions /\ reward[e].pc = "insert"
  /\ Len(contributions) < MaxRows
  /\ contributions' = Append(contributions, [details |-> reward[e].details,
                                             verified |-> FALSE, distributed |-> FALSE])
  /\ End(e) /\ UNCHANGED <<verdicts, overlapped>>

\* ------------------------------------------------------------- verification
VerifyContribution(e) ==
  /\ e \in Verifications /\ reward[e].pc = "idle"
  /\ \E i \in DOMAIN contributions :
       IF contributions[i].verified
         THEN End(e)
         ELSE Step(e, [NoExecution EXCEPT !.pc = "verify", !.todo = {i},
                                          !.read = RowsRead({i})])
  /\ UNCHANGED <<contributions, verdicts, overlapped>>

\* performVerification: the cached answer, or that of the remote service, then cached.
PerformVerification(e) ==
  /\ e \in Verifications /\ reward[e].pc = "verify"
  /\ \E i \in reward[e].todo :
       \E valid \in (IF verdicts[i] = NoRow THEN BOOLEAN ELSE {verdicts[i]}) :
         /\ verdicts' = [verdicts EXCEPT ![i] = valid]
         /\ IF valid THEN Step(e, [reward[e] EXCEPT !.pc = "save"]) ELSE End(e)
  /\ UNCHANGED <<contributions, overlapped>>

\* A timer deletes the answer; nothing bounds its delay from here.
ForgetVerdict ==
  /\ \E i \in Rows : verdicts[i] # NoRow /\ verdicts' = [verdicts EXCEPT ![i] = NoRow]
  /\ UNCHANGED <<contributions, reward, overlapped>>

SaveVerified(e) ==
  /\ e \in Verifications /\ reward[e].pc = "save"
  /\ \E i \in reward[e].todo :
       contributions' = [contributions EXCEPT ![i] = [reward[e].read[i] EXCEPT !.verified = TRUE]]
  /\ End(e) /\ UNCHANGED <<verdicts, overlapped>>

\* ------------------------------------------------------------- distribution
\* findVerifiedUndistributed; its order, by verified_at, is left open.
FindUndistributed == {i \in DOMAIN contributions : ~contributions[i].distributed}
FindVerifiedUndistributed ==
  {i \in DOMAIN contributions : contributions[i].verified /\ ~contributions[i].distributed}

DistributeRewards(e) ==
  /\ e \in Distributions /\ reward[e].pc = "idle"
  /\ LET ids == FindVerifiedUndistributed
     IN  IF ids = {} THEN End(e)
         ELSE Step(e, [NoExecution EXCEPT !.pc = "mark", !.todo = ids, !.read = RowsRead(ids)])
  /\ UNCHANGED <<contributions, verdicts, overlapped>>

\* One contribution is marked, or its update fails and the loop goes on.
MarkDistributed(e) ==
  /\ e \in Distributions /\ reward[e].pc = "mark"
  /\ \E i \in reward[e].todo :
       /\ \/ contributions' = [contributions EXCEPT ![i] =
                                 [reward[e].read[i] EXCEPT !.distributed = TRUE]]
          \/ UNCHANGED contributions
       /\ IF reward[e].todo = {i} THEN End(e)
                                  ELSE Step(e, [reward[e] EXCEPT !.todo = @ \ {i}])
  /\ UNCHANGED <<verdicts, overlapped>>

\* Another query, the remote check or the process fails.
ExecutionFails(e) ==
  /\ e \notin Distributions /\ reward[e].pc \notin {"idle", "end"}
  /\ End(e)
  /\ UNCHANGED <<contributions, verdicts, overlapped>>

\* ------------------------------------------------------------ specification
RewardInit ==
  /\ contributions = <<>>
  /\ verdicts = [i \in Rows |-> NoRow]
  /\ reward = [e \in Executions |-> NoExecution]
  /\ overlapped = FALSE

RewardNext ==
  \/ ForgetVerdict
  \/ \E e \in Executions :
       \/ ProcessContribution(e) \/ CheckDuplicate(e) \/ Validate(e)
       \/ InsertContribution(e)
       \/ VerifyContribution(e) \/ PerformVerification(e) \/ SaveVerified(e)
       \/ DistributeRewards(e) \/ MarkDistributed(e)
       \/ ExecutionFails(e)

RewardSpec == RewardInit /\ [][RewardNext]_rewardVars

\* --------------------------------------------------------------- properties
\* Rows, answers and executions have their types.
RewardTypeOK ==
  /\ Len(contributions) <= MaxRows
  /\ \A i \in DOMAIN contributions : contributions[i] \in Contribution
  /\ verdicts \in [Rows -> BOOLEAN \cup {NoRow}]
  /\ DOMAIN reward = Executions
  /\ \A e \in Executions : reward[e] \in RewardExecution

\* No stale row that a verification or a distribution writes back takes a verification
\* away: a reward that was distributed is one of a verified contribution.
VerifiedStays ==
  [][\A i \in DOMAIN contributions :
       /\ contributions[i].verified => contributions'[i].verified
       /\ contributions'[i].distributed => contributions'[i].verified]_rewardVars

\* Unless two submissions overlap, no two contributions of a wallet name the same
\* operation, contract, transaction or pull request.
NoDuplicate ==
  overlapped \/ \A i, j \in DOMAIN contributions :
                  i # j => contributions[i].details \cap contributions[j].details = {}
=============================================================================
