----------------------------- MODULE BlockIndexer -----------------------------
(***************************************************************************)
(* The listener of a network and the workers of its queue, in a process    *)
(* that may crash and start again while the queue stays in Redis.          *)
(***************************************************************************)
EXTENDS BlockPolling, BlockProcessing

vars == <<queueVars, pollingVars, processingVars>>

Init == QueueInit /\ PollingInit /\ ProcessingInit

Restart == /\ restarts < MaxRestarts
           /\ restarts' = restarts + 1
           /\ PollingRestart /\ ProcessingRestart
           /\ UNCHANGED <<added, failures>>

Next == \/ PollingStep /\ UNCHANGED processingVars
        \/ ProcessingStep /\ UNCHANGED pollingVars
        \/ Restart

Spec == Init /\ [][Next]_vars

\* The timer keeps firing, promises are resumed when their call is answered or
\* rejected, and every worker keeps taking jobs.
Fairness ==
  /\ \A s \in Starters : WF_vars(StartStep(s) /\ UNCHANGED processingVars)
  /\ \A p \in Polls : /\ WF_vars(Tick(p) /\ UNCHANGED processingVars)
                      /\ WF_vars(PollStep(p) /\ UNCHANGED processingVars)
  /\ \A w \in Workers : WF_vars(WorkerStep(w) /\ UNCHANGED pollingVars)

FairSpec == Spec /\ Fairness

\* Queue, listener and workers keep their types.
TypeOK == QueueType /\ PollingType /\ ProcessingType

\* Whatever polls overlap, fail halfway or set the last block back, and however
\* listening is stopped and started, every block after the last starting point
\* that counts as processed has been put on the queue.
NoGap == lastProcessed # Null =>
           \A b \in Blocks : skipTo < b /\ b <= lastProcessed => added[b] > 0

\* A completed block has had every event offered to EventBridge, in one of its attempts,
\* whether or not EventBridge took it.  Only what the attempt that completed it gave up
\* may be missing, silently: the events of a contract whose query was rejected, and
\* the transfers or the logs of a block that the provider answered with null.
CompletedIsOffered ==
  \A b \in completed : \A e \in EventsOf(b) \ skipped : offers[e] > 0

\* Retries repeat events, but no event is offered more often than the jobs of its
\* block have attempts, each of them one more for a crash that may interrupt it.
RepeatsBounded ==
  \A b \in Blocks : \A e \in EventsOf(b) :
    offers[e] <= (Attempts + restarts) * added[b]

\* While the network is listened to, each block after the starting point is
\* queued sooner or later.
KeepsUp ==
  \A b \in Blocks :
    (b <= head /\ b > skipTo /\ interval # Null)
      ~> (added[b] > 0 \/ interval = Null \/ b <= skipTo)

\* A queued block ends: a job of it completes or fails for good.
BlockEnds == \A b \in Blocks : added[b] > 0 ~> (b \in completed \/ b \in failed)
=============================================================================
