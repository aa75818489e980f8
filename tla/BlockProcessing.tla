---------------------------- MODULE BlockProcessing ----------------------------
(***************************************************************************)
(* The process-block jobs of one process: Bull hands each of its workers   *)
(* one job at a time, processBlock offers the block's ETH transfers and    *)
(* its contracts' events to EventBridge, and a thrown error sends the job  *)
(* back for another attempt.  What EventBridge answers changes nothing:    *)
(* publishEvent returns a failure as a value, which nobody looks at.       *)
(***************************************************************************)
EXTENDS BlockQueue, FiniteSets

CONSTANTS
  Workers,    \* jobs in progress at once: the job class registers two named
              \* processors on the queue, and Bull starts a worker for each
  Working,    \* FALSE while pauseEventProcessing has stopped the queue
  Transfers,  \* Transfers[b]: the ETH transfers of block b, a sequence of events
  Logs        \* Logs[b]: for each contract called in block b, the events that
              \* convertToBlockchainEvent keeps, in order

VARIABLES
  worker,     \* worker[w]: the job that w has in progress
  completed,  \* blocks a job of which has completed
  failed,     \* blocks a job of which has used up its attempts
  offers,     \* offers[e]: times event e was given to EventBridge
  skipped     \* events that an attempt which completed its block had given up

processingVars == <<worker, completed, failed, offers, skipped>>

Elements(s) == {s[i] : i \in 1 .. Len(s)}
EventsOf(b) == Elements(Transfers[b]) \cup UNION {Elements(l) : l \in Elements(Logs[b])}
Events == UNION {EventsOf(b) : b \in Blocks}

ASSUME WorkersAssumption == IsFiniteSet(Workers)
\* An event is one transfer or one log of a block: the loop over its contracts is over
\* a set of addresses, so that none is met twice.
EachOnce(transfers, logs) ==
  /\ \A m, n \in 1 .. Len(transfers) : transfers[m] = transfers[n] => m = n
  /\ \A i \in 1 .. Len(logs) :
       /\ \A m, n \in 1 .. Len(logs[i]) : logs[i][m] = logs[i][n] => m = n
       /\ Elements(transfers) \cap Elements(logs[i]) = {}
  /\ \A i, j \in 1 .. Len(logs) : i # j => Elements(logs[i]) \cap Elements(logs[j]) = {}

ASSUME EventsAssumption ==
  /\ \A b \in Blocks : /\ Transfers[b] \in Seq(Events) /\ Logs[b] \in Seq(Seq(Events))
                       /\ EachOnce(Transfers[b], Logs[b])
  /\ \A b, c \in Blocks : b # c => EventsOf(b) \cap EventsOf(c) = {}

Job == [pc : {"transfers", "publish", "block", "logs", "publishLogs", "finish"},
        block : Blocks, attempt : 0 .. Attempts - 1,
        todo : Seq(Events), contracts : Seq(Seq(Events)),
        given : SUBSET Events]  \* history: events this attempt has given up
NoJob == [pc |-> "idle"]

ProcessingType == /\ worker \in [Workers -> Job \cup {NoJob}]
                  /\ completed \subseteq Blocks
                  /\ failed \subseteq Blocks
                  /\ offers \in [Events -> Nat]
                  /\ skipped \subseteq Events

ProcessingInit == /\ worker = [w \in Workers |-> NoJob]
                  /\ completed = {}
                  /\ failed = {}
                  /\ offers = [e \in Events |-> 0]
                  /\ skipped = {}

\* Bull hands out a waiting job.  The priorities and the backoff of retries
\* let any of them be next.
TakeJob(w) ==
  /\ Working /\ worker[w] = NoJob
  /\ \E b \in Blocks, n \in 0 .. Attempts - 1 :
       /\ waiting[b][n] > 0
       /\ waiting' = Dequeued(b, n)
       /\ worker' = [worker EXCEPT ![w] =
                       [pc |-> "transfers", block |-> b, attempt |-> n,
                        todo |-> <<>>, contracts |-> <<>>, given |-> {}]]
  /\ UNCHANGED <<completed, failed, offers, skipped, added, failures, restarts>>

\* Mutant: a failed attempt is not counted.
ThrowUncounted(w) ==
  /\ Rejected
  /\ waiting' = Requeued(worker[w].block, worker[w].attempt)
  /\ worker' = [worker EXCEPT ![w] = NoJob]
  /\ UNCHANGED <<failed, completed, offers, skipped, added, restarts>>

\* processBlock throws: the job waits for its next attempt, or has failed.
Throw(w) ==
  /\ Rejected
  /\ IF worker[w].attempt + 1 < Attempts
       THEN waiting' = Requeued(worker[w].block, worker[w].attempt + 1) /\ UNCHANGED failed
       ELSE failed' = failed \cup {worker[w].block} /\ UNCHANGED waiting
  /\ worker' = [worker EXCEPT ![w] = NoJob]
  /\ UNCHANGED <<completed, offers, skipped, added, restarts>>

Goto(w, pc, todo, contracts) ==
  worker' = [worker EXCEPT ![w].pc = pc, ![w].todo = todo, ![w].contracts = contracts]

\* Goto, without the events E, which this attempt gives up.
GotoWithout(w, E, pc, todo, contracts) ==
  worker' = [worker EXCEPT ![w].pc = pc, ![w].todo = todo, ![w].contracts = contracts,
                           ![w].given = @ \cup E]

\* getEthTransfersFromBlock: a provider that does not know the block answers null,
\* which is taken for a block without transfers.
GetEthTransfers(w) ==
  /\ worker[w].pc = "transfers"
  /\ LET transfers == Transfers[worker[w].block]
     IN  \/ /\ Answered
            /\ \/ Goto(w, "publish", transfers, <<>>)
               \/ GotoWithout(w, Elements(transfers), "publish", <<>>, <<>>)
            /\ UNCHANGED <<completed, failed, offers, skipped, waiting, added, restarts>>
         \/ Throw(w)

\* The events in hand, one after the other, then on to the next call.
Publish(w, pc, after) ==
  /\ worker[w].pc = pc
  /\ IF worker[w].todo = <<>>
       THEN Goto(w, after, <<>>, worker[w].contracts) /\ UNCHANGED offers
       ELSE /\ offers' = [offers EXCEPT ![Head(worker[w].todo)] = @ + 1]
            /\ Goto(w, pc, Tail(worker[w].todo), worker[w].contracts)
  /\ UNCHANGED <<completed, failed, skipped, queueVars>>

PublishTransfers(w) == Publish(w, "publish", "block")
PublishLogs(w) == Publish(w, "publishLogs", "logs")

\* Mutant: a block that calls no contract is not gone on with.
GetBlockWaits(w) ==
  /\ worker[w].pc = "block"
  /\ \/ /\ Answered /\ Logs[worker[w].block] # <<>>
        /\ Goto(w, "logs", <<>>, Logs[worker[w].block])
        /\ UNCHANGED <<completed, failed, offers, skipped, waiting, added, restarts>>
     \/ Throw(w)

\* getBlock; a block that calls no contract goes straight on to the end, and so does
\* one that the provider answers with null.
GetBlock(w) ==
  /\ worker[w].pc = "block"
  /\ LET logs == Logs[worker[w].block]
     IN  \/ /\ Answered
            /\ \/ Goto(w, "logs", <<>>, logs)
               \/ GotoWithout(w, UNION {Elements(l) : l \in Elements(logs)}, "logs", <<>>, <<>>)
            /\ UNCHANGED <<completed, failed, offers, skipped, waiting, added, restarts>>
         \/ Throw(w)

\* Mutant: the rejection of one contract ends the loop over the others.
GetContractEventsBreaks(w) ==
  /\ worker[w].pc = "logs"
  /\ LET contracts == worker[w].contracts
     IN  IF contracts = <<>>
           THEN Goto(w, "finish", <<>>, <<>>) /\ UNCHANGED failures
           ELSE \/ Answered /\ Goto(w, "publishLogs", Head(contracts), Tail(contracts))
                \/ Rejected /\ GotoWithout(w, Elements(Head(contracts)), "logs", <<>>, <<>>)
  /\ UNCHANGED <<completed, failed, offers, skipped, waiting, added, restarts>>

\* getContractEvents of the next contract: its rejection is caught, the
\* contract's events are given up and the loop goes on.
GetContractEvents(w) ==
  /\ worker[w].pc = "logs"
  /\ LET contracts == worker[w].contracts
     IN  IF contracts = <<>>
           THEN Goto(w, "finish", <<>>, <<>>) /\ UNCHANGED failures
           ELSE \/ Answered /\ Goto(w, "publishLogs", Head(contracts), Tail(contracts))
                \/ /\ Rejected
                   /\ GotoWithout(w, Elements(Head(contracts)), "logs", <<>>, Tail(contracts))
  /\ UNCHANGED <<completed, failed, offers, skipped, waiting, added, restarts>>

\* job.progress(100) and the return: a rejection repeats a block that had been done.
Finish(w) ==
  /\ worker[w].pc = "finish"
  /\ \/ /\ Answered
        /\ completed' = completed \cup {worker[w].block}
        /\ skipped' = skipped \cup worker[w].given
        /\ worker' = [worker EXCEPT ![w] = NoJob]
        /\ UNCHANGED <<failed, offers, waiting, added, restarts>>
     \/ Throw(w)

WorkerStep(w) == \/ TakeJob(w) \/ GetEthTransfers(w) \/ PublishTransfers(w) \/ GetBlock(w)
                 \/ GetContractEvents(w) \/ PublishLogs(w) \/ Finish(w)

ProcessingStep == \E w \in Workers : WorkerStep(w)

InProgress(b, n) == {w \in Workers : /\ worker[w] # NoJob
                                     /\ worker[w].block = b
                                     /\ worker[w].attempt = n}

\* Bull finds the jobs of a crashed process stalled and hands them out again;
\* their attempt is not counted.  (Bull does so once per job by default.)
ProcessingRestart ==
  /\ worker' = [w \in Workers |-> NoJob]
  /\ waiting' = [b \in Blocks |-> [n \in 0 .. Attempts - 1 |->
                   waiting[b][n] + Cardinality(InProgress(b, n))]]
  /\ UNCHANGED <<completed, failed, offers, skipped>>
=============================================================================
