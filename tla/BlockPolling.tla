----------------------------- MODULE BlockPolling -----------------------------
(***************************************************************************)
(* EventListenerService for one network: startListening and stopListening, *)
(* and processNewBlocks, which setInterval starts again whether or not the *)
(* execution before it has ended.  The service remembers the last block it *)
(* queued in memory only.                                                  *)
(***************************************************************************)
EXTENDS BlockQueue

CONSTANTS
  InitialHead,  \* the head of the chain when the server first starts
  BatchSize,    \* blocks one poll may queue (10)
  Polls,        \* executions of processNewBlocks that may be in progress at once
  Starters,     \* calls of startListening, the one of onModuleInit included
  Boot,         \* the call of startBlockProcessing that onModuleInit makes
  Null

ASSUME BootAssumption == Boot \in Starters
ASSUME NullAssumption == Null \notin Starters /\ Null \notin Nat
\* lastProcessedBlocks.get(networkName) || currentBlock takes block 0 for a
\* missing entry: a chain that is at its genesis is never followed.
ASSUME InitialHeadAssumption == InitialHead \in Blocks
ASSUME BatchAssumption == BatchSize \in Nat \ {0}

VARIABLES
  head,           \* the latest block of the chain
  lastProcessed,  \* entry of lastProcessedBlocks, or Null
  interval,       \* entry of blockProcessingIntervals, or Null
  timers,         \* timers that are running
  start,          \* the calls of startListening
  poll,           \* the executions of processNewBlocks
  skipTo          \* the highest block any startBlockProcessing began after

pollingVars == <<head, lastProcessed, interval, timers, start, poll, skipTo>>

Execution == [pc : {"idle", "latest", "read", "add", "set"},
              current : Nat, next : Nat, until : Nat]
IdleExecution == [pc |-> "idle", current |-> 0, next |-> 0, until |-> 0]

Call == [pc : {"idle", "connect", "latest", "begin", "done"}, latest : Nat]

PollingType == /\ head \in Blocks
               /\ lastProcessed \in Nat \cup {Null}
               /\ interval \in Starters \cup {Null}
               /\ timers \subseteq Starters
               /\ start \in [Starters -> Call]
               /\ poll \in [Polls -> Execution]
               /\ skipTo \in Nat

Booting == [s \in Starters |-> [pc |-> IF s = Boot THEN "connect" ELSE "idle",
                                latest |-> 0]]

PollingInit == /\ head = InitialHead
               /\ lastProcessed = Null
               /\ interval = Null
               /\ timers = {}
               /\ start = Booting
               /\ poll = [p \in Polls |-> IdleExecution]
               /\ skipTo = 0

NewBlock == /\ head < MaxHead
            /\ head' = head + 1
            /\ UNCHANGED <<lastProcessed, interval, timers, start, poll, skipTo, queueVars>>

-----------------------------------------------------------------------------
(* startListening and startBlockProcessing *)

Return(s) == start' = [start EXCEPT ![s] = [pc |-> "done", latest |-> 0]]

\* POST listen/:networkName, once the server is up; the network that already
\* has an interval is left alone.
StartListening(s) ==
  /\ start[s].pc = "idle" /\ start[Boot].pc = "done"
  /\ IF interval # Null
       THEN Return(s)
       ELSE start' = [start EXCEPT ![s].pc = "connect"]
  /\ UNCHANGED <<head, lastProcessed, interval, timers, poll, skipTo, queueVars>>

\* testConnectivity: a network that does not answer is not listened to.
TestConnectivity(s) ==
  /\ start[s].pc = "connect"
  /\ \/ Answered /\ start' = [start EXCEPT ![s].pc = "latest"]
     \/ Rejected /\ Return(s)
  /\ UNCHANGED <<head, lastProcessed, interval, timers, poll, skipTo, waiting, added, restarts>>

\* getLatestBlockNumber; its rejection is caught and leaves nothing listening.
GetFirstBlock(s) ==
  /\ start[s].pc = "latest"
  /\ \/ Answered /\ start' = [start EXCEPT ![s] = [pc |-> "begin", latest |-> head]]
     \/ Rejected /\ Return(s)
  /\ UNCHANGED <<head, lastProcessed, interval, timers, poll, skipTo, waiting, added, restarts>>

\* The answer is remembered as processed and the timer is set, over whatever
\* another call has stored meanwhile.
StartBlockProcessing(s) ==
  /\ start[s].pc = "begin"
  /\ lastProcessed' = start[s].latest
  /\ skipTo' = IF start[s].latest > skipTo THEN start[s].latest ELSE skipTo
  /\ timers' = timers \cup {s}
  /\ interval' = s
  /\ Return(s)
  /\ UNCHANGED <<head, poll, queueVars>>

StopListening ==
  /\ interval # Null
  /\ timers' = timers \ {interval}
  /\ interval' = Null
  /\ UNCHANGED <<head, lastProcessed, start, poll, skipTo, queueVars>>

-----------------------------------------------------------------------------
(* processNewBlocks *)

End(p) == poll' = [poll EXCEPT ![p] = IdleExecution]

Tick(p) ==
  /\ timers # {} /\ poll[p].pc = "idle"
  /\ poll' = [poll EXCEPT ![p].pc = "latest"]
  /\ UNCHANGED <<head, lastProcessed, interval, timers, start, skipTo, queueVars>>

GetLatestBlock(p) ==
  /\ poll[p].pc = "latest"
  /\ \/ Answered /\ poll' = [poll EXCEPT ![p].pc = "read", ![p].current = head]
     \/ Rejected /\ End(p)
  /\ UNCHANGED <<head, lastProcessed, interval, timers, start, skipTo, waiting, added, restarts>>

LastOr(current) == IF lastProcessed = Null THEN current ELSE lastProcessed

\* Mutant: the last block is stored before the blocks are queued.
ReadLastSetsFirst(p) ==
  LET last == LastOr(poll[p].current)
      behind == poll[p].current - last
      until == last + IF behind < BatchSize THEN behind ELSE BatchSize
  IN  /\ poll[p].pc = "read"
      /\ IF behind > 0
           THEN /\ poll' = [poll EXCEPT ![p] = [pc |-> "add", current |-> 0,
                                               next |-> last + 1, until |-> until]]
                /\ lastProcessed' = until
           ELSE End(p) /\ UNCHANGED lastProcessed
      /\ UNCHANGED <<head, interval, timers, start, skipTo, queueVars>>

\* Mutant: a single new block is not worth a poll.
ReadLastSkipsOne(p) ==
  LET last == LastOr(poll[p].current)
      behind == poll[p].current - last
      until == last + IF behind < BatchSize THEN behind ELSE BatchSize
  IN  /\ poll[p].pc = "read"
      /\ IF behind > 1
           THEN poll' = [poll EXCEPT ![p] = [pc |-> "add", current |-> 0,
                                             next |-> last + 1, until |-> until]]
           ELSE End(p)
      /\ UNCHANGED <<head, lastProcessed, interval, timers, start, skipTo, queueVars>>

\* Of the blocks between the last one processed and the head, BatchSize at most.
ReadLast(p) ==
  LET last == LastOr(poll[p].current)
      behind == poll[p].current - last
      until == last + IF behind < BatchSize THEN behind ELSE BatchSize
  IN  /\ poll[p].pc = "read"
      /\ IF behind > 0
           THEN poll' = [poll EXCEPT ![p] = [pc |-> "add", current |-> 0,
                                             next |-> last + 1, until |-> until]]
           ELSE End(p)
      /\ UNCHANGED <<head, lastProcessed, interval, timers, start, skipTo, queueVars>>

\* blockProcessorQueue.add, block after block; when one is rejected the rest is
\* left to a later poll.
AddBlock(p) ==
  LET b == poll[p].next IN
  /\ poll[p].pc = "add"
  /\ \/ /\ Answered
        /\ waiting' = Enqueued(b)
        /\ added' = [added EXCEPT ![b] = @ + 1]
        /\ poll' = [poll EXCEPT ![p].next = b + 1,
                                ![p].pc = IF b = poll[p].until THEN "set" ELSE "add"]
     \/ Rejected /\ End(p) /\ UNCHANGED <<waiting, added>>
  /\ UNCHANGED <<head, lastProcessed, interval, timers, start, skipTo, restarts>>

\* Set to the batch's last block, whatever another poll has stored meanwhile.
SetLast(p) ==
  /\ poll[p].pc = "set"
  /\ lastProcessed' = poll[p].until
  /\ End(p)
  /\ UNCHANGED <<head, interval, timers, start, skipTo, queueVars>>

StartStep(s) == TestConnectivity(s) \/ GetFirstBlock(s) \/ StartBlockProcessing(s)
PollStep(p) == GetLatestBlock(p) \/ ReadLast(p) \/ AddBlock(p) \/ SetLast(p)

PollingStep == \/ NewBlock
               \/ StopListening
               \/ \E s \in Starters : StartListening(s) \/ StartStep(s)
               \/ \E p \in Polls : Tick(p) \/ PollStep(p)

\* A crash forgets every map, timer and promise; onModuleInit starts over.
PollingRestart == /\ lastProcessed' = Null
                  /\ interval' = Null
                  /\ timers' = {}
                  /\ start' = [s \in Starters |->
                                 IF s = Boot THEN Booting[s]
                                 ELSE IF start[s].pc = "idle" THEN start[s]
                                 ELSE [pc |-> "done", latest |-> 0]]
                  /\ poll' = [p \in Polls |-> IdleExecution]
                  /\ UNCHANGED <<head, skipTo>>
=============================================================================
