-------------------------- MODULE BlockIndexer_proofs --------------------------
(***************************************************************************)
(* Theorems about BlockIndexer, for any chain length, batch size, number   *)
(* of attempts, failures, crashes, workers, overlapping polls and calls of *)
(* startListening.                                                         *)
(***************************************************************************)
EXTENDS BlockIndexer, SumTheorems

\* A poll that adds blocks stays within the chain.
InRange(q) == /\ q.current <= MaxHead
              /\ q.pc = "add" => q.next \in Blocks /\ q.next <= q.until
              /\ q.until <= MaxHead

TypeInv == /\ TypeOK
           /\ lastProcessed # Null => lastProcessed <= MaxHead
           /\ \A s \in Starters : start[s].latest <= MaxHead
           /\ \A p \in Polls : InRange(poll[p])

LEMMA BlocksType == /\ Blocks \subseteq Nat
                    /\ \A b \in Blocks : b \in Nat /\ b <= MaxHead
                    /\ \A n \in Nat : n > 0 /\ n <= MaxHead => n \in Blocks
BY HeadAssumption DEF Blocks

LEMMA InitTypeInv == Init => TypeInv
<1> SUFFICES ASSUME Init PROVE TypeInv
    OBVIOUS
<1> USE DEF Init, QueueInit, PollingInit, ProcessingInit
<1>1. QueueType
  BY AttemptsAssumption DEF QueueType
<1>2. PollingType
  BY InitialHeadAssumption DEF PollingType, Execution, IdleExecution, Call, Booting
<1>3. ProcessingType
  BY DEF ProcessingType
<1>4. \A s \in Starters : start[s].latest <= MaxHead
  BY HeadAssumption DEF Booting
<1>5. \A p \in Polls : InRange(poll[p])
  BY HeadAssumption DEF InRange, IdleExecution
<1> QED BY <1>1, <1>2, <1>3, <1>4, <1>5 DEF TypeInv, TypeOK

\* What a step of the listener's calls and polls must show, and no more.
LEMMA PollingUnchanged ==
  ASSUME TypeInv, UNCHANGED processingVars,
         QueueType', PollingType',
         (lastProcessed # Null => lastProcessed <= MaxHead)',
         (\A s \in Starters : start[s].latest <= MaxHead)',
         (\A p \in Polls : InRange(poll[p]))'
  PROVE  TypeInv'
BY DEF TypeInv, TypeOK, ProcessingType, processingVars

LEMMA EnqueuedType ==
  ASSUME QueueType, NEW b \in Blocks
  PROVE  Enqueued(b) \in [Blocks -> [0 .. Attempts - 1 -> Nat]]
BY AttemptsAssumption DEF QueueType, Enqueued

\* A step that changes polls, or calls, and the failure counter at most.
LEMMA PollsChange ==
  ASSUME TypeInv, UNCHANGED processingVars, QueueType',
         poll' \in [Polls -> Execution], \A q \in Polls : InRange(poll'[q]),
         UNCHANGED <<head, lastProcessed, interval, timers, start, skipTo>>
  PROVE  TypeInv'
<1>1. PollingType'
  BY DEF TypeInv, TypeOK, PollingType
<1>2. (\A p \in Polls : InRange(poll[p]))'
  BY DEF InRange
<1>3. (\A s \in Starters : start[s].latest <= MaxHead)'
  BY DEF TypeInv
<1> QED BY <1>1, <1>2, <1>3, PollingUnchanged DEF TypeInv

LEMMA CallsChange ==
  ASSUME TypeInv, UNCHANGED processingVars, QueueType',
         NEW s \in Starters, NEW c \in Call, c.latest <= MaxHead,
         start' = [start EXCEPT ![s] = c],
         UNCHANGED <<head, lastProcessed, interval, timers, poll, skipTo>>
  PROVE  TypeInv'
<1>1. start' \in [Starters -> Call] /\ \A t \in Starters : start'[t].latest <= MaxHead
  BY DEF TypeInv, TypeOK, PollingType
<1>2. PollingType'
  BY <1>1 DEF TypeInv, TypeOK, PollingType
<1>3. (\A p \in Polls : InRange(poll[p]))'
  BY DEF TypeInv, InRange
<1>4. (\A t \in Starters : start[t].latest <= MaxHead)'
  BY <1>1
<1> QED BY <1>2, <1>3, <1>4, PollingUnchanged DEF TypeInv

\* Calls that are answered or rejected leave the queue a queue.
LEMMA CallsKeepQueue ==
  ASSUME QueueType, UNCHANGED <<waiting, added, restarts>>, Answered \/ Rejected
  PROVE  QueueType'
<1>1. failures' \in Nat
  BY DEF QueueType, Answered, Rejected
<1> QED BY <1>1 DEF QueueType

LEMMA StartTypeInv ==
  ASSUME TypeInv, UNCHANGED processingVars, NEW s \in Starters,
         StartListening(s) \/ StartStep(s)
  PROVE  TypeInv'
<1>0. QueueType /\ start \in [Starters -> Call] /\ start[s].latest <= MaxHead
  BY DEF TypeInv, TypeOK, PollingType
<1> DEFINE done == [pc |-> "done", latest |-> 0]
<1>d. done \in Call /\ done.latest <= MaxHead
  BY HeadAssumption DEF Call
<1>1. CASE StartListening(s)
  <2> DEFINE c == IF interval # Null THEN done ELSE [start[s] EXCEPT !.pc = "connect"]
  <2>1. c \in Call /\ c.latest <= MaxHead
    BY <1>0, <1>d DEF Call
  <2>2. start' = [start EXCEPT ![s] = c]
    BY <1>1 DEF StartListening, Return
  <2>3. QueueType'
    BY <1>0, <1>1 DEF StartListening, QueueType, queueVars
  <2> HIDE DEF c
  <2> QED BY <1>1, <2>1, <2>2, <2>3, CallsChange DEF StartListening
<1>2. CASE TestConnectivity(s)
  <2>1. QueueType'
    BY <1>0, <1>2, CallsKeepQueue DEF TestConnectivity
  <2>2. PICK c \in Call : c.latest <= MaxHead /\ start' = [start EXCEPT ![s] = c]
    <3> DEFINE c == [start[s] EXCEPT !.pc = "latest"]
    <3>1. c \in Call /\ c.latest <= MaxHead
      BY <1>0 DEF Call
    <3>2. start' = [start EXCEPT ![s] = c] \/ start' = [start EXCEPT ![s] = done]
      BY <1>2 DEF TestConnectivity, Return
    <3> QED BY <1>d, <3>1, <3>2
  <2> QED BY <1>2, <2>1, <2>2, CallsChange DEF TestConnectivity
<1>3. CASE GetFirstBlock(s)
  <2>1. QueueType'
    BY <1>0, <1>3, CallsKeepQueue DEF GetFirstBlock
  <2>2. PICK c \in Call : c.latest <= MaxHead /\ start' = [start EXCEPT ![s] = c]
    <3>1. head \in Nat /\ head <= MaxHead
      BY BlocksType DEF TypeInv, TypeOK, PollingType
    <3>2. [pc |-> "begin", latest |-> head] \in Call
      BY <3>1 DEF Call
    <3> QED BY <1>3, <1>d, <3>1, <3>2 DEF GetFirstBlock, Return
  <2> QED BY <1>3, <2>1, <2>2, CallsChange DEF GetFirstBlock
<1>4. CASE StartBlockProcessing(s)
  <2>1. QueueType'
    BY <1>0, <1>4 DEF StartBlockProcessing, QueueType, queueVars
  <2>2. start' \in [Starters -> Call] /\ \A t \in Starters : start'[t].latest <= MaxHead
    BY <1>4, <1>d DEF StartBlockProcessing, Return, TypeInv, TypeOK, PollingType
  <2>3. start[s].latest \in Nat
    BY <1>0 DEF Call
  <2>4. PollingType'
    BY <1>4, <2>2, <2>3 DEF StartBlockProcessing, TypeInv, TypeOK, PollingType
  <2>5. (\A p \in Polls : InRange(poll[p]))'
    BY <1>4 DEF StartBlockProcessing, TypeInv, InRange
  <2>6. (lastProcessed # Null => lastProcessed <= MaxHead)'
    BY <1>0, <1>4 DEF StartBlockProcessing
  <2>7. (\A t \in Starters : start[t].latest <= MaxHead)'
    BY <2>2
  <2> QED BY <2>1, <2>4, <2>5, <2>6, <2>7, PollingUnchanged
<1> QED BY <1>1, <1>2, <1>3, <1>4 DEF StartStep

LEMMA PollTypeInv ==
  ASSUME TypeInv, UNCHANGED processingVars, NEW p \in Polls,
         Tick(p) \/ PollStep(p)
  PROVE  TypeInv'
<1> USE DEF TypeInv, TypeOK, PollingType, Execution
<1> DEFINE PollsKept == /\ poll' \in [Polls -> Execution]
                        /\ \A q \in Polls : InRange(poll'[q])
<1>1. ASSUME NEW e \in Execution, InRange(e), poll' = [poll EXCEPT ![p] = e]
      PROVE  PollsKept
  BY <1>1 DEF PollsKept
<1>2. End(p) => PollsKept
  <2>1. IdleExecution \in Execution /\ InRange(IdleExecution)
    BY HeadAssumption DEF IdleExecution, InRange
  <2> QED BY <1>1, <2>1 DEF End
<1>3. CASE Tick(p)
  <2> DEFINE e == [poll[p] EXCEPT !.pc = "latest"]
  <2>1. e \in Execution /\ InRange(e) /\ poll' = [poll EXCEPT ![p] = e]
    BY <1>3 DEF Tick, InRange
  <2>2. PollsKept
    BY <1>1, <2>1
  <2>3. QueueType'
    BY <1>3 DEF Tick, QueueType, queueVars
  <2> QED BY <1>3, <2>2, <2>3, PollsChange DEF Tick
<1>4. CASE GetLatestBlock(p)
  <2>q. QueueType'
    BY <1>4, CallsKeepQueue DEF GetLatestBlock
  <2>1. CASE End(p) /\ Rejected
    BY <1>4, <2>1, <1>2, <2>q, PollsChange DEF GetLatestBlock
  <2>2. CASE Answered /\ poll' = [poll EXCEPT ![p].pc = "read", ![p].current = head]
    <3> DEFINE e == [poll[p] EXCEPT !.pc = "read", !.current = head]
    <3>1. e \in Execution /\ InRange(e) /\ poll' = [poll EXCEPT ![p] = e]
      BY <2>2, BlocksType DEF InRange
    <3>2. PollsKept
      BY <1>1, <3>1
    <3> QED BY <1>4, <3>2, <2>q, PollsChange DEF GetLatestBlock
  <2> QED BY <1>4, <2>1, <2>2 DEF GetLatestBlock
<1>5. CASE ReadLast(p)
  <2> DEFINE last == LastOr(poll[p].current)
             behind == poll[p].current - last
             until == last + IF behind < BatchSize THEN behind ELSE BatchSize
             e == [pc |-> "add", current |-> 0, next |-> last + 1, until |-> until]
  <2>1. PollsKept
    <3>1. CASE behind > 0
      <4>1. poll[p].current \in Nat /\ poll[p].current <= MaxHead
        BY DEF InRange
      <4>2. last \in Nat /\ last < poll[p].current
        BY <3>1, <4>1, NullAssumption DEF LastOr
      <4>3. until \in Nat /\ until <= poll[p].current /\ last + 1 <= until
        BY <4>1, <4>2, BatchAssumption
      <4>4. last + 1 \in Blocks
        BY <4>1, <4>2, BlocksType, HeadAssumption
      <4>5. e \in Execution /\ InRange(e)
        BY <4>1, <4>2, <4>3, <4>4, HeadAssumption DEF InRange
      <4> QED BY <1>1, <1>5, <3>1, <4>5 DEF ReadLast
    <3> QED BY <1>2, <1>5, <3>1 DEF ReadLast
  <2>2. QueueType'
    BY <1>5 DEF ReadLast, QueueType, queueVars
  <2> QED BY <1>5, <2>1, <2>2, PollsChange DEF ReadLast
<1>6. CASE AddBlock(p)
  <2> DEFINE b == poll[p].next
  <2>1. b \in Blocks /\ b <= poll[p].until /\ poll[p].until <= MaxHead
    BY <1>6 DEF AddBlock, InRange
  <2>2. CASE Rejected /\ End(p) /\ UNCHANGED <<waiting, added>>
    <3>1. QueueType'
      BY <1>6, <2>2, CallsKeepQueue DEF AddBlock
    <3> QED BY <1>6, <2>2, <1>2, <3>1, PollsChange DEF AddBlock
  <2>3. CASE /\ Answered /\ waiting' = Enqueued(b)
             /\ added' = [added EXCEPT ![b] = @ + 1]
             /\ poll' = [poll EXCEPT ![p].next = b + 1,
                                     ![p].pc = IF b = poll[p].until THEN "set" ELSE "add"]
    <3> DEFINE e == [poll[p] EXCEPT !.next = b + 1,
                                    !.pc = IF b = poll[p].until THEN "set" ELSE "add"]
    <3>1. b \in Nat /\ poll[p].until \in Nat
      BY <2>1, BlocksType
    <3>2. b # poll[p].until => b + 1 \in Blocks /\ b + 1 <= poll[p].until
      BY <2>1, <3>1, BlocksType, HeadAssumption
    <3>3. e \in Execution /\ InRange(e)
      <4>1. poll[p] \in Execution /\ InRange(poll[p])
        OBVIOUS
      <4>2. e \in Execution
        <5>1. b + 1 \in Nat /\ (IF b = poll[p].until THEN "set" ELSE "add") \in {"add", "set"}
          BY <3>1
        <5>2. \A q \in Execution, n \in Nat, c \in {"add", "set"} :
                [q EXCEPT !.next = n, !.pc = c] \in Execution
          OBVIOUS
        <5> HIDE DEF Execution
        <5> QED BY <4>1, <5>1, <5>2
      <4>3. /\ e.current = poll[p].current /\ e.next = b + 1 /\ e.until = poll[p].until
            /\ e.pc = IF b = poll[p].until THEN "set" ELSE "add"
        BY <4>1
      <4> QED BY <3>2, <4>1, <4>2, <4>3 DEF InRange
    <3>6. poll' = [poll EXCEPT ![p] = e]
      BY <2>3
    <3>4. PollsKept
      BY <1>1, <3>3, <3>6
    <3>5. QueueType'
      BY <1>6, <2>1, <2>3, EnqueuedType DEF AddBlock, QueueType, Answered
    <3> QED BY <1>6, <3>4, <3>5, PollsChange DEF AddBlock
  <2> QED BY <1>6, <2>2, <2>3 DEF AddBlock
<1>7. CASE SetLast(p)
  <2>1. poll[p].until \in Nat /\ poll[p].until <= MaxHead
    BY DEF InRange
  <2> QED BY <1>2, <1>7, <2>1, PollingUnchanged DEF SetLast, QueueType, queueVars, InRange
<1> QED BY <1>3, <1>4, <1>5, <1>6, <1>7 DEF PollStep

LEMMA PollingTypeInv ==
  ASSUME TypeInv, UNCHANGED processingVars, PollingStep
  PROVE  TypeInv'
<1>1. CASE NewBlock
  <2>1. head' \in Blocks
    BY <1>1, HeadAssumption DEF NewBlock, TypeInv, TypeOK, PollingType, Blocks
  <2>2. QueueType'
    BY <1>1 DEF NewBlock, TypeInv, TypeOK, QueueType, queueVars
  <2>3. PollingType'
    BY <1>1, <2>1 DEF NewBlock, TypeInv, TypeOK, PollingType
  <2> QED BY <1>1, <2>2, <2>3, PollingUnchanged DEF NewBlock, TypeInv, InRange
<1>2. CASE StopListening
  <2>1. QueueType'
    BY <1>2 DEF StopListening, TypeInv, TypeOK, QueueType, queueVars
  <2>2. PollingType'
    BY <1>2 DEF StopListening, TypeInv, TypeOK, PollingType
  <2> QED BY <1>2, <2>1, <2>2, PollingUnchanged DEF StopListening, TypeInv, InRange
<1>3. CASE \E s \in Starters : StartListening(s) \/ StartStep(s)
  BY <1>3, StartTypeInv
<1>4. CASE \E p \in Polls : Tick(p) \/ PollStep(p)
  BY <1>4, PollTypeInv
<1> QED BY <1>1, <1>2, <1>3, <1>4 DEF PollingStep

-----------------------------------------------------------------------------
(* The worker *)

LEMMA RequeuedType ==
  ASSUME QueueType, NEW b \in Blocks, NEW n \in 0 .. Attempts - 1
  PROVE  Requeued(b, n) \in [Blocks -> [0 .. Attempts - 1 -> Nat]]
<1>1. waiting[b] \in [0 .. Attempts - 1 -> Nat]
  BY DEF QueueType
<1>2. waiting[b][n] + 1 \in Nat
  <2>1. waiting[b][n] \in Nat
    BY <1>1
  <2> QED BY <2>1
<1>3. [waiting[b] EXCEPT ![n] = @ + 1] \in [0 .. Attempts - 1 -> Nat]
  BY <1>1, <1>2
<1> QED BY <1>3 DEF QueueType, Requeued

LEMMA DequeuedType ==
  ASSUME QueueType, NEW b \in Blocks, NEW n \in 0 .. Attempts - 1, waiting[b][n] > 0
  PROVE  Dequeued(b, n) \in [Blocks -> [0 .. Attempts - 1 -> Nat]]
<1>1. waiting[b] \in [0 .. Attempts - 1 -> Nat]
  BY DEF QueueType
<1>2. waiting[b][n] - 1 \in Nat
  <2>1. waiting[b][n] \in Nat
    BY <1>1
  <2> QED BY <2>1
<1>3. [waiting[b] EXCEPT ![n] = @ - 1] \in [0 .. Attempts - 1 -> Nat]
  BY <1>1, <1>2
<1> QED BY <1>3 DEF QueueType, Dequeued

\* The worker's part of the invariant is all a processing step can disturb.
LEMMA ProcessingUnchanged ==
  ASSUME TypeInv, UNCHANGED pollingVars, QueueType', ProcessingType'
  PROVE  TypeInv'
<1>1. PollingType'
  BY DEF TypeInv, TypeOK, PollingType, pollingVars
<1>2. (\A p \in Polls : InRange(poll[p]))'
  BY DEF TypeInv, InRange, pollingVars
<1> QED BY <1>1, <1>2 DEF TypeInv, TypeOK, pollingVars

LEMMA ThrowType ==
  ASSUME QueueType, ProcessingType, NEW w \in Workers, worker[w] \in Job, Throw(w)
  PROVE  QueueType' /\ ProcessingType'
<1>1. worker[w].block \in Blocks /\ worker[w].attempt \in 0 .. Attempts - 1
  BY DEF Job
<1>2. waiting' \in [Blocks -> [0 .. Attempts - 1 -> Nat]]
  <2>1. CASE worker[w].attempt + 1 < Attempts
    <3>1. worker[w].attempt + 1 \in 0 .. Attempts - 1
      BY <1>1, <2>1, AttemptsAssumption
    <3> QED BY <1>1, <2>1, <3>1, RequeuedType DEF Throw
  <2>2. CASE ~(worker[w].attempt + 1 < Attempts)
    BY <2>2 DEF Throw, QueueType
  <2> QED BY <2>1, <2>2
<1>3. failures' \in Nat
  BY DEF Throw, Rejected, QueueType
<1>4. QueueType'
  BY <1>2, <1>3 DEF Throw, QueueType
<1>5. failed' \subseteq Blocks
  BY <1>1 DEF Throw, ProcessingType
<1>6. ProcessingType'
  BY <1>5 DEF Throw, ProcessingType
<1> QED BY <1>4, <1>6

LEMMA GotoType ==
  ASSUME NEW w \in Workers, worker \in [Workers -> Job \cup {NoJob}],
         NEW pc \in {"transfers", "publish", "block", "logs", "publishLogs", "finish"},
         NEW todo \in Seq(Events), NEW contracts \in Seq(Seq(Events)),
         NEW E \in SUBSET Events, worker[w] \in Job,
         Goto(w, pc, todo, contracts) \/ GotoWithout(w, E, pc, todo, contracts)
  PROVE  worker' \in [Workers -> Job \cup {NoJob}]
<1>1. PICK old \in Job : old = worker[w]
  OBVIOUS
<1>2. PICK q, r : /\ q = [old EXCEPT !.pc = pc, !.todo = todo, !.contracts = contracts]
                  /\ r = [old EXCEPT !.pc = pc, !.todo = todo, !.contracts = contracts,
                                     !.given = @ \cup E]
  OBVIOUS
<1>3. q \in Job /\ r \in Job
  BY <1>2 DEF Job
<1>4. worker' = [worker EXCEPT ![w] = q] \/ worker' = [worker EXCEPT ![w] = r]
  BY <1>1, <1>2 DEF Goto, GotoWithout
<1> QED BY <1>3, <1>4

LEMMA WorkerTypeInv ==
  ASSUME TypeInv, UNCHANGED pollingVars, NEW w \in Workers, WorkerStep(w)
  PROVE  TypeInv'
<1>0. QueueType /\ ProcessingType
  BY DEF TypeInv, TypeOK
<1>i. \A pc : worker[w].pc = pc /\ pc # "idle" => worker[w] \in Job
  BY <1>0 DEF ProcessingType, NoJob
<1>e. <<>> \in Seq(Events) /\ <<>> \in Seq(Seq(Events))
  OBVIOUS
<1>t. worker \in [Workers -> Job \cup {NoJob}]
  BY <1>0 DEF ProcessingType
<1>1. CASE TakeJob(w)
  <2>1. PICK b \in Blocks, n \in 0 .. Attempts - 1 :
          /\ waiting[b][n] > 0
          /\ waiting' = Dequeued(b, n)
          /\ worker' = [worker EXCEPT ![w] =
                          [pc |-> "transfers", block |-> b, attempt |-> n,
                           todo |-> <<>>, contracts |-> <<>>, given |-> {}]]
    BY <1>1 DEF TakeJob
  <2>2. QueueType'
    BY <1>0, <1>1, <2>1, DequeuedType DEF TakeJob, QueueType
  <2>3. worker' \in [Workers -> Job \cup {NoJob}]
    <3>1. [pc |-> "transfers", block |-> b, attempt |-> n, todo |-> <<>>, contracts |-> <<>>, given |-> {}] \in Job
      BY <1>e DEF Job
    <3> QED BY <1>t, <2>1, <3>1
  <2>4. ProcessingType'
    BY <1>0, <1>1, <2>3 DEF TakeJob, ProcessingType
  <2> QED BY <2>2, <2>4, ProcessingUnchanged
<1>2. CASE GetEthTransfers(w)
  <2>1. worker[w] \in Job
    BY <1>2, <1>i DEF GetEthTransfers
  <2>2. CASE Throw(w)
    BY <1>0, <2>1, <2>2, ThrowType, ProcessingUnchanged
  <2>3. CASE /\ Answered
             /\ \/ Goto(w, "publish", Transfers[worker[w].block], <<>>)
                \/ GotoWithout(w, Elements(Transfers[worker[w].block]), "publish", <<>>, <<>>)
             /\ UNCHANGED <<completed, failed, offers, skipped, waiting, added, restarts>>
    <3>1. worker' \in [Workers -> Job \cup {NoJob}]
      <4>1. Transfers[worker[w].block] \in Seq(Events)
        BY <2>1, EventsAssumption DEF Job
      <4>2. Elements(Transfers[worker[w].block]) \subseteq Events
        BY <4>1 DEF Elements
      <4> QED BY <1>e, <1>t, <2>1, <2>3, <4>1, <4>2, GotoType
    <3>2. QueueType' /\ ProcessingType'
      BY <1>0, <2>3, <3>1 DEF Answered, QueueType, ProcessingType
    <3> QED BY <3>2, ProcessingUnchanged
  <2> QED BY <1>2, <2>2, <2>3 DEF GetEthTransfers
<1>3. ASSUME NEW pc \in {"publish", "publishLogs"}, NEW after \in {"block", "logs"},
             Publish(w, pc, after)
      PROVE  TypeInv'
  <2>1. worker[w] \in Job /\ worker[w].todo \in Seq(Events) /\ worker[w].contracts \in Seq(Seq(Events))
    BY <1>3, <1>i DEF Publish, Job
  <2>2. worker' \in [Workers -> Job \cup {NoJob}]
    <3>0. /\ {} \in SUBSET Events
          /\ pc \in {"transfers", "publish", "block", "logs", "publishLogs", "finish"}
          /\ after \in {"transfers", "publish", "block", "logs", "publishLogs", "finish"}
      BY <1>3
    <3>1. CASE worker[w].todo = <<>>
      <4>1. Goto(w, after, <<>>, worker[w].contracts)
        BY <1>3, <3>1 DEF Publish
      <4> QED BY <1>e, <1>t, <2>1, <3>0, <4>1, GotoType
    <3>2. CASE worker[w].todo # <<>>
      <4>1. Tail(worker[w].todo) \in Seq(Events)
        BY <2>1, <3>2
      <4>2. Goto(w, pc, Tail(worker[w].todo), worker[w].contracts)
        BY <1>3, <3>2 DEF Publish
      <4> QED BY <1>t, <2>1, <3>0, <4>1, <4>2, GotoType
    <3> QED BY <3>1, <3>2
  <2>3. offers' \in [Events -> Nat]
    BY <1>0, <1>3 DEF Publish, ProcessingType
  <2>4. QueueType' /\ ProcessingType'
    BY <1>0, <1>3, <2>2, <2>3 DEF Publish, QueueType, ProcessingType, queueVars
  <2> QED BY <2>4, ProcessingUnchanged
<1>4. CASE GetBlock(w)
  <2>1. worker[w] \in Job
    BY <1>4, <1>i DEF GetBlock
  <2>2. CASE Throw(w)
    BY <1>0, <2>1, <2>2, ThrowType, ProcessingUnchanged
  <2>3. CASE /\ Answered
             /\ \/ Goto(w, "logs", <<>>, Logs[worker[w].block])
                \/ GotoWithout(w, UNION {Elements(l) : l \in Elements(Logs[worker[w].block])},
                               "logs", <<>>, <<>>)
             /\ UNCHANGED <<completed, failed, offers, skipped, waiting, added, restarts>>
    <3>1. worker' \in [Workers -> Job \cup {NoJob}]
      <4>1. Logs[worker[w].block] \in Seq(Seq(Events))
        BY <2>1, EventsAssumption DEF Job
      <4>2. \A l \in Elements(Logs[worker[w].block]) : l \in Seq(Events)
        BY <4>1 DEF Elements
      <4>3. \A l \in Seq(Events) : Elements(l) \subseteq Events
        BY DEF Elements
      <4>4. UNION {Elements(l) : l \in Elements(Logs[worker[w].block])} \subseteq Events
        BY <4>2, <4>3
      <4> QED BY <1>e, <1>t, <2>1, <2>3, <4>1, <4>4, GotoType
    <3>2. QueueType' /\ ProcessingType'
      BY <1>0, <2>3, <3>1 DEF Answered, QueueType, ProcessingType
    <3> QED BY <3>2, ProcessingUnchanged
  <2> QED BY <1>4, <2>2, <2>3 DEF GetBlock
<1>5. CASE GetContractEvents(w)
  <2>1. worker[w] \in Job /\ worker[w].contracts \in Seq(Seq(Events))
    BY <1>5, <1>i DEF GetContractEvents, Job
  <2>2. worker' \in [Workers -> Job \cup {NoJob}] /\ failures' \in Nat
    <3>1. CASE worker[w].contracts = <<>>
      <4>1. worker' \in [Workers -> Job \cup {NoJob}]
        BY <1>5, <1>e, <1>t, <2>1, <3>1, GotoType DEF GetContractEvents
      <4> QED BY <1>0, <1>5, <3>1, <4>1 DEF GetContractEvents, QueueType, ProcessingType
    <3>2. CASE worker[w].contracts # <<>>
      <4>1. Head(worker[w].contracts) \in Seq(Events) /\ Tail(worker[w].contracts) \in Seq(Seq(Events))
        BY <2>1, <3>2
      <4>2. Elements(Head(worker[w].contracts)) \subseteq Events
        BY <4>1 DEF Elements
      <4>3. \/ Answered /\ Goto(w, "publishLogs", Head(worker[w].contracts), Tail(worker[w].contracts))
            \/ /\ Rejected
               /\ GotoWithout(w, Elements(Head(worker[w].contracts)), "logs", <<>>,
                              Tail(worker[w].contracts))
        BY <1>5, <3>2 DEF GetContractEvents
      <4>4. worker' \in [Workers -> Job \cup {NoJob}]
        BY <1>e, <1>t, <2>1, <4>1, <4>2, <4>3, GotoType
      <4>5. failures' \in Nat
        BY <1>0, <4>3 DEF Answered, Rejected, QueueType
      <4> QED BY <4>4, <4>5
    <3> QED BY <3>1, <3>2
  <2>3. QueueType' /\ ProcessingType'
    BY <1>0, <1>5, <2>2 DEF GetContractEvents, QueueType, ProcessingType
  <2> QED BY <2>3, ProcessingUnchanged
<1>6. CASE Finish(w)
  <2>1. worker[w] \in Job
    BY <1>6, <1>i DEF Finish
  <2>2. CASE Throw(w)
    BY <1>0, <2>1, <2>2, ThrowType, ProcessingUnchanged
  <2>3. CASE ~Throw(w)
    <3>1. completed' \subseteq Blocks /\ skipped' \subseteq Events
      BY <1>0, <1>6, <2>1, <2>3 DEF Finish, ProcessingType, Job
    <3>2. QueueType' /\ ProcessingType'
      BY <1>0, <1>6, <2>3, <3>1 DEF Finish, Answered, QueueType, ProcessingType
    <3> QED BY <3>2, ProcessingUnchanged
  <2> QED BY <2>2, <2>3
<1> QED BY <1>1, <1>2, <1>3, <1>4, <1>5, <1>6
        DEF WorkerStep, PublishTransfers, PublishLogs

LEMMA ProcessingTypeInv ==
  ASSUME TypeInv, UNCHANGED pollingVars, ProcessingStep
  PROVE  TypeInv'
BY WorkerTypeInv DEF ProcessingStep

LEMMA RestartTypeInv ==
  ASSUME TypeInv, Restart
  PROVE  TypeInv'
<1>0. QueueType /\ PollingType /\ ProcessingType
  BY DEF TypeInv, TypeOK
<1>1. QueueType'
  <2>1. waiting' \in [Blocks -> [0 .. Attempts - 1 -> Nat]]
    <3>1. ASSUME NEW b \in Blocks, NEW n \in 0 .. Attempts - 1
          PROVE  waiting[b][n] + Cardinality(InProgress(b, n)) \in Nat
      <4>1. Cardinality(InProgress(b, n)) \in Nat
        BY WorkersAssumption, FS_Subset, FS_CardinalityType DEF InProgress
      <4>2. waiting[b][n] \in Nat
        BY <1>0 DEF QueueType
      <4> QED BY <4>1, <4>2
    <3> QED BY <3>1 DEF Restart, ProcessingRestart
  <2> QED BY <1>0, <2>1 DEF Restart, QueueType
<1>2. \A s \in Starters : start'[s] \in Call /\ start'[s].latest <= MaxHead
  BY <1>0, HeadAssumption DEF TypeInv, Restart, PollingRestart, PollingType, Booting, Call
<1>3. poll' \in [Polls -> Execution] /\ \A p \in Polls : InRange(poll'[p])
  BY HeadAssumption DEF Restart, PollingRestart, IdleExecution, Execution, InRange
<1>4. start' \in [Starters -> Call]
  BY <1>2 DEF Restart, PollingRestart
<1>5. PollingType'
  BY <1>0, <1>3, <1>4 DEF Restart, PollingRestart, PollingType
<1>6. ProcessingType'
  BY <1>0 DEF Restart, ProcessingRestart, ProcessingType
<1>7. (\A p \in Polls : InRange(poll[p]))' /\ (\A s \in Starters : start[s].latest <= MaxHead)'
  BY <1>2, <1>3 DEF InRange
<1>8. lastProcessed' = Null
  BY DEF Restart, PollingRestart
<1> QED BY <1>1, <1>5, <1>6, <1>7, <1>8 DEF TypeInv, TypeOK

LEMMA StutterTypeInv ==
  ASSUME TypeInv, UNCHANGED vars
  PROVE  TypeInv'
BY DEF TypeInv, TypeOK, QueueType, PollingType, ProcessingType, InRange,
       vars, queueVars, pollingVars, processingVars

LEMMA TypeInvariant == Spec => []TypeInv
<1>1. TypeInv /\ [Next]_vars => TypeInv'
  BY PollingTypeInv, ProcessingTypeInv, RestartTypeInv, StutterTypeInv DEF Next
<1> QED BY <1>1, InitTypeInv, PTL DEF Spec

\* Type correctness of BlockIndexer: queue, listener and worker keep their types
\* through overlapping polls, rejected calls, retries and crashes.
THEOREM IndexerTypeCorrect == Spec => []TypeOK
<1>1. TypeInv => TypeOK
  BY DEF TypeInv
<1> QED BY <1>1, TypeInvariant, PTL

-----------------------------------------------------------------------------
(* No gap below the last processed block *)

\* Every block above the starting points, up to n, has been queued.
Covered(n) == \A b \in Blocks : skipTo < b /\ b <= n => added[b] > 0

\* What a poll has queued, and so may count as processed.
PollCovers(q) == /\ q.pc = "add" => Covered(q.next - 1)
                 /\ q.pc = "set" => Covered(q.until)

CoverInv == /\ lastProcessed # Null => Covered(lastProcessed)
            /\ \A p \in Polls : PollCovers(poll[p])

\* Blocks stay queued and starting points only rise, so what is covered stays so.
LEMMA CoveredStays ==
  ASSUME TypeInv, skipTo' \in Nat, skipTo' >= skipTo,
         \A b \in Blocks : added'[b] >= added[b], added' \in [Blocks -> Nat],
         NEW n \in Int, Covered(n)
  PROVE  Covered(n)'
<1>1. skipTo \in Nat /\ added \in [Blocks -> Nat]
  BY DEF TypeInv, TypeOK, PollingType, QueueType
<1> QED BY <1>1, BlocksType DEF Covered

LEMMA CoveredKept ==
  ASSUME TypeInv, UNCHANGED <<skipTo, added>>
  PROVE  \A n \in Int : Covered(n) => Covered(n)'
BY DEF Covered

\* A step of the listener other than AddBlock: what it may count as processed
\* was covered before.
LEMMA PollCoverInv ==
  ASSUME TypeInv, TypeInv', CoverInv, NEW p \in Polls, Tick(p) \/ PollStep(p)
  PROVE  CoverInv'
<1>0. /\ poll \in [Polls -> Execution] /\ skipTo \in Nat /\ added \in [Blocks -> Nat]
      /\ lastProcessed \in Nat \cup {Null}
  BY DEF TypeInv, TypeOK, PollingType, QueueType
<1>i. \A q \in Polls : poll[q].next \in Nat /\ poll[q].until \in Nat
  BY <1>0 DEF Execution
<1>e. PollCovers(IdleExecution)
  BY DEF PollCovers, IdleExecution
<1>k. ASSUME UNCHANGED <<skipTo, added, lastProcessed>>, NEW e \in Execution,
             poll' = [poll EXCEPT ![p] = e], PollCovers(e)
      PROVE  CoverInv'
  BY <1>k, <1>0 DEF CoverInv, PollCovers, Covered
<1>w. IdleExecution \in Execution
  BY DEF IdleExecution, Execution
<1>1. CASE Tick(p)
  <2> DEFINE e == [poll[p] EXCEPT !.pc = "latest"]
  <2>1. e \in Execution /\ PollCovers(e)
    BY <1>0 DEF Execution, PollCovers
  <2> QED BY <1>1, <1>k, <2>1 DEF Tick, queueVars
<1>2. CASE GetLatestBlock(p)
  <2>1. CASE End(p)
    BY <1>2, <2>1, <1>k, <1>e, <1>w DEF GetLatestBlock, End
  <2>2. CASE poll' = [poll EXCEPT ![p].pc = "read", ![p].current = head]
    <3> DEFINE e == [poll[p] EXCEPT !.pc = "read", !.current = head]
    <3>1. e \in Execution /\ PollCovers(e)
      BY <1>0, BlocksType DEF Execution, PollCovers, TypeInv, TypeOK, PollingType
    <3> QED BY <1>2, <2>2, <1>k, <3>1 DEF GetLatestBlock
  <2> QED BY <1>2, <2>1, <2>2 DEF GetLatestBlock
<1>3. CASE ReadLast(p)
  <2> DEFINE last == LastOr(poll[p].current)
             behind == poll[p].current - last
             until == last + IF behind < BatchSize THEN behind ELSE BatchSize
             e == [pc |-> "add", current |-> 0, next |-> last + 1, until |-> until]
  <2>1. CASE behind > 0
    <3>1. poll[p].current \in Nat
      BY <1>0 DEF Execution
    <3>2. lastProcessed # Null /\ last = lastProcessed /\ last \in Nat
      BY <1>0, <2>1, <3>1 DEF LastOr
    <3>3. poll' = [poll EXCEPT ![p] = e]
      BY <1>3, <2>1 DEF ReadLast
    <3>4. e \in Execution
      BY <2>1, <3>1, <3>2, BatchAssumption DEF Execution
    <3>5. PollCovers(e)
      <4>1. e.next - 1 = lastProcessed
        BY <3>2
      <4> QED BY <3>2, <4>1 DEF CoverInv, PollCovers
    <3> HIDE DEF e
    <3> QED BY <1>3, <1>k, <3>3, <3>4, <3>5 DEF ReadLast, queueVars
  <2>2. CASE ~(behind > 0)
    BY <1>3, <1>k, <1>e, <1>w, <2>2 DEF ReadLast, End, queueVars
  <2> QED BY <2>1, <2>2
<1>4. CASE AddBlock(p)
  <2> DEFINE b == poll[p].next
  <2>1. CASE End(p) /\ UNCHANGED <<waiting, added>>
    BY <1>4, <2>1, <1>k, <1>e, <1>w DEF AddBlock, End
  <2>2. CASE /\ added' = [added EXCEPT ![b] = @ + 1]
             /\ poll' = [poll EXCEPT ![p].next = b + 1,
                                     ![p].pc = IF b = poll[p].until THEN "set" ELSE "add"]
    <3>0. PICK n \in Blocks : n = b
      BY <1>4 DEF AddBlock, TypeInv, InRange
    <3>1. n \in Nat /\ n - 1 \in Int /\ Covered(n - 1)
      BY <1>4, <3>0, BlocksType DEF AddBlock, CoverInv, PollCovers
    <3>2. \A c \in Blocks : added'[c] >= added[c]
      BY <1>0, <2>2, <3>0
    <3>3. \A m \in Int : Covered(m) => Covered(m)'
      <4>1. added' \in [Blocks -> Nat] /\ skipTo' = skipTo
        BY <1>4 DEF TypeInv, TypeOK, QueueType, AddBlock
      <4> QED BY <1>0, <3>2, <4>1, CoveredStays
    <3>4. Covered(n)'
      <4>1. added'[n] > 0
        BY <1>0, <2>2, <3>0
      <4>2. Covered(n - 1)'
        BY <3>1, <3>3
      <4> QED BY <3>1, <4>1, <4>2, BlocksType DEF Covered
    <3>5. PollCovers(poll[p])'
      <4>1. poll'[p].next = n + 1 /\ poll'[p].until = poll[p].until
        BY <1>0, <2>2, <3>0 DEF Execution
      <4>2. poll'[p].pc = IF n = poll[p].until THEN "set" ELSE "add"
        BY <1>0, <2>2, <3>0 DEF Execution
      <4>3. /\ poll'[p].next - 1 = n
            /\ poll'[p].pc = "set" => poll'[p].until = n
        BY <3>1, <4>1, <4>2
      <4> QED BY <3>4, <4>3 DEF PollCovers, Covered
    <3>6. \A q \in Polls : q # p => PollCovers(poll[q])'
      <4> SUFFICES ASSUME NEW q \in Polls, q # p PROVE PollCovers(poll[q])'
          OBVIOUS
      <4>1. poll'[q] = poll[q] /\ poll[q].next - 1 \in Int /\ poll[q].until \in Int
        BY <1>0, <1>i, <2>2
      <4> QED BY <3>3, <4>1 DEF CoverInv, PollCovers
    <3>7. (lastProcessed # Null => Covered(lastProcessed))'
      <4>1. lastProcessed' = lastProcessed
        BY <1>4 DEF AddBlock
      <4>2. lastProcessed # Null => lastProcessed \in Int
        BY <1>0
      <4> QED BY <3>3, <4>1, <4>2 DEF CoverInv
    <3> QED BY <3>5, <3>6, <3>7 DEF CoverInv
  <2> QED BY <1>4, <2>1, <2>2 DEF AddBlock
<1>5. CASE SetLast(p)
  <2>1. Covered(poll[p].until) /\ lastProcessed' = poll[p].until
    BY <1>5 DEF SetLast, CoverInv, PollCovers
  <2>2. (\A q \in Polls : PollCovers(poll[q]))'
    BY <1>0, <1>5, <1>e DEF SetLast, End, CoverInv, PollCovers, Covered, queueVars
  <2> QED BY <1>5, <2>1, <2>2 DEF SetLast, CoverInv, Covered, queueVars
<1> QED BY <1>1, <1>2, <1>3, <1>4, <1>5 DEF PollStep

LEMMA CoverStep ==
  ASSUME TypeInv, TypeInv', CoverInv, [Next]_vars
  PROVE  CoverInv'
<1>0. /\ poll \in [Polls -> Execution] /\ skipTo \in Nat /\ added \in [Blocks -> Nat]
      /\ lastProcessed \in Nat \cup {Null}
  BY DEF TypeInv, TypeOK, PollingType, QueueType
<1>k. UNCHANGED <<skipTo, added, lastProcessed, poll>> => CoverInv'
  BY DEF CoverInv, PollCovers, Covered
<1>1. CASE \E p \in Polls : Tick(p) \/ PollStep(p)
  BY <1>1, PollCoverInv
<1>2. CASE NewBlock \/ StopListening
  BY <1>2, <1>k DEF NewBlock, StopListening, queueVars
<1>3. CASE \E s \in Starters : StartListening(s) \/ StartStep(s)
  <2> PICK s \in Starters : StartListening(s) \/ StartStep(s)
      BY <1>3
  <2>1. CASE StartListening(s) \/ TestConnectivity(s) \/ GetFirstBlock(s)
    BY <2>1, <1>k DEF StartListening, TestConnectivity, GetFirstBlock, queueVars
  <2>2. CASE StartBlockProcessing(s)
    <3>1. start[s].latest \in Nat
      BY DEF TypeInv, TypeOK, PollingType, Call
    <3>2. skipTo' \in Nat /\ skipTo' >= skipTo /\ skipTo' >= start[s].latest
      BY <1>0, <2>2, <3>1 DEF StartBlockProcessing
    <3>3. added' = added /\ poll' = poll /\ lastProcessed' = start[s].latest
      BY <2>2 DEF StartBlockProcessing, queueVars
    <3>4. Covered(lastProcessed)'
      BY <3>1, <3>2, <3>3, BlocksType DEF Covered
    <3>5. \A n \in Int : Covered(n) => Covered(n)'
      BY <1>0, <3>2, <3>3, CoveredStays
    <3>6. (\A q \in Polls : PollCovers(poll[q]))'
      <4> SUFFICES ASSUME NEW q \in Polls PROVE PollCovers(poll[q])'
          OBVIOUS
      <4>1. poll[q].next - 1 \in Int /\ poll[q].until \in Int
        BY <1>0 DEF Execution
      <4> QED BY <3>3, <3>5, <4>1 DEF CoverInv, PollCovers
    <3> QED BY <3>4, <3>6 DEF CoverInv
  <2> QED BY <2>1, <2>2 DEF StartStep
<1>4. CASE ProcessingStep /\ UNCHANGED pollingVars
  <2>1. UNCHANGED added
    BY <1>4 DEF ProcessingStep, WorkerStep, TakeJob, GetEthTransfers, PublishTransfers, PublishLogs,
                Publish, GetBlock, GetContractEvents, Finish, Throw, queueVars
  <2> QED BY <1>4, <2>1, <1>k DEF pollingVars
<1>5. CASE Restart
  BY <1>5 DEF Restart, PollingRestart, CoverInv, PollCovers, IdleExecution
<1>6. CASE UNCHANGED vars
  BY <1>6, <1>k DEF vars, pollingVars, queueVars
<1> QED BY <1>1, <1>2, <1>3, <1>4, <1>5, <1>6 DEF Next, PollingStep

\* No block is left out: however polls overlap, fail halfway or set the last
\* processed block back, and however often listening stops, starts or crashes,
\* every block above the starting points that counts as processed was queued.
THEOREM NoBlockSkipped == Spec => []NoGap
<1>1. Init => CoverInv
  BY DEF Init, PollingInit, CoverInv, PollCovers, IdleExecution
<1>2. TypeInv /\ TypeInv' /\ CoverInv /\ [Next]_vars => CoverInv'
  BY CoverStep
<1>3. CoverInv => NoGap
  BY DEF CoverInv, NoGap, Covered
<1> QED BY <1>1, <1>2, <1>3, TypeInvariant, PTL DEF Spec
-----------------------------------------------------------------------------
(* What a job still has to offer *)

Listed(transfers, logs) == Elements(transfers) \cup UNION {Elements(l) : l \in Elements(logs)}

\* The events in hand and the contracts still to be asked for, and all they stand for.
InHand(q) == IF q.pc = "transfers" THEN Transfers[q.block] ELSE q.todo
Pending(q) == IF q.pc \in {"transfers", "publish", "block"} THEN Logs[q.block] ELSE q.contracts
Ahead(q) == Listed(InHand(q), Pending(q))

\* A job has each event ahead of it once, all of its block, and none at the end.
WorkFine(q) ==
  /\ EachOnce(InHand(q), Pending(q))
  /\ Ahead(q) \subseteq EventsOf(q.block)
  /\ q.pc \in {"block", "logs", "finish"} => q.todo = <<>>
  /\ q.pc = "finish" => q.contracts = <<>>
WorkersFine == \A w \in Workers : worker[w] # NoJob => WorkFine(worker[w])

LEMMA EventsListed == \A b \in Blocks : EventsOf(b) = Listed(Transfers[b], Logs[b])
BY DEF EventsOf, Listed

LEMMA EventsKnown ==
  \A b \in Blocks : /\ EventsOf(b) \subseteq Events
                    /\ Transfers[b] \in Seq(Events) /\ Logs[b] \in Seq(Seq(Events))
                    /\ EachOnce(Transfers[b], Logs[b])
BY EventsAssumption DEF Events

LEMMA FirstAndRest ==
  ASSUME NEW S, NEW s \in Seq(S), s # <<>>
  PROVE  /\ Len(s) \in Nat \ {0} /\ s[1] = Head(s) /\ Head(s) \in S /\ Tail(s) \in Seq(S)
         /\ Len(Tail(s)) = Len(s) - 1
         /\ \A n \in 1 .. Len(Tail(s)) : n + 1 \in 1 .. Len(s) /\ Tail(s)[n] = s[n + 1]
         /\ \A n \in 1 .. Len(s) : n = 1 \/ (n - 1 \in 1 .. Len(Tail(s)) /\ s[n] = Tail(s)[n - 1])
OBVIOUS

LEMMA ElementsOfRest ==
  ASSUME NEW S, NEW s \in Seq(S), s # <<>>
  PROVE  /\ Elements(s) = {Head(s)} \cup Elements(Tail(s))
         /\ (\A m, n \in 1 .. Len(s) : s[m] = s[n] => m = n) => Head(s) \notin Elements(Tail(s))
<1>1. /\ Len(s) \in Nat \ {0} /\ s[1] = Head(s)
      /\ \A n \in 1 .. Len(Tail(s)) : n + 1 \in 1 .. Len(s) /\ Tail(s)[n] = s[n + 1]
      /\ \A n \in 1 .. Len(s) : n = 1 \/ (n - 1 \in 1 .. Len(Tail(s)) /\ s[n] = Tail(s)[n - 1])
  BY FirstAndRest
<1>2. PICK t : t = Tail(s)
  OBVIOUS
<1>3. Len(t) \in Nat
  BY <1>2, FirstAndRest
<1>4. Elements(s) = {Head(s)} \cup Elements(t)
  <2>1. 1 \in 1 .. Len(s)
    BY <1>1
  <2>2. Head(s) \in Elements(s)
    BY <1>1, <2>1 DEF Elements
  <2>3. ASSUME NEW x \in Elements(t) PROVE x \in Elements(s)
    <3>1. PICK n \in 1 .. Len(t) : x = t[n]
      BY <2>3 DEF Elements
    <3> QED BY <1>1, <1>2, <3>1 DEF Elements
  <2>4. ASSUME NEW x \in Elements(s), x # Head(s) PROVE x \in Elements(t)
    <3>1. PICK n \in 1 .. Len(s) : x = s[n]
      BY <2>4 DEF Elements
    <3>2. n - 1 \in 1 .. Len(t) /\ x = t[n - 1]
      BY <1>1, <1>2, <2>4, <3>1
    <3> QED BY <3>2 DEF Elements
  <2> QED BY <2>2, <2>3, <2>4
<1>5. ASSUME \A m, n \in 1 .. Len(s) : s[m] = s[n] => m = n PROVE Head(s) \notin Elements(t)
  <2> SUFFICES ASSUME NEW n \in 1 .. Len(t), Head(s) = t[n] PROVE FALSE
    BY DEF Elements
  <2>1. n + 1 \in 1 .. Len(s) /\ s[n + 1] = s[1] /\ 1 \in 1 .. Len(s)
    BY <1>1, <1>2
  <2>2. n + 1 = 1
    BY <1>5, <2>1
  <2> QED BY <1>3, <2>2
<1> QED BY <1>2, <1>4, <1>5

\* Offering the first of the events in hand leaves all the others.
LEMMA NextInHand ==
  ASSUME NEW t \in Seq(Events), NEW ls \in Seq(Seq(Events)), t # <<>>, EachOnce(t, ls)
  PROVE  /\ Head(t) \in Events /\ Tail(t) \in Seq(Events) /\ EachOnce(Tail(t), ls)
         /\ Head(t) \in Listed(t, ls) /\ Listed(Tail(t), ls) = Listed(t, ls) \ {Head(t)}
<1>1. PICK r : r = Tail(t)
  OBVIOUS
<1>2. /\ Len(t) \in Nat /\ Len(r) \in Nat /\ Head(t) \in Events /\ r \in Seq(Events)
      /\ \A n \in 1 .. Len(r) : n + 1 \in 1 .. Len(t) /\ r[n] = t[n + 1]
  BY <1>1, FirstAndRest
<1>3. Elements(t) = {Head(t)} \cup Elements(r) /\ Head(t) \notin Elements(r)
  BY <1>1, ElementsOfRest DEF EachOnce
<1>4. \A m, n \in 1 .. Len(r) : r[m] = r[n] => m = n
  <2> SUFFICES ASSUME NEW m \in 1 .. Len(r), NEW n \in 1 .. Len(r), r[m] = r[n] PROVE m = n
    OBVIOUS
  <2>1. m + 1 \in 1 .. Len(t) /\ n + 1 \in 1 .. Len(t) /\ t[m + 1] = t[n + 1]
    BY <1>2
  <2>2. m + 1 = n + 1
    BY <2>1 DEF EachOnce
  <2> QED BY <1>2, <2>2
<1>5. EachOnce(r, ls)
  BY <1>3, <1>4 DEF EachOnce
<1>6. ASSUME NEW l \in Elements(ls) PROVE Head(t) \notin Elements(l)
  <2>1. PICK i \in 1 .. Len(ls) : l = ls[i]
    BY DEF Elements
  <2> QED BY <1>3, <2>1 DEF EachOnce
<1> QED BY <1>1, <1>2, <1>3, <1>5, <1>6 DEF Listed

\* Giving up all that is in hand leaves the logs of the contracts.
LEMMA WithoutInHand ==
  ASSUME NEW t, NEW ls, EachOnce(t, ls)
  PROVE  /\ EachOnce(<<>>, ls) /\ Elements(t) \subseteq Listed(t, ls)
         /\ Listed(<<>>, ls) = Listed(t, ls) \ Elements(t)
<1>1. Elements(<<>>) = {}
  BY DEF Elements
<1>2. EachOnce(<<>>, ls)
  <2>1. \A m, n \in 1 .. Len(<<>>) : <<>>[m] = <<>>[n] => m = n
    OBVIOUS
  <2>2. \A i \in 1 .. Len(ls) : Elements(<<>>) \cap Elements(ls[i]) = {}
    BY <1>1
  <2> QED BY <2>1, <2>2 DEF EachOnce
<1>3. ASSUME NEW l \in Elements(ls) PROVE Elements(t) \cap Elements(l) = {}
  <2>1. PICK i \in 1 .. Len(ls) : l = ls[i]
    BY DEF Elements
  <2> QED BY <2>1 DEF EachOnce
<1> QED BY <1>1, <1>2, <1>3 DEF Listed

\* The logs of the next contract come in hand, or are given up with it.
LEMMA NextPending ==
  ASSUME NEW ls \in Seq(Seq(Events)), ls # <<>>, EachOnce(<<>>, ls)
  PROVE  /\ Head(ls) \in Seq(Events) /\ Tail(ls) \in Seq(Seq(Events))
         /\ EachOnce(Head(ls), Tail(ls)) /\ Listed(Head(ls), Tail(ls)) = Listed(<<>>, ls)
         /\ EachOnce(<<>>, Tail(ls))
         /\ Listed(<<>>, Tail(ls)) = Listed(<<>>, ls) \ Elements(Head(ls))
<1>1. PICK r, h : r = Tail(ls) /\ h = Head(ls)
  OBVIOUS
<1>2. /\ Len(ls) \in Nat \ {0} /\ Len(r) \in Nat /\ h \in Seq(Events) /\ r \in Seq(Seq(Events))
      /\ \A n \in 1 .. Len(r) : n + 1 \in 1 .. Len(ls) /\ r[n] = ls[n + 1]
      /\ ls[1] = h
  BY <1>1, FirstAndRest
<1>3. Elements(ls) = {h} \cup Elements(r)
  BY <1>1, ElementsOfRest
<1>4. Elements(<<>>) = {}
  BY DEF Elements
<1>5. 1 \in 1 .. Len(ls) /\ \A n \in 1 .. Len(r) : n + 1 # 1
  BY <1>2
<1>6. \A n \in 1 .. Len(r) : Elements(h) \cap Elements(r[n]) = {}
  BY <1>2, <1>5 DEF EachOnce
<1>8. ASSUME NEW m \in 1 .. Len(r), NEW n \in 1 .. Len(r), m # n
      PROVE  Elements(r[m]) \cap Elements(r[n]) = {}
  <2>1. /\ m + 1 \in 1 .. Len(ls) /\ n + 1 \in 1 .. Len(ls)
        /\ r[m] = ls[m + 1] /\ r[n] = ls[n + 1]
    BY <1>2
  <2>2. m + 1 # n + 1
    BY <1>2, <1>8
  <2> QED BY <2>1, <2>2 DEF EachOnce
<1>9. ASSUME NEW n \in 1 .. Len(r)
      PROVE  \A i, j \in 1 .. Len(r[n]) : r[n][i] = r[n][j] => i = j
  <2>1. n + 1 \in 1 .. Len(ls) /\ r[n] = ls[n + 1]
    BY <1>2
  <2>2. \A i, j \in 1 .. Len(ls[n + 1]) : ls[n + 1][i] = ls[n + 1][j] => i = j
    BY <2>1 DEF EachOnce
  <2> QED BY <2>1, <2>2
<1>10. \A i, j \in 1 .. Len(h) : h[i] = h[j] => i = j
  BY <1>2, <1>5 DEF EachOnce
<1>11. EachOnce(h, r)
  BY <1>6, <1>8, <1>9, <1>10 DEF EachOnce
<1>12. EachOnce(<<>>, r)
  BY <1>4, <1>8, <1>9 DEF EachOnce
<1>13. \A l \in Elements(r) : Elements(h) \cap Elements(l) = {}
  BY <1>6 DEF Elements
<1> QED BY <1>1, <1>2, <1>3, <1>4, <1>11, <1>12, <1>13 DEF Listed

-----------------------------------------------------------------------------
(* What a step of a worker does with them *)

\* Its job goes on with what is left ahead of it, and has given up the events E.
GoesOn(w, left, E) ==
  \E q \in Job : /\ worker' = [worker EXCEPT ![w] = q] /\ WorkFine(q) /\ Ahead(q) = left
                 /\ q.block = worker[w].block /\ q.attempt = worker[w].attempt
                 /\ q.given = worker[w].given \cup E
\* It offers one event, gives some up, or does neither.
Advances(w) ==
  /\ UNCHANGED <<waiting, added, restarts, completed, failed, skipped>>
  /\ \/ \E E \in SUBSET Ahead(worker[w]) : GoesOn(w, Ahead(worker[w]) \ E, E) /\ UNCHANGED offers
     \/ \E e \in Ahead(worker[w]) : /\ GoesOn(w, Ahead(worker[w]) \ {e}, {})
                                    /\ offers' = [offers EXCEPT ![e] = @ + 1]
Completes(w) ==
  /\ Ahead(worker[w]) = {}
  /\ completed' = completed \cup {worker[w].block}
  /\ skipped' = skipped \cup worker[w].given
  /\ worker' = [worker EXCEPT ![w] = NoJob]
  /\ UNCHANGED <<failed, offers, waiting, added, restarts>>

\* Nothing is offered or given up.
LEMMA NothingGiven ==
  ASSUME NEW w, GoesOn(w, Ahead(worker[w]), {}),
         UNCHANGED <<waiting, added, restarts, completed, failed, offers, skipped>>
  PROVE  Advances(w)
<1>1. Ahead(worker[w]) \ {} = Ahead(worker[w]) /\ {} \in SUBSET Ahead(worker[w])
  OBVIOUS
<1> QED BY <1>1 DEF Advances

\* Its job is at pc, with these events and contracts, and has given up E.
Moved(w, E, pc, todo, contracts) ==
  \/ E = {} /\ Goto(w, pc, todo, contracts)
  \/ GotoWithout(w, E, pc, todo, contracts)
Reaches(w, E, pc, todo, contracts) ==
  \E q \in Job : /\ worker' = [worker EXCEPT ![w] = q]
                 /\ q.pc = pc /\ q.todo = todo /\ q.contracts = contracts
                 /\ q.block = worker[w].block /\ q.attempt = worker[w].attempt
                 /\ q.given = worker[w].given \cup E

LEMMA GoesTo ==
  ASSUME TypeInv, NEW w \in Workers, worker[w] \in Job, NEW E \in SUBSET Events,
         NEW pc \in {"publish", "block", "logs", "publishLogs", "finish"},
         NEW todo \in Seq(Events), NEW contracts \in Seq(Seq(Events)),
         Moved(w, E, pc, todo, contracts)
  PROVE  Reaches(w, E, pc, todo, contracts)
<1>1. PICK old \in Job : old = worker[w]
  OBVIOUS
<1>2. CASE E = {} /\ Goto(w, pc, todo, contracts)
  <2>1. PICK q : q = [old EXCEPT !.pc = pc, !.todo = todo, !.contracts = contracts]
    OBVIOUS
  <2>2. /\ q \in Job /\ q.pc = pc /\ q.todo = todo /\ q.contracts = contracts
        /\ q.block = old.block /\ q.attempt = old.attempt /\ q.given = old.given
    BY <2>1 DEF Job
  <2>3. worker' = [worker EXCEPT ![w] = q]
    BY <1>1, <1>2, <2>1 DEF Goto
  <2>4. q.given = old.given \cup E
    BY <1>2, <2>2
  <2> QED BY <1>1, <2>2, <2>3, <2>4 DEF Reaches
<1>3. CASE GotoWithout(w, E, pc, todo, contracts)
  <2>1. PICK q : q = [old EXCEPT !.pc = pc, !.todo = todo, !.contracts = contracts,
                                 !.given = @ \cup E]
    OBVIOUS
  <2>2. /\ q \in Job /\ q.pc = pc /\ q.todo = todo /\ q.contracts = contracts
        /\ q.block = old.block /\ q.attempt = old.attempt /\ q.given = old.given \cup E
    BY <2>1 DEF Job
  <2>3. worker' = [worker EXCEPT ![w] = q]
    BY <1>1, <1>3, <2>1 DEF GotoWithout
  <2> QED BY <1>1, <2>2, <2>3 DEF Reaches
<1> QED BY <1>2, <1>3 DEF Moved

\* On to a call that follows getBlock.
LEMMA GoesOnWithLogs ==
  ASSUME TypeInv, NEW w \in Workers, NEW old \in Job, worker[w] = old,
         NEW E \in SUBSET Events, NEW pc \in {"logs", "publishLogs", "finish"},
         NEW todo \in Seq(Events), NEW contracts \in Seq(Seq(Events)),
         Moved(w, E, pc, todo, contracts),
         EachOnce(todo, contracts), Listed(todo, contracts) \subseteq EventsOf(old.block),
         pc \in {"logs", "finish"} => todo = <<>>, pc = "finish" => contracts = <<>>
  PROVE  GoesOn(w, Listed(todo, contracts), E)
<1>1. pc \in {"publish", "block", "logs", "publishLogs", "finish"}
  OBVIOUS
<1>r. Reaches(w, E, pc, todo, contracts)
  BY <1>1, GoesTo
<1>2. PICK q \in Job : /\ worker' = [worker EXCEPT ![w] = q]
                       /\ q.pc = pc /\ q.todo = todo /\ q.contracts = contracts
                       /\ q.block = worker[w].block /\ q.attempt = worker[w].attempt
                       /\ q.given = worker[w].given \cup E
  BY <1>r DEF Reaches
<1>3. InHand(q) = todo /\ Pending(q) = contracts
  BY <1>2 DEF InHand, Pending
<1>4. Ahead(q) = Listed(todo, contracts)
  BY <1>3 DEF Ahead
<1>5. WorkFine(q)
  BY <1>2, <1>3, <1>4 DEF WorkFine
<1> QED BY <1>2, <1>4, <1>5 DEF GoesOn

\* On to a call up to getBlock, whose contracts are still to come.
LEMMA GoesOnWithTransfers ==
  ASSUME TypeInv, NEW w \in Workers, NEW old \in Job, worker[w] = old,
         NEW E \in SUBSET Events, NEW pc \in {"publish", "block"},
         NEW todo \in Seq(Events), NEW contracts \in Seq(Seq(Events)),
         Moved(w, E, pc, todo, contracts),
         EachOnce(todo, Logs[old.block]),
         Listed(todo, Logs[old.block]) \subseteq EventsOf(old.block),
         pc = "block" => todo = <<>>
  PROVE  GoesOn(w, Listed(todo, Logs[old.block]), E)
<1>1. pc \in {"publish", "block", "logs", "publishLogs", "finish"}
  OBVIOUS
<1>r. Reaches(w, E, pc, todo, contracts)
  BY <1>1, GoesTo
<1>2. PICK q \in Job : /\ worker' = [worker EXCEPT ![w] = q]
                       /\ q.pc = pc /\ q.todo = todo /\ q.contracts = contracts
                       /\ q.block = worker[w].block /\ q.attempt = worker[w].attempt
                       /\ q.given = worker[w].given \cup E
  BY <1>r DEF Reaches
<1>3. InHand(q) = todo /\ Pending(q) = Logs[old.block]
  BY <1>2 DEF InHand, Pending
<1>4. Ahead(q) = Listed(todo, Logs[old.block])
  BY <1>3 DEF Ahead
<1>5. WorkFine(q)
  BY <1>2, <1>3, <1>4 DEF WorkFine
<1> QED BY <1>2, <1>4, <1>5 DEF GoesOn

LEMMA WorkerSteps ==
  ASSUME TypeInv, WorkersFine, NEW w \in Workers, WorkerStep(w)
  PROVE  \/ TakeJob(w)
         \/ worker[w] \in Job /\ (Throw(w) \/ Advances(w) \/ Completes(w))
<1>1. PICK old : old = worker[w]
  OBVIOUS
<1>2. ASSUME old.pc # "idle"
      PROVE  /\ old \in Job /\ WorkFine(old) /\ old.block \in Blocks
             /\ old.todo \in Seq(Events) /\ old.contracts \in Seq(Seq(Events))
             /\ Transfers[old.block] \in Seq(Events) /\ Logs[old.block] \in Seq(Seq(Events))
  BY <1>1, <1>2, EventsAssumption DEF TypeInv, TypeOK, ProcessingType, NoJob, WorkersFine, Job
<1>e. <<>> \in Seq(Events) /\ <<>> \in Seq(Seq(Events))
  OBVIOUS
<1>s. {} \in SUBSET Events
  OBVIOUS
<1>p. /\ "publish" \in {"publish", "block"} /\ "block" \in {"publish", "block"}
      /\ "logs" \in {"logs", "publishLogs", "finish"} /\ "finish" \in {"logs", "publishLogs", "finish"}
      /\ "publishLogs" \in {"logs", "publishLogs", "finish"}
  OBVIOUS
<1>5. CASE GetEthTransfers(w)
  <2>1. old.pc = "transfers"
    BY <1>1, <1>5 DEF GetEthTransfers
  <2>2. CASE Throw(w)
    BY <1>1, <1>2, <2>1, <2>2
  <2>3. CASE /\ \/ Goto(w, "publish", Transfers[old.block], <<>>)
                \/ GotoWithout(w, Elements(Transfers[old.block]), "publish", <<>>, <<>>)
             /\ UNCHANGED <<completed, failed, offers, skipped, waiting, added, restarts>>
    <3>1. InHand(old) = Transfers[old.block] /\ Pending(old) = Logs[old.block]
      BY <2>1 DEF InHand, Pending
    <3>2. /\ EachOnce(Transfers[old.block], Logs[old.block])
          /\ Ahead(old) = Listed(Transfers[old.block], Logs[old.block])
          /\ Ahead(old) \subseteq EventsOf(old.block)
      BY <1>2, <2>1, <3>1 DEF WorkFine, Ahead
    <3>3. CASE Goto(w, "publish", Transfers[old.block], <<>>)
      <4>1. Moved(w, {}, "publish", Transfers[old.block], <<>>)
        BY <3>3 DEF Moved
      <4>2. GoesOn(w, Listed(Transfers[old.block], Logs[old.block]), {})
        BY GoesOnWithTransfers, <1>p, <1>1, <1>2, <1>e, <1>s, <2>1, <3>2, <4>1
      <4> QED BY <1>1, <1>2, <2>1, <2>3, <3>2, <4>2, NothingGiven
    <3>4. CASE GotoWithout(w, Elements(Transfers[old.block]), "publish", <<>>, <<>>)
      <4>0. PICK E \in SUBSET Ahead(old) :
              /\ E = Elements(Transfers[old.block]) /\ EachOnce(<<>>, Logs[old.block])
              /\ Listed(<<>>, Logs[old.block]) = Ahead(old) \ E
        BY <3>2, WithoutInHand
      <4>1. Moved(w, E, "publish", <<>>, <<>>) /\ E \in SUBSET Events
        BY <1>2, <2>1, <3>2, <3>4, <4>0, EventsKnown DEF Moved
      <4>2. Listed(<<>>, Logs[old.block]) \subseteq EventsOf(old.block)
        BY <3>2, <4>0
      <4>3. GoesOn(w, Listed(<<>>, Logs[old.block]), E)
        BY GoesOnWithTransfers, <1>p, <1>1, <1>2, <1>e, <2>1, <4>0, <4>1, <4>2
      <4> QED BY <1>1, <1>2, <2>1, <2>3, <4>0, <4>3 DEF Advances
    <3> QED BY <2>3, <3>3, <3>4
  <2> QED BY <1>1, <1>5, <2>2, <2>3 DEF GetEthTransfers
<1>6. CASE PublishTransfers(w)
  <2>1. /\ old.pc = "publish" /\ old \in Job /\ old.todo \in Seq(Events)
        /\ UNCHANGED <<completed, failed, skipped, waiting, added, restarts>>
    BY <1>1, <1>2, <1>6 DEF PublishTransfers, Publish, queueVars
  <2>2. InHand(old) = old.todo /\ Pending(old) = Logs[old.block]
    BY <2>1 DEF InHand, Pending
  <2>3. /\ EachOnce(old.todo, Logs[old.block]) /\ Ahead(old) = Listed(old.todo, Logs[old.block])
        /\ Ahead(old) \subseteq EventsOf(old.block)
    BY <1>2, <2>1, <2>2 DEF WorkFine, Ahead
  <2>4. CASE old.todo = <<>>
    <3>1. Moved(w, {}, "block", <<>>, old.contracts) /\ UNCHANGED offers
      BY <1>1, <1>6, <2>4 DEF PublishTransfers, Publish, Moved
    <3>2. GoesOn(w, Listed(<<>>, Logs[old.block]), {})
      BY GoesOnWithTransfers, <1>p, <1>1, <1>2, <1>e, <1>s, <2>1, <2>3, <2>4, <3>1
    <3> QED BY <1>1, <2>1, <2>3, <2>4, <3>1, <3>2, NothingGiven
  <2>5. CASE old.todo # <<>>
    <3>1. /\ Moved(w, {}, "publish", Tail(old.todo), old.contracts)
          /\ offers' = [offers EXCEPT ![Head(old.todo)] = @ + 1]
      BY <1>1, <1>6, <2>5 DEF PublishTransfers, Publish, Moved
    <3>2. /\ Tail(old.todo) \in Seq(Events) /\ EachOnce(Tail(old.todo), Logs[old.block])
          /\ Head(old.todo) \in Ahead(old)
          /\ Listed(Tail(old.todo), Logs[old.block]) = Ahead(old) \ {Head(old.todo)}
      BY <1>2, <2>1, <2>3, <2>5, NextInHand
    <3>3. Listed(Tail(old.todo), Logs[old.block]) \subseteq EventsOf(old.block)
      BY <2>3, <3>2
    <3>4. GoesOn(w, Listed(Tail(old.todo), Logs[old.block]), {})
      BY GoesOnWithTransfers, <1>p, <1>1, <1>2, <1>e, <1>s, <2>1, <3>1, <3>2, <3>3
    <3> QED BY <1>1, <2>1, <3>1, <3>2, <3>4 DEF Advances
  <2> QED BY <2>4, <2>5
<1>7. CASE GetBlock(w)
  <2>1. old.pc = "block" /\ old \in Job /\ old.todo = <<>>
    BY <1>1, <1>2, <1>7 DEF GetBlock, WorkFine
  <2>2. CASE Throw(w)
    BY <1>1, <2>1, <2>2
  <2>3. CASE /\ \/ Goto(w, "logs", <<>>, Logs[old.block])
                \/ GotoWithout(w, UNION {Elements(l) : l \in Elements(Logs[old.block])},
                               "logs", <<>>, <<>>)
             /\ UNCHANGED <<completed, failed, offers, skipped, waiting, added, restarts>>
    <3>1. InHand(old) = <<>> /\ Pending(old) = Logs[old.block]
      BY <2>1 DEF InHand, Pending
    <3>2. /\ EachOnce(<<>>, Logs[old.block]) /\ Ahead(old) = Listed(<<>>, Logs[old.block])
          /\ Ahead(old) \subseteq EventsOf(old.block) /\ Logs[old.block] \in Seq(Seq(Events))
      BY <1>2, <2>1, <3>1 DEF WorkFine, Ahead
    <3>3. CASE Goto(w, "logs", <<>>, Logs[old.block])
      <4>1. Moved(w, {}, "logs", <<>>, Logs[old.block])
        BY <3>3 DEF Moved
      <4>2. GoesOn(w, Listed(<<>>, Logs[old.block]), {})
        BY GoesOnWithLogs, <1>p, <1>1, <1>2, <1>e, <1>s, <2>1, <3>2, <4>1
      <4> QED BY <1>1, <2>1, <2>3, <3>2, <4>2, NothingGiven
    <3>4. CASE GotoWithout(w, UNION {Elements(l) : l \in Elements(Logs[old.block])}, "logs", <<>>, <<>>)
      <4>0. Elements(<<>>) = {}
        BY DEF Elements
      <4>1. PICK E \in SUBSET Ahead(old) :
              E = UNION {Elements(l) : l \in Elements(Logs[old.block])} /\ E = Ahead(old)
        BY <3>2, <4>0 DEF Listed
      <4>2. Moved(w, E, "logs", <<>>, <<>>) /\ E \in SUBSET Events
        BY <1>2, <2>1, <3>2, <3>4, <4>1, EventsKnown DEF Moved
      <4>3. /\ EachOnce(<<>>, <<>>) /\ Listed(<<>>, <<>>) = {}
            /\ Listed(<<>>, <<>>) \subseteq EventsOf(old.block)
        BY <4>0 DEF EachOnce, Listed
      <4>4. GoesOn(w, Listed(<<>>, <<>>), E)
        BY GoesOnWithLogs, <1>p, <1>1, <1>2, <1>e, <2>1, <4>2, <4>3
      <4>5. Listed(<<>>, <<>>) = Ahead(old) \ E
        BY <4>1, <4>3
      <4> QED BY <1>1, <2>1, <2>3, <4>1, <4>4, <4>5 DEF Advances
    <3> QED BY <2>3, <3>3, <3>4
  <2> QED BY <1>1, <1>7, <2>2, <2>3 DEF GetBlock
<1>8. CASE GetContractEvents(w)
  <2>1. /\ old.pc = "logs" /\ old \in Job /\ old.todo = <<>> /\ old.contracts \in Seq(Seq(Events))
        /\ UNCHANGED <<completed, failed, offers, skipped, waiting, added, restarts>>
    BY <1>1, <1>2, <1>8 DEF GetContractEvents, WorkFine
  <2>2. InHand(old) = <<>> /\ Pending(old) = old.contracts
    BY <2>1 DEF InHand, Pending
  <2>3. /\ EachOnce(<<>>, old.contracts) /\ Ahead(old) = Listed(<<>>, old.contracts)
        /\ Ahead(old) \subseteq EventsOf(old.block)
    BY <1>2, <2>1, <2>2 DEF WorkFine, Ahead
  <2>4. CASE old.contracts = <<>>
    <3>1. Moved(w, {}, "finish", <<>>, <<>>)
      BY <1>1, <1>8, <2>4 DEF GetContractEvents, Moved
    <3>2. GoesOn(w, Listed(<<>>, <<>>), {})
      BY GoesOnWithLogs, <1>p, <1>1, <1>2, <1>e, <1>s, <2>1, <2>3, <2>4, <3>1
    <3> QED BY <1>1, <2>1, <2>3, <2>4, <3>2, NothingGiven
  <2>5. CASE old.contracts # <<>>
    <3>1. /\ Head(old.contracts) \in Seq(Events) /\ Tail(old.contracts) \in Seq(Seq(Events))
          /\ EachOnce(Head(old.contracts), Tail(old.contracts))
          /\ Listed(Head(old.contracts), Tail(old.contracts)) = Ahead(old)
          /\ EachOnce(<<>>, Tail(old.contracts))
          /\ Listed(<<>>, Tail(old.contracts)) = Ahead(old) \ Elements(Head(old.contracts))
      BY <2>1, <2>3, <2>5, NextPending
    <3>2. \/ Goto(w, "publishLogs", Head(old.contracts), Tail(old.contracts))
          \/ GotoWithout(w, Elements(Head(old.contracts)), "logs", <<>>, Tail(old.contracts))
      BY <1>1, <1>8, <2>5 DEF GetContractEvents
    <3>3. CASE Goto(w, "publishLogs", Head(old.contracts), Tail(old.contracts))
      <4>0. Moved(w, {}, "publishLogs", Head(old.contracts), Tail(old.contracts))
        BY <3>3 DEF Moved
      <4>1. GoesOn(w, Listed(Head(old.contracts), Tail(old.contracts)), {})
        BY GoesOnWithLogs, <1>p, <1>1, <1>2, <1>s, <2>1, <2>3, <3>1, <4>0
      <4> QED BY <1>1, <2>1, <3>1, <4>1, NothingGiven
    <3>4. CASE GotoWithout(w, Elements(Head(old.contracts)), "logs", <<>>, Tail(old.contracts))
      <4>0. PICK E \in SUBSET Ahead(old) : E = Elements(Head(old.contracts))
        BY <3>1 DEF Listed
      <4>1. Listed(<<>>, Tail(old.contracts)) \subseteq EventsOf(old.block)
        BY <2>3, <3>1
      <4>2. Moved(w, E, "logs", <<>>, Tail(old.contracts)) /\ E \in SUBSET Events
        BY <1>2, <2>1, <2>3, <3>4, <4>0, EventsKnown DEF Moved
      <4>3. GoesOn(w, Listed(<<>>, Tail(old.contracts)), E)
        BY GoesOnWithLogs, <1>p, <1>1, <1>2, <1>e, <2>1, <3>1, <4>1, <4>2
      <4> QED BY <1>1, <2>1, <3>1, <4>0, <4>3 DEF Advances
    <3> QED BY <3>2, <3>3, <3>4
  <2> QED BY <2>4, <2>5
<1>9. CASE PublishLogs(w)
  <2>1. /\ old.pc = "publishLogs" /\ old \in Job /\ old.todo \in Seq(Events)
        /\ old.contracts \in Seq(Seq(Events))
        /\ UNCHANGED <<completed, failed, skipped, waiting, added, restarts>>
    BY <1>1, <1>2, <1>9 DEF PublishLogs, Publish, queueVars
  <2>2. InHand(old) = old.todo /\ Pending(old) = old.contracts
    BY <2>1 DEF InHand, Pending
  <2>3. /\ EachOnce(old.todo, old.contracts) /\ Ahead(old) = Listed(old.todo, old.contracts)
        /\ Ahead(old) \subseteq EventsOf(old.block)
    BY <1>2, <2>1, <2>2 DEF WorkFine, Ahead
  <2>4. CASE old.todo = <<>>
    <3>1. Moved(w, {}, "logs", <<>>, old.contracts) /\ UNCHANGED offers
      BY <1>1, <1>9, <2>4 DEF PublishLogs, Publish, Moved
    <3>2. GoesOn(w, Listed(<<>>, old.contracts), {})
      BY GoesOnWithLogs, <1>p, <1>1, <1>2, <1>e, <1>s, <2>1, <2>3, <2>4, <3>1
    <3> QED BY <1>1, <2>1, <2>3, <2>4, <3>1, <3>2, NothingGiven
  <2>5. CASE old.todo # <<>>
    <3>1. /\ Moved(w, {}, "publishLogs", Tail(old.todo), old.contracts)
          /\ offers' = [offers EXCEPT ![Head(old.todo)] = @ + 1]
      BY <1>1, <1>9, <2>5 DEF PublishLogs, Publish, Moved
    <3>2. /\ Tail(old.todo) \in Seq(Events) /\ EachOnce(Tail(old.todo), old.contracts)
          /\ Head(old.todo) \in Ahead(old)
          /\ Listed(Tail(old.todo), old.contracts) = Ahead(old) \ {Head(old.todo)}
      BY <2>1, <2>3, <2>5, NextInHand
    <3>3. Listed(Tail(old.todo), old.contracts) \subseteq EventsOf(old.block)
      BY <2>3, <3>2
    <3>4. GoesOn(w, Listed(Tail(old.todo), old.contracts), {})
      BY GoesOnWithLogs, <1>p, <1>1, <1>2, <1>s, <2>1, <3>1, <3>2, <3>3
    <3> QED BY <1>1, <2>1, <3>1, <3>2, <3>4 DEF Advances
  <2> QED BY <2>4, <2>5
<1>10. CASE Finish(w)
  <2>1. old.pc = "finish" /\ old \in Job /\ old.todo = <<>> /\ old.contracts = <<>>
    BY <1>1, <1>2, <1>10 DEF Finish, WorkFine
  <2>2. Ahead(old) = {}
    BY <2>1 DEF Ahead, InHand, Pending, Listed, Elements
  <2> QED BY <1>1, <1>10, <2>1, <2>2 DEF Finish, Completes
<1> QED BY <1>5, <1>6, <1>7, <1>8, <1>9, <1>10 DEF WorkerStep

-----------------------------------------------------------------------------
(* No event of a completed block is lost *)

\* An event of the block that a job is not to offer any more was offered, or given up.
Remembers(q, off) == \A e \in EventsOf(q.block) : e \in Ahead(q) \/ e \in q.given \/ off[e] > 0
OfferInv == /\ WorkersFine
            /\ \A w \in Workers : worker[w] # NoJob => Remembers(worker[w], offers)
            /\ CompletedIsOffered

\* A job that is handed out has all of its block ahead of it.
NewJob(b, n) == [pc |-> "transfers", block |-> b, attempt |-> n, todo |-> <<>>, contracts |-> <<>>, given |-> {}]

LEMMA NewJobFine ==
  ASSUME NEW b \in Blocks, NEW n \in 0 .. Attempts - 1
  PROVE  /\ NewJob(b, n) \in Job /\ NewJob(b, n) # NoJob
         /\ NewJob(b, n).block = b /\ NewJob(b, n).attempt = n
         /\ WorkFine(NewJob(b, n)) /\ Ahead(NewJob(b, n)) = EventsOf(b)
<1>1. PICK q : q = NewJob(b, n)
  OBVIOUS
<1>2. /\ q \in Job /\ q.pc = "transfers" /\ q.block = b /\ q.attempt = n
      /\ q.todo = <<>> /\ q.contracts = <<>>
  BY <1>1 DEF NewJob, Job
<1>3. q # NoJob
  BY <1>2 DEF NoJob
<1>4. InHand(q) = Transfers[b] /\ Pending(q) = Logs[b]
  BY <1>2 DEF InHand, Pending
<1>5. Ahead(q) = EventsOf(b)
  BY <1>4, EventsListed DEF Ahead
<1>6. WorkFine(q)
  BY <1>2, <1>4, <1>5, EventsKnown DEF WorkFine
<1> QED BY <1>1, <1>2, <1>3, <1>5, <1>6

LEMMA JobIsNotNoJob == \A q \in Job : q # NoJob
BY DEF Job, NoJob

\* What a worker's step must show of the job it leaves, and of the others.
LEMMA OfferInvNext ==
  ASSUME TypeInv, OfferInv, NEW w \in Workers, NEW q, worker' = [worker EXCEPT ![w] = q],
         q # NoJob => WorkFine(q) /\ Remembers(q, offers'),
         skipped \subseteq skipped', \A e \in Events : offers[e] > 0 => offers'[e] > 0,
         \A b \in completed' \ completed :
           b \in Blocks /\ \A e \in EventsOf(b) \ skipped' : offers'[e] > 0
  PROVE  OfferInv'
<1>t. worker \in [Workers -> Job \cup {NoJob}] /\ completed \subseteq Blocks
  BY DEF TypeInv, TypeOK, ProcessingType
<1>0. \A v \in Workers : worker'[v] = IF v = w THEN q ELSE worker[v]
  BY <1>t
<1>j. \A v \in Workers : worker'[v] # NoJob => WorkFine(worker'[v])
  BY <1>0 DEF OfferInv, WorkersFine
<1>1. WorkersFine'
  BY <1>j DEF WorkersFine
<1>2. ASSUME NEW v \in Workers, worker'[v] # NoJob
      PROVE  Remembers(worker'[v], offers')
  <2>1. CASE v = w
    BY <1>0, <1>2, <2>1
  <2>2. CASE v # w
    <3>1. PICK j \in Job : j = worker[v]
      BY <1>0, <1>2, <1>t, <2>2
    <3>2. Remembers(j, offers) /\ worker'[v] = j
      BY <1>0, <1>2, <2>2, <3>1 DEF OfferInv
    <3>3. EventsOf(j.block) \subseteq Events
      BY EventsKnown DEF Job
    <3> QED BY <3>2, <3>3 DEF Remembers
  <2> QED BY <2>1, <2>2
<1>3. ASSUME NEW b \in completed', NEW e \in EventsOf(b) \ skipped' PROVE offers'[e] > 0
  <2>1. CASE b \in completed
    <3>1. e \in Events
      BY <1>t, <2>1, EventsKnown
    <3> QED BY <2>1, <3>1 DEF OfferInv, CompletedIsOffered
  <2> QED BY <2>1
<1>4. CompletedIsOffered'
  BY <1>3 DEF CompletedIsOffered
<1>5. (\A v \in Workers : worker[v] # NoJob => Remembers(worker[v], offers))'
  BY <1>2
<1> QED BY <1>1, <1>4, <1>5 DEF OfferInv

LEMMA WorkerOffers ==
  ASSUME TypeInv, OfferInv, NEW w \in Workers, WorkerStep(w)
  PROVE  OfferInv'
<1>t. /\ worker \in [Workers -> Job \cup {NoJob}] /\ completed \subseteq Blocks
      /\ offers \in [Events -> Nat]
  BY DEF TypeInv, TypeOK, ProcessingType
<1>s. \/ TakeJob(w)
      \/ worker[w] \in Job /\ (Throw(w) \/ Advances(w) \/ Completes(w))
  BY WorkerSteps DEF OfferInv
<1>1. CASE TakeJob(w)
  <2>1. PICK b \in Blocks, n \in 0 .. Attempts - 1 : worker' = [worker EXCEPT ![w] = NewJob(b, n)]
    BY <1>1 DEF TakeJob, NewJob
  <2>2. PICK q : q = NewJob(b, n)
    OBVIOUS
  <2>3. WorkFine(q) /\ Ahead(q) = EventsOf(q.block)
    BY <2>2, NewJobFine
  <2>4. Remembers(q, offers')
    BY <2>3 DEF Remembers
  <2> QED BY <1>1, <2>1, <2>2, <2>3, <2>4, OfferInvNext DEF TakeJob
<1>2. CASE Throw(w)
  <2>1. worker' = [worker EXCEPT ![w] = NoJob] /\ UNCHANGED <<completed, offers, skipped>>
    BY <1>2 DEF Throw
  <2> QED BY <2>1, OfferInvNext
<1>3. CASE worker[w] \in Job /\ Advances(w)
  <2>1. PICK old \in Job : old = worker[w]
    BY <1>3
  <2>2. Remembers(old, offers) /\ EventsOf(old.block) \subseteq Events /\ WorkFine(old)
    BY <2>1, JobIsNotNoJob, EventsKnown DEF OfferInv, WorkersFine, Job
  <2>3. Ahead(old) \subseteq EventsOf(old.block)
    BY <2>2 DEF WorkFine
  <2>4. UNCHANGED <<completed, skipped>>
    BY <1>3 DEF Advances
  <2>5. CASE \E e \in Ahead(old) : /\ GoesOn(w, Ahead(old) \ {e}, {})
                                   /\ offers' = [offers EXCEPT ![e] = @ + 1]
    <3>0. PICK e \in Ahead(old) : /\ GoesOn(w, Ahead(old) \ {e}, {})
                                  /\ offers' = [offers EXCEPT ![e] = @ + 1]
      BY <2>5
    <3>1. PICK q \in Job : /\ worker' = [worker EXCEPT ![w] = q] /\ WorkFine(q)
                           /\ Ahead(q) = Ahead(old) \ {e} /\ q.block = old.block
                           /\ q.given = old.given \cup {}
      BY <2>1, <3>0 DEF GoesOn
    <3>2. e \in Events /\ offers[e] \in Nat
      BY <1>t, <2>2, <2>3
    <3>3. \A f \in Events : offers'[f] = IF f = e THEN offers[e] + 1 ELSE offers[f]
      BY <1>t, <3>0, <3>2
    <3>4. offers'[e] > 0
      BY <3>2, <3>3
    <3>5. Remembers(q, offers')
      BY <2>2, <3>0, <3>1, <3>3, <3>4 DEF Remembers
    <3>6. \A f \in Events : offers[f] > 0 => offers'[f] > 0
      BY <3>3, <3>4
    <3> QED BY <2>4, <3>1, <3>5, <3>6, OfferInvNext
  <2>6. CASE \E E \in SUBSET Ahead(old) : GoesOn(w, Ahead(old) \ E, E) /\ UNCHANGED offers
    <3>0. PICK E \in SUBSET Ahead(old) : GoesOn(w, Ahead(old) \ E, E) /\ UNCHANGED offers
      BY <2>6
    <3>1. PICK q \in Job : /\ worker' = [worker EXCEPT ![w] = q] /\ WorkFine(q)
                           /\ Ahead(q) = Ahead(old) \ E /\ q.block = old.block
                           /\ q.given = old.given \cup E
      BY <2>1, <3>0 DEF GoesOn
    <3>2. Remembers(q, offers')
      BY <2>2, <3>0, <3>1 DEF Remembers
    <3> QED BY <2>4, <3>0, <3>1, <3>2, OfferInvNext
  <2> QED BY <1>3, <2>1, <2>5, <2>6 DEF Advances
<1>4. CASE worker[w] \in Job /\ Completes(w)
  <2>1. PICK old \in Job : old = worker[w]
    BY <1>4
  <2>2. /\ Remembers(old, offers) /\ Ahead(old) = {} /\ old.block \in Blocks
        /\ completed' = completed \cup {old.block} /\ skipped' = skipped \cup old.given
        /\ worker' = [worker EXCEPT ![w] = NoJob] /\ UNCHANGED offers
    BY <1>4, <2>1, JobIsNotNoJob DEF OfferInv, Completes, Job
  <2>3. \A e \in EventsOf(old.block) \ skipped' : offers'[e] > 0
    BY <2>2 DEF Remembers
  <2> QED BY <2>2, <2>3, OfferInvNext
<1> QED BY <1>s, <1>1, <1>2, <1>3, <1>4

LEMMA OfferStep ==
  ASSUME TypeInv, OfferInv, [Next]_vars
  PROVE  OfferInv'
<1>1. CASE UNCHANGED processingVars
  BY <1>1 DEF processingVars, OfferInv, WorkersFine, CompletedIsOffered
<1>2. CASE ProcessingStep
  BY <1>2, WorkerOffers DEF ProcessingStep
<1>3. CASE Restart
  <2>1. \A w \in Workers : worker'[w] = NoJob
    BY <1>3 DEF Restart, ProcessingRestart
  <2>2. UNCHANGED <<completed, offers, skipped>>
    BY <1>3 DEF Restart, ProcessingRestart
  <2> QED BY <2>1, <2>2 DEF OfferInv, WorkersFine, CompletedIsOffered
<1> QED BY <1>1, <1>2, <1>3 DEF Next, vars

\* What a completed block may have lost: whatever attempts of its jobs fail or are
\* cut off by crashes, and in whatever order, a block that counts as completed has had
\* each of its events offered to EventBridge, but for what the attempt that completed it
\* gave up on a rejected query or an answer of null.
THEOREM CompletedBlocksOffered == Spec => []CompletedIsOffered
<1>1. Init => OfferInv
  BY DEF Init, ProcessingInit, OfferInv, WorkersFine, CompletedIsOffered
<1>2. TypeInv /\ OfferInv /\ [Next]_vars => OfferInv'
  BY OfferStep
<1>3. OfferInv => CompletedIsOffered
  BY DEF OfferInv
<1> QED BY <1>1, <1>2, <1>3, TypeInvariant, PTL DEF Spec

-----------------------------------------------------------------------------
(* No event is repeated without end *)

Turns == 0 .. Attempts - 1
Queued(wt) == SumFunctionOnSet(wt, Turns)
\* The attempts that the waiting jobs of a block still have.
Chance(wt) == [n \in Turns |-> wt[n] * (Attempts - n)]
Chances(wt) == SumFunctionOnSet(Chance(wt), Turns)
\* A job in progress on block b, and how often it may still offer event e.
On(q, b) == IF q # NoJob /\ q.block = b THEN 1 ELSE 0
Left(q, b, e) == IF q # NoJob /\ q.block = b
                   THEN Attempts - q.attempt - (IF e \in Ahead(q) THEN 0 ELSE 1)
                   ELSE 0
Busy(wk, b) == SumFunctionOnSet([w \in Workers |-> On(wk[w], b)], Workers)
Lefts(wk, b, e) == SumFunctionOnSet([w \in Workers |-> Left(wk[w], b, e)], Workers)

\* Offers made and offers still possible, for a jobs of block b that were added.
Bounded(off, wt, wk, r, a, b, e) ==
  /\ Queued(wt) + Busy(wk, b) <= a
  /\ off + Chances(wt) + Lefts(wk, b, e) <= (Attempts + r) * a
RepeatInv == \A b \in Blocks : \A e \in EventsOf(b) :
               Bounded(offers[e], waiting[b], worker, restarts, added[b], b, e)

Table == [Turns -> Nat]
Crew == [Workers -> Job \cup {NoJob}]
\* One job more waits after n attempts; one worker goes from the job old to q.
OneMore(wt, n, more) == \A m \in Turns : more[m] = IF m = n THEN wt[n] + 1 ELSE wt[m]
Moves(wk, w, old, q, new) ==
  wk[w] = old /\ \A v \in Workers : new[v] = IF v = w THEN q ELSE wk[v]

LEMMA TurnsFinite == IsFiniteSet(Turns) /\ \A n \in Turns : n \in Nat /\ Attempts - n \in Nat \ {0}
BY FS_Interval, AttemptsAssumption DEF Turns

LEMMA OneMoreWaits ==
  ASSUME NEW wt \in Table, NEW n \in Turns, NEW more \in Table, OneMore(wt, n, more)
  PROVE  /\ Queued(wt) \in Nat /\ Chances(wt) \in Nat
         /\ Queued(more) = Queued(wt) + 1 /\ Chances(more) = Chances(wt) + Attempts - n
<1>1. \A m \in Turns : more[m] = IF m = n THEN wt[n] + 1 ELSE wt[m]
  BY DEF OneMore
<1>2. \A m \in Turns : wt[m] \in Nat /\ more[m] \in Nat
  BY DEF Table
<1>3. Queued(wt) \in Nat
  BY <1>2, TurnsFinite, SumNat DEF Queued
<1>4. Queued(more) = Queued(wt) + 1
  <2>1. DifferAt(wt, more, Turns, n)
    BY <1>1, <1>2 DEF DifferAt
  <2>2. SumFunctionOnSet(more, Turns) = SumFunctionOnSet(wt, Turns) + more[n] - wt[n]
    BY <2>1, TurnsFinite, SumOfChange
  <2>3. Queued(more) = Queued(wt) + more[n] - wt[n]
    BY <2>2 DEF Queued
  <2> QED BY <1>1, <1>2, <1>3, <2>3
<1>5. PICK c, d : c = Chance(wt) /\ d = Chance(more)
  OBVIOUS
<1>6. \A m \in Turns : c[m] = wt[m] * (Attempts - m) /\ d[m] = more[m] * (Attempts - m)
  BY <1>5 DEF Chance
<1>7. \A m \in Turns : c[m] \in Nat /\ d[m] \in Nat
  BY <1>2, <1>6, TurnsFinite, Times
<1>8. Chances(wt) \in Nat
  BY <1>5, <1>7, TurnsFinite, SumNat DEF Chances
<1>9. d[n] = c[n] + Attempts - n
  <2>1. PICK k \in Nat, v \in Nat : k = wt[n] /\ v = Attempts - n
    BY <1>2, TurnsFinite
  <2>2. (k + 1) * v = k * v + v /\ k * v \in Nat
    BY Times
  <2>3. c[n] = k * v /\ d[n] = (k + 1) * v
    BY <1>1, <1>6, <2>1
  <2> QED BY <2>1, <2>2, <2>3, TurnsFinite, AttemptsAssumption
<1>10. DifferAt(c, d, Turns, n)
  BY <1>1, <1>6, <1>7 DEF DifferAt
<1>11. SumFunctionOnSet(d, Turns) = SumFunctionOnSet(c, Turns) + d[n] - c[n]
  BY <1>10, TurnsFinite, SumOfChange
<1>12. Chances(more) = Chances(wt) + d[n] - c[n]
  BY <1>5, <1>11 DEF Chances
<1> QED BY <1>3, <1>4, <1>7, <1>8, <1>9, <1>12, TurnsFinite, AttemptsAssumption

LEMMA JobCounts ==
  ASSUME NEW b \in Blocks, NEW e, NEW q \in Job \cup {NoJob}
  PROVE  /\ On(q, b) \in {0, 1} /\ Left(q, b, e) \in Nat
         /\ On(NoJob, b) = 0 /\ Left(NoJob, b, e) = 0
         /\ q \in Job /\ q.block = b =>
              /\ On(q, b) = 1 /\ q.attempt \in Turns
              /\ Left(q, b, e) = Attempts - q.attempt - (IF e \in Ahead(q) THEN 0 ELSE 1)
         /\ q \in Job /\ q.block # b => On(q, b) = 0 /\ Left(q, b, e) = 0
<1>1. q \in Job => q # NoJob /\ q.attempt \in Turns
  BY JobIsNotNoJob DEF Job, Turns
<1> QED BY <1>1, TurnsFinite, AttemptsAssumption DEF On, Left

\* What a change of one worker's job does to the sums.
LEMMA CrewTypes ==
  ASSUME NEW wk \in Crew, NEW b \in Blocks, NEW e
  PROVE  /\ Busy(wk, b) \in Nat /\ Lefts(wk, b, e) \in Nat
         /\ \A w \in Workers : On(wk[w], b) \in Nat /\ Left(wk[w], b, e) \in Nat
<1>1. \A w \in Workers : On(wk[w], b) \in Nat /\ Left(wk[w], b, e) \in Nat
  BY JobCounts DEF Crew
<1>2. PICK f, g : /\ f = [w \in Workers |-> On(wk[w], b)]
                  /\ g = [w \in Workers |-> Left(wk[w], b, e)]
  OBVIOUS
<1>3. \A w \in Workers : f[w] \in Nat /\ g[w] \in Nat
  BY <1>1, <1>2
<1>4. SumFunctionOnSet(f, Workers) \in Nat /\ SumFunctionOnSet(g, Workers) \in Nat
  BY <1>3, WorkersAssumption, SumNat
<1> QED BY <1>1, <1>2, <1>4 DEF Busy, Lefts

LEMMA CrewSums ==
  ASSUME NEW wk \in Crew, NEW b \in Blocks, NEW e,
         NEW w \in Workers, NEW old \in Job \cup {NoJob}, NEW q \in Job \cup {NoJob},
         NEW new \in Crew, Moves(wk, w, old, q, new)
  PROVE  /\ Busy(new, b) = Busy(wk, b) + On(q, b) - On(old, b)
         /\ Lefts(new, b, e) = Lefts(wk, b, e) + Left(q, b, e) - Left(old, b, e)
<1>1. PICK f, g : /\ f = [v \in Workers |-> On(wk[v], b)]
                  /\ g = [v \in Workers |-> Left(wk[v], b, e)]
  OBVIOUS
<1>2. PICK f2, g2 : /\ f2 = [v \in Workers |-> On(new[v], b)]
                    /\ g2 = [v \in Workers |-> Left(new[v], b, e)]
  OBVIOUS
<1>3. wk[w] = old /\ \A v \in Workers : new[v] = IF v = w THEN q ELSE wk[v]
  BY DEF Moves
<1>4. DifferAt(f, f2, Workers, w) /\ DifferAt(g, g2, Workers, w)
  <2>1. \A v \in Workers : /\ On(wk[v], b) \in Int /\ On(new[v], b) \in Int
                           /\ Left(wk[v], b, e) \in Int /\ Left(new[v], b, e) \in Int
    BY CrewTypes
  <2>2. \A v \in Workers : /\ f[v] \in Int /\ f2[v] \in Int /\ g[v] \in Int /\ g2[v] \in Int
                           /\ v # w => f[v] = f2[v] /\ g[v] = g2[v]
    BY <1>1, <1>2, <1>3, <2>1
  <2> QED BY <2>2 DEF DifferAt
<1>5. f2[w] = On(q, b) /\ f[w] = On(old, b) /\ g2[w] = Left(q, b, e) /\ g[w] = Left(old, b, e)
  BY <1>1, <1>2, <1>3
<1>6. SumFunctionOnSet(f2, Workers) = SumFunctionOnSet(f, Workers) + f2[w] - f[w]
  BY <1>4, WorkersAssumption, SumOfChange
<1>7. SumFunctionOnSet(g2, Workers) = SumFunctionOnSet(g, Workers) + g2[w] - g[w]
  BY <1>4, WorkersAssumption, SumOfChange
<1> QED BY <1>1, <1>2, <1>5, <1>6, <1>7 DEF Busy, Lefts

\* Everything the bound is made of is a number.
LEMMA BoundTypes ==
  ASSUME NEW wt \in Table, NEW wk \in Crew, NEW b \in Blocks, NEW e
  PROVE  /\ Queued(wt) \in Nat /\ Chances(wt) \in Nat
         /\ Busy(wk, b) \in Nat /\ Lefts(wk, b, e) \in Nat
<1>1. 0 \in Turns
  BY AttemptsAssumption DEF Turns
<1>2. PICK more : more = [wt EXCEPT ![0] = @ + 1]
  OBVIOUS
<1>3. more \in Table /\ OneMore(wt, 0, more)
  BY <1>1, <1>2 DEF Table, OneMore
<1> QED BY <1>1, <1>3, OneMoreWaits, CrewTypes

LEMMA Allowance ==
  ASSUME NEW r \in Nat, NEW a \in Nat
  PROVE  /\ (Attempts + r) * a \in Nat
         /\ (Attempts + r) * (a + 1) = (Attempts + r) * a + Attempts + r
         /\ (Attempts + (r + 1)) * a = (Attempts + r) * a + a
<1>1. \A x, y \in Nat : x * y \in Nat /\ x * (y + 1) = x * y + x /\ (x + 1) * y = x * y + y
  OBVIOUS
<1>2. Attempts + r \in Nat /\ Attempts + (r + 1) = (Attempts + r) + 1 /\ Attempts \in Nat
  BY AttemptsAssumption
<1>3. PICK x \in Nat : x = Attempts + r
  BY <1>2
<1>4. (Attempts + (r + 1)) * a = (x + 1) * a
  BY <1>2, <1>3
<1>5. x * a \in Nat /\ x * (a + 1) = x * a + x /\ (x + 1) * a = x * a + a
  BY <1>1
<1> QED BY <1>2, <1>3, <1>4, <1>5

\* A block is queued once more.
LEMMA QueueingBounded ==
  ASSUME NEW off \in Nat, NEW wt \in Table, NEW wk \in Crew, NEW r \in Nat, NEW a \in Nat,
         NEW b \in Blocks, NEW e, Bounded(off, wt, wk, r, a, b, e),
         NEW more \in Table, OneMore(wt, 0, more)
  PROVE  Bounded(off, more, wk, r, a + 1, b, e)
<1>1. 0 \in Turns
  BY AttemptsAssumption DEF Turns
<1>2. Queued(more) = Queued(wt) + 1 /\ Chances(more) = Chances(wt) + Attempts - 0
  BY <1>1, OneMoreWaits
<1> QED BY <1>2, BoundTypes, Allowance, AttemptsAssumption DEF Bounded

\* A worker's job changes, and may offer the event.
LEMMA WorkingBounded ==
  ASSUME NEW off \in Nat, NEW wt \in Table, NEW wk \in Crew, NEW r \in Nat, NEW a \in Nat,
         NEW b \in Blocks, NEW e, Bounded(off, wt, wk, r, a, b, e),
         NEW w \in Workers, NEW old \in Job \cup {NoJob}, NEW q \in Job \cup {NoJob},
         NEW new \in Crew, Moves(wk, w, old, q, new), NEW after \in Nat,
         On(q, b) <= On(old, b), after + Left(q, b, e) <= off + Left(old, b, e)
  PROVE  Bounded(after, wt, new, r, a, b, e)
<1>1. PICK o1 \in Nat, o2 \in Nat, l1 \in Nat, l2 \in Nat :
        o1 = On(old, b) /\ o2 = On(q, b) /\ l1 = Left(old, b, e) /\ l2 = Left(q, b, e)
  BY JobCounts
<1>2. Busy(new, b) = Busy(wk, b) + o2 - o1 /\ Lefts(new, b, e) = Lefts(wk, b, e) + l2 - l1
  BY <1>1, CrewSums
<1>3. PICK m \in Nat : m = (Attempts + r) * a
  BY Allowance
<1>4. /\ Queued(wt) \in Nat /\ Chances(wt) \in Nat
      /\ Busy(wk, b) \in Nat /\ Lefts(wk, b, e) \in Nat
  BY BoundTypes
<1> QED BY <1>1, <1>2, <1>3, <1>4 DEF Bounded

\* A worker takes a job that waits.
LEMMA TakingBounded ==
  ASSUME NEW off \in Nat, NEW wt \in Table, NEW wk \in Crew, NEW r \in Nat, NEW a \in Nat,
         NEW b \in Blocks, NEW e, Bounded(off, wt, wk, r, a, b, e),
         NEW w \in Workers, NEW q \in Job, q.block = b,
         NEW new \in Crew, Moves(wk, w, NoJob, q, new),
         NEW less \in Table, OneMore(less, q.attempt, wt)
  PROVE  Bounded(off, less, new, r, a, b, e)
<1>1. PICK n \in Turns : n = q.attempt
  BY JobCounts
<1>2. Queued(wt) = Queued(less) + 1 /\ Chances(wt) = Chances(less) + Attempts - n
  BY <1>1, OneMoreWaits
<1>3. Busy(new, b) = Busy(wk, b) + On(q, b) - On(NoJob, b)
      /\ Lefts(new, b, e) = Lefts(wk, b, e) + Left(q, b, e) - Left(NoJob, b, e)
  BY CrewSums
<1>4. On(q, b) = 1 /\ On(NoJob, b) = 0 /\ Left(NoJob, b, e) = 0
      /\ Left(q, b, e) \in Nat /\ Left(q, b, e) <= Attempts - n
  BY <1>1, JobCounts, TurnsFinite, AttemptsAssumption
<1>5. /\ Queued(less) \in Nat /\ Chances(less) \in Nat
      /\ Busy(wk, b) \in Nat /\ Lefts(wk, b, e) \in Nat /\ Lefts(new, b, e) \in Nat
  BY BoundTypes
<1>6. PICK m \in Nat : m = (Attempts + r) * a
  BY Allowance
<1>7. n \in Nat /\ Attempts \in Nat
  BY TurnsFinite, AttemptsAssumption
<1> QED BY <1>2, <1>3, <1>4, <1>5, <1>6, <1>7 DEF Bounded

\* A job of the block that is thrown waits for its next attempt.
LEMMA RetryBounded ==
  ASSUME NEW off \in Nat, NEW wt \in Table, NEW wk \in Crew, NEW r \in Nat, NEW a \in Nat,
         NEW b \in Blocks, NEW e, Bounded(off, wt, wk, r, a, b, e),
         NEW w \in Workers, NEW q \in Job, q.block = b, q.attempt + 1 < Attempts,
         NEW new \in Crew, Moves(wk, w, q, NoJob, new),
         NEW more \in Table, OneMore(wt, q.attempt + 1, more)
  PROVE  Bounded(off, more, new, r, a, b, e)
<1>1. PICK n \in Turns : n = q.attempt
  BY JobCounts
<1>2. n + 1 \in Turns
  BY <1>1, AttemptsAssumption DEF Turns
<1>3. Queued(more) = Queued(wt) + 1 /\ Chances(more) = Chances(wt) + Attempts - (n + 1)
  BY <1>1, <1>2, OneMoreWaits
<1>4. Busy(new, b) = Busy(wk, b) + On(NoJob, b) - On(q, b)
      /\ Lefts(new, b, e) = Lefts(wk, b, e) + Left(NoJob, b, e) - Left(q, b, e)
  BY CrewSums
<1>7. n \in Nat /\ Attempts \in Nat
  BY TurnsFinite, AttemptsAssumption
<1>5. On(q, b) = 1 /\ On(NoJob, b) = 0 /\ Left(NoJob, b, e) = 0
      /\ Left(q, b, e) \in Nat /\ Left(q, b, e) >= Attempts - n - 1
  BY <1>1, <1>7, JobCounts
<1>6. /\ Queued(wt) \in Nat /\ Chances(wt) \in Nat
      /\ Busy(wk, b) \in Nat /\ Lefts(wk, b, e) \in Nat /\ Lefts(new, b, e) \in Nat
  BY BoundTypes
<1>8. PICK m \in Nat : m = (Attempts + r) * a
  BY Allowance
<1> QED BY <1>3, <1>4, <1>5, <1>6, <1>7, <1>8 DEF Bounded

\* A crash puts the jobs of the workers in T back, their attempt not counted.
Stalled(wk, T, b, n) == {w \in T : wk[w] # NoJob /\ wk[w].block = b /\ wk[w].attempt = n}
After(wt, wk, T, b) == [n \in Turns |-> wt[n] + Cardinality(Stalled(wk, T, b, n))]

LEMMA OneMoreStalls ==
  ASSUME NEW wt \in Table, NEW wk \in Crew, NEW b \in Blocks,
         NEW T \in SUBSET Workers, NEW x \in Workers, x \notin T
  PROVE  /\ After(wt, wk, T, b) \in Table /\ After(wt, wk, T \cup {x}, b) \in Table
         /\ wk[x] \in Job /\ wk[x].block = b =>
              OneMore(After(wt, wk, T, b), wk[x].attempt, After(wt, wk, T \cup {x}, b))
         /\ ~(wk[x] \in Job /\ wk[x].block = b) =>
              After(wt, wk, T \cup {x}, b) = After(wt, wk, T, b)
<1>1. PICK U : U = T \cup {x}
  OBVIOUS
<1>2. ASSUME NEW V \in SUBSET Workers, NEW n \in Turns
      PROVE  IsFiniteSet(Stalled(wk, V, b, n)) /\ Cardinality(Stalled(wk, V, b, n)) \in Nat
  BY WorkersAssumption, FS_Subset, FS_CardinalityType DEF Stalled
<1>3. \A V \in SUBSET Workers : After(wt, wk, V, b) \in Table
  BY <1>2 DEF After, Table
<1>j. wk[x] \in Job \cup {NoJob}
  BY DEF Crew
<1>4. ASSUME wk[x] \in Job, wk[x].block = b
      PROVE  OneMore(After(wt, wk, T, b), wk[x].attempt, After(wt, wk, U, b))
  <2>1. PICK m \in Turns : m = wk[x].attempt
    BY <1>4, JobCounts
  <2>2. wk[x] # NoJob
    BY <1>4, JobIsNotNoJob
  <2>3. \A n \in Turns : n # m => Stalled(wk, U, b, n) = Stalled(wk, T, b, n)
    BY <1>1, <2>1 DEF Stalled
  <2>4. Stalled(wk, U, b, m) = Stalled(wk, T, b, m) \cup {x} /\ x \notin Stalled(wk, T, b, m)
    BY <1>1, <1>4, <2>1, <2>2 DEF Stalled
  <2>5. Cardinality(Stalled(wk, U, b, m)) = Cardinality(Stalled(wk, T, b, m)) + 1
    BY <1>2, <2>4, FS_AddElement
  <2>6. \A n \in Turns : wt[n] \in Nat
    BY DEF Table
  <2>7. After(wt, wk, U, b)[m] = After(wt, wk, T, b)[m] + 1
    BY <1>2, <2>5, <2>6 DEF After
  <2>8. \A n \in Turns : n # m => After(wt, wk, U, b)[n] = After(wt, wk, T, b)[n]
    BY <2>3 DEF After
  <2> QED BY <2>1, <2>7, <2>8 DEF OneMore
<1>5. ASSUME ~(wk[x] \in Job /\ wk[x].block = b)
      PROVE  After(wt, wk, U, b) = After(wt, wk, T, b)
  <2>1. \A n \in Turns : Stalled(wk, U, b, n) = Stalled(wk, T, b, n)
    BY <1>1, <1>5, <1>j DEF Stalled
  <2> QED BY <2>1 DEF After
<1> QED BY <1>1, <1>3, <1>4, <1>5

LEMMA StallingBounded ==
  ASSUME NEW wt \in Table, NEW wk \in Crew, NEW b \in Blocks, NEW e
  PROVE  /\ After(wt, wk, Workers, b) \in Table
         /\ Queued(After(wt, wk, Workers, b)) <= Queued(wt) + Busy(wk, b)
         /\ Chances(After(wt, wk, Workers, b)) <= Chances(wt) + Lefts(wk, b, e) + Busy(wk, b)
<1>1. PICK f, g : /\ f = [w \in Workers |-> On(wk[w], b)]
                  /\ g = [w \in Workers |-> Left(wk[w], b, e)]
  OBVIOUS
<1>2. \A w \in Workers : f[w] \in Nat /\ g[w] \in Nat
  BY <1>1, CrewTypes
<1> DEFINE R(T) == /\ After(wt, wk, T, b) \in Table
                   /\ Queued(After(wt, wk, T, b)) <= Queued(wt) + SumFunctionOnSet(f, T)
                   /\ Chances(After(wt, wk, T, b))
                        <= Chances(wt) + SumFunctionOnSet(g, T) + SumFunctionOnSet(f, T)
           Q == {T \in SUBSET Workers : R(T)}
<1>3. {} \in Q
  <2>1. \A n \in Turns : Stalled(wk, {}, b, n) = {}
    BY DEF Stalled
  <2>2. After(wt, wk, {}, b) = wt
    BY <2>1, FS_EmptySet DEF After, Table
  <2>3. Queued(wt) \in Nat /\ Chances(wt) \in Nat
    BY BoundTypes
  <2> QED BY <2>2, <2>3, SumEmpty
<1>4. ASSUME NEW T \in SUBSET Workers, NEW x \in Workers \ T, T \in Q
      PROVE  T \cup {x} \in Q
  <2>1. PICK U : U = T \cup {x}
    OBVIOUS
  <2>2. U \subseteq Workers /\ IsFiniteSet(U) /\ IsFiniteSet(T) /\ U \ {x} = T /\ x \in U
    BY <1>4, <2>1, WorkersAssumption, FS_Subset
  <2>3. /\ SumFunctionOnSet(f, U) = f[x] + SumFunctionOnSet(f, T)
        /\ SumFunctionOnSet(g, U) = g[x] + SumFunctionOnSet(g, T)
    BY <1>2, <2>2, SumOfOneMore
  <2>4. SumFunctionOnSet(f, T) \in Nat /\ SumFunctionOnSet(g, T) \in Nat
    BY <1>2, <2>2, SumNat
  <2>5. PICK a1 \in Table, a2 \in Table : a1 = After(wt, wk, T, b) /\ a2 = After(wt, wk, U, b)
    BY <2>1, OneMoreStalls
  <2>6. /\ Queued(wt) \in Nat /\ Chances(wt) \in Nat /\ Queued(a1) \in Nat /\ Chances(a1) \in Nat
        /\ Queued(a2) \in Nat /\ Chances(a2) \in Nat
    BY BoundTypes
  <2>7. R(T)
    BY <1>4
  <2>8. PICK j \in Job \cup {NoJob} : j = wk[x]
    BY DEF Crew
  <2>9. f[x] = On(j, b) /\ g[x] = Left(j, b, e)
    BY <1>1, <2>8
  <2>10. CASE j \in Job /\ j.block = b
    <3>1. PICK n \in Turns : n = j.attempt
      BY <2>10, JobCounts
    <3>2. OneMore(a1, n, a2)
      BY <2>1, <2>5, <2>8, <2>10, <3>1, OneMoreStalls
    <3>3. Queued(a2) = Queued(a1) + 1 /\ Chances(a2) = Chances(a1) + Attempts - n
      BY <3>2, OneMoreWaits
    <3>4. n \in Nat /\ Attempts \in Nat
      BY TurnsFinite, AttemptsAssumption
    <3>5. f[x] = 1 /\ g[x] >= Attempts - n - 1 /\ g[x] \in Nat
      BY <1>2, <2>9, <2>10, <3>1, <3>4, JobCounts
    <3>6. R(U)
      BY <2>3, <2>4, <2>5, <2>6, <2>7, <3>3, <3>4, <3>5
    <3> QED BY <2>1, <2>2, <3>6
  <2>11. CASE ~(j \in Job /\ j.block = b)
    <3>1. a2 = a1
      BY <2>1, <2>5, <2>8, <2>11, OneMoreStalls
    <3>2. f[x] = 0 /\ g[x] = 0
      BY <2>9, <2>11, JobCounts
    <3>3. R(U)
      BY <2>3, <2>4, <2>5, <2>6, <2>7, <3>1, <3>2
    <3> QED BY <2>1, <2>2, <3>3
  <2> QED BY <2>10, <2>11
<1>5. SUBSET Workers \subseteq Q
  <2> HIDE DEF Q
  <2> QED BY <1>3, <1>4, WorkersAssumption, FiniteSubsets
<1>6. R(Workers)
  BY <1>5
<1>7. SumFunctionOnSet(f, Workers) \in Nat /\ SumFunctionOnSet(g, Workers) \in Nat
  BY <1>2, WorkersAssumption, SumNat
<1> QED BY <1>1, <1>6, <1>7, BoundTypes DEF Busy, Lefts

LEMMA CrashBounded ==
  ASSUME NEW off \in Nat, NEW wt \in Table, NEW wk \in Crew, NEW r \in Nat, NEW a \in Nat,
         NEW b \in Blocks, NEW e, Bounded(off, wt, wk, r, a, b, e),
         NEW new \in Crew, \A w \in Workers : new[w] = NoJob
  PROVE  Bounded(off, After(wt, wk, Workers, b), new, r + 1, a, b, e)
<1>1. PICK t \in Table : t = After(wt, wk, Workers, b)
  BY StallingBounded
<1>2. /\ Queued(t) <= Queued(wt) + Busy(wk, b)
      /\ Chances(t) <= Chances(wt) + Lefts(wk, b, e) + Busy(wk, b)
  BY <1>1, StallingBounded
<1>3. Busy(new, b) = 0 /\ Lefts(new, b, e) = 0
  <2>1. \A w \in Workers : /\ [v \in Workers |-> On(new[v], b)][w] = 0
                           /\ [v \in Workers |-> Left(new[v], b, e)][w] = 0
    BY JobCounts
  <2> QED BY <2>1, WorkersAssumption, SumOfNothing DEF Busy, Lefts
<1>4. PICK m \in Nat : m = (Attempts + r) * a /\ (Attempts + (r + 1)) * a = m + a
  BY Allowance
<1>5. /\ Queued(t) \in Nat /\ Chances(t) \in Nat /\ Queued(wt) \in Nat /\ Chances(wt) \in Nat
      /\ Busy(wk, b) \in Nat /\ Lefts(wk, b, e) \in Nat
  BY BoundTypes
<1> QED BY <1>1, <1>2, <1>3, <1>4, <1>5 DEF Bounded

\* The queue grows by one job of one block at a time.
Queues(b) == waiting' = Enqueued(b) /\ added' = [added EXCEPT ![b] = @ + 1]

LEMMA PollingQueues ==
  ASSUME TypeInv, PollingStep
  PROVE  UNCHANGED restarts /\ (UNCHANGED <<waiting, added>> \/ \E b \in Blocks : Queues(b))
<1>1. CASE NewBlock \/ StopListening
  BY <1>1 DEF NewBlock, StopListening, queueVars
<1>2. CASE \E s \in Starters : StartListening(s) \/ StartStep(s)
  BY <1>2 DEF StartListening, StartStep, TestConnectivity, GetFirstBlock, StartBlockProcessing,
              queueVars
<1>3. ASSUME NEW p \in Polls, AddBlock(p)
      PROVE  UNCHANGED restarts /\ (UNCHANGED <<waiting, added>> \/ \E b \in Blocks : Queues(b))
  <2>1. poll[p].next \in Blocks
    BY <1>3 DEF AddBlock, TypeInv, InRange
  <2> QED BY <1>3, <2>1 DEF AddBlock, Queues
<1>4. CASE \E p \in Polls : Tick(p) \/ PollStep(p)
  BY <1>3, <1>4 DEF PollStep, Tick, GetLatestBlock, ReadLast, SetLast, queueVars
<1> QED BY <1>1, <1>2, <1>4 DEF PollingStep

LEMMA TypesNow ==
  ASSUME TypeInv
  PROVE  /\ worker \in Crew /\ restarts \in Nat
         /\ waiting \in [Blocks -> Table] /\ added \in [Blocks -> Nat] /\ offers \in [Events -> Nat]
BY DEF TypeInv, TypeOK, QueueType, ProcessingType, Crew, Table, Turns

LEMMA TypesThen ==
  ASSUME TypeInv'
  PROVE  /\ worker' \in Crew /\ restarts' \in Nat
         /\ waiting' \in [Blocks -> Table] /\ added' \in [Blocks -> Nat]
         /\ offers' \in [Events -> Nat]
BY DEF TypeInv, TypeOK, QueueType, ProcessingType, Crew, Table, Turns

LEMMA WorkerMoves ==
  ASSUME TypeInv, NEW w \in Workers, NEW q, worker' = [worker EXCEPT ![w] = q]
  PROVE  \A old : old = worker[w] => Moves(worker, w, old, q, worker')
BY TypesNow DEF Crew, Moves

LEMMA TurnsOfQueue ==
  ASSUME TypeInv, NEW c \in Blocks, NEW n \in Turns, NEW b \in Blocks
  PROVE  /\ waiting' = Requeued(c, n) => IF b = c THEN OneMore(waiting[b], n, waiting'[b])
                                                  ELSE waiting'[b] = waiting[b]
         /\ waiting' = Dequeued(c, n) => IF b = c THEN OneMore(waiting'[b], n, waiting[b])
                                                  ELSE waiting'[b] = waiting[b]
<1>1. waiting \in [Blocks -> Table] /\ waiting[c] \in Table
  BY TypesNow
<1>2. waiting[c][n] \in Nat
  BY <1>1 DEF Table
<1>3. ASSUME waiting' = Requeued(c, n)
      PROVE  IF b = c THEN OneMore(waiting[b], n, waiting'[b]) ELSE waiting'[b] = waiting[b]
  <2>1. waiting'[b] = IF b = c THEN [waiting[c] EXCEPT ![n] = @ + 1] ELSE waiting[b]
    BY <1>1, <1>3 DEF Requeued
  <2> QED BY <1>1, <2>1 DEF OneMore, Table
<1>4. ASSUME waiting' = Dequeued(c, n)
      PROVE  IF b = c THEN OneMore(waiting'[b], n, waiting[b]) ELSE waiting'[b] = waiting[b]
  <2>1. waiting'[b] = IF b = c THEN [waiting[c] EXCEPT ![n] = @ - 1] ELSE waiting[b]
    BY <1>1, <1>4 DEF Dequeued
  <2>2. waiting[c][n] - 1 + 1 = waiting[c][n]
    BY <1>2
  <2> QED BY <1>1, <2>1, <2>2 DEF OneMore, Table
<1> QED BY <1>3, <1>4

LEMMA BoundedStep ==
  ASSUME TypeInv, TypeInv', WorkersFine, [Next]_vars, NEW b \in Blocks, NEW e \in EventsOf(b),
         Bounded(offers[e], waiting[b], worker, restarts, added[b], b, e)
  PROVE  Bounded(offers'[e], waiting'[b], worker', restarts', added'[b], b, e)
<1>e. e \in Events
  BY EventsKnown
<1>1. PICK off \in Nat, wt \in Table, wk \in Crew, r \in Nat, a \in Nat :
        off = offers[e] /\ wt = waiting[b] /\ wk = worker /\ r = restarts /\ a = added[b]
  BY <1>e, TypesNow
<1>2. PICK off2 \in Nat, wt2 \in Table, wk2 \in Crew, r2 \in Nat, a2 \in Nat :
        /\ off2 = offers'[e] /\ wt2 = waiting'[b] /\ wk2 = worker'
        /\ r2 = restarts' /\ a2 = added'[b]
  BY <1>e, TypesThen
<1>3. Bounded(off, wt, wk, r, a, b, e)
  BY <1>1
<1> SUFFICES Bounded(off2, wt2, wk2, r2, a2, b, e)
  BY <1>2
<1>4. CASE UNCHANGED vars
  BY <1>1, <1>2, <1>3, <1>4 DEF vars, queueVars, processingVars
<1>5. CASE PollingStep /\ UNCHANGED processingVars
  <2>1. off2 = off /\ wk2 = wk /\ r2 = r
    BY <1>1, <1>2, <1>5, PollingQueues DEF processingVars
  <2>2. CASE UNCHANGED <<waiting, added>>
    BY <1>1, <1>2, <1>3, <2>1, <2>2
  <2>3. CASE \E c \in Blocks : Queues(c)
    <3>1. PICK c \in Blocks : Queues(c)
      BY <2>3
    <3>2. 0 \in Turns /\ waiting' = Requeued(c, 0)
      BY <3>1, AttemptsAssumption DEF Queues, Enqueued, Requeued, Turns
    <3>3. a2 = IF b = c THEN a + 1 ELSE a
      BY <1>1, <1>2, <3>1, TypesNow DEF Queues
    <3>4. IF b = c THEN OneMore(wt, 0, wt2) ELSE wt2 = wt
      BY <1>1, <1>2, <3>2, TurnsOfQueue
    <3> QED BY <1>3, <2>1, <3>3, <3>4, QueueingBounded
  <2> QED BY <1>5, <2>2, <2>3, PollingQueues
<1>6. CASE ProcessingStep
  <2>1. PICK w \in Workers : WorkerStep(w)
    BY <1>6 DEF ProcessingStep
  <2>2. \/ TakeJob(w)
        \/ worker[w] \in Job /\ (Throw(w) \/ Advances(w) \/ Completes(w))
    BY <2>1, WorkerSteps
  <2>3. PICK old \in Job \cup {NoJob} : old = worker[w] /\ old = wk[w]
    BY <1>1 DEF Crew
  <2>o. On(old, b) \in Nat /\ Left(old, b, e) \in Nat /\ On(NoJob, b) = 0 /\ Left(NoJob, b, e) = 0
    BY JobCounts
  \* The job ends, or is put aside.
  <2>4. ASSUME worker' = [worker EXCEPT ![w] = NoJob], off2 = off, r2 = r, a2 = a, wt2 = wt
        PROVE  Bounded(off2, wt2, wk2, r2, a2, b, e)
    <3>1. Moves(wk, w, old, NoJob, wk2)
      BY <1>1, <1>2, <2>3, <2>4, WorkerMoves
    <3> QED BY <1>3, <2>4, <2>o, <3>1, WorkingBounded
  <2>5. CASE TakeJob(w)
    <3>1. PICK c \in Blocks, n \in Turns :
            /\ waiting' = Dequeued(c, n)
            /\ worker' = [worker EXCEPT ![w] = NewJob(c, n)]
      BY <2>5 DEF TakeJob, NewJob, Turns
    <3>2. PICK q \in Job : q = NewJob(c, n) /\ q.block = c /\ q.attempt = n
      BY NewJobFine DEF Turns
    <3>3. old = NoJob /\ off2 = off /\ r2 = r /\ a2 = a
      BY <1>1, <1>2, <2>3, <2>5 DEF TakeJob
    <3>4. Moves(wk, w, NoJob, q, wk2)
      BY <1>1, <1>2, <2>3, <3>1, <3>2, <3>3, WorkerMoves
    <3>5. IF b = c THEN OneMore(wt2, n, wt) ELSE wt2 = wt
      BY <1>1, <1>2, <3>1, TurnsOfQueue
    <3>6. CASE b = c
      BY <1>3, <3>2, <3>3, <3>4, <3>5, <3>6, TakingBounded
    <3>7. CASE b # c
      <4>1. On(q, b) = 0 /\ Left(q, b, e) = 0
        BY <3>2, <3>7, JobCounts
      <4> QED BY <1>3, <2>o, <3>3, <3>4, <3>5, <3>7, <4>1, WorkingBounded
    <3> QED BY <3>6, <3>7
  <2>6. CASE worker[w] \in Job /\ Throw(w)
    <3>1. off2 = off /\ r2 = r /\ a2 = a /\ worker' = [worker EXCEPT ![w] = NoJob]
      BY <1>1, <1>2, <2>6 DEF Throw
    <3>2. PICK q \in Job, c \in Blocks, n \in Turns : q = old /\ c = q.block /\ n = q.attempt
      BY <2>3, <2>6 DEF Job, Turns
    <3>3. CASE n + 1 < Attempts
      <4>1. waiting' = Requeued(c, n + 1) /\ n + 1 \in Turns
        BY <2>3, <2>6, <3>2, <3>3, AttemptsAssumption DEF Throw, Turns
      <4>2. IF b = c THEN OneMore(wt, n + 1, wt2) ELSE wt2 = wt
        BY <1>1, <1>2, <4>1, TurnsOfQueue
      <4>3. CASE b = c
        <5>1. Moves(wk, w, q, NoJob, wk2)
          BY <1>1, <1>2, <2>3, <3>1, <3>2, WorkerMoves
        <5> QED BY <1>3, <3>1, <3>2, <3>3, <4>2, <4>3, <5>1, RetryBounded
      <4>4. CASE b # c
        BY <2>4, <3>1, <4>2, <4>4
      <4> QED BY <4>3, <4>4
    <3>4. CASE ~(n + 1 < Attempts)
      <4>1. wt2 = wt
        BY <1>1, <1>2, <2>3, <2>6, <3>2, <3>4 DEF Throw
      <4> QED BY <2>4, <3>1, <4>1
    <3> QED BY <3>3, <3>4
  <2>7. CASE worker[w] \in Job /\ Completes(w)
    BY <1>1, <1>2, <2>4, <2>7 DEF Completes
  <2>8. CASE worker[w] \in Job /\ Advances(w)
    <3>1. old \in Job /\ WorkFine(old) /\ r2 = r /\ a2 = a /\ wt2 = wt
      BY <1>1, <1>2, <2>3, <2>8, JobIsNotNoJob DEF Advances, WorkersFine
    <3>2. Ahead(old) \subseteq EventsOf(old.block) /\ old.block \in Blocks
      BY <3>1 DEF WorkFine, Job
    \* It goes on with no more ahead of it, and with e no longer ahead if e was offered.
    <3>3. ASSUME NEW left, NEW E, GoesOn(w, left, E), left \subseteq Ahead(old),
                 off2 = off \/ (off2 = off + 1 /\ e \in Ahead(old) \ left)
          PROVE  Bounded(off2, wt2, wk2, r2, a2, b, e)
      <4>1. PICK q \in Job : /\ worker' = [worker EXCEPT ![w] = q] /\ Ahead(q) = left
                             /\ q.block = old.block /\ q.attempt = old.attempt
        BY <2>3, <3>3 DEF GoesOn
      <4>2. Moves(wk, w, old, q, wk2)
        BY <1>1, <1>2, <2>3, <4>1, WorkerMoves
      <4>3. CASE old.block = b
        <5>1. PICK n \in Nat : n = old.attempt /\ n = q.attempt
          BY <3>1, <4>1, <4>3, JobCounts, TurnsFinite
        <5>2. /\ On(old, b) = 1 /\ Left(old, b, e) = Attempts - n - (IF e \in Ahead(old) THEN 0 ELSE 1)
              /\ On(q, b) = 1 /\ Left(q, b, e) = Attempts - n - (IF e \in left THEN 0 ELSE 1)
          BY <3>1, <4>1, <4>3, <5>1, JobCounts
        <5>3. off2 + Left(q, b, e) <= off + Left(old, b, e)
          BY <3>3, <5>2, AttemptsAssumption
        <5>4. On(q, b) <= On(old, b)
          BY <5>2
        <5> QED BY <1>3, <3>1, <4>2, <5>3, <5>4, WorkingBounded
      <4>4. CASE old.block # b
        <5>1. On(q, b) = 0 /\ Left(q, b, e) = 0
          BY <4>1, <4>4, JobCounts
        <5>2. e \notin Ahead(old)
          BY <3>2, <4>4, EventsAssumption
        <5>3. On(q, b) <= On(old, b) /\ off2 + Left(q, b, e) <= off + Left(old, b, e)
          BY <2>o, <3>3, <5>1, <5>2
        <5> QED BY <1>3, <3>1, <4>2, <5>3, WorkingBounded
      <4> QED BY <4>3, <4>4
    <3>5. CASE \E f \in Ahead(old) : /\ GoesOn(w, Ahead(old) \ {f}, {})
                                     /\ offers' = [offers EXCEPT ![f] = @ + 1]
      <4>1. PICK f \in Ahead(old) : /\ GoesOn(w, Ahead(old) \ {f}, {})
                                    /\ offers' = [offers EXCEPT ![f] = @ + 1]
        BY <3>5
      <4>2. off2 = IF f = e THEN off + 1 ELSE off
        BY <1>1, <1>2, <1>e, <4>1, TypesNow
      <4>3. Ahead(old) \ {f} \subseteq Ahead(old) /\ (f = e => e \in Ahead(old) \ (Ahead(old) \ {f}))
        OBVIOUS
      <4> QED BY <3>3, <4>1, <4>2, <4>3
    <3>6. CASE \E given \in SUBSET Ahead(old) : GoesOn(w, Ahead(old) \ given, given) /\ UNCHANGED offers
      <4>1. PICK given \in SUBSET Ahead(old) : GoesOn(w, Ahead(old) \ given, given)
        BY <3>6
      <4>2. Ahead(old) \ given \subseteq Ahead(old) /\ off2 = off
        BY <1>1, <1>2, <3>6
      <4> QED BY <3>3, <4>1, <4>2
    <3> QED BY <2>3, <2>8, <3>5, <3>6 DEF Advances
  <2> QED BY <2>2, <2>5, <2>6, <2>7, <2>8
<1>7. CASE Restart
  <2>1. /\ off2 = off /\ r2 = r + 1 /\ a2 = a /\ \A w \in Workers : wk2[w] = NoJob
    BY <1>1, <1>2, <1>7 DEF Restart, ProcessingRestart
  <2>2. wt2 = After(wt, wk, Workers, b)
    BY <1>1, <1>2, <1>7 DEF Restart, ProcessingRestart, After, Stalled, InProgress, Turns
  <2> QED BY <1>3, <2>1, <2>2, CrashBounded
<1> QED BY <1>4, <1>5, <1>6, <1>7 DEF Next

\* However many polls queue a block, jobs fail and crashes interrupt them, an event is
\* offered at most once in each attempt, an attempt once more for each crash.
THEOREM RetriesBounded == Spec => []RepeatsBounded
<1>1. Init => RepeatInv
  <2> SUFFICES ASSUME Init, NEW b \in Blocks, NEW e \in EventsOf(b)
               PROVE  Bounded(offers[e], waiting[b], worker, restarts, added[b], b, e)
    BY DEF RepeatInv
  <2>1. TypeInv /\ e \in Events
    BY InitTypeInv, EventsKnown
  <2>2. PICK wt \in Table, wk \in Crew : wt = waiting[b] /\ wk = worker
    BY <2>1, TypesNow
  <2>3. offers[e] = 0 /\ restarts = 0 /\ added[b] = 0
    BY <2>1 DEF Init, QueueInit, ProcessingInit
  <2>4. (\A n \in Turns : wt[n] = 0) /\ \A w \in Workers : wk[w] = NoJob
    BY <2>2 DEF Init, QueueInit, ProcessingInit, Turns
  <2>5. Queued(wt) = 0
    BY <2>4, TurnsFinite, SumOfNothing DEF Queued
  <2>6. Chances(wt) = 0
    <3>1. \A n \in Turns : 0 * (Attempts - n) = 0
      BY TurnsFinite
    <3>2. \A n \in Turns : Chance(wt)[n] = 0
      BY <2>4, <3>1 DEF Chance
    <3> QED BY <3>2, TurnsFinite, SumOfNothing DEF Chances
  <2>7. Busy(wk, b) = 0 /\ Lefts(wk, b, e) = 0
    <3>1. \A w \in Workers : /\ [v \in Workers |-> On(wk[v], b)][w] = 0
                             /\ [v \in Workers |-> Left(wk[v], b, e)][w] = 0
      BY <2>4, JobCounts
    <3> QED BY <3>1, WorkersAssumption, SumOfNothing DEF Busy, Lefts
  <2>8. (Attempts + 0) * 0 \in Nat
    BY Allowance
  <2> QED BY <2>2, <2>3, <2>5, <2>6, <2>7, <2>8 DEF Bounded
<1>2. TypeInv /\ TypeInv' /\ OfferInv /\ RepeatInv /\ [Next]_vars => RepeatInv'
  BY BoundedStep DEF RepeatInv, OfferInv
<1>3. Init => OfferInv
  BY DEF Init, ProcessingInit, OfferInv, WorkersFine, CompletedIsOffered
<1>4. TypeInv /\ OfferInv /\ [Next]_vars => OfferInv'
  BY OfferStep
<1>5. TypeInv /\ RepeatInv => RepeatsBounded
  <2> SUFFICES ASSUME TypeInv, NEW b \in Blocks, NEW e \in EventsOf(b),
                      Bounded(offers[e], waiting[b], worker, restarts, added[b], b, e)
               PROVE  offers[e] <= (Attempts + restarts) * added[b]
    BY DEF RepeatInv, RepeatsBounded
  <2>1. PICK off \in Nat, wt \in Table, wk \in Crew, r \in Nat, a \in Nat :
          off = offers[e] /\ wt = waiting[b] /\ wk = worker /\ r = restarts /\ a = added[b]
    BY TypesNow, EventsKnown
  <2>2. PICK m \in Nat : m = (Attempts + r) * a
    BY Allowance
  <2> QED BY <2>1, <2>2, BoundTypes DEF Bounded
<1> QED BY <1>1, <1>2, <1>3, <1>4, <1>5, TypeInvariant, PTL DEF Spec
=============================================================================
