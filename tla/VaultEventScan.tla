---------------------------- MODULE VaultEventScan ----------------------------
(* AlchemyStakingService.getVaultEvents: the block of an instant is found by a  *)
(* binary search over the timestamps of a node's blocks, the range is limited,  *)
(* and its logs are fetched in chunks, some of which may fail. A block never    *)
(* changes once it is there, so that only the reads of the height of the chain, *)
(* the probes of the search and the requests for logs are steps.                *)
EXTENDS Integers

CONSTANTS
  NoTime,    \* the upper instant when the caller gives none
  Top,       \* bound on the height of the chain
  Chains,    \* the timestamps the blocks 0 .. Top may have
  Instants,  \* the instants a caller asks about
  BlockTime, Window, Close,  \* 2 s, 1000 blocks, 60 s
  Chunk, MaxScan             \* 500 and 10000 blocks

ASSUME ScanAssumption ==
  /\ Top \in Nat
  /\ Chains \subseteq [0 .. Top -> Nat]
  /\ \A f \in Chains : \A i, j \in 0 .. Top : i <= j => f[i] <= f[j]
  /\ Instants \subseteq Nat \ {0} /\ NoTime \notin Instants
  /\ BlockTime \in Nat \ {0} /\ Window \in Nat /\ Close \in Nat
  /\ Chunk \in Nat \ {0} /\ MaxScan \in Nat \ {0}

VARIABLES stamp,   \* the timestamp of every block, mined or to be mined
          height,  \* the latest block
          scanPc,
          side,    \* the end of the range that is searched
          from, until,  \* the instants asked for
          tip,     \* latestBlock as last read
          low, high, result,
          first, last,  \* the range of blocks
          next,    \* startBlock of the loop
          logs,    \* how often the logs of a block were collected
          lost     \* blocks of chunks that failed

scanVars == <<stamp, height, scanPc, side, from, until, tip, low, high, result,
              first, last, next, logs, lost>>

Blocks == 0 .. Top
Target == IF side = "first" THEN from ELSE until
LargerOf(a, b) == IF a < b THEN b ELSE a
SmallerOf(a, b) == IF a < b THEN a ELSE b

\* The block is within a minute of the instant.
IsClose(b, t) == stamp[b] - t \in (-Close) .. Close

Mine ==
  /\ height < Top /\ scanPc # "idle"
  /\ height' = height + 1
  /\ UNCHANGED <<stamp, scanPc, side, from, until, tip, low, high, result, first, last,
                 next, logs, lost>>

\* getVaultEvents reads the latest block before it searches for the instants.
GetVaultEvents ==
  /\ scanPc = "idle"
  /\ \E t \in Instants, u \in Instants \cup {NoTime} : from' = t /\ until' = u
  /\ tip' = height /\ last' = height /\ scanPc' = "search"
  /\ UNCHANGED <<stamp, height, side, low, high, result, first, next, logs, lost>>

\* getBlockByTimestamp: an instant that is not past is the latest block.
FindLatest ==
  /\ scanPc = "search" /\ Target >= stamp[height]
  /\ tip' = height /\ result' = height /\ scanPc' = "found"
  /\ UNCHANGED <<stamp, height, side, from, until, low, high, first, last, next, logs,
                 lost>>

\* Where the block would be if blocks took BlockTime, give or take Window blocks;
\* an end of the window that is on the wrong side goes to the end of the chain.
Estimate == LargerOf(0, height - (stamp[height] - Target) \div BlockTime)
WindowLow == LargerOf(0, Estimate - Window)
WindowHigh == SmallerOf(height, Estimate + Window)

ChooseWindowOnly ==
  /\ scanPc = "search" /\ Target < stamp[height]
  /\ tip' = height /\ low' = WindowLow /\ high' = WindowHigh /\ scanPc' = "probe"
  /\ UNCHANGED <<stamp, height, side, from, until, result, first, last, next, logs, lost>>

ChooseWindow ==
  /\ scanPc = "search" /\ Target < stamp[height]
  /\ tip' = height
  /\ low' = IF stamp[WindowLow] > Target THEN 0 ELSE WindowLow
  /\ high' = IF stamp[WindowHigh] < Target THEN height ELSE WindowHigh
  /\ scanPc' = "probe"
  /\ UNCHANGED <<stamp, height, side, from, until, result, first, last, next, logs, lost>>

Mid == (low + high) \div 2

ProbeKeepsMid ==
  /\ scanPc = "probe" /\ low <= high
  /\ IF IsClose(Mid, Target)
       THEN result' = Mid /\ scanPc' = "found" /\ UNCHANGED <<low, high>>
       ELSE /\ IF stamp[Mid] < Target THEN low' = Mid /\ UNCHANGED high
                                      ELSE high' = Mid /\ UNCHANGED low
            /\ UNCHANGED <<result, scanPc>>
  /\ UNCHANGED <<stamp, height, side, from, until, tip, first, last, next, logs, lost>>

Probe ==
  /\ scanPc = "probe" /\ low <= high
  /\ IF IsClose(Mid, Target)
       THEN result' = Mid /\ scanPc' = "found" /\ UNCHANGED <<low, high>>
       ELSE /\ IF stamp[Mid] < Target THEN low' = Mid + 1 /\ UNCHANGED high
                                      ELSE high' = Mid - 1 /\ UNCHANGED low
            /\ UNCHANGED <<result, scanPc>>
  /\ UNCHANGED <<stamp, height, side, from, until, tip, first, last, next, logs, lost>>

StopSearchBefore ==
  /\ scanPc = "probe" /\ low > high
  /\ result' = high - 1 /\ scanPc' = "found"
  /\ UNCHANGED <<stamp, height, side, from, until, tip, low, high, first, last, next,
                 logs, lost>>

StopSearch ==
  /\ scanPc = "probe" /\ low > high
  /\ result' = high /\ scanPc' = "found"
  /\ UNCHANGED <<stamp, height, side, from, until, tip, low, high, first, last, next,
                 logs, lost>>

\* The block that was found is an end of the range; without an upper instant
\* the other end is the latest block read at the start.
UseFirst ==
  /\ scanPc = "found" /\ side = "first"
  /\ first' = result
  /\ IF until = NoTime THEN scanPc' = "limit" /\ UNCHANGED side
                       ELSE scanPc' = "search" /\ side' = "last"
  /\ UNCHANGED <<stamp, height, from, until, tip, low, high, result, last, next, logs,
                 lost>>

UseLast ==
  /\ scanPc = "found" /\ side = "last"
  /\ last' = result /\ scanPc' = "limit"
  /\ UNCHANGED <<stamp, height, side, from, until, tip, low, high, result, first, next,
                 logs, lost>>

LimitRange ==
  /\ scanPc = "limit"
  /\ next' = IF last - first + 1 > MaxScan THEN LargerOf(0, last - MaxScan + 1) ELSE first
  /\ scanPc' = "scan"
  /\ UNCHANGED <<stamp, height, side, from, until, tip, low, high, result, first, last,
                 logs, lost>>

ChunkBlocksOneMore == next .. SmallerOf(next + Chunk, last)
ChunkBlocks == next .. SmallerOf(next + Chunk - 1, last)

GetLogs ==
  /\ scanPc = "scan" /\ next <= last /\ next >= 0
  /\ logs' = [b \in Blocks |-> IF b \in ChunkBlocks THEN logs[b] + 1 ELSE logs[b]]
  /\ next' = next + Chunk
  /\ UNCHANGED <<stamp, height, scanPc, side, from, until, tip, low, high, result, first,
                 last, lost>>

\* A failed request is logged and the loop goes on; one for block -1 always fails.
GetLogsFails ==
  /\ scanPc = "scan" /\ next <= last
  /\ lost' = lost \cup ChunkBlocks
  /\ next' = next + Chunk
  /\ UNCHANGED <<stamp, height, scanPc, side, from, until, tip, low, high, result, first,
                 last, logs>>

ReturnEvents ==
  /\ scanPc = "scan" /\ next > last
  /\ scanPc' = "done"
  /\ UNCHANGED <<stamp, height, side, from, until, tip, low, high, result, first, last,
                 next, logs, lost>>

\* Any other request to the node that fails ends the query.
QueryFails ==
  /\ scanPc \in {"search", "probe"} \/ (scanPc = "scan" /\ next > last)
  /\ scanPc' = "failed"
  /\ UNCHANGED <<stamp, height, side, from, until, tip, low, high, result, first, last,
                 next, logs, lost>>

\* ------------------------------------------------------------ specification
ScanInit ==
  /\ stamp \in Chains /\ height \in Blocks
  /\ scanPc = "idle" /\ side = "first"
  /\ from = 0 /\ until = NoTime
  /\ tip = 0 /\ low = 0 /\ high = 0 /\ result = 0
  /\ first = 0 /\ last = 0 /\ next = 0
  /\ logs = [b \in Blocks |-> 0] /\ lost = {}

ScanNext ==
  \/ Mine \/ GetVaultEvents \/ FindLatest \/ ChooseWindow \/ Probe \/ StopSearch
  \/ UseFirst \/ UseLast \/ LimitRange \/ GetLogs \/ GetLogsFails \/ ReturnEvents
  \/ QueryFails

ScanSpec == ScanInit /\ [][ScanNext]_scanVars

\* Every request to the node is answered or fails, and the query goes on.
ScanGoesOn ==
  \/ FindLatest \/ ChooseWindow \/ Probe \/ StopSearch \/ UseFirst \/ UseLast
  \/ LimitRange \/ GetLogs \/ GetLogsFails \/ ReturnEvents

FairScanSpec == ScanSpec /\ WF_scanVars(ScanGoesOn)

\* --------------------------------------------------------------- properties
\* Every variable of the scan has its type; a search may end at block -1.
ScanTypeOK ==
  /\ stamp \in Chains /\ height \in Blocks /\ tip \in Blocks
  /\ scanPc \in {"idle", "search", "probe", "found", "limit", "scan", "done", "failed"}
  /\ side \in {"first", "last"}
  /\ from \in Nat /\ until \in Instants \cup {NoTime}
  /\ side = "last" => until # NoTime
  /\ low \in 0 .. Top + 1 /\ high \in -1 .. Top
  /\ result \in -1 .. Top /\ first \in -1 .. Top /\ last \in -1 .. Top
  /\ next \in Int
  /\ logs \in [Blocks -> Nat] /\ lost \in SUBSET Int

\* No block up to h lies strictly between block r and the instant t.
Located(r, t, h) ==
  \/ r \in 0 .. h /\ IsClose(r, t)
  \/ /\ r \in 0 .. h => stamp[r] <= t
     /\ r + 1 \in 0 .. h => t <= stamp[r + 1]

\* Whatever the block times and however far off the estimate is, the search ends at a
\* block within a minute of the instant, or at the last one before it.
BlockFound == scanPc = "found" => Located(result, Target, tip)

\* A finished scan has collected exactly once the logs of every block of the last
\* MaxScan that is more than a minute inside the interval asked for, unless the
\* request for its chunk failed; and no block's logs twice.
ScanComplete ==
  /\ \A b \in Blocks : logs[b] <= 1
  /\ scanPc = "done" =>
       \A b \in Blocks :
         /\ b <= tip /\ stamp[b] > from + Close
         /\ IF until = NoTime THEN b <= last ELSE stamp[b] + Close < until
         /\ b > last - MaxScan /\ b \notin lost
         => logs[b] = 1

\* A query that was made ends, however the estimate misses and the chain grows: every
\* probe takes a block from the range, and the chunks move past its end.
ScanEnds == scanPc # "idle" ~> scanPc \in {"done", "failed"}
=============================================================================
