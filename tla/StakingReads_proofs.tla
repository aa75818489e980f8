-------------------------- MODULE StakingReads_proofs --------------------------
(* Theorems about StakingReads and the two queries it puts side by side: the     *)
(* scan of a vault's events, for any chain whose timestamps never decrease, any   *)
(* instants and any window, chunk and limit; and the pages of a wallet's          *)
(* transactions, for any history, limit, size of a page and order.                *)
EXTENDS StakingReads, SumTheorems

-----------------------------------------------------------------------------
(* The scan of a vault's events *)

\* ------------------------------------------------------------------- lemmas
LEMMA QuotientType ==
  ASSUME NEW n \in Nat, NEW d \in Nat \ {0}
  PROVE  n \div d \in Nat
OBVIOUS

LEMMA MidpointBetween ==
  ASSUME NEW a \in Int, NEW b \in Int, a <= b
  PROVE  (a + b) \div 2 \in a .. b
OBVIOUS

LEMMA NextLater == \A a, b \in Int : a <= b => a <= b + 1
OBVIOUS

\* The timestamps of a chain are natural numbers and never decrease.
LEMMA StampsOrdered ==
  ASSUME stamp \in Chains
  PROVE  /\ \A b \in Blocks : stamp[b] \in Nat
         /\ \A i, j \in Blocks : i <= j => stamp[i] <= stamp[j]
BY ScanAssumption DEF Blocks

\* The window lies within the chain, whatever the estimate is.
LEMMA WindowType ==
  ASSUME stamp \in Chains, height \in Blocks, Target \in Nat, Target < stamp[height]
  PROVE  WindowLow \in 0 .. height /\ WindowHigh \in 0 .. height /\ WindowLow <= WindowHigh
<1> DEFINE ahead == (stamp[height] - Target) \div BlockTime
<1>1. ahead \in Nat
  <2>1. stamp[height] - Target \in Nat
    BY StampsOrdered
  <2> QED BY <2>1, QuotientType, ScanAssumption
<1> HIDE DEF ahead
<1>2. Estimate = LargerOf(0, height - ahead)
  BY DEF Estimate, ahead
<1>3. Estimate \in 0 .. height
  BY <1>1, <1>2 DEF LargerOf, Blocks
<1> HIDE DEF ahead
<1> QED BY <1>3, ScanAssumption DEF WindowLow, WindowHigh, LargerOf, SmallerOf, Blocks

\* ----------------------------------------------------------- type correctness
LEMMA TargetType ==
  ASSUME ScanTypeOK PROVE Target \in Nat
BY ScanAssumption DEF ScanTypeOK, Target

LEMMA ScanInitType == ScanInit => ScanTypeOK
BY ScanAssumption DEF ScanInit, ScanTypeOK, Blocks

\* The bounds of the search that keep a probe within the chain.
SearchRange ==
  /\ tip <= height
  /\ scanPc = "idle" => side = "first"
  /\ scanPc = "probe" => low <= high + 1 /\ high <= tip
  /\ scanPc = "found" => result <= tip

LEMMA ScanInitRange == ScanInit => SearchRange
BY DEF ScanInit, SearchRange, Blocks

LEMMA ScanStepType ==
  ASSUME ScanTypeOK, SearchRange, [ScanNext]_scanVars
  PROVE  ScanTypeOK' /\ SearchRange'
<1> USE DEF ScanTypeOK, SearchRange
<1>0. Top \in Nat
  BY ScanAssumption
<1>1. CASE Mine
  BY <1>0, <1>1 DEF Mine, Blocks
<1>2. CASE GetVaultEvents
  <2>1. from' \in Nat /\ until' \in Instants \cup {NoTime} /\ side' = side
    BY <1>2, ScanAssumption DEF GetVaultEvents
  <2>2. side = "last" => until' # NoTime
    BY <1>2 DEF GetVaultEvents
  <2> QED BY <1>0, <1>2, <2>1, <2>2 DEF GetVaultEvents, Blocks
<1>3. CASE FindLatest
  BY <1>0, <1>3 DEF FindLatest, Blocks
<1>4. CASE ChooseWindow
  <2>1. WindowLow \in 0 .. height /\ WindowHigh \in 0 .. height /\ WindowLow <= WindowHigh
    BY <1>4, WindowType, TargetType DEF ChooseWindow
  <2>2. /\ low' = 0 \/ low' = WindowLow
        /\ high' = height \/ high' = WindowHigh
    BY <1>4 DEF ChooseWindow
  <2>3. low' \in 0 .. height /\ high' \in 0 .. height /\ low' <= high'
    BY <1>0, <2>1, <2>2 DEF Blocks
  <2>4. /\ tip' = height /\ scanPc' = "probe"
        /\ UNCHANGED <<stamp, height, side, from, until, result, first, last, next, logs,
                       lost>>
    BY <1>4 DEF ChooseWindow
  <2>5. height \in 0 .. Top
    BY DEF Blocks
  <2>6. low' \in 0 .. Top + 1 /\ high' \in -1 .. Top
    BY <1>0, <2>3, <2>5
  <2>7. high' <= tip' /\ low' <= high' + 1
    <3>1. tip' = height /\ high' <= height
      BY <1>0, <2>3, <2>4, <2>5
    <3>2. low' \in Int /\ high' \in Int /\ low' <= high'
      BY <1>0, <2>3, <2>5
    <3> QED BY <3>1, <3>2, NextLater
  <2>8. tip' \in Blocks /\ tip' <= height'
    BY <1>0, <2>4, <2>5 DEF Blocks
  <2> QED BY <2>4, <2>6, <2>7, <2>8
<1>5. CASE Probe
  <2>1. Mid \in low .. high
    BY <1>5, MidpointBetween DEF Probe, Mid
  <2>2. \/ result' = Mid /\ scanPc' = "found" /\ UNCHANGED <<low, high>>
        \/ low' = Mid + 1 /\ UNCHANGED <<high, result, scanPc>>
        \/ high' = Mid - 1 /\ UNCHANGED <<low, result, scanPc>>
    BY <1>5 DEF Probe
  <2>3. /\ scanPc = "probe" /\ low <= high
        /\ UNCHANGED <<stamp, height, side, from, until, tip, first, last, next, logs, lost>>
    BY <1>5 DEF Probe
  <2>4. /\ low \in 0 .. Top + 1 /\ high \in -1 .. Top /\ Mid \in 0 .. Top /\ low <= Mid /\ Mid <= high
        /\ high <= tip
    BY <1>0, <2>1, <2>3
  <2>5. CASE result' = Mid /\ scanPc' = "found" /\ UNCHANGED <<low, high>>
    <3>1. result' \in -1 .. Top /\ result' <= tip
      BY <1>0, <2>4, <2>5 DEF Blocks
    <3> QED BY <2>3, <2>5, <3>1
  <2>6. CASE low' = Mid + 1 /\ UNCHANGED <<high, result, scanPc>>
    <3>1. low' \in 0 .. Top + 1 /\ low' <= high + 1
      BY <1>0, <2>4, <2>6
    <3> QED BY <2>3, <2>6, <3>1
  <2>7. CASE high' = Mid - 1 /\ UNCHANGED <<low, result, scanPc>>
    <3>1. high' \in -1 .. Top /\ low <= high' + 1 /\ high' <= tip
      BY <1>0, <2>4, <2>7 DEF Blocks
    <3> QED BY <2>3, <2>7, <3>1
  <2> QED BY <2>2, <2>5, <2>6, <2>7
<1>6. CASE StopSearch
  BY <1>6 DEF StopSearch
<1>7. CASE UseFirst
  BY <1>7 DEF UseFirst
<1>8. CASE UseLast
  BY <1>8 DEF UseLast
<1>9. CASE LimitRange
  BY <1>0, <1>9, ScanAssumption DEF LimitRange, LargerOf
<1>10. CASE GetLogs
  <2>1. logs' \in [Blocks -> Nat]
    BY <1>10 DEF GetLogs
  <2> QED BY <1>10, <2>1, ScanAssumption DEF GetLogs
<1>11. CASE GetLogsFails
  <2>1. ChunkBlocks \subseteq Int
    BY <1>11, ScanAssumption DEF ChunkBlocks, SmallerOf
  <2> QED BY <1>11, <2>1, ScanAssumption DEF GetLogsFails
<1>12. CASE ReturnEvents
  BY <1>12 DEF ReturnEvents
<1>13. CASE QueryFails
  BY <1>13 DEF QueryFails
<1>14. CASE UNCHANGED scanVars
  BY <1>14 DEF scanVars
<1> QED
  BY <1>1, <1>2, <1>3, <1>4, <1>5, <1>6, <1>7, <1>8, <1>9, <1>10, <1>11, <1>12, <1>13,
     <1>14 DEF ScanNext

\* Every variable of a scan keeps its type, and no block is asked for outside the chain.
THEOREM ScanTypeCorrect == ScanSpec => [](ScanTypeOK /\ SearchRange)
<1>1. ScanInit => ScanTypeOK /\ SearchRange
  BY ScanInitType, ScanInitRange
<1>2. (ScanTypeOK /\ SearchRange) /\ [ScanNext]_scanVars => (ScanTypeOK /\ SearchRange)'
  BY ScanStepType
<1> QED BY <1>1, <1>2, PTL DEF ScanSpec

\* ---------------------------------------------------------------- the search
\* What is left of low is not after the instant, what is right of high not before.
Sandwich ==
  scanPc = "probe" => /\ low > 0 => stamp[low - 1] <= Target
                      /\ high < tip => Target <= stamp[high + 1]

SearchInv == ScanTypeOK /\ SearchRange /\ Sandwich /\ BlockFound

LEMMA SearchInit == ScanInit => SearchInv
BY ScanInitType, ScanInitRange DEF ScanInit, SearchInv, Sandwich, BlockFound

LEMMA SearchStep ==
  ASSUME SearchInv, [ScanNext]_scanVars
  PROVE  SearchInv'
<1>0. Top \in Nat /\ Close \in Nat
  BY ScanAssumption
<1>a. ScanTypeOK /\ SearchRange /\ ScanTypeOK' /\ SearchRange' /\ Target \in Nat
  BY ScanStepType, TargetType DEF SearchInv
<1>b. /\ height \in 0 .. Top /\ tip \in 0 .. Top
      /\ low \in 0 .. Top + 1 /\ high \in -1 .. Top /\ stamp \in Chains
  BY <1>a DEF ScanTypeOK, Blocks
<1>c. /\ \A b \in 0 .. Top : stamp[b] \in Nat
      /\ \A i, j \in 0 .. Top : i <= j => stamp[i] <= stamp[j]
  BY <1>b, StampsOrdered DEF Blocks
<1>1. CASE Mine
  BY <1>1, <1>a DEF Mine, SearchInv, Sandwich, BlockFound, Located, IsClose, Target
<1>2. CASE FindLatest
  <2>1. /\ Target' = Target /\ scanPc' = "found" /\ stamp' = stamp
        /\ result' = height /\ tip' = height /\ stamp[height] <= Target
    BY <1>2, <1>b, <1>c, <1>a DEF FindLatest, Target
  <2>2. Located(height, Target, height)
    BY <1>0, <1>b, <2>1 DEF Located
  <2>3. Located(result, Target, tip)'
    BY <2>1, <2>2 DEF Located, IsClose
  <2> QED BY <1>a, <2>1, <2>3 DEF SearchInv, Sandwich, BlockFound
<1>3. CASE ChooseWindow
  <2>1. /\ Target' = Target /\ scanPc' = "probe" /\ stamp' = stamp /\ tip' = height
        /\ low' = IF stamp[WindowLow] > Target THEN 0 ELSE WindowLow
        /\ high' = IF stamp[WindowHigh] < Target THEN height ELSE WindowHigh
    BY <1>3 DEF ChooseWindow, Target
  <2>2. WindowLow \in 0 .. height /\ WindowHigh \in 0 .. height
    BY <1>3, <1>a, <1>b, WindowType DEF ChooseWindow, Blocks
  <2>3. low' > 0 => stamp[low' - 1] <= Target
    <3> SUFFICES ASSUME low' > 0 PROVE stamp[low' - 1] <= Target
      OBVIOUS
    <3>1. low' = WindowLow /\ stamp[WindowLow] <= Target /\ WindowLow - 1 \in 0 .. Top
      BY <1>0, <1>a, <1>b, <1>c, <2>1, <2>2
    <3>2. stamp[WindowLow - 1] <= stamp[WindowLow]
      BY <1>0, <1>b, <1>c, <2>2, <3>1
    <3> QED BY <1>0, <1>a, <1>b, <1>c, <2>2, <3>1, <3>2
  <2>4. high' < height => Target <= stamp[high' + 1]
    <3> SUFFICES ASSUME high' < height PROVE Target <= stamp[high' + 1]
      OBVIOUS
    <3>1. high' = WindowHigh /\ Target <= stamp[WindowHigh] /\ WindowHigh + 1 \in 0 .. Top
      BY <1>0, <1>a, <1>b, <1>c, <2>1, <2>2
    <3>2. stamp[WindowHigh] <= stamp[WindowHigh + 1]
      BY <1>0, <1>b, <1>c, <2>2, <3>1
    <3> QED BY <1>0, <1>a, <1>b, <1>c, <2>2, <3>1, <3>2
  <2> QED BY <1>a, <2>1, <2>3, <2>4 DEF SearchInv, Sandwich, BlockFound
<1>4. CASE Probe
  <2>1. scanPc = "probe" /\ low <= high /\ high <= tip /\ Mid \in low .. high
    BY <1>4, <1>0, <1>a, <1>b, MidpointBetween DEF Probe, Mid, SearchRange
  <2>2. /\ Target' = Target /\ UNCHANGED <<stamp, tip>>
        /\ Mid \in 0 .. tip /\ Mid \in 0 .. Top /\ stamp[Mid] \in Nat
    BY <1>4, <1>0, <1>b, <1>c, <2>1 DEF Probe, Target
  <2>3. CASE IsClose(Mid, Target)
    <3>1. result' = Mid /\ scanPc' = "found"
      BY <1>4, <2>3 DEF Probe
    <3>2. Located(result, Target, tip)'
      BY <2>2, <2>3, <3>1 DEF Located, IsClose
    <3> QED BY <1>a, <3>1, <3>2 DEF SearchInv, Sandwich, BlockFound
  <2>4. CASE ~IsClose(Mid, Target) /\ stamp[Mid] < Target
    <3>1. low' = Mid + 1 /\ high' = high /\ scanPc' = "probe"
      BY <1>4, <2>1, <2>4 DEF Probe
    <3>2. stamp[low' - 1] <= Target
      BY <1>a, <2>2, <2>4, <3>1
    <3> QED BY <1>a, <2>1, <2>2, <3>1, <3>2 DEF SearchInv, Sandwich, BlockFound
  <2>5. CASE ~IsClose(Mid, Target) /\ ~(stamp[Mid] < Target)
    <3>1. high' = Mid - 1 /\ low' = low /\ scanPc' = "probe"
      BY <1>4, <2>1, <2>5 DEF Probe
    <3>2. Target <= stamp[high' + 1]
      BY <1>a, <2>2, <2>5, <3>1
    <3> QED BY <1>a, <2>1, <2>2, <3>1, <3>2 DEF SearchInv, Sandwich, BlockFound
  <2> QED BY <2>3, <2>4, <2>5
<1>5. CASE StopSearch
  <2>1. /\ scanPc = "probe" /\ low = high + 1 /\ result' = high /\ scanPc' = "found"
        /\ Target' = Target /\ UNCHANGED <<stamp, tip>>
    BY <1>5, <1>0, <1>a, <1>b DEF StopSearch, SearchRange, Target
  <2>2. /\ low > 0 => stamp[low - 1] <= Target
        /\ high < tip => Target <= stamp[high + 1]
    BY <2>1 DEF SearchInv, Sandwich
  <2>3. Located(high, Target, tip)
    BY <1>0, <1>b, <2>1, <2>2 DEF Located
  <2>4. Located(result, Target, tip)'
    BY <2>1, <2>3 DEF Located, IsClose
  <2> QED BY <1>a, <2>1, <2>4 DEF SearchInv, Sandwich, BlockFound
<1>6. CASE \/ GetVaultEvents \/ UseFirst \/ UseLast \/ LimitRange \/ GetLogs \/ GetLogsFails
           \/ ReturnEvents \/ QueryFails
  <2>1. scanPc' \notin {"probe", "found"}
    BY <1>6 DEF GetVaultEvents, UseFirst, UseLast, LimitRange, GetLogs, GetLogsFails,
                ReturnEvents, QueryFails
  <2> QED BY <1>a, <2>1 DEF SearchInv, Sandwich, BlockFound
<1>7. CASE UNCHANGED scanVars
  BY <1>7, <1>a DEF scanVars, SearchInv, Sandwich, BlockFound, Located, IsClose, Target
<1> QED BY <1>1, <1>2, <1>3, <1>4, <1>5, <1>6, <1>7 DEF ScanNext

\* Whatever the block times, the window and the growth of the chain, the search ends at a
\* block within Close of the instant, or at the last one that is not after it.
THEOREM SearchLocates == ScanSpec => []BlockFound
<1>1. SearchInv /\ [ScanNext]_scanVars => SearchInv'
  BY SearchStep
<1>2. SearchInv => BlockFound
  BY DEF SearchInv
<1> QED BY SearchInit, <1>1, <1>2, PTL DEF ScanSpec

\* ------------------------------------------------------------------ the scan
\* Blocks outside the range are outside the interval, give or take Close.
Ends ==
  /\ scanPc \in {"limit", "scan", "done"} \/ (side = "last" /\ scanPc # "failed") =>
       \A b \in Blocks : b < first => stamp[b] <= from + Close
  /\ scanPc \in {"limit", "scan", "done"} /\ until # NoTime =>
       \A b \in Blocks : last < b /\ b <= tip => until <= stamp[b] + Close

\* The blocks the loop goes through, before and after the limit.
InReach(b) == first <= b /\ b <= last /\ last - MaxScan < b

\* The loop has collected the blocks before next once, and no other yet.
Collected ==
  /\ \A b \in Blocks : logs[b] <= 1
  /\ scanPc \notin {"scan", "done", "failed"} => \A b \in Blocks : logs[b] = 0
  /\ scanPc = "scan" => \A b \in Blocks : b >= next => logs[b] = 0
  /\ scanPc \in {"scan", "done"} =>
       \A b \in Blocks : InReach(b) /\ b < next /\ b \notin lost => logs[b] = 1
  /\ scanPc = "done" => next > last

CompleteInv == SearchInv /\ Ends /\ Collected

LEMMA CompleteInit == ScanInit => CompleteInv
BY SearchInit DEF ScanInit, CompleteInv, Ends, Collected

\* Located, read as a bound on the blocks to the left and to the right.
LEMMA LeftOfLocated ==
  ASSUME ScanTypeOK, SearchRange, BlockFound, scanPc = "found", NEW b \in Blocks, b < result
  PROVE  stamp[b] <= Target + Close
<1>1. /\ result \in 0 .. tip /\ result \in Blocks /\ Target \in Nat /\ Close \in Nat
      /\ tip \in Nat /\ b \in Nat
  BY TargetType, ScanAssumption DEF ScanTypeOK, SearchRange, Blocks
<1>2. stamp[b] \in Nat /\ stamp[result] \in Nat /\ stamp[b] <= stamp[result]
  BY <1>1, StampsOrdered DEF ScanTypeOK
<1>3. CASE IsClose(result, Target)
  BY <1>1, <1>2, <1>3 DEF IsClose
<1>4. CASE ~IsClose(result, Target)
  <2>1. stamp[result] <= Target
    BY <1>1, <1>4 DEF BlockFound, Located
  <2> QED BY <1>1, <1>2, <2>1
<1> QED BY <1>3, <1>4

LEMMA RightOfLocated ==
  ASSUME ScanTypeOK, SearchRange, BlockFound, scanPc = "found", NEW b \in Blocks,
         result < b, b <= tip
  PROVE  Target <= stamp[b] + Close
<1>1. /\ result \in -1 .. Top /\ Top \in Nat /\ Target \in Nat /\ Close \in Nat
      /\ tip \in 0 .. Top /\ b \in 0 .. Top /\ stamp[b] \in Nat
  BY TargetType, StampsOrdered, ScanAssumption DEF ScanTypeOK, Blocks
<1>2. CASE result \in 0 .. tip /\ IsClose(result, Target)
  <2>1. stamp[result] \in Nat /\ stamp[result] <= stamp[b]
    BY <1>1, <1>2, StampsOrdered DEF ScanTypeOK, Blocks
  <2> QED BY <1>1, <1>2, <2>1 DEF IsClose
<1>3. CASE ~(result \in 0 .. tip /\ IsClose(result, Target))
  <2>1. result + 1 \in 0 .. tip /\ result + 1 \in 0 .. Top /\ result + 1 <= b
    BY <1>1
  <2>2. Target <= stamp[result + 1]
    BY <1>3, <2>1 DEF BlockFound, Located
  <2>3. stamp[result + 1] \in Nat /\ stamp[result + 1] <= stamp[b]
    BY <1>1, <2>1, StampsOrdered DEF ScanTypeOK, Blocks
  <2> QED BY <1>1, <2>2, <2>3
<1> QED BY <1>2, <1>3

LEMMA CompleteStep ==
  ASSUME CompleteInv, [ScanNext]_scanVars
  PROVE  CompleteInv'
<1>a. /\ SearchInv /\ SearchInv' /\ ScanTypeOK /\ SearchRange /\ BlockFound
      /\ Ends /\ Collected
  BY SearchStep DEF CompleteInv, SearchInv
<1>b. /\ Top \in Nat /\ MaxScan \in Nat \ {0} /\ Chunk \in Nat \ {0}
      /\ Blocks \subseteq Nat /\ \A b \in Blocks : b <= Top
  BY ScanAssumption DEF Blocks
<1>c. /\ logs \in [Blocks -> Nat] /\ next \in Int /\ first \in Int /\ last \in Int
      /\ height \in Blocks /\ tip \in Blocks /\ side \in {"first", "last"}
  BY <1>a, <1>b DEF ScanTypeOK
<1> SUFFICES Ends' /\ Collected'
  BY <1>a DEF CompleteInv
<1>1. CASE Mine
  BY <1>1, <1>a DEF Mine, Ends, Collected, InReach
<1>2. CASE GetVaultEvents
  BY <1>2, <1>a DEF GetVaultEvents, Ends, Collected, SearchRange
<1>3. CASE FindLatest
  BY <1>3, <1>a DEF FindLatest, Ends, Collected
<1>4. CASE ChooseWindow
  BY <1>4, <1>a DEF ChooseWindow, Ends, Collected
<1>5. CASE Probe
  BY <1>5, <1>a DEF Probe, Ends, Collected
<1>6. CASE StopSearch
  BY <1>6, <1>a DEF StopSearch, Ends, Collected
<1>7. CASE UseFirst
  <2>1. \A b \in Blocks : b < result => stamp[b] <= from + Close
    BY <1>7, <1>a, LeftOfLocated DEF UseFirst, Target
  <2>2. Ends'
    BY <1>7, <2>1 DEF UseFirst, Ends
  <2>3. Collected'
    BY <1>7, <1>a DEF UseFirst, Collected
  <2> QED BY <2>2, <2>3
<1>8. CASE UseLast
  <2>1. \A b \in Blocks : result < b /\ b <= tip => until <= stamp[b] + Close
    BY <1>8, <1>a, RightOfLocated DEF UseLast, Target
  <2>2. Ends'
    BY <1>8, <1>a, <2>1 DEF UseLast, Ends
  <2>3. Collected'
    BY <1>8, <1>a DEF UseLast, Collected
  <2> QED BY <2>2, <2>3
<1>9. CASE LimitRange
  <2>1. Ends'
    BY <1>9, <1>a DEF LimitRange, Ends
  <2>2. /\ scanPc = "limit" /\ scanPc' = "scan"
        /\ UNCHANGED <<first, last, logs, lost>>
        /\ \A b \in Blocks : logs[b] = 0
    BY <1>9, <1>a DEF LimitRange, Collected
  <2>3. \A b \in Blocks : InReach(b) => next' <= b
    BY <1>9, <1>b, <1>c DEF LimitRange, LargerOf, InReach
  <2>4. \A b \in Blocks : InReach(b)' => ~(b < next')
    <3>1. next' \in Int
      BY <1>9, <1>b, <1>c DEF LimitRange, LargerOf
    <3> QED BY <1>b, <2>2, <2>3, <3>1 DEF InReach
  <2>5. Collected'
    BY <2>2, <2>4 DEF Collected
  <2> QED BY <2>1, <2>5
<1>10. CASE GetLogs
  <2>1. Ends'
    BY <1>10, <1>a DEF GetLogs, Ends
  <2>2. /\ scanPc = "scan" /\ next' = next + Chunk /\ next >= 0 /\ next <= last
        /\ logs' = [b \in Blocks |-> IF b \in ChunkBlocks THEN logs[b] + 1 ELSE logs[b]]
        /\ UNCHANGED <<scanPc, first, last, lost>>
    BY <1>10 DEF GetLogs
  <2>3. \A b \in Blocks : b \in ChunkBlocks <=> next <= b /\ b <= last /\ b < next + Chunk
    BY <1>b, <1>c DEF ChunkBlocks, SmallerOf
  <2>4. \A b \in Blocks : b >= next => logs[b] = 0
    BY <1>a, <2>2 DEF Collected
  <2>5. \A b \in Blocks : logs'[b] <= 1
    BY <1>a, <1>b, <1>c, <2>2, <2>3, <2>4 DEF Collected
  <2>6. \A b \in Blocks : b >= next + Chunk => logs'[b] = 0
    BY <1>b, <1>c, <2>2, <2>3, <2>4
  <2>7. ASSUME NEW b \in Blocks, InReach(b), b < next + Chunk, b \notin lost
        PROVE  logs'[b] = 1
    <3>1. CASE b >= next
      BY <1>b, <1>c, <2>2, <2>3, <2>4, <2>7, <3>1 DEF InReach
    <3>2. CASE ~(b >= next)
      <4>1. logs[b] = 1
        BY <1>a, <1>b, <1>c, <2>2, <2>7, <3>2 DEF Collected
      <4> QED BY <1>b, <1>c, <2>2, <2>3, <3>2, <4>1
    <3> QED BY <3>1, <3>2
  <2>8. ASSUME NEW b \in Blocks, InReach(b)', b < next', b \notin lost'
        PROVE  logs'[b] = 1
    <3>1. InReach(b)
      BY <2>2, <2>8 DEF InReach
    <3> QED BY <2>2, <2>7, <2>8, <3>1
  <2>9. Collected'
    <3>1. scanPc' = "scan"
      BY <2>2
    <3>2. \A b \in Blocks : b >= next' => logs'[b] = 0
      BY <2>2, <2>6
    <3> QED BY <2>5, <2>8, <3>1, <3>2 DEF Collected
  <2> QED BY <2>1, <2>9
<1>11. CASE GetLogsFails
  <2>1. Ends'
    BY <1>11, <1>a DEF GetLogsFails, Ends
  <2>2. /\ scanPc = "scan" /\ next' = next + Chunk /\ next <= last
        /\ lost' = lost \cup ChunkBlocks /\ UNCHANGED <<scanPc, first, last, logs>>
    BY <1>11 DEF GetLogsFails
  <2>3. \A b \in Blocks : b \in ChunkBlocks <=> next <= b /\ b <= last /\ b < next + Chunk
    BY <1>b, <1>c DEF ChunkBlocks, SmallerOf
  <2>4. \A b \in Blocks : b >= next + Chunk => logs[b] = 0
    BY <1>a, <1>b, <1>c, <2>2 DEF Collected
  <2>5. ASSUME NEW b \in Blocks, InReach(b), b < next + Chunk, b \notin lost'
        PROVE  logs[b] = 1
    <3>1. b < next /\ b \notin lost
      BY <1>b, <1>c, <2>2, <2>3, <2>5 DEF InReach
    <3> QED BY <1>a, <2>2, <2>5, <3>1 DEF Collected
  <2>6. ASSUME NEW b \in Blocks, InReach(b)', b < next', b \notin lost'
        PROVE  logs'[b] = 1
    <3>1. InReach(b)
      BY <2>2, <2>6 DEF InReach
    <3> QED BY <2>2, <2>5, <2>6, <3>1
  <2>7. Collected'
    <3>1. scanPc' = "scan" /\ \A b \in Blocks : logs'[b] <= 1
      BY <1>a, <2>2 DEF Collected
    <3>2. \A b \in Blocks : b >= next' => logs'[b] = 0
      BY <2>2, <2>4
    <3> QED BY <2>6, <3>1, <3>2 DEF Collected
  <2> QED BY <2>1, <2>7
<1>12. CASE ReturnEvents
  BY <1>12, <1>a DEF ReturnEvents, Ends, Collected, InReach
<1>13. CASE QueryFails
  BY <1>13, <1>a DEF QueryFails, Ends, Collected
<1>14. CASE UNCHANGED scanVars
  BY <1>14, <1>a DEF scanVars, Ends, Collected, InReach
<1> QED
  BY <1>1, <1>2, <1>3, <1>4, <1>5, <1>6, <1>7, <1>8, <1>9, <1>10, <1>11, <1>12, <1>13,
     <1>14 DEF ScanNext

\* A finished scan has the logs of every block inside the interval exactly once, but for
\* the chunks whose request failed and what lies before the last MaxScan blocks.
THEOREM ScanCollectsAll == ScanSpec => []ScanComplete
<1>1. CompleteInv /\ [ScanNext]_scanVars => CompleteInv'
  BY CompleteStep
<1>2. ASSUME CompleteInv PROVE ScanComplete
  <2>1. Ends /\ Collected /\ ScanTypeOK
    BY <1>2 DEF CompleteInv, SearchInv
  <2>2. ASSUME scanPc = "done", NEW b \in Blocks, b <= tip, stamp[b] > from + Close,
               IF until = NoTime THEN b <= last ELSE stamp[b] + Close < until,
               b > last - MaxScan, b \notin lost
        PROVE  logs[b] = 1
    <3>1. /\ b \in Nat /\ stamp[b] \in Nat /\ Close \in Nat /\ from \in Nat
          /\ first \in Int /\ last \in Int /\ next \in Int
          /\ until # NoTime => until \in Nat
      BY <2>1, StampsOrdered, ScanAssumption DEF ScanTypeOK, Blocks
    <3>2. b >= first
      BY <2>1, <2>2, <3>1 DEF Ends
    <3>3. b <= last
      BY <2>1, <2>2, <3>1 DEF Ends
    <3>4. b < next
      BY <2>1, <2>2, <3>1, <3>3 DEF Collected
    <3>5. InReach(b)
      BY <2>2, <3>2, <3>3 DEF InReach
    <3> QED BY <2>1, <2>2, <3>4, <3>5 DEF Collected
  <2> QED BY <2>1, <2>2 DEF ScanComplete, Collected
<1> QED BY CompleteInit, <1>1, <1>2, PTL DEF ScanSpec

-----------------------------------------------------------------------------
(* The order of the subgraph and the orders of the pages, of a given history *)

Histories == Seq(Transaction)

Newer(s, a, b) ==
  LET x == s[a]  y == s[b]
  IN  \/ x.at > y.at
      \/ x.at = y.at /\ x.type = "deposit" /\ y.type = "withdrawal"
      \/ x.at = y.at /\ x.type = y.type /\ a > b

Precedes(o, x, y) ==
  IF o[1] = "date" THEN x.at < y.at ELSE x.type = "deposit" /\ y.type = "withdrawal"

Sorts(s, o, a, b) ==
  \/ IF o[2] = "asc" THEN Precedes(o, s[a], s[b]) ELSE Precedes(o, s[b], s[a])
  \/ ~Precedes(o, s[a], s[b]) /\ ~Precedes(o, s[b], s[a]) /\ Newer(s, a, b)

Ahead(s, S, a) == {b \in S : Newer(s, b, a)}
Before(s, o, S, a) == {b \in S : Sorts(s, o, b, a)}
Place(s, o, S, a) == Cardinality(Before(s, o, S, a))

\* The newest Limit transactions, and those of them a request is for.
Front(s) == {a \in DOMAIN s : Cardinality(Ahead(s, DOMAIN s, a)) < Limit}
Matching(s, types) == {a \in Front(s) : s[a].type \in types}

LEMMA EntryType ==
  ASSUME NEW s \in Histories, NEW a \in DOMAIN s
  PROVE  /\ a \in Nat /\ s[a] \in Transaction
         /\ s[a].at \in Nat /\ s[a].type \in Types
<1>1. a \in 1 .. Len(s) /\ Len(s) \in Nat /\ s[a] \in Transaction
  BY DEF Histories
<1>2. s[a].at \in 0 .. MaxTransactions /\ s[a].type \in Types
  BY <1>1 DEF Transaction
<1> QED BY <1>1, <1>2, PagesAssumption

LEMMA NewerOrders ==
  ASSUME NEW s \in Histories
  PROVE  /\ \A a \in DOMAIN s : ~ Newer(s, a, a)
         /\ \A a, b \in DOMAIN s : a # b => Newer(s, a, b) \/ Newer(s, b, a)
         /\ \A a, b \in DOMAIN s : Newer(s, a, b) => ~ Newer(s, b, a)
         /\ \A a, b, c \in DOMAIN s : Newer(s, a, b) /\ Newer(s, b, c) => Newer(s, a, c)
<1>1. \A a \in DOMAIN s : a \in Nat /\ s[a].at \in Int /\ s[a].type \in {"deposit", "withdrawal"}
  BY EntryType DEF Types
<1> QED BY <1>1 DEF Newer

LEMMA HistoryFinite ==
  ASSUME NEW s \in Histories
  PROVE  IsFiniteSet(DOMAIN s) /\ DOMAIN s \subseteq Nat
<1>1. DOMAIN s = 1 .. Len(s) /\ Len(s) \in Nat
  BY DEF Histories
<1>2. IsFiniteSet(1 .. Len(s))
  BY <1>1, FS_Interval
<1> QED BY <1>1, <1>2

LEMMA CardinalityGrows ==
  ASSUME NEW T, IsFiniteSet(T), NEW S \in SUBSET T
  PROVE  /\ IsFiniteSet(S) /\ Cardinality(S) \in Nat /\ Cardinality(T) \in Nat
         /\ Cardinality(S) <= Cardinality(T)
         /\ (S # T => Cardinality(S) < Cardinality(T))
BY FS_Subset, FS_CardinalityType

\* A newer transaction has fewer ahead of it.
LEMMA AheadShrinks ==
  ASSUME NEW s \in Histories, NEW a \in DOMAIN s, NEW b \in DOMAIN s, Newer(s, b, a)
  PROVE  /\ Cardinality(Ahead(s, DOMAIN s, b)) < Cardinality(Ahead(s, DOMAIN s, a))
         /\ Cardinality(Ahead(s, DOMAIN s, b)) \in Nat /\ Cardinality(Ahead(s, DOMAIN s, a)) \in Nat
<1>1. IsFiniteSet(Ahead(s, DOMAIN s, a)) /\ Ahead(s, DOMAIN s, a) \in SUBSET DOMAIN s
  <2>1. Ahead(s, DOMAIN s, a) \in SUBSET DOMAIN s
    BY DEF Ahead
  <2> QED BY <2>1, HistoryFinite, FS_Subset
<1>2. Ahead(s, DOMAIN s, b) \in SUBSET Ahead(s, DOMAIN s, a)
  BY NewerOrders DEF Ahead
<1>3. b \in Ahead(s, DOMAIN s, a) /\ b \notin Ahead(s, DOMAIN s, b)
  BY NewerOrders DEF Ahead
<1> QED BY <1>1, <1>2, <1>3, CardinalityGrows

\* Of some transactions one is the newest.
LEMMA NewestExists ==
  ASSUME NEW s \in Histories, NEW S \in SUBSET DOMAIN s, S # {}
  PROVE  \E b \in S : \A c \in S : ~ Newer(s, c, b)
<1> DEFINE N == {Cardinality(Ahead(s, DOMAIN s, b)) : b \in S}
<1>1. N \in SUBSET Nat /\ N # {}
  <2>1. ASSUME NEW b \in S PROVE Cardinality(Ahead(s, DOMAIN s, b)) \in Nat
    <3>1. Ahead(s, DOMAIN s, b) \in SUBSET DOMAIN s
      BY DEF Ahead
    <3> QED BY <3>1, HistoryFinite, CardinalityGrows
  <2> QED BY <2>1
<1>2. PICK m \in N : \A n \in N : m <= n
  BY <1>1, LeastExists
<1>3. PICK b \in S : m = Cardinality(Ahead(s, DOMAIN s, b))
  BY <1>2
<1>4. ASSUME NEW c \in S, Newer(s, c, b) PROVE FALSE
  <2>1. Cardinality(Ahead(s, DOMAIN s, c)) \in N
    OBVIOUS
  <2>2. /\ Cardinality(Ahead(s, DOMAIN s, c)) < Cardinality(Ahead(s, DOMAIN s, b))
        /\ Cardinality(Ahead(s, DOMAIN s, c)) \in Nat /\ Cardinality(Ahead(s, DOMAIN s, b)) \in Nat
    BY <1>4, AheadShrinks
  <2> QED BY <1>2, <1>3, <2>1, <2>2
<1> QED BY <1>4

\* Asking for the newest of each type and then for the newest of those is asking for the
\* newest of all.
FirstOf(s, S) == {a \in S : Cardinality(Ahead(s, S, a)) < Limit}
OfType(s, t) == {a \in DOMAIN s : s[a].type = t}
TypeByType(s) == UNION {FirstOf(s, OfType(s, t)) : t \in Types}

LEMMA FrontIsNewest ==
  ASSUME NEW s \in Histories
  PROVE  FirstOf(s, TypeByType(s)) = Front(s)
<1> DEFINE U == TypeByType(s)
<1>1. /\ U \in SUBSET DOMAIN s /\ \A t \in Types : OfType(s, t) \in SUBSET DOMAIN s
      /\ \A a \in DOMAIN s : s[a].type \in Types /\ a \in OfType(s, s[a].type)
      /\ \A a \in DOMAIN s : a \in FirstOf(s, OfType(s, s[a].type)) => a \in U
  <2>1. \A t \in Types : OfType(s, t) \in SUBSET DOMAIN s /\ FirstOf(s, OfType(s, t)) \in SUBSET DOMAIN s
    BY DEF OfType, FirstOf
  <2>2. \A a \in DOMAIN s : s[a].type \in Types /\ a \in OfType(s, s[a].type)
    BY EntryType DEF OfType
  <2> QED BY <2>1, <2>2 DEF TypeByType
<1>2. ASSUME NEW S \in SUBSET DOMAIN s, NEW T \in SUBSET S, NEW a
      PROVE  /\ Cardinality(Ahead(s, T, a)) <= Cardinality(Ahead(s, S, a))
             /\ Cardinality(Ahead(s, T, a)) \in Nat /\ Cardinality(Ahead(s, S, a)) \in Nat
  <2>1. Ahead(s, S, a) \in SUBSET DOMAIN s /\ Ahead(s, T, a) \in SUBSET Ahead(s, S, a)
    BY DEF Ahead
  <2> QED BY <2>1, HistoryFinite, CardinalityGrows
<1>3. ASSUME NEW a \in Front(s) PROVE a \in FirstOf(s, U)
  <2>1. a \in DOMAIN s /\ Cardinality(Ahead(s, DOMAIN s, a)) < Limit
    BY DEF Front
  <2>2. a \in U
    <3>1. OfType(s, s[a].type) \in SUBSET DOMAIN s /\ a \in OfType(s, s[a].type)
      BY <1>1, <2>1
    <3>2. Cardinality(Ahead(s, OfType(s, s[a].type), a)) < Limit
      BY <1>2, <2>1, <3>1, PagesAssumption
    <3> QED BY <1>1, <2>1, <3>1, <3>2 DEF FirstOf
  <2>3. Cardinality(Ahead(s, U, a)) < Limit
    BY <1>1, <1>2, <2>1, PagesAssumption
  <2> QED BY <2>2, <2>3 DEF FirstOf
<1>4. ASSUME NEW a \in FirstOf(s, U), a \notin Front(s) PROVE FALSE
  <2>1. a \in U /\ a \in DOMAIN s /\ Cardinality(Ahead(s, U, a)) < Limit
    BY <1>1, <1>4 DEF FirstOf
  <2> DEFINE M == Ahead(s, DOMAIN s, a) \ U
  <2>2. CASE M = {}
    <3>1. Ahead(s, DOMAIN s, a) = Ahead(s, U, a)
      BY <1>1, <2>2 DEF Ahead
    <3> QED BY <1>4, <2>1, <3>1 DEF Front
  <2>3. CASE M # {}
    <3>1. M \in SUBSET DOMAIN s
      BY DEF Ahead
    <3>2. PICK b \in M : \A c \in M : ~ Newer(s, c, b)
      BY <2>3, <3>1, NewestExists
    <3>3. b \in DOMAIN s /\ Newer(s, b, a) /\ b \notin U
      BY <3>1, <3>2 DEF Ahead
    <3>4. PICK S \in SUBSET DOMAIN s : S = OfType(s, s[b].type)
      BY <1>1, <3>3
    <3>5. ~ (Cardinality(Ahead(s, S, b)) < Limit)
      BY <1>1, <3>3, <3>4 DEF FirstOf
    <3>6. Ahead(s, S, b) \in SUBSET Ahead(s, U, a)
      <4>1. ASSUME NEW c \in Ahead(s, S, b) PROVE c \in Ahead(s, U, a)
        <5>1. c \in DOMAIN s /\ Newer(s, c, b)
          BY DEF Ahead
        <5>2. Newer(s, c, a)
          BY <2>1, <3>3, <5>1, NewerOrders
        <5>3. c \in U
          BY <3>2, <5>1, <5>2 DEF Ahead
        <5> QED BY <5>2, <5>3 DEF Ahead
      <4> QED BY <4>1
    <3>7. IsFiniteSet(Ahead(s, U, a))
      <4>1. Ahead(s, U, a) \in SUBSET DOMAIN s
        BY <1>1 DEF Ahead
      <4> QED BY <4>1, HistoryFinite, FS_Subset
    <3> QED BY <2>1, <3>5, <3>6, <3>7, CardinalityGrows, PagesAssumption
  <2> QED BY <2>2, <2>3
<1> QED BY <1>3, <1>4 DEF FirstOf, Front

-----------------------------------------------------------------------------
(* A history that has grown by one *)

\* Timestamps never decrease, and a new one is at most one later than the last.
Timely(s) ==
  \A i, j \in DOMAIN s : i <= j => s[i].at <= s[j].at /\ s[i].at <= i

GrownBy(s, u, e) ==
  /\ s \in Histories /\ u \in Histories /\ Timely(u)
  /\ e \notin DOMAIN s /\ DOMAIN u = DOMAIN s \cup {e}
  /\ \A a \in DOMAIN s : u[a] = s[a] /\ a < e

LEMMA AppendGrows ==
  ASSUME NEW s \in Histories, Timely(s), NEW x \in Transaction, x.at <= Len(s) + 1,
         \A i \in DOMAIN s : s[i].at <= x.at
  PROVE  GrownBy(s, Append(s, x), Len(s) + 1)
<1>1. PICK u, e : u = Append(s, x) /\ e = Len(s) + 1
  OBVIOUS
<1>2. /\ s \in Seq(Transaction) /\ u \in Seq(Transaction) /\ Len(s) \in Nat /\ Len(u) = e
      /\ DOMAIN s = 1 .. Len(s) /\ DOMAIN u = 1 .. Len(u)
      /\ \A a \in 1 .. Len(s) : u[a] = s[a]
      /\ u[e] = x
  BY <1>1 DEF Histories
<1>3. \A a \in DOMAIN s : a \in Nat /\ s[a].at \in Nat
  BY EntryType
<1>4. x.at \in Nat
  BY PagesAssumption DEF Transaction
<1>5. Timely(u)
  <2>1. SUFFICES ASSUME NEW i \in DOMAIN u, NEW j \in DOMAIN u, i <= j
                 PROVE  u[i].at <= u[j].at /\ u[i].at <= i
    BY DEF Timely
  <2>2. /\ i \in Nat /\ j \in Nat /\ (i \in DOMAIN s \/ i = e) /\ (j \in DOMAIN s \/ j = e)
        /\ e = Len(s) + 1
    BY <1>1, <1>2
  <2>3. CASE i \in DOMAIN s /\ j \in DOMAIN s
    <3>1. u[i] = s[i] /\ u[j] = s[j]
      BY <1>2, <2>3
    <3> QED BY <2>1, <2>3, <3>1 DEF Timely
  <2>4. CASE i \in DOMAIN s /\ j = e
    <3>1. u[i] = s[i] /\ u[j] = x /\ s[i].at <= x.at
      BY <1>2, <2>4
    <3>2. s[i].at <= i
      BY <2>2, <2>4 DEF Timely
    <3> QED BY <3>1, <3>2
  <2>5. CASE i = e
    <3>1. j = e
      BY <1>2, <2>1, <2>2, <2>5
    <3> QED BY <1>1, <1>2, <1>4, <2>2, <2>5, <3>1
  <2> QED BY <2>2, <2>3, <2>4, <2>5
<1>6. e \notin DOMAIN s /\ DOMAIN u = DOMAIN s \cup {e} /\ \A a \in DOMAIN s : a < e
  BY <1>1, <1>2
<1> QED BY <1>1, <1>2, <1>5, <1>6 DEF GrownBy, Histories

LEMMA SameOrders ==
  ASSUME NEW s, NEW u, NEW e, GrownBy(s, u, e), NEW a \in DOMAIN s, NEW b \in DOMAIN s
  PROVE  /\ Newer(u, a, b) <=> Newer(s, a, b)
         /\ \A o \in Orders : Sorts(u, o, a, b) <=> Sorts(s, o, a, b)
BY DEF GrownBy, Newer, Sorts, Precedes

\* The new transaction is ahead of those of its type.
LEMMA NewIsAhead ==
  ASSUME NEW s, NEW u, NEW e, GrownBy(s, u, e), NEW a \in DOMAIN s, u[a].type = u[e].type
  PROVE  Newer(u, e, a)
<1>1. a \in Nat /\ e \in Nat /\ u[a].at \in Nat /\ u[e].at \in Nat
  BY EntryType DEF GrownBy
<1>2. u[a].at <= u[e].at /\ a < e
  BY <1>1 DEF GrownBy, Timely
<1> QED BY <1>1, <1>2 DEF Newer

\* What is ahead of an old transaction is what was, and perhaps the new one.
LEMMA AheadGrows ==
  ASSUME NEW s, NEW u, NEW e, GrownBy(s, u, e), NEW a \in DOMAIN s
  PROVE  LET A == Ahead(s, DOMAIN s, a)  B == Ahead(u, DOMAIN u, a)
         IN  /\ Cardinality(A) \in Nat /\ Cardinality(B) \in Nat
             /\ Cardinality(A) <= Cardinality(B) /\ Cardinality(B) <= Cardinality(A) + 1
             /\ (~ Newer(u, e, a) => Cardinality(B) = Cardinality(A))
<1> DEFINE A == Ahead(s, DOMAIN s, a)
           B == Ahead(u, DOMAIN u, a)
<1>1. B = A \cup (IF Newer(u, e, a) THEN {e} ELSE {})
  BY SameOrders DEF Ahead, GrownBy
<1>2. IsFiniteSet(A) /\ e \notin A
  <2>1. A \in SUBSET DOMAIN s /\ s \in Histories /\ e \notin DOMAIN s
    BY DEF Ahead, GrownBy
  <2> QED BY <2>1, HistoryFinite, FS_Subset
<1> HIDE DEF A, B
<1>3. /\ IsFiniteSet(A \cup {e}) /\ Cardinality(A \cup {e}) = Cardinality(A) + 1
      /\ Cardinality(A) \in Nat
  BY <1>2, FS_AddElement, FS_CardinalityType
<1>4. A \cup {} = A
  OBVIOUS
<1>5. /\ Cardinality(A) \in Nat /\ Cardinality(B) \in Nat
      /\ Cardinality(A) <= Cardinality(B) /\ Cardinality(B) <= Cardinality(A) + 1
      /\ (~ Newer(u, e, a) => Cardinality(B) = Cardinality(A))
  <2>1. CASE Newer(u, e, a)
    <3>1. B = A \cup {e}
      BY <1>1, <2>1
    <3> QED BY <1>3, <2>1, <3>1
  <2>2. CASE ~ Newer(u, e, a)
    <3>1. B = A
      BY <1>1, <1>4, <2>2
    <3> QED BY <1>3, <2>2, <3>1
  <2> QED BY <2>1, <2>2
<1> QED BY <1>5 DEF A, B

\* Nothing comes back into the front.
LEMMA FrontShrinks ==
  ASSUME NEW s, NEW u, NEW e, GrownBy(s, u, e), NEW a \in DOMAIN s, a \in Front(u)
  PROVE  a \in Front(s)
<1>1. Cardinality(Ahead(u, DOMAIN u, a)) < Limit
  BY DEF Front
<1>2. /\ Cardinality(Ahead(s, DOMAIN s, a)) <= Cardinality(Ahead(u, DOMAIN u, a))
      /\ Cardinality(Ahead(s, DOMAIN s, a)) \in Nat /\ Cardinality(Ahead(u, DOMAIN u, a)) \in Nat
  BY AheadGrows
<1> QED BY <1>1, <1>2, PagesAssumption DEF Front

\* What leaves the front makes room for the new one, and all that stay are newer.
LEMMA PushedByNew ==
  ASSUME NEW s, NEW u, NEW e, GrownBy(s, u, e), NEW p \in Front(s), p \notin Front(u)
  PROVE  e \in Front(u) /\ \A a \in DOMAIN s : a \in Front(u) => Newer(s, a, p)
<1>1. /\ p \in DOMAIN s /\ p \in DOMAIN u /\ e \in DOMAIN u /\ s \in Histories /\ u \in Histories
      /\ Limit \in Nat
  BY PagesAssumption DEF Front, GrownBy
<1>2. PICK m, n \in Nat : /\ m = Cardinality(Ahead(s, DOMAIN s, p)) /\ n = Cardinality(Ahead(u, DOMAIN u, p))
                          /\ n <= m + 1 /\ (~ Newer(u, e, p) => n = m)
  BY <1>1, AheadGrows
<1>3. m < Limit /\ ~ (n < Limit)
  BY <1>1, <1>2 DEF Front
<1>4. e \in Front(u)
  <2>1. Newer(u, e, p)
    BY <1>2, <1>3
  <2>2. Cardinality(Ahead(u, DOMAIN u, e)) < n /\ Cardinality(Ahead(u, DOMAIN u, e)) \in Nat
    BY <1>1, <1>2, <2>1, AheadShrinks
  <2>3. Cardinality(Ahead(u, DOMAIN u, e)) < Limit
    BY <1>1, <1>2, <1>3, <2>2
  <2> QED BY <1>1, <2>3 DEF Front
<1>5. ASSUME NEW a \in DOMAIN s, a \in Front(u) PROVE Newer(s, a, p)
  <2>1. a # p
    BY <1>5
  <2>2. ASSUME Newer(s, p, a) PROVE FALSE
    <3>1. Newer(u, p, a) /\ a \in DOMAIN u
      BY <1>1, <2>2, SameOrders DEF GrownBy
    <3>2. n < Cardinality(Ahead(u, DOMAIN u, a)) /\ Cardinality(Ahead(u, DOMAIN u, a)) \in Nat
      BY <1>1, <1>2, <3>1, AheadShrinks
    <3>3. Cardinality(Ahead(u, DOMAIN u, a)) < Limit
      BY <1>5 DEF Front
    <3> QED BY <1>1, <1>2, <1>3, <3>2, <3>3
  <2> QED BY <1>1, <2>1, <2>2, NewerOrders
<1> QED BY <1>4, <1>5

LEMMA OnePushed ==
  ASSUME NEW s, NEW u, NEW e, GrownBy(s, u, e), NEW p \in Front(s), p \notin Front(u),
         NEW q \in Front(s), q \notin Front(u)
  PROVE  p = q
<1>1. s \in Histories /\ Limit \in Nat
  BY PagesAssumption DEF GrownBy
<1>2. ASSUME NEW a \in Front(s), NEW b \in Front(s), a \notin Front(u), Newer(s, a, b) PROVE FALSE
  <2>1. a \in DOMAIN s /\ b \in DOMAIN s /\ a \in DOMAIN u
    BY DEF Front, GrownBy
  <2>2. PICK m, n, k \in Nat :
          /\ m = Cardinality(Ahead(s, DOMAIN s, a)) /\ n = Cardinality(Ahead(u, DOMAIN u, a))
          /\ k = Cardinality(Ahead(s, DOMAIN s, b)) /\ n <= m + 1 /\ m < k
    BY <1>1, <1>2, <2>1, AheadGrows, AheadShrinks
  <2>3. k < Limit /\ ~ (n < Limit)
    BY <1>2, <2>1, <2>2 DEF Front
  <2> QED BY <1>1, <2>2, <2>3
<1>3. p \in DOMAIN s /\ q \in DOMAIN s
  BY DEF Front
<1> QED BY <1>1, <1>2, <1>3, NewerOrders

-----------------------------------------------------------------------------
(* The place of a transaction on the pages of a growing history *)

LEMMA Exchanged ==
  ASSUME NEW S, NEW T, IsFiniteSet(S), IsFiniteSet(T), NEW p \in S, NEW e \in T,
         e \notin S, S \ {p} \subseteq T
  PROVE  Cardinality(S) <= Cardinality(T)
<1>1. PICK R : R = S \ {p}
  OBVIOUS
<1>2. IsFiniteSet(R) /\ Cardinality(R) = Cardinality(S) - 1 /\ Cardinality(S) \in Nat
  BY <1>1, FS_RemoveElement, FS_CardinalityType
<1>3. Cardinality(R \cup {e}) = Cardinality(R) + 1 /\ IsFiniteSet(R \cup {e})
  BY <1>1, <1>2, FS_AddElement
<1>4. R \cup {e} \in SUBSET T
  BY <1>1
<1>5. Cardinality(R \cup {e}) <= Cardinality(T) /\ Cardinality(T) \in Nat /\ Cardinality(R \cup {e}) \in Nat
  BY <1>4, CardinalityGrows
<1> QED BY <1>2, <1>3, <1>5

LEMMA OrderCases ==
  \A o \in Orders : /\ o[1] \in {"date", "type"} /\ o[2] \in {"asc", "desc"}
                    /\ (o[1] = "date" /\ o[2] = "asc" => o = <<"date", "asc">>)
BY PagesAssumption

\* What is pushed out and was before one that stays: sorted by ascending date, or
\* by type, and then the new one comes before the one that stays as well.
LEMMA PushedBefore ==
  ASSUME NEW s, NEW u, NEW e, GrownBy(s, u, e), NEW o \in Orders,
         NEW a \in DOMAIN s, NEW p \in DOMAIN s, Newer(s, a, p), Sorts(s, o, p, a)
  PROVE  \/ o = <<"date", "asc">> /\ s[p].at < s[a].at
         \/ Sorts(u, o, e, a) /\ u[e].type \in {s[a].type, s[p].type}
<1>1. /\ s \in Histories /\ u \in Histories /\ e \in DOMAIN u /\ a \in DOMAIN u /\ p \in DOMAIN u
      /\ u[a] = s[a] /\ u[p] = s[p]
  BY DEF GrownBy
<1>2. /\ s[a].at \in Nat /\ s[p].at \in Nat /\ u[e].at \in Nat
      /\ s[a].type \in Types /\ s[p].type \in Types /\ u[e].type \in Types
  BY <1>1, EntryType
<1>3. ~ Newer(s, p, a)
  BY <1>1, NewerOrders
<1>4. u[e].type = s[a].type => Newer(u, e, a)
  BY <1>1, NewIsAhead
<1>5. CASE o[1] = "date"
  BY <1>2, <1>3, <1>5, OrderCases DEF Sorts, Precedes, Newer
<1>6. CASE o[1] = "type" /\ o[2] = "asc"
  <2>1. s[p].type = "deposit" /\ s[a].type = "withdrawal"
    BY <1>2, <1>3, <1>6 DEF Sorts, Precedes
  <2> QED BY <1>1, <1>2, <1>4, <1>6, <2>1 DEF Sorts, Precedes, Types
<1>7. CASE o[1] = "type" /\ o[2] = "desc"
  <2>1. s[a].type = "deposit" /\ s[p].type = "withdrawal"
    BY <1>2, <1>3, <1>7 DEF Sorts, Precedes
  <2> QED BY <1>1, <1>2, <1>4, <1>7, <2>1 DEF Sorts, Precedes, Types
<1> QED BY <1>5, <1>6, <1>7, OrderCases

LEMMA BeforeFinite ==
  ASSUME NEW s \in Histories, NEW o, NEW S \in SUBSET DOMAIN s, NEW a
  PROVE  IsFiniteSet(Before(s, o, S, a)) /\ Place(s, o, S, a) \in Nat
<1>1. Before(s, o, S, a) \in SUBSET DOMAIN s
  BY DEF Before
<1> QED BY <1>1, HistoryFinite, FS_Subset, FS_CardinalityType DEF Place

LEMMA MatchingOf ==
  ASSUME NEW s, NEW types PROVE Matching(s, types) \in SUBSET DOMAIN s /\ Front(s) \in SUBSET DOMAIN s
BY DEF Matching, Front

\* One that stays among the matching ones only moves to later pages, but where the
\* date ascends and one of before it is pushed out.
LEMMA PlaceGrows ==
  ASSUME NEW s, NEW u, NEW e, GrownBy(s, u, e), NEW types \in SUBSET Types, NEW o \in Orders,
         NEW a \in DOMAIN s, a \in Matching(u, types),
         o = <<"date", "asc">> =>
           \A p \in Matching(s, types) : p \in Front(u) \/ ~ (s[p].at < s[a].at)
  PROVE  /\ a \in Matching(s, types)
         /\ Place(s, o, Matching(s, types), a) <= Place(u, o, Matching(u, types), a)
<1>1. /\ s \in Histories /\ u \in Histories /\ DOMAIN u = DOMAIN s \cup {e} /\ e \notin DOMAIN s
      /\ \A b \in DOMAIN s : u[b] = s[b]
  BY DEF GrownBy
<1>2. a \in Front(u) /\ u[a].type \in types /\ a \in Front(s)
  BY FrontShrinks DEF Matching
<1>3. PICK B, C : /\ B = Before(s, o, Matching(s, types), a)
                  /\ C = Before(u, o, Matching(u, types), a)
  OBVIOUS
<1>4. /\ IsFiniteSet(B) /\ IsFiniteSet(C)
      /\ Place(s, o, Matching(s, types), a) = Cardinality(B)
      /\ Place(u, o, Matching(u, types), a) = Cardinality(C)
  BY <1>1, <1>3, BeforeFinite, MatchingOf DEF Place
<1>5. ASSUME NEW p \in B, p \in Front(u) PROVE p \in C
  <2>1. p \in DOMAIN s /\ Sorts(s, o, p, a) /\ s[p].type \in types
    BY <1>3 DEF Before, Matching, Front
  <2>2. Sorts(u, o, p, a) /\ p \in Matching(u, types)
    BY <1>1, <1>5, <2>1, SameOrders DEF Matching
  <2> QED BY <1>3, <2>2 DEF Before
<1>6. CASE B \subseteq Front(u)
  <2>1. B \in SUBSET C
    BY <1>5, <1>6
  <2> QED BY <1>1, <1>2, <1>4, <2>1, CardinalityGrows DEF Matching
<1>7. CASE ~ (B \subseteq Front(u))
  <2>1. PICK p \in B : p \notin Front(u)
    BY <1>7
  <2>2. /\ p \in Front(s) /\ p \in DOMAIN s /\ p \in Matching(s, types) /\ Sorts(s, o, p, a)
        /\ s[p].type \in types
    BY <1>3 DEF Before, Matching, Front
  <2>3. e \in Front(u) /\ Newer(s, a, p)
    BY <1>2, <2>1, <2>2, PushedByNew
  <2>4. Sorts(u, o, e, a) /\ u[e].type \in types
    BY <1>1, <1>2, <2>1, <2>2, <2>3, PushedBefore
  <2>5. e \in C
    BY <1>3, <2>3, <2>4 DEF Before, Matching
  <2>6. \A q \in B : q \in Front(u) \/ q = p
    BY <1>3, <2>1, <2>2, OnePushed DEF Before, Matching
  <2>7. B \ {p} \subseteq C /\ e \notin B
    BY <1>1, <1>3, <1>5, <2>6 DEF Before, Matching, Front
  <2>8. Cardinality(B) <= Cardinality(C)
    BY <1>4, <2>5, <2>7, Exchanged
  <2> QED BY <1>1, <1>2, <1>4, <2>8 DEF Matching
<1> QED BY <1>6, <1>7

LEMMA PageBounds ==
  ASSUME NEW p \in Nat \ {0}, NEW k \in Nat \ {0}, NEW n \in Nat
  PROVE  /\ (p - 1) * k \in Nat /\ p * k = (p - 1) * k + k
         /\ ((p - 1) * k <= n /\ n < p * k => n \div k = p - 1)
<1>1. (p - 1) * k \in Nat /\ p * k = (p - 1) * k + k
  OBVIOUS
<1>2. ASSUME (p - 1) * k <= n, n < p * k PROVE n \div k = p - 1
  BY <1>1, <1>2
<1> QED BY <1>1, <1>2

-----------------------------------------------------------------------------
(* What a client that reads page after page may rely on.  The transactions of its *)
(* first page that it has not seen yet and that still match its query have their   *)
(* places on the pages to come; while a request is under way this holds of the     *)
(* answer of the subgraph, which may lag behind, and a place in the answer is no   *)
(* later than that in the history as it is by now.                                 *)

\* One that was there is pushed out while the date ascends.
Disturbed(s, o, S) == o = <<"date", "asc">> /\ \E b \in S : b \notin Front(s)

ToCome(s, o, types, S, n, seen) ==
  \A a \in S : \/ a \in seen \/ a \notin Matching(s, types) \/ Disturbed(s, o, S)
               \/ n <= Place(s, o, Matching(s, types), a)
Answered(s, o, types, S, G) ==
  \A a \in S : \/ a \notin Matching(s, types) \/ Disturbed(s, o, S)
               \/ a \in G /\ Place(s, o, G, a) <= Place(s, o, Matching(s, types), a)
Served(s, o, S, G, n, seen) ==
  \A a \in S \cap G : a \in seen \/ Disturbed(s, o, S) \/ n <= Place(s, o, G, a)
AllSeen(s, o, types, S, seen) ==
  \A a \in S : a \in seen \/ a \notin Matching(s, types) \/ Disturbed(s, o, S)

\* A set of matching transactions that misses none older than one of them.
Downward(s, types, S) ==
  \A a \in S : /\ a \in DOMAIN s /\ s[a].type \in types
               /\ \A b \in Matching(s, types) : b < a => b \in S

\* What the request has in hand, and the transactions that were listed at first.
Given(s, q) == {a \in q.data : s[a].type \in q.types}
Listed(s, q, early) == IF q.page = 1 THEN Given(s, q) ELSE early
Pending(q) == q.pc \in {"status", "prices"}
Gone(q) == (q.page - 1) * PageSize

Shaped(s, q, early) ==
  /\ Timely(s) /\ q.page # 0 /\ (q.page = 1 => early = {})
  /\ Downward(s, q.types, early)
  /\ (Pending(q) => Downward(s, q.types, Listed(s, q, early)))
  /\ (q.pc = "prices" => q.data = Given(s, q))

Complete(s, q, early, seen) ==
  /\ ToCome(s, q.order, q.types, early, Gone(q), seen)
  /\ (Pending(q) => /\ Answered(s, q.order, q.types, Listed(s, q, early), Given(s, q))
                    /\ Served(s, q.order, Listed(s, q, early), Given(s, q), Gone(q), seen))
  /\ (q.pc = "end" => AllSeen(s, q.order, q.types, early, seen))

PagesInv ==
  /\ PagesTypeOK /\ Shaped(indexed, request, atFirst)
  /\ (~dropped => Complete(indexed, request, atFirst, shown))

\* ------------------------------------------------- while the history grows
LEMMA DisturbedStays ==
  ASSUME NEW s, NEW u, NEW e, GrownBy(s, u, e), NEW o, NEW S \in SUBSET DOMAIN s, Disturbed(s, o, S)
  PROVE  Disturbed(u, o, S)
BY FrontShrinks DEF Disturbed

LEMMA StaysInPlace ==
  ASSUME NEW s, NEW u, NEW e, GrownBy(s, u, e), NEW types \in SUBSET Types, NEW o \in Orders,
         NEW S \in SUBSET DOMAIN s, Downward(s, types, S), ~ Disturbed(u, o, S),
         NEW a \in S, a \in Matching(u, types)
  PROVE  /\ a \in Matching(s, types)
         /\ Place(s, o, Matching(s, types), a) \in Nat /\ Place(u, o, Matching(u, types), a) \in Nat
         /\ Place(s, o, Matching(s, types), a) <= Place(u, o, Matching(u, types), a)
<1>1. ASSUME o = <<"date", "asc">>, NEW p \in Matching(s, types), p \notin Front(u),
             s[p].at < s[a].at
      PROVE  FALSE
  <2>1. p \in DOMAIN s /\ a \in DOMAIN s
    BY DEF Matching, Front
  <2>2. u[p] = s[p] /\ u[a] = s[a] /\ p \in DOMAIN u /\ a \in DOMAIN u /\ u \in Histories
    BY <2>1 DEF GrownBy
  <2>3. p \in Nat /\ a \in Nat /\ u[p].at \in Nat /\ u[a].at \in Nat
    BY <2>2, EntryType
  <2>4. a <= p => u[a].at <= u[p].at
    BY <2>2 DEF GrownBy, Timely
  <2>5. p < a
    BY <1>1, <2>2, <2>3, <2>4
  <2>6. p \in S
    BY <2>5 DEF Downward
  <2> QED BY <1>1, <2>6 DEF Disturbed
<1>2. Place(s, o, Matching(s, types), a) \in Nat /\ Place(u, o, Matching(u, types), a) \in Nat
  BY BeforeFinite, MatchingOf DEF GrownBy
<1> QED BY <1>1, <1>2, PlaceGrows

LEMMA DownwardGrows ==
  ASSUME NEW s, NEW u, NEW e, GrownBy(s, u, e), NEW types, NEW S, Downward(s, types, S)
  PROVE  Downward(u, types, S)
<1>1. SUFFICES ASSUME NEW a \in S
               PROVE  /\ a \in DOMAIN u /\ u[a].type \in types
                      /\ \A b \in Matching(u, types) : b < a => b \in S
  BY DEF Downward
<1>2. a \in DOMAIN s /\ a < e /\ a \in DOMAIN u /\ u[a] = s[a] /\ s[a].type \in types
  BY DEF Downward, GrownBy
<1>3. ASSUME NEW b \in Matching(u, types), b < a PROVE b \in S
  <2>1. b \in DOMAIN u /\ u \in Histories /\ b \in Front(u)
    BY DEF Matching, Front, GrownBy
  <2>2. a \in Nat /\ b \in Nat /\ e \in Nat
    <3>1. e \in DOMAIN u
      BY DEF GrownBy
    <3> QED BY <1>2, <2>1, <3>1, EntryType
  <2>3. b # e /\ b \in DOMAIN s
    BY <1>2, <1>3, <2>1, <2>2 DEF GrownBy
  <2>4. b \in Matching(s, types)
    BY <2>1, <2>3, FrontShrinks DEF Matching, GrownBy
  <2> QED BY <1>3, <2>4 DEF Downward
<1> QED BY <1>2, <1>3

LEMMA PlaceSame ==
  ASSUME NEW s, NEW u, NEW e, GrownBy(s, u, e), NEW o \in Orders, NEW G \in SUBSET DOMAIN s, NEW a \in DOMAIN s
  PROVE  Place(u, o, G, a) = Place(s, o, G, a)
<1>1. Before(u, o, G, a) = Before(s, o, G, a)
  BY SameOrders DEF Before
<1> QED BY <1>1 DEF Place

LEMMA ToComeGrows ==
  ASSUME NEW s, NEW u, NEW e, GrownBy(s, u, e), NEW types \in SUBSET Types, NEW o \in Orders,
         NEW S \in SUBSET DOMAIN s, Downward(s, types, S), NEW n \in Nat, NEW seen,
         ToCome(s, o, types, S, n, seen)
  PROVE  ToCome(u, o, types, S, n, seen)
<1>1. SUFFICES ASSUME NEW a \in S, a \notin seen, a \in Matching(u, types), ~ Disturbed(u, o, S)
               PROVE  n <= Place(u, o, Matching(u, types), a)
  BY DEF ToCome
<1>2. ~ Disturbed(s, o, S)
  BY <1>1, DisturbedStays
<1>3. /\ a \in Matching(s, types)
      /\ Place(s, o, Matching(s, types), a) \in Nat /\ Place(u, o, Matching(u, types), a) \in Nat
      /\ Place(s, o, Matching(s, types), a) <= Place(u, o, Matching(u, types), a)
  BY <1>1, StaysInPlace
<1>4. n <= Place(s, o, Matching(s, types), a)
  BY <1>1, <1>2, <1>3 DEF ToCome
<1> QED BY <1>3, <1>4

LEMMA AnsweredGrows ==
  ASSUME NEW s, NEW u, NEW e, GrownBy(s, u, e), NEW types \in SUBSET Types, NEW o \in Orders,
         NEW S \in SUBSET DOMAIN s, Downward(s, types, S), NEW G \in SUBSET DOMAIN s,
         Answered(s, o, types, S, G)
  PROVE  Answered(u, o, types, S, G)
<1>1. SUFFICES ASSUME NEW a \in S, a \in Matching(u, types), ~ Disturbed(u, o, S)
               PROVE  a \in G /\ Place(u, o, G, a) <= Place(u, o, Matching(u, types), a)
  BY DEF Answered
<1>2. ~ Disturbed(s, o, S)
  BY <1>1, DisturbedStays
<1>3. /\ a \in Matching(s, types)
      /\ Place(s, o, Matching(s, types), a) \in Nat /\ Place(u, o, Matching(u, types), a) \in Nat
      /\ Place(s, o, Matching(s, types), a) <= Place(u, o, Matching(u, types), a)
  BY <1>1, StaysInPlace
<1>4. a \in G /\ Place(s, o, G, a) <= Place(s, o, Matching(s, types), a)
  BY <1>1, <1>2, <1>3 DEF Answered
<1>5. Place(u, o, G, a) = Place(s, o, G, a) /\ Place(s, o, G, a) \in Nat
  BY PlaceSame, BeforeFinite DEF GrownBy
<1> QED BY <1>3, <1>4, <1>5

LEMMA ServedGrows ==
  ASSUME NEW s, NEW u, NEW e, GrownBy(s, u, e), NEW o \in Orders, NEW S \in SUBSET DOMAIN s,
         NEW G, NEW n, NEW seen, G \in SUBSET DOMAIN s, Served(s, o, S, G, n, seen)
  PROVE  Served(u, o, S, G, n, seen)
<1>1. \A a \in S \cap G : Place(u, o, G, a) = Place(s, o, G, a)
  BY PlaceSame
<1> QED BY <1>1, DisturbedStays DEF Served

LEMMA GivenSame ==
  ASSUME NEW s, NEW u, NEW e, GrownBy(s, u, e), NEW q, q.data \subseteq DOMAIN s
  PROVE  Given(u, q) = Given(s, q)
BY DEF Given, GrownBy

LEMMA GoneType ==
  ASSUME NEW q \in PageRequest, q.page # 0
  PROVE  /\ Gone(q) \in Nat /\ q.page \in Nat \ {0} /\ q.types \in SUBSET Types /\ q.order \in Orders
         /\ q.page * PageSize = Gone(q) + PageSize /\ q.page * PageSize \in Nat
<1>1. q.page \in Nat \ {0} /\ q.types \in SUBSET Types /\ q.order \in Orders
  BY DEF PageRequest
<1>2. PageSize \in Nat \ {0}
  BY PagesAssumption
<1>3. PICK p, k : p = q.page /\ k = PageSize
  OBVIOUS
<1>4. (p - 1) * k \in Nat /\ p * k = (p - 1) * k + k /\ k \in Nat
  <2>1. p \in Nat \ {0} /\ k \in Nat \ {0} /\ 0 \in Nat
    BY <1>1, <1>2, <1>3
  <2> QED BY <2>1, PageBounds
<1>5. Gone(q) = (p - 1) * k
  BY <1>3 DEF Gone
<1>6. p * k \in Nat
  BY <1>4
<1> QED BY <1>1, <1>3, <1>4, <1>5, <1>6

LEMMA IndexedKeeps ==
  ASSUME NEW s, NEW u, NEW e, GrownBy(s, u, e), NEW q \in PageRequest, q.pc # "end",
         NEW early \in SUBSET DOMAIN s, q.data \subseteq DOMAIN s, NEW seen, Shaped(s, q, early)
  PROVE  Shaped(u, q, early) /\ (Complete(s, q, early, seen) => Complete(u, q, early, seen))
<1>1. PICK G : G = Given(s, q) /\ G = Given(u, q) /\ G \in SUBSET DOMAIN s
  <2>1. Given(u, q) = Given(s, q)
    BY GivenSame
  <2>2. Given(s, q) \in SUBSET DOMAIN s
    BY DEF Given
  <2> QED BY <2>1, <2>2
<1>2. PICK S \in SUBSET DOMAIN s : S = Listed(s, q, early) /\ S = Listed(u, q, early)
  BY <1>1 DEF Listed
<1>3. Downward(s, q.types, early) /\ (Pending(q) => Downward(s, q.types, S))
  BY <1>2 DEF Shaped
<1>4. Gone(q) \in Nat /\ q.types \in SUBSET Types /\ q.order \in Orders
  BY GoneType DEF Shaped
<1>5. Shaped(u, q, early)
  <2>1. Downward(u, q.types, early) /\ (Pending(q) => Downward(u, q.types, S))
    BY <1>3, DownwardGrows
  <2> QED BY <1>1, <1>2, <2>1 DEF Shaped, GrownBy
<1>6. ASSUME Complete(s, q, early, seen) PROVE Complete(u, q, early, seen)
  <2>1. ToCome(u, q.order, q.types, early, Gone(q), seen)
    BY <1>3, <1>4, <1>6, ToComeGrows DEF Complete
  <2>2. ASSUME Pending(q)
        PROVE  /\ Answered(u, q.order, q.types, S, G)
               /\ Served(u, q.order, S, G, Gone(q), seen)
    <3>1. Answered(s, q.order, q.types, S, G) /\ Served(s, q.order, S, G, Gone(q), seen)
      BY <1>1, <1>2, <1>6, <2>2 DEF Complete
    <3>2. Downward(s, q.types, S)
      BY <1>3, <2>2
    <3> QED BY <1>1, <1>4, <3>1, <3>2, AnsweredGrows, ServedGrows
  <2> QED BY <1>1, <1>2, <2>1, <2>2 DEF Complete
<1> QED BY <1>5, <1>6

\* ------------------------------------------------------------ an answer
LEMMA Irreflexive ==
  ASSUME NEW s \in Histories, NEW o \in Orders, NEW a \in DOMAIN s PROVE ~ Sorts(s, o, a, a)
<1>1. s[a].at \in Nat
  BY EntryType
<1> QED BY <1>1, OrderCases, NewerOrders DEF Sorts, Precedes

LEMMA PlaceFits ==
  ASSUME NEW s \in Histories, NEW o \in Orders, NEW G \in SUBSET DOMAIN s, NEW a \in G
  PROVE  /\ Place(s, o, G, a) \in Nat /\ Cardinality(G) \in Nat
         /\ Place(s, o, G, a) < Cardinality(G)
<1>1. IsFiniteSet(G) /\ Before(s, o, G, a) \in SUBSET G /\ Before(s, o, G, a) # G
  <2>1. G \in SUBSET DOMAIN s
    OBVIOUS
  <2> QED BY <2>1, HistoryFinite, FS_Subset, Irreflexive DEF Before
<1> QED BY <1>1, CardinalityGrows DEF Place

PageOf(s, q, G) == {a \in G : Place(s, q.order, G, a) \div PageSize = q.page - 1}

LEMMA AnswerShows ==
  ASSUME NEW s \in Histories, NEW q \in PageRequest, q.page # 0, NEW S, NEW G \in SUBSET DOMAIN s,
         NEW seen, NEW more, more = seen \cup PageOf(s, q, G),
         Answered(s, q.order, q.types, S, G), Served(s, q.order, S, G, Gone(q), seen)
  PROVE  /\ ToCome(s, q.order, q.types, S, q.page * PageSize, more)
         /\ (~ (q.page * PageSize < Cardinality(G)) => AllSeen(s, q.order, q.types, S, more))
<1>1. /\ Gone(q) \in Nat /\ q.page \in Nat \ {0} /\ q.types \in SUBSET Types /\ q.order \in Orders
      /\ q.page * PageSize = Gone(q) + PageSize /\ q.page * PageSize \in Nat
      /\ PageSize \in Nat \ {0}
  BY GoneType, PagesAssumption
<1>2. ASSUME NEW a \in S, a \notin more, a \in Matching(s, q.types), ~ Disturbed(s, q.order, S)
      PROVE  /\ q.page * PageSize <= Place(s, q.order, Matching(s, q.types), a)
             /\ q.page * PageSize < Cardinality(G)
  <2>1. a \in G /\ Place(s, q.order, G, a) <= Place(s, q.order, Matching(s, q.types), a)
    BY <1>2 DEF Answered
  <2>2. Gone(q) <= Place(s, q.order, G, a)
    BY <1>2, <2>1 DEF Served
  <2>3. /\ Place(s, q.order, G, a) \in Nat /\ Cardinality(G) \in Nat
        /\ Place(s, q.order, G, a) < Cardinality(G)
    BY <1>1, <2>1, PlaceFits
  <2>4. Place(s, q.order, Matching(s, q.types), a) \in Nat
    BY BeforeFinite, MatchingOf
  <2>5. ~ (Place(s, q.order, G, a) < q.page * PageSize)
    <3>1. Place(s, q.order, G, a) \div PageSize # q.page - 1
      BY <1>2, <2>1 DEF PageOf
    <3>2. PICK n \in Nat : n = Place(s, q.order, G, a)
      BY <2>3
    <3> QED BY <1>1, <2>2, <3>1, <3>2, PageBounds DEF Gone
  <2> QED BY <1>1, <2>1, <2>3, <2>4, <2>5
<1> QED BY <1>2 DEF ToCome, AllSeen

LEMMA AnswerIsDownward ==
  ASSUME NEW s, NEW types PROVE Downward(s, types, Matching(s, types))
BY DEF Downward, Matching, Front

\* --------------------------------------------- the operators of the code
LEMMA PagesTypes ==
  ASSUME PagesInv
  PROVE  /\ indexed \in Histories /\ request \in PageRequest /\ dropped \in BOOLEAN
         /\ atFirst \in SUBSET DOMAIN indexed /\ shown \in SUBSET DOMAIN indexed
         /\ request.data \in SUBSET DOMAIN indexed
         /\ request.order \in Orders /\ request.types \in SUBSET Types
         /\ request.page \in Nat \ {0}
         /\ Shaped(indexed, request, atFirst)
         /\ (~dropped => Complete(indexed, request, atFirst, shown))
BY DEF PagesInv, PagesTypeOK, PageRequest, Histories, Shaped, Transactions

LEMMA NewestFirstMeant == \A a, b : NewestFirst(a, b) <=> Newer(indexed, a, b)
BY DEF NewestFirst, Newer

LEMMA FrontIsAsked ==
  ASSUME indexed \in Histories PROVE GetUserTransactions = Front(indexed)
<1>1. \A S : Newest(S) = FirstOf(indexed, S)
  BY NewestFirstMeant DEF Newest, Position, FirstOf, Ahead, NewestFirst, Newer
<1>2. UNION {Newest({a \in Transactions : indexed[a].type = t}) : t \in Types} = TypeByType(indexed)
  BY <1>1 DEF TypeByType, OfType, Transactions
<1> QED BY <1>1, <1>2, FrontIsNewest DEF GetUserTransactions

LEMMA SortsMeant ==
  ASSUME request \in PageRequest
  PROVE  \A a, b : SortsBefore(a, b) <=> Sorts(indexed, request.order, a, b)
<1>1. request.order[1] \in {"date", "type"}
  BY OrderCases DEF PageRequest
<1>2. SUFFICES ASSUME NEW a, NEW b PROVE SortsBefore(a, b) <=> Sorts(indexed, request.order, a, b)
  OBVIOUS
<1>3. NewestFirst(a, b) <=> Newer(indexed, a, b)
  BY NewestFirstMeant
<1>4. CASE request.order[1] = "date"
  BY <1>3, <1>4 DEF SortsBefore, Sorts, Precedes
<1>5. CASE request.order[1] = "type"
  BY <1>3, <1>5 DEF SortsBefore, Sorts, Precedes
<1> QED BY <1>1, <1>4, <1>5

LEMMA PageMeant ==
  ASSUME request \in PageRequest, NEW txs
  PROVE  Page(txs) = PageOf(indexed, request, txs)
<1>1. \A a : {b \in txs : SortsBefore(b, a)} = Before(indexed, request.order, txs, a)
  BY SortsMeant DEF Before
<1>2. \A a : Position(a, txs, SortsBefore) = Place(indexed, request.order, txs, a)
  BY <1>1 DEF Position, Place
<1> QED BY <1>2 DEF Page, PageOf

\* ----------------------------------------------------------------- steps
LEMMA PagesStart == PagesInit => PagesInv
<1>1. SUFFICES ASSUME PagesInit PROVE PagesInv
  OBVIOUS
<1>2. /\ indexed = <<>> /\ request \in FirstRequests /\ atFirst = {} /\ shown = {}
      /\ dropped = FALSE
  BY <1>1 DEF PagesInit
<1>3. /\ request \in PageRequest /\ request.data = {} /\ request.page = 1 /\ request.pc = "idle"
  BY <1>2 DEF FirstRequests, PageRequest
<1>4. PagesTypeOK
  <2>1. <<>> \in Seq(Transaction)
    OBVIOUS
  <2> QED BY <1>2, <1>3, <2>1 DEF PagesTypeOK
<1>5. Shaped(indexed, request, atFirst)
  BY <1>2, <1>3 DEF Shaped, Timely, Downward, Pending
<1>6. Complete(indexed, request, atFirst, shown)
  BY <1>2, <1>3 DEF Complete, ToCome, Pending
<1> QED BY <1>4, <1>5, <1>6 DEF PagesInv

LEMMA IndexKeeps == PagesInv /\ Index => PagesInv'
<1>1. SUFFICES ASSUME PagesInv, Index PROVE PagesInv'
  OBVIOUS
<1>2. PICK s, u : s = indexed /\ u = indexed'
  OBVIOUS
<1>3. /\ s \in Histories /\ Timely(s) /\ Len(s) \in Nat /\ DOMAIN s = 1 .. Len(s)
  BY <1>1, <1>2, PagesTypes DEF Shaped, Histories
<1>4. PICK t \in Types, later \in {0, 1} :
        u = Append(s, [type |-> t, at |-> later + IF s = <<>> THEN 0 ELSE s[Len(s)].at])
  BY <1>1, <1>2 DEF Index
<1>5. PICK latest \in Nat : /\ latest = IF s = <<>> THEN 0 ELSE s[Len(s)].at
                          /\ latest <= Len(s) /\ \A i \in DOMAIN s : s[i].at <= latest
  <2>1. CASE s = <<>>
    BY <1>3, <2>1
  <2>2. CASE s # <<>>
    <3>1. Len(s) \in DOMAIN s /\ \A i \in DOMAIN s : i <= Len(s)
      BY <1>3, <2>2 DEF Histories
    <3>2. s[Len(s)].at \in Nat /\ s[Len(s)].at <= Len(s) /\ \A i \in DOMAIN s : s[i].at <= s[Len(s)].at
      BY <1>3, <3>1, EntryType DEF Timely
    <3> QED BY <2>2, <3>2
  <2> QED BY <2>1, <2>2
<1>6. PICK x : x = [type |-> t, at |-> later + latest] /\ u = Append(s, x)
  BY <1>4, <1>5
<1>7. x \in Transaction /\ x.at <= Len(s) + 1 /\ \A i \in DOMAIN s : s[i].at <= x.at
  <2>1. Len(s) < MaxTransactions /\ MaxTransactions \in Nat /\ later \in Nat /\ later <= 1
    BY <1>1, <1>2, <1>4, PagesAssumption DEF Index
  <2>2. later + latest \in 0 .. MaxTransactions /\ later + latest <= Len(s) + 1 /\ latest <= later + latest
    BY <1>3, <1>5, <2>1
  <2>3. \A i \in DOMAIN s : s[i].at \in Nat
    BY <1>3, EntryType
  <2> QED BY <1>4, <1>5, <1>6, <2>2, <2>3 DEF Transaction
<1>8. GrownBy(s, u, Len(s) + 1)
  BY <1>3, <1>6, <1>7, AppendGrows
<1>9. /\ request' = request /\ atFirst' = atFirst /\ shown' = shown /\ dropped' = dropped
      /\ request.pc # "end"
  BY <1>1 DEF Index
<1>10. /\ Shaped(u, request, atFirst)
       /\ (Complete(s, request, atFirst, shown) => Complete(u, request, atFirst, shown))
  BY <1>1, <1>2, <1>8, <1>9, PagesTypes, IndexedKeeps
<1>11. u \in Histories /\ DOMAIN s \subseteq DOMAIN u
  BY <1>8 DEF GrownBy
<1> QED
  BY <1>1, <1>2, <1>9, <1>10, <1>11, PagesTypes DEF PagesInv, PagesTypeOK, Histories, Transactions

\* A step that only moves the request on, or loses what it had in hand.
LEMMA MovesOn ==
  ASSUME PagesInv, NEW pc \in {"idle", "subgraph"}, NEW q,
         q = [request EXCEPT !.pc = pc] \/ q = [request EXCEPT !.pc = pc, !.data = {}],
         request' = q, UNCHANGED <<indexed, atFirst, shown, dropped>>
  PROVE  PagesInv'
<1>1. /\ q \in PageRequest /\ q.pc = pc /\ q.page = request.page /\ q.order = request.order
      /\ q.types = request.types /\ q.data \in SUBSET DOMAIN indexed
  BY PagesTypes DEF PageRequest
<1>2. ~ Pending(q) /\ Gone(q) = Gone(request)
  BY <1>1 DEF Pending, Gone
<1>3. Shaped(indexed, q, atFirst)
  BY <1>1, <1>2, PagesTypes DEF Shaped
<1>4. Complete(indexed, request, atFirst, shown) => Complete(indexed, q, atFirst, shown)
  BY <1>1, <1>2 DEF Complete
<1> QED BY <1>1, <1>3, <1>4, PagesTypes DEF PagesInv, PagesTypeOK, Transactions

LEMMA RequestPageKeeps == PagesInv /\ RequestPage => PagesInv'
BY MovesOn DEF RequestPage, Continue

LEMMA RequestFailsKeeps == PagesInv /\ RequestFails => PagesInv'
BY MovesOn DEF RequestFails

LEMMA QuerySubgraphKeeps == PagesInv /\ QuerySubgraph => PagesInv'
<1>1. SUFFICES ASSUME PagesInv, QuerySubgraph PROVE PagesInv'
  OBVIOUS
<1>2. PICK q : /\ q = [request EXCEPT !.pc = "status", !.data = Front(indexed)] /\ request' = q
               /\ UNCHANGED <<indexed, atFirst, shown, dropped>>
  BY <1>1, FrontIsAsked, PagesTypes DEF QuerySubgraph
<1>3. /\ q \in PageRequest /\ q.pc = "status" /\ q.page = request.page /\ q.order = request.order
      /\ q.types = request.types /\ q.data = Front(indexed) /\ q.data \in SUBSET DOMAIN indexed
      /\ Gone(q) = Gone(request)
  <2>1. Front(indexed) \in SUBSET DOMAIN indexed /\ Front(indexed) \in SUBSET Nat
    BY <1>1, PagesTypes, HistoryFinite DEF Front
  <2>2. request \in PageRequest
    BY <1>1, PagesTypes
  <2> QED BY <1>2, <2>1, <2>2 DEF PageRequest, Gone
<1>4. Given(indexed, q) = Matching(indexed, q.types)
  BY <1>3 DEF Given, Matching
<1>5. PICK S : S = Listed(indexed, q, atFirst) /\ S \in SUBSET DOMAIN indexed
  BY <1>1, <1>3, <1>4, MatchingOf, PagesTypes DEF Listed
<1>6. Downward(indexed, q.types, S)
  BY <1>1, <1>3, <1>4, <1>5, AnswerIsDownward, PagesTypes DEF Shaped, Listed
<1>7. Shaped(indexed, q, atFirst)
  BY <1>1, <1>3, <1>5, <1>6, PagesTypes DEF Shaped
<1>8. ASSUME Complete(indexed, request, atFirst, shown) PROVE Complete(indexed, q, atFirst, shown)
  <2>1. ToCome(indexed, q.order, q.types, atFirst, Gone(q), shown)
    BY <1>3, <1>8 DEF Complete
  <2>2. /\ indexed \in Histories /\ q.order \in Orders /\ q.page \in Nat \ {0}
        /\ Matching(indexed, q.types) \in SUBSET DOMAIN indexed
    BY <1>1, <1>3, PagesTypes, MatchingOf
  <2>3. \A a \in Matching(indexed, q.types) : Place(indexed, q.order, Matching(indexed, q.types), a) \in Nat
    BY <2>2, BeforeFinite
  <2>4. Answered(indexed, q.order, q.types, S, Given(indexed, q))
    BY <1>4, <2>3 DEF Answered
  <2>5. Served(indexed, q.order, S, Given(indexed, q), Gone(q), shown)
    <3>1. CASE q.page = 1
      <4>1. Gone(q) = 0
        BY <3>1, PagesAssumption DEF Gone
      <4> QED BY <1>4, <2>3, <4>1 DEF Served
    <3>2. CASE q.page # 1
      <4>1. S = atFirst
        BY <1>5, <3>2 DEF Listed
      <4> QED BY <1>4, <2>1, <4>1 DEF Served, ToCome
    <3> QED BY <3>1, <3>2
  <2> QED BY <1>3, <1>5, <2>1, <2>4, <2>5 DEF Complete
<1> QED BY <1>1, <1>2, <1>3, <1>7, <1>8, PagesTypes DEF PagesInv, PagesTypeOK, Transactions

LEMMA GetSyncStatusKeeps == PagesInv /\ GetSyncStatus => PagesInv'
<1>1. SUFFICES ASSUME PagesInv, GetSyncStatus PROVE PagesInv'
  OBVIOUS
<1>2. PICK q : /\ q = [request EXCEPT !.pc = "prices", !.data = Given(indexed, request)] /\ request' = q
               /\ UNCHANGED <<indexed, atFirst, shown, dropped>>
  BY <1>1 DEF GetSyncStatus, Given
<1>3. /\ q \in PageRequest /\ q.pc = "prices" /\ q.page = request.page /\ q.order = request.order
      /\ q.types = request.types /\ q.data = Given(indexed, request)
      /\ q.data \in SUBSET DOMAIN indexed /\ Gone(q) = Gone(request)
  <2>1. Given(indexed, request) \in SUBSET request.data /\ request \in PageRequest
        /\ request.data \in SUBSET DOMAIN indexed
    BY <1>1, PagesTypes DEF Given
  <2> QED BY <1>2, <2>1 DEF PageRequest, Gone
<1>4. Given(indexed, q) = Given(indexed, request) /\ q.data = Given(indexed, q)
  BY <1>3 DEF Given
<1>5. Listed(indexed, q, atFirst) = Listed(indexed, request, atFirst)
  BY <1>3, <1>4 DEF Listed
<1>6. Pending(request) /\ request.pc = "status"
  BY <1>1 DEF GetSyncStatus, Pending
<1>7. Shaped(indexed, q, atFirst)
  BY <1>1, <1>3, <1>4, <1>5, <1>6, PagesTypes DEF Shaped
<1>8. ASSUME Complete(indexed, request, atFirst, shown) PROVE Complete(indexed, q, atFirst, shown)
  BY <1>3, <1>4, <1>5, <1>6, <1>8 DEF Complete
<1> QED BY <1>1, <1>2, <1>3, <1>7, <1>8, PagesTypes DEF PagesInv, PagesTypeOK, Transactions

LEMMA EnrichTransactionsKeeps == PagesInv /\ EnrichTransactions => PagesInv'
<1>1. SUFFICES ASSUME PagesInv, EnrichTransactions PROVE PagesInv'
  OBVIOUS
<1>2. PICK priced \in SUBSET request.data :
        /\ atFirst' = IF request.page = 1 THEN request.data ELSE atFirst
        /\ shown' = shown \cup Page(priced)
        /\ dropped' = (dropped \/ priced # request.data)
        /\ request' = [request EXCEPT !.data = {}, !.page = @ + 1,
                         !.pc = IF HasNext(priced) THEN "idle" ELSE "end"]
  BY <1>1 DEF EnrichTransactions
<1>3. PICK G, S, more, q, s :
        /\ s = indexed /\ G = request.data /\ more = shown' /\ q = request' /\ S = atFirst'
  OBVIOUS
<1>4. /\ s = indexed /\ s' = indexed' /\ indexed' = indexed /\ s \in Histories
      /\ request.pc = "prices" /\ Pending(request)
      /\ G \in SUBSET DOMAIN s /\ G = Given(s, request)
  BY <1>1, <1>3, PagesTypes DEF EnrichTransactions, Pending, Shaped
<1>5. S = Listed(s, request, atFirst) /\ S \in SUBSET DOMAIN s
  BY <1>1, <1>2, <1>3, <1>4, PagesTypes DEF Listed
<1>6. /\ q \in PageRequest /\ q.page = request.page + 1 /\ q.order = request.order
      /\ q.types = request.types /\ q.data = {} /\ ~ Pending(q) /\ q.pc \in {"idle", "end"}
      /\ (q.pc = "end" => ~ HasNext(priced))
      /\ q.page # 1 /\ q.page # 0
  <2>1. /\ request \in PageRequest /\ request.page \in Nat /\ request.page # 0
    BY <1>1, PagesTypes
  <2>2. PICK pc \in {"idle", "end"} :
          /\ q = [request EXCEPT !.data = {}, !.page = @ + 1, !.pc = pc]
          /\ (pc = "end" => ~ HasNext(priced))
    BY <1>2, <1>3
  <2>3. /\ q \in PageRequest /\ q.page = request.page + 1 /\ q.order = request.order
        /\ q.types = request.types /\ q.data = {} /\ q.pc = pc
    <3>1. PICK r, n : r = request /\ n = r.page + 1 /\ n \in Nat
      BY <2>1
    <3>2. r \in PageRequest /\ q = [r EXCEPT !.data = {}, !.page = n, !.pc = pc]
      BY <2>1, <2>2, <3>1
    <3>3. q \in PageRequest /\ q.page = n /\ q.order = r.order /\ q.types = r.types
          /\ q.data = {} /\ q.pc = pc
      BY <3>1, <3>2 DEF PageRequest
    <3> QED BY <3>1, <3>3
  <2>4. q.page # 1 /\ q.page # 0
    BY <2>1, <2>3
  <2> QED BY <2>2, <2>3, <2>4 DEF Pending
<1>7. Gone(q) = request.page * PageSize
  <2>1. q.page - 1 = request.page
    BY <1>1, <1>6, PagesTypes
  <2> QED BY <2>1 DEF Gone
<1>8. Downward(s, q.types, S)
  BY <1>1, <1>4, <1>5, <1>6, PagesTypes DEF Shaped
<1>9. Shaped(s, q, S)
  BY <1>1, <1>3, <1>6, <1>8, PagesTypes DEF Shaped
<1>10. Page(priced) \in SUBSET DOMAIN s
  BY <1>2, <1>3, <1>4 DEF Page
<1>11. ASSUME ~ dropped' PROVE Complete(s, q, S, more)
  <2>1. priced = G /\ ~ dropped
    BY <1>2, <1>3, <1>11
  <2>2. more = shown \cup PageOf(s, request, G)
    BY <1>1, <1>2, <1>3, <2>1, PageMeant, PagesTypes
  <2>3. /\ Answered(s, request.order, request.types, S, G)
        /\ Served(s, request.order, S, G, Gone(request), shown)
    BY <1>1, <1>3, <1>4, <1>5, <2>1, PagesTypes DEF Complete
  <2>4. /\ ToCome(s, request.order, request.types, S, request.page * PageSize, more)
        /\ (~ (request.page * PageSize < Cardinality(G)) => AllSeen(s, request.order, request.types, S, more))
    BY <1>1, <1>4, <2>2, <2>3, AnswerShows, PagesTypes
  <2>5. q.pc = "end" => ~ (request.page * PageSize < Cardinality(G))
    BY <1>6, <2>1 DEF HasNext
  <2> QED BY <1>6, <1>7, <2>4, <2>5 DEF Complete
<1>12. dropped' \in BOOLEAN
  BY <1>2
<1>13. shown' \in SUBSET DOMAIN s
  BY <1>1, <1>2, <1>3, <1>10, PagesTypes
<1>14. PagesTypeOK'
  BY <1>3, <1>4, <1>5, <1>6, <1>12, <1>13 DEF PagesTypeOK, Transactions, Histories
<1>15. /\ Shaped(indexed', request', atFirst')
       /\ (~dropped' => Complete(indexed', request', atFirst', shown'))
  BY <1>3, <1>4, <1>9, <1>11
<1> QED BY <1>14, <1>15 DEF PagesInv

LEMMA PagesSame == PagesInv /\ UNCHANGED pageVars => PagesInv'
BY DEF PagesInv, PagesTypeOK, pageVars, Transactions

LEMMA PagesStep == PagesInv /\ [PagesNext]_pageVars => PagesInv'
BY IndexKeeps, RequestPageKeeps, QuerySubgraphKeeps, GetSyncStatusKeeps, EnrichTransactionsKeeps,
   RequestFailsKeeps, PagesSame DEF PagesNext

LEMMA AllRead == PagesInv => NothingMissed
<1>1. SUFFICES ASSUME PagesInv, request.pc = "end", ~ dropped, NEW a \in atFirst
               PROVE  \/ a \in shown \/ PushedOut(a)
                      \/ request.order = <<"date", "asc">> /\ \E b \in atFirst : PushedOut(b)
  BY DEF NothingMissed
<1>2. AllSeen(indexed, request.order, request.types, atFirst, shown)
  BY <1>1, PagesTypes DEF Complete
<1>3. indexed[a].type \in request.types
  BY <1>1, PagesTypes DEF Shaped, Downward
<1>4. \A b : PushedOut(b) <=> b \notin Front(indexed)
  BY <1>1, PagesTypes, FrontIsAsked DEF PushedOut
<1> QED BY <1>1, <1>2, <1>3, <1>4 DEF AllSeen, Matching, Disturbed

\* However the history grows while a client reads page after page, fails and asks again,
\* it has seen in the end every transaction that was there at first and is still among
\* the newest, but where a price was missing or the date ascends and one that was there
\* was pushed out.
THEOREM EveryTransactionSeen == PagesSpec => []NothingMissed
<1>1. PagesSpec => []PagesInv
  BY PagesStart, PagesStep, PTL DEF PagesSpec
<1> QED BY <1>1, AllRead, PTL

-----------------------------------------------------------------------------
(* The two queries side by side *)

\* What either query does is one of its own steps, and leaves the other as it is.
THEOREM ReadsImplementEach == FairReadsSpec => ScanSpec /\ PagesSpec
<1>1. ReadsInit => ScanInit /\ PagesInit
  BY DEF ReadsInit
<1>2. [ReadsNext]_readVars => [ScanNext]_scanVars /\ [PagesNext]_pageVars
  BY DEF ReadsNext, ReadEvents, ReadTransactions, readVars
<1> QED BY <1>1, <1>2, PTL DEF FairReadsSpec, ScanSpec, PagesSpec

\* The scan, the history, the request and the pages keep their types.
THEOREM ReadsTypeCorrect == FairReadsSpec => []ReadsTypeOK
<1>1. ReadsInit => query \in Queries
  BY DEF ReadsInit
<1>2. query \in Queries /\ [ReadsNext]_readVars => (query \in Queries)'
  BY DEF ReadsNext, ReadEvents, ReadTransactions, readVars
<1>3. FairReadsSpec => [](query \in Queries)
  BY <1>1, <1>2, PTL DEF FairReadsSpec
<1>4. PagesSpec => []PagesInv
  BY PagesStart, PagesStep, PTL DEF PagesSpec
<1>5. query \in Queries /\ ScanTypeOK /\ PagesInv => ReadsTypeOK
  BY DEF ReadsTypeOK, PagesInv
<1> QED BY <1>3, <1>4, <1>5, ScanTypeCorrect, ReadsImplementEach, PTL

\* Of the reads as they are served: blocks are found, scans are complete and no
\* transaction is missed.
THEOREM ServedReadsComplete == FairReadsSpec => [](BlockFound /\ ScanComplete /\ NothingMissed)
BY SearchLocates, ScanCollectsAll, EveryTransactionSeen, ReadsImplementEach, PTL
=============================================================================
