------------------------------ MODULE BlockQueue ------------------------------
(***************************************************************************)
(* What the block listener and its worker share: the Bull queue of blocks  *)
(* of one network, which outlives the process, and the number of calls     *)
(* (JSON-RPC, Redis) that may still be rejected.                           *)
(***************************************************************************)
EXTENDS Integers, Sequences

CONSTANTS
  MaxHead,      \* bound: the chain stops growing at this block
  Attempts,     \* the attempts given to queue.add (3)
  MaxFailures,  \* bound: calls that are rejected
  MaxRestarts   \* bound: crashes of the process

ASSUME HeadAssumption == MaxHead \in Nat \ {0}
ASSUME AttemptsAssumption == Attempts \in Nat \ {0}

Blocks == 1 .. MaxHead

VARIABLES
  waiting,   \* waiting[b][n]: jobs of block b that wait after n failed attempts
  added,     \* added[b]: jobs ever added for block b
  failures,  \* calls rejected so far
  restarts   \* crashes so far

queueVars == <<waiting, added, failures, restarts>>

QueueType == /\ waiting \in [Blocks -> [0 .. Attempts - 1 -> Nat]]
             /\ added \in [Blocks -> Nat]
             /\ failures \in Nat
             /\ restarts \in Nat

QueueInit == /\ waiting = [b \in Blocks |-> [n \in 0 .. Attempts - 1 |-> 0]]
             /\ added = [b \in Blocks |-> 0]
             /\ failures = 0
             /\ restarts = 0

\* Jobs carry no jobId, so a block added twice is two jobs.
Enqueued(b) == [waiting EXCEPT ![b][0] = @ + 1]
Requeued(b, n) == [waiting EXCEPT ![b][n] = @ + 1]
Dequeued(b, n) == [waiting EXCEPT ![b][n] = @ - 1]

\* One more call is rejected.
Rejected == failures < MaxFailures /\ failures' = failures + 1
Answered == UNCHANGED failures
=============================================================================
