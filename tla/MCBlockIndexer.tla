---------------------------- MODULE MCBlockIndexer ----------------------------
EXTENDS BlockIndexer

CONSTANTS e1, e2

\* One block has an ETH transfer and calls of two contracts, the first of which logs
\* nothing; the other blocks are empty.
MCTransfers == [b \in Blocks |-> IF b = 3 THEN <<e1>> ELSE <<>>]
MCLogs == [b \in Blocks |-> IF b = 3 THEN <<<<>>, <<e2>>>> ELSE <<>>]
=============================================================================
