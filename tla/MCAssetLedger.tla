----------------------------- MODULE MCAssetLedger -----------------------------
EXTENDS AssetLedger

CONSTANTS a, b, x1, x2, v1, v2

Log(t, f, to, n, blk, tx) ==
  [token |-> t, from |-> f, to |-> to, amount |-> n, block |-> blk, tx |-> tx]

\* A token is minted, moved and burned; mint and move share a transaction.
MCChain == <<Log("t1", Zero, a, 2, 1, "tx1"), Log("t1", a, b, 1, 2, "tx1"),
             Log("t1", b, Zero, 1, 3, "tx2")>>

\* Two executions, two discoveries, or one of each.
MCCasts == {{x1, x2}, {v1, v2}, {x2, v1}}

\* A token is minted and moved twice.
MCMoves == <<Log("t1", Zero, a, 1, 1, "tx1"), Log("t1", a, b, 1, 2, "tx2"),
             Log("t1", b, a, 1, 3, "tx3")>>
=============================================================================
