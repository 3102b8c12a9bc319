----------------------------- MODULE MCHandlers -----------------------------
EXTENDS Handlers, TLC

Op(h, i) == [col |-> "operation", height |-> h, index |-> i]

\* Blocks of one, two and one operations.
MCDocs == {Op(0, 0), Op(1, 0), Op(1, 1), Op(2, 0)}

MCLists == [operations |-> MCDocs]

\* Blocks of one and three operations, and an account that one of them
\* leaves alone.
MCTwoBlocks == {Op(0, 0), Op(1, 0), Op(1, 1), Op(1, 2)}

MCAccountLists == [account |-> MCTwoBlocks \ {Op(1, 0)}]

Interchangeable == Permutations(Clients)
=============================================================================
