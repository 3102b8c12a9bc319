------------------------------ MODULE MCDigest ------------------------------
EXTENDS Digest

\* The block of height 2 needs two bulk writes of operations, the one of
\* height 3 sets no account state; the pre-genesis block is empty.
MCChunks == [h \in Heights |-> [col \in Collections |->
    CASE h = PreGenesisHeight -> 0
      [] h = 2 /\ col = "operation" -> 2
      [] h = 3 /\ col = "account" -> 0
      [] OTHER -> 1]]
=============================================================================
