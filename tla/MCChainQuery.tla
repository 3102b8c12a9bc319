--------------------------- MODULE MCChainQuery ---------------------------
EXTENDS ChainQuery

Doc(col, h, c) == [col |-> col, height |-> h, currency |-> c]

\* The genesis block registers a currency, block 1 creates the account with
\* some of it, and block 2 registers another, of which the account has all,
\* and changes the policy of the first.
MCDocs == {Doc("operation", 0, ""), Doc("operation", 1, ""), Doc("account", 1, ""),
           Doc("balance", 1, "A"), Doc("operation", 2, ""), Doc("balance", 2, "B")}

MCDesigns == {[cid |-> "A", height |-> 0], [cid |-> "A", height |-> 2], [cid |-> "B", height |-> 2]}

\* One client follows the links, the other asks for the operation alone.
MCAsked ==
    [c1 |-> {Currencies_, Currency("A"), AccountKey, AccountOperations, Operation(1),
             Manifests(2, TRUE)},
     c2 |-> {Operation(1)}]
=============================================================================
