----------------------------- MODULE MCClients ------------------------------
EXTENDS Clients

\* A seal of two operations, such as the API sends and returns.
MCImported ==
    {[signer |-> "k2", ops |->
       <<[type |-> "transfer", sender |-> "A", items |-> <<"i1">>, signs |-> {"k1"}, memo |-> TRUE],
         [type |-> "currency-register", sender |-> "A", items |-> <<>>, signs |-> {"k2"}, memo |-> TRUE]>>]}
=============================================================================
