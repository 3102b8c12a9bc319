---------------------------- MODULE AccountQuery ----------------------------
(***************************************************************************)
(* Reading one account from the digest (Database.Account, balance in       *)
(* digest/database.go) while the digester works: one query for the keys,   *)
(* then one for the newest balance in a currency not yet seen, until there *)
(* is none.  Nothing holds the queries of a read together.                 *)
(***************************************************************************)
EXTENDS DigestStore

CONSTANTS Currencies, Readers

ASSUME AccountAssumption ==
    \A d \in Docs : d.col = "balance" => d.currency \in Currencies

NilHeight == -2

VARIABLE reads
vars == <<store, reads>>

\* Mutant: the oldest document is found.
AnyOldest(docs) == {d \in docs : \A e \in docs : e.height >= d.height}

\* FindOne sorted by height, the highest first: one of these.
AnyNewest(docs) == {d \in docs : \A e \in docs : e.height =< d.height}

Of(col) == {d \in stored : d.col = col}

\* keys and amounts are the heights of the states found; began is what was
\* settled when the read began.
Read(p, k, a, b) == [pc |-> p, keys |-> k, amounts |-> a, began |-> b]

NoAmounts == [c \in Currencies |-> NilHeight]

NoRead == Read("idle", NilHeight, NoAmounts, NilHeight)

Init == StoreInit /\ reads = [r \in Readers |-> NoRead]

Request(r) ==
    /\ reads[r].pc = "idle"
    /\ reads' = [reads EXCEPT ![r] = Read("account", NilHeight, NoAmounts, Settled)]
    /\ UNCHANGED store

Account(r) ==
    /\ reads[r].pc = "account"
    /\ IF Of("account") = {} THEN reads' = [reads EXCEPT ![r].pc = "not found"]
       ELSE \E d \in AnyNewest(Of("account")) :
              reads' = [reads EXCEPT ![r] = Read("balance", d.height, @.amounts, @.began)]
    /\ UNCHANGED store

\* Mutant: the currencies seen are not left out of the next query.
AnyBalance(r) == Of("balance")

\* The balances of the currencies that the read has not seen.
Unseen(r) == {d \in Of("balance") : reads[r].amounts[d.currency] = NilHeight}

Balance(r) ==
    /\ reads[r].pc = "balance"
    /\ IF Unseen(r) = {} THEN reads' = [reads EXCEPT ![r].pc = "found"]
       ELSE \E d \in AnyNewest(Unseen(r)) :
              reads' = [reads EXCEPT ![r] =
                          Read("balance", @.keys, [@.amounts EXCEPT ![d.currency] = d.height],
                               @.began)]
    /\ UNCHANGED store

Query(r) == Account(r) \/ Balance(r)

\* Whether Database.Account has its result.
Complete(r) == reads[r].pc \in {"found", "not found"}

\* The read is answered.
Return(r) ==
    /\ Complete(r)
    /\ reads' = [reads EXCEPT ![r] = NoRead]
    /\ UNCHANGED store

Digesting == StoreNext /\ UNCHANGED reads

Next == Digesting \/ \E r \in Readers : Request(r) \/ Query(r) \/ Return(r)

\* Queries return; nobody has to ask or to digest.
Spec == Init /\ [][Next]_vars /\ \A r \in Readers : WF_vars(Query(r))

-----------------------------------------------------------------------------
\* The heights of a collection's settled documents that a read should not
\* miss.
SettledHeights(r, docs) == {d.height : d \in {e \in docs : e.height =< reads[r].began}}

\* A read that is answered is as new as what was settled when it began, in
\* the keys and in each currency, whatever the digester deletes, inserts or
\* repeats between its queries.
NeverOlder ==
    \A r \in Readers :
        /\ reads[r].pc = "not found" => SettledHeights(r, {d \in Docs : d.col = "account"}) = {}
        /\ reads[r].pc = "found" =>
             /\ \A h \in SettledHeights(r, {d \in Docs : d.col = "account"}) : reads[r].keys >= h
             /\ \A c \in Currencies :
                  \A h \in SettledHeights(r, {d \in Docs : d.col = "balance" /\ d.currency = c}) :
                      reads[r].amounts[c] >= h
=============================================================================
