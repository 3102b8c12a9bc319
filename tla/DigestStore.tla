---------------------------- MODULE DigestStore -----------------------------
(***************************************************************************)
(* The documents of the digest database as its readers see them while the  *)
(* digester works on a block (digest/block_session.go, database.go).       *)
(*                                                                         *)
(* Module Digest has the calls of a session and their failures; here each  *)
(* document is on its own, because BulkWrite is unordered: a reader may    *)
(* see any part of a block.  Blocks come in the order of their heights and *)
(* a failed session starts again.  A node that starts digests its last     *)
(* block once more, while its API may already answer.                      *)
(*                                                                         *)
(* External: the database, which makes each document visible by itself.    *)
(***************************************************************************)
EXTENDS Integers

CONSTANTS
    Docs,       \* the documents of the chain: [col, height, ...]
    MaxHeight,  \* bound: the highest block
    MaxRetries  \* bound: failures of sessions

CleanOrder == <<"account", "balance", "operation">>
WriteOrder == <<"operation", "account", "balance">>

ASSUME DocsAssumption ==
    /\ MaxHeight \in Nat
    /\ MaxRetries \in Nat
    /\ \A d \in Docs : d.col \in {"account", "balance", "operation"} /\ d.height \in 0..MaxHeight

VARIABLES
    stored,  \* the documents in the database
    next,    \* the block to be digested next, or being digested
    pc,      \* the session's step: 0 none, 1..3 deletes, 4..6 inserts
    retries

store == <<stored, next, pc, retries>>

\* The highest block that no session works on.
Settled == next - 1

\* A digest that has its blocks below next; the follow-up of a start
\* digests the last one again.
StoreInit ==
    /\ next \in 0..MaxHeight
    /\ \E again \in BOOLEAN :
         stored = {d \in Docs : d.height < next \/ (again /\ d.height = next)}
    /\ pc = 0
    /\ retries = 0

DigestBlock ==
    /\ pc = 0
    /\ next =< MaxHeight
    /\ pc' = 1
    /\ UNCHANGED <<stored, next, retries>>

\* Mutant: the block below is deleted as well.
RemovedFromBelow(col) == {d \in stored : d.col = col /\ d.height >= next - 1}

\* cleanByHeight of one collection.
RemovedByHeight(col) == {d \in stored : d.col = col /\ d.height >= next}

CleanByHeight ==
    /\ pc \in 1..3
    /\ stored' = stored \ RemovedByHeight(CleanOrder[pc])
    /\ pc' = pc + 1
    /\ UNCHANGED <<next, retries>>

\* What the session has yet to insert into the collection it is at.
Missing == {d \in Docs \ stored : d.height = next /\ d.col = WriteOrder[pc - 3]}

\* writeModels: documents appear in any order.
Insert ==
    /\ pc \in 4..6
    /\ \E d \in Missing : stored' = stored \cup {d}
    /\ UNCHANGED <<next, pc, retries>>

\* The next collection, or the end of the session and SetLastBlock.
Inserted ==
    /\ pc \in 4..6
    /\ Missing = {}
    /\ IF pc < 6 THEN pc' = pc + 1 /\ UNCHANGED next
                 ELSE pc' = 0 /\ next' = next + 1
    /\ UNCHANGED <<stored, retries>>

\* A call of the session fails, and the digester starts the block again.
Retry ==
    /\ pc # 0
    /\ retries < MaxRetries
    /\ retries' = retries + 1
    /\ pc' = 1
    /\ UNCHANGED <<stored, next>>

StoreNext == DigestBlock \/ CleanByHeight \/ Insert \/ Inserted \/ Retry
=============================================================================
