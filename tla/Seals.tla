------------------------------- MODULE Seals --------------------------------
(***************************************************************************)
(* Seals of operations as clients make and pass them on.  An operation is  *)
(* its type, sender and items, the keys that signed it and whether it has  *)
(* its memo.  The fact is the first three.                                 *)
(* External: mitum's seals and signatures.                                 *)
(***************************************************************************)
EXTENDS Naturals, SequencesExt

CONSTANTS
    Privatekeys,
    Senders,      \* senders and targets
    Items,        \* the receiver or the keys of an item; the amount is left out
    MaxItems,     \* MaxTransferItems, MaxCreateAccountsItems
    Imported      \* seals that other programs made

WithItems == {"create-account", "transfer"}
SuffrageTypes == {"currency-register", "currency-policy-updater"}
Types == WithItems \cup {"key-updater"} \cup SuffrageTypes

Fact(op) == [type |-> op.type, sender |-> op.sender, items |-> op.items]

NoSeal == [signer |-> "none", ops |-> <<>>]

Operations ==
    [type : Types, sender : Senders, items : Seq(Items), signs : SUBSET Privatekeys, memo : BOOLEAN]

ASSUME ImportedAssumption == Imported \subseteq [signer : Privatekeys, ops : Seq(Operations) \ {<<>>}]

ASSUME MaxItemsAssumption == MaxItems \in Nat \ {0}

\* IsValid of an operation: no item twice and not too many.
ItemsAreValid(op) == IsInjective(op.items) /\ Len(op.items) <= MaxItems

\* loadSeal: a seal, and valid.  What the commands print they have not
\* checked.
Readable(s) == s # NoSeal /\ \A i \in DOMAIN s.ops : ItemsAreValid(s.ops[i])

\* Who has signed the facts of s.
SignedIn(s) == UNION {{<<Fact(s.ops[i]), k>> : k \in s.ops[i].signs} : i \in DOMAIN s.ops}
=============================================================================
