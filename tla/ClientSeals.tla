---------------------------- MODULE ClientSeals -----------------------------
(***************************************************************************)
(* Seals on the client's side: the seal commands (cmds/create_account.go,  *)
(* transfer.go, key_updater.go, currency_register.go,                      *)
(* currency_policy_updater.go, sign_fact.go, sign_seal.go, send.go) read a *)
(* seal, print another, and are chained by files and pipes, often between  *)
(* the holders of the keys of one account.                                 *)
(*                                                                         *)
(* The model follows one file through the commands.                        *)
(* External: mitum's seals, signatures and FactSignUpdater.                *)
(***************************************************************************)
EXTENDS Seals

CONSTANT
    MaxCommands   \* bound: the commands in a chain

VARIABLES
    seal,    \* the file: a seal, or none
    consent, \* whoever had a fact signed, at a command or elsewhere
    hands,   \* the keys that signed since the operations of the file were made
    commands

file == <<seal, consent, hands, commands>>

FileInit ==
    /\ seal \in {NoSeal} \cup Imported
    /\ consent = SignedIn(seal)
    /\ hands = {}
    /\ commands = 0

\* A command prints a seal, which becomes the file.
Command(printed) ==
    /\ commands < MaxCommands
    /\ commands' = commands + 1
    /\ seal' = printed

\* A command with which k makes an operation, signs it and seals it.
Make(op, k) ==
    /\ Command([signer |-> k, ops |-> <<op>>])
    /\ consent' = consent \cup {<<Fact(op), k>>}
    /\ hands' = {k}

\* An operation that k makes and signs.
NewOperation(type, sender, items, k) ==
    [type |-> type, sender |-> sender, items |-> items, signs |-> {k}, memo |-> TRUE]

OfType(given, type) == SelectSeq(given.ops, LAMBDA op : op.type = type)

\* createOperation: the items of the last operation of the type, if any.
Loaded(given, type) ==
    IF OfType(given, type) = <<>> THEN <<>> ELSE Last(OfType(given, type)).items

\* Mutant: who has signed the operation in the file signs the new one.
SignedAsBefore(given, type, sender, item, k) ==
    LET new == NewOperation(type, sender, Append(Loaded(given, type), item), k)
    IN  [new EXCEPT !.signs = @ \cup UNION {op.signs : op \in ToSet(OfType(given, type))}]

\* The new operation has the item behind the loaded ones, under the sender
\* of this command, and one signature.  It is alone in the seal it is printed
\* in: "add operation to existing seal", says loadSealAndAddOperation of what
\* SetOperations makes it, but the other operations are left out.
Extended(given, type, sender, item, k) ==
    NewOperation(type, sender, Append(Loaded(given, type), item), k)

\* create-account and transfer, with --seal or not (given = NoSeal).
CreateOperation(given, type, sender, item, k) ==
    /\ given = NoSeal \/ Readable(given)
    /\ Make(Extended(given, type, sender, item, k), k)

\* The commands that read no file; what the suffrage's two register or change
\* is left out.
CreateAlone(type, sender, k) == Make(NewOperation(type, sender, <<>>, k), k)

KeyUpdater(target, k) == CreateAlone("key-updater", target, k)

CurrencyRegister(genesis, k) == CreateAlone("currency-register", genesis, k)

CurrencyPolicyUpdater(subject, k) == CreateAlone("currency-policy-updater", subject, k)

\* Mutant: the new signature takes the place of the others.
AddFactSignsAnew(op, k) == [op EXCEPT !.signs = {k}, !.memo = @ /\ op.type \notin SuffrageTypes]

\* AddFactSigns: the suffrage's operations have none of their own, and what
\* they take from the base operation leaves the memo behind.
AddFactSigns(op, k) == [op EXCEPT !.signs = @ \cup {k}, !.memo = @ /\ op.type \notin SuffrageTypes]

SignFact(k) ==
    /\ Readable(seal)
    /\ Command([signer |-> k, ops |-> [i \in DOMAIN seal.ops |-> AddFactSigns(seal.ops[i], k)]])
    /\ consent' = consent \cup {<<Fact(seal.ops[i]), k>> : i \in DOMAIN seal.ops}
    /\ hands' = hands \cup {k}

\* sign, which prints a seal that k has signed before as it is.
SignSeal(k) ==
    /\ Readable(seal)
    /\ Command([seal EXCEPT !.signer = k])
    /\ UNCHANGED <<consent, hands>>

\* send signs the seal and prints it before it gives it to the nodes, if it is
\* not told not to (Clients).
SendCommand(k) == SignSeal(k)

\* A command is given.
FileStep ==
    \E k \in Privatekeys :
        \/ \E sender \in Senders :
             \/ \E given \in {NoSeal, seal}, type \in WithItems, item \in Items :
                  CreateOperation(given, type, sender, item, k)
             \/ KeyUpdater(sender, k)
             \/ CurrencyRegister(sender, k)
             \/ CurrencyPolicyUpdater(sender, k)
        \/ SignFact(k) \/ SignSeal(k) \/ SendCommand(k)

\* The file is put away and another taken.
LeaveFile ==
    /\ seal' \in {NoSeal} \cup Imported
    /\ consent' = SignedIn(seal')
    /\ hands' = {}
    /\ commands' = 0

FileNext == FileStep \/ LeaveFile

FileSpec == FileInit /\ [][FileNext]_file

-----------------------------------------------------------------------------
\* Nobody's signature comes under a fact that he has not had signed: items
\* added to a co-signed operation cost it the others' signatures.
SignersAgreed ==
    \A i \in DOMAIN seal.ops : \A k \in seal.ops[i].signs : <<Fact(seal.ops[i]), k>> \in consent

\* Nobody's signature is lost on the way: the keys of an account that pass a
\* seal on with sign-fact and sign are all under its operations.
HandsAreKept ==
    \A i \in DOMAIN seal.ops : hands \subseteq seal.ops[i].signs
=============================================================================
