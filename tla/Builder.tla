------------------------------ MODULE Builder -------------------------------
(***************************************************************************)
(* Building an operation with the help of the digest API                   *)
(* (digest/builder.go, handler_operation_build.go): a client gets the      *)
(* template of a fact, replaces its defaults, posts it, signs the          *)
(* signature base of the answer, puts signer and signature in place of the *)
(* defaults and posts the operation.  The server keeps nothing between the *)
(* requests, so the client may change anything at any time.                *)
(*                                                                         *)
(* A field is its "template" default or a value of the client's: "own",    *)
(* and "other" for a change of mind after BuildFact.  A fact's hash is the *)
(* fields it is made of, and all that a signature is checked against; who  *)
(* signs has the whole fact before him, which the sign here remembers.     *)
(* External: keys, signatures, mitum's IsValidOperation.                   *)
(***************************************************************************)
EXTENDS FiniteSets, Naturals

CONSTANTS
    Signers,  \* clients' keys
    MaxSigns  \* bound: the fact signs of an operation

\* What stands for the template's key, and for no signature, is no client's.
ASSUME SignersAssumption == {"template", "none"} \cap Signers = {}

\* The fields with a default; "more" are the amounts of an item behind its
\* first, "receiver" is also a genesis account, "sender" a target.
FieldsOf == [
    create_accounts         |-> {"token", "sender", "keys", "amount", "more", "currency"},
    key_updater             |-> {"token", "sender", "keys", "currency"},
    transfers               |-> {"token", "sender", "receiver", "amount", "more", "currency"},
    currency_register       |-> {"token", "receiver", "amount", "currency", "minBalance"},
    currency_policy_updater |-> {"token", "currency", "minBalance"}]

FactTypes == DOMAIN FieldsOf

\* Mutant: a transfer's hash is made without its items.
HashedButItems(t) ==
    CASE t = "currency_register" -> {"token", "amount", "currency"}
      [] t = "transfers" -> {"token", "sender"}
      [] OTHER -> FieldsOf[t]

\* The fields in a fact's Bytes.  A currency registration takes those of its
\* design, which has none of its own: they are its Amount's, without the
\* genesis account and the policy.
HashedFields(t) ==
    IF t = "currency_register" THEN {"token", "amount", "currency"} ELSE FieldsOf[t]

\* GenerateHash
Hash(t, v) == [f \in HashedFields(t) |-> v[f]]

Posted(field) ==
    CASE field = "token" -> {"empty", "template", "own"}
      [] field = "amount" -> {"none", "template", "own"}
      [] field = "more" -> {"none", "own"}
      [] OTHER -> {"template", "own"}

\* The values a client may post for a fact of type t.
Filled(t) ==
    {v \in [FieldsOf[t] -> {"none", "empty", "template", "own"}] :
        \A f \in FieldsOf[t] : v[f] \in Posted(f)}

\* FactTemplate
TemplateValue(t) == [f \in FieldsOf[t] |-> IF f = "more" THEN "none" ELSE "template"]

NoValue == [none |-> "none"]

\* templatePublickey, templateSignature, templateSignedAt; the last is not
\* signed.
TemplateSign == [signer |-> "template", by |-> "none", of |-> NoValue, at |-> "template"]

\* factTypesByHint, which lacks the currency policy update.
TemplatesServed == {"create_accounts", "key_updater", "transfers", "currency_register"}

Nothing == [kind |-> "none", type |-> "transfers", value |-> NoValue, hash |-> NoValue, signs |-> {}]

VARIABLES
    doc,   \* the client's document: nothing, a fact or an operation
    base,  \* the fact whose signature base the last BuildFact answered
    built  \* the operation of the last BuildOperation

builder == <<doc, base, built>>

BuilderInit == doc = Nothing /\ base = NoValue /\ built = Nothing

-----------------------------------------------------------------------------
\* IsValid of a fact: its own hash and no value that is invalid, as the
\* defaults of amounts, currencies and balances are.
FactIsValid(d) ==
    /\ d.hash = Hash(d.type, d.value)
    /\ d.value.token # "empty"
    /\ \A f \in FieldsOf[d.type] \cap {"amount", "currency", "minBalance"} :
         d.value[f] \notin {"template", "none"}
    /\ "more" \in FieldsOf[d.type] => d.value.more # "template"

\* Mutant: receivers and genesis accounts are not looked at.
IsValidFactButReceivers(d) ==
    /\ FactIsValid(d)
    /\ \A f \in FieldsOf[d.type] \cap {"token", "sender", "keys"} : d.value[f] # "template"

\* isValidFactCreateAccounts and the others.
IsValidFact(d) ==
    /\ FactIsValid(d)
    /\ \A f \in FieldsOf[d.type] \cap {"token", "sender", "keys", "receiver"} :
         d.value[f] # "template"

\* checkToken, which refuses an empty token and sets the current time in the
\* place of the default (its comment: of an empty one); that is as good a
\* token as one's own.
CheckedToken(v) == IF v.token = "template" THEN [v EXCEPT !.token = "own"] ELSE v

\* Only create-accounts loses the amounts behind the first.
Kept(t, v) == IF t = "create_accounts" THEN [v EXCEPT !.more = "none"] ELSE v

\* Mutant: the hash is left as it was posted.
RebuiltByToken(d) == [d EXCEPT !.value = Kept(d.type, CheckedToken(d.value))]

\* The new fact of buildFactCreateAccounts and the others.
Rebuilt(d) ==
    LET v == Kept(d.type, CheckedToken(d.value))
    IN  [d EXCEPT !.value = v, !.hash = Hash(d.type, v)]

BuildsFact(d) == d.value.token # "empty" /\ IsValidFact(Rebuilt(d))

\* Mutant: BuildOperation leaves the check of the operation out.
FactIsEnough(d) == FactIsValid(d)

\* IsValidOperation: a valid fact, and each signature one of its hash by
\* its signer, who signs once.
OperationIsValid(d) ==
    /\ FactIsValid(d)
    /\ d.signs # {}
    /\ \A s \in d.signs : s.by = s.signer /\ Hash(d.type, s.of) = d.hash
    /\ \A s, o \in d.signs : s.signer = o.signer => s = o

\* updateFactSigns
Updated(d) ==
    [d EXCEPT !.signs = {IF s.at = "template" THEN [s EXCEPT !.at = "now"] ELSE s : s \in @}]

BuildsOperation(d) ==
    /\ OperationIsValid(Updated(d))
    /\ IsValidFact(d)
    /\ \A s \in d.signs : s.signer # "template" /\ s.by # "none"

-----------------------------------------------------------------------------
NewFact(t, v, h) == [kind |-> "fact", type |-> t, value |-> v, hash |-> h, signs |-> {}]

\* handleOperationBuildFactTemplate; a request that is refused, here as
\* below, changes nothing.
FactTemplate(t) ==
    /\ doc = Nothing
    /\ t \in TemplatesServed
    /\ doc' = NewFact(t, TemplateValue(t), Hash(t, TemplateValue(t)))
    /\ UNCHANGED <<base, built>>

\* A fact written by hand.
Write(t) ==
    /\ doc = Nothing
    /\ \E v \in Filled(t) : \E w \in {v, TemplateValue(t)} : doc' = NewFact(t, v, Hash(t, w))
    /\ UNCHANGED <<base, built>>

\* The defaults are replaced, all or not.
Fill ==
    /\ doc.kind = "fact"
    /\ doc.value = TemplateValue(doc.type)
    /\ \E v \in Filled(doc.type) : doc' = [doc EXCEPT !.value = v]
    /\ UNCHANGED <<base, built>>

\* handleOperationBuildFact
BuildFact ==
    /\ doc.kind = "fact"
    /\ BuildsFact(doc)
    /\ doc' = [Rebuilt(doc) EXCEPT !.kind = "operation", !.signs = {TemplateSign}]
    /\ base' = Rebuilt(doc).value
    /\ UNCHANGED built

\* One change of the fact after BuildFact, with or without its hash.
Alter ==
    /\ doc.kind = "operation"
    /\ doc.value = base
    /\ \E f \in FieldsOf[doc.type], x \in {"template", "other"}, again \in BOOLEAN :
         LET v == [doc.value EXCEPT ![f] = x]
         IN  doc' = [doc EXCEPT !.value = v, !.hash = IF again THEN Hash(doc.type, v) ELSE @]
    /\ UNCHANGED <<base, built>>

\* Signer and signature are put in the place of the defaults, both or not;
\* the template's private key is known to all.
ReplaceSign ==
    /\ doc.kind = "operation"
    /\ TemplateSign \in doc.signs
    /\ \E signer \in Signers \cup {"template"}, by \in Signers \cup {"template", "none"}, v \in {base, doc.value} :
         doc' = [doc EXCEPT !.signs = (@ \ {TemplateSign}) \cup
                   {[signer |-> signer, by |-> by, of |-> v, at |-> "template"]}]
    /\ UNCHANGED <<base, built>>

\* Another sign, of the signature base or of what the document says now.
AddSign(k) ==
    /\ doc.kind = "operation"
    /\ Cardinality(doc.signs) < MaxSigns
    /\ \E v \in {base, doc.value} :
         doc' = [doc EXCEPT !.signs = @ \cup {[signer |-> k, by |-> k, of |-> v, at |-> "own"]}]
    /\ UNCHANGED <<base, built>>

\* handleOperationBuildSign
BuildOperation ==
    /\ doc.kind = "operation"
    /\ BuildsOperation(doc)
    /\ built' = Updated(doc)
    /\ UNCHANGED <<doc, base>>

\* A step with a document.
BuilderStep ==
    \/ \E t \in FactTypes : FactTemplate(t) \/ Write(t)
    \/ Fill \/ BuildFact
    \/ Alter \/ ReplaceSign \/ BuildOperation
    \/ \E k \in Signers : AddSign(k)

\* The client is done with the document, and may begin another.
LeaveBuilder == doc' = Nothing /\ base' = NoValue /\ built' = Nothing

BuilderNext == BuilderStep \/ LeaveBuilder

BuilderSpec == BuilderInit /\ [][BuilderNext]_builder

-----------------------------------------------------------------------------
\* No operation that the builder lets out, and may send at once, has a
\* default in it, whatever the client forgot or put back after signing, and
\* though the template's private key can be signed with.
NoTemplateLeft ==
    built # Nothing =>
        /\ \A f \in FieldsOf[built.type] : built.value[f] # "template"
        /\ \A s \in built.signs : {s.signer, s.by, s.at} \cap {"template", "none"} = {}

\* What nobody signs: the genesis account and the policy of a currency
\* registration.
Unsigned(t) == IF t = "currency_register" THEN {"receiver", "minBalance"} ELSE {}

\* Each signature under document d is the signer's own, of a fact that says
\* the same but for what nobody signs: of all types but the currency
\* registration, of this very fact.
DocIsAgreed(d) ==
    /\ d.signs # {}
    /\ \A s \in d.signs :
         /\ s.by = s.signer
         /\ \A f \in FieldsOf[d.type] \ Unsigned(d.type) : s.of[f] = d.value[f]

\* So it is of an operation that the builder lets out, though the fact was
\* posted twice and could change in between.
SignedIsBuilt == built # Nothing => DocIsAgreed(built)

\* Whoever has signed an operation that the builder lets out has signed this
\* very fact.  "FactSign represents the signer signs the operation with valid
\* hash of operation" (openapi.yml), and an altered fact has a "wrong Fact
\* hash" (currency_register.go, handler_operation_build_test.go).
SignedAsBuilt == built # Nothing => \A s \in built.signs : s.of = built.value

Honest(s) == s.signer \in Signers /\ s.by = s.signer /\ s.of = base

\* Who does as the templates say is not refused: who replaces all defaults,
\* the token or not, gets an operation to sign; who signs its base, alone
\* or with others, and changes nothing else gets the operation.
GuidedIsBuilt ==
    /\ doc.kind = "fact" /\ (\A f \in FieldsOf[doc.type] \ {"token", "more"} : doc.value[f] = "own")
         /\ doc.value.token # "empty"
       => BuildsFact(doc)
    /\ doc.kind = "operation" /\ doc.value = base /\ doc.hash = Hash(doc.type, base)
         /\ doc.signs # {} /\ (\A s \in doc.signs : Honest(s))
         /\ (\A s, o \in doc.signs : s.signer = o.signer => s = o)
       => BuildsOperation(doc)
=============================================================================
