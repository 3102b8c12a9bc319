--------------------------- MODULE Clients_proofs ---------------------------
(***************************************************************************)
(* Theorems on the way from a client's document to the nodes, for any      *)
(* clients, keys, items, imported seals and nodes, any number of commands  *)
(* and every order of the nodes' answers: on the seal commands, on         *)
(* sending, on the operation builder and on the whole.  Every step of the  *)
(* whole is a step of the seal commands or leaves their file alone, and    *)
(* likewise of sending and of the builder; so their own theorems hold of   *)
(* the whole, and their invariants help to prove the one that needs all.   *)
(***************************************************************************)
EXTENDS Clients, TLAPS

(***************************************************************************)
(* The seal commands.  Both invariants go along one induction: they say    *)
(* nothing of the records' fields unless the file holds a seal of          *)
(* operations, which IsSeal states.  (It says less than a type: what       *)
(* SelectSeq picks is beyond the provers.)                                 *)
(***************************************************************************)
IsSeal(s) ==
    /\ s = [signer |-> s.signer, ops |-> s.ops]
    /\ \A i \in DOMAIN s.ops :
         s.ops[i] = [type |-> s.ops[i].type, sender |-> s.ops[i].sender, items |-> s.ops[i].items,
                     signs |-> s.ops[i].signs, memo |-> s.ops[i].memo]

\* The inductive invariant.
FileInv == IsSeal(seal) /\ SignersAgreed /\ HandsAreKept

-----------------------------------------------------------------------------
\* A file that is taken, at the start or later: what is signed in it is all
\* that anybody is known to have agreed to.
LEMMA Taken ==
    ASSUME NEW s \in {NoSeal} \cup Imported
    PROVE  /\ IsSeal(s)
           /\ \A i \in DOMAIN s.ops : \A k \in s.ops[i].signs : <<Fact(s.ops[i]), k>> \in SignedIn(s)
<1>1. IsSeal(s)
  <2>1. CASE s = NoSeal
      BY <2>1 DEF NoSeal, IsSeal
  <2>2. CASE s \in Imported
    <3>1. s \in [signer : Privatekeys, ops : Seq(Operations)]
        BY <2>2, ImportedAssumption
    <3>2. s = [signer |-> s.signer, ops |-> s.ops] /\ s.ops \in Seq(Operations)
        BY <3>1
    <3>3. \A i \in DOMAIN s.ops : s.ops[i] \in Operations
        BY <3>2
    <3> QED
        BY <3>2, <3>3 DEF IsSeal, Operations
  <2> QED
      BY <2>1, <2>2
<1>2. \A i \in DOMAIN s.ops : \A k \in s.ops[i].signs : <<Fact(s.ops[i]), k>> \in SignedIn(s)
    BY DEF SignedIn
<1> QED
    BY <1>1, <1>2

LEMMA FileInitInv == FileInit => FileInv
    BY Taken DEF FileInit, FileInv, SignersAgreed, HandsAreKept

LEMMA LeaveFileInv == LeaveFile => FileInv'
<1> SUFFICES ASSUME LeaveFile PROVE FileInv'
    OBVIOUS
<1>1. PICK s \in {NoSeal} \cup Imported : seal' = s /\ consent' = SignedIn(s) /\ hands' = {}
    BY DEF LeaveFile
<1> QED
    BY <1>1, Taken DEF FileInv, SignersAgreed, HandsAreKept

\* A new operation alone in a seal: whoever signed it did so just now.
LEMMA MakeInv ==
    ASSUME NEW type, NEW sender, NEW items, NEW k, Make(NewOperation(type, sender, items, k), k)
    PROVE  FileInv'
<1> DEFINE op == NewOperation(type, sender, items, k)
<1>1. /\ seal' = [signer |-> k, ops |-> <<op>>]
      /\ consent' = consent \cup {<<Fact(op), k>>}
      /\ hands' = {k}
    BY DEF Make, Command
<1>2. /\ op = [type |-> op.type, sender |-> op.sender, items |-> op.items,
                 signs |-> op.signs, memo |-> op.memo]
      /\ op.signs = {k}
    BY DEF NewOperation
<1> HIDE DEF op
<1>3. /\ seal' = [signer |-> seal'.signer, ops |-> seal'.ops]
      /\ seal'.ops = <<op>> /\ DOMAIN seal'.ops = {1} /\ seal'.ops[1] = op
    BY <1>1
<1>4. IsSeal(seal')
    BY <1>2, <1>3 DEF IsSeal
<1>5. SignersAgreed'
    BY <1>1, <1>2, <1>3 DEF SignersAgreed
<1>6. HandsAreKept'
    BY <1>1, <1>2, <1>3 DEF HandsAreKept
<1> QED
    BY <1>4, <1>5, <1>6 DEF FileInv

\* A signature is added, and nothing that the fact is made of is touched.
LEMMA Resigned ==
    ASSUME NEW op, NEW k,
           op = [type |-> op.type, sender |-> op.sender, items |-> op.items,
                 signs |-> op.signs, memo |-> op.memo]
    PROVE  LET new == AddFactSigns(op, k)
           IN  /\ new = [type |-> new.type, sender |-> new.sender, items |-> new.items,
                         signs |-> new.signs, memo |-> new.memo]
               /\ Fact(new) = Fact(op)
               /\ new.signs = op.signs \cup {k}
<1> DEFINE signs == op.signs \cup {k}
           memo == op.memo /\ op.type \notin SuffrageTypes
           one == [op EXCEPT !.signs = signs]
           new == [one EXCEPT !.memo = memo]
<1>1. AddFactSigns(op, k) = new
    BY DEF AddFactSigns
<1> HIDE DEF signs, memo
<1>2. one = [type |-> op.type, sender |-> op.sender, items |-> op.items, signs |-> signs, memo |-> op.memo]
    BY SMT
<1> HIDE DEF one
<1>3. new = [type |-> op.type, sender |-> op.sender, items |-> op.items, signs |-> signs, memo |-> memo]
    BY <1>2, SMT
<1> HIDE DEF new
<1>4. /\ new.type = op.type /\ new.sender = op.sender /\ new.items = op.items
      /\ new.signs = signs /\ new.memo = memo
    BY <1>3
<1> QED
    BY <1>1, <1>3, <1>4 DEF Fact, signs

\* One more signature under every operation: the facts stay, so what the
\* others agreed to stays.
LEMMA SignFactInv ==
    ASSUME NEW k, FileInv, SignFact(k)
    PROVE  FileInv'
<1> DEFINE Signed(i) == AddFactSigns(seal.ops[i], k)
<1>1. /\ seal' = [signer |-> k, ops |-> [i \in DOMAIN seal.ops |-> Signed(i)]]
      /\ consent' = consent \cup {<<Fact(seal.ops[i]), k>> : i \in DOMAIN seal.ops}
      /\ hands' = hands \cup {k}
    BY DEF SignFact, Command
<1>2. ASSUME NEW i \in DOMAIN seal.ops
      PROVE  /\ Signed(i) = [type |-> Signed(i).type, sender |-> Signed(i).sender,
                             items |-> Signed(i).items, signs |-> Signed(i).signs,
                             memo |-> Signed(i).memo]
             /\ Fact(Signed(i)) = Fact(seal.ops[i])
             /\ Signed(i).signs = seal.ops[i].signs \cup {k}
    BY <1>2, Resigned DEF FileInv, IsSeal
<1> HIDE DEF Signed
<1>3. seal'.ops = [i \in DOMAIN seal.ops |-> Signed(i)] /\ DOMAIN seal'.ops = DOMAIN seal.ops
    BY <1>1
<1>4. IsSeal(seal')
    BY <1>1, <1>2, <1>3 DEF IsSeal
<1>5. SignersAgreed'
  <2> SUFFICES ASSUME NEW i \in DOMAIN seal.ops, NEW s \in seal.ops[i].signs \cup {k}
               PROVE  <<Fact(seal.ops[i]), s>> \in consent'
      BY <1>2, <1>3 DEF SignersAgreed
  <2>1. CASE s = k
      BY <1>1, <2>1
  <2>2. CASE s \in seal.ops[i].signs
      BY <1>1, <2>2 DEF FileInv, SignersAgreed
  <2> QED
      BY <2>1, <2>2
<1>6. HandsAreKept'
    BY <1>1, <1>2, <1>3 DEF FileInv, HandsAreKept
<1> QED
    BY <1>4, <1>5, <1>6 DEF FileInv

LEMMA SignSealInv ==
    ASSUME NEW k, FileInv, SignSeal(k)
    PROVE  FileInv'
<1>1. seal' = [signer |-> k, ops |-> seal.ops]
    BY DEF FileInv, IsSeal, SignSeal, Command
<1>2. UNCHANGED <<consent, hands>>
    BY DEF SignSeal
<1> QED
    BY <1>1, <1>2 DEF FileInv, IsSeal, SignersAgreed, HandsAreKept

LEMMA FileNextInv == FileInv /\ [FileNext]_file => FileInv'
<1> SUFFICES ASSUME FileInv, [FileNext]_file PROVE FileInv'
    OBVIOUS
<1>1. ASSUME NEW k \in Privatekeys, NEW given, NEW type, NEW sender, NEW item,
             CreateOperation(given, type, sender, item, k)
      PROVE  FileInv'
    BY <1>1, MakeInv DEF CreateOperation, Extended
<1>2. ASSUME NEW k \in Privatekeys, NEW type, NEW sender, CreateAlone(type, sender, k)
      PROVE  FileInv'
    BY <1>2, MakeInv DEF CreateAlone
<1>3. ASSUME NEW k \in Privatekeys, SignFact(k) PROVE FileInv'
    BY <1>3, SignFactInv
<1>4. ASSUME NEW k \in Privatekeys, SignSeal(k) PROVE FileInv'
    BY <1>4, SignSealInv
<1>5. ASSUME NEW k \in Privatekeys, SendCommand(k) PROVE FileInv'
    BY <1>5, SignSealInv DEF SendCommand
<1>6. CASE UNCHANGED file
    BY <1>6 DEF file, FileInv, SignersAgreed, HandsAreKept
<1> QED
    BY <1>1, <1>2, <1>3, <1>4, <1>5, <1>6, LeaveFileInv
       DEF FileNext, FileStep, KeyUpdater, CurrencyRegister, CurrencyPolicyUpdater

-----------------------------------------------------------------------------
\* However seals are passed on, extended and signed, no command puts a key's
\* signature under a fact that its holder has not had signed.
THEOREM SignersHaveAgreed == FileSpec => []SignersAgreed
<1>1. FileInv => SignersAgreed
    BY DEF FileInv
<1> QED
    BY FileInitInv, FileNextInv, <1>1, PTL DEF FileSpec

\* The keys that sign-fact was called with since the operations were made
\* are all under each of them, whatever was signed in between.
THEOREM NoHandIsLost == FileSpec => []HandsAreKept
<1>1. FileInv => HandsAreKept
    BY DEF FileInv
<1> QED
    BY FileInitInv, FileNextInv, <1>1, PTL DEF FileSpec

(***************************************************************************)
(* Sending: what an ok is worth, and what reaches the other nodes          *)
(***************************************************************************)
SendTypeInv ==
    /\ body \in Bodies
    /\ pc \in {"idle", "received", "sending", "answered"}
    /\ call \in [Remotes -> {"none", "calling", "returned", "done"}]
    /\ err \in [Remotes -> BOOLEAN]
    /\ errchan \in Seq(BOOLEAN)
    /\ inbox \subseteq Remotes
    /\ transit \subseteq Remotes
    /\ answer \in {"none", "ok", "error"}

\* Nothing is called, delivered or on its way before the check.
CheckedFirst ==
    /\ pc = "idle" => (\A n \in Remotes : call[n] = "none") /\ inbox \cup transit = {} /\ answer = "none"
    /\ \A n \in Remotes : call[n] # "none" => Sendable(body)
    /\ inbox \cup transit # {} => Sendable(body)

\* A node without an error has the seal, and its error is in the channel
\* when its goroutine is done.
Got(n) ==
    /\ call[n] \in {"returned", "done"} /\ err[n] = FALSE => n \in inbox
    /\ call[n] = "done" => \E i \in DOMAIN errchan : errchan[i] = err[n]

SendInv ==
    /\ SendTypeInv
    /\ CheckedFirst
    /\ \A n \in Remotes : Got(n)
    /\ OKIsEverywhere

LEMMA SendInitial == SendInit => SendInv
  BY DEF SendInit, NoBody, Bodies, Kinds, SealStates, SendInv, SendTypeInv, CheckedFirst, Got, OKIsEverywhere

LEMMA PostStep == ASSUME SendInv, NEW b \in Bodies, Post(b) PROVE SendInv'
  BY DEF Post, SendInv, SendTypeInv, CheckedFirst, Got, OKIsEverywhere

LEMMA GiveStep == ASSUME SendInv, NEW b \in Bodies, Sendable(b), Give(b) PROVE SendInv'
<1>1. CASE Call
  BY <1>1 DEF Give, Call, SendInv, SendTypeInv, CheckedFirst, Got, OKIsEverywhere, Sendable
<1>2. CASE Refuse
  BY <1>2 DEF Give, Refuse, SendInv, SendTypeInv, CheckedFirst, Got, OKIsEverywhere, Sendable
<1> QED  BY <1>1, <1>2 DEF Give

LEMMA HandleSendStep == SendInv /\ HandleSend => SendInv'
<1> SUFFICES ASSUME SendInv, HandleSend PROVE SendInv'
  OBVIOUS
<1>1. CASE Sendable(body)
  BY <1>1 DEF HandleSend, Call, SendInv, SendTypeInv, CheckedFirst, Got, OKIsEverywhere, Sendable
<1>2. CASE ~Sendable(body)
  BY <1>2 DEF HandleSend, Refuse, SendInv, SendTypeInv, CheckedFirst, Got, OKIsEverywhere, Sendable
<1> QED  BY <1>1, <1>2

LEMMA SendSealStep == ASSUME SendInv, NEW n \in Remotes, SendSeal(n) PROVE SendInv'
<1>1. /\ call[n] = "calling" /\ call' = [call EXCEPT ![n] = "returned"]
      /\ UNCHANGED <<body, pc, errchan, answer>>
      /\ inbox \subseteq inbox' /\ inbox' \subseteq inbox \cup {n}
      /\ transit' \subseteq transit \cup {n}
  BY DEF SendSeal
<1>2. \/ n \in inbox' /\ err' = err
      \/ err' = [err EXCEPT ![n] = TRUE]
  BY DEF SendSeal
<1>3. SendTypeInv'
  BY <1>1, <1>2 DEF SendInv, SendTypeInv
<1>4. CheckedFirst'
  BY <1>1 DEF SendInv, SendTypeInv, CheckedFirst, Sendable
<1>5. ASSUME NEW m \in Remotes PROVE Got(m)'
  BY <1>1, <1>2 DEF SendInv, SendTypeInv, Got
<1>6. OKIsEverywhere'
  BY <1>1, <1>3 DEF SendInv, SendTypeInv, OKIsEverywhere
<1> QED  BY <1>3, <1>4, <1>5, <1>6 DEF SendInv

LEMMA ArriveStep == ASSUME SendInv, NEW n \in Remotes, Arrive(n) PROVE SendInv'
  BY DEF Arrive, SendInv, SendTypeInv, CheckedFirst, Got, OKIsEverywhere, Sendable

LEMMA PutStep == ASSUME SendInv, NEW n \in Remotes, Put(n) PROVE SendInv'
<1>1. /\ call[n] = "returned" /\ call' = [call EXCEPT ![n] = "done"]
      /\ errchan' = Append(errchan, err[n])
      /\ UNCHANGED <<body, pc, err, transit, inbox, answer>>
  BY DEF Put
<1>2. errchan' \in Seq(BOOLEAN) /\ Len(errchan') = Len(errchan) + 1
      /\ errchan'[Len(errchan')] = err[n]
      /\ \A i \in DOMAIN errchan : i \in DOMAIN errchan' /\ errchan'[i] = errchan[i]
  BY <1>1 DEF SendInv, SendTypeInv
<1>3. SendTypeInv' /\ CheckedFirst' /\ OKIsEverywhere'
  BY <1>1, <1>2 DEF SendInv, SendTypeInv, CheckedFirst, OKIsEverywhere, Sendable
<1>4. ASSUME NEW m \in Remotes PROVE Got(m)'
  <2>1. Got(m)
    BY DEF SendInv
  <2>2. CASE m = n
    <3>1. Len(errchan') \in DOMAIN errchan'
      BY <1>2 DEF SendInv, SendTypeInv
    <3> QED  BY <1>1, <1>2, <2>1, <2>2, <3>1 DEF SendInv, SendTypeInv, Got
  <2>3. CASE m # n
    BY <1>1, <1>2, <2>1, <2>3 DEF SendInv, SendTypeInv, Got
  <2> QED  BY <2>2, <2>3
<1> QED  BY <1>3, <1>4 DEF SendInv

LEMMA AnswerStep == SendInv /\ Answer => SendInv'
<1> SUFFICES ASSUME SendInv, Answer PROVE SendInv'
  OBVIOUS
<1>1. SendTypeInv' /\ CheckedFirst' /\ \A n \in Remotes : Got(n)'
  BY DEF Answer, SendInv, SendTypeInv, CheckedFirst, Got, Sendable
<1>2. ASSUME answer' = "ok" PROVE inbox' = Remotes
  <2>1. ~AnyFailed
    BY <1>2 DEF Answer
  <2>2. ASSUME NEW n \in Remotes PROVE n \in inbox
    <3>1. Got(n) /\ call[n] = "done" /\ err[n] \in BOOLEAN
      BY DEF SendInv, SendTypeInv, Answer
    <3>2. PICK i \in DOMAIN errchan : errchan[i] = err[n]
      BY <3>1 DEF Got
    <3>3. err[n] = FALSE
      BY <2>1, <3>1, <3>2 DEF AnyFailed
    <3> QED  BY <3>1, <3>3 DEF Got
  <2> QED  BY <2>2 DEF Answer, SendInv, SendTypeInv
<1> QED  BY <1>1, <1>2 DEF SendInv, OKIsEverywhere

LEMMA SendInductive == SendInv /\ [SendNext]_sending => SendInv'
<1> SUFFICES ASSUME SendInv, [SendNext]_sending PROVE SendInv'
  OBVIOUS
<1>1. CASE UNCHANGED sending
  BY <1>1 DEF sending, SendInv, SendTypeInv, CheckedFirst, Got, OKIsEverywhere, Sendable
<1> QED  BY <1>1, HandleSendStep, AnswerStep, SendSealStep, PutStep, ArriveStep,
     PostStep, GiveStep DEF SendNext, SendStep

\* Sending, answered ok: every suffrage node has the seal, whatever the
\* network does with the others' answers.
THEOREM OKMeansSent == SendSpec => []OKIsEverywhere
<1>1. SendInv => OKIsEverywhere
  BY DEF SendInv
<1> QED  BY SendInitial, SendInductive, <1>1, PTL DEF SendSpec

\* Sending, the check of what was posted: no node ever gets an operation
\* that the handler has not found valid.
THEOREM SentIsValid == SendSpec => []OnlyValidIsSent
<1>1. SendInv => OnlyValidIsSent
  BY DEF SendInv, CheckedFirst, OnlyValidIsSent, Sendable
<1> QED  BY SendInitial, SendInductive, <1>1, PTL DEF SendSpec

(***************************************************************************)
(* The operation builder.  A client may change a document at any time, so  *)
(* its invariant says little of the document: how its parts are written,   *)
(* and that the fact BuildFact has answered is valid.  Only what           *)
(* BuildOperation has let out is without defaults.                         *)
(***************************************************************************)
\* A sign under a document, as the template or a client has written it.
IsSign(s) ==
    /\ s = [signer |-> s.signer, by |-> s.by, of |-> s.of, at |-> s.at]
    /\ s.at \in {"template", "own"}

\* The document at each moment; the fact that BuildFact has signed is valid,
\* whatever the client has made of the document since.
BuilderInv ==
    /\ doc = [kind |-> doc.kind, type |-> doc.type, value |-> doc.value,
              hash |-> doc.hash, signs |-> doc.signs]
    /\ doc.type \in FactTypes
    /\ \A s \in doc.signs : IsSign(s)
    /\ doc # Nothing => doc.value = [f \in FieldsOf[doc.type] |-> doc.value[f]]
    /\ doc.kind = "fact" /\ "more" \in FieldsOf[doc.type] => doc.value.more # "template"
    /\ doc.kind = "operation" =>
         IsValidFact([type |-> doc.type, value |-> base, hash |-> Hash(doc.type, base)])
    /\ NoTemplateLeft

\* Every field is looked at by one of the two checks of a fact.
LEMMA Fields ==
    /\ DOMAIN FieldsOf = FactTypes
    /\ "transfers" \in FactTypes
    /\ \A t \in FactTypes :
         /\ "token" \in FieldsOf[t]
         /\ FieldsOf[t] \subseteq {"token", "sender", "keys", "receiver", "amount", "more",
                                   "currency", "minBalance"}
         /\ t = "create_accounts" => "more" \in FieldsOf[t]
BY DEF FactTypes, FieldsOf

LEMMA ValidHasNoTemplate ==
    ASSUME NEW d, d.type \in FactTypes, IsValidFact(d), NEW f \in FieldsOf[d.type]
    PROVE  d.value[f] # "template"
BY Fields DEF IsValidFact, FactIsValid

LEMMA RebuiltDocument ==
    ASSUME NEW d, NEW k, NEW t, NEW w, NEW h, NEW s,
           d = [kind |-> k, type |-> t, value |-> w, hash |-> h, signs |-> s]
    PROVE  LET v == Kept(t, CheckedToken(w))
           IN  Rebuilt(d) = [kind |-> k, type |-> t, value |-> v, hash |-> Hash(t, v), signs |-> s]
<1> DEFINE v == Kept(t, CheckedToken(w))
           g == Hash(t, v)
<1>1. Rebuilt(d) = [d EXCEPT !.value = v, !.hash = g]
  BY DEF Rebuilt
<1> HIDE DEF v, g
<1>2. Rebuilt(d) = [kind |-> k, type |-> t, value |-> v, hash |-> g, signs |-> s]
  BY <1>1
<1> QED  BY <1>2 DEF v, g

\* A fact without a default but the token's is one that BuildFact can build.
LEMMA RebuiltIsValid ==
    ASSUME doc.type \in FactTypes,
           doc = [kind |-> doc.kind, type |-> doc.type, value |-> doc.value,
                  hash |-> doc.hash, signs |-> doc.signs],
           doc.value = [f \in FieldsOf[doc.type] |-> doc.value[f]],
           "more" \in FieldsOf[doc.type] => doc.value.more # "template",
           \A f \in FieldsOf[doc.type] \ {"token", "more"} : doc.value[f] = "own",
           doc.value.token # "empty"
    PROVE  IsValidFact(Rebuilt(doc))
<1> DEFINE t == doc.type
           c == CheckedToken(doc.value)
           v == Kept(t, c)
<1>1. /\ c = [f \in FieldsOf[t] |-> c[f]]
      /\ c.token # "empty" /\ c.token # "template"
      /\ \A f \in FieldsOf[t] \ {"token"} : c[f] = doc.value[f]
  BY Fields DEF CheckedToken
<1> HIDE DEF c
<1>2. /\ \A f \in FieldsOf[t] \ {"more"} : v[f] = c[f]
      /\ "more" \in FieldsOf[t] => v["more"] \in {c["more"], "none"}
  BY <1>1, Fields DEF Kept
<1>3. Rebuilt(doc).type = t /\ Rebuilt(doc).value = v /\ Rebuilt(doc).hash = Hash(t, v)
  BY DEF Rebuilt, c
<1> HIDE DEF v
<1>4. "token" \in FieldsOf[t] /\ v["token"] # "empty" /\ v["token"] # "template"
  BY <1>1, <1>2, Fields
<1>5. \A f \in FieldsOf[t] \ {"token", "more"} : v[f] = "own"
  BY <1>1, <1>2
<1>6. "more" \in FieldsOf[t] => v["more"] # "template"
  BY <1>1, <1>2
<1> QED  BY <1>3, <1>4, <1>5, <1>6 DEF IsValidFact, FactIsValid

LEMMA SignsUpdated ==
    ASSUME NEW d, d = [kind |-> d.kind, type |-> d.type, value |-> d.value,
                       hash |-> d.hash, signs |-> d.signs],
           \A s \in d.signs : IsSign(s)
    PROVE  /\ Updated(d).kind = d.kind /\ Updated(d).type = d.type
           /\ Updated(d).value = d.value /\ Updated(d).hash = d.hash
           /\ \A u \in Updated(d).signs :
                /\ u.at \in {"now", "own"}
                /\ \E s \in d.signs : /\ <<u.signer, u.by, u.of>> = <<s.signer, s.by, s.of>>
                                      /\ u = IF s.at = "template" THEN [s EXCEPT !.at = "now"] ELSE s
           /\ d.signs # {} => Updated(d).signs # {}
<1> DEFINE now(s) == IF s.at = "template" THEN [s EXCEPT !.at = "now"] ELSE s
<1>1. /\ Updated(d).kind = d.kind /\ Updated(d).type = d.type
      /\ Updated(d).value = d.value /\ Updated(d).hash = d.hash
      /\ Updated(d).signs = {now(s) : s \in d.signs}
  BY DEF Updated
<1>2. \A s \in d.signs : /\ now(s).at \in {"now", "own"}
                         /\ <<now(s).signer, now(s).by, now(s).of>> = <<s.signer, s.by, s.of>>
  BY DEF IsSign
<1>3. ASSUME NEW u \in Updated(d).signs
      PROVE  /\ u.at \in {"now", "own"}
             /\ \E s \in d.signs : /\ <<u.signer, u.by, u.of>> = <<s.signer, s.by, s.of>>
                                   /\ u = IF s.at = "template" THEN [s EXCEPT !.at = "now"] ELSE s
  <2>1. PICK s \in d.signs : u = now(s)
    BY <1>1
  <2>2. u.at \in {"now", "own"} /\ <<u.signer, u.by, u.of>> = <<s.signer, s.by, s.of>>
    <3> HIDE DEF now
    <3> QED  BY <1>2, <2>1
  <2> QED  BY <2>1, <2>2
<1>4. d.signs # {} => Updated(d).signs # {}
  <2> HIDE DEF now
  <2> QED  BY <1>1
<1> QED  BY <1>1, <1>3, <1>4

\* BuildOperation lets out what its two checks and the look at the signs leave.
LEMMA BuildOperationInv ==
    ASSUME BuilderInv, BuildOperation
    PROVE  NoTemplateLeft'
<1>1. /\ built' = Updated(doc)
      /\ OperationIsValid(Updated(doc)) /\ IsValidFact(doc)
      /\ \A s \in doc.signs : s.signer # "template" /\ s.by # "none"
  BY DEF BuildOperation, BuildsOperation
<1>2. built'.type = doc.type /\ built'.value = doc.value /\ doc.type \in FactTypes
  BY <1>1, SignsUpdated DEF BuilderInv
<1>3. \A f \in FieldsOf[built'.type] : built'.value[f] # "template"
  BY <1>1, <1>2, ValidHasNoTemplate
<1>4. ASSUME NEW u \in built'.signs PROVE {u.signer, u.by, u.at} \cap {"template", "none"} = {}
  <2>1. u.at \in {"now", "own"}
    BY <1>1, <1>4, SignsUpdated DEF BuilderInv
  <2>2. PICK s \in doc.signs : <<u.signer, u.by, u.of>> = <<s.signer, s.by, s.of>>
    BY <1>1, <1>4, SignsUpdated DEF BuilderInv
  <2>3. u.signer # "template" /\ u.by # "none"
    BY <1>1, <2>2
  <2>4. u.by = u.signer
    BY <1>1, <1>4 DEF OperationIsValid
  <2> QED  BY <2>1, <2>3, <2>4
<1> QED  BY <1>3, <1>4 DEF NoTemplateLeft

LEMMA BuilderInvNext == BuilderInv /\ [BuilderNext]_builder => BuilderInv'
<1> SUFFICES ASSUME BuilderInv, [BuilderNext]_builder PROVE BuilderInv'
  OBVIOUS
<1>1. ASSUME NEW t \in FactTypes, FactTemplate(t) PROVE BuilderInv'
  BY <1>1 DEF FactTemplate, NewFact, TemplateValue, BuilderInv, NoTemplateLeft, Nothing
<1>2. ASSUME NEW t \in FactTypes, Write(t) PROVE BuilderInv'
  <2>1. PICK v \in Filled(t) :
          \E w \in {v, TemplateValue(t)} : doc' = NewFact(t, v, Hash(t, w))
    BY <1>2 DEF Write
  <2>2. v \in [FieldsOf[t] -> {"none", "empty", "template", "own"}]
        /\ ("more" \in FieldsOf[t] => v["more"] # "template")
    BY DEF Filled, Posted
  <2> QED  BY <1>2, <2>1, <2>2 DEF Write, NewFact, BuilderInv, NoTemplateLeft
<1>3. CASE Fill
  <2>1. PICK v \in Filled(doc.type) : doc' = [doc EXCEPT !.value = v]
    BY <1>3 DEF Fill
  <2>2. v \in [FieldsOf[doc.type] -> {"none", "empty", "template", "own"}]
        /\ ("more" \in FieldsOf[doc.type] => v["more"] # "template")
    BY DEF Filled, Posted
  <2> QED  BY <1>3, <2>1, <2>2 DEF Fill, BuilderInv, NoTemplateLeft
<1>4. CASE BuildFact
  <2> DEFINE v == Kept(doc.type, CheckedToken(doc.value))
  <2>1. /\ doc.kind = "fact" /\ IsValidFact(Rebuilt(doc))
        /\ doc' = [Rebuilt(doc) EXCEPT !.kind = "operation", !.signs = {TemplateSign}]
        /\ base' = Rebuilt(doc).value /\ built' = built
    BY <1>4 DEF BuildFact, BuildsFact
  <2>2. /\ doc = [kind |-> doc.kind, type |-> doc.type, value |-> doc.value,
                  hash |-> doc.hash, signs |-> doc.signs]
        /\ doc.type \in FactTypes /\ doc # Nothing
        /\ doc.value = [f \in FieldsOf[doc.type] |-> doc.value[f]]
    BY <2>1 DEF BuilderInv, Nothing
  <2>3. v = [f \in FieldsOf[doc.type] |-> v[f]]
    BY <2>2, Fields DEF Kept, CheckedToken
  <2> DEFINE h == Hash(doc.type, v)
  <2>4. Rebuilt(doc) = [kind |-> doc.kind, type |-> doc.type, value |-> v, hash |-> h, signs |-> doc.signs]
    BY <2>2, RebuiltDocument
  <2> HIDE DEF v, h
  <2>5. /\ doc' = [kind |-> "operation", type |-> doc.type, value |-> v, hash |-> h, signs |-> {TemplateSign}]
        /\ base' = v
    <3>1. Rebuilt(doc).value = v
      BY <2>4
    <3>2. DOMAIN Rebuilt(doc) = {"kind", "type", "value", "hash", "signs"}
      BY <2>4
    <3>3. doc' = [x \in {"kind", "type", "value", "hash", "signs"} |->
                    IF x = "signs" THEN {TemplateSign}
                    ELSE IF x = "kind" THEN "operation" ELSE Rebuilt(doc)[x]]
      BY <2>1, <3>2
    <3>4. Rebuilt(doc)["type"] = doc.type /\ Rebuilt(doc)["value"] = v /\ Rebuilt(doc)["hash"] = h
      BY <2>4
    <3> QED  BY <2>1, <3>1, <3>3, <3>4
  <2>6. IsValidFact([type |-> doc.type, value |-> v, hash |-> h])
    BY <2>1, <2>4 DEF IsValidFact, FactIsValid
  <2>7. IsSign(TemplateSign)
    BY DEF IsSign, TemplateSign
  <2>8. /\ doc'.kind = "operation" /\ doc'.type = doc.type /\ doc'.value = v /\ doc'.hash = h
        /\ doc'.signs = {TemplateSign}
    BY <2>5
  <2>9. NoTemplateLeft'
    BY <2>1 DEF BuilderInv, NoTemplateLeft
  <2> QED  BY <2>2, <2>3, <2>5, <2>6, <2>7, <2>8, <2>9 DEF BuilderInv, h
<1>5. CASE Alter
  <2>1. PICK f \in FieldsOf[doc.type], x \in {"template", "other"}, again \in BOOLEAN :
          LET v == [doc.value EXCEPT ![f] = x]
          IN  doc' = [doc EXCEPT !.value = v, !.hash = IF again THEN Hash(doc.type, v) ELSE @]
    BY <1>5 DEF Alter
  <2> DEFINE v == [doc.value EXCEPT ![f] = x]
  <2>2. /\ doc.kind = "operation" /\ base' = base /\ built' = built
        /\ doc'.kind = doc.kind /\ doc'.type = doc.type /\ doc'.value = v /\ doc'.signs = doc.signs
        /\ doc' = [kind |-> doc'.kind, type |-> doc'.type, value |-> doc'.value,
                   hash |-> doc'.hash, signs |-> doc'.signs]
    BY <1>5, <2>1 DEF Alter, BuilderInv
  <2>3. doc # Nothing
    BY <2>2 DEF Nothing
  <2>4. v = [g \in FieldsOf[doc.type] |-> v[g]]
    BY <2>3 DEF BuilderInv
  <2> HIDE DEF v
  <2> QED  BY <2>2, <2>4 DEF BuilderInv, NoTemplateLeft
<1>6. CASE ReplaceSign
  <2>1. PICK signer, by, v :
          doc' = [doc EXCEPT !.signs = (@ \ {TemplateSign}) \cup
                   {[signer |-> signer, by |-> by, of |-> v, at |-> "template"]}]
    BY <1>6 DEF ReplaceSign
  <2>2. IsSign([signer |-> signer, by |-> by, of |-> v, at |-> "template"])
    BY DEF IsSign
  <2>3. doc.kind = "operation" /\ base' = base /\ built' = built
    BY <1>6 DEF ReplaceSign
  <2> QED  BY <2>1, <2>2, <2>3 DEF BuilderInv, NoTemplateLeft, Nothing
<1>7. ASSUME NEW k \in Signers, AddSign(k) PROVE BuilderInv'
  <2>1. PICK v : doc' = [doc EXCEPT !.signs = @ \cup {[signer |-> k, by |-> k, of |-> v, at |-> "own"]}]
    BY <1>7 DEF AddSign
  <2>2. IsSign([signer |-> k, by |-> k, of |-> v, at |-> "own"])
    BY DEF IsSign
  <2>3. doc.kind = "operation" /\ base' = base /\ built' = built
    BY <1>7 DEF AddSign
  <2>4. \A s \in doc'.signs : IsSign(s)
    BY <2>1, <2>2 DEF BuilderInv
  <2>5. /\ doc'.kind = doc.kind /\ doc'.type = doc.type /\ doc'.value = doc.value
        /\ doc' = [kind |-> doc'.kind, type |-> doc'.type, value |-> doc'.value,
                   hash |-> doc'.hash, signs |-> doc'.signs]
    BY <2>1 DEF BuilderInv
  <2>6. doc # Nothing
    BY <2>3 DEF Nothing
  <2> QED  BY <2>3, <2>4, <2>5, <2>6 DEF BuilderInv, NoTemplateLeft
<1>8. CASE BuildOperation
  BY <1>8, BuildOperationInv DEF BuildOperation, BuilderInv
<1>9. CASE LeaveBuilder
  BY <1>9, Fields DEF LeaveBuilder, Nothing, BuilderInv, NoTemplateLeft
<1>10. CASE UNCHANGED builder
  BY <1>10 DEF builder, BuilderInv, NoTemplateLeft
<1> QED  BY <1>1, <1>2, <1>3, <1>4, <1>5, <1>6, <1>7, <1>8, <1>9, <1>10 DEF BuilderNext, BuilderStep

LEMMA BuilderInvInit == BuilderInit => BuilderInv
BY Fields DEF BuilderInit, Nothing, BuilderInv, NoTemplateLeft

\* Whatever a client leaves in or puts back, no default of the templates is in
\* an operation that the builder lets out, and nothing that the template's
\* key has signed.
THEOREM BuiltHasNoTemplate == BuilderSpec => []NoTemplateLeft
<1>1. BuilderInv => NoTemplateLeft
  BY DEF BuilderInv
<1> QED  BY <1>1, BuilderInvInit, BuilderInvNext, PTL DEF BuilderSpec

\* And who does as the templates say is not refused: every fact without a
\* default is built, and so is every operation of it that its signers signed.
THEOREM GuidedClientsBuild == BuilderSpec => []GuidedIsBuilt
<1>1. BuilderInv => GuidedIsBuilt
  <2> SUFFICES ASSUME BuilderInv PROVE GuidedIsBuilt
    OBVIOUS
  <2>1. ASSUME doc.kind = "fact", \A f \in FieldsOf[doc.type] \ {"token", "more"} : doc.value[f] = "own",
               doc.value.token # "empty"
        PROVE  BuildsFact(doc)
    <3>1. doc # Nothing
      BY <2>1 DEF Nothing
    <3> QED  BY <2>1, <3>1, RebuiltIsValid DEF BuilderInv, BuildsFact
  <2>2. ASSUME doc.kind = "operation", doc.value = base, doc.hash = Hash(doc.type, base), doc.signs # {},
               \A s \in doc.signs : Honest(s),
               \A s, o \in doc.signs : s.signer = o.signer => s = o
        PROVE  BuildsOperation(doc)
    <3> DEFINE u == Updated(doc)
    <3>1. IsValidFact([type |-> doc.type, value |-> base, hash |-> Hash(doc.type, base)])
      BY <2>2 DEF BuilderInv
    <3>2. IsValidFact(doc)
      BY <2>2, <3>1 DEF IsValidFact, FactIsValid
    <3>3. \A s \in doc.signs : s.signer # "template" /\ s.by # "none"
      BY <2>2, SignersAssumption DEF Honest
    <3>4. /\ u.type = doc.type /\ u.value = doc.value /\ u.hash = doc.hash /\ u.signs # {}
          /\ \A x \in u.signs : \E s \in doc.signs :
               /\ <<x.signer, x.by, x.of>> = <<s.signer, s.by, s.of>>
               /\ x = IF s.at = "template" THEN [s EXCEPT !.at = "now"] ELSE s
      BY <2>2, SignsUpdated DEF BuilderInv
    <3> HIDE DEF u
    <3>5. FactIsValid(u)
      BY <3>2, <3>4 DEF IsValidFact, FactIsValid
    <3>6. \A x \in u.signs : x.by = x.signer /\ Hash(u.type, x.of) = u.hash
      BY <2>2, <3>4 DEF Honest
    <3>7. ASSUME NEW x \in u.signs, NEW y \in u.signs, x.signer = y.signer PROVE x = y
      <4>1. PICK s \in doc.signs : /\ x.signer = s.signer
                                   /\ x = IF s.at = "template" THEN [s EXCEPT !.at = "now"] ELSE s
        BY <3>4
      <4>2. PICK o \in doc.signs : /\ y.signer = o.signer
                                   /\ y = IF o.at = "template" THEN [o EXCEPT !.at = "now"] ELSE o
        BY <3>4
      <4> QED  BY <2>2, <3>7, <4>1, <4>2
    <3>8. OperationIsValid(u)
      BY <3>4, <3>5, <3>6, <3>7 DEF OperationIsValid
    <3> QED  BY <3>2, <3>3, <3>8 DEF BuildsOperation, u
  <2> QED  BY <2>1, <2>2 DEF GuidedIsBuilt
<1> QED  BY <1>1, BuilderInvInit, BuilderInvNext, PTL DEF BuilderSpec

(***************************************************************************)
(* From a document to the nodes                                            *)
(***************************************************************************)
LEMMA BuilderSteps == [Next]_vars => [BuilderNext]_builder
  BY DEF vars, Next, Build, GiveCommand, PostOperation, SendBuilt, PostSeal, SendFile,
         PostOther, Proceed, Leave, BuilderNext

LEMMA FileSteps == [Next]_vars => [FileNext]_file
  BY DEF vars, Next, Build, GiveCommand, PostOperation, SendBuilt, PostSeal, SendFile,
         PostOther, Proceed, Leave, FileNext

\* What the clients post or give are bodies, and what they give is sendable.
LEMMA BodiesPosted ==
    /\ \A k \in Kinds, o \in BOOLEAN, s \in SealStates :
         [kind |-> k, ops |-> o, seal |-> s] \in Bodies
    /\ \A k \in {"operation", "operation seal"} :
         /\ [kind |-> k, ops |-> TRUE, seal |-> "valid"] \in Bodies
         /\ Sendable([kind |-> k, ops |-> TRUE, seal |-> "valid"])
  BY DEF Bodies, Kinds, SealStates, Sendable

LEMMA SendSteps == [Next]_vars => [SendNext]_sending
<1> SUFFICES ASSUME [Next]_vars PROVE [SendNext]_sending
  OBVIOUS
<1>1. CASE PostOperation
  <2>1. OperationIsValid(doc) \in BOOLEAN
    BY DEF OperationIsValid
  <2> QED  BY <1>1, <2>1, BodiesPosted DEF PostOperation, SendNext, Kinds, SealStates
<1>2. CASE SendBuilt
  BY <1>2, BodiesPosted DEF SendBuilt, SendNext
<1>3. CASE PostSeal
  <2>1. Readable(seal) \in BOOLEAN
    BY DEF Readable
  <2> QED  BY <1>3, <2>1, BodiesPosted DEF PostSeal, SendNext, Kinds, SealStates
<1>4. CASE SendFile
  BY <1>4, BodiesPosted DEF SendFile, SendNext
<1>5. CASE Build \/ GiveCommand \/ UNCHANGED vars
  BY <1>5 DEF Build, GiveCommand, vars
<1>6. CASE Proceed
  BY <1>6 DEF Proceed, SendNext
<1>7. CASE \E b \in Bodies : PostOther(b)
  BY <1>7 DEF PostOther, SendNext
<1> QED  BY <1>1, <1>2, <1>3, <1>4, <1>5, <1>6, <1>7 DEF Next

\* Clients, the builder and the commands before it, implement sending.
THEOREM ClientsSend == Spec => SendSpec
<1>1. Init => SendInit
  BY DEF Init
<1> QED  BY <1>1, SendSteps, PTL DEF Spec, SendSpec

\* Clients, in what they do with a document of the API, implement its builder.
THEOREM ClientsBuild == Spec => BuilderSpec
<1>1. Init => BuilderInit
  BY DEF Init
<1> QED  BY <1>1, BuilderSteps, PTL DEF Spec, BuilderSpec

\* So what they build is without defaults, and what they are told to do works.
COROLLARY ClientsBuildGuided == Spec => [](NoTemplateLeft /\ GuidedIsBuilt)
  BY ClientsBuild, BuiltHasNoTemplate, GuidedClientsBuild, PTL

\* Clients, in what they do with a file of the commands, implement those.
THEOREM ClientsKeepFiles == Spec => FileSpec
<1>1. Init => FileInit
  BY DEF Init
<1> QED  BY <1>1, FileSteps, PTL DEF Spec, FileSpec

\* So an ok still means that every node has what was sent, whoever sent it.
COROLLARY ClientsOKMeansSent == Spec => []OKIsEverywhere
  BY ClientsSend, OKMeansSent, PTL

\* And on the way to be sent nobody's signature is lost, or comes under a
\* fact he has not had signed.
COROLLARY ClientsSignersHaveAgreed == Spec => [](SignersAgreed /\ HandsAreKept)
  BY ClientsKeepFiles, SignersHaveAgreed, NoHandIsLost, PTL

-----------------------------------------------------------------------------
\* What the builder has let out is agreed, and so is whatever was posted and
\* the handler would send.
Agreements ==
    /\ SignedIsBuilt
    /\ pc # "idle" /\ Sendable(body) => agreed

ClientsInv == FileInv /\ BuilderInv /\ SendInv /\ Agreements

\* A signature that is valid is of all that the hash is made of.
LEMMA ValidIsAgreed ==
    ASSUME NEW d, d.type \in FactTypes, OperationIsValid(d)
    PROVE  DocIsAgreed(d)
<1>1. d.signs # {} /\ \A s \in d.signs : s.by = s.signer /\ Hash(d.type, s.of) = Hash(d.type, d.value)
  BY DEF OperationIsValid, FactIsValid
<1>2. FieldsOf[d.type] \ Unsigned(d.type) \subseteq HashedFields(d.type)
  BY DEF FactTypes, FieldsOf, Unsigned, HashedFields
<1>3. ASSUME NEW s \in d.signs, NEW f \in FieldsOf[d.type] \ Unsigned(d.type)
      PROVE  s.of[f] = d.value[f]
  <2> DEFINE F == HashedFields(d.type)
             v == s.of
             w == d.value
  <2>1. [g \in F |-> v[g]] = [g \in F |-> w[g]]
    BY <1>1 DEF Hash
  <2>2. f \in F
    BY <1>2
  <2> HIDE DEF F, v, w
  <2>3. [g \in F |-> v[g]][f] = [g \in F |-> w[g]][f]
    BY <2>1
  <2>4. v[f] = w[f]
    BY <2>2, <2>3
  <2> QED  BY <2>4 DEF v, w
<1> QED  BY <1>1, <1>3 DEF DocIsAgreed

LEMMA BuildAgreed == ASSUME Agreements, BuilderInv, Build PROVE Agreements'
<1>1. CASE BuildOperation
  <2>1. built' = Updated(doc) /\ OperationIsValid(Updated(doc)) /\ doc.type \in FactTypes
    BY <1>1 DEF BuildOperation, BuildsOperation, BuilderInv
  <2>2. Updated(doc).type = doc.type
    BY SignsUpdated DEF BuilderInv
  <2>3. DocIsAgreed(built')
    BY <2>1, <2>2, ValidIsAgreed
  <2> QED  BY <2>3 DEF Agreements, SignedIsBuilt, Build, sending
<1>2. CASE UNCHANGED built
  BY <1>2 DEF Agreements, SignedIsBuilt, Build, sending
<1>3. UNCHANGED built \/ BuildOperation
  BY DEF Build, BuilderStep, FactTemplate, Write, Fill, BuildFact, Alter, ReplaceSign, AddSign
<1> QED  BY <1>1, <1>2, <1>3

\* Whoever posts is done with the builder, and what he posts is agreed if the
\* handler finds it sendable.
LEMMA PostAgreed ==
    ASSUME NEW a, agreed' = a, LeaveBuilder, Sendable(body') => a
    PROVE  Agreements'
  BY DEF Agreements, SignedIsBuilt, LeaveBuilder

LEMMA ClientsInductive == ClientsInv /\ [Next]_vars => ClientsInv'
<1> SUFFICES ASSUME ClientsInv, [Next]_vars PROVE Agreements'
  BY FileSteps, BuilderSteps, SendSteps, FileNextInv, BuilderInvNext, SendInductive DEF ClientsInv
<1>1. CASE Build
  BY <1>1, BuildAgreed DEF ClientsInv
<1>2. CASE GiveCommand \/ UNCHANGED vars
  BY <1>2 DEF GiveCommand, vars, builder, sending, ClientsInv, Agreements, SignedIsBuilt, Sendable
<1>3. CASE PostOperation
  <2>1. body' = [kind |-> "operation", ops |-> OperationIsValid(doc), seal |-> "valid"]
    BY <1>3 DEF PostOperation, Post
  <2>2. Sendable(body') => OperationIsValid(doc)
    BY <2>1 DEF Sendable
  <2>3. OperationIsValid(doc) => DocIsAgreed(doc)
    BY ValidIsAgreed DEF ClientsInv, BuilderInv
  <2> QED  BY <1>3, <2>2, <2>3, PostAgreed DEF PostOperation, Leave
<1>4. CASE SendBuilt
  BY <1>4, PostAgreed DEF SendBuilt, Leave, ClientsInv, Agreements, SignedIsBuilt
<1>5. CASE PostSeal
  <2>1. body' = [kind |-> "operation seal", ops |-> Readable(seal), seal |-> "valid"]
    BY <1>5 DEF PostSeal, Post
  <2>2. Sendable(body') => Readable(seal)
    BY <2>1 DEF Sendable
  <2>3. Readable(seal) => SealIsAgreed(seal)
    BY DEF ClientsInv, FileInv, SignersAgreed, SignersAgreedIn, SealIsAgreed, Readable
  <2> QED  BY <1>5, <2>2, <2>3, PostAgreed DEF PostSeal, Leave
<1>6. CASE SendFile
  <2>1. SealIsAgreed(seal)
    BY <1>6 DEF SendFile, ClientsInv, FileInv, SignersAgreed, SignersAgreedIn, SealIsAgreed, Readable
  <2> QED  BY <1>6, <2>1, PostAgreed DEF SendFile, Leave
<1>7. ASSUME NEW b \in Bodies, PostOther(b) PROVE Agreements'
  <2>1. body' = b
    BY <1>7 DEF PostOther, Post
  <2>2. Sendable(b) => b.ops \/ b.kind = "seal"
    BY DEF Sendable
  <2> QED  BY <1>7, <2>1, <2>2, PostAgreed DEF PostOther, Leave
<1>8. CASE Proceed
  <2>1. UNCHANGED <<built, body, agreed>> /\ pc # "idle"
    BY <1>8 DEF Proceed, builder, SendStep, HandleSend, Answer, SendSeal, Put, Arrive,
               ClientsInv, SendInv, SendTypeInv, CheckedFirst
  <2> QED  BY <2>1 DEF ClientsInv, Agreements, SignedIsBuilt
<1> QED  BY <1>1, <1>2, <1>3, <1>4, <1>5, <1>6, <1>7, <1>8 DEF Next

LEMMA ClientsInitial == Init => ClientsInv
  BY FileInitInv, BuilderInvInit, SendInitial
     DEF Init, ClientsInv, Agreements, SignedIsBuilt, BuilderInit, SendInit

\* Each signature under an operation that the builder lets out is its
\* signer's own, of this very fact or, if it registers a currency, of one with
\* the same token, amount and currency: its genesis account and policy are
\* not signed (SignedAsBuilt does not hold).
THEOREM BuiltWasSigned == Spec => []SignedIsBuilt
<1>1. ClientsInv => SignedIsBuilt
  BY DEF ClientsInv, Agreements
<1> QED  BY <1>1, ClientsInitial, ClientsInductive, PTL DEF Spec

\* From any client to any node: what reaches a node is valid and signed by
\* its signers as above, though the handler, the builder and the commands
\* each check some of it only.
THEOREM SentWasAgreed == Spec => []SentIsAgreed
<1>1. ClientsInv => SentIsAgreed
  BY DEF ClientsInv, SendInv, CheckedFirst, Agreements, SentIsAgreed
<1> QED  BY <1>1, ClientsInitial, ClientsInductive, PTL DEF Spec
=============================================================================
