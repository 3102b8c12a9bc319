------------------------- MODULE ChainQuery_proofs -------------------------
(***************************************************************************)
(* What holds of the answers of the digest API, for any blocks, designs,   *)
(* documents, clients, page length and size of the cache: an account is    *)
(* never answered with less than what was settled, whatever an answer      *)
(* links to is there, what is there is found, and what is cached for long  *)
(* is right.                                                               *)
(***************************************************************************)
EXTENDS ChainQuery, FiniteSetTheorems, WellFoundedInduction, TLAPS

(***************************************************************************)
(* The documents of the settled blocks stay where they are while the       *)
(* digester works on the next one, fails and starts it again.              *)
(***************************************************************************)

\* The collections the session has done are whole; c is written at step k.
Written(k, col) ==
    pc > k => \A d \in Docs : d.height = next /\ d.col = col => d \in stored

\* The settled blocks are whole, with what the session has finished of the next.
StoreInv ==
    /\ next \in Nat
    /\ pc \in 0..6
    /\ stored \subseteq Docs
    /\ \A d \in Docs : d.height < next => d \in stored
    /\ Written(4, "operation")
    /\ Written(5, "account")

\* A digest as it is found at a start: its blocks are whole.
LEMMA StoreInitial == StoreInit => StoreInv
  BY DocsAssumption DEF StoreInit, StoreInv, Written

\* Every step of the digester, its deletions and its failures included,
\* leaves the settled blocks whole.
LEMMA StoreStep == StoreInv /\ StoreNext => StoreInv'
<1> SUFFICES ASSUME StoreInv, StoreNext PROVE StoreInv'
  OBVIOUS
<1> USE DocsAssumption DEF StoreInv, Written
<1>1. CASE DigestBlock
  BY <1>1 DEF DigestBlock
<1>2. CASE CleanByHeight
  BY <1>2 DEF CleanByHeight, RemovedByHeight
<1>3. CASE Insert
  BY <1>3 DEF Insert, Missing
<1>4. CASE Inserted
  <2>1. \A d \in Docs : d.height = next /\ d.col = WriteOrder[pc - 3] => d \in stored
    BY <1>4 DEF Inserted, Missing
  <2>2. CASE pc = 4
    BY <1>4, <2>1, <2>2 DEF Inserted, WriteOrder
  <2>3. CASE pc = 5
    BY <1>4, <2>1, <2>3 DEF Inserted, WriteOrder
  <2>4. CASE pc = 6
    <3>1. \A d \in Docs : d.height = next => d \in stored
      BY <2>1, <2>4 DEF WriteOrder
    <3>2. next' = next + 1 /\ pc' = 0 /\ stored' = stored
      BY <1>4, <2>4 DEF Inserted
    <3>3. \A d \in Docs : d.height < next + 1 => d.height < next \/ d.height = next
      OBVIOUS
    <3> QED  BY <3>1, <3>2, <3>3
  <2> QED  BY <1>4, <2>2, <2>3, <2>4 DEF Inserted
<1>5. CASE Retry
  BY <1>5 DEF Retry
<1> QED  BY <1>1, <1>2, <1>3, <1>4, <1>5 DEF StoreNext

\* The settled blocks never become fewer.
LEMMA SettledGrows == StoreInv /\ StoreNext => next =< next'
  BY DEF StoreInv, StoreNext, DigestBlock, CleanByHeight, Insert, Inserted, Retry

(***************************************************************************)
(* What a read has found so far                                            *)
(***************************************************************************)

ReadType ==
    [pc : {"idle", "account", "balance", "found", "not found"},
     keys : Int, amounts : [Currencies -> Int], began : Int]

Accounts == {d \in Docs : d.col = "account"}
Balances == {d \in Docs : d.col = "balance"}

\* What a read has found is as new as what was settled when it began, and
\* when it has found nothing more, nothing settled is left out.
ReadOK(rd) ==
    /\ rd \in ReadType
    /\ rd.began < next
    /\ rd.pc \in {"balance", "found"} =>
         \A d \in Accounts : d.height =< rd.began => rd.keys >= d.height
    /\ \A d \in Balances :
         d.height =< rd.began /\ rd.amounts[d.currency] # NilHeight
           => rd.amounts[d.currency] >= d.height
    /\ rd.pc = "found" =>
         \A d \in Balances : d.height =< rd.began => rd.amounts[d.currency] # NilHeight
    /\ rd.pc = "not found" => \A d \in Accounts : ~(d.height =< rd.began)

IInv ==
    /\ StoreInv
    /\ reads \in [Readers -> ReadType]
    /\ \A r \in Readers : ReadOK(reads[r])

\* The fields of a read, and a read of given fields.
LEMMA ReadFields ==
    ASSUME NEW rd \in ReadType
    PROVE  /\ rd.pc \in {"idle", "account", "balance", "found", "not found"}
           /\ rd.keys \in Int /\ rd.began \in Int
           /\ rd.amounts \in [Currencies -> Int]
  BY DEF ReadType

LEMMA ReadOf ==
    ASSUME NEW p \in {"idle", "account", "balance", "found", "not found"},
           NEW k \in Int, NEW a \in [Currencies -> Int], NEW b \in Int
    PROVE  Read(p, k, a, b) \in ReadType
  BY DEF Read, ReadType

LEMMA Nothing == NilHeight \in Int /\ NoAmounts \in [Currencies -> Int]
  BY DEF NilHeight, NoAmounts

\* Nobody who reads nothing can be wrong.
LEMMA NoReadIsOK == ASSUME next \in Nat PROVE ReadOK(NoRead)
<1>1. NoRead \in ReadType
  BY ReadOf, Nothing DEF NoRead
<1>2. \A d \in Balances : NoRead.amounts[d.currency] = NilHeight
  BY AccountAssumption DEF Balances, NoRead, Read, NoAmounts
<1> QED  BY <1>1, <1>2 DEF ReadOK, NoRead, Read, NilHeight

LEMMA Initial == Init => IInv
<1> SUFFICES ASSUME Init PROVE IInv
  OBVIOUS
<1>1. StoreInv
  BY StoreInitial DEF Init
<1>2. next \in Nat
  BY DocsAssumption DEF Init, StoreInit
<1>3. ReadOK(NoRead) /\ NoRead \in ReadType
  BY <1>2, NoReadIsOK DEF ReadOK
<1> QED  BY <1>1, <1>3 DEF Init, IInv

\* A read is not disturbed by what the digester does.
LEMMA DigestingStep == IInv /\ Digesting => IInv'
<1> SUFFICES ASSUME IInv, Digesting PROVE IInv'
  OBVIOUS
<1>1. StoreInv' /\ next =< next' /\ next \in Int /\ next' \in Int
  BY StoreStep, SettledGrows DEF IInv, Digesting, StoreInv
<1>2. reads' = reads
  BY DEF Digesting
<1>3. ASSUME NEW r \in Readers PROVE ReadOK(reads[r])'
  <2>1. ReadOK(reads[r])
    BY DEF IInv
  <2>2. reads[r].began < next'
    <3>1. reads[r].began \in Int /\ reads[r].began < next
      BY <2>1, ReadFields DEF ReadOK
    <3> QED  BY <1>1, <3>1
  <2> QED  BY <1>2, <2>1, <2>2 DEF ReadOK
<1> QED  BY <1>1, <1>2, <1>3 DEF IInv

\* A step of one reader leaves the other reads alone.
LEMMA ReaderStep ==
    ASSUME IInv, UNCHANGED store, NEW r \in Readers, NEW rd,
           reads' = [reads EXCEPT ![r] = rd], ReadOK(rd)
    PROVE  IInv'
<1>1. StoreInv' /\ next' = next
  BY DEF IInv, StoreInv, Written, store
<1>2. rd \in ReadType
  BY DEF ReadOK
<1>3. ASSUME NEW s \in Readers PROVE ReadOK(reads[s])'
  <2>1. ReadOK(reads'[s])
    BY DEF IInv
  <2> QED  BY <1>1, <2>1 DEF ReadOK
<1> QED  BY <1>1, <1>2, <1>3 DEF IInv

LEMMA RequestStep == ASSUME IInv, NEW r \in Readers, Request(r) PROVE IInv'
<1> DEFINE rd == Read("account", NilHeight, NoAmounts, Settled)
<1>2. next \in Int
  BY DEF IInv, StoreInv
<1>3. ReadOK(rd)
  <2>1. rd \in ReadType
    <3>1. Settled \in Int
      BY <1>2 DEF Settled
    <3> QED  BY <3>1, ReadOf, Nothing
  <2>2. \A d \in Balances : rd.amounts[d.currency] = NilHeight
    BY AccountAssumption DEF Balances, Read, NoAmounts
  <2> QED  BY <1>2, <2>1, <2>2 DEF ReadOK, Read, Settled
<1>4. UNCHANGED store /\ reads' = [reads EXCEPT ![r] = rd]
  BY DEF Request
<1> HIDE DEF rd
<1> QED  BY <1>3, <1>4, ReaderStep

LEMMA ReturnStep == ASSUME IInv, NEW r \in Readers, Return(r) PROVE IInv'
<1>1. ReadOK(NoRead)
  <2>1. next \in Nat
    BY DEF IInv, StoreInv
  <2> QED  BY <2>1, NoReadIsOK
<1>2. UNCHANGED store /\ reads' = [reads EXCEPT ![r] = NoRead]
  BY DEF Return
<1> QED  BY <1>1, <1>2, ReaderStep

\* What is settled when a read goes on was settled when it began too.
LEMMA SettledStored ==
    ASSUME IInv, NEW r \in Readers, NEW d \in Docs, d.height =< reads[r].began
    PROVE  d \in stored /\ d.height \in Nat
<1>1. ReadOK(reads[r]) /\ StoreInv
  BY DEF IInv
<1>2. d.height \in Nat
  BY DocsAssumption
<1>3. d.height < next
  <2>1. reads[r].began \in Int /\ reads[r].began < next
    BY <1>1, ReadFields DEF ReadOK
  <2>2. next \in Int
    BY <1>1 DEF StoreInv
  <2> QED  BY <1>2, <2>1, <2>2
<1> QED  BY <1>1, <1>2, <1>3 DEF StoreInv

LEMMA AccountStep == ASSUME IInv, NEW r \in Readers, Account(r) PROVE IInv'
<1> DEFINE old == reads[r]
<1>1. ReadOK(old) /\ old.pc = "account" /\ UNCHANGED store
  BY DEF IInv, Account
<1>2. stored \subseteq Docs
  BY DEF IInv, StoreInv
<1>3. \A d \in Accounts : d.height =< old.began => d \in Of("account") /\ d.height \in Nat
  BY SettledStored DEF Accounts, Of
<1>4. CASE Of("account") = {}
  <2> DEFINE rd == [old EXCEPT !.pc = "not found"]
  <2>1. ReadOK(rd)
    BY <1>1, <1>3, <1>4 DEF ReadOK, ReadType
  <2>2. reads' = [reads EXCEPT ![r] = rd]
    BY <1>4 DEF Account
  <2> HIDE DEF rd
  <2> QED  BY <1>1, <2>1, <2>2, ReaderStep
<1>5. CASE Of("account") # {}
  <2>1. PICK d \in AnyNewest(Of("account")) :
              reads' = [reads EXCEPT ![r] = Read("balance", d.height, @.amounts, @.began)]
    BY <1>5 DEF Account
  <2> DEFINE rd == Read("balance", d.height, old.amounts, old.began)
  <2>2. d \in Docs /\ d.height \in Nat /\ \A e \in Of("account") : e.height =< d.height
    BY <1>2, <2>1, DocsAssumption DEF AnyNewest, Of
  <2>3. ReadOK(rd)
    <3>1. rd \in ReadType /\ rd.keys = d.height /\ rd.pc = "balance"
          /\ rd.began = old.began /\ rd.amounts = old.amounts
      <4>1. old \in ReadType /\ d.height \in Int
        BY <1>1, <2>2 DEF ReadOK
      <4>2. old.began \in Int /\ old.amounts \in [Currencies -> Int]
        BY <4>1, ReadFields
      <4>3. rd \in ReadType
        BY <4>1, <4>2, ReadOf
      <4> QED  BY <4>3 DEF Read
    <3>2. \A e \in Accounts : e.height =< rd.began => rd.keys >= e.height
      BY <1>3, <2>2, <3>1
    <3> QED  BY <1>1, <3>1, <3>2 DEF ReadOK
  <2>4. reads' = [reads EXCEPT ![r] = rd]
    BY <2>1 DEF IInv, ReadType
  <2> HIDE DEF rd
  <2> QED  BY <1>1, <2>3, <2>4, ReaderStep
<1> QED  BY <1>4, <1>5

LEMMA BalanceStep == ASSUME IInv, NEW r \in Readers, Balance(r) PROVE IInv'
<1> DEFINE old == reads[r]
<1>1. ReadOK(old) /\ old.pc = "balance" /\ UNCHANGED store
  BY DEF IInv, Balance
<1>2. stored \subseteq Docs
  BY DEF IInv, StoreInv
<1>3. \A d \in Balances : d.height =< old.began => d \in Of("balance") /\ d.height \in Nat
  BY SettledStored DEF Balances, Of
<1>4. CASE Unseen(r) = {}
  <2> DEFINE rd == [old EXCEPT !.pc = "found"]
  <2>1. rd \in ReadType /\ rd.pc = "found" /\ rd.keys = old.keys
        /\ rd.began = old.began /\ rd.amounts = old.amounts
    BY <1>1 DEF ReadOK, ReadType
  <2>2. \A d \in Balances : d.height =< rd.began => rd.amounts[d.currency] # NilHeight
    BY <1>3, <1>4, <2>1 DEF Unseen
  <2>3. ReadOK(rd)
    BY <1>1, <2>1, <2>2 DEF ReadOK
  <2>4. reads' = [reads EXCEPT ![r] = rd]
    BY <1>4 DEF Balance
  <2> HIDE DEF rd
  <2> QED  BY <1>1, <2>3, <2>4, ReaderStep
<1>5. CASE Unseen(r) # {}
  <2>1. PICK d \in AnyNewest(Unseen(r)) :
              reads' = [reads EXCEPT ![r] =
                  Read("balance", @.keys, [@.amounts EXCEPT ![d.currency] = d.height], @.began)]
    BY <1>5 DEF Balance
  <2> DEFINE rd == Read("balance", old.keys, [old.amounts EXCEPT ![d.currency] = d.height],
                      old.began)
  <2>2. /\ d \in Balances /\ d.height \in Nat /\ d.currency \in Currencies
        /\ \A e \in Unseen(r) : e.height =< d.height
    BY <1>2, <2>1, DocsAssumption, AccountAssumption DEF AnyNewest, Unseen, Of, Balances
  <2>3. /\ rd \in ReadType /\ rd.pc = "balance" /\ rd.keys = old.keys /\ rd.began = old.began
        /\ rd.amounts = [old.amounts EXCEPT ![d.currency] = d.height]
    <3>1. old \in ReadType
      BY <1>1 DEF ReadOK
    <3>2. old.began \in Int /\ old.keys \in Int /\ old.amounts \in [Currencies -> Int]
      BY <3>1, ReadFields
    <3>3. [old.amounts EXCEPT ![d.currency] = d.height] \in [Currencies -> Int]
      BY <2>2, <3>2
    <3>4. rd \in ReadType
      BY <3>2, <3>3, ReadOf
    <3> QED  BY <3>4 DEF Read
  <2>4. ASSUME NEW e \in Balances, e.height =< rd.began, rd.amounts[e.currency] # NilHeight
        PROVE  rd.amounts[e.currency] >= e.height
    <3>1. e.currency \in Currencies /\ old.amounts \in [Currencies -> Int]
      BY <1>1, AccountAssumption DEF ReadOK, ReadType, Balances
    <3>2. CASE old.amounts[e.currency] = NilHeight
      <4>1. e \in Unseen(r)
        BY <1>3, <2>3, <2>4, <3>2 DEF Unseen
      <4>2. e.currency = d.currency
        BY <2>3, <2>4, <3>1, <3>2
      <4> QED  BY <2>2, <2>3, <3>1, <4>1, <4>2, <1>3, <2>4
    <3>3. CASE old.amounts[e.currency] # NilHeight
      <4>1. d.currency # e.currency
        BY <2>1, <3>3 DEF AnyNewest, Unseen
      <4> QED  BY <1>1, <2>3, <2>4, <3>1, <3>3, <4>1 DEF ReadOK
    <3> QED  BY <3>2, <3>3
  <2>5. ReadOK(rd)
    BY <1>1, <2>3, <2>4 DEF ReadOK
  <2>6. reads' = [reads EXCEPT ![r] = rd]
    BY <2>1 DEF IInv, ReadType
  <2> HIDE DEF rd
  <2> QED  BY <1>1, <2>5, <2>6, ReaderStep
<1> QED  BY <1>4, <1>5

LEMMA Inductive == IInv /\ [Next]_vars => IInv'
<1> SUFFICES ASSUME IInv, [Next]_vars PROVE IInv'
  OBVIOUS
<1>1. CASE Digesting
  BY <1>1, DigestingStep
<1>2. ASSUME NEW r \in Readers, Request(r) PROVE IInv'
  BY <1>2, RequestStep
<1>3. ASSUME NEW r \in Readers, Account(r) PROVE IInv'
  BY <1>3, AccountStep
<1>4. ASSUME NEW r \in Readers, Balance(r) PROVE IInv'
  BY <1>4, BalanceStep
<1>5. ASSUME NEW r \in Readers, Return(r) PROVE IInv'
  BY <1>5, ReturnStep
<1>6. CASE UNCHANGED vars
  BY <1>6 DEF vars, store, IInv, StoreInv, Written, ReadOK
<1> QED  BY <1>1, <1>2, <1>3, <1>4, <1>5, <1>6 DEF Next, Query

LEMMA Implied == IInv => NeverOlder
<1> SUFFICES ASSUME IInv, NEW r \in Readers
             PROVE  /\ reads[r].pc = "not found" => SettledHeights(r, Accounts) = {}
                    /\ reads[r].pc = "found" =>
                         /\ \A h \in SettledHeights(r, Accounts) : reads[r].keys >= h
                         /\ \A c \in Currencies :
                              \A h \in SettledHeights(r, {d \in Docs : d.col = "balance" /\ d.currency = c}) :
                                 reads[r].amounts[c] >= h
  BY DEF NeverOlder, Accounts
<1>1. ReadOK(reads[r])
  BY DEF IInv
<1> QED  BY <1>1 DEF ReadOK, SettledHeights, Accounts, Balances

\* The read of an account: what it answers is at least as new as what was
\* settled when it began, whatever the digester does between its queries.
THEOREM AccountsAreNotOlder == Spec => []NeverOlder
  BY Initial, Inductive, Implied, PTL DEF Spec

(***************************************************************************)
(* The chain and the API: their reads                                      *)
(***************************************************************************)

LEMMA ReadsInChain == ChainNext => [Next]_vars
PROOF
<1> SUFFICES ASSUME ChainNext PROVE [Next]_vars
  OBVIOUS
<1>1. CASE WhenBlockSaved \/ Hook \/ HookFails
  BY <1>1 DEF WhenBlockSaved, Hook, Set, SetState, HookFails
<1>2. CASE DigestBlocks
  BY <1>2 DEF DigestBlocks, Next
<1>3. CASE \E r \in Readers : ReadAccount(r)
  BY <1>3 DEF ReadAccount, Next
<1>4. CASE \E c \in Clients : Ask(c) \/ Handle(c)
  BY <1>4 DEF Ask, Handle, Load, Do
<1>5. CASE \E f \in flights : Fly(f) \/ Throw(f)
  <2>1. PICK f \in flights : Fly(f) \/ Throw(f)
    BY <1>5
  <2>2. CASE InGroup(f) \/ Get(f) \/ State(f) \/ Answer(f) \/ Throw(f)
    BY <2>2 DEF InGroup, Get, State, Answer, Throw
  <2>3. CASE \E r \in Readers : StartRead(f, r) \/ EndRead(f, r)
    BY <2>3 DEF StartRead, EndRead, Next
  <2> QED
    BY <2>1, <2>2, <2>3 DEF Fly
<1>6. CASE \E e \in cache : Expire(e)
  BY <1>6 DEF Expire
<1> QED
  BY <1>1, <1>2, <1>3, <1>4, <1>5, <1>6 DEF ChainNext

LEMMA ReadsInvariance == ChainSpec => []IInv
PROOF
<1>1. ChainInit => IInv
  BY Initial DEF ChainInit
<1>2. IInv /\ [ChainNext]_chainVars => IInv'
  <2> SUFFICES ASSUME IInv, [ChainNext]_chainVars PROVE IInv'
    OBVIOUS
  <2>1. [Next]_vars
    BY ReadsInChain DEF chainVars
  <2> QED
    BY <2>1, Inductive
<1> QED
  BY <1>1, <1>2, PTL DEF ChainSpec

\* An account that the API answers is at least as new as what was settled when
\* the read began, while blocks are saved and digested and requests shared.
THEOREM AnswersAreNotOlder == ChainSpec => []NeverOlder
PROOF
  BY ReadsInvariance, Implied, PTL

(***************************************************************************)
(* The blocks, the digest and the pool                                     *)
(***************************************************************************)

\* The digest and the reads are not ahead of the saved blocks.
Behind ==
    /\ saved \in 0..MaxHeight
    /\ next =< saved + 1
    /\ \A d \in stored : d.height =< saved
    /\ \A r \in Readers, c \in Currencies : reads[r].amounts[c] \in {NilHeight} \cup 0..saved

\* What a step of the chain or of the API does to the blocks.
LEMMA SavedGrows ==
    ASSUME Behind, ChainNext
    PROVE  saved' = saved \/ (WhenBlockSaved /\ saved' = saved + 1)
PROOF
  BY DEF ChainNext, WhenBlockSaved, Hook, Set, SetState, HookFails, DigestBlocks, ReadAccount, Ask,
         Handle, Load, Do, Fly, Throw, InGroup, Get, State, StartRead, EndRead, FlightDone,
         FlightGoes, Answer, Expire, chain

LEMMA HeightsAreNat == MaxHeight \in Nat /\ \A d \in Docs : d.height \in 0..MaxHeight
PROOF
  BY DocsAssumption

\* The states of designs come with operations.
LEMMA DesignHeights ==
    /\ OperationHeights \subseteq 0..MaxHeight
    /\ \A d \in Designs : /\ d.cid \in Currencies /\ d.height \in OperationHeights
                          /\ d.height \in 0..MaxHeight
PROOF
<1>1. OperationHeights \subseteq 0..MaxHeight
  BY HeightsAreNat DEF OperationHeights
<1> QED
  BY <1>1, ChainAssumption

LEMMA AccountHeights ==
    OperationHeights \subseteq Nat /\ Addressed \subseteq OperationHeights /\ Created \in Nat
PROOF
<1>1. \A h \in 0..MaxHeight : h \in Nat
  BY HeightsAreNat
<1>2. Addressed \subseteq OperationHeights /\ Created \in {0} \cup Addressed
  BY ChainAssumption
<1> QED
  BY <1>1, <1>2, DesignHeights

LEMMA BehindInit == ChainInit => Behind
PROOF
<1> SUFFICES ASSUME ChainInit PROVE Behind
  OBVIOUS
<1>1. next \in 0..MaxHeight /\ saved \in {next - 1, next} \cap Nat
  BY DEF ChainInit, Init, StoreInit
<1>2. \A r \in Readers, c \in Currencies : reads[r].amounts[c] = NilHeight
  BY DEF ChainInit, Init, NoRead, NoAmounts, Read
<1>3. \A d \in stored : d.height =< saved
  BY DEF ChainInit
<1> QED
  BY <1>1, <1>2, <1>3, HeightsAreNat DEF Behind

LEMMA BehindStep == IInv /\ Behind /\ [ChainNext]_chainVars => Behind'
PROOF
<1> SUFFICES ASSUME IInv, Behind, [ChainNext]_chainVars PROVE Behind'
  OBVIOUS
<1>1. saved \in 0..MaxHeight /\ next \in Nat /\ stored \subseteq Docs /\ MaxHeight \in Nat
      /\ reads \in [Readers -> ReadType]
  BY HeightsAreNat DEF Behind, IInv, StoreInv
<1>2. CASE WhenBlockSaved
  <2>1. saved' = saved + 1 /\ saved < MaxHeight /\ UNCHANGED <<stored, next, reads>>
    BY <1>2 DEF WhenBlockSaved, vars, store
  <2> QED
    BY <1>1, <2>1, HeightsAreNat DEF Behind
<1>3. CASE DigestBlocks
  <2>1. next =< saved /\ StoreNext /\ UNCHANGED <<saved, reads>>
    BY <1>3 DEF DigestBlocks, DigestedWhenSaved, Digesting, chain
  <2>2. next' \in {next, next + 1} /\ \A d \in stored' : d \in stored \/ d.height = next
    BY <2>1 DEF StoreNext, DigestBlock, CleanByHeight, Insert, Inserted, Retry, Missing
  <2> QED
    BY <1>1, <2>1, <2>2 DEF Behind
<1>4. ASSUME NEW r \in Readers, NEW rd \in ReadType, UNCHANGED <<store, saved>>,
             reads' = [reads EXCEPT ![r] = rd],
             \A c \in Currencies : rd.amounts[c] \in {NilHeight} \cup 0..saved
      PROVE  Behind'
  BY <1>1, <1>4 DEF Behind, store
<1>5. ASSUME NEW r \in Readers, ReadAccount(r) PROVE Behind'
  <2> DEFINE old == reads[r]
  <2>1. /\ old \in ReadType /\ UNCHANGED <<store, saved>> /\ Query(r)
        /\ \A c \in Currencies : old.amounts[c] \in {NilHeight} \cup 0..saved
    BY <1>1, <1>5 DEF ReadAccount, Query, Account, Balance, chain, Behind
  <2>2. /\ old.pc \in {"idle", "account", "balance", "found", "not found"}
        /\ old.keys \in Int /\ old.began \in Int /\ old.amounts \in [Currencies -> Int]
    BY <2>1, ReadFields
  <2>3. CASE \E p \in {"not found", "found"} : reads' = [reads EXCEPT ![r].pc = p]
    <3>1. PICK p \in {"not found", "found"} : reads' = [reads EXCEPT ![r].pc = p]
      BY <2>3
    <3> DEFINE rd == [old EXCEPT !.pc = p]
    <3>2. rd \in ReadType /\ rd.amounts = old.amounts
      BY <2>1 DEF ReadType
    <3>3. reads' = [reads EXCEPT ![r] = rd]
      BY <3>1
    <3> HIDE DEF rd
    <3> QED
      BY <1>4, <2>1, <3>2, <3>3
  <2>4. CASE \E d \in stored : reads' = [reads EXCEPT ![r] = Read("balance", d.height, @.amounts, @.began)]
    <3>1. PICK d \in stored :
                reads' = [reads EXCEPT ![r] = Read("balance", d.height, @.amounts, @.began)]
      BY <2>4
    <3> DEFINE rd == Read("balance", d.height, old.amounts, old.began)
    <3>2. d.height \in Int
      BY <1>1, HeightsAreNat
    <3>3. rd \in ReadType /\ rd.amounts = old.amounts
      BY <2>2, <3>2, ReadOf DEF Read
    <3>4. reads' = [reads EXCEPT ![r] = rd]
      BY <1>1, <3>1
    <3> HIDE DEF rd
    <3> QED
      BY <1>4, <2>1, <3>3, <3>4
  <2>5. CASE \E d \in Of("balance") :
               reads' = [reads EXCEPT ![r] =
                 Read("balance", @.keys, [@.amounts EXCEPT ![d.currency] = d.height], @.began)]
    <3>1. PICK d \in Of("balance") :
               reads' = [reads EXCEPT ![r] =
                 Read("balance", @.keys, [@.amounts EXCEPT ![d.currency] = d.height], @.began)]
      BY <2>5
    <3> DEFINE as == [old.amounts EXCEPT ![d.currency] = d.height]
               rd == Read("balance", old.keys, as, old.began)
    <3>2. d.height \in Int /\ d.height \in 0..saved /\ d.currency \in Currencies
      BY <1>1, HeightsAreNat, AccountAssumption DEF Of, Behind
    <3>3. as \in [Currencies -> Int] /\ \A c \in Currencies : as[c] \in {NilHeight} \cup 0..saved
      <4>1. d.height \in Int /\ old.amounts \in [Currencies -> Int]
        BY <2>2, <3>2
      <4> HIDE DEF old
      <4>2. \A c \in Currencies : as[c] = IF c = d.currency THEN d.height ELSE old.amounts[c]
        BY <4>1
      <4>3. as \in [Currencies -> Int]
        BY <4>1
      <4> HIDE DEF as
      <4>4. \A c \in Currencies : as[c] \in {NilHeight} \cup 0..saved
        BY <2>1, <3>2, <4>2
      <4> QED
        BY <4>3, <4>4
    <3>4. reads' = [reads EXCEPT ![r] = rd]
      BY <1>1, <3>1
    <3> HIDE DEF as
    <3>5. rd \in ReadType /\ rd.amounts = as
      BY <2>2, <3>3, ReadOf DEF Read
    <3> HIDE DEF rd
    <3> QED
      BY <1>4, <2>1, <3>3, <3>4, <3>5
  <2>6. AnyNewest(Of("account")) \subseteq stored /\ AnyNewest(Unseen(r)) \subseteq Of("balance")
    BY DEF AnyNewest, Of, Unseen
  <2> QED
    BY <2>1, <2>3, <2>4, <2>5, <2>6 DEF Query, Account, Balance
<1>6. ASSUME NEW f \in flights, NEW r \in Readers, StartRead(f, r) \/ EndRead(f, r)
      PROVE  Behind'
  <2> DEFINE rd == IF StartRead(f, r) THEN Read("account", NilHeight, NoAmounts, Settled) ELSE NoRead
  <2>1. UNCHANGED <<store, saved>> /\ reads' = [reads EXCEPT ![r] = rd]
    BY <1>6 DEF StartRead, EndRead, Request, Return, FlightDone, FlightGoes, chain
  <2>2. Settled \in Int
    BY <1>1 DEF Settled
  <2>3. rd \in ReadType
    BY <2>2, ReadOf, Nothing DEF NoRead
  <2>4. \A c \in Currencies : rd.amounts[c] = NilHeight
    BY DEF NoRead, Read, NoAmounts
  <2> HIDE DEF rd
  <2> QED
    BY <1>4, <2>1, <2>3, <2>4
<1>7. CASE UNCHANGED <<store, reads, saved>>
  BY <1>7 DEF Behind, store
<1>8. CASE UNCHANGED chainVars
  BY <1>7, <1>8 DEF chainVars, vars, chain
<1>9. CASE Hook \/ HookFails \/ \E c \in Clients : Ask(c) \/ Handle(c)
  BY <1>7, <1>9 DEF Hook, Set, SetState, HookFails, Ask, Handle, Load, Do, vars, chain
<1>10. ASSUME NEW f \in flights, InGroup(f) \/ Get(f) \/ State(f) \/ Answer(f) \/ Throw(f)
       PROVE  Behind'
  BY <1>7, <1>10 DEF InGroup, Get, State, Answer, Throw, FlightDone, FlightGoes, vars, chain
<1>11. CASE \E e \in cache : Expire(e)
  BY <1>7, <1>11 DEF Expire, vars, chain
<1> QED
  BY <1>2, <1>3, <1>5, <1>6, <1>8, <1>9, <1>10, <1>11 DEF ChainNext, Fly
\* The greatest of a set of heights.
LEMMA LastOf ==
    ASSUME NEW m \in Int, NEW heights \in SUBSET Int, heights # {}, \A h \in heights : h =< m
    PROVE  LET last == CHOOSE h \in heights : \A g \in heights : g =< h
           IN  last \in heights /\ \A g \in heights : g =< last
PROOF
<1> DEFINE T == {m - h : h \in heights}
<1>1. T \subseteq Nat /\ T # {}
  OBVIOUS
<1>2. IsWellFoundedOn(OpToRel(<, Nat), Nat)
  BY NatLessThanWellFounded
<1>3. PICK x \in T : \A y \in T : ~(<<y, x>> \in OpToRel(<, Nat))
  BY <1>1, <1>2, WFMin
<1>4. PICK h \in heights : x = m - h
  BY <1>3
<1>5. ASSUME NEW g \in heights PROVE g =< h
  <2>1. m - g \in T /\ m - g \in Nat /\ x \in Nat
    BY <1>1, <1>3
  <2>2. ~(<<m - g, x>> \in OpToRel(<, Nat))
    BY <1>3, <2>1
  <2>3. ~(m - g < x)
    BY <2>1, <2>2 DEF OpToRel
  <2> QED
    BY <1>4, <2>1, <2>3
<1>6. \E k \in heights : \A g \in heights : g =< k
  BY <1>5
<1> QED
  BY <1>6

\* What the hook loads is of the last block, and no entry of the pool is
\* ahead of the blocks; a state comes from a block with an operation.  The
\* state of a currency lags behind its design only while Set is between the
\* two maps.
PoolInv ==
    /\ pool \in [Currencies -> [design : Int, state : Int]]
    /\ hook \subseteq Designs /\ setting \subseteq Designs
    /\ \A d \in hook \cup setting : d.height = saved
    /\ \A d, e \in setting : d = e
    /\ \A d \in setting : pool[d.cid].design = d.height
    /\ \A c \in Currencies :
         /\ pool[c].design \in {NilHeight} \cup 0..saved
         /\ pool[c].state \in {NilHeight} \cup 0..saved
         /\ pool[c].state \in {NilHeight} \cup OperationHeights
         /\ pool[c].state =< pool[c].design
         /\ pool[c].state = pool[c].design \/ \E d \in setting : d.cid = c

LEMMA PoolInit == ChainInit => PoolInv
PROOF
<1> SUFFICES ASSUME ChainInit PROVE PoolInv
  OBVIOUS
<1>1. saved \in 0..MaxHeight
  BY BehindInit DEF Behind
<1>2. ASSUME NEW c \in Currencies
      PROVE  \E h \in {NilHeight} \cup 0..saved : /\ h \in {NilHeight} \cup OperationHeights
                                                 /\ Loaded(c) = [design |-> h, state |-> h]
  <2> DEFINE heights == {NilHeight} \cup {d.height : d \in {e \in Designs : e.cid = c /\ e.height =< saved}}
             last == CHOOSE h \in heights : \A g \in heights : g =< h
  <2>1. /\ heights \subseteq {NilHeight} \cup 0..saved /\ heights # {}
        /\ heights \subseteq {NilHeight} \cup OperationHeights
    BY <1>1, HeightsAreNat, DesignHeights
  <2>2. heights \in SUBSET Int /\ saved \in Int /\ \A h \in heights : h =< saved
    BY <1>1, <2>1, HeightsAreNat DEF NilHeight
  <2> HIDE DEF heights
  <2>3. last \in heights
    BY <2>1, <2>2, LastOf
  <2>4. Loaded(c) = [design |-> last, state |-> last]
    BY DEF Loaded, heights
  <2> QED
    BY <2>1, <2>3, <2>4
<1>3. pool = [c \in Currencies |-> Loaded(c)] /\ hook = {} /\ setting = {}
  BY DEF ChainInit
<1>4. {NilHeight} \cup 0..saved \subseteq Int
  BY <1>1, HeightsAreNat DEF NilHeight
<1> QED
  BY <1>2, <1>3, <1>4 DEF PoolInv

LEMMA PoolStep == Behind /\ PoolInv /\ [ChainNext]_chainVars => PoolInv'
PROOF
<1> SUFFICES ASSUME Behind, PoolInv, [ChainNext]_chainVars PROVE PoolInv'
  OBVIOUS
<1>1. saved \in 0..MaxHeight /\ MaxHeight \in Nat
      /\ \A d \in Designs : /\ d.cid \in Currencies /\ d.height \in OperationHeights
                            /\ d.height \in 0..MaxHeight
  BY HeightsAreNat, DesignHeights DEF Behind
<1>2. CASE WhenBlockSaved
  <2>1. /\ saved' = saved + 1 /\ setting = {} /\ UNCHANGED <<pool, setting>>
        /\ hook' = {d \in Designs : d.height = saved + 1}
    BY <1>2 DEF WhenBlockSaved
  <2>2. \A h \in {NilHeight} \cup 0..saved : h \in {NilHeight} \cup 0..saved'
    BY <1>1, <2>1
  <2> QED
    BY <2>1, <2>2 DEF PoolInv
<1>3. ASSUME NEW d \in hook, Set(d) PROVE PoolInv'
  <2>1. /\ setting = {} /\ pool' = [pool EXCEPT ![d.cid].design = d.height]
        /\ setting' = {d} /\ hook' = hook \ {d} /\ saved' = saved
    BY <1>3 DEF Set
  <2>2. d \in Designs /\ d.cid \in Currencies /\ d.height = saved /\ saved \in Int
    BY <1>1, <1>3 DEF PoolInv
  <2>3. pool' \in [Currencies -> [design : Int, state : Int]]
    BY <2>1, <2>2 DEF PoolInv
  <2>4. \A c \in Currencies : /\ pool'[c].state = pool[c].state
                              /\ pool'[c].design = IF c = d.cid THEN saved ELSE pool[c].design
    BY <2>1, <2>2 DEF PoolInv
  <2>5. \A h \in {NilHeight} \cup 0..saved : h =< saved /\ saved \in 0..saved
    BY <1>1 DEF NilHeight
  <2>6. ASSUME NEW c \in Currencies
        PROVE  /\ pool'[c].design \in {NilHeight} \cup 0..saved
               /\ pool'[c].state \in {NilHeight} \cup 0..saved
               /\ pool'[c].state \in {NilHeight} \cup OperationHeights
               /\ pool'[c].state =< pool'[c].design
               /\ pool'[c].state = pool'[c].design \/ c = d.cid
    BY <2>1, <2>4, <2>5 DEF PoolInv
  <2> QED
    BY <2>1, <2>2, <2>3, <2>4, <2>6 DEF PoolInv
<1>4. ASSUME NEW d \in setting, SetState(d) PROVE PoolInv'
  <2>1. /\ pool' = [pool EXCEPT ![d.cid].state = d.height]
        /\ setting' = {} /\ hook' = hook /\ saved' = saved
    BY <1>4 DEF SetState
  <2>2. /\ d.cid \in Currencies /\ d.height = saved /\ saved \in Int /\ saved \in OperationHeights
        /\ pool[d.cid].design = saved
    BY <1>1, <1>4 DEF PoolInv
  <2>3. pool' \in [Currencies -> [design : Int, state : Int]]
    BY <2>1, <2>2 DEF PoolInv
  <2>4. \A c \in Currencies : /\ pool'[c].design = pool[c].design
                              /\ pool'[c].state = IF c = d.cid THEN saved ELSE pool[c].state
    BY <2>1, <2>2 DEF PoolInv
  <2>5. saved \in 0..saved
    BY <1>1
  <2>6. ASSUME NEW c \in Currencies
        PROVE  /\ pool'[c].design \in {NilHeight} \cup 0..saved
               /\ pool'[c].state \in {NilHeight} \cup 0..saved
               /\ pool'[c].state \in {NilHeight} \cup OperationHeights
               /\ pool'[c].state =< pool'[c].design
               /\ pool'[c].state = pool'[c].design
    BY <1>4, <2>2, <2>4, <2>5 DEF PoolInv
  <2> QED
    BY <2>1, <2>3, <2>6 DEF PoolInv
<1>5. CASE HookFails
  BY <1>5 DEF HookFails, PoolInv
<1>6. CASE UNCHANGED <<saved, pool, hook, setting>>
  BY <1>6 DEF PoolInv
<1>7. CASE DigestBlocks \/ (\E r \in Readers : ReadAccount(r)) \/ UNCHANGED chainVars
  BY <1>6, <1>7 DEF DigestBlocks, ReadAccount, chain, chainVars
<1>8. CASE \E c \in Clients : Ask(c) \/ Handle(c)
  BY <1>6, <1>8 DEF Ask, Handle, Load, Do, chain
<1>9. CASE \E f \in flights : Fly(f) \/ Throw(f)
  BY <1>6, <1>9 DEF Fly, InGroup, Get, State, StartRead, EndRead, Answer, Throw, FlightDone,
                    FlightGoes, chain
<1>10. CASE \E e \in cache : Expire(e)
  BY <1>6, <1>10 DEF Expire, chain
<1> QED
  BY <1>2, <1>3, <1>4, <1>5, <1>7, <1>8, <1>9, <1>10 DEF ChainNext, Hook

\* No entry of the pool is ever set back.
LEMMA PoolGrows ==
    ASSUME Behind, PoolInv, ChainNext
    PROVE  /\ Known \subseteq Known'
           /\ \A c \in Currencies : pool[c].state =< pool'[c].state
PROOF
<1>1. saved \in 0..MaxHeight /\ MaxHeight \in Nat
      /\ \A d \in Designs : d.cid \in Currencies
  BY HeightsAreNat, ChainAssumption DEF Behind
<1>2. \A c \in Currencies : /\ pool[c].state \in Int /\ pool[c].design \in Int
                            /\ pool[c].state =< saved /\ saved > NilHeight
  BY <1>1 DEF PoolInv, NilHeight
<1>3. ASSUME NEW d \in hook, Set(d)
      PROVE  /\ Known \subseteq Known'
             /\ \A c \in Currencies : pool[c].state =< pool'[c].state
  <2>1. pool' = [pool EXCEPT ![d.cid].design = d.height] /\ d.cid \in Currencies /\ d.height = saved
    BY <1>1, <1>3 DEF Set, PoolInv
  <2>2. \A c \in Currencies : /\ pool'[c].state = pool[c].state
                              /\ pool'[c].design = IF c = d.cid THEN saved ELSE pool[c].design
    BY <2>1 DEF PoolInv
  <2> QED
    BY <1>2, <2>2 DEF Known
<1>4. ASSUME NEW d \in setting, SetState(d)
      PROVE  /\ Known \subseteq Known'
             /\ \A c \in Currencies : pool[c].state =< pool'[c].state
  <2>1. pool' = [pool EXCEPT ![d.cid].state = d.height] /\ d.cid \in Currencies /\ d.height = saved
    BY <1>1, <1>4 DEF SetState, PoolInv
  <2>2. \A c \in Currencies : /\ pool'[c].design = pool[c].design
                              /\ pool'[c].state = IF c = d.cid THEN saved ELSE pool[c].state
    BY <2>1 DEF PoolInv
  <2> QED
    BY <1>2, <2>2 DEF Known
<1>5. CASE pool' = pool
  BY <1>2, <1>5 DEF Known
<1>6. (\E d \in hook : Set(d)) \/ (\E d \in setting : SetState(d)) \/ pool' = pool
  BY DEF ChainNext, WhenBlockSaved, Hook, HookFails, DigestBlocks, ReadAccount, Ask, Handle, Load,
         Do,
         Fly, InGroup, Get, State, StartRead, EndRead, Answer, Throw, Expire, FlightDone,
         FlightGoes, chain
<1> QED
  BY <1>3, <1>4, <1>5, <1>6

(***************************************************************************)
(* The answers                                                             *)
(***************************************************************************)

Links ==
    [kind : {"node", "currencies", "currency", "account", "account operations", "block", "manifest",
             "manifests", "operation"},
     height : Int, cid : Currencies \cup {""}, reverse : BOOLEAN]

AnswerType == [ok : BOOLEAN, shown : SUBSET Int, links : SUBSET Links]

\* A link to what is there, or will be once the digest has the saved blocks.
IsThere(link) ==
    \/ link.kind \in {"block", "manifest"} /\ link.height \in 0..saved
    \/ link.kind = "operation" /\ link.height \in 0..saved /\ link.height \in OperationHeights
    \/ link.kind = "currency" /\ link.cid \in Known
    \/ link.kind \in {"currencies", "account", "account operations"}

\* An answer that cannot change any more.
Lasting(key, answer) ==
    /\ answer.ok
    /\ \/ key.kind \in {"block", "manifest"}
       \/ key.kind = "manifests" /\ Cardinality(answer.shown) = ItemsLimit
    /\ Final([key |-> key, answer |-> answer])

\* What every answer keeps, however long it is on its way or in the cache.
Good(key, answer) ==
    /\ key.kind # "block" => \A link \in answer.links : IsThere(link)
    /\ key.kind = "currency" => \A d \in answer.shown, link \in answer.links : d =< link.height
    /\ key.kind = "operation" =>
         \A link \in answer.links : link.kind = "account" => Created =< saved
    /\ Lasting(key, answer) => answer = Document(key)

LEMMA LinkTypes ==
    /\ \A h \in Int : /\ Block(h) \in Links /\ Block(h).kind = "block" /\ Block(h).height = h
                      /\ Manifest(h) \in Links /\ Manifest(h).kind = "manifest"
                      /\ Manifest(h).height = h
                      /\ Operation(h) \in Links /\ Operation(h).kind = "operation"
                      /\ Operation(h).height = h
    /\ \A c \in Currencies : Currency(c) \in Links /\ Currency(c).kind = "currency" /\ Currency(c).cid = c
    /\ AccountKey \in Links /\ AccountKey.kind = "account"
    /\ AccountOperations \in Links /\ AccountOperations.kind = "account operations"
    /\ Currencies_ \in Links /\ Currencies_.kind = "currencies"
PROOF
<1>1. NilHeight \in Int
  BY DEF NilHeight
<1>2. \A h \in Int : /\ Block(h) \in Links /\ Block(h).kind = "block" /\ Block(h).height = h
                     /\ Manifest(h) \in Links /\ Manifest(h).kind = "manifest"
                     /\ Manifest(h).height = h
                     /\ Operation(h) \in Links /\ Operation(h).kind = "operation"
                     /\ Operation(h).height = h
  BY <1>1 DEF Block, Manifest, Operation, Key, Links
<1>3. \A c \in Currencies : Currency(c) \in Links /\ Currency(c).kind = "currency" /\ Currency(c).cid = c
  BY <1>1 DEF Currency, Key, Links
<1>4. /\ AccountKey \in Links /\ AccountKey.kind = "account"
      /\ AccountOperations \in Links /\ AccountOperations.kind = "account operations"
      /\ Currencies_ \in Links /\ Currencies_.kind = "currencies"
  BY <1>1 DEF AccountKey, AccountOperations, Currencies_, Key, Links
<1> QED
  BY <1>2, <1>3, <1>4

LEMMA URLType ==
    ASSUME NEW key \in URLs
    PROVE  /\ key \in Links
           /\ key.kind \in {"block", "manifest", "operation"} => key.height >= 0
           /\ key.kind = "currency" => key.cid \in Currencies
           /\ key.kind = "account" => key = AccountKey
           /\ key.kind = "account operations" => key = AccountOperations
PROOF
<1>1. /\ key \in Links
      /\ key.kind \in {"block", "manifest", "operation"} => key.height >= 0
      /\ key.kind = "currency" => key.cid # ""
      /\ key.kind = "account" => key = AccountKey
      /\ key.kind = "account operations" => key = AccountOperations
  BY DEF URLs, Links
<1>2. key.cid \in Currencies \cup {""}
  BY <1>1 DEF Links
<1> QED
  BY <1>1, <1>2

\* The links that there are.
LEMMA LinksThatAre ==
    /\ \A h : h \in 0..saved /\ h \in Int => IsThere(Block(h)) /\ IsThere(Manifest(h))
    /\ \A c \in Known : IsThere(Currency(c))
    /\ IsThere(AccountKey) /\ IsThere(AccountOperations) /\ IsThere(Currencies_)
PROOF
<1>1. ASSUME NEW h \in Int, h \in 0..saved PROVE IsThere(Block(h)) /\ IsThere(Manifest(h))
  <2>1. /\ Block(h).kind = "block" /\ Block(h).height \in 0..saved
        /\ Manifest(h).kind = "manifest" /\ Manifest(h).height \in 0..saved
    BY <1>1, LinkTypes
  <2>2. IsThere(Block(h))
    BY <2>1 DEF IsThere
  <2>3. IsThere(Manifest(h))
    BY <2>1 DEF IsThere
  <2> QED
    BY <2>2, <2>3
<1>2. ASSUME NEW c \in Known PROVE IsThere(Currency(c))
  <2>1. Currency(c).kind = "currency" /\ Currency(c).cid = c
    BY LinkTypes DEF Known
  <2> QED
    BY <2>1 DEF IsThere
<1>3. IsThere(AccountKey) /\ IsThere(AccountOperations) /\ IsThere(Currencies_)
  BY LinkTypes DEF IsThere
<1> QED
  BY <1>1, <1>2, <1>3

\* The links of an operation that the digest has.
LEMMA OperationLinksAre ==
    ASSUME Behind, NEW h \in Int, Digested(h), h >= 0
    PROVE  /\ OperationLinks(h) \in SUBSET Links
           /\ \A link \in OperationLinks(h) :
                /\ IsThere(link)
                /\ link.kind = "account" => Created =< saved
PROOF
<1>1. h \in 0..saved
  <2>1. saved \in Int
    BY HeightsAreNat DEF Behind
  <2> QED
    BY <2>1 DEF Behind, Digested
<1>2. /\ OperationLinks(h) \subseteq {Block(h), Manifest(h), AccountKey}
      /\ AccountKey \in OperationLinks(h) => h = Created
  <2>1. AccountKey # Block(h) /\ AccountKey # Manifest(h)
    BY LinkTypes
  <2> QED
    BY <2>1 DEF OperationLinks
<1>3. {Block(h), Manifest(h), AccountKey} \subseteq Links
  BY LinkTypes
<1>4. IsThere(Block(h)) /\ IsThere(Manifest(h)) /\ IsThere(AccountKey)
  BY <1>1, LinksThatAre
<1>5. ASSUME NEW link \in OperationLinks(h), link.kind = "account" PROVE Created =< saved
  <2>1. link = AccountKey
    BY <1>2, <1>5, LinkTypes
  <2> QED
    BY <1>1, <1>2, <2>1
<1> QED
  BY <1>2, <1>3, <1>4, <1>5

\* There is a page of the operations of an account as soon as the digest has
\* one of them.
LEMMA OperationsPage ==
    LET found == {h \in Addressed : Digested(h)}
        page == {h \in found : Cardinality({g \in found : g < h}) < ItemsLimit}
    IN  found # {} => page # {}
PROOF
<1> DEFINE found == {h \in Addressed : Digested(h)}
           page == {h \in found : Cardinality({g \in found : g < h}) < ItemsLimit}
<1> SUFFICES ASSUME found # {} PROVE page # {}
  OBVIOUS
<1>1. found \subseteq Nat
  BY AccountHeights
<1>2. IsWellFoundedOn(OpToRel(<, Nat), Nat)
  BY NatLessThanWellFounded
<1>3. PICK h \in found : \A g \in found : ~(<<g, h>> \in OpToRel(<, Nat))
  BY <1>1, <1>2, WFMin
<1>4. {g \in found : g < h} = {}
  BY <1>1, <1>3 DEF OpToRel
<1>5. Cardinality({g \in found : g < h}) = 0 /\ 0 < ItemsLimit
  BY <1>4, FS_EmptySet, ChainAssumption
<1> QED
  BY <1>3, <1>5

LEMMA OperationsAreFound ==
    (\E h \in Addressed : Digested(h)) => AccountOperationsDocument.ok
PROOF
  BY OperationsPage DEF AccountOperationsDocument, OKWith

LEMMA NotFoundIsGood == NotFound \in AnswerType /\ \A key : Good(key, NotFound)
PROOF
  BY DEF NotFound, AnswerType, Good, Lasting

\* An answer of some heights and links.
LEMMA OKWithIsAnswer ==
    ASSUME NEW s \in SUBSET Int, NEW l \in SUBSET Links
    PROVE  /\ OKWith(s, l) \in AnswerType /\ OKWith(s, l).ok
           /\ OKWith(s, l).shown = s /\ OKWith(s, l).links = l
PROOF
  BY DEF OKWith, AnswerType

LEMMA PageIsSaved == ASSUME Behind, NEW key PROVE ManifestsPage(key) \subseteq 0..saved
PROOF
<1>1. saved \in Int
  BY HeightsAreNat DEF Behind
<1> QED
  BY <1>1 DEF ManifestsPage, PreGenesisHeight

\* The handlers that read once.
LEMMA DocumentIsGood ==
    ASSUME IInv, Behind, NEW key \in URLs, key.kind \notin {"currency", "account"}
    PROVE  Document(key) \in AnswerType /\ Good(key, Document(key))
PROOF
<1>0. /\ saved \in 0..MaxHeight /\ MaxHeight \in Nat /\ saved \in Int /\ key.height \in Int
      /\ key.kind \in {"block", "manifest", "operation"} => key.height >= 0
  <2>1. key.height \in Int
    BY URLType DEF Links
  <2>2. saved \in 0..MaxHeight /\ MaxHeight \in Nat /\ saved \in Int
    BY HeightsAreNat DEF Behind
  <2>3. key.kind \in {"block", "manifest", "operation"} => key.height >= 0
    BY URLType
  <2> QED
    BY <2>1, <2>2, <2>3
<1> SUFFICES /\ Document(key) \in AnswerType
             /\ key.kind # "block" => \A link \in Document(key).links : IsThere(link)
             /\ key.kind = "operation" =>
                  \A link \in Document(key).links : link.kind = "account" => Created =< saved
  BY DEF Good
<1>1. CASE key.kind = "block"
  <2>1. {Manifest(key.height)} \in SUBSET Links
    BY <1>0, LinkTypes
  <2>2. Document(key) = OKWith({}, {Manifest(key.height)})
    BY <1>1 DEF Document, BlockDocument
  <2> QED
    BY <1>1, <2>1, <2>2, OKWithIsAnswer
<1>2. CASE key.kind = "manifest"
  <2>1. {Block(key.height)} \in SUBSET Links /\ {key.height} \in SUBSET Int
    <3>1. Block(key.height) \in Links
      BY <1>0, LinkTypes
    <3> QED
      BY <1>0, <3>1
  <2>2. Document(key) = IF key.height =< saved THEN OKWith({key.height}, {Block(key.height)}) ELSE NotFound
    BY <1>2 DEF Document, ManifestDocument, ManifestLinks
  <2>3. key.height =< saved => IsThere(Block(key.height))
    BY <1>0, <1>2, LinksThatAre
  <2>4. NotFound \in AnswerType /\ NotFound.links = {}
    BY NotFoundIsGood DEF NotFound
  <2> QED
    BY <1>2, <2>1, <2>2, <2>3, <2>4, OKWithIsAnswer
<1>3. CASE key.kind = "manifests"
  <2> DEFINE page == ManifestsPage(key)
             links == UNION {ManifestLinks(h) : h \in page}
  <2>1. page \subseteq 0..saved
    BY PageIsSaved
  <2>2. page \in SUBSET Int
    BY <1>0, <2>1
  <2> HIDE DEF page
  <2>3. \A link \in links : \E h \in page : link = Block(h)
    BY DEF ManifestLinks
  <2> HIDE DEF links
  <2>4. links \in SUBSET Links
    <3>1. \A h \in Int : Block(h) \in Links
      BY LinkTypes
    <3> QED
      BY <2>2, <2>3, <3>1
  <2>5. \A link \in links : IsThere(link)
    BY <2>1, <2>2, <2>3, LinksThatAre
  <2>6. Document(key) = IF page = {} THEN NotFound ELSE OKWith(page, links)
    BY <1>3 DEF Document, ManifestsDocument, page, links
  <2>7. NotFound \in AnswerType /\ NotFound.links = {}
    BY NotFoundIsGood DEF NotFound
  <2>8. OKWith(page, links) \in AnswerType /\ OKWith(page, links).links = links
    BY <2>2, <2>4, OKWithIsAnswer
  <2> DEFINE document == Document(key)
  <2>9. document \in AnswerType /\ \A link \in document.links : IsThere(link)
    <3>1. CASE page = {}
      BY <3>1, <2>6, <2>7
    <3>2. CASE page # {}
      <4>1. document = OKWith(page, links)
        BY <3>2, <2>6
      <4> QED
        BY <4>1, <2>8, <2>5
    <3> QED
      BY <3>1, <3>2
  <2> QED
    BY <1>3, <2>9
<1>4. CASE key.kind = "operation"
  <2>1. {key.height} \in SUBSET Int
    BY <1>0
  <2>2. Document(key) = IF Digested(key.height) THEN OKWith({key.height}, OperationLinks(key.height))
                        ELSE NotFound
    BY <1>4 DEF Document, OperationDocument
  <2>3. Digested(key.height) =>
          /\ OperationLinks(key.height) \in SUBSET Links
          /\ \A link \in OperationLinks(key.height) :
               IsThere(link) /\ (link.kind = "account" => Created =< saved)
    BY <1>0, <1>4, OperationLinksAre
  <2>4. NotFound \in AnswerType /\ NotFound.links = {}
    BY NotFoundIsGood DEF NotFound
  <2> QED
    BY <2>1, <2>2, <2>3, <2>4, OKWithIsAnswer
<1>5. CASE key.kind = "node"
  <2> DEFINE links == {Block(saved), Manifest(saved), Currencies_}
  <2>1. links \in SUBSET Links /\ {saved} \in SUBSET Int
    <3>1. Block(saved) \in Links /\ Manifest(saved) \in Links
      BY <1>0, LinkTypes
    <3>2. Currencies_ \in Links
      BY LinkTypes
    <3> QED
      BY <1>0, <3>1, <3>2
  <2>2. Document(key) = OKWith({saved}, links)
    BY <1>5 DEF Document, NodeInfoDocument
  <2>3. \A link \in links : IsThere(link)
    BY <1>0, LinksThatAre
  <2> HIDE DEF links
  <2> QED
    BY <1>5, <2>1, <2>2, <2>3, OKWithIsAnswer
<1>6. CASE key.kind = "currencies"
  <2> DEFINE links == {Currency(c) : c \in Known}
  <2>1. links \in SUBSET Links /\ {} \in SUBSET Int
    <3>1. \A c \in Currencies : Currency(c) \in Links
      BY LinkTypes
    <3> QED
      BY <3>1 DEF Known
  <2>2. Document(key) = OKWith({}, links)
    BY <1>6 DEF Document, CurrenciesDocument
  <2>3. \A link \in links : IsThere(link)
    BY LinksThatAre
  <2> HIDE DEF links
  <2> QED
    BY <1>6, <2>1, <2>2, <2>3, OKWithIsAnswer
<1>7. CASE key.kind = "account operations"
  <2> DEFINE found == {h \in Addressed : Digested(h)}
             page == {h \in found : Cardinality({g \in found : g < h}) < ItemsLimit}
             links == {AccountKey} \cup UNION {OperationLinks(h) : h \in page}
  <2>1. Document(key) = IF page = {} THEN NotFound ELSE OKWith(page, links)
    BY <1>7 DEF Document, AccountOperationsDocument
  <2>2. \A h \in page : h \in Addressed /\ Digested(h)
    OBVIOUS
  <2> HIDE DEF page
  <2>3. \A h \in page : h \in Int /\ h >= 0 /\ Digested(h)
    <3>1. OperationHeights \subseteq Nat /\ Addressed \subseteq OperationHeights
      BY AccountHeights
    <3>2. \A h \in Nat : h \in Int /\ h >= 0
      OBVIOUS
    <3> QED
      BY <2>2, <3>1, <3>2
  <2>4. \A link \in links : link = AccountKey \/ \E h \in page : link \in OperationLinks(h)
    OBVIOUS
  <2> HIDE DEF links
  <2>5. links \in SUBSET Links /\ \A link \in links : IsThere(link)
    BY <2>3, <2>4, OperationLinksAre, LinksThatAre, LinkTypes
  <2>6. NotFound \in AnswerType /\ NotFound.links = {} /\ page \in SUBSET Int
    BY <2>3, NotFoundIsGood DEF NotFound
  <2> QED
    <3>1. Document(key) \in AnswerType
      BY <2>1, <2>5, <2>6, OKWithIsAnswer
    <3>2. \A link \in Document(key).links : IsThere(link)
      BY <2>1, <2>5, <2>6, OKWithIsAnswer
    <3> QED
      BY <1>7, <3>1, <3>2
<1> QED
  BY <1>1, <1>2, <1>3, <1>4, <1>5, <1>6, <1>7 DEF URLs

\* What a currency's design and state, read apart, are made into.
LEMMA CurrencyIsGood ==
    ASSUME NEW key, key.kind = "currency", saved \in Int,
           NEW design \in Int, NEW state \in 0..saved, state \in OperationHeights, design =< state
    PROVE  /\ CurrencyDocument(design, state) \in AnswerType
           /\ CurrencyDocument(design, state).ok
           /\ Good(key, CurrencyDocument(design, state))
PROOF
<1> DEFINE answer == CurrencyDocument(design, state)
           links == {Block(state), Operation(state)}
<1>1. /\ links \in SUBSET Links /\ {design} \in SUBSET Int
      /\ Block(state).kind = "block" /\ Operation(state).kind = "operation"
      /\ \A link \in links : link.height = state
  <2>0. state \in Int
    OBVIOUS
  <2>1. /\ Block(state) \in Links /\ Block(state).kind = "block" /\ Block(state).height = state
        /\ Operation(state) \in Links /\ Operation(state).kind = "operation"
        /\ Operation(state).height = state
    BY <2>0, LinkTypes
  <2> QED
    BY <2>1
<1>2. answer \in AnswerType /\ answer.ok /\ answer.shown = {design} /\ answer.links = links
  BY <1>1, OKWithIsAnswer DEF CurrencyDocument
<1>3. \A link \in links : IsThere(link)
  BY <1>1 DEF IsThere
<1>4. ~Lasting(key, answer)
  BY DEF Lasting
<1> HIDE DEF answer, links
<1> QED
  BY <1>1, <1>2, <1>3, <1>4 DEF Good, answer

\* What a read is made into, and when it is found.
LEMMA AccountIsGood ==
    ASSUME NEW key, key.kind = "account", saved \in Int, saved >= 0, NEW rd \in ReadType,
           \A c \in Currencies : rd.amounts[c] \in {NilHeight} \cup 0..saved
    PROVE  /\ AccountDocument(rd) \in AnswerType
           /\ Good(key, AccountDocument(rd))
           /\ rd.pc = "found" /\ (\E c \in Currencies : rd.amounts[c] # NilHeight)
                => AccountDocument(rd).ok
PROOF
<1> DEFINE heights == {rd.amounts[c] : c \in Currencies}
           last == CHOOSE h \in heights : \A g \in heights : g =< h
           answer == AccountDocument(rd)
<1>1. heights \subseteq {NilHeight} \cup 0..saved /\ heights # {}
  BY ChainAssumption
<1>2. heights \in SUBSET Int /\ \A h \in heights : h =< saved
  BY <1>1 DEF NilHeight
<1>3. (\E c \in Currencies : rd.amounts[c] # NilHeight) => \E h \in heights : h # NilHeight
  OBVIOUS
<1> HIDE DEF heights
<1>4. last \in heights /\ \A g \in heights : g =< last
  BY <1>1, <1>2, LastOf
<1>5. answer = IF rd.pc = "not found" \/ last = NilHeight THEN NotFound
               ELSE OKWith({last}, {Block(last), AccountOperations})
  BY DEF AccountDocument, heights
<1> HIDE DEF last
<1>6. last \in {NilHeight} \cup 0..saved /\ last \in Int
  BY <1>1, <1>2, <1>4
<1>7. (\E h \in heights : h # NilHeight) => last # NilHeight
  BY <1>1, <1>4, <1>6 DEF NilHeight
<1>8. ~Lasting(key, answer)
  BY DEF Lasting
<1> HIDE DEF answer
<1>9. CASE rd.pc = "not found" \/ last = NilHeight
  BY <1>3, <1>5, <1>7, <1>9, NotFoundIsGood DEF answer
<1>10. CASE rd.pc # "not found" /\ last # NilHeight
  <2> DEFINE links == {Block(last), AccountOperations}
  <2>1. /\ links \in SUBSET Links /\ {last} \in SUBSET Int
        /\ Block(last).kind = "block" /\ Block(last).height = last
    BY <1>6, LinkTypes
  <2>2. answer \in AnswerType /\ answer.ok /\ answer.links = links
    BY <1>5, <1>10, <2>1, OKWithIsAnswer
  <2>3. \A link \in links : IsThere(link)
    <3>1. IsThere(Block(last))
      BY <1>6, <1>10, <2>1 DEF IsThere
    <3> QED
      BY <3>1, LinksThatAre
  <2> HIDE DEF links
  <2>4. Good(key, answer)
    BY <1>8, <2>2, <2>3 DEF Good
  <2> QED
    BY <2>2, <2>4 DEF answer
<1> QED
  BY <1>9, <1>10

(***************************************************************************)
(* The list of manifests while blocks are saved                            *)
(***************************************************************************)

Found(key, m) ==
    {h \in PreGenesisHeight..m :
        key.height > NilHeight => IF key.reverse THEN h < key.height ELSE h > key.height}

Ahead(key, m, h) == {g \in Found(key, m) : IF key.reverse THEN g > h ELSE g < h}

\* The page when the last block is that of height m.
PageAt(key, m) ==
    {h \in Found(key, m) : Cardinality(Ahead(key, m, h)) < ItemsLimit} \ {PreGenesisHeight}

LEMMA PageOfSaved ==
    ASSUME NEW key
    PROVE  ManifestsPage(key) = PageAt(key, saved) /\ ManifestsPage(key)' = PageAt(key, saved')
PROOF
  BY DEF ManifestsPage, PageAt, Found, Ahead

\* One block more.
LEMMA FoundNext ==
    ASSUME NEW key \in URLs, NEW m \in Nat
    PROVE  /\ Found(key, m) \subseteq PreGenesisHeight..m
           /\ Found(key, m + 1) \ {m + 1} = Found(key, m)
           /\ \A h \in Found(key, m) : ~key.reverse => Ahead(key, m + 1, h) = Ahead(key, m, h)
           /\ ~key.reverse => Ahead(key, m + 1, m + 1) = Found(key, m)
           /\ key.reverse => Ahead(key, m + 1, m + 1) = {}
           /\ m + 1 \notin Found(key, m + 1) =>
                Found(key, m + 1) = Found(key, m) /\ \A h : Ahead(key, m + 1, h) = Ahead(key, m, h)
PROOF
<1>1. Found(key, m) \subseteq PreGenesisHeight..m /\ m + 1 \notin Found(key, m)
  BY DEF Found, PreGenesisHeight
<1>2. \A h : h \in PreGenesisHeight..(m + 1) <=> h \in PreGenesisHeight..m \/ h = m + 1
  BY DEF PreGenesisHeight
<1>3. \A h : h \in Found(key, m + 1) /\ h # m + 1 <=> h \in Found(key, m)
  BY <1>1, <1>2 DEF Found
<1>4. \A g \in Found(key, m) : g \in Int /\ g < m + 1 /\ ~(g > m + 1)
  BY <1>1 DEF PreGenesisHeight
<1>5. ASSUME NEW h \in Found(key, m), ~key.reverse
      PROVE  Ahead(key, m + 1, h) = Ahead(key, m, h)
  <2>1. ~(m + 1 < h)
    BY <1>4
  <2> QED
    BY <1>3, <1>5, <2>1 DEF Ahead
<1>6. ~key.reverse => Ahead(key, m + 1, m + 1) = Found(key, m)
  <2>1. ~(m + 1 < m + 1)
    OBVIOUS
  <2> QED
    BY <1>3, <1>4, <2>1 DEF Ahead
<1>7. key.reverse => Ahead(key, m + 1, m + 1) = {}
  <2>1. ~(m + 1 > m + 1)
    OBVIOUS
  <2> QED
    BY <1>3, <1>4, <2>1 DEF Ahead
<1>8. ASSUME m + 1 \notin Found(key, m + 1)
      PROVE  Found(key, m + 1) = Found(key, m) /\ \A h : Ahead(key, m + 1, h) = Ahead(key, m, h)
  <2>1. Found(key, m + 1) = Found(key, m)
    BY <1>3, <1>8
  <2> QED
    BY <2>1 DEF Ahead
<1> QED
  BY <1>1, <1>3, <1>5, <1>6, <1>7, <1>8

\* A page that has its full length and begins where it was asked to does not
\* change.
LEMMA FullPageStays ==
    ASSUME NEW key \in URLs, NEW m \in Nat, Cardinality(PageAt(key, m)) = ItemsLimit,
           key.reverse => key.height - 1 \in PageAt(key, m)
    PROVE  PageAt(key, m + 1) = PageAt(key, m)
PROOF
<1>0. key.height \in Int /\ ItemsLimit \in Nat
  BY URLType, ChainAssumption DEF Links
<1>1. PageAt(key, m) \subseteq Found(key, m) /\ Found(key, m) \subseteq PreGenesisHeight..m
  BY FoundNext DEF PageAt
<1>2. CASE key.reverse
  <2>1. key.height - 1 =< m /\ key.height - 1 >= 0
    BY <1>0, <1>1, <1>2 DEF PageAt, PreGenesisHeight
  <2>2. m + 1 \notin Found(key, m + 1)
    BY <1>0, <1>2, <2>1 DEF Found, NilHeight
  <2> QED
    BY <2>2, FoundNext DEF PageAt
<1>3. CASE ~key.reverse
  <2>1. IsFiniteSet(Found(key, m))
    <3>1. IsFiniteSet(PreGenesisHeight..m)
      BY FS_Interval DEF PreGenesisHeight
    <3> QED
      BY <1>1, <3>1, FS_Subset
  <2>2. Cardinality(PageAt(key, m)) =< Cardinality(Found(key, m))
    BY <1>1, <2>1, FS_Subset
  <2>3. Cardinality(Found(key, m)) \in Nat
    BY <2>1, FS_CardinalityType
  <2>4. ~(Cardinality(Ahead(key, m + 1, m + 1)) < ItemsLimit)
    BY <1>0, <1>3, <2>2, <2>3, FoundNext
  <2>5. \A h : h \in Found(key, m + 1) <=> h \in Found(key, m) \/ (h = m + 1 /\ h \in Found(key, m + 1))
    BY FoundNext
  <2>6. \A h \in Found(key, m) : Ahead(key, m + 1, h) = Ahead(key, m, h)
    BY <1>3, FoundNext
  <2> QED
    BY <2>4, <2>5, <2>6 DEF PageAt
<1> QED
  BY <1>2, <1>3

\* A page with something on it goes on having something.
LEMMA PageStays ==
    ASSUME NEW key \in URLs, NEW m \in Nat, PageAt(key, m) # {}
    PROVE  PageAt(key, m + 1) # {}
PROOF
<1>0. ItemsLimit \in Nat \ {0} /\ m + 1 # PreGenesisHeight
  BY ChainAssumption DEF PreGenesisHeight
<1>1. CASE m + 1 \notin Found(key, m + 1)
  <2>1. PageAt(key, m + 1) = PageAt(key, m)
    BY <1>1, FoundNext DEF PageAt
  <2> QED
    BY <2>1
<1>2. CASE m + 1 \in Found(key, m + 1) /\ key.reverse
  <2>1. Cardinality(Ahead(key, m + 1, m + 1)) = 0
    BY <1>2, FoundNext, FS_EmptySet
  <2>2. m + 1 \in PageAt(key, m + 1)
    BY <1>0, <1>2, <2>1 DEF PageAt
  <2> QED
    BY <2>2
<1>3. CASE ~key.reverse
  <2>1. PICK h \in PageAt(key, m) : TRUE
    OBVIOUS
  <2>2. h \in Found(key, m) /\ h \in Found(key, m + 1)
    BY <2>1, FoundNext DEF PageAt
  <2>3. Ahead(key, m + 1, h) = Ahead(key, m, h)
    BY <1>3, <2>2, FoundNext
  <2>4. h \in PageAt(key, m + 1)
    BY <2>1, <2>2, <2>3 DEF PageAt
  <2> QED
    BY <2>4
<1> QED
  BY <1>1, <1>2, <1>3

(***************************************************************************)
(* An answer goes on being good                                            *)
(***************************************************************************)

LEMMA DocumentStays ==
    ASSUME Behind, NEW key \in URLs, saved' \in {saved, saved + 1}, key.kind \in {"block",
           "manifest", "manifests"}
    PROVE  /\ Lasting(key, Document(key)) => Document(key)' = Document(key)
           /\ Document(key).ok => Document(key)'.ok
PROOF
<1>0. saved \in Nat /\ key.height \in Int
  <2>1. saved \in Nat
    BY HeightsAreNat DEF Behind
  <2> QED
    BY <2>1, URLType DEF Links
<1>1. CASE key.kind = "block"
  BY <1>1 DEF Document, BlockDocument
<1>2. CASE key.kind = "manifest"
  <2>1. Document(key) = ManifestDocument(key.height) /\ Document(key)' = ManifestDocument(key.height)'
    BY <1>2 DEF Document
  <2>2. Document(key).ok => key.height =< saved /\ key.height =< saved'
    BY <1>0, <2>1 DEF ManifestDocument, NotFound
  <2>3. Document(key).ok => Document(key)' = Document(key)
    BY <2>1, <2>2 DEF ManifestDocument
  <2> QED
    BY <2>3 DEF Lasting
<1>3. CASE key.kind = "manifests"
  <2> DEFINE page == PageAt(key, saved)
             links(p) == UNION {ManifestLinks(h) : h \in p}
  <2>1. /\ Document(key) = IF page = {} THEN NotFound ELSE OKWith(page, links(page))
        /\ Document(key)' = IF PageAt(key, saved') = {} THEN NotFound
                            ELSE OKWith(PageAt(key, saved'), links(PageAt(key, saved')))
    BY <1>3, PageOfSaved DEF Document, ManifestsDocument
  <2>2. Document(key).ok => page # {}
    BY <2>1 DEF NotFound
  <2>3. page # {} => Document(key).shown = page
    BY <2>1 DEF OKWith
  <2>4. page # {} => PageAt(key, saved') # {}
    BY <1>0, PageStays
  <2>5. ASSUME Lasting(key, Document(key)) PROVE Document(key)' = Document(key)
    <3>1. Document(key).shown = page
      BY <2>2, <2>3, <2>5 DEF Lasting
    <3>2. Cardinality(page) = ItemsLimit /\ (key.reverse => key.height - 1 \in page)
      BY <1>3, <2>5, <3>1 DEF Lasting, Final
    <3>3. PageAt(key, saved') = page
      BY <1>0, <3>2, FullPageStays
    <3> QED
      BY <2>1, <3>3
  <2>6. Document(key).ok => Document(key)'.ok
    BY <2>1, <2>2, <2>4 DEF OKWith
  <2> QED
    BY <2>5, <2>6
<1> QED
  BY <1>1, <1>2, <1>3

\* Neither a new block nor the hook nor the digester makes an answer wrong.
LEMMA GoodStays ==
    ASSUME Behind, PoolInv, ChainNext, NEW key \in URLs, NEW answer \in AnswerType, Good(key,
           answer)
    PROVE  Good(key, answer)'
PROOF
<1>1. saved \in Nat /\ saved' \in {saved, saved + 1} /\ Known \subseteq Known'
  BY SavedGrows, PoolGrows, HeightsAreNat DEF Behind
<1>2. /\ \A link : IsThere(link) => IsThere(link)'
      /\ Created =< saved => Created =< saved'
  <2>1. \A link : IsThere(link) => IsThere(link)'
    <3>1. \A h : h \in 0..saved => h \in 0..saved'
      BY <1>1
    <3> QED
      BY <1>1, <3>1 DEF IsThere
  <2>2. Created =< saved => Created =< saved'
    BY <1>1, AccountHeights
  <2> QED
    BY <2>1, <2>2
<1>3. ASSUME Lasting(key, answer) PROVE answer = Document(key)'
  <2>1. answer = Document(key) /\ key.kind \in {"block", "manifest", "manifests"}
    BY <1>3 DEF Good, Lasting
  <2> QED
    BY <1>1, <1>3, <2>1, DocumentStays
<1>4. Lasting(key, answer)' <=> Lasting(key, answer)
  BY DEF Lasting, Final
<1> QED
  BY <1>2, <1>3, <1>4 DEF Good

(***************************************************************************)
(* The flights, the cache and the clients                                  *)
(***************************************************************************)

FlightType ==
    [key : URLs, pc : {"new", "state", "reading", "done"}, design : Int, answer : AnswerType]

EntryType == [key : URLs, answer : AnswerType, long : BOOLEAN]

WalkType ==
    [pc : {"idle", "load", "do", "flying", "answered"}, key : URLs \cup {Key("")},
     there : BOOLEAN, answer : AnswerType]

\* Between Get and State the pool's state of the currency is at least as new
\* as the design; while an account is read the reader is busy.
FlightOK(f) ==
    /\ f.pc = "state" => /\ f.key.kind = "currency"
                         /\ f.design \in 0..saved
                         /\ f.design =< pool[f.key.cid].state
    /\ f.pc = "reading" => f.key.kind = "account" /\ \A r \in Readers : reads[r].pc # "idle"
    /\ f.pc = "done" => Good(f.key, f.answer)

FlightsInv ==
    /\ flights \subseteq FlightType
    /\ \A f, g \in flights : f.key = g.key => f = g
    /\ \A f \in flights : FlightOK(f)

EntriesInv ==
    /\ cache \subseteq EntryType
    /\ \A e, o \in cache : e.key = o.key => e = o
    /\ \A e \in cache : /\ e.answer.ok
                        /\ Good(e.key, e.answer)
                        /\ e.long = KeptLong(e.key, e.answer)

WalksInv ==
    /\ walks \in [Clients -> WalkType]
    /\ \A c \in Clients :
         /\ walks[c].pc # "idle" => walks[c].key \in URLs
         /\ walks[c].pc = "flying" => FlightsOf(walks[c].key) # {}
         /\ walks[c].pc = "answered" => Good(walks[c].key, walks[c].answer)
    /\ \A f \in flights : Flying(f.key) # {}

\* All that the steps of the API rely on.
AInv == IInv /\ Behind /\ PoolInv /\ FlightsInv /\ EntriesInv /\ WalksInv

LEMMA ApiInit == ChainInit => AInv
PROOF
<1> SUFFICES ASSUME ChainInit PROVE AInv
  OBVIOUS
<1>1. IInv
  BY Initial DEF ChainInit
<1>2. Idle \in WalkType /\ Idle.pc = "idle"
  BY NotFoundIsGood DEF Idle, WalkType
<1>3. cache = {} /\ flights = {} /\ walks = [c \in Clients |-> Idle]
  BY DEF ChainInit
<1> QED
  BY <1>1, <1>2, <1>3, BehindInit, PoolInit DEF AInv, FlightsInv, EntriesInv, WalksInv

\* The read of a flight goes on as it began.
LEMMA ReadGoesOn ==
    ASSUME AInv, ChainNext, NEW f \in flights, f \in flights', f.pc = "reading", NEW r \in Readers
    PROVE  /\ reads[r].pc # "idle"
           /\ reads'[r].pc # "idle" /\ reads'[r].began = reads[r].began
PROOF
<1>1. reads \in [Readers -> ReadType] /\ f.key \in URLs /\ Readers = {r}
  BY ChainAssumption DEF AInv, IInv, FlightsInv, FlightType
<1>2. f.key.kind = "account" /\ reads[r].pc # "idle"
  BY DEF AInv, FlightsInv, FlightOK
<1>3. ASSUME ReadAccount(r) PROVE reads'[r].pc # "idle" /\ reads'[r].began = reads[r].began
  <2>1. /\ [reads[r] EXCEPT !.pc = "not found"].pc = "not found"
        /\ [reads[r] EXCEPT !.pc = "not found"].began = reads[r].began
        /\ [reads[r] EXCEPT !.pc = "found"].pc = "found"
        /\ [reads[r] EXCEPT !.pc = "found"].began = reads[r].began
    BY <1>1 DEF ReadType
  <2>2. CASE Account(r)
    <3>1. \/ reads' = [reads EXCEPT ![r] = [reads[r] EXCEPT !.pc = "not found"]]
          \/ \E d \in stored : reads' =
               [reads EXCEPT ![r] = Read("balance", d.height, reads[r].amounts, reads[r].began)]
      BY <1>1, <2>2 DEF Account, AnyNewest, Of
    <3>2. \E rd : /\ reads' = [reads EXCEPT ![r] = rd]
                  /\ rd.pc # "idle" /\ rd.began = reads[r].began
      BY <2>1, <3>1 DEF Read
    <3> QED
      BY <1>1, <3>2
  <2>3. CASE Balance(r)
    <3>1. \/ reads' = [reads EXCEPT ![r] = [reads[r] EXCEPT !.pc = "found"]]
          \/ \E d \in stored : reads' =
               [reads EXCEPT ![r] = Read("balance", reads[r].keys,
                  [reads[r].amounts EXCEPT ![d.currency] = d.height], reads[r].began)]
      BY <1>1, <2>3 DEF Balance, AnyNewest, Of, Unseen
    <3>2. \E rd : /\ reads' = [reads EXCEPT ![r] = rd]
                  /\ rd.pc # "idle" /\ rd.began = reads[r].began
      BY <2>1, <3>1 DEF Read
    <3> QED
      BY <1>1, <3>2
  <2> QED
    BY <1>3, <2>2, <2>3 DEF ReadAccount, Query
<1>4. ASSUME NEW g \in flights, StartRead(g, r) PROVE FALSE
  BY <1>2, <1>4 DEF StartRead, Request
<1>5. ASSUME NEW g \in flights, EndRead(g, r) PROVE FALSE
  <2>1. g.pc = "reading" /\ FlightOK(g) /\ g \in FlightType
    BY <1>5 DEF EndRead, AInv, FlightsInv
  <2>2. g.key = AccountKey /\ f.key = AccountKey
    BY <1>1, <1>2, <2>1, URLType DEF FlightOK, FlightType
  <2>3. g = f
    BY <2>2 DEF AInv, FlightsInv
  <2>4. f \in (flights \ {g}) \cup {[g EXCEPT !.pc = "done", !.answer = AccountDocument(reads[r])]}
    BY <1>5 DEF EndRead, FlightDone, FlightGoes
  <2>5. [g EXCEPT !.pc = "done", !.answer = AccountDocument(reads[r])].pc = "done"
    BY <2>1 DEF FlightType
  <2> QED
    BY <2>3, <2>4, <2>5
<1>6. \/ reads' = reads
      \/ \E s \in Readers : ReadAccount(s)
      \/ \E g \in flights, s \in Readers : StartRead(g, s) \/ EndRead(g, s)
  BY DEF ChainNext, WhenBlockSaved, Hook, Set, SetState, HookFails, DigestBlocks, Digesting, Ask,
         Handle, Load, Do, Fly, InGroup, Get, State, Answer, Throw, Expire, vars
<1> QED
  BY <1>1, <1>2, <1>3, <1>4, <1>5, <1>6

\* A flight that is under way is not disturbed.
LEMMA FlightStays ==
    ASSUME AInv, ChainNext, NEW f \in flights, f \in flights'
    PROVE  FlightOK(f)'
PROOF
<1>1. f \in FlightType /\ FlightOK(f) /\ Behind /\ PoolInv
  BY DEF AInv, FlightsInv
<1>2. f.key \in URLs /\ f.answer \in AnswerType /\ f.design \in Int
  BY <1>1 DEF FlightType
<1>3. saved \in Nat /\ saved' \in {saved, saved + 1}
  BY <1>1, SavedGrows, HeightsAreNat DEF Behind
<1>4. ASSUME f.pc = "state"
      PROVE  f.key.kind = "currency" /\ f.design \in 0..saved' /\ f.design =< pool'[f.key.cid].state
  <2>1. f.key.kind = "currency" /\ f.design \in 0..saved /\ f.design =< pool[f.key.cid].state
    BY <1>1, <1>4 DEF FlightOK
  <2>2. f.key.cid \in Currencies
    BY <1>2, <2>1, URLType
  <2>3. pool[f.key.cid].state =< pool'[f.key.cid].state /\ pool[f.key.cid].state \in Int
    BY <1>1, <2>2, PoolGrows DEF PoolInv
  <2>4. pool'[f.key.cid].state \in Int
    BY <1>1, <2>2, PoolStep DEF PoolInv
  <2> QED
    BY <1>2, <1>3, <2>1, <2>3, <2>4
<1>5. ASSUME f.pc = "reading"
      PROVE  f.key.kind = "account" /\ \A r \in Readers : reads'[r].pc # "idle"
  BY <1>1, <1>5, ReadGoesOn DEF FlightOK
<1>6. ASSUME f.pc = "done" PROVE Good(f.key, f.answer)'
  BY <1>1, <1>2, <1>6, GoodStays DEF FlightOK
<1> QED
  BY <1>4, <1>5, <1>6 DEF FlightOK

\* The leader of a flight takes a step.
LEMMA FlightGoesOn ==
    ASSUME AInv, ChainNext, NEW f \in flights, NEW g \in FlightType, g.key = f.key,
           FlightGoes(f, g), FlightOK(g)'
    PROVE  FlightsInv'
PROOF
<1>1. flights' = (flights \ {f}) \cup {g} /\ FlightsInv
  BY DEF FlightGoes, AInv
<1>2. \A a \in flights' : FlightOK(a)'
  BY <1>1, FlightStays
<1> QED
  BY <1>1, <1>2 DEF FlightsInv

\* A flight with its answer.
LEMMA FlightIsDone ==
    ASSUME AInv, ChainNext, NEW f \in flights, NEW answer \in AnswerType, Good(f.key, answer),
           FlightDone(f, answer)
    PROVE  FlightsInv'
PROOF
<1> DEFINE g == [f EXCEPT !.pc = "done", !.answer = answer]
<1>1. f \in FlightType /\ Behind /\ PoolInv
  BY DEF AInv, FlightsInv
<1>2. g \in FlightType /\ g.key = f.key /\ g.pc = "done" /\ g.answer = answer /\ f.key \in URLs
  BY <1>1 DEF FlightType
<1>3. FlightGoes(f, g)
  BY DEF FlightDone
<1> HIDE DEF g
<1>4. Good(f.key, answer)'
  BY <1>1, <1>2, GoodStays
<1>5. FlightOK(g)'
  BY <1>2, <1>4 DEF FlightOK
<1> QED
  BY <1>2, <1>3, <1>5, FlightGoesOn

LEMMA FlyStep ==
    ASSUME AInv, ChainNext, NEW f \in flights, Fly(f)
    PROVE  FlightsInv'
PROOF
<1>1. /\ f \in FlightType /\ FlightOK(f) /\ f.key \in URLs /\ f.design \in Int
      /\ Behind /\ PoolInv /\ IInv
  BY DEF AInv, FlightsInv, FlightType
<1>2. saved \in Nat /\ saved \in Int /\ Readers # {}
  BY <1>1, HeightsAreNat, ChainAssumption DEF Behind
<1>3. CASE InGroup(f)
  <2>1. f.key.kind \notin {"currency", "account"} /\ FlightDone(f, Document(f.key))
    BY <1>3 DEF InGroup
  <2>2. Document(f.key) \in AnswerType /\ Good(f.key, Document(f.key))
    BY <1>1, <2>1, DocumentIsGood
  <2> QED
    BY <2>1, <2>2, FlightIsDone
<1>4. CASE Get(f)
  <2>1. f.key.kind = "currency" /\ setting = {} /\ f.key.cid \in Currencies
    BY <1>1, <1>4, URLType DEF Get
  <2>2. CASE f.key.cid \notin Known
    <3>1. FlightDone(f, NotFound)
      BY <1>4, <2>2 DEF Get
    <3> QED
      BY <3>1, NotFoundIsGood, FlightIsDone
  <2>3. CASE f.key.cid \in Known
    <3>1. /\ pool[f.key.cid].design > NilHeight
          /\ pool[f.key.cid].design \in {NilHeight} \cup 0..saved
          /\ pool[f.key.cid].state = pool[f.key.cid].design
          /\ pool[f.key.cid].design \in Int
      BY <1>1, <2>1, <2>3 DEF Known, PoolInv
    <3>2. pool[f.key.cid].design \in 0..saved
      BY <3>1 DEF NilHeight
    <3>3. PICK design \in 0..saved : design = pool[f.key.cid].design
      BY <3>2
    <3> DEFINE g == [f EXCEPT !.pc = "state", !.design = design]
    <3>4. FlightGoes(f, g) /\ g \in FlightType /\ g.key = f.key /\ g.pc = "state" /\ g.design = design
      <4>1. design \in Int
        BY <3>1, <3>3
      <4> QED
        BY <1>1, <1>4, <2>3, <3>3, <4>1 DEF Get, FlightType
    <3> HIDE DEF g
    <3>5. UNCHANGED <<saved, pool>>
      BY <3>4 DEF FlightGoes, chain
    <3>6. design =< pool[f.key.cid].state
      BY <3>1, <3>3
    <3>7. FlightOK(g)'
      BY <2>1, <3>4, <3>5, <3>6 DEF FlightOK
    <3> QED
      BY <3>4, <3>7, FlightGoesOn
  <2> QED
    BY <2>2, <2>3
<1>5. CASE State(f)
  <2> DEFINE state == pool[f.key.cid].state
  <2>1. /\ f.key.kind = "currency" /\ f.design \in 0..saved /\ f.design =< state
        /\ f.key.cid \in Currencies
    BY <1>1, <1>5, URLType DEF State, FlightOK
  <2>2. /\ state \in {NilHeight} \cup 0..saved /\ state \in Int
        /\ state \in {NilHeight} \cup OperationHeights
    BY <1>1, <2>1 DEF PoolInv
  <2>3. FlightDone(f, IF state = NilHeight THEN NotFound ELSE CurrencyDocument(f.design, state))
    BY <1>5 DEF State
  <2> HIDE DEF state
  <2>4. state # NilHeight /\ state \in 0..saved /\ state \in OperationHeights
    BY <1>1, <2>1, <2>2 DEF NilHeight
  <2>5. /\ CurrencyDocument(f.design, state) \in AnswerType
        /\ Good(f.key, CurrencyDocument(f.design, state))
    BY <1>1, <1>2, <2>1, <2>4, CurrencyIsGood
  <2> QED
    BY <2>3, <2>4, <2>5, FlightIsDone
<1>6. ASSUME NEW r \in Readers, StartRead(f, r) PROVE FlightsInv'
  <2> DEFINE g == [f EXCEPT !.pc = "reading"]
  <2>1. g \in FlightType /\ g.key = f.key /\ g.pc = "reading"
    BY <1>1 DEF FlightType
  <2>2. f.key.kind = "account" /\ Request(r) /\ FlightGoes(f, g)
    BY <1>6 DEF StartRead
  <2>3. Readers = {r}
    BY ChainAssumption
  <2>4. \A s \in Readers : reads'[s].pc = "account"
    BY <1>1, <2>2, <2>3 DEF Request, Read, IInv
  <2> HIDE DEF g
  <2>5. FlightOK(g)'
    BY <2>1, <2>2, <2>4 DEF FlightOK
  <2> QED
    BY <2>1, <2>2, <2>5, FlightGoesOn
<1>7. ASSUME NEW r \in Readers, EndRead(f, r) PROVE FlightsInv'
  <2>1. f.pc = "reading" /\ FlightDone(f, AccountDocument(reads[r]))
    BY <1>7 DEF EndRead
  <2>2. f.key.kind = "account" /\ reads[r] \in ReadType
        /\ \A c \in Currencies : reads[r].amounts[c] \in {NilHeight} \cup 0..saved
    BY <1>1, <2>1 DEF FlightOK, IInv, Behind
  <2>3. AccountDocument(reads[r]) \in AnswerType /\ Good(f.key, AccountDocument(reads[r]))
    BY <1>2, <2>2, AccountIsGood
  <2> QED
    BY <2>1, <2>3, FlightIsDone
<1>8. CASE Answer(f)
  <2>1. flights' = flights \ {f}
    BY <1>8 DEF Answer
  <2>2. \A a \in flights' : FlightOK(a)'
    BY <2>1, FlightStays
  <2> QED
    BY <2>1, <2>2 DEF AInv, FlightsInv
<1> QED
  BY <1>3, <1>4, <1>5, <1>6, <1>7, <1>8 DEF Fly

LEMMA FlightsStep == AInv /\ ChainNext => FlightsInv'
PROOF
<1> SUFFICES ASSUME AInv, ChainNext PROVE FlightsInv'
  OBVIOUS
<1>1. CASE flights' = flights
  BY <1>1, FlightStays DEF AInv, FlightsInv
<1>2. ASSUME NEW c \in Clients, Do(c) PROVE FlightsInv'
  <2>0. PICK key \in URLs : key = walks[c].key
    BY <1>2 DEF Do, AInv, WalksInv
  <2> DEFINE g == [key |-> key, pc |-> "new", design |-> NilHeight, answer |-> NotFound]
  <2>1. flights' = IF Joined(key) THEN flights ELSE flights \cup {g}
    BY <1>2, <2>0 DEF Do
  <2>3. CASE ~Joined(key)
    <3>1. g \in FlightType /\ g.key = key /\ g.pc = "new"
      BY NotFoundIsGood DEF FlightType, NilHeight
    <3>2. \A f \in flights : f.key # key
      BY <2>3 DEF Joined, FlightsOf
    <3> HIDE DEF g
    <3>3. FlightOK(g)'
      BY <3>1 DEF FlightOK
    <3>4. \A f \in flights' : FlightOK(f)'
      BY <2>1, <2>3, <3>3, FlightStays
    <3> QED
      BY <2>1, <2>3, <3>1, <3>2, <3>4 DEF AInv, FlightsInv
  <2> QED
    BY <1>1, <2>1, <2>3
<1>3. (\E c \in Clients : Do(c)) \/ (\E f \in flights : Fly(f)) \/ flights' = flights
  BY DEF ChainNext, WhenBlockSaved, Hook, Set, SetState, HookFails, DigestBlocks, ReadAccount, Ask,
         Handle, Load, Throw, Expire, api
<1> QED
  BY <1>1, <1>2, <1>3, FlyStep

LEMMA EntriesStep == AInv /\ ChainNext => EntriesInv'
PROOF
<1> SUFFICES ASSUME AInv, ChainNext PROVE EntriesInv'
  OBVIOUS
<1>1. Behind /\ PoolInv /\ EntriesInv /\ cache \subseteq EntryType
  BY DEF AInv, EntriesInv
<1>2. ASSUME NEW e \in cache
      PROVE  e.answer.ok /\ Good(e.key, e.answer)' /\ e.long = KeptLong(e.key, e.answer)
  <2>1. e.key \in URLs /\ e.answer \in AnswerType
    BY <1>1 DEF EntryType
  <2> QED
    BY <1>1, <2>1, GoodStays DEF EntriesInv
<1>3. CASE cache' \subseteq cache
  <2>1. \A e \in cache' : /\ e.answer.ok
                          /\ Good(e.key, e.answer)'
                          /\ e.long = KeptLong(e.key, e.answer)
    BY <1>2, <1>3
  <2> QED
    BY <1>1, <1>3, <2>1 DEF EntriesInv, KeptLong
<1>4. ASSUME NEW f \in flights, Answer(f), cache' # cache PROVE EntriesInv'
  <2> DEFINE new == [key |-> f.key, answer |-> f.answer, long |-> KeptLong(f.key, f.answer)]
  <2>1. f.pc = "done" /\ f.answer.ok /\ Cache(f.key, f.answer)
    BY <1>4 DEF Answer, OK
  <2>2. PICK kept \in SUBSET {e \in cache : e.key # f.key} : cache' = kept \cup {new}
    BY <2>1 DEF Cache
  <2>3. f.key \in URLs /\ f.answer \in AnswerType /\ Good(f.key, f.answer)
    BY <2>1 DEF AInv, FlightsInv, FlightOK, FlightType
  <2>4. Good(f.key, f.answer)'
    BY <1>1, <2>3, GoodStays
  <2>5. KeptLong(f.key, f.answer) \in BOOLEAN
    BY DEF KeptLong
  <2>6. /\ new \in EntryType /\ new.key = f.key /\ new.answer = f.answer
        /\ new.long = KeptLong(new.key, new.answer)
    BY <2>3, <2>5 DEF EntryType
  <2> HIDE DEF new
  <2>7. \A e \in cache' : /\ e.answer.ok
                          /\ Good(e.key, e.answer)'
                          /\ e.long = KeptLong(e.key, e.answer)
    <3>1. new.answer.ok /\ Good(new.key, new.answer)' /\ new.long = KeptLong(new.key, new.answer)
      BY <2>1, <2>4, <2>6
    <3> QED
      BY <1>2, <2>2, <3>1
  <2>8. cache' \subseteq EntryType /\ \A e, o \in cache' : e.key = o.key => e = o
    BY <1>1, <2>2, <2>6 DEF EntriesInv
  <2> QED
    BY <2>7, <2>8 DEF EntriesInv, KeptLong
<1>5. (\E f \in flights : Answer(f)) \/ cache' \subseteq cache
  BY DEF ChainNext, WhenBlockSaved, Hook, Set, SetState, HookFails, DigestBlocks, ReadAccount, Ask,
         Handle, Load, Do, Throw, Expire, Fly, InGroup, Get, State, StartRead, EndRead, FlightDone,
         FlightGoes, api
<1> QED
  BY <1>3, <1>4, <1>5

\* What a client has after each of its steps.
LEMMA WalkSteps ==
    /\ \A v \in WalkType, p \in {"do", "flying"} :
         /\ [v EXCEPT !.pc = p] \in WalkType /\ [v EXCEPT !.pc = p].pc = p
         /\ [v EXCEPT !.pc = p].key = v.key /\ [v EXCEPT !.pc = p].there = v.there
    /\ \A v \in WalkType, a \in AnswerType :
         /\ Received(v, a) \in WalkType /\ Received(v, a).pc = "answered"
         /\ Received(v, a).key = v.key /\ Received(v, a).answer = a /\ Received(v, a).there = v.there
    /\ \A key \in URLs :
         /\ Requested(key) \in WalkType /\ Requested(key).pc = "load" /\ Requested(key).key = key
         /\ Requested(key).there <=> There(key) /\ FlightsOf(key) = {}
PROOF
<1>1. \A v \in WalkType, p \in {"do", "flying"} :
         /\ [v EXCEPT !.pc = p] \in WalkType /\ [v EXCEPT !.pc = p].pc = p
         /\ [v EXCEPT !.pc = p].key = v.key /\ [v EXCEPT !.pc = p].there = v.there
  BY DEF WalkType
<1>2. \A v \in WalkType, a \in AnswerType :
         /\ Received(v, a) \in WalkType /\ Received(v, a).pc = "answered"
         /\ Received(v, a).key = v.key /\ Received(v, a).answer = a /\ Received(v, a).there = v.there
  BY DEF WalkType, Received
<1>3. ASSUME NEW key \in URLs
      PROVE  /\ Requested(key) \in WalkType /\ Requested(key).pc = "load" /\ Requested(key).key = key
             /\ Requested(key).there <=> There(key) /\ FlightsOf(key) = {}
  <2>1. (There(key) /\ FlightsOf(key) = {}) \in BOOLEAN
    OBVIOUS
  <2> QED
    BY <2>1, NotFoundIsGood DEF Requested, WalkType
<1> QED
  BY <1>1, <1>2, <1>3

\* A client takes a step, and may start a flight.
LEMMA WalkGoesOn ==
    ASSUME AInv, ChainNext, NEW c \in Clients, walks[c].pc # "flying", NEW w \in WalkType,
           walks' = [walks EXCEPT ![c] = w], w.pc # "idle", w.key \in URLs,
           w.pc = "answered" => Good(w.key, w.answer),
           w.pc = "flying" => \E f \in flights' : f.key = w.key,
           flights \subseteq flights',
           \A f \in flights' : f \in flights \/ (f.key = w.key /\ w.pc = "flying")
    PROVE  WalksInv'
PROOF
<1>1. Behind /\ PoolInv /\ walks \in [Clients -> WalkType]
  BY DEF AInv, WalksInv
<1>2. walks' \in [Clients -> WalkType] /\ walks'[c] = w /\ \A b \in Clients : b # c => walks'[b] = walks[b]
  BY <1>1
<1>3. ASSUME NEW b \in Clients
      PROVE  /\ walks'[b].pc # "idle" => walks'[b].key \in URLs
             /\ walks'[b].pc = "flying" => FlightsOf(walks[b].key)' # {}
             /\ walks'[b].pc = "answered" => Good(walks[b].key, walks[b].answer)'
  <2>1. CASE b = c
    <3>1. w.answer \in AnswerType
      BY DEF WalkType
    <3>2. w.pc = "answered" => Good(w.key, w.answer)'
      BY <1>1, <3>1, GoodStays
    <3>3. walks'[b].pc = "answered" => Good(walks[b].key, walks[b].answer)'
      BY <1>2, <2>1, <3>2 DEF Good, Lasting
    <3> QED
      BY <1>2, <2>1, <3>3 DEF FlightsOf
  <2>2. CASE b # c
    <3>1. PICK v \in WalkType : v = walks[b] /\ v = walks'[b]
      BY <1>1, <1>2, <2>2
    <3>2. v.answer \in AnswerType /\ (v.pc # "idle" => v.key \in URLs)
      BY <3>1 DEF WalkType, AInv, WalksInv
    <3>3. v.pc = "answered" => Good(v.key, v.answer)
      BY <3>1 DEF AInv, WalksInv
    <3>4. v.pc = "answered" => Good(v.key, v.answer)'
      BY <1>1, <3>2, <3>3, GoodStays
    <3>5. v.pc = "flying" => \E f \in flights : f.key = v.key
      BY <3>1 DEF AInv, WalksInv, FlightsOf
    <3>6. walks'[b].pc = "answered" => Good(walks[b].key, walks[b].answer)'
      BY <3>1, <3>4 DEF Good, Lasting
    <3> QED
      BY <3>1, <3>2, <3>5, <3>6 DEF FlightsOf
  <2> QED
    BY <2>1, <2>2
<1>4. ASSUME NEW f \in flights' PROVE Flying(f.key)' # {}
  <2>1. CASE f \in flights
    <3>1. PICK b \in Clients : walks[b].pc = "flying" /\ walks[b].key = f.key
      BY <2>1 DEF AInv, WalksInv, Flying
    <3>2. walks'[b].pc = "flying" /\ walks'[b].key = f.key
      BY <1>2, <3>1
    <3> QED
      BY <3>2 DEF Flying
  <2>2. CASE f.key = w.key /\ w.pc = "flying"
    BY <1>2, <2>2 DEF Flying
  <2> QED
    BY <2>1, <2>2
<1> QED
  BY <1>2, <1>3, <1>4 DEF WalksInv

LEMMA LandingStep == ASSUME AInv, ChainNext, NEW f \in flights, Answer(f) PROVE WalksInv'
PROOF
<1>1. /\ f.pc = "done" /\ flights' = flights \ {f}
      /\ walks' = [c \in Clients |-> IF c \in Flying(f.key) THEN Received(walks[c], f.answer)
                                     ELSE walks[c]]
  BY DEF Answer
<1>2. /\ Behind /\ PoolInv /\ walks \in [Clients -> WalkType]
      /\ f.key \in URLs /\ f.answer \in AnswerType /\ Good(f.key, f.answer)
  BY <1>1 DEF AInv, WalksInv, FlightsInv, FlightOK, FlightType
<1>3. \A c \in Clients :
        walks'[c] = IF walks[c].pc = "flying" /\ walks[c].key = f.key THEN Received(walks[c], f.answer)
                    ELSE walks[c]
  BY <1>1 DEF Flying
<1>4. ASSUME NEW w \in WalkType
      PROVE  /\ Received(w, f.answer) \in WalkType /\ Received(w, f.answer).pc = "answered"
             /\ Received(w, f.answer).key = w.key /\ Received(w, f.answer).answer = f.answer
  BY <1>2 DEF WalkType, Received
<1>5. walks' \in [Clients -> WalkType]
  BY <1>1, <1>2, <1>4
<1>6. ASSUME NEW b \in Clients
      PROVE  /\ walks'[b].pc # "idle" => walks'[b].key \in URLs
             /\ walks'[b].pc = "flying" => FlightsOf(walks[b].key)' # {}
             /\ walks'[b].pc = "answered" => Good(walks[b].key, walks[b].answer)'
  <2>1. PICK v \in WalkType : v = walks'[b]
    BY <1>5
  <2>2. CASE walks[b].pc = "flying" /\ walks[b].key = f.key
    <3>1. v.pc = "answered" /\ v.key = f.key /\ v.answer = f.answer
      BY <1>2, <1>3, <1>4, <2>1, <2>2
    <3>2. Good(v.key, v.answer)'
      BY <1>2, <3>1, GoodStays
    <3>3. Good(walks[b].key, walks[b].answer)'
      BY <2>1, <3>2 DEF Good, Lasting
    <3> QED
      BY <1>2, <2>1, <3>1, <3>3
  <2>3. CASE ~(walks[b].pc = "flying" /\ walks[b].key = f.key)
    <3>1. v = walks[b]
      BY <1>3, <2>1, <2>3
    <3>2. v.answer \in AnswerType /\ (v.pc # "idle" => v.key \in URLs)
          /\ (v.pc = "answered" => Good(v.key, v.answer))
      BY <3>1 DEF WalkType, AInv, WalksInv
    <3>3. v.pc = "answered" => Good(v.key, v.answer)'
      BY <1>2, <3>2, GoodStays
    <3>4. walks'[b].pc = "answered" => Good(walks[b].key, walks[b].answer)'
      BY <2>1, <3>3 DEF Good, Lasting
    <3>5. v.pc = "flying" => \E g \in flights' : g.key = v.key
      BY <1>1, <2>3, <3>1 DEF AInv, WalksInv, FlightsOf
    <3> QED
      BY <2>1, <3>2, <3>4, <3>5 DEF FlightsOf
  <2> QED
    BY <2>2, <2>3
<1>7. ASSUME NEW g \in flights' PROVE Flying(g.key)' # {}
  <2>1. g \in flights /\ g.key # f.key
    BY <1>1 DEF AInv, FlightsInv
  <2>2. PICK b \in Clients : walks[b].pc = "flying" /\ walks[b].key = g.key
    BY <2>1 DEF AInv, WalksInv, Flying
  <2>3. walks'[b] = walks[b]
    BY <1>3, <2>1, <2>2
  <2> QED
    BY <2>2, <2>3 DEF Flying
<1> QED
  BY <1>5, <1>6, <1>7 DEF WalksInv

\* The clients wait, and as many flights of the same keys are under way.
LEMMA WaitingStep ==
    ASSUME AInv, ChainNext, walks' = walks,
           {f.key : f \in flights'} = {f.key : f \in flights}
    PROVE  WalksInv'
PROOF
<1>1. Behind /\ PoolInv /\ WalksInv
  BY DEF AInv
<1>2. ASSUME NEW b \in Clients
      PROVE  walks[b].pc = "answered" => Good(walks[b].key, walks[b].answer)'
  <2>1. PICK v \in WalkType : v = walks[b]
    BY <1>1 DEF WalksInv
  <2>2. v.answer \in AnswerType /\ (v.pc # "idle" => v.key \in URLs)
        /\ (v.pc = "answered" => Good(v.key, v.answer))
    BY <1>1, <2>1 DEF WalkType, WalksInv
  <2>3. v.pc = "answered" => Good(v.key, v.answer)'
    BY <1>1, <2>2, GoodStays
  <2>4. v = walks'[b]
    BY <2>1
  <2> QED
    BY <2>1, <2>3, <2>4 DEF Good, Lasting
<1>3. \A key : FlightsOf(key) # {} => FlightsOf(key)' # {}
  <2>1. ASSUME NEW key, NEW f \in flights, f.key = key PROVE \E g \in flights' : g.key = key
    <3>1. key \in {g.key : g \in flights'}
      BY <2>1
    <3> QED
      BY <3>1
  <2> QED
    BY <2>1 DEF FlightsOf
<1>4. \A f \in flights' : \E g \in flights : g.key = f.key
  <2>1. ASSUME NEW f \in flights' PROVE \E g \in flights : g.key = f.key
    <3>1. f.key \in {g.key : g \in flights}
      OBVIOUS
    <3> QED
      BY <3>1
  <2> QED
    BY <2>1
<1>5. \A f \in flights' : Flying(f.key)' # {}
  BY <1>1, <1>4 DEF WalksInv, Flying
<1>6. \A b \in Clients :
        /\ walks'[b].pc # "idle" => walks'[b].key \in URLs
        /\ walks'[b].pc = "flying" => FlightsOf(walks[b].key)' # {}
        /\ walks'[b].pc = "answered" => Good(walks[b].key, walks[b].answer)'
  <2> SUFFICES ASSUME NEW b \in Clients
               PROVE  /\ walks'[b].pc # "idle" => walks'[b].key \in URLs
                      /\ walks'[b].pc = "flying" => FlightsOf(walks[b].key)' # {}
                      /\ walks'[b].pc = "answered" => Good(walks[b].key, walks[b].answer)'
    OBVIOUS
  <2>1. walks'[b].pc = "flying" => FlightsOf(walks[b].key)' # {}
    BY <1>1, <1>3 DEF WalksInv, FlightsOf
  <2>2. walks'[b].pc = "answered" => Good(walks[b].key, walks[b].answer)'
    BY <1>2
  <2> QED
    BY <1>1, <2>1, <2>2 DEF WalksInv
<1> QED
  BY <1>1, <1>5, <1>6 DEF WalksInv

LEMMA WalksStep == AInv /\ ChainNext => WalksInv'
PROOF
<1> SUFFICES ASSUME AInv, ChainNext PROVE WalksInv'
  OBVIOUS
<1>1. walks \in [Clients -> WalkType] /\ cache \subseteq EntryType /\ flights \subseteq FlightType
  BY DEF AInv, WalksInv, EntriesInv, FlightsInv
<1>2. ASSUME NEW c \in Clients, Ask(c) PROVE WalksInv'
  <2>1. PICK key \in Asked[c] : walks' = [walks EXCEPT ![c] = Requested(key)]
    BY <1>2 DEF Ask
  <2>2. key \in URLs
    BY AskedAssumption
  <2>4. PICK w \in WalkType : w = Requested(key) /\ w.pc = "load" /\ w.key = key
    BY <2>2, WalkSteps
  <2>5. flights' = flights /\ walks[c].pc # "flying"
    BY <1>2 DEF Ask
  <2> QED
    BY <2>1, <2>2, <2>4, <2>5, WalkGoesOn
<1>3. ASSUME NEW c \in Clients, Load(c) PROVE WalksInv'
  <2>1. /\ walks[c].pc = "load" /\ flights' = flights /\ walks[c] \in WalkType
        /\ walks[c].key \in URLs
    BY <1>1, <1>3 DEF Load, AInv, WalksInv
  <2>2. CASE walks' = [walks EXCEPT ![c].pc = "do"]
    <3> DEFINE v == [walks[c] EXCEPT !.pc = "do"]
    <3>0. v \in WalkType /\ v.pc = "do" /\ v.key = walks[c].key
      BY <2>1, WalkSteps
    <3>1. PICK w \in WalkType : w = v /\ w.pc = "do" /\ w.key = walks[c].key
      BY <3>0
    <3>2. walks' = [walks EXCEPT ![c] = w]
      BY <2>2, <3>1
    <3> QED
      BY <2>1, <3>1, <3>2, WalkGoesOn
  <2>3. CASE \E e \in cache : e.key = walks[c].key /\ walks' = [walks EXCEPT ![c] = Received(@, e.answer)]
    <3>1. PICK e \in cache : e.key = walks[c].key /\ walks' = [walks EXCEPT ![c] = Received(@, e.answer)]
      BY <2>3
    <3>2. e.answer \in AnswerType /\ Good(e.key, e.answer)
      BY <1>1 DEF EntryType, AInv, EntriesInv
    <3>3. PICK w \in WalkType : /\ w = Received(walks[c], e.answer) /\ w.pc = "answered"
                                /\ w.key = walks[c].key /\ w.answer = e.answer
      BY <2>1, <3>2, WalkSteps
    <3>4. walks' = [walks EXCEPT ![c] = w]
      BY <3>1, <3>3
    <3>5. Good(w.key, w.answer)
      BY <3>1, <3>2, <3>3
    <3> QED
      BY <2>1, <3>3, <3>4, <3>5, WalkGoesOn
  <2> QED
    BY <1>3, <2>2, <2>3 DEF Load
<1>4. ASSUME NEW c \in Clients, Do(c) PROVE WalksInv'
  <2>1. walks[c].pc = "do" /\ walks[c] \in WalkType /\ walks[c].key \in URLs
    BY <1>1, <1>4 DEF Do, AInv, WalksInv
  <2> DEFINE v == [walks[c] EXCEPT !.pc = "flying"]
  <2>0. v \in WalkType /\ v.pc = "flying" /\ v.key = walks[c].key
    BY <2>1, WalkSteps
  <2>2. PICK w \in WalkType : w = v /\ w.pc = "flying" /\ w.key = walks[c].key
    BY <2>0
  <2>3. walks' = [walks EXCEPT ![c] = w]
    BY <1>4, <2>2 DEF Do
  <2>4. /\ flights \subseteq flights'
        /\ \A f \in flights' : f \in flights \/ f.key = w.key
        /\ \E f \in flights' : f.key = w.key
    <3> DEFINE g == [key |-> w.key, pc |-> "new", design |-> NilHeight, answer |-> NotFound]
    <3>1. flights' = IF Joined(w.key) THEN flights ELSE flights \cup {g}
      BY <1>4, <2>2 DEF Do
    <3>2. g.key = w.key
      OBVIOUS
    <3> HIDE DEF g
    <3> QED
      BY <3>1, <3>2 DEF Joined, FlightsOf
  <2> QED
    BY <2>1, <2>2, <2>3, <2>4, WalkGoesOn
<1>5. ASSUME NEW f \in flights, NEW g, g.key = f.key, FlightGoes(f, g) PROVE WalksInv'
  <2>1. walks' = walks /\ flights' = (flights \ {f}) \cup {g}
    BY <1>5 DEF FlightGoes
  <2>2. {a.key : a \in flights'} = {a.key : a \in flights}
    BY <1>5, <2>1
  <2> QED
    BY <2>1, <2>2, WaitingStep
<1>6. ASSUME NEW f \in flights, Fly(f), ~Answer(f) PROVE WalksInv'
  <2>1. \A p, a, d : /\ [f EXCEPT !.pc = p, !.answer = a].key = f.key
                     /\ [f EXCEPT !.pc = p, !.design = d].key = f.key
                     /\ [f EXCEPT !.pc = p].key = f.key
    BY <1>1 DEF FlightType
  <2>2. \E g : g.key = f.key /\ FlightGoes(f, g)
    BY <1>6, <2>1 DEF Fly, InGroup, Get, State, StartRead, EndRead, FlightDone
  <2> QED
    BY <1>5, <2>2
<1>7. CASE UNCHANGED <<walks, flights>>
  BY <1>7, WaitingStep
<1>8. \/ \E c \in Clients : Ask(c) \/ Load(c) \/ Do(c)
      \/ \E f \in flights : Fly(f)
      \/ UNCHANGED <<walks, flights>>
  BY DEF ChainNext, WhenBlockSaved, Hook, Set, SetState, HookFails, DigestBlocks, ReadAccount,
         Handle, Throw, Expire, api
<1> QED
  BY <1>2, <1>3, <1>4, <1>6, <1>7, <1>8, LandingStep

LEMMA ApiInvariance == ChainSpec => []AInv
PROOF
<1>1. AInv /\ [ChainNext]_chainVars => AInv'
  <2> SUFFICES ASSUME AInv, [ChainNext]_chainVars PROVE AInv'
    OBVIOUS
  <2>1. IInv' /\ Behind' /\ PoolInv'
    <3>1. [Next]_vars
      BY ReadsInChain DEF chainVars
    <3> QED
      BY <3>1, Inductive, BehindStep, PoolStep DEF AInv
  <2>2. CASE ChainNext
    BY <2>1, <2>2, FlightsStep, EntriesStep, WalksStep DEF AInv
  <2>3. CASE UNCHANGED chainVars
    <3>1. UNCHANGED <<saved, pool, stored, next, reads, flights, cache, walks>>
      BY <2>3 DEF chainVars, vars, store, chain, api
    <3>2. \A key, answer : Good(key, answer)' <=> Good(key, answer)
      BY <3>1 DEF Good, IsThere, Known, Lasting, Final, Document, BlockDocument, ManifestDocument,
                  ManifestsDocument, ManifestsPage, OperationDocument, AccountOperationsDocument, Digested, NodeInfoDocument,
                  CurrenciesDocument
    <3>3. FlightsInv'
      BY <3>1, <3>2 DEF AInv, FlightsInv, FlightOK
    <3>4. EntriesInv'
      BY <3>1, <3>2 DEF AInv, EntriesInv, KeptLong
    <3>5. WalksInv'
      BY <3>1, <3>2 DEF AInv, WalksInv, FlightsOf, Flying
    <3> QED
      BY <2>1, <3>3, <3>4, <3>5 DEF AInv
  <2> QED
    BY <2>2, <2>3
<1> QED
  BY <1>1, ApiInit, PTL DEF ChainSpec

\* The types of the answers, and that a key is cached once and has one
\* flight, with somebody waiting for it.
THEOREM AnswersAreTyped == ChainSpec => []TypeOK
PROOF
<1>1. AInv => TypeOK
  BY DEF AInv, Behind, PoolInv, FlightsInv, EntriesInv, WalksInv, TypeOK
<1> QED
  BY <1>1, ApiInvariance, PTL

LEMMA SettledIsBelow == StoreInv => \A g \in Nat : g > Settled \/ g < next
PROOF
<1> SUFFICES ASSUME next \in Nat, NEW g \in Nat PROVE g > next - 1 \/ g < next
  BY DEF StoreInv, Settled
<1> QED
  OBVIOUS

\* What a link of some kind leads to is in the digest once a block that has
\* it is settled.
LEMMA SettledIsShown ==
    ASSUME StoreInv, NEW link, IsThere(link),
           link.kind \in {"operation", "account", "account operations"},
           NEW h \in Sources(link), ~(h > Settled)
    PROVE  Shown(link)
PROOF
<1>0. OperationHeights \subseteq Nat /\ Created \in Nat /\ next \in Nat
  BY AccountHeights DEF StoreInv
<1>1. ASSUME NEW g \in OperationHeights, ~(g > Settled) PROVE Digested(g)
  <2>1. PICK d \in Docs : d.col = "operation" /\ d.height = g
    BY DEF OperationHeights
  <2>2. d.height < next
    <3>1. g < next
      BY <1>0, <1>1, SettledIsBelow
    <3> QED
      BY <2>1, <3>1
  <2> QED
    BY <2>1, <2>2 DEF StoreInv, Digested
<1>2. CASE link.kind = "operation"
  <2>1. h = link.height /\ h \in OperationHeights
    BY <1>2 DEF Sources, IsThere
  <2>2. OperationDocument(link.height) = OKWith({link.height}, OperationLinks(link.height))
    BY <1>1, <2>1 DEF OperationDocument
  <2> QED
    BY <1>2, <2>2 DEF Shown, OKWith
<1>3. CASE link.kind = "account"
  <2>1. h = Created
    BY <1>3 DEF Sources
  <2>2. ASSUME NEW col \in {"account", "balance"} PROVE Of(col) # {}
    <3>1. PICK d \in Docs : d.col = col /\ d.height = Created
      BY ChainAssumption
    <3>2. d.height < next
      <4>1. Created < next
        BY <1>0, <2>1, SettledIsBelow
      <4> QED
        BY <3>1, <4>1
    <3> QED
      BY <3>1, <3>2 DEF StoreInv, Of
  <2> QED
    BY <1>3, <2>2 DEF Shown
<1>4. CASE link.kind = "account operations"
  <2>1. h \in Addressed /\ h \in OperationHeights
    BY <1>4, ChainAssumption DEF Sources
  <2>2. AccountOperationsDocument.ok
    BY <1>1, <2>1, OperationsAreFound
  <2> QED
    BY <1>4, <2>2 DEF Shown
<1> QED
  BY <1>2, <1>3, <1>4

\* Whatever an answer links to is there, or the digest has not settled what it
\* comes from; for any blocks, designs, documents and requests, however long
\* the answer was in flight or in the cache.
THEOREM WhatIsLinkedIsThere == ChainSpec => []LinksAreThere
PROOF
<1>1. AInv => LinksAreThere
  <2> SUFFICES ASSUME AInv, NEW a \in Answers, a.key.kind # "block"
               PROVE  /\ \A link \in a.answer.links :
                           /\ link.kind \in {"block", "manifest", "operation"} =>
                                link.height \in 0..saved
                           /\ link.kind = "currency" => link.cid \in Known
                           /\ link.kind = "account" /\ a.key.kind = "operation" =>
                                Created =< saved
                           /\ link.kind \in {"operation", "account", "account operations"} =>
                                Shown(link) \/ \A h \in Sources(link) : h > Settled
                      /\ CurrencyStateIsNotOlder(a)
    BY DEF LinksAreThere
  <2>1. Good(a.key, a.answer)
    <3>1. CASE \E e \in cache : a = [key |-> e.key, answer |-> e.answer]
      BY <3>1 DEF AInv, EntriesInv
    <3>2. CASE \E c \in Clients : /\ walks[c].pc = "answered"
                                  /\ a = [key |-> walks[c].key, answer |-> walks[c].answer]
      BY <3>2 DEF AInv, WalksInv
    <3> QED
      BY <3>1, <3>2 DEF Answers
  <2>2. \A link \in a.answer.links : IsThere(link)
    BY <2>1 DEF Good
  <2>3. ASSUME NEW link \in a.answer.links
        PROVE  /\ link.kind \in {"block", "manifest", "operation"} => link.height \in 0..saved
               /\ link.kind = "currency" => link.cid \in Known
    BY <2>2 DEF IsThere
  <2>4. ASSUME NEW link \in a.answer.links, link.kind = "account", a.key.kind = "operation"
        PROVE  Created =< saved
    BY <2>1, <2>4 DEF Good
  <2>5. ASSUME NEW link \in a.answer.links,
               link.kind \in {"operation", "account", "account operations"},
               ~ \A h \in Sources(link) : h > Settled
        PROVE  Shown(link)
    <3>1. StoreInv /\ IsThere(link)
      BY <2>2 DEF AInv, IInv
    <3>2. PICK h \in Sources(link) : ~(h > Settled)
      BY <2>5
    <3> QED
      BY <2>5, <3>1, <3>2, SettledIsShown
  <2>6. CurrencyStateIsNotOlder(a)
    BY <2>1 DEF Good, CurrencyStateIsNotOlder
  <2> QED
    BY <2>3, <2>4, <2>5, <2>6
<1> QED
  BY <1>1, ApiInvariance, PTL

\* What is cached for long is what the handler would answer now.
THEOREM WhatIsKeptIsRight == ChainSpec => []LongIsRight
PROOF
<1>1. AInv => LongIsRight
  <2> SUFFICES ASSUME AInv, NEW e \in cache, e.long, Final(e)
               PROVE  e.answer = IF e.key.kind \in {"currency", "account"} THEN NotFound ELSE Document(e.key)
    BY DEF LongIsRight
  <2>1. e.answer.ok /\ Good(e.key, e.answer) /\ KeptLong(e.key, e.answer)
    BY DEF AInv, EntriesInv
  <2>2. Lasting(e.key, e.answer) /\ e.key.kind \notin {"currency", "account"}
    BY <2>1 DEF Lasting, KeptLong, Final
  <2> QED
    BY <2>1, <2>2 DEF Good
<1> QED
  BY <1>1, ApiInvariance, PTL

(***************************************************************************)
(* What is there is found                                                  *)
(***************************************************************************)

\* A flight that was not begun before its key was there.
Keeps(f) ==
    /\ f.pc = "done" => f.answer.ok
    /\ f.pc = "reading" =>
         \A r \in Readers : /\ \E a \in Accounts : a.height =< reads[r].began
                            /\ \E b \in Balances : b.height =< reads[r].began

\* Who asked for what was there, when nobody else had, will have it.
Promised ==
    \A c \in Clients : walks[c].there =>
        /\ walks[c].pc \in {"load", "do", "flying"} =>
             There(walks[c].key) /\ \A f \in flights : f.key = walks[c].key => Keeps(f)
        /\ walks[c].pc = "answered" => walks[c].answer.ok

\* What is settled is so for good.
LEMMA NextGrows == StoreInv /\ [Next]_vars => next =< next'
PROOF
<1> SUFFICES ASSUME StoreInv, [Next]_vars PROVE next =< next'
  OBVIOUS
<1>1. next \in Nat
  BY DEF StoreInv
<1>2. CASE Digesting
  BY <1>2, SettledGrows DEF Digesting
<1>3. CASE next' = next
  BY <1>1, <1>3
<1>4. Digesting \/ next' = next
  BY DEF Next, Request, Query, Account, Balance, Return, vars, store
<1> QED
  BY <1>2, <1>3, <1>4

LEMMA ThereIsFound ==
    ASSUME NEW key \in URLs, key.kind \notin {"currency", "account"}, There(key)
    PROVE  Document(key).ok
PROOF
<1>1. CASE key.kind = "operation"
  <2>1. Digested(key.height)
    BY <1>1 DEF There, Of, Digested
  <2>2. Document(key) = OKWith({key.height}, OperationLinks(key.height))
    BY <1>1, <2>1 DEF Document, OperationDocument
  <2> QED
    BY <2>2 DEF OKWith
<1>2. CASE key.kind = "account operations"
  <2>1. \E h \in Addressed : Digested(h)
    BY <1>2 DEF There, Of, Digested
  <2> QED
    BY <1>2, <2>1, OperationsAreFound DEF Document
<1>3. CASE key.kind \notin {"operation", "account operations"}
  BY <1>3 DEF There
<1> QED
  BY <1>1, <1>2, <1>3

LEMMA ThereStays ==
    ASSUME AInv, ChainNext, NEW key \in URLs, There(key)
    PROVE  There(key)'
PROOF
<1>1. Behind /\ PoolInv /\ StoreInv
  BY DEF AInv, IInv
<1>2. saved' \in {saved, saved + 1} /\ Known \subseteq Known'
  BY <1>1, SavedGrows, PoolGrows
<1>3. StoreInv' /\ next \in Nat /\ next' \in Nat /\ next =< next'
  BY <1>1, ReadsInChain, Inductive, NextGrows DEF AInv, IInv, StoreInv
<1>4. ASSUME NEW d \in stored, d.height =< Settled PROVE d \in stored' /\ d.height =< Settled'
  <2>1. d \in Docs /\ d.height \in Int
    BY <1>1, HeightsAreNat DEF StoreInv
  <2> QED
    BY <1>3, <1>4, <2>1 DEF StoreInv, Settled
<1>5. CASE key.kind = "operation"
  <2>1. \E d \in Of("operation") : d.height = key.height /\ d.height =< Settled
    BY <1>5 DEF There
  <2>2. \E d \in stored' : d.col = "operation" /\ d.height = key.height /\ d.height =< Settled'
    BY <1>4, <2>1 DEF Of
  <2> QED
    BY <1>5, <2>2 DEF There, Of
<1>11. CASE key.kind = "account operations"
  <2>1. \E d \in Of("operation") : d.height \in Addressed /\ d.height =< Settled
    BY <1>11 DEF There
  <2>2. \E d \in stored' : d.col = "operation" /\ d.height \in Addressed /\ d.height =< Settled'
    BY <1>4, <2>1 DEF Of
  <2> QED
    BY <1>11, <2>2 DEF There, Of
<1>6. CASE key.kind = "account"
  <2>1. \A col \in {"account", "balance"} : \E d \in Of(col) : d.height =< Settled
    BY <1>6 DEF There
  <2>2. \A col \in {"account", "balance"} : \E d \in stored' : d.col = col /\ d.height =< Settled'
    BY <1>4, <2>1 DEF Of
  <2> QED
    BY <1>6, <2>2 DEF There, Of
<1>7. CASE key.kind = "currency"
  BY <1>2, <1>7 DEF There
<1>8. CASE key.kind \in {"block", "manifest", "manifests"}
  <2>1. Document(key).ok
    BY <1>8, ThereIsFound
  <2>2. Document(key)'.ok
    BY <1>1, <1>2, <1>8, <2>1, DocumentStays
  <2> QED
    BY <1>8, <2>2 DEF There
<1>9. CASE key.kind \in {"node", "currencies"}
  <2>1. Document(key)'.ok
    BY <1>9 DEF Document, NodeInfoDocument, CurrenciesDocument, OKWith
  <2> QED
    BY <1>9, <2>1 DEF There
<1>10. key.kind \in {"node", "currencies", "currency", "account", "account operations", "block",
                     "manifest", "manifests", "operation"}
  BY URLType DEF Links
<1> QED
  BY <1>5, <1>6, <1>7, <1>8, <1>9, <1>10, <1>11

LEMMA KeepsOn ==
    ASSUME AInv, ChainNext, NEW f \in flights, f \in flights', Keeps(f)
    PROVE  Keeps(f)'
PROOF
  BY ReadGoesOn DEF Keeps

\* A flight of what is there goes on to an answer that is not a 404.
LEMMA FlightKeeps ==
    ASSUME AInv, ChainNext, NEW f \in flights, Fly(f), There(f.key), Keeps(f), NEW g \in flights',
           g.key = f.key
    PROVE  Keeps(g)'
PROOF
<1>1. /\ f \in FlightType /\ FlightOK(f) /\ f.key \in URLs /\ Behind /\ PoolInv /\ IInv
      /\ \A a \in flights : a.key = f.key => a = f
  BY DEF AInv, FlightsInv, FlightType
<1>2. saved \in Nat /\ saved \in Int
  BY <1>1, HeightsAreNat DEF Behind
<1>3. CASE g \in flights
  <2>1. g = f
    BY <1>1, <1>3
  <2> QED
    BY <2>1, KeepsOn
<1>4. ASSUME NEW answer, answer.ok, FlightDone(f, answer), g \notin flights PROVE Keeps(g)'
  <2>1. g = [f EXCEPT !.pc = "done", !.answer = answer]
    BY <1>4 DEF FlightDone, FlightGoes
  <2>2. g.pc = "done" /\ g.answer = answer
    BY <1>1, <2>1 DEF FlightType
  <2> QED
    BY <1>4, <2>2 DEF Keeps
<1>5. CASE InGroup(f) /\ g \notin flights
  BY <1>1, <1>4, <1>5, ThereIsFound DEF InGroup
<1>6. CASE Get(f) /\ g \notin flights
  <2>1. f.key.kind = "currency" /\ f.key.cid \in Known
    BY <1>6 DEF Get, There
  <2>2. g = [f EXCEPT !.pc = "state", !.design = pool[f.key.cid].design]
    BY <1>6, <2>1 DEF Get, FlightGoes
  <2>3. g.pc = "state"
    BY <1>1, <2>2 DEF FlightType
  <2> QED
    BY <2>3 DEF Keeps
<1>7. CASE State(f) /\ g \notin flights
  <2> DEFINE state == pool[f.key.cid].state
  <2>1. /\ f.key.kind = "currency" /\ f.design \in 0..saved /\ f.design =< state
        /\ f.key.cid \in Currencies
    BY <1>1, <1>7, URLType DEF State, FlightOK
  <2>2. state \in Int
    BY <1>1, <2>1 DEF PoolInv
  <2>3. FlightDone(f, IF state = NilHeight THEN NotFound ELSE CurrencyDocument(f.design, state))
    BY <1>7 DEF State
  <2> HIDE DEF state
  <2>4. state # NilHeight
    BY <1>2, <2>1, <2>2 DEF NilHeight
  <2>5. CurrencyDocument(f.design, state).ok
    BY DEF CurrencyDocument, OKWith
  <2> QED
    BY <1>4, <1>7, <2>3, <2>4, <2>5
<1>8. ASSUME NEW r \in Readers, StartRead(f, r), g \notin flights PROVE Keeps(g)'
  <2>1. g = [f EXCEPT !.pc = "reading"] /\ Request(r) /\ f.key.kind = "account"
    BY <1>8 DEF StartRead, FlightGoes
  <2>2. g.pc = "reading"
    BY <1>1, <2>1 DEF FlightType
  <2>3. Readers = {r} /\ reads \in [Readers -> ReadType]
    BY <1>1, ChainAssumption DEF IInv
  <2>4. reads'[r].began = Settled
    BY <2>1, <2>3 DEF Request, Read
  <2>5. \A col \in {"account", "balance"} : \E d \in Of(col) : d.height =< Settled
    BY <2>1 DEF There
  <2>6. /\ \E a \in Accounts : a.height =< Settled
        /\ \E b \in Balances : b.height =< Settled
    BY <1>1, <2>5 DEF IInv, StoreInv, Of, Accounts, Balances
  <2> QED
    BY <2>2, <2>3, <2>4, <2>6 DEF Keeps
<1>9. ASSUME NEW r \in Readers, EndRead(f, r), g \notin flights PROVE Keeps(g)'
  <2>1. /\ f.pc = "reading" /\ FlightDone(f, AccountDocument(reads[r]))
        /\ reads[r].pc \in {"found", "not found"}
    BY <1>9 DEF EndRead, Return, Complete
  <2>2. /\ f.key.kind = "account" /\ reads[r] \in ReadType /\ ReadOK(reads[r])
        /\ \A c \in Currencies : reads[r].amounts[c] \in {NilHeight} \cup 0..saved
    BY <1>1, <2>1 DEF FlightOK, IInv, Behind
  <2>3. PICK a \in Accounts, b \in Balances : a.height =< reads[r].began /\ b.height =< reads[r].began
    BY <2>1 DEF Keeps
  <2>4. reads[r].pc = "found"
    BY <2>1, <2>2, <2>3 DEF ReadOK
  <2>5. b.currency \in Currencies /\ reads[r].amounts[b.currency] # NilHeight
    BY <2>2, <2>3, <2>4, AccountAssumption DEF ReadOK, Balances
  <2>6. AccountDocument(reads[r]).ok
    BY <1>2, <2>2, <2>4, <2>5, AccountIsGood
  <2> QED
    BY <1>4, <1>9, <2>1, <2>6
<1>10. CASE Answer(f)
  BY <1>3, <1>10 DEF Answer
<1> QED
  BY <1>3, <1>5, <1>6, <1>7, <1>8, <1>9, <1>10 DEF Fly

\* So do all flights of what is there.
LEMMA FlightsKeep ==
    ASSUME AInv, ChainNext, NEW key \in URLs, There(key),
           \A f \in flights : f.key = key => Keeps(f),
           NEW g \in flights', g.key = key
    PROVE  Keeps(g)'
PROOF
<1>1. CASE g \in flights
  BY <1>1, KeepsOn
<1>2. ASSUME NEW c \in Clients, Do(c), g \notin flights PROVE Keeps(g)'
  <2>1. g.pc = "new"
    BY <1>2 DEF Do
  <2> QED
    BY <2>1 DEF Keeps
<1>3. ASSUME NEW f \in flights, Fly(f), g \notin flights PROVE Keeps(g)'
  <2>1. f \in FlightType
    BY DEF AInv, FlightsInv
  <2>2. \A p, a, d : /\ [f EXCEPT !.pc = p, !.answer = a].key = f.key
                     /\ [f EXCEPT !.pc = p, !.design = d].key = f.key
                     /\ [f EXCEPT !.pc = p].key = f.key
    BY <2>1 DEF FlightType
  <2>3. ~Answer(f)
    BY <1>3 DEF Answer
  <2>4. \E h : h.key = f.key /\ FlightGoes(f, h)
    BY <1>3, <2>2, <2>3 DEF Fly, InGroup, Get, State, StartRead, EndRead, FlightDone
  <2>5. g.key = f.key
    BY <1>3, <2>4 DEF FlightGoes
  <2> QED
    BY <1>3, <2>5, FlightKeeps
<1>4. (\E c \in Clients : Do(c)) \/ (\E f \in flights : Fly(f)) \/ flights' = flights
  BY DEF ChainNext, WhenBlockSaved, Hook, Set, SetState, HookFails, DigestBlocks, ReadAccount, Ask,
         Handle, Load, Throw, Expire, api
<1> QED
  BY <1>1, <1>2, <1>3, <1>4

LEMMA PromisedStep == AInv /\ Promised /\ ChainNext => Promised'
PROOF
<1> SUFFICES ASSUME AInv, Promised, ChainNext PROVE Promised'
  OBVIOUS
<1>1. /\ walks \in [Clients -> WalkType] /\ flights \subseteq FlightType /\ cache \subseteq EntryType
      /\ Behind /\ PoolInv
  BY DEF AInv, WalksInv, FlightsInv, EntriesInv
\* Whoever waits for what is there goes on waiting for it.
<1>2. ASSUME NEW c \in Clients, walks[c].there, walks[c].pc \in {"load", "do", "flying"},
             walks'[c].key = walks[c].key
      PROVE  There(walks[c].key)' /\ \A f \in flights' : f.key = walks'[c].key => Keeps(f)'
  <2>1. PICK key \in URLs : key = walks[c].key /\ key = walks'[c].key
    BY <1>2 DEF AInv, WalksInv
  <2>2. There(key) /\ \A f \in flights : f.key = key => Keeps(f)
    BY <1>2, <2>1 DEF Promised
  <2>3. There(key)'
    BY <2>2, ThereStays
  <2>4. \A f \in flights' : f.key = key => Keeps(f)'
    BY <2>2, FlightsKeep
  <2>5. There(walks[c].key)'
    BY <2>1, <2>3 DEF There, Document, BlockDocument, ManifestDocument, ManifestsDocument,
                      ManifestsPage,
                      OperationDocument, AccountOperationsDocument, Digested
  <2> QED
    BY <2>1, <2>4, <2>5
<1>3. ASSUME NEW c \in Clients, walks'[c] = walks[c], walks[c].there
      PROVE  /\ walks'[c].pc \in {"load", "do", "flying"} =>
                  There(walks[c].key)' /\ \A f \in flights' : f.key = walks'[c].key => Keeps(f)'
             /\ walks'[c].pc = "answered" => walks'[c].answer.ok
  BY <1>2, <1>3 DEF Promised
<1>4. ASSUME NEW c \in Clients, walks'[c] # walks[c], walks'[c].there
      PROVE  /\ walks'[c].pc \in {"load", "do", "flying"} =>
                  There(walks[c].key)' /\ \A f \in flights' : f.key = walks'[c].key => Keeps(f)'
             /\ walks'[c].pc = "answered" => walks'[c].answer.ok
  <2>0. walks[c] \in WalkType
    BY <1>1
  <2>1. CASE Ask(c)
    <3>1. PICK key \in URLs : walks' = [walks EXCEPT ![c] = Requested(key)]
      BY <2>1, AskedAssumption DEF Ask
    <3>2. walks'[c].pc = "load" /\ walks'[c].key = key /\ There(key) /\ FlightsOf(key) = {}
      BY <1>1, <1>4, <3>1, WalkSteps
    <3>3. flights' = flights
      BY <2>1 DEF Ask
    <3>4. There(key)'
      BY <3>2, ThereStays
    <3>5. There(walks[c].key)'
      BY <3>2, <3>4 DEF There, Document, BlockDocument, ManifestDocument, ManifestsDocument,
                        ManifestsPage,
                        OperationDocument, AccountOperationsDocument, Digested
    <3> QED
      BY <3>2, <3>3, <3>5 DEF FlightsOf
  <2>2. CASE Load(c)
    <3>1. walks[c].pc = "load"
      BY <2>2 DEF Load
    <3>2. CASE walks' = [walks EXCEPT ![c].pc = "do"]
      <4>1. walks'[c] = [walks[c] EXCEPT !.pc = "do"]
        BY <1>1, <3>2
      <4>2. walks'[c].pc = "do" /\ walks'[c].key = walks[c].key /\ walks[c].there
        BY <1>4, <2>0, <4>1, WalkSteps
      <4> QED
        BY <1>2, <3>1, <4>2
    <3>3. CASE \E e \in cache : walks' = [walks EXCEPT ![c] = Received(@, e.answer)]
      <4>1. PICK e \in cache : walks' = [walks EXCEPT ![c] = Received(@, e.answer)]
        BY <3>3
      <4>2. walks'[c] = Received(walks[c], e.answer) /\ e.answer \in AnswerType /\ e.answer.ok
        BY <1>1, <4>1 DEF AInv, EntriesInv, EntryType
      <4>3. walks'[c].pc = "answered" /\ walks'[c].answer = e.answer
        BY <2>0, <4>2, WalkSteps
      <4> QED
        BY <4>2, <4>3
    <3> QED
      BY <2>2, <3>2, <3>3 DEF Load
  <2>3. CASE Do(c)
    <3>1. walks[c].pc = "do" /\ walks'[c] = [walks[c] EXCEPT !.pc = "flying"]
      BY <1>1, <2>3 DEF Do
    <3>2. walks'[c].pc = "flying" /\ walks'[c].key = walks[c].key /\ walks[c].there
      BY <1>4, <2>0, <3>1, WalkSteps
    <3> QED
      BY <1>2, <3>1, <3>2
  <2>4. ASSUME NEW f \in flights, Answer(f)
        PROVE  walks'[c].pc = "answered" /\ walks'[c].answer.ok
    <3>1. /\ f.pc = "done" /\ f.answer \in AnswerType
          /\ walks[c].pc = "flying" /\ walks[c].key = f.key
          /\ walks'[c] = Received(walks[c], f.answer)
      BY <1>1, <1>4, <2>4 DEF Answer, Flying, FlightType
    <3>2. walks'[c].pc = "answered" /\ walks'[c].answer = f.answer /\ walks[c].there
      BY <1>4, <2>0, <3>1, WalkSteps
    <3>3. Keeps(f)
      BY <3>1, <3>2 DEF Promised
    <3> QED
      BY <3>1, <3>2, <3>3 DEF Keeps
  <2>5. \/ Ask(c) \/ Load(c) \/ Do(c)
        \/ \E f \in flights : Answer(f)
    <3>1. \A b \in Clients : Ask(b) \/ Load(b) \/ Do(b) => b = c \/ walks'[c] = walks[c]
      BY <1>1 DEF Ask, Load, Do
    <3>2. \/ \E b \in Clients : Ask(b) \/ Load(b) \/ Do(b)
          \/ \E f \in flights : Answer(f)
          \/ walks' = walks
      BY DEF ChainNext, WhenBlockSaved, Hook, Set, SetState, HookFails, DigestBlocks, ReadAccount,
             Handle, Throw, Expire, Fly, InGroup, Get, State, StartRead, EndRead, FlightDone,
             FlightGoes, api
    <3> QED
      BY <1>4, <3>1, <3>2
  <2> QED
    BY <2>1, <2>2, <2>3, <2>4, <2>5
<1>5. ASSUME NEW c \in Clients, walks'[c].there
      PROVE  /\ walks'[c].pc \in {"load", "do", "flying"} =>
                  There(walks[c].key)' /\ \A f \in flights' : f.key = walks'[c].key => Keeps(f)'
             /\ walks'[c].pc = "answered" => walks'[c].answer.ok
  <2>1. CASE walks'[c] = walks[c]
    BY <1>3, <1>5, <2>1
  <2>2. CASE walks'[c] # walks[c]
    BY <1>4, <1>5, <2>2
  <2> QED
    BY <2>1, <2>2
<1> QED
  BY <1>5 DEF Promised

\* What was there when it was asked for, and nobody was asking for it, is not
\* answered with a 404, whatever is saved, digested, failed and started again
\* meanwhile.
THEOREM WhatIsAskedForIsFound == ChainSpec => []WhatIsThereIsFound
PROOF
<1>1. ASSUME ChainInit PROVE Promised
  <2>1. \A c \in Clients : walks[c] = Idle
    BY <1>1 DEF ChainInit
  <2>2. Idle.there = FALSE
    BY DEF Idle
  <2> QED
    BY <2>1, <2>2 DEF Promised
<1>2. AInv /\ Promised /\ [ChainNext]_chainVars => Promised'
  <2> SUFFICES ASSUME AInv, Promised, UNCHANGED chainVars PROVE Promised'
    BY PromisedStep
  <2>1. UNCHANGED <<saved, pool, stored, next, reads, flights, walks>>
    BY DEF chainVars, vars, store, chain, api
  <2>2. \A key : There(key)' <=> There(key)
    BY <2>1 DEF There, Of, Settled, Known, Document, BlockDocument, ManifestDocument,
                ManifestsDocument,
                ManifestsPage, OperationDocument, AccountOperationsDocument, Digested, NodeInfoDocument, CurrenciesDocument
  <2> QED
    BY <2>1, <2>2 DEF Promised, Keeps
<1>3. Promised => WhatIsThereIsFound
  BY DEF Promised, WhatIsThereIsFound
<1> QED
  BY <1>1, <1>2, <1>3, ApiInvariance, PTL DEF ChainSpec
=============================================================================
