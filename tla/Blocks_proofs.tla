---------------------------- MODULE Blocks_proofs ----------------------------
(***************************************************************************)
(* What holds of the blocks an operation processor makes, for every set of *)
(* accounts, currencies, policies and operations: fees can be paid, every  *)
(* balance has an owner, money leaves an account by its own keys alone, no *)
(* money is made or lost, new accounts have the least balance, and the     *)
(* blocks are those of the abstract ledger.                                *)
(*                                                                         *)
(* The proofs add to IInv, the invariant of OperationProcessor_proofs,     *)
(* what ties the state pool to the operations processed so far.            *)
(***************************************************************************)
EXTENDS OperationProcessor_proofs

(***************************************************************************)
(* The state pool between proposals, and who wrote what is in it           *)
(***************************************************************************)

\* What the tables and the state pool say of the proposal.  Between proposals
\* they are empty; the pool is closed only when all is done; a proposed
\* operation is in no block; an account or design state that was Set was Set
\* by an operation that Process has finished with.
PoolIsOfProposal ==
    /\ proposed = {} => /\ fee = NoFee
                        /\ delta = NoDelta
                        /\ touched = {}
                        /\ newAccount = NoNewAccounts
                        /\ newDesign = NoNewDesigns
    /\ closed => proposed # {} /\ AllDone
    /\ proposed \cap committed = {}

Wrote(o, x) == status[o] = "processed" /\ x \in Overwrites(o)

WrittenByProposal ==
    /\ \A a \in Addresses : newAccount[a] # NoKeys =>
          \E o \in Ops : ~IsCurrencyOperation(o) /\ Wrote(o, a)
    /\ \A c \in Currencies : newDesign[c] # NoDesign =>
          \E o \in Ops : IsCurrencyOperation(o) /\ Wrote(o, c)

\* No keys an account may have are the absence of keys.
LEMMA NoKeysAreKeys == NoKeys \notin AccountKeys
PROOF
<1>1. AccountKeys \subseteq AnyKeys
  BY KeysAssumption DEF AccountKeys
<1> QED
  BY <1>1, NoValuesAssumption

LEMMA PoolInit == Init => PoolIsOfProposal /\ WrittenByProposal
PROOF
  BY DEF Init, FreshTables, PoolIsOfProposal, WrittenByProposal, GenesisLedger,
         NoNewAccounts, NoNewDesigns

\* A dropped proposal leaves nothing behind.
LEMMA PoolDropped ==
    ASSUME DropProposal
    PROVE  PoolIsOfProposal' /\ WrittenByProposal'
PROOF
  BY DEF DropProposal, PoolIsOfProposal, WrittenByProposal, NoNewAccounts, NoNewDesigns

\* Every step keeps the tables and the state pool those of the proposal.
LEMMA PoolStep ==
    ASSUME IInv, PoolIsOfProposal, [Next]_vars
    PROVE  PoolIsOfProposal'
PROOF
<1>0. TypeOK
  BY DEF IInv
<1>1. ASSUME NEW P \in SUBSET (Ops \ committed), NewProposal(P)
      PROVE  PoolIsOfProposal'
  <2>1. ~closed /\ ~closed'
    BY <1>1 DEF NewProposal, PoolIsOfProposal, changes
  <2>2. proposed' = P /\ proposed' # {} /\ committed' = committed
    BY <1>1 DEF NewProposal, ledger
  <2> QED
    BY <2>1, <2>2 DEF PoolIsOfProposal
<1>2. ASSUME NEW o \in Ops,
             Validate(o) \/ Invalidate(o) \/ CheckDuplication(o) \/ Process(o)
      PROVE  PoolIsOfProposal'
  <2>1. o \in proposed /\ status[o] \in {"proposed", "validated", "accepted"}
    BY <1>2 DEF Validate, Invalidate, CheckDuplication, Process
  <2>2. ~closed
    BY <2>1 DEF PoolIsOfProposal, AllDone
  <2>3. proposed' = proposed /\ committed' = committed /\ closed' = closed
    BY <1>2 DEF Validate, Invalidate, CheckDuplication, Process, ledger, changes
  <2> QED
    BY <1>0, <2>1, <2>2, <2>3 DEF PoolIsOfProposal, TypeOK
<1>3. CASE Close
  <2>1. proposed # {} /\ proposed' = proposed /\ committed' = committed /\ AllDone'
    BY <1>3 DEF Close, ledger, AllDone
  <2> QED
    BY <2>1 DEF PoolIsOfProposal
<1>4. CASE Cancel \/ Save \/ Restart
  BY <1>4, PoolDropped DEF Cancel, Save, Restart
<1>5. CASE WhenBlockSaved \/ UNCHANGED vars
  <2>1. UNCHANGED <<proposed, status, fee, delta, touched, newAccount, newDesign,
                    closed, committed>>
    BY <1>5 DEF WhenBlockSaved, vars, ledger, tables, changes
  <2> QED
    BY <2>1 DEF PoolIsOfProposal, AllDone
<1> QED
  BY <1>1, <1>2, <1>3, <1>4, <1>5 DEF Next

\* What Process sets are the states of the operation.
LEMMA ProcessWrites ==
    ASSUME IInv, NEW o \in Ops, Process(o)
    PROVE  /\ \A a \in Addresses :
                \/ newAccount'[a] = newAccount[a]
                \/ /\ newAccount'[a] \in AccountKeys
                   /\ ~IsCurrencyOperation(o) /\ a \in Overwrites(o)
           /\ \A c \in Currencies :
                \/ newDesign'[c] = newDesign[c]
                \/ newDesign'[c] \in Designs /\ IsCurrencyOperation(o) /\ c \in Overwrites(o)
PROOF
<1>0. TypeOK /\ TypeOK' /\ PreProcessOK(o)
  BY ProcessType DEF IInv, ChecksStillHold, Process
<1>1. CASE o.type = "key-updater"
  <2>1. newDesign' = newDesign /\ newAccount' = [newAccount EXCEPT ![o.target] = o.keys]
    BY <1>1 DEF Process, AccountsSet, DesignsSet
  <2> QED
    BY <1>0, <1>1, <2>1, KeyUpdaterFields DEF Overwrites, IsCurrencyOperation, TypeOK
<1>2. CASE o.type = "create-accounts"
  <2>1. /\ newDesign' = newDesign
        /\ newAccount' = [a \in Addresses |-> IF a \in Receivers(o) THEN KeysOf[a]
                                              ELSE newAccount[a]]
    BY <1>2 DEF Process, AccountsSet, DesignsSet
  <2> QED
    BY <1>0, <1>2, <2>1 DEF Overwrites, IsCurrencyOperation, Targets, AccountKeys
<1>3. CASE IsCurrencyOperation(o)
  <2>1. newAccount' = newAccount
    BY <1>3 DEF Process, AccountsSet, IsCurrencyOperation
  <2>2. \A c \in Currencies : c # o.currency => newDesign'[c] = newDesign[c]
    BY <1>0, <1>3, CurrencyRegisterFields, CurrencyPolicyUpdaterFields
       DEF Process, DesignsSet, IsCurrencyOperation, TypeOK
  <2>3. o.currency \in Currencies
    BY <1>3, CurrencyRegisterFields, CurrencyPolicyUpdaterFields DEF IsCurrencyOperation
  <2>4. newDesign'[o.currency] \in Designs
    <3>1. CASE o.type = "currency-register"
      BY <1>0, <2>3, <3>1, CurrencyRegisterFields DEF Process, DesignsSet, TypeOK
    <3>2. CASE o.type = "currency-policy-updater"
      <4>1. design[o.currency] \in Designs
        BY <1>0, <2>3, <3>2 DEF PreProcessOK, SuffrageOK, CurrencyPolicyUpdaterOK,
                                IsCurrencyOperation, TypeOK
      <4>2. [amount |-> design[o.currency].amount, policy |-> o.policy] \in Designs
        BY <4>1, <3>2, CurrencyPolicyUpdaterFields DEF Designs
      <4> QED
        BY <1>0, <2>3, <3>2, <4>2 DEF Process, DesignsSet, TypeOK
    <3> QED
      BY <1>3, <3>1, <3>2 DEF IsCurrencyOperation
  <2>5. o.type # "key-updater" /\ Overwrites(o) = {o.currency}
    BY <1>3 DEF IsCurrencyOperation, Overwrites
  <2> QED
    BY <1>3, <2>1, <2>2, <2>4, <2>5
<1>4. CASE o.type \notin {"key-updater", "create-accounts"} /\ ~IsCurrencyOperation(o)
  <2>1. newAccount' = newAccount /\ newDesign' = newDesign
    BY <1>4 DEF Process, AccountsSet, DesignsSet, IsCurrencyOperation
  <2> QED
    BY <2>1
<1> QED
  BY <1>1, <1>2, <1>3, <1>4

\* Every state that was Set keeps an operation that Set it.
LEMMA WrittenStep ==
    ASSUME IInv, PoolIsOfProposal, WrittenByProposal, [Next]_vars
    PROVE  WrittenByProposal'
PROOF
<1>0. TypeOK
  BY DEF IInv
<1>1. ASSUME UNCHANGED <<newAccount, newDesign>>,
             \A p \in Ops : status[p] = "processed" => status'[p] = "processed"
      PROVE  WrittenByProposal'
  BY <1>1 DEF WrittenByProposal, Wrote, Overwrites
<1>2. ASSUME NEW P \in SUBSET (Ops \ committed), NewProposal(P)
      PROVE  WrittenByProposal'
  BY <1>1, <1>2 DEF NewProposal, changes
<1>3. ASSUME NEW o \in Ops, Validate(o) \/ Invalidate(o) \/ CheckDuplication(o)
      PROVE  WrittenByProposal'
  <2>1. \A p \in Ops : status[p] = "processed" => status'[p] = "processed"
    BY <1>0, <1>3
       DEF Validate, Invalidate, CheckDuplication, Accept, Reject, SetStatus, TypeOK
  <2> QED
    BY <1>1, <1>3, <2>1 DEF Validate, Invalidate, CheckDuplication, changes
<1>4. ASSUME NEW o \in Ops, Process(o)
      PROVE  WrittenByProposal'
  <2>1. /\ status'[o] = "processed"
        /\ \A p \in Ops : status[p] = "processed" => status'[p] = "processed"
    BY <1>0, <1>4 DEF Process, SetStatus, TypeOK
  <2>2. \A p \in Ops : \A x : Wrote(p, x) => Wrote(p, x)'
    BY <2>1 DEF Wrote, Overwrites
  <2>3. \A x \in Overwrites(o) : Wrote(o, x)'
    BY <2>1 DEF Wrote, Overwrites
  <2> QED
    BY <1>4, <2>2, <2>3, ProcessWrites DEF WrittenByProposal
<1>5. CASE Close
  BY <1>1, <1>5 DEF Close
<1>6. CASE Cancel \/ Save \/ Restart
  BY <1>6, PoolDropped DEF Cancel, Save, Restart
<1>7. CASE WhenBlockSaved \/ UNCHANGED vars
  BY <1>1, <1>7 DEF WhenBlockSaved, vars, changes
<1> QED
  BY <1>2, <1>3, <1>4, <1>5, <1>6, <1>7 DEF Next

(***************************************************************************)
(* Receivers of fees exist, and balances have owners                       *)
(***************************************************************************)

\* The receiver of the fees of every design, in the blocks, in the currency
\* pool and in the state pool, is an account: accounts are never removed, and
\* the processors look the receiver of a new policy up in the last block.
ReceiversExist ==
    \A c \in Currencies : \A de \in {design[c], cp[c], newDesign[c]} :
        de # NoDesign => ReceiverIsOK(de.policy.feeer)

\* The currency pool knows no currency that the blocks do not.
PoolIsBehind == \A c \in Currencies : cp[c] # NoDesign => design[c] # NoDesign

\* Accounts and currencies stay.
LEMMA NothingIsRemoved ==
    ASSUME IInv, [Next]_vars
    PROVE  /\ \A a \in Addresses : Exists(a) => Exists(a)'
           /\ \A c \in Currencies : design[c] # NoDesign => design'[c] # NoDesign
PROOF
<1>0. TypeOK
  BY DEF IInv
<1>1. CASE UNCHANGED ledger
  BY <1>1 DEF ledger, Exists
<1>2. CASE Save
  BY <1>2 DEF Save, Exists
<1>3. UNCHANGED ledger \/ Save
  BY DEF Next, NewProposal, Validate, Invalidate, CheckDuplication, Process, Close,
         Cancel, WhenBlockSaved, Restart, vars
<1> QED
  BY <1>1, <1>2, <1>3

\* An accepted receiver stays accepted.
LEMMA ReceiverStays ==
    ASSUME IInv, [Next]_vars, NEW f \in F!Feeers, ReceiverIsOK(f)
    PROVE  ReceiverIsOK(f)'
PROOF
  BY NothingIsRemoved, ReceiverType DEF ReceiverIsOK

LEMMA FeeersOfDesigns ==
    ASSUME NEW de \in Designs
    PROVE  de.policy.feeer \in F!Feeers
PROOF
  BY DEF Designs, Policies

LEMMA ReceiversInit == Init => ReceiversExist /\ PoolIsBehind
PROOF
<1> SUFFICES ASSUME Init
             PROVE  ReceiversExist /\ PoolIsBehind
  OBVIOUS
<1>1. /\ design = GenesisDesigns /\ cp = GenesisDesigns
      /\ \A c \in Currencies : newDesign[c] = NoDesign
  BY DEF Init, GenesisLedger, FreshTables, NoNewDesigns
<1>2. Exists(Genesis)
  BY GenesisAssumption, NoKeysAreKeys DEF Init, GenesisLedger, NoNewAccounts, Exists,
                                          AccountKeys
<1>3. ASSUME NEW c \in Currencies, GenesisDesigns[c] # NoDesign
      PROVE  ReceiverIsOK(GenesisDesigns[c].policy.feeer)
  BY <1>2, <1>3, GenesisAssumption DEF ReceiverIsOK
<1> QED
  BY <1>1, <1>3 DEF ReceiversExist, PoolIsBehind

\* A design that Process sets names a receiver that exists.
LEMMA ProcessedReceiver ==
    ASSUME IInv, NEW o \in Ops, Process(o), NEW c \in Currencies,
           newDesign'[c] # newDesign[c]
    PROVE  ReceiverIsOK(newDesign'[c].policy.feeer)
PROOF
<1>0. TypeOK /\ PreProcessOK(o)
  BY DEF IInv, ChecksStillHold, Process
<1>1. CASE o.type = "currency-register"
  <2>1. c = o.currency /\ newDesign'[c] = o.design
    BY <1>0, <1>1, CurrencyRegisterFields DEF Process, DesignsSet, TypeOK
  <2> QED
    BY <1>0, <1>1, <2>1
       DEF PreProcessOK, SuffrageOK, CurrencyRegisterOK, IsCurrencyOperation
<1>2. CASE o.type = "currency-policy-updater"
  <2>1. c = o.currency /\ newDesign'[c].policy = o.policy
    BY <1>0, <1>2, CurrencyPolicyUpdaterFields DEF Process, DesignsSet, TypeOK
  <2> QED
    BY <1>0, <1>2, <2>1
       DEF PreProcessOK, SuffrageOK, CurrencyPolicyUpdaterOK, IsCurrencyOperation
<1>3. CASE o.type \notin {"currency-register", "currency-policy-updater"}
  BY <1>3 DEF Process, DesignsSet
<1> QED
  BY <1>1, <1>2, <1>3

\* Every design of a step was in the blocks or in the pools before it, or is
\* one that Process sets.
LEMMA DesignsComeFrom ==
    ASSUME IInv, [Next]_vars, NEW c \in Currencies,
           NEW de \in {design'[c], cp'[c], newDesign'[c]}, de # NoDesign
    PROVE  \/ de \in {design[c], cp[c], newDesign[c]}
           \/ \E o \in Ops : Process(o) /\ de = newDesign'[c] /\ de # newDesign[c]
PROOF
<1>0. TypeOK
  BY DEF IInv
<1>1. ASSUME UNCHANGED <<design, cp, newDesign>>
      PROVE  de \in {design[c], cp[c], newDesign[c]}
  BY <1>1
<1>2. ASSUME NEW o \in Ops, Process(o)
      PROVE  \/ de \in {design[c], cp[c], newDesign[c]}
             \/ de = newDesign'[c] /\ de # newDesign[c]
  BY <1>2 DEF Process, ledger, pool
<1>3. ASSUME NEW o \in Ops, Validate(o) \/ Invalidate(o) \/ CheckDuplication(o)
      PROVE  de \in {design[c], cp[c], newDesign[c]}
  BY <1>1, <1>3 DEF Validate, Invalidate, CheckDuplication, ledger, pool, changes
<1>4. ASSUME NEW P \in SUBSET (Ops \ committed), NewProposal(P)
      PROVE  de \in {design[c], cp[c], newDesign[c]}
  BY <1>1, <1>4 DEF NewProposal, ledger, pool, changes
<1>5. CASE Close \/ UNCHANGED vars
  BY <1>1, <1>5 DEF Close, vars, ledger, pool, changes
<1>6. CASE Cancel \/ Restart \/ Save
  BY <1>0, <1>6 DEF Cancel, Restart, Save, DropProposal, SetDesigns, NoNewDesigns,
                    ledger, pool, TypeOK
<1>7. CASE WhenBlockSaved
  BY <1>0, <1>7 DEF WhenBlockSaved, SetDesigns, ledger, changes, TypeOK
<1> QED
  BY <1>2, <1>3, <1>4, <1>5, <1>6, <1>7 DEF Next

LEMMA ReceiversStep ==
    ASSUME IInv, ReceiversExist, [Next]_vars
    PROVE  ReceiversExist'
PROOF
<1> SUFFICES ASSUME NEW c \in Currencies,
                    NEW de \in {design'[c], cp'[c], newDesign'[c]}, de # NoDesign
             PROVE  ReceiverIsOK(de.policy.feeer)'
  BY DEF ReceiversExist, ReceiverIsOK, Exists
<1>1. ReceiverIsOK(de.policy.feeer)
  BY DesignsComeFrom, ProcessedReceiver DEF ReceiversExist
<1>2. de \in Designs
  BY TypeStep DEF TypeOK
<1> QED
  BY <1>1, <1>2, FeeersOfDesigns, ReceiverStays

LEMMA BehindStep ==
    ASSUME IInv, PoolIsBehind, [Next]_vars
    PROVE  PoolIsBehind'
PROOF
<1>0. TypeOK
  BY DEF IInv
<1>1. ASSUME NEW c \in Currencies
      PROVE  cp'[c] \in {cp[c], design[c]}
  <2>1. CASE WhenBlockSaved \/ Restart
    BY <1>0, <2>1 DEF WhenBlockSaved, Restart, SetDesigns
  <2>2. CASE UNCHANGED cp
    BY <2>2
  <2>3. WhenBlockSaved \/ Restart \/ UNCHANGED cp
    BY DEF Next, NewProposal, Validate, Invalidate, CheckDuplication, Process, Close,
           Cancel, Save, pool, vars
  <2> QED
    BY <2>1, <2>2, <2>3
<1> QED
  BY <1>1, NothingIsRemoved DEF PoolIsBehind

(***************************************************************************)
(* Fees                                                                    *)
(***************************************************************************)

\* A fee is only charged in a currency the operation uses, and under a policy
\* that names somebody to receive it.
LEMMA FeeHasReceiver ==
    ASSUME TypeOK, NEW o \in Ops, PreProcessOK(o), NEW c \in Currencies,
           Charge(o, cp, c).fee > 0
    PROVE  c \in Used(o) /\ cp[c] # NoDesign /\ F!HasReceiver(cp[c].policy.feeer)
PROOF
<1>1. c \in Used(o)
  BY DEF Charge, NoCharge
<1>2. cp[c] # NoDesign /\ cp[c] \in Designs
  BY <1>1, CheckedCharge DEF TypeOK
<1> DEFINE f == cp[c].policy.feeer
<1>3. f \in F!Feeers
  BY <1>2, FeeersOfDesigns
<1> HIDE DEF f
<1>4. ASSUME ~F!HasReceiver(f)
      PROVE  FALSE
  <2>1. f.type = "nil" /\ \A n \in Nat : F!Fee(f, n) = 0
    BY <1>4 DEF F!HasReceiver, F!Fee
  <2>2. CASE HasItems(o)
    <3> DEFINE fees == [r \in Addresses |-> ItemFee(f, o.amounts[r][c])]
    <3>1. \A r \in Addresses : o.amounts[r][c] \in Nat
      BY <2>2, ItemsFields
    <3>2. \A r \in Addresses : ItemFee(f, o.amounts[r][c]) = 0
      BY <2>1, <3>1 DEF ItemFee
    <3>3. fees \in [Addresses -> Nat] /\ \A r \in Addresses : fees[r] = 0
      BY <3>2
    <3>4. Charge(o, cp, c).fee = Total(fees)
      BY <1>1, <2>2 DEF Charge, ItemsFee, f
    <3> HIDE DEF fees
    <3> QED
      BY <3>3, <3>4, TotalZero
  <2>3. CASE ~HasItems(o)
    BY <1>1, <2>1, <2>3 DEF Charge, KeyUpdaterFee, f
  <2> QED
    BY <2>2, <2>3
<1> QED
  BY <1>1, <1>2, <1>4 DEF f

LEMMA FeesStep ==
    ASSUME IInv, PoolIsOfProposal, ReceiversExist, FeesArePayable, [Next]_vars
    PROVE  FeesArePayable'
PROOF
<1>0. TypeOK
  BY DEF IInv
<1>1. ASSUME UNCHANGED <<cp, account, fee>>
      PROVE  FeesArePayable'
  BY <1>1 DEF FeesArePayable, FeeIsPayable, FeeReceiver, Registered, Exists
<1>2. ASSUME fee' = NoFee
      PROVE  FeesArePayable'
  BY <1>2 DEF FeesArePayable, NoFee
<1>3. ASSUME NEW o \in Ops, Process(o)
      PROVE  FeesArePayable'
  <2> SUFFICES ASSUME NEW c \in Currencies, fee'[c] > 0
               PROVE  FeeIsPayable(c)'
    BY DEF FeesArePayable
  <2>1. cp' = cp /\ account' = account
    BY <1>3 DEF Process, ledger, pool
  <2>2. PreProcessOK(o) /\ required[o][c] = Charge(o, cp, c)
    BY <1>3 DEF IInv, ChecksStillHold, Process
  <2>3. fee'[c] = fee[c] + Charge(o, cp, c).fee
    BY <1>3, <2>2 DEF Process
  <2>4. fee[c] \in Nat /\ Charge(o, cp, c).fee \in Nat
    BY <1>0, <2>2, CheckedCharge DEF TypeOK, Charges
  <2>5. CASE fee[c] > 0
    BY <2>1, <2>5 DEF FeesArePayable, FeeIsPayable, FeeReceiver, Registered, Exists
  <2>6. CASE Charge(o, cp, c).fee > 0
    <3>1. cp[c] # NoDesign /\ F!HasReceiver(cp[c].policy.feeer)
      BY <1>0, <2>2, <2>6, FeeHasReceiver
    <3>2. ReceiverIsOK(cp[c].policy.feeer)
      BY <3>1 DEF ReceiversExist
    <3> QED
      BY <2>1, <3>1, <3>2 DEF FeeIsPayable, FeeReceiver, Registered, Exists, ReceiverIsOK
  <2> QED
    BY <2>3, <2>4, <2>5, <2>6
<1>4. ASSUME NEW P \in SUBSET (Ops \ committed), NewProposal(P)
      PROVE  FeesArePayable'
  BY <1>1, <1>4 DEF NewProposal, ledger, pool, tables
<1>5. ASSUME NEW o \in Ops, Validate(o) \/ Invalidate(o) \/ CheckDuplication(o)
      PROVE  FeesArePayable'
  BY <1>1, <1>5 DEF Validate, Invalidate, CheckDuplication, ledger, pool, tables
<1>6. CASE Close \/ UNCHANGED vars
  BY <1>1, <1>6 DEF Close, vars, ledger, pool, tables
<1>7. CASE Cancel \/ Save \/ Restart
  BY <1>2, <1>7 DEF Cancel, Save, Restart, DropProposal
<1>8. CASE WhenBlockSaved
  <2>1. fee = NoFee /\ fee' = fee
    BY <1>8 DEF IInv, WhenBlockSaved, PoolIsOfProposal, tables
  <2> QED
    BY <1>2, <2>1
<1> QED
  BY <1>3, <1>4, <1>5, <1>6, <1>7, <1>8 DEF Next

(***************************************************************************)
(* Owners of balances                                                      *)
(***************************************************************************)

\* The least a balance state needs to have an owner.
Owned(a, c) ==
    /\ account[a] # NoKeys \/ newAccount[a] # NoKeys
    /\ design[c] # NoDesign \/ newDesign[c] # NoDesign

\* A balance state of the blocks has its owner in the blocks.
HeldHasOwner ==
    \A a \in Addresses, c \in Currencies :
        <<a, c>> \in held => account[a] # NoKeys /\ design[c] # NoDesign

\* There is no money outside the balance states.
MoneyIsHeld ==
    \A a \in Addresses, c \in Currencies :
        /\ <<a, c>> \notin held => balance[a][c] = 0
        /\ <<a, c>> \notin touched => delta[a][c] = 0

\* The currencies of an operation with items are those its items name.
LEMMA UsedByItems ==
    ASSUME NEW o \in Ops, HasItems(o), NEW c \in Currencies
    PROVE  c \in Used(o) <=> \E r \in Addresses : o.amounts[r][c] > 0
PROOF
<1> DEFINE S == {d \in Currencies : \E r \in Addresses : o.amounts[r][d] > 0}
<1>1. Used(o) = S
  BY DEF Used, HasItems
<1>2. c \in S <=> \E r \in Addresses : o.amounts[r][c] > 0
  OBVIOUS
<1> HIDE DEF S
<1> QED
  BY <1>1, <1>2

\* Whom an operation gives to: an account that exists, or one it creates, in
\* a currency that is registered, or that it registers.
LEMMA GainHasOwner ==
    ASSUME IInv, PoolIsBehind, NEW o \in Ops, Process(o),
           NEW a \in Addresses, NEW c \in Currencies, Gain(o, a, c) > 0
    PROVE  /\ Exists(a) \/ newAccount'[a] # NoKeys
           /\ design[c] # NoDesign \/ newDesign'[c] # NoDesign
           /\ ~Exists(a) => o.type = "create-accounts" /\ a \in Receivers(o)
PROOF
<1>0. TypeOK /\ PreProcessOK(o)
  BY DEF IInv, ChecksStillHold, Process
<1>1. CASE HasItems(o)
  <2>1. ~IsCurrencyOperation(o) /\ o.type # "currency-register" /\ PayerOK(o)
    BY <1>0, <1>1 DEF HasItems, IsCurrencyOperation, PreProcessOK
  <2>2. o.amounts[a][c] > 0
    BY <1>1, <2>1 DEF Gain, Credit
  <2>3. a \in Receivers(o) /\ c \in Used(o)
    <3>1. a \in Receivers(o)
      BY <2>2 DEF Receivers
    <3>2. c \in Used(o)
      BY <1>1, <2>2, UsedByItems
    <3> QED
      BY <3>1, <3>2
  <2>4. design[c] # NoDesign
    BY <2>1, <2>3 DEF PayerOK, Registered, PoolIsBehind
  <2>5. CASE o.type = "transfers"
    BY <2>1, <2>3, <2>4, <2>5 DEF PayerOK, TransfersOK
  <2>6. CASE o.type = "create-accounts"
    <3>1. newAccount'[a] = KeysOf[a]
      BY <2>3, <2>6 DEF Process, AccountsSet
    <3> QED
      BY <2>3, <2>4, <2>6, <3>1, NoKeysAreKeys DEF AccountKeys
  <2> QED
    BY <1>1, <2>5, <2>6 DEF HasItems
<1>2. CASE ~HasItems(o)
  <2>1. o.type = "currency-register" /\ a = o.genesis /\ c = o.currency
    BY <1>2 DEF Gain, Credit
  <2>2. Exists(a)
    BY <1>0, <2>1 DEF PreProcessOK, SuffrageOK, CurrencyRegisterOK, IsCurrencyOperation
  <2>3. newDesign'[c] = o.design
    BY <1>0, <2>1, CurrencyRegisterFields DEF Process, DesignsSet, TypeOK
  <2> QED
    BY <2>1, <2>2, <2>3, CurrencyRegisterFields, NoValuesAssumption
<1> QED
  BY <1>1, <1>2

\* Whom an operation takes from: an account that exists, in a currency that
\* is registered.
LEMMA PayerIsOwner ==
    ASSUME IInv, PoolIsBehind, NEW o \in Ops, Process(o), ~IsCurrencyOperation(o)
    PROVE  /\ Exists(Payer(o))
           /\ \A c \in Currencies : c \in Used(o) => design[c] # NoDesign
PROOF
<1>1. PayerOK(o)
  BY DEF IInv, ChecksStillHold, Process, PreProcessOK
<1> QED
  BY <1>1 DEF PayerOK, Registered, PoolIsBehind

\* What is Set in the state pool stays set until the proposal ends.
LEMMA ProcessKeepsStates ==
    ASSUME IInv, NEW o \in Ops, Process(o)
    PROVE  /\ \A a \in Addresses : newAccount[a] # NoKeys => newAccount'[a] # NoKeys
           /\ \A c \in Currencies : newDesign[c] # NoDesign => newDesign'[c] # NoDesign
PROOF
  BY ProcessWrites, NoKeysAreKeys, NoValuesAssumption

LEMMA OwnersInit == Init => BalanceHasOwner /\ HeldHasOwner /\ MoneyIsHeld
PROOF
<1> SUFFICES ASSUME Init
             PROVE  BalanceHasOwner /\ HeldHasOwner /\ MoneyIsHeld
  OBVIOUS
<1>1. Exists(Genesis)
  BY GenesisAssumption, NoKeysAreKeys DEF Init, GenesisLedger, NoNewAccounts, Exists,
                                          AccountKeys
<1>2. HeldHasOwner
  BY <1>1 DEF Init, GenesisLedger, HeldHasOwner, Exists
<1>3. touched = {} /\ delta = NoDelta
  BY DEF Init, FreshTables
<1>4. MoneyIsHeld
  BY <1>3 DEF Init, GenesisLedger, MoneyIsHeld, NoDelta
<1> QED
  BY <1>2, <1>3, <1>4 DEF HeldHasOwner, BalanceHasOwner

LEMMA HeldStep ==
    ASSUME IInv, BalanceHasOwner, HeldHasOwner, [Next]_vars
    PROVE  HeldHasOwner'
PROOF
<1>1. CASE UNCHANGED ledger
  BY <1>1 DEF HeldHasOwner, ledger
<1>2. CASE Save
  <2> SUFFICES ASSUME NEW a \in Addresses, NEW c \in Currencies,
                      <<a, c>> \in held \cup touched
               PROVE  account'[a] # NoKeys /\ design'[c] # NoDesign
    BY <1>2 DEF HeldHasOwner, Save
  <2> QED
    BY <1>2 DEF BalanceHasOwner, Save
<1>3. UNCHANGED ledger \/ Save
  BY DEF Next, NewProposal, Validate, Invalidate, CheckDuplication, Process, Close,
         Cancel, WhenBlockSaved, Restart, vars
<1> QED
  BY <1>1, <1>2, <1>3

LEMMA OwnersStep ==
    ASSUME IInv, BalanceHasOwner, HeldHasOwner, PoolIsBehind, [Next]_vars
    PROVE  BalanceHasOwner'
PROOF
<1>0. TypeOK
  BY DEF IInv
<1>1. ASSUME UNCHANGED <<ledger, touched, newAccount, newDesign>>
      PROVE  BalanceHasOwner'
  BY <1>1 DEF BalanceHasOwner, ledger
<1>2. ASSUME NEW o \in Ops, Process(o)
      PROVE  BalanceHasOwner'
  <2> SUFFICES ASSUME NEW a \in Addresses, NEW c \in Currencies,
                      <<a, c>> \in held' \cup touched'
               PROVE  Owned(a, c)'
    BY DEF BalanceHasOwner, Owned
  <2>1. UNCHANGED <<account, design, held>>
    BY <1>2 DEF Process, ledger
  <2>2. CASE <<a, c>> \in held \cup touched
    BY <1>2, <2>1, <2>2, ProcessKeepsStates DEF BalanceHasOwner, Owned
  <2>3. CASE Gain(o, a, c) > 0
    BY <1>2, <2>1, <2>3, GainHasOwner DEF Owned, Exists
  <2>4. CASE ~IsCurrencyOperation(o) /\ a = Payer(o) /\ c \in Used(o)
    BY <1>2, <2>1, <2>4, PayerIsOwner DEF Owned, Exists
  <2>5. <<a, c>> \in held \cup touched \/ <<a, c>> \in BalancesSet(o)
    BY <1>2, <2>1 DEF Process
  <2> QED
    BY <2>2, <2>3, <2>4, <2>5 DEF BalancesSet
<1>3. CASE Close
  <2> SUFFICES ASSUME NEW a \in Addresses, NEW c \in Currencies,
                      <<a, c>> \in held' \cup touched'
               PROVE  Owned(a, c)'
    BY DEF BalanceHasOwner, Owned
  <2>1. UNCHANGED <<account, design, held, newAccount, newDesign>>
    BY <1>3 DEF Close, ledger
  <2>2. CASE <<a, c>> \in held \cup touched
    BY <2>1, <2>2 DEF BalanceHasOwner, Owned
  <2>3. CASE a = FeeReceiver(c) /\ fee[c] > 0
    <3>1. FeeIsPayable(c)
      BY <1>3, <2>3 DEF Close
    <3> QED
      BY <2>1, <2>3, <3>1
         DEF FeeIsPayable, Exists, Registered, PoolIsBehind, Owned, FeeReceiver
  <2> QED
    BY <1>3, <2>1, <2>2, <2>3 DEF Close
<1>4. CASE Cancel \/ Save \/ Restart
  <2>1. touched' = {}
    BY <1>4 DEF Cancel, Save, Restart, DropProposal
  <2> QED
    BY <2>1, HeldStep DEF HeldHasOwner, BalanceHasOwner
<1>5. ASSUME NEW P \in SUBSET (Ops \ committed), NewProposal(P)
      PROVE  BalanceHasOwner'
  BY <1>1, <1>5 DEF NewProposal, changes
<1>6. ASSUME NEW o \in Ops, Validate(o) \/ Invalidate(o) \/ CheckDuplication(o)
      PROVE  BalanceHasOwner'
  BY <1>1, <1>6 DEF Validate, Invalidate, CheckDuplication, changes
<1>7. CASE WhenBlockSaved \/ UNCHANGED vars
  BY <1>1, <1>7 DEF WhenBlockSaved, vars, changes
<1> QED
  BY <1>2, <1>3, <1>4, <1>5, <1>6, <1>7 DEF Next

LEMMA MoneyStep ==
    ASSUME IInv, MoneyIsHeld, [Next]_vars
    PROVE  MoneyIsHeld'
PROOF
<1>0. TypeOK
  BY DEF IInv
<1>1. ASSUME UNCHANGED <<ledger, touched, delta>>
      PROVE  MoneyIsHeld'
  BY <1>1 DEF MoneyIsHeld, ledger
<1>2. ASSUME NEW o \in Ops, Process(o)
      PROVE  MoneyIsHeld'
  <2> SUFFICES ASSUME NEW a \in Addresses, NEW c \in Currencies, <<a, c>> \notin touched'
               PROVE  delta'[a][c] = 0
    BY <1>2 DEF MoneyIsHeld, Process, ledger
  <2>1. <<a, c>> \notin touched /\ <<a, c>> \notin BalancesSet(o)
    BY <1>2 DEF Process
  <2>2. delta[a][c] = 0
    BY <2>1 DEF MoneyIsHeld
  <2>3. Gain(o, a, c) = 0
    BY <2>1, GainType DEF BalancesSet
  <2>4. Loss(o, a, c) = 0
    <3>1. CASE IsCurrencyOperation(o) \/ a # Payer(o)
      BY <3>1 DEF Loss
    <3>2. CASE c \notin Used(o)
      <4>1. required[o][c] = Charge(o, cp, c)
        BY <1>2 DEF IInv, ChecksStillHold, Process
      <4> QED
        BY <3>2, <4>1 DEF Charge, NoCharge, Loss
    <3> QED
      BY <2>1, <3>1, <3>2 DEF BalancesSet
  <2> QED
    BY <1>2, <2>2, <2>3, <2>4 DEF Process
<1>3. CASE Close
  <2> SUFFICES ASSUME NEW a \in Addresses, NEW c \in Currencies, <<a, c>> \notin touched'
               PROVE  delta'[a][c] = 0
    BY <1>3 DEF MoneyIsHeld, Close, ledger
  <2>1. <<a, c>> \notin touched /\ FeeGain(a, c) = 0
    BY <1>3 DEF Close, FeeGain
  <2> QED
    BY <1>3, <2>1 DEF Close, MoneyIsHeld
<1>4. CASE Save
  <2> SUFFICES ASSUME NEW a \in Addresses, NEW c \in Currencies
               PROVE  /\ <<a, c>> \notin held' => balance'[a][c] = 0
                      /\ delta'[a][c] = 0
    BY DEF MoneyIsHeld
  <2>1. delta'[a][c] = 0
    BY <1>4 DEF Save, DropProposal, NoDelta
  <2>2. held' = held \cup touched /\ balance'[a][c] = balance[a][c] + delta[a][c]
    BY <1>4 DEF Save
  <2> QED
    BY <2>1, <2>2 DEF MoneyIsHeld
<1>5. CASE Cancel \/ Restart
  <2>1. UNCHANGED ledger /\ delta' = NoDelta
    BY <1>5 DEF Cancel, Restart, DropProposal
  <2> QED
    BY <2>1 DEF MoneyIsHeld, NoDelta, ledger
<1>6. ASSUME NEW P \in SUBSET (Ops \ committed), NewProposal(P)
      PROVE  MoneyIsHeld'
  BY <1>1, <1>6 DEF NewProposal, changes
<1>7. ASSUME NEW o \in Ops, Validate(o) \/ Invalidate(o) \/ CheckDuplication(o)
      PROVE  MoneyIsHeld'
  BY <1>1, <1>7 DEF Validate, Invalidate, CheckDuplication, changes
<1>8. CASE WhenBlockSaved \/ UNCHANGED vars
  BY <1>1, <1>8 DEF WhenBlockSaved, vars, changes
<1> QED
  BY <1>2, <1>3, <1>4, <1>5, <1>6, <1>7, <1>8 DEF Next

(***************************************************************************)
(* Money is neither made nor lost                                          *)
(***************************************************************************)

\* What an account has of a currency when the state pool is counted in.
Pending(a, c) == balance[a][c] + delta[a][c]

\* The balances of a currency are amounts, in the blocks and with the pool.
LEMMA BalancesAreAmounts ==
    ASSUME TypeOK, NoOverdraft, NEW c \in Currencies
    PROVE  /\ [a \in Addresses |-> balance[a][c]] \in [Addresses -> Nat]
           /\ [a \in Addresses |-> Pending(a, c)] \in [Addresses -> Nat]
PROOF
<1>1. ASSUME NEW a \in Addresses
      PROVE  balance[a][c] \in Nat /\ Pending(a, c) \in Nat
  <2>1. balance[a][c] \in Int /\ delta[a][c] \in Int
    BY DEF TypeOK
  <2> QED
    BY <2>1 DEF NoOverdraft, Pending
<1> QED
  BY <1>1

Given(o, c) == Total([a \in Addresses |-> Gain(o, a, c)])
Taken(o, c) == Total([a \in Addresses |-> Loss(o, a, c)])

\* What an operation issues of a currency.
Issue(o, c) ==
    IF o.type = "currency-register" /\ o.currency = c THEN o.design.amount ELSE 0

LEMMA TotalsType ==
    ASSUME TypeOK, NEW o \in Ops, NEW c \in Currencies
    PROVE  /\ Given(o, c) \in Nat /\ Taken(o, c) \in Nat
           /\ [a \in Addresses |-> Gain(o, a, c)] \in [Addresses -> Nat]
           /\ [a \in Addresses |-> Loss(o, a, c)] \in [Addresses -> Nat]
PROOF
<1>1. /\ [a \in Addresses |-> Gain(o, a, c)] \in [Addresses -> Nat]
      /\ [a \in Addresses |-> Loss(o, a, c)] \in [Addresses -> Nat]
  BY GainType, LossType
<1> QED
  BY <1>1, TotalIsNat, SetsAssumption DEF Given, Taken

\* What is taken is the whole charge.
LEMMA TakenIsCharge ==
    ASSUME TypeOK, NEW o \in Ops, NEW c \in Currencies
    PROVE  Taken(o, c) = IF IsCurrencyOperation(o) THEN 0 ELSE required[o][c].amount
PROOF
<1> DEFINE f == [a \in Addresses |-> Loss(o, a, c)]
<1>0. f \in [Addresses -> Nat] /\ Taken(o, c) = Total(f)
  BY TotalsType DEF Taken
<1>1. CASE IsCurrencyOperation(o)
  <2>1. \A a \in Addresses : f[a] = 0
    BY <1>1 DEF Loss
  <2> HIDE DEF f
  <2> QED
    BY <1>0, <1>1, <2>1, TotalZero
<1>2. CASE ~IsCurrencyOperation(o)
  <2> DEFINE n == required[o][c].amount
  <2>1. n \in Nat /\ Payer(o) \in Addresses
    BY <1>2, PayerType DEF TypeOK
  <2>2. f = [a \in Addresses |-> IF a = Payer(o) THEN n ELSE 0]
    BY <1>2 DEF Loss
  <2> HIDE DEF f, n
  <2>3. Total(f) = n
    BY <2>1, <2>2, TotalSingle, SetsAssumption
  <2> QED
    BY <1>0, <1>2, <2>3 DEF n
<1> QED
  BY <1>1, <1>2

\* What is given is what is issued, or the amounts of the items.
LEMMA GivenIsItems ==
    ASSUME TypeOK, NEW o \in Ops, NEW c \in Currencies
    PROVE  /\ IsCurrencyOperation(o) => Given(o, c) = Issue(o, c)
           /\ HasItems(o) => Given(o, c) = Total([a \in Addresses |-> o.amounts[a][c]])
           /\ ~IsCurrencyOperation(o) /\ ~HasItems(o) => Given(o, c) = 0
PROOF
<1> DEFINE f == [a \in Addresses |-> Gain(o, a, c)]
<1>0. f \in [Addresses -> Nat] /\ Given(o, c) = Total(f)
  BY TotalsType DEF Given
<1>1. CASE HasItems(o)
  <2>1. f = [a \in Addresses |-> o.amounts[a][c]]
    BY <1>1 DEF Gain, Credit, HasItems
  <2>2. ~IsCurrencyOperation(o)
    BY <1>1 DEF HasItems, IsCurrencyOperation
  <2> QED
    BY <1>0, <1>1, <2>1, <2>2
<1>2. CASE o.type = "currency-register" /\ o.currency = c
  <2>1. o.genesis \in Addresses /\ o.design.amount \in Nat
    BY <1>2, CurrencyRegisterFields DEF Designs
  <2>2. f = [a \in Addresses |-> IF a = o.genesis THEN o.design.amount ELSE 0]
    BY <1>2 DEF Gain
  <2> HIDE DEF f
  <2>3. Total(f) = o.design.amount
    BY <2>1, <2>2, TotalSingle, SetsAssumption
  <2> QED
    BY <1>0, <1>2, <2>3 DEF Issue, HasItems, IsCurrencyOperation
<1>3. CASE ~HasItems(o) /\ ~(o.type = "currency-register" /\ o.currency = c)
  <2>1. \A a \in Addresses : f[a] = 0
    BY <1>3 DEF Gain, Credit
  <2> HIDE DEF f
  <2>2. Total(f) = 0
    BY <1>0, <2>1, TotalZero
  <2> QED
    BY <1>0, <1>3, <2>2 DEF Issue
<1> QED
  BY <1>1, <1>2, <1>3

\* An operation takes what it gives and its fee, but for what it issues.
LEMMA OperationBalances ==
    ASSUME IInv, NEW o \in Ops, Process(o), NEW c \in Currencies
    PROVE  /\ required[o][c].fee \in Nat
           /\ Taken(o, c) + Issue(o, c) = Given(o, c) + required[o][c].fee
PROOF
<1>0. /\ TypeOK /\ PreProcessOK(o)
      /\ required[o][c] = Charge(o, cp, c) /\ required[o][c].fee \in Nat
  BY DEF IInv, ChecksStillHold, Process, TypeOK
<1>1. Given(o, c) \in Nat /\ Taken(o, c) \in Nat
  BY <1>0, TotalsType
<1>2. CASE IsCurrencyOperation(o)
  <2>1. c \notin Used(o)
    BY <1>2 DEF Used, IsCurrencyOperation, HasItems
  <2>2. required[o][c].fee = 0
    BY <1>0, <2>1 DEF Charge, NoCharge
  <2>3. Taken(o, c) = 0
    BY <1>0, <1>2, TakenIsCharge
  <2>4. Given(o, c) = Issue(o, c)
    BY <1>0, <1>2, GivenIsItems
  <2> QED
    BY <1>0, <1>1, <2>2, <2>3, <2>4
<1>3. CASE HasItems(o)
  <2> DEFINE ams == [a \in Addresses |-> o.amounts[a][c]]
             f == cp[c].policy.feeer
  <2>1. ~IsCurrencyOperation(o) /\ Issue(o, c) = 0
    BY <1>3 DEF IsCurrencyOperation, HasItems, Issue
  <2>2. Given(o, c) = Total(ams) /\ Taken(o, c) = required[o][c].amount
    BY <1>0, <1>3, <2>1, TakenIsCharge, GivenIsItems
  <2>3. ams \in [Addresses -> Nat]
    BY <1>3, ItemsFields
  <2>4. CASE c \in Used(o)
    <3>1. required[o][c] = ItemsFee(o, f, c)
      BY <1>0, <1>3, <2>4 DEF Charge
    <3>2. required[o][c].amount = Total(ams) + required[o][c].fee
      BY <3>1 DEF ItemsFee
    <3> QED
      BY <1>0, <1>1, <2>1, <2>2, <3>2
  <2>5. CASE c \notin Used(o)
    <3>1. \A a \in Addresses : ams[a] = 0
      BY <1>3, <2>3, <2>5, UsedByItems
    <3>2. required[o][c].amount = 0 /\ required[o][c].fee = 0
      BY <1>0, <2>5 DEF Charge, NoCharge
    <3> HIDE DEF ams
    <3>3. Total(ams) = 0
      BY <2>3, <3>1, TotalZero
    <3> QED
      BY <2>1, <2>2, <3>2, <3>3
  <2> QED
    BY <2>4, <2>5
<1>4. CASE ~IsCurrencyOperation(o) /\ ~HasItems(o)
  <2>1. Given(o, c) = 0 /\ Taken(o, c) = required[o][c].amount
    BY <1>0, <1>4, TakenIsCharge, GivenIsItems
  <2>2. Issue(o, c) = 0
    BY <1>4 DEF Issue, IsCurrencyOperation
  <2>3. required[o][c].amount = required[o][c].fee
    BY <1>0, <1>4 DEF Charge, NoCharge, KeyUpdaterFee
  <2> QED
    BY <1>0, <2>1, <2>2, <2>3
<1> QED
  BY <1>2, <1>3, <1>4

\* When each account gains and loses, the sums of what they have do too.
LEMMA TotalMoves ==
    ASSUME NEW D, IsFiniteSet(D), NEW f \in [D -> Nat], NEW g \in [D -> Nat],
           NEW up \in [D -> Nat], NEW down \in [D -> Nat],
           \A x \in D : g[x] + down[x] = f[x] + up[x]
    PROVE  Total(g) + Total(down) = Total(f) + Total(up)
PROOF
<1>1. [x \in D |-> g[x] + down[x]] = [x \in D |-> f[x] + up[x]]
  OBVIOUS
<1>2. Total([x \in D |-> g[x] + down[x]]) = Total(g) + Total(down)
  BY TotalAdd
<1>3. Total([x \in D |-> f[x] + up[x]]) = Total(f) + Total(up)
  BY TotalAdd
<1> QED
  BY <1>1, <1>2, <1>3

\* The supply of a currency, by its design in the blocks or in the state pool.
SupplyNow(c) == Supply(IF newDesign[c] # NoDesign THEN newDesign[c] ELSE design[c])

\* An operation on a currency finds its design as the last block left it: no
\* other operation of the proposal has set it.
LEMMA CurrencyIsAlone ==
    ASSUME IInv, WrittenByProposal, NEW o \in Ops, status[o] = "accepted",
           IsCurrencyOperation(o)
    PROVE  newDesign[o.currency] = NoDesign
PROOF
<1> SUFFICES ASSUME newDesign[o.currency] # NoDesign
             PROVE  FALSE
  OBVIOUS
<1>1. o.currency \in Currencies
  BY CurrencyRegisterFields, CurrencyPolicyUpdaterFields DEF IsCurrencyOperation
<1>2. PICK p \in Ops : IsCurrencyOperation(p) /\ Wrote(p, o.currency)
  BY <1>1 DEF WrittenByProposal
<1>3. p # o /\ LetIn(p) /\ LetIn(o)
  BY <1>2 DEF Wrote, LetIn
<1>4. p.currency = o.currency
  BY <1>2 DEF Wrote, Overwrites, IsCurrencyOperation
<1>5. DuplicationKey(p) = DuplicationKey(o)
  BY <1>2, <1>4 DEF DuplicationKey
<1> QED
  BY <1>3, <1>5 DEF IInv, ClaimsAreDistinct

\* The supply grows by what is issued; a new policy leaves it alone.
LEMMA SupplyGrows ==
    ASSUME IInv, WrittenByProposal, NEW o \in Ops, Process(o), NEW c \in Currencies
    PROVE  SupplyNow(c)' = SupplyNow(c) + Issue(o, c)
PROOF
<1>0. /\ TypeOK /\ TypeOK' /\ PreProcessOK(o) /\ status[o] = "accepted"
      /\ design' = design
  BY ProcessType DEF IInv, ChecksStillHold, Process, ledger
<1>1. SupplyNow(c) \in Nat
  BY <1>0 DEF SupplyNow, Supply, TypeOK, Designs
<1>2. CASE o.type = "currency-register" /\ o.currency = c
  <2>1. newDesign[c] = NoDesign /\ design[c] = NoDesign
    BY <1>0, <1>2, CurrencyIsAlone DEF IsCurrencyOperation, PreProcessOK, SuffrageOK,
                                        CurrencyRegisterOK
  <2>2. newDesign'[c] = o.design /\ o.design # NoDesign /\ o.design.amount \in Nat
    BY <1>0, <1>2, CurrencyRegisterFields, NoValuesAssumption
       DEF Process, DesignsSet, TypeOK, Designs
  <2>3. SupplyNow(c) = 0 /\ SupplyNow(c)' = o.design.amount
    BY <2>1, <2>2 DEF SupplyNow, Supply
  <2> QED
    BY <1>2, <2>2, <2>3 DEF Issue
<1>3. CASE o.type = "currency-policy-updater" /\ o.currency = c
  <2>1. newDesign[c] = NoDesign /\ design[c] # NoDesign
    BY <1>0, <1>3, CurrencyIsAlone DEF IsCurrencyOperation, PreProcessOK, SuffrageOK,
                                        CurrencyPolicyUpdaterOK
  <2>2. newDesign'[c] = [amount |-> design[c].amount, policy |-> o.policy]
    BY <1>0, <1>3 DEF Process, DesignsSet, TypeOK
  <2>3. newDesign'[c] # NoDesign
    <3>1. design[c] \in Designs /\ o.policy \in Policies
      BY <1>0, <1>3, <2>1, CurrencyPolicyUpdaterFields DEF TypeOK
    <3>2. newDesign'[c] \in Designs
      BY <2>2, <3>1 DEF Designs
    <3> QED
      BY <3>2, NoValuesAssumption
  <2>4. SupplyNow(c) = design[c].amount /\ SupplyNow(c)' = design[c].amount
    BY <2>1, <2>2, <2>3 DEF SupplyNow, Supply
  <2>5. Issue(o, c) = 0
    BY <1>3 DEF Issue
  <2> QED
    BY <1>1, <2>4, <2>5
<1>4. CASE ~(IsCurrencyOperation(o) /\ o.currency = c)
  <2>1. newDesign'[c] = newDesign[c]
    BY <1>4, ProcessWrites DEF Overwrites, IsCurrencyOperation
  <2>2. Issue(o, c) = 0 /\ SupplyNow(c)' = SupplyNow(c)
    BY <1>0, <1>4, <2>1 DEF Issue, IsCurrencyOperation, SupplyNow, Supply
  <2> QED
    BY <1>1, <2>2
<1> QED
  BY <1>2, <1>3, <1>4 DEF IsCurrencyOperation

\* Processing an operation moves money, and issues what it registers.
LEMMA ProcessConserves ==
    ASSUME IInv, PoolIsOfProposal, WrittenByProposal, Conservation,
           NEW o \in Ops, Process(o)
    PROVE  Conservation'
PROOF
<1> SUFFICES ASSUME NEW c \in Currencies
             PROVE  /\ Total([a \in Addresses |-> balance'[a][c]]) = Supply(design'[c])
                    /\ InFlight(c)' = SupplyNow(c)'
  BY DEF Conservation, SupplyNow
<1>0. TypeOK /\ NoOverdraft /\ TypeOK' /\ NoOverdraft'
  BY ProcessType, OverdraftStep DEF IInv, Next
<1>1. balance' = balance /\ design' = design
  BY DEF Process, ledger
<1>2. ~closed /\ ~closed'
  BY DEF Process, PoolIsOfProposal, AllDone
<1> DEFINE f == [a \in Addresses |-> Pending(a, c)]
           g == [a \in Addresses |-> Pending(a, c)']
           up == [a \in Addresses |-> Gain(o, a, c)]
           down == [a \in Addresses |-> Loss(o, a, c)]
<1>3. f \in [Addresses -> Nat] /\ g \in [Addresses -> Nat]
  <2>1. f \in [Addresses -> Nat]
    BY <1>0, BalancesAreAmounts
  <2>2. ASSUME NEW a \in Addresses
        PROVE  Pending(a, c)' \in Nat
    <3>1. balance'[a][c] \in Int /\ delta'[a][c] \in Int
      BY <1>0 DEF TypeOK
    <3> QED
      BY <1>0, <3>1 DEF NoOverdraft, Pending
  <2> QED
    BY <2>1, <2>2
<1>4. up \in [Addresses -> Nat] /\ down \in [Addresses -> Nat]
  BY <1>0, TotalsType
<1>5. ASSUME NEW a \in Addresses
      PROVE  g[a] + down[a] = f[a] + up[a]
  <2>1. delta'[a][c] = delta[a][c] + Gain(o, a, c) - Loss(o, a, c)
    BY DEF Process
  <2>2. balance[a][c] \in Int /\ delta[a][c] \in Int
    BY <1>0 DEF TypeOK
  <2>3. Gain(o, a, c) \in Nat /\ Loss(o, a, c) \in Nat
    BY <1>0, GainType, LossType
  <2> QED
    BY <1>1, <2>1, <2>2, <2>3 DEF Pending
<1>6. Total(g) + Taken(o, c) = Total(f) + Given(o, c)
  <2> HIDE DEF f, g, up, down
  <2>1. Total(g) + Total(down) = Total(f) + Total(up)
    BY <1>3, <1>4, <1>5, TotalMoves, SetsAssumption
  <2> QED
    BY <2>1 DEF Taken, Given, up, down
<1>7. Total(f) \in Nat /\ Total(g) \in Nat
  <2> HIDE DEF f, g
  <2> QED
    BY <1>3, TotalIsNat, SetsAssumption
<1>8. InFlight(c) = Total(f) + fee[c] /\ InFlight(c)' = Total(g) + fee'[c]
  BY <1>2 DEF InFlight, Pending
<1>9. fee'[c] = fee[c] + required[o][c].fee /\ fee[c] \in Nat
  BY <1>0 DEF Process, TypeOK
<1>10. /\ required[o][c].fee \in Nat
       /\ Taken(o, c) + Issue(o, c) = Given(o, c) + required[o][c].fee
  BY OperationBalances
<1>11. Taken(o, c) \in Nat /\ Given(o, c) \in Nat /\ Issue(o, c) \in Nat
  BY <1>0, TotalsType, CurrencyRegisterFields DEF Issue, Designs
<1>12. InFlight(c)' = InFlight(c) + Issue(o, c)
  <2> HIDE DEF f, g
  <2> QED
    BY <1>6, <1>7, <1>8, <1>9, <1>10, <1>11
<1>13. InFlight(c) = SupplyNow(c)
  BY DEF Conservation, SupplyNow
<1>14. Total([a \in Addresses |-> balance'[a][c]]) = Supply(design'[c])
  BY <1>1 DEF Conservation
<1> QED
  BY <1>12, <1>13, <1>14, SupplyGrows

\* Paying the fees moves them from the processor to their receivers.
LEMMA CloseConserves ==
    ASSUME IInv, Conservation, Close
    PROVE  Conservation'
PROOF
<1> SUFFICES ASSUME NEW c \in Currencies
             PROVE  /\ Total([a \in Addresses |-> balance'[a][c]]) = Supply(design'[c])
                    /\ InFlight(c)' = SupplyNow(c)'
  BY DEF Conservation, SupplyNow
<1>0. TypeOK /\ NoOverdraft /\ NoOverdraft'
  BY OverdraftStep DEF IInv, Next
<1>1. UNCHANGED <<balance, design, newDesign, fee>> /\ ~closed /\ closed'
  BY DEF Close, ledger, tables
<1> DEFINE f == [a \in Addresses |-> Pending(a, c)]
           up == [a \in Addresses |-> FeeGain(a, c)]
           g == [a \in Addresses |-> f[a] + up[a]]
<1>2. f \in [Addresses -> Nat] /\ fee[c] \in Nat
  BY <1>0, BalancesAreAmounts DEF TypeOK
<1>3. up \in [Addresses -> Nat]
  BY <1>2 DEF FeeGain
<1>4. Total(up) = fee[c]
  <2>1. CASE fee[c] > 0
    <3>1. FeeReceiver(c) \in Addresses
      BY <1>0, <2>1, FeeReceiverType DEF Close
    <3>2. up = [a \in Addresses |-> IF a = FeeReceiver(c) THEN fee[c] ELSE 0]
      BY <2>1 DEF FeeGain
    <3> HIDE DEF up
    <3> QED
      BY <1>2, <3>1, <3>2, TotalSingle, SetsAssumption
  <2>2. CASE ~(fee[c] > 0)
    <3>1. \A a \in Addresses : up[a] = 0
      BY <2>2 DEF FeeGain
    <3> HIDE DEF up
    <3> QED
      BY <1>2, <1>3, <2>2, <3>1, TotalZero
  <2> QED
    BY <2>1, <2>2
<1>5. Total(g) = Total(f) + Total(up)
  <2> HIDE DEF f, up
  <2> QED
    BY <1>2, <1>3, TotalAdd, SetsAssumption
<1>6. [a \in Addresses |-> balance'[a][c] + delta'[a][c]] = g
  <2>1. ASSUME NEW a \in Addresses
        PROVE  balance'[a][c] + delta'[a][c] = f[a] + up[a]
    <3>1. delta'[a][c] = delta[a][c] + FeeGain(a, c)
      BY DEF Close
    <3>2. balance[a][c] \in Int /\ delta[a][c] \in Int /\ FeeGain(a, c) \in Nat
      BY <1>0, <1>2 DEF TypeOK, FeeGain
    <3> QED
      BY <1>1, <3>1, <3>2 DEF Pending
  <2> QED
    BY <2>1
<1>7. InFlight(c) = Total(f) + fee[c] /\ InFlight(c)' = Total(g) + 0
  <2>1. InFlight(c) = Total(f) + fee[c]
    BY <1>1 DEF InFlight, Pending
  <2> HIDE DEF f, g
  <2> QED
    BY <1>1, <1>6, <2>1 DEF InFlight
<1>8. Total(f) \in Nat
  <2> HIDE DEF f
  <2> QED
    BY <1>2, TotalIsNat, SetsAssumption
<1>9. InFlight(c)' = InFlight(c)
  <2> HIDE DEF f, g, up
  <2> QED
    BY <1>2, <1>4, <1>5, <1>7, <1>8
<1>10. SupplyNow(c)' = SupplyNow(c) /\ InFlight(c) = SupplyNow(c)
  BY <1>1 DEF Conservation, SupplyNow
<1>11. Total([a \in Addresses |-> balance'[a][c]]) = Supply(design'[c])
  BY <1>1 DEF Conservation
<1> QED
  BY <1>9, <1>10, <1>11

\* An empty state pool adds nothing to the balances.
LEMMA EmptyPoolAddsNothing ==
    ASSUME NEW c \in Currencies, NEW b \in [Addresses -> [Currencies -> Int]]
    PROVE  [a \in Addresses |-> b[a][c] + NoDelta[a][c]] = [a \in Addresses |-> b[a][c]]
PROOF
<1>1. \A a \in Addresses : b[a][c] + NoDelta[a][c] = b[a][c]
  BY DEF NoDelta
<1> QED
  BY <1>1

LEMMA SupplyType ==
    ASSUME NEW de \in Designs \cup {NoDesign}
    PROVE  Supply(de) \in Nat
PROOF
  BY DEF Supply, Designs

\* A step that empties the state pool leaves the money in the blocks.
LEMMA DropConserves ==
    ASSUME IInv, [Next]_vars, DropProposal,
           \A c \in Currencies :
               Total([a \in Addresses |-> balance'[a][c]]) = Supply(design'[c])
    PROVE  Conservation'
PROOF
<1>1. TypeOK'
  BY TypeStep
<1>2. delta' = NoDelta /\ fee' = NoFee /\ newDesign' = NoNewDesigns
  BY DEF DropProposal
<1>3. ASSUME NEW c \in Currencies
      PROVE  InFlight(c)' = SupplyNow(c)'
  <2> DEFINE f == [a \in Addresses |-> balance'[a][c]]
  <2>1. balance' \in [Addresses -> [Currencies -> Int]]
    BY <1>1 DEF TypeOK
  <2>2. [a \in Addresses |-> balance'[a][c] + delta'[a][c]] = f
    BY <1>2, <2>1, EmptyPoolAddsNothing
  <2>3. fee'[c] = 0 /\ SupplyNow(c)' = Supply(design'[c])
    BY <1>2 DEF NoFee, NoNewDesigns, SupplyNow, Supply
  <2>4. Supply(design'[c]) \in Nat
    BY <1>1, SupplyType DEF TypeOK
  <2> HIDE DEF f
  <2>5. InFlight(c)' = Total(f) + 0
    BY <2>2, <2>3 DEF InFlight
  <2> QED
    BY <2>3, <2>4, <2>5 DEF f
<1> QED
  BY <1>3 DEF Conservation, SupplyNow

\* Saving a block merges the state pool into the balances.
LEMMA SaveConserves ==
    ASSUME IInv, PoolIsOfProposal, Conservation, Save
    PROVE  Conservation'
PROOF
<1>0. DropProposal /\ [Next]_vars /\ closed
  BY DEF Save, Next
<1>1. ASSUME NEW c \in Currencies
      PROVE  Total([a \in Addresses |-> balance'[a][c]]) = Supply(design'[c])
  <2> DEFINE f == [a \in Addresses |-> balance[a][c] + delta[a][c]]
  <2>1. [a \in Addresses |-> balance'[a][c]] = f
    BY DEF Save
  <2>2. f \in [Addresses -> Nat]
    BY BalancesAreAmounts DEF IInv, Pending
  <2> HIDE DEF f
  <2>3. Total(f) \in Nat
    BY <2>2, TotalIsNat, SetsAssumption
  <2>4. InFlight(c) = Total(f)
    BY <1>0, <2>3 DEF InFlight, f
  <2>5. design'[c] = IF newDesign[c] # NoDesign THEN newDesign[c] ELSE design[c]
    BY DEF Save
  <2> QED
    BY <2>1, <2>4, <2>5 DEF Conservation
<1> QED
  BY <1>0, <1>1, DropConserves

LEMMA ConservationInit == Init => Conservation
PROOF
<1> SUFFICES ASSUME Init, NEW c \in Currencies
             PROVE  /\ Total([a \in Addresses |-> balance[a][c]]) = Supply(design[c])
                    /\ InFlight(c) = SupplyNow(c)
  BY DEF Conservation, SupplyNow
<1>0. TypeOK
  BY InitInvariant DEF IInv
<1>1. delta = NoDelta /\ fee = NoFee /\ newDesign = NoNewDesigns
  BY DEF Init, FreshTables
<1>2. Total([a \in Addresses |-> balance[a][c]]) = Supply(design[c])
  <2> DEFINE n == Supply(design[c])
             f == [a \in Addresses |-> balance[a][c]]
  <2>1. n \in Nat
    BY <1>0 DEF TypeOK, Supply, Designs
  <2>2. f = [a \in Addresses |-> IF a = Genesis THEN n ELSE 0]
    BY DEF Init, GenesisLedger, Supply
  <2> HIDE DEF f, n
  <2>3. Total(f) = n
    BY <2>1, <2>2, GenesisAssumption, SetsAssumption, TotalSingle
  <2> QED
    BY <2>3 DEF f, n
<1>3. InFlight(c) = SupplyNow(c)
  <2> DEFINE f == [a \in Addresses |-> balance[a][c]]
  <2>1. [a \in Addresses |-> balance[a][c] + delta[a][c]] = f
    <3>1. balance \in [Addresses -> [Currencies -> Int]]
      BY <1>0 DEF TypeOK
    <3> QED
      BY <1>1, <3>1, EmptyPoolAddsNothing
  <2>2. fee[c] = 0 /\ SupplyNow(c) = Supply(design[c])
    BY <1>1 DEF NoFee, NoNewDesigns, SupplyNow
  <2>3. Supply(design[c]) \in Nat
    BY <1>0, SupplyType DEF TypeOK
  <2> HIDE DEF f
  <2>4. InFlight(c) = Total(f) + 0
    BY <2>1, <2>2 DEF InFlight
  <2> QED
    BY <1>2, <2>2, <2>3, <2>4 DEF f
<1> QED
  BY <1>2, <1>3

LEMMA ConservationStep ==
    ASSUME IInv, PoolIsOfProposal, WrittenByProposal, Conservation, [Next]_vars
    PROVE  Conservation'
PROOF
<1>1. ASSUME UNCHANGED <<balance, design, delta, fee, newDesign, closed>>
      PROVE  Conservation'
  BY <1>1 DEF Conservation, InFlight
<1>2. ASSUME NEW o \in Ops, Process(o)
      PROVE  Conservation'
  BY <1>2, ProcessConserves
<1>3. CASE Close
  BY <1>3, CloseConserves
<1>4. CASE Save
  BY <1>4, SaveConserves
<1>5. CASE Cancel \/ Restart
  <2>1. DropProposal /\ balance' = balance /\ design' = design
    BY <1>5 DEF Cancel, Restart, ledger
  <2> QED
    BY <2>1, DropConserves DEF Conservation
<1>6. ASSUME NEW P \in SUBSET (Ops \ committed), NewProposal(P)
      PROVE  Conservation'
  BY <1>1, <1>6 DEF NewProposal, ledger, tables, changes
<1>7. ASSUME NEW o \in Ops, Validate(o) \/ Invalidate(o) \/ CheckDuplication(o)
      PROVE  Conservation'
  BY <1>1, <1>7 DEF Validate, Invalidate, CheckDuplication, ledger, tables, changes
<1>8. CASE WhenBlockSaved \/ UNCHANGED vars
  BY <1>1, <1>8 DEF WhenBlockSaved, vars, ledger, tables, changes
<1> QED
  BY <1>2, <1>3, <1>4, <1>5, <1>6, <1>7, <1>8 DEF Next

(***************************************************************************)
(* New accounts have the least balance                                     *)
(***************************************************************************)

\* What the state pool has for an account to come is nothing, or at least the
\* least balance of the policies the processors know.
ComersAreFunded ==
    \A a \in Addresses, c \in Currencies :
        account[a] = NoKeys /\ delta[a][c] > 0 => delta[a][c] >= cp[c].policy.minBalance

\* When no hook fails, the currency pool is behind the blocks only in the
\* currencies the last block set, and only until the hook is done.
PoolKeepsUp ==
    \A c \in Currencies : cp[c] # design[c] => hook /\ c \in saved

\* An account to come loses nothing, and gains what creates it.
LEMMA ComersGain ==
    ASSUME IInv, PoolIsBehind, NEW o \in Ops, Process(o),
           NEW a \in Addresses, account[a] = NoKeys, NEW c \in Currencies
    PROVE  /\ Loss(o, a, c) = 0
           /\ Gain(o, a, c) > 0 =>
                cp[c].policy.minBalance \in Nat /\ Gain(o, a, c) >= cp[c].policy.minBalance
PROOF
<1>0. TypeOK /\ PreProcessOK(o)
  BY DEF IInv, ChecksStillHold, Process
<1>1. Loss(o, a, c) = 0
  <2>1. ~IsCurrencyOperation(o) => Payer(o) # a
    BY PayerIsOwner DEF Exists
  <2> QED
    BY <2>1 DEF Loss
<1>2. ASSUME Gain(o, a, c) > 0
      PROVE  cp[c].policy.minBalance \in Nat /\ Gain(o, a, c) >= cp[c].policy.minBalance
  <2>1. o.type = "create-accounts" /\ a \in Receivers(o)
    BY <1>2, GainHasOwner DEF Exists
  <2>2. HasItems(o) /\ ~IsCurrencyOperation(o)
    BY <2>1 DEF HasItems, IsCurrencyOperation
  <2>3. Gain(o, a, c) = o.amounts[a][c] /\ o.amounts[a][c] > 0
    BY <1>2, <2>1, <2>2 DEF Gain, Credit
  <2>4. c \in Used(o)
    BY <2>2, <2>3, UsedByItems
  <2>5. PayerOK(o) /\ CreateAccountsOK(o)
    BY <1>0, <2>1, <2>2 DEF PreProcessOK, PayerOK
  <2>6. Gain(o, a, c) >= cp[c].policy.minBalance
    BY <2>1, <2>3, <2>5 DEF CreateAccountsOK
  <2>7. cp[c] \in Designs
    BY <1>0, <2>4, <2>5 DEF PayerOK, Registered, TypeOK
  <2> QED
    BY <2>6, <2>7 DEF Designs, Policies
<1> QED
  BY <1>1, <1>2

LEMMA ComersStep ==
    ASSUME IInv, PoolIsOfProposal, PoolIsBehind, HeldHasOwner, MoneyIsHeld,
           ComersAreFunded, [Next]_vars
    PROVE  ComersAreFunded'
PROOF
<1>0. TypeOK
  BY DEF IInv
<1>1. ASSUME UNCHANGED <<account, delta, cp>>
      PROVE  ComersAreFunded'
  BY <1>1 DEF ComersAreFunded
<1>2. ASSUME delta' = NoDelta
      PROVE  ComersAreFunded'
  BY <1>2 DEF ComersAreFunded, NoDelta
<1>3. ASSUME NEW o \in Ops, Process(o)
      PROVE  ComersAreFunded'
  <2> SUFFICES ASSUME NEW a \in Addresses, NEW c \in Currencies,
                      account'[a] = NoKeys, delta'[a][c] > 0
               PROVE  delta'[a][c] >= cp'[c].policy.minBalance
    BY DEF ComersAreFunded
  <2>1. account[a] = NoKeys /\ cp' = cp
    BY <1>3 DEF Process, ledger, pool
  <2>2. delta[a][c] \in Int /\ delta[a][c] >= 0
    <3>1. balance[a][c] = 0
      BY <2>1 DEF HeldHasOwner, MoneyIsHeld
    <3>2. delta[a][c] \in Int /\ balance[a][c] + delta[a][c] >= 0
      BY <1>0 DEF IInv, NoOverdraft, TypeOK
    <3> QED
      BY <3>1, <3>2
  <2>3. delta'[a][c] = delta[a][c] + Gain(o, a, c) - Loss(o, a, c)
    BY <1>3 DEF Process
  <2>4. Loss(o, a, c) = 0 /\ Gain(o, a, c) \in Nat
    BY <1>3, <2>1, ComersGain, GainType
  <2>5. CASE Gain(o, a, c) > 0
    <3>1. /\ cp[c].policy.minBalance \in Nat
          /\ Gain(o, a, c) >= cp[c].policy.minBalance
      BY <1>3, <2>1, <2>5, ComersGain
    <3> QED
      BY <2>1, <2>2, <2>3, <2>4, <3>1
  <2>6. CASE Gain(o, a, c) = 0
    <3>1. delta'[a][c] = delta[a][c]
      BY <2>2, <2>3, <2>4, <2>6
    <3> QED
      BY <2>1, <3>1 DEF ComersAreFunded
  <2> QED
    BY <2>4, <2>5, <2>6
<1>4. CASE Close
  <2> SUFFICES ASSUME NEW a \in Addresses, NEW c \in Currencies,
                      account'[a] = NoKeys, delta'[a][c] > 0
               PROVE  delta'[a][c] >= cp'[c].policy.minBalance
    BY DEF ComersAreFunded
  <2>1. account[a] = NoKeys /\ cp' = cp
    BY <1>4 DEF Close, ledger, pool
  <2>2. FeeGain(a, c) = 0
    BY <1>4, <2>1 DEF Close, FeeGain, FeeIsPayable, Exists
  <2>3. delta'[a][c] = delta[a][c]
    BY <1>0, <1>4, <2>2 DEF Close, TypeOK
  <2> QED
    BY <2>1, <2>3 DEF ComersAreFunded
<1>5. CASE Cancel \/ Save \/ Restart
  BY <1>2, <1>5 DEF Cancel, Save, Restart, DropProposal
<1>6. CASE WhenBlockSaved
  <2>1. delta = NoDelta /\ delta' = delta
    BY <1>6 DEF IInv, WhenBlockSaved, PoolIsOfProposal, changes
  <2> QED
    BY <1>2, <2>1
<1>7. ASSUME NEW P \in SUBSET (Ops \ committed), NewProposal(P)
      PROVE  ComersAreFunded'
  BY <1>1, <1>7 DEF NewProposal, ledger, pool, changes
<1>8. ASSUME NEW o \in Ops, Validate(o) \/ Invalidate(o) \/ CheckDuplication(o)
      PROVE  ComersAreFunded'
  BY <1>1, <1>8 DEF Validate, Invalidate, CheckDuplication, ledger, pool, changes
<1>9. CASE UNCHANGED vars
  BY <1>1, <1>9 DEF vars, ledger, pool, changes
<1> QED
  BY <1>3, <1>4, <1>5, <1>6, <1>7, <1>8, <1>9 DEF Next

\* When no hook fails the pool keeps up.
LEMMA KeepsUpStep ==
    ASSUME LoadMayFail = FALSE, IInv, PoolKeepsUp, PoolIsOfProposal, [Next]_vars
    PROVE  PoolKeepsUp'
PROOF
<1>0. TypeOK
  BY DEF IInv
<1>1. CASE UNCHANGED <<cp, design, hook, saved>>
  BY <1>1 DEF PoolKeepsUp
<1>2. CASE Save
  <2>1. ~hook /\ cp' = cp /\ hook'
    BY <1>2 DEF Save, IInv, PoolIsOfProposal
  <2>2. ASSUME NEW c \in Currencies, c \notin saved'
        PROVE  design'[c] = design[c]
    BY <1>2, <2>2 DEF Save
  <2> QED
    BY <2>1, <2>2 DEF PoolKeepsUp
<1>3. CASE WhenBlockSaved
  <2>1. design' = design /\ SetDesigns(saved)
    BY <1>3 DEF WhenBlockSaved, ledger
  <2> QED
    BY <2>1 DEF PoolKeepsUp, SetDesigns
<1>4. CASE Restart
  BY <1>4 DEF Restart, SetDesigns, PoolKeepsUp, ledger
<1>5. \/ UNCHANGED <<cp, design, hook, saved>>
      \/ Save \/ WhenBlockSaved \/ Restart
  BY DEF Next, NewProposal, Validate, Invalidate, CheckDuplication, Process, Close,
         Cancel, vars, ledger, pool
<1> QED
  BY <1>1, <1>2, <1>3, <1>4, <1>5

(***************************************************************************)
(* The theorems                                                            *)
(***************************************************************************)

\* The invariant of the blocks: that of the processor, the state pool that of
\* its proposal, everything written by somebody, every receiver, balance and
\* comer as it should be, and the money of every currency all there.
BInv ==
    /\ IInv
    /\ PoolIsOfProposal
    /\ WrittenByProposal
    /\ ReceiversExist
    /\ PoolIsBehind
    /\ FeesArePayable
    /\ HeldHasOwner
    /\ BalanceHasOwner
    /\ MoneyIsHeld
    /\ ComersAreFunded
    /\ Conservation

LEMMA BlocksInit == Init => BInv
PROOF
<1> SUFFICES ASSUME Init
             PROVE  BInv
  OBVIOUS
<1>1. IInv /\ PoolIsOfProposal /\ WrittenByProposal
  BY InitInvariant, PoolInit
<1>2. ReceiversExist /\ PoolIsBehind /\ BalanceHasOwner /\ HeldHasOwner /\ MoneyIsHeld
  BY ReceiversInit, OwnersInit
<1>3. FeesArePayable /\ ComersAreFunded
  BY DEF Init, FreshTables, NoFee, NoDelta, FeesArePayable, ComersAreFunded
<1>4. Conservation
  BY ConservationInit
<1> QED
  BY <1>1, <1>2, <1>3, <1>4 DEF BInv

LEMMA BlocksStep == BInv /\ [Next]_vars => BInv'
PROOF
<1> SUFFICES ASSUME BInv, [Next]_vars
             PROVE  BInv'
  OBVIOUS
<1>0. /\ IInv /\ PoolIsOfProposal /\ WrittenByProposal /\ ReceiversExist /\ PoolIsBehind
      /\ FeesArePayable /\ HeldHasOwner /\ BalanceHasOwner /\ MoneyIsHeld
      /\ ComersAreFunded /\ Conservation
  BY DEF BInv
<1>1. IInv'
  <2>1. TypeOK' /\ ChecksStillHold' /\ ClaimsAreDistinct'
    BY <1>0, TypeStep, ChecksStep, ClaimsStep
  <2>2. OnlyPayersLose' /\ NoOverdraft' /\ (hook => proposed = {})'
    BY <1>0, LosersStep, OverdraftStep, HookStep
  <2> QED
    BY <2>1, <2>2 DEF IInv
<1>2. PoolIsOfProposal' /\ WrittenByProposal'
  BY <1>0, PoolStep, WrittenStep
<1>3. ReceiversExist' /\ PoolIsBehind' /\ FeesArePayable'
  BY <1>0, ReceiversStep, BehindStep, FeesStep
<1>4. HeldHasOwner' /\ BalanceHasOwner' /\ MoneyIsHeld'
  BY <1>0, HeldStep, OwnersStep, MoneyStep
<1>5. ComersAreFunded' /\ Conservation'
  BY <1>0, ComersStep, ConservationStep
<1> QED
  BY <1>1, <1>2, <1>3, <1>4, <1>5 DEF BInv

\* The maps, the state pool, the currency pool and the blocks fit together in
\* every state that the processor, the hook, cancels and restarts can reach.
THEOREM BlocksInvariance == Spec => []BInv
PROOF
  BY BlocksInit, BlocksStep, PTL DEF Spec

\* Close never fails for want of somebody to pay the fees to: a fee is only
\* charged under a policy that names a receiver, a receiver is an account when
\* its policy is put in force, and accounts are never removed.
THEOREM FeesCanBePaid == Spec => []FeesArePayable
PROOF
<1>1. BInv => FeesArePayable
  BY DEF BInv
<1> QED
  BY <1>1, BlocksInvariance, PTL

\* No balance state is written for an account or a currency that is not there.
THEOREM BalancesHaveOwners == Spec => []BalanceHasOwner
PROOF
<1>1. BInv => BalanceHasOwner
  BY DEF BInv
<1> QED
  BY <1>1, BlocksInvariance, PTL

\* The balances of every currency add up to its supply in every block, and
\* with the fees under way at every moment of a proposal.
THEOREM MoneyIsConserved == Spec => []Conservation
PROOF
<1>1. BInv => Conservation
  BY DEF BInv
<1> QED
  BY <1>1, BlocksInvariance, PTL

\* An operation that a saved block holds was not in the blocks before it, and
\* its payer's keys of the last block signed it.
LEMMA ProcessedIsSigned ==
    ASSUME BInv, Save, NEW o \in Ops, status[o] = "processed", ~IsCurrencyOperation(o)
    PROVE  /\ o \in committed' \ committed
           /\ CheckThreshold(o.signs, account[Payer(o)])
PROOF
<1>1. o \in proposed /\ PreProcessOK(o)
  BY DEF BInv, IInv, ChecksStillHold
<1>2. o \notin committed
  BY <1>1 DEF BInv, PoolIsOfProposal
<1>3. o \in committed'
  BY <1>1 DEF Save
<1>4. SignedByKeys(o)
  BY <1>1 DEF PreProcessOK, PayerOK
<1> QED
  BY <1>2, <1>3, <1>4 DEF SignedByKeys

\* Money leaves an account, and its keys change, only by an operation that the
\* keys in force before the block signed: the block's own key updates do not
\* count, and no operation of another account takes from this one.
THEOREM SpendingNeedsSignatures == Spec => SpendingIsSigned
PROOF
<1> DEFINE Spent(a) ==
        \/ account'[a] # account[a] /\ account[a] # NoKeys
        \/ \E c \in Currencies : balance'[a][c] < balance[a][c]
           Signed(a) == \E o \in committed' \ committed :
              /\ ~IsCurrencyOperation(o)
              /\ Payer(o) = a
              /\ CheckThreshold(o.signs, account[a])
<1>1. ASSUME BInv, [Next]_vars, NEW a \in Addresses, Spent(a)
      PROVE  Signed(a)
  <2>0. TypeOK /\ TypeOK'
    BY <1>1, TypeStep DEF BInv, IInv
  <2>1. CASE UNCHANGED ledger
    <3>1. account' = account /\ balance' = balance
      BY <2>1 DEF ledger
    <3>2. \A c \in Currencies : balance[a][c] \in Int
      BY <2>0 DEF TypeOK
    <3> QED
      BY <1>1, <3>1, <3>2
  <2>2. CASE Save
    <3>1. ASSUME account'[a] # account[a], account[a] # NoKeys
          PROVE  Signed(a)
      <4>1. newAccount[a] # NoKeys
        BY <2>2, <3>1 DEF Save
      <4>2. PICK o \in Ops : ~IsCurrencyOperation(o) /\ Wrote(o, a)
        BY <1>1, <4>1 DEF BInv, WrittenByProposal
      <4>3. status[o] = "processed" /\ PreProcessOK(o)
        BY <1>1, <4>2 DEF Wrote, BInv, IInv, ChecksStillHold
      <4>4. ~(o.type = "create-accounts" /\ a \in Receivers(o))
        BY <3>1, <4>2, <4>3 DEF PreProcessOK, PayerOK, CreateAccountsOK, Exists
      <4>5. o.type = "key-updater" /\ Payer(o) = a
        BY <4>2, <4>4 DEF Wrote, Overwrites, Targets, Payer, HasItems
      <4> QED
        BY <1>1, <2>2, <4>2, <4>3, <4>5, ProcessedIsSigned
    <3>2. ASSUME NEW c \in Currencies, balance'[a][c] < balance[a][c]
          PROVE  Signed(a)
      <4>1. balance'[a][c] = balance[a][c] + delta[a][c]
        BY <2>2 DEF Save
      <4>2. balance[a][c] \in Int /\ delta[a][c] \in Int
        BY <2>0 DEF TypeOK
      <4>3. ~(delta[a][c] >= 0)
        BY <3>2, <4>1, <4>2
      <4>4. PICK o \in Ops : PaysFrom(o, a)
        BY <1>1, <4>3 DEF BInv, IInv, OnlyPayersLose, PaysFrom
      <4> QED
        BY <1>1, <2>2, <4>4, ProcessedIsSigned DEF PaysFrom
    <3> QED
      BY <1>1, <3>1, <3>2
  <2>3. UNCHANGED ledger \/ Save
    BY <1>1 DEF Next, NewProposal, Validate, Invalidate, CheckDuplication, Process,
                Close, Cancel, WhenBlockSaved, Restart, vars
  <2> QED
    BY <2>1, <2>2, <2>3
<1>2. BInv /\ [Next]_vars => [\A a \in Addresses : Spent(a) => Signed(a)]_vars
  BY <1>1
<1> QED
  BY <1>2, BlocksInvariance, PTL DEF Spec, SpendingIsSigned

LEMMA KeepsUpInit == Init => PoolKeepsUp
PROOF
  BY DEF Init, GenesisLedger, PoolKeepsUp

\* As long as no hook fails, the policies the processors know are those of the
\* last block whenever a proposal is under way.
LEMMA PoolKeptUp ==
    ASSUME LoadMayFail = FALSE
    PROVE  Spec => [](BInv /\ PoolKeepsUp)
PROOF
<1>1. Init => PoolKeepsUp
  BY KeepsUpInit
<1>2. BInv /\ PoolKeepsUp /\ [Next]_vars => PoolKeepsUp'
  BY KeepsUpStep DEF BInv
<1> QED
  BY <1>1, <1>2, BlocksInvariance, PTL DEF Spec

\* An account that a block adds has at least the least balance the policy in
\* force asks for, in every currency it has anything of, as long as the hooks
\* keep the currency pool up to date.
THEOREM ComersHaveEnough ==
    ASSUME LoadMayFail = FALSE
    PROVE  Spec => NewAccountsAreFunded
PROOF
<1>1. ASSUME BInv, PoolKeepsUp, [Next]_vars, NEW a \in Addresses, NEW c \in Currencies,
             account[a] = NoKeys, account'[a] # NoKeys, balance'[a][c] > 0
      PROVE  balance'[a][c] >= design[c].policy.minBalance
  <2>0. TypeOK
    BY <1>1 DEF BInv, IInv
  <2>1. Save
    BY <1>1 DEF Next, NewProposal, Validate, Invalidate, CheckDuplication, Process,
                Close, Cancel, WhenBlockSaved, Restart, vars, ledger
  <2>2. cp[c] = design[c]
    BY <1>1, <2>1 DEF Save, BInv, IInv, PoolIsOfProposal, PoolKeepsUp
  <2>3. balance[a][c] = 0
    BY <1>1 DEF BInv, HeldHasOwner, MoneyIsHeld
  <2>4. balance'[a][c] = delta[a][c]
    BY <2>0, <2>1, <2>3 DEF Save, TypeOK
  <2> QED
    BY <1>1, <2>2, <2>4 DEF BInv, ComersAreFunded
<1>2. BInv /\ PoolKeepsUp /\ [Next]_vars =>
        [\A a \in Addresses, c \in Currencies :
           /\ account[a] = NoKeys
           /\ account'[a] # NoKeys
           /\ balance'[a][c] > 0
           => balance'[a][c] >= design[c].policy.minBalance]_vars
  BY <1>1
<1> QED
  BY <1>2, PoolKeptUp, PTL DEF Spec, NewAccountsAreFunded

(***************************************************************************)
(* The state pool is what the processed operations make, in any order      *)
(***************************************************************************)

\* The operations Process has finished with: those the block will hold.
Done == {o \in Ops : status[o] = "processed"}

\* What an operation Set is still there, whatever was processed since.
WritesStand ==
    \A o \in Done :
        /\ o.type = "key-updater" => newAccount[o.target] = o.keys
        /\ \A a \in Targets(o) : newAccount[a] = KeysOf[a]
        /\ o.type = "currency-register" => newDesign[o.currency] = o.design
        /\ o.type = "currency-policy-updater" =>
             newDesign[o.currency] = [amount |-> design[o.currency].amount, policy |-> o.policy]

GivenBy(B, a, c) == Total([o \in B |-> Gain(o, a, c)])
TakenBy(B, a, c) == Total([o \in B |-> Loss(o, a, c)])
FeesOf(B, c) == Total([o \in B |-> required[o][c].fee])

\* The merged balances are the sums of what the processed operations gave and
\* took, and the collected fees the sum of theirs.
PoolIsSum ==
    /\ \A a \in Addresses, c \in Currencies :
         delta[a][c] = GivenBy(Done, a, c) - TakenBy(Done, a, c)
                         + (IF closed THEN FeeGain(a, c) ELSE 0)
    /\ \A c \in Currencies : fee[c] = FeesOf(Done, c)

LEMMA DoneIsFinite == IsFiniteSet(Done) /\ Done \subseteq Ops
PROOF
  BY OpsAssumption, FS_Subset DEF Done

\* Nothing is processed in a proposal that was dropped.
LEMMA NothingDone ==
    ASSUME NEW a \in Addresses, NEW c \in Currencies, NEW B, B = {}
    PROVE  GivenBy(B, a, c) = 0 /\ TakenBy(B, a, c) = 0 /\ FeesOf(B, c) = 0
PROOF
<1>1. \A f \in [B -> Nat] : Total(f) = 0
  BY TotalZero
<1>2. /\ [o \in B |-> Gain(o, a, c)] \in [B -> Nat]
      /\ [o \in B |-> Loss(o, a, c)] \in [B -> Nat]
      /\ [o \in B |-> required[o][c].fee] \in [B -> Nat]
  OBVIOUS
<1> QED
  BY <1>1, <1>2 DEF GivenBy, TakenBy, FeesOf

LEMMA SumsInit == Init => WritesStand /\ PoolIsSum
PROOF
<1> SUFFICES ASSUME Init
             PROVE  WritesStand /\ PoolIsSum
  OBVIOUS
<1>1. Done = {}
  BY DEF Init, FreshTables, Done
<1>2. delta = NoDelta /\ fee = NoFee /\ ~closed
  BY DEF Init, FreshTables
<1>3. PoolIsSum
  <2>1. ASSUME NEW a \in Addresses, NEW c \in Currencies
        PROVE  /\ delta[a][c] = GivenBy(Done, a, c) - TakenBy(Done, a, c)
               /\ fee[c] = FeesOf(Done, c)
    <3>1. GivenBy(Done, a, c) = 0 /\ TakenBy(Done, a, c) = 0 /\ FeesOf(Done, c) = 0
      BY <1>1, NothingDone
    <3> QED
      BY <1>2, <3>1 DEF NoDelta, NoFee
  <2>2. ASSUME NEW a \in Addresses, NEW c \in Currencies
        PROVE  delta[a][c] = GivenBy(Done, a, c) - TakenBy(Done, a, c) + 0
    <3>1. GivenBy(Done, a, c) = 0 /\ TakenBy(Done, a, c) = 0
      BY <1>1, NothingDone
    <3> QED
      BY <1>2, <3>1 DEF NoDelta
  <2>3. \A c \in Currencies : fee[c] = FeesOf(Done, c)
    BY <2>1, GenesisAssumption
  <2> QED
    BY <1>2, <2>2, <2>3 DEF PoolIsSum
<1> QED
  BY <1>1, <1>3 DEF WritesStand

\* A step that processes nothing leaves the same operations done.
LEMMA DoneStays ==
    ASSUME TypeOK, NEW o \in Ops, Validate(o) \/ Invalidate(o) \/ CheckDuplication(o)
    PROVE  /\ Done' = Done
           /\ \A p \in Done : required'[p] = required[p]
           /\ UNCHANGED <<ledger, cp, fee, changes>>
PROOF
<1>1. \A p \in Ops : status'[p] = "processed" <=> status[p] = "processed"
  BY DEF Validate, Invalidate, CheckDuplication, Accept, Reject, SetStatus, TypeOK
<1>2. Done' = Done
  BY <1>1 DEF Done
<1>3. \A p \in Done : required'[p] = required[p]
  BY DEF Validate, Invalidate, CheckDuplication, Done, TypeOK
<1>4. UNCHANGED <<ledger, cp, fee, changes>>
  BY DEF Validate, Invalidate, CheckDuplication, pool, tables
<1> QED
  BY <1>2, <1>3, <1>4

\* The states an operation sets are named by the fields of its fact.
LEMMA OverwritesFields ==
    ASSUME NEW o \in Ops
    PROVE  /\ o.type = "key-updater" => Overwrites(o) = {o.target}
           /\ Targets(o) \subseteq Overwrites(o)
           /\ IsCurrencyOperation(o) => Overwrites(o) = {o.currency}
           /\ Targets(o) \subseteq Addresses
           /\ o.type # "create-accounts" => Targets(o) = {}
PROOF
<1>1. ASSUME o.type = "key-updater"
      PROVE  Overwrites(o) = {o.target}
  BY <1>1 DEF Overwrites, IsCurrencyOperation
<1>2. o.type # "create-accounts" => Targets(o) = {}
  BY DEF Targets
<1>3. o.type = "create-accounts" => Overwrites(o) = Targets(o)
  BY DEF Overwrites, IsCurrencyOperation
<1>4. IsCurrencyOperation(o) => Overwrites(o) = {o.currency}
  BY DEF Overwrites, IsCurrencyOperation
<1>5. Targets(o) \subseteq Addresses
  BY DEF Targets, Receivers
<1> QED
  BY <1>1, <1>2, <1>3, <1>4, <1>5

\* Processing an operation sets its own states and keeps those of the others.
LEMMA ProcessStands ==
    ASSUME IInv, WritesStand, NEW o \in Ops, Process(o)
    PROVE  WritesStand'
PROOF
<1>0. TypeOK /\ TypeOK' /\ IInv' /\ design' = design
  <2>1. [Next]_vars
    BY DEF Next
  <2>2. TypeOK' /\ ChecksStillHold' /\ ClaimsAreDistinct'
    BY <2>1, TypeStep, ChecksStep, ClaimsStep
  <2>3. OnlyPayersLose' /\ NoOverdraft' /\ (hook => proposed = {})'
    BY <2>1, LosersStep, OverdraftStep, HookStep
  <2> QED
    BY <2>2, <2>3 DEF IInv, Process, ledger
<1>1. Done' = Done \cup {o} /\ o \notin Done
  BY <1>0 DEF Process, SetStatus, TypeOK, Done
<1>2. ASSUME NEW p \in Done
      PROVE  /\ \A a \in Addresses : a \in Overwrites(p) => newAccount'[a] = newAccount[a]
             /\ \A c \in Currencies : c \in Overwrites(p) => newDesign'[c] = newDesign[c]
  <2>1. p \in Ops /\ p # o /\ p \in proposed /\ o \in proposed
    BY <1>1 DEF Done, Process, IInv, ChecksStillHold
  <2>2. Overwrites(p) \cap Overwrites(o) = {}
    BY <2>1, OneWriter DEF SingleWriter, Done, Process
  <2> QED
    BY <2>2, ProcessWrites
<1>3. ASSUME NEW p \in Done
      PROVE  /\ p.type = "key-updater" => newAccount'[p.target] = p.keys
             /\ \A a \in Targets(p) : newAccount'[a] = KeysOf[a]
             /\ p.type = "currency-register" => newDesign'[p.currency] = p.design
             /\ p.type = "currency-policy-updater" => newDesign'[p.currency] =
                  [amount |-> design[p.currency].amount, policy |-> p.policy]
  <2>0. p \in Ops
    BY DEF Done
  <2>1. CASE p.type = "key-updater"
    BY <1>2, <2>0, <2>1, KeyUpdaterFields, OverwritesFields DEF WritesStand
  <2>2. CASE p.type = "create-accounts"
    BY <1>2, <2>0, <2>2, OverwritesFields DEF WritesStand
  <2>3. CASE p.type = "currency-register"
    BY <1>2, <2>0, <2>3, CurrencyRegisterFields, OverwritesFields
       DEF WritesStand, IsCurrencyOperation
  <2>4. CASE p.type = "currency-policy-updater"
    BY <1>2, <2>0, <2>4, CurrencyPolicyUpdaterFields, OverwritesFields
       DEF WritesStand, IsCurrencyOperation
  <2>5. CASE p.type = "transfers"
    BY <2>0, <2>5, OverwritesFields
  <2> QED
    BY <2>0, <2>1, <2>2, <2>3, <2>4, <2>5, OpsKinds DEF HasItems
<1>4. /\ o.type = "key-updater" => newAccount'[o.target] = o.keys
      /\ \A a \in Targets(o) : newAccount'[a] = KeysOf[a]
      /\ o.type = "currency-register" => newDesign'[o.currency] = o.design
      /\ o.type = "currency-policy-updater" => newDesign'[o.currency] =
           [amount |-> design[o.currency].amount, policy |-> o.policy]
  <2>1. CASE o.type = "key-updater"
    BY <1>0, <2>1, KeyUpdaterFields DEF Process, AccountsSet, TypeOK, Targets
  <2>2. CASE o.type = "create-accounts"
    <3>1. newAccount' = [a \in Addresses |-> IF a \in Receivers(o) THEN KeysOf[a]
                                             ELSE newAccount[a]]
      BY <2>2 DEF Process, AccountsSet
    <3> QED
      BY <2>2, <3>1 DEF Targets, Receivers
  <2>3. CASE o.type = "currency-register"
    BY <1>0, <2>3, CurrencyRegisterFields DEF Process, DesignsSet, TypeOK, Targets
  <2>4. CASE o.type = "currency-policy-updater"
    BY <1>0, <2>4, CurrencyPolicyUpdaterFields DEF Process, DesignsSet, TypeOK, Targets
  <2>5. CASE o.type = "transfers"
    BY <2>5, OverwritesFields
  <2> QED
    BY <2>1, <2>2, <2>3, <2>4, <2>5, OpsKinds DEF HasItems
<1>5. \A p : Targets(p)' = Targets(p)
  BY DEF Targets, Receivers
<1> QED
  BY <1>0, <1>1, <1>3, <1>4, <1>5 DEF WritesStand

LEMMA StandsStep ==
    ASSUME IInv, WritesStand, [Next]_vars
    PROVE  WritesStand'
PROOF
<1>0. TypeOK
  BY DEF IInv
<1>1. ASSUME Done' = Done, UNCHANGED <<design, newAccount, newDesign>>
      PROVE  WritesStand'
  BY <1>1 DEF WritesStand, Targets, Receivers
<1>2. ASSUME NEW o \in Ops, Process(o)
      PROVE  WritesStand'
  BY <1>2, ProcessStands
<1>3. ASSUME NEW o \in Ops, Validate(o) \/ Invalidate(o) \/ CheckDuplication(o)
      PROVE  WritesStand'
  BY <1>0, <1>1, <1>3, DoneStays DEF ledger, changes
<1>4. ASSUME NEW P \in SUBSET (Ops \ committed), NewProposal(P)
      PROVE  WritesStand'
  BY <1>1, <1>4 DEF NewProposal, Done, ledger, changes
<1>5. CASE Close \/ WhenBlockSaved \/ UNCHANGED vars
  BY <1>1, <1>5 DEF Close, WhenBlockSaved, vars, Done, ledger, changes
<1>6. CASE Cancel \/ Save \/ Restart
  <2>1. Done' = {}
    BY <1>6 DEF Cancel, Save, Restart, DropProposal, Done
  <2> QED
    BY <2>1 DEF WritesStand
<1> QED
  BY <1>2, <1>3, <1>4, <1>5, <1>6 DEF Next

\* One more processed operation adds what it gives, takes and leaves as fee.
LEMMA SumsExtend ==
    ASSUME TypeOK, NEW B \in SUBSET Ops, NEW o \in Ops, o \notin B,
           NEW a \in Addresses, NEW c \in Currencies
    PROVE  /\ GivenBy(B \cup {o}, a, c) = GivenBy(B, a, c) + Gain(o, a, c)
           /\ TakenBy(B \cup {o}, a, c) = TakenBy(B, a, c) + Loss(o, a, c)
           /\ FeesOf(B \cup {o}, c) = FeesOf(B, c) + required[o][c].fee
PROOF
<1> DEFINE C == B \cup {o}
           gain == [p \in C |-> Gain(p, a, c)]
           loss == [p \in C |-> Loss(p, a, c)]
           fees == [p \in C |-> required[p][c].fee]
<1>1. IsFiniteSet(B) /\ o \in C
  BY OpsAssumption, FS_Subset
<1>2. gain \in [C -> Nat] /\ loss \in [C -> Nat] /\ fees \in [C -> Nat]
  <2>1. \A p \in C : Gain(p, a, c) \in Nat
    BY GainType
  <2>2. \A p \in C : Loss(p, a, c) \in Nat
    BY LossType
  <2>3. \A p \in C : required[p][c].fee \in Nat
    BY DEF TypeOK
  <2> QED
    BY <2>1, <2>2, <2>3
<1>3. /\ [p \in B |-> gain[p]] = [p \in B |-> Gain(p, a, c)]
      /\ [p \in B |-> loss[p]] = [p \in B |-> Loss(p, a, c)]
      /\ [p \in B |-> fees[p]] = [p \in B |-> required[p][c].fee]
  OBVIOUS
<1>4. /\ gain[o] = Gain(o, a, c) /\ loss[o] = Loss(o, a, c)
      /\ fees[o] = required[o][c].fee
  OBVIOUS
<1>5. GivenBy(C, a, c) = Total(gain) /\ TakenBy(C, a, c) = Total(loss)
      /\ FeesOf(C, c) = Total(fees)
  BY DEF GivenBy, TakenBy, FeesOf
<1> HIDE DEF gain, loss, fees
<1>6. /\ Total(gain) = Total([p \in B |-> gain[p]]) + gain[o]
      /\ Total(loss) = Total([p \in B |-> loss[p]]) + loss[o]
      /\ Total(fees) = Total([p \in B |-> fees[p]]) + fees[o]
  BY <1>1, <1>2, TotalExtend
<1> QED
  BY <1>3, <1>4, <1>5, <1>6 DEF GivenBy, TakenBy, FeesOf

\* The sums of some operations are natural numbers.
LEMMA SumsType ==
    ASSUME TypeOK, NEW B \in SUBSET Ops, NEW a \in Addresses, NEW c \in Currencies
    PROVE  GivenBy(B, a, c) \in Nat /\ TakenBy(B, a, c) \in Nat /\ FeesOf(B, c) \in Nat
PROOF
<1>1. IsFiniteSet(B)
  BY OpsAssumption, FS_Subset
<1>2. /\ [p \in B |-> Gain(p, a, c)] \in [B -> Nat]
      /\ [p \in B |-> Loss(p, a, c)] \in [B -> Nat]
      /\ [p \in B |-> required[p][c].fee] \in [B -> Nat]
  <2>1. \A p \in B : Gain(p, a, c) \in Nat
    BY GainType
  <2>2. \A p \in B : Loss(p, a, c) \in Nat
    BY LossType
  <2>3. \A p \in B : required[p][c].fee \in Nat
    BY DEF TypeOK
  <2> QED
    BY <2>1, <2>2, <2>3
<1> QED
  BY <1>1, <1>2, TotalIsNat DEF GivenBy, TakenBy, FeesOf

\* A step that leaves the charges of the processed operations leaves the sums.
LEMMA SumsStay ==
    ASSUME Done' = Done, \A o \in Done : required'[o] = required[o]
    PROVE  /\ \A a \in Addresses, c \in Currencies :
                /\ GivenBy(Done, a, c)' = GivenBy(Done, a, c)
                /\ TakenBy(Done, a, c)' = TakenBy(Done, a, c)
           /\ \A c \in Currencies : FeesOf(Done, c)' = FeesOf(Done, c)
PROOF
<1>1. ASSUME NEW a \in Addresses, NEW c \in Currencies
      PROVE  /\ [o \in Done' |-> Gain(o, a, c)] = [o \in Done |-> Gain(o, a, c)]
             /\ [o \in Done' |-> Loss(o, a, c)'] = [o \in Done |-> Loss(o, a, c)]
  <2>1. \A o \in Done : Loss(o, a, c)' = Loss(o, a, c)
    BY DEF Loss
  <2> QED
    BY <2>1
<1>2. ASSUME NEW c \in Currencies
      PROVE  [o \in Done' |-> required'[o][c].fee] = [o \in Done |-> required[o][c].fee]
  OBVIOUS
<1> QED
  BY <1>1, <1>2 DEF GivenBy, TakenBy, FeesOf

\* Every step keeps the state pool the sum of what was processed.
LEMMA SumsStep ==
    ASSUME IInv, PoolIsOfProposal, PoolIsSum, [Next]_vars
    PROVE  PoolIsSum'
PROOF
<1>0. TypeOK
  BY DEF IInv
<1>1. ASSUME Done' = Done, \A o \in Done : required'[o] = required[o],
             UNCHANGED <<delta, fee, closed, cp>>
      PROVE  PoolIsSum'
  <2>1. \A a \in Addresses, c \in Currencies : FeeGain(a, c)' = FeeGain(a, c)
    BY <1>1 DEF FeeGain, FeeReceiver
  <2> QED
    BY <1>1, <2>1, SumsStay DEF PoolIsSum
<1>2. ASSUME Done' = {}, delta' = NoDelta, fee' = NoFee, ~closed'
      PROVE  PoolIsSum'
  <2>1. ASSUME NEW a \in Addresses, NEW c \in Currencies
        PROVE  /\ delta'[a][c] = GivenBy(Done, a, c)' - TakenBy(Done, a, c)' + 0
               /\ fee'[c] = FeesOf(Done, c)'
    <3>1. \A f \in [Done' -> Nat] : Total(f) = 0
      BY <1>2, TotalZero
    <3>2. GivenBy(Done, a, c)' = 0 /\ TakenBy(Done, a, c)' = 0 /\ FeesOf(Done, c)' = 0
      <4>1. /\ [o \in Done' |-> Gain(o, a, c)'] \in [Done' -> Nat]
            /\ [o \in Done' |-> Loss(o, a, c)'] \in [Done' -> Nat]
            /\ [o \in Done' |-> required'[o][c].fee] \in [Done' -> Nat]
        BY <1>2
      <4> QED
        BY <3>1, <4>1 DEF GivenBy, TakenBy, FeesOf
    <3> QED
      BY <1>2, <3>2 DEF NoDelta, NoFee
  <2>2. \A c \in Currencies : fee'[c] = FeesOf(Done, c)'
    BY <2>1, GenesisAssumption
  <2> QED
    BY <1>2, <2>1, <2>2 DEF PoolIsSum
<1>3. ASSUME NEW o \in Ops, Process(o)
      PROVE  PoolIsSum'
  <2>1. Done' = Done \cup {o} /\ o \notin Done
    BY <1>0, <1>3 DEF Process, SetStatus, TypeOK, Done
  <2>2. ~closed /\ ~closed'
    BY <1>3 DEF Process, PoolIsOfProposal, AllDone
  <2>3. required' = required
    BY <1>3 DEF Process
  <2>4. ASSUME NEW a \in Addresses, NEW c \in Currencies
        PROVE  /\ GivenBy(Done, a, c)' = GivenBy(Done, a, c) + Gain(o, a, c)
               /\ TakenBy(Done, a, c)' = TakenBy(Done, a, c) + Loss(o, a, c)
               /\ FeesOf(Done, c)' = FeesOf(Done, c) + required[o][c].fee
    <3>1. /\ GivenBy(Done, a, c)' = GivenBy(Done', a, c)
          /\ TakenBy(Done, a, c)' = TakenBy(Done', a, c)
          /\ FeesOf(Done, c)' = FeesOf(Done', c)
      BY <2>3 DEF GivenBy, TakenBy, FeesOf, Loss, Gain
    <3> QED
      BY <1>0, <2>1, <3>1, DoneIsFinite, SumsExtend
  <2>5. ASSUME NEW a \in Addresses, NEW c \in Currencies
        PROVE  /\ delta'[a][c] = GivenBy(Done, a, c)' - TakenBy(Done, a, c)' + 0
               /\ fee'[c] = FeesOf(Done, c)'
    <3>1. /\ delta'[a][c] = delta[a][c] + Gain(o, a, c) - Loss(o, a, c)
          /\ fee'[c] = fee[c] + required[o][c].fee
      BY <1>3 DEF Process
    <3>2. /\ delta[a][c] = GivenBy(Done, a, c) - TakenBy(Done, a, c) + 0
          /\ fee[c] = FeesOf(Done, c)
      BY <2>2 DEF PoolIsSum
    <3>3. /\ GivenBy(Done, a, c) \in Nat /\ TakenBy(Done, a, c) \in Nat
          /\ Gain(o, a, c) \in Nat /\ Loss(o, a, c) \in Nat
      BY <1>0, DoneIsFinite, SumsType, GainType, LossType
    <3> QED
      BY <2>4, <3>1, <3>2, <3>3
  <2>6. \A c \in Currencies : fee'[c] = FeesOf(Done, c)'
    BY <2>5, GenesisAssumption
  <2> QED
    BY <2>2, <2>5, <2>6 DEF PoolIsSum
<1>4. CASE Close
  <2>1. /\ Done' = Done /\ required' = required /\ fee' = fee /\ cp' = cp
        /\ ~closed /\ closed'
    BY <1>4 DEF Close, Done, tables, pool
  <2>2. ASSUME NEW a \in Addresses, NEW c \in Currencies
        PROVE  delta'[a][c] = GivenBy(Done, a, c)' - TakenBy(Done, a, c)' + FeeGain(a, c)'
    <3>1. delta'[a][c] = delta[a][c] + FeeGain(a, c)
      BY <1>4 DEF Close
    <3>2. delta[a][c] = GivenBy(Done, a, c) - TakenBy(Done, a, c) + 0
      BY <2>1 DEF PoolIsSum
    <3>3. FeeGain(a, c)' = FeeGain(a, c)
      BY <2>1 DEF FeeGain, FeeReceiver
    <3>4. GivenBy(Done, a, c) \in Nat /\ TakenBy(Done, a, c) \in Nat
      BY <1>0, DoneIsFinite, SumsType
    <3>5. /\ GivenBy(Done, a, c)' = GivenBy(Done, a, c)
          /\ TakenBy(Done, a, c)' = TakenBy(Done, a, c)
      BY <2>1, SumsStay
    <3> QED
      BY <3>1, <3>2, <3>3, <3>4, <3>5
  <2>3. \A c \in Currencies : fee'[c] = FeesOf(Done, c)'
    BY <2>1, SumsStay DEF PoolIsSum
  <2> QED
    BY <2>1, <2>2, <2>3 DEF PoolIsSum
<1>5. CASE Cancel \/ Save \/ Restart
  <2>1. /\ Done' = {} /\ delta' = NoDelta /\ fee' = NoFee /\ ~closed'
    BY <1>5 DEF Cancel, Save, Restart, DropProposal, Done
  <2> QED
    BY <1>2, <2>1
<1>6. ASSUME NEW o \in Ops, Validate(o) \/ Invalidate(o) \/ CheckDuplication(o)
      PROVE  PoolIsSum'
  BY <1>0, <1>1, <1>6, DoneStays DEF changes
<1>7. ASSUME NEW P \in SUBSET (Ops \ committed), NewProposal(P)
      PROVE  PoolIsSum'
  BY <1>1, <1>7 DEF NewProposal, Done, pool, tables, changes
<1>8. CASE WhenBlockSaved
  <2>1. Done = {} /\ Done' = {}
    BY <1>8 DEF WhenBlockSaved, Done, IInv, ChecksStillHold
  <2>2. delta' = NoDelta /\ fee' = NoFee /\ ~closed'
    BY <1>8 DEF WhenBlockSaved, PoolIsOfProposal, IInv, tables, changes
  <2> QED
    BY <1>2, <2>1, <2>2
<1>9. CASE UNCHANGED vars
  BY <1>1, <1>9 DEF vars, Done, pool, tables, changes
<1> QED
  BY <1>3, <1>4, <1>5, <1>6, <1>7, <1>8, <1>9 DEF Next

(***************************************************************************)
(* The blocks are those of the abstract ledger                             *)
(***************************************************************************)

\* The abstract ledger speaks of the same operations, sums, fees and keys.
LEMMA SameOperations ==
    ASSUME NEW o
    PROVE  /\ L!HasItems(o) <=> HasItems(o)
           /\ L!IsCurrencyOperation(o) <=> IsCurrencyOperation(o)
           /\ L!Payer(o) = Payer(o)
           /\ L!DuplicationKey(o) = DuplicationKey(o)
           /\ L!Receivers(o) = Receivers(o)
           /\ L!Targets(o) = Targets(o)
           /\ L!Used(o) = Used(o)
           /\ \A a, c : L!Credit(o, a, c) = Credit(o, a, c)
PROOF
<1>1. L!HasItems(o) <=> HasItems(o)
  BY DEF L!HasItems, HasItems
<1>2. L!IsCurrencyOperation(o) <=> IsCurrencyOperation(o)
  BY DEF L!IsCurrencyOperation, IsCurrencyOperation
<1>3. L!Payer(o) = Payer(o)
  BY DEF L!Payer, Payer, L!HasItems, HasItems
<1>4. L!DuplicationKey(o) = DuplicationKey(o)
  BY <1>2, <1>3 DEF L!DuplicationKey, DuplicationKey
<1>5. L!Receivers(o) = Receivers(o)
  BY DEF L!Receivers, Receivers
<1>6. L!Targets(o) = Targets(o)
  BY <1>5 DEF L!Targets, Targets
<1>7. L!Used(o) = Used(o)
  BY DEF L!Used, Used, L!HasItems, HasItems
<1>8. \A a, c : L!Credit(o, a, c) = Credit(o, a, c)
  BY <1>1 DEF L!Credit, Credit
<1> QED
  BY <1>1, <1>2, <1>3, <1>4, <1>5, <1>6, <1>7, <1>8

LEMMA SameTotal ==
    ASSUME NEW f
    PROVE  L!Total(f) = Total(f)
PROOF
  BY DEF L!Total, Total, L!Coins, Coins, L!Cardinality, Cardinality

LEMMA SameFee ==
    ASSUME NEW f, NEW n
    PROVE  /\ L!F!Fee(f, n) = F!Fee(f, n)
           /\ L!F!HasReceiver(f) <=> F!HasReceiver(f)
PROOF
<1>1. L!F!Fee(f, n) = F!Fee(f, n)
  BY DEF L!F!Fee, F!Fee, L!F!RatioFee, F!RatioFee, L!F!MulRatio, F!MulRatio,
         L!F!UnlimitedMaxFeeAmount, F!UnlimitedMaxFeeAmount
<1>2. L!F!HasReceiver(f) <=> F!HasReceiver(f)
  BY DEF L!F!HasReceiver, F!HasReceiver
<1> QED
  BY <1>1, <1>2

LEMMA SameCharge ==
    ASSUME NEW o, NEW ds, NEW c
    PROVE  L!Charge(o, ds, c) = Charge(o, ds, c)
PROOF
<1> DEFINE f == ds[c].policy.feeer
<1>1. L!ItemsFee(o, f, c) = ItemsFee(o, f, c)
  <2>1. [r \in Addresses |-> L!ItemFee(f, o.amounts[r][c])] =
          [r \in Addresses |-> ItemFee(f, o.amounts[r][c])]
    <3>1. \A r \in Addresses :
             L!ItemFee(f, o.amounts[r][c]) = ItemFee(f, o.amounts[r][c])
      BY SameFee DEF L!ItemFee, ItemFee
    <3> QED
      BY <3>1
  <2> HIDE DEF f
  <2> QED
    BY <2>1, SameTotal DEF L!ItemsFee, ItemsFee
<1>2. L!KeyUpdaterFee(f) = KeyUpdaterFee(f)
  BY SameFee DEF L!KeyUpdaterFee, KeyUpdaterFee
<1>3. L!NoCharge = NoCharge
  BY DEF L!NoCharge, NoCharge
<1> QED
  BY <1>1, <1>2, <1>3, SameOperations DEF L!Charge, Charge

LEMMA SameSigns ==
    ASSUME NEW signs, NEW keys
    PROVE  /\ L!CheckThreshold(signs, keys) <=> CheckThreshold(signs, keys)
           /\ \A pubs, n : L!CheckFactSignsByPubs(signs, pubs, n) <=>
                             CheckFactSignsByPubs(signs, pubs, n)
PROOF
<1>1. L!Members(keys) = Members(keys)
  BY DEF L!Members, Members
<1>2. L!Weight(keys, signs) = Weight(keys, signs)
  BY SameTotal DEF L!Weight, Weight
<1>3. \A S : L!Cardinality(S) = Cardinality(S)
  BY DEF L!Cardinality, Cardinality
<1> QED
  BY <1>1, <1>2, <1>3 DEF L!CheckThreshold, CheckThreshold, L!CheckFactSignsByPubs,
                          CheckFactSignsByPubs

\* A node starts as the abstract ledger does.
LEMMA LedgerInit == Init => L!Init
PROOF
<1> SUFFICES ASSUME Init
             PROVE  L!Init
  OBVIOUS
<1>1. account = [a \in Addresses |-> IF a = Genesis THEN KeysOf[a] ELSE NoKeys]
  BY GenesisAssumption DEF Init, GenesisLedger, NoNewAccounts
<1>2. balance = [a \in Addresses |-> [c \in Currencies |->
                    IF a = Genesis /\ design[c] # NoDesign THEN design[c].amount ELSE 0]]
  BY DEF Init, GenesisLedger
<1> QED
  BY <1>1, <1>2 DEF Init, GenesisLedger, L!Init

\* What a checked operation is charged is what the policies of the blocks ask.
LEMMA ChargeOfIsCharge ==
    ASSUME TypeOK, cp = design, NEW o \in Ops, PreProcessOK(o), NEW c \in Currencies
    PROVE  L!ChargeOf(o, c) = Charge(o, cp, c)
PROOF
<1>1. CASE design[c] # NoDesign
  BY <1>1, SameCharge DEF L!ChargeOf, L!Registered
<1>2. CASE design[c] = NoDesign
  <2>1. c \notin Used(o)
    BY <1>2, CheckedCharge
  <2> QED
    BY <1>2, <2>1 DEF L!ChargeOf, L!Registered, Charge, NoCharge, L!NoCharge
<1> QED
  BY <1>1, <1>2

\* An operation that passed its checks is good on its own.
LEMMA CheckedIsGood ==
    ASSUME TypeOK, cp = design, NEW o \in Ops, PreProcessOK(o)
    PROVE  L!Good(o)
PROOF
<1>1. ASSUME ~IsCurrencyOperation(o)
      PROVE  L!PaidFor(o) /\ PayerOK(o)
  <2>1. PayerOK(o)
    BY <1>1 DEF PreProcessOK
  <2>2. ASSUME NEW c \in Used(o)
        PROVE  L!Registered(c) /\ L!ChargeOf(o, c).amount =< balance[Payer(o)][c]
    <3>1. c \in Currencies
      BY <1>1, OpsKinds, KeyUpdaterFields DEF Used, IsCurrencyOperation, HasItems
    <3>2. Registered(c) /\ Charge(o, cp, c).amount =< balance[Payer(o)][c]
      BY <2>1 DEF PayerOK, EnoughBalance
    <3> QED
      BY <3>1, <3>2, ChargeOfIsCharge DEF Registered, L!Registered
  <2> QED
    BY <2>1, <2>2, SameOperations, SameSigns
       DEF L!PaidFor, L!Exists, PayerOK, Exists, SignedByKeys
<1>2. CASE o.type = "transfers"
  BY <1>1, <1>2, SameOperations
     DEF L!Good, L!Exists, Exists, PayerOK, TransfersOK, IsCurrencyOperation
<1>3. CASE o.type = "create-accounts"
  <2>1. L!PaidFor(o) /\ CreateAccountsOK(o)
    BY <1>1, <1>3 DEF PayerOK, IsCurrencyOperation
  <2>2. ASSUME NEW r \in Receivers(o), NEW c \in Used(o)
        PROVE  o.amounts[r][c] \in {0} \cup {n \in Nat : n >= design[c].policy.minBalance}
    <3>1. HasItems(o) /\ r \in Addresses
      BY <1>3 DEF HasItems, Receivers
    <3>2. c \in Currencies
      BY <3>1 DEF Used, HasItems
    <3>3. o.amounts[r][c] \in Nat
      BY <3>1, <3>2, ItemsFields
    <3>4. o.amounts[r][c] > 0 => o.amounts[r][c] >= design[c].policy.minBalance
      BY <2>1, <3>2 DEF CreateAccountsOK
    <3> QED
      BY <3>3, <3>4
  <2> QED
    BY <1>3, <2>1, <2>2, SameOperations DEF L!Good, L!Exists, Exists, CreateAccountsOK
<1>4. CASE o.type = "key-updater"
  BY <1>1, <1>4, SameOperations
     DEF L!Good, PayerOK, KeyUpdaterOK, IsCurrencyOperation
<1>5. CASE o.type = "currency-register"
  <2>1. SuffrageOK(o) /\ CurrencyRegisterOK(o)
    BY <1>5 DEF PreProcessOK, IsCurrencyOperation, SuffrageOK
  <2> QED
    BY <1>5, <2>1, SameFee, SameSigns
       DEF L!Good, L!Approved, L!Exists, Exists, L!Registered, L!GoodReceiver,
           SuffrageOK, CurrencyRegisterOK, ReceiverIsOK
<1>6. CASE o.type = "currency-policy-updater"
  <2>1. SuffrageOK(o) /\ CurrencyPolicyUpdaterOK(o)
    BY <1>6 DEF PreProcessOK, IsCurrencyOperation, SuffrageOK
  <2> QED
    BY <1>6, <2>1, SameFee, SameSigns
       DEF L!Good, L!Approved, L!Exists, Exists, L!Registered, L!GoodReceiver,
           SuffrageOK, CurrencyPolicyUpdaterOK, ReceiverIsOK
<1> QED
  BY <1>2, <1>3, <1>4, <1>5, <1>6, OpsKinds DEF HasItems

\* What operations give is what is received and what is issued.
LEMMA GivenIsReceivedAndIssued ==
    ASSUME NEW B \in SUBSET Ops, NEW a \in Addresses, NEW c \in Currencies
    PROVE  /\ L!Received(B, a, c) \in Nat /\ L!Issued(B, a, c) \in Nat
           /\ GivenBy(B, a, c) = L!Received(B, a, c) + L!Issued(B, a, c)
PROOF
<1> DEFINE S == {p \in B : p.type = "currency-register" /\ p.genesis = a /\ p.currency = c}
           credit == [o \in B |-> Credit(o, a, c)]
           issued == [o \in S |-> o.design.amount]
           spread == [o \in B |-> IF o \in S THEN issued[o] ELSE 0]
<1>1. IsFiniteSet(B) /\ S \in SUBSET B /\ IsFiniteSet(S)
  BY OpsAssumption, FS_Subset
<1>2. credit \in [B -> Nat]
  <2>1. \A o \in B : Credit(o, a, c) \in Nat
    BY ItemsFields DEF Credit
  <2> QED
    BY <2>1
<1>3. issued \in [S -> Nat] /\ spread \in [B -> Nat]
  <2>1. \A o \in S : o.design.amount \in Nat
    BY CurrencyRegisterFields DEF Designs
  <2> QED
    BY <2>1
<1>4. [o \in B |-> Gain(o, a, c)] = [o \in B |-> credit[o] + spread[o]]
  <2>1. ASSUME NEW o \in B
        PROVE  Gain(o, a, c) = credit[o] + spread[o]
    <3>1. CASE o \in S
      <4>1. Gain(o, a, c) = o.design.amount /\ credit[o] = 0
        BY <3>1 DEF Gain, Credit, HasItems
      <4>2. o.design.amount \in Nat
        BY <3>1, CurrencyRegisterFields DEF Designs
      <4> QED
        BY <3>1, <4>1, <4>2
    <3>2. CASE o \notin S
      <4>1. spread[o] = 0 /\ credit[o] \in Nat
        BY <1>2, <3>2
      <4>2. Gain(o, a, c) = credit[o]
        BY <3>2 DEF Gain, Credit, HasItems
      <4> QED
        BY <4>1, <4>2
    <3> QED
      BY <3>1, <3>2
  <2> QED
    BY <2>1
<1>5. L!Received(B, a, c) = Total(credit) /\ L!Issued(B, a, c) = Total(issued)
  <2>1. [o \in B |-> L!Credit(o, a, c)] = credit
    BY SameOperations
  <2> QED
    BY <2>1, SameTotal DEF L!Received, L!Issued
<1> HIDE DEF S, credit, issued
<1>6. Total(spread) = Total(issued)
  BY <1>1, <1>3, TotalPart
<1> HIDE DEF spread
<1>7. GivenBy(B, a, c) = Total(credit) + Total(spread)
  BY <1>1, <1>2, <1>3, <1>4, TotalAdd DEF GivenBy
<1>8. Total(credit) \in Nat /\ Total(issued) \in Nat
  BY <1>1, <1>2, <1>3, TotalIsNat
<1> QED
  BY <1>5, <1>6, <1>7, <1>8

\* What the processed operations take is what is paid.
LEMMA TakenIsPaid ==
    ASSUME BInv, cp = design, NEW a \in Addresses, NEW c \in Currencies
    PROVE  TakenBy(Done, a, c) = L!Paid(Done, a, c)
PROOF
<1>0. TypeOK
  BY DEF BInv, IInv
<1> DEFINE S == {p \in Done : ~IsCurrencyOperation(p) /\ Payer(p) = a}
           paid == [o \in S |-> required[o][c].amount]
<1>1. S \in SUBSET Done /\ paid \in [S -> Nat]
  BY <1>0, DoneIsFinite DEF TypeOK
<1>2. [o \in Done |-> Loss(o, a, c)] = [o \in Done |-> IF o \in S THEN paid[o] ELSE 0]
  BY DEF Loss
<1>3. L!Paid(Done, a, c) = Total(paid)
  <2>1. S = {p \in Done : ~L!IsCurrencyOperation(p) /\ L!Payer(p) = a}
    BY SameOperations
  <2>2. ASSUME NEW o \in S
        PROVE  L!ChargeOf(o, c).amount = paid[o]
    <3>1. o \in Ops /\ PreProcessOK(o) /\ required[o][c] = Charge(o, cp, c)
      BY DEF Done, BInv, IInv, ChecksStillHold
    <3> QED
      BY <1>0, <3>1, ChargeOfIsCharge
  <2>3. [o \in S |-> L!ChargeOf(o, c).amount] = paid
    BY <2>2
  <2> HIDE DEF S, paid
  <2> QED
    BY <2>1, <2>3, SameTotal DEF L!Paid
<1> HIDE DEF S, paid
<1> QED
  BY <1>1, <1>2, <1>3, TotalPart DEF TakenBy

\* What Close pays is the fees of the block, to whom its policies name.
LEMMA FeeGainIsFees ==
    ASSUME BInv, PoolIsSum, cp = design, NEW a \in Addresses, NEW c \in Currencies
    PROVE  FeeGain(a, c) = L!Fees(Done, a, c)
PROOF
<1>0. TypeOK
  BY DEF BInv, IInv
<1>1. fee[c] = Total([o \in Done |-> L!ChargeOf(o, c).fee])
  <2>1. ASSUME NEW o \in Done
        PROVE  L!ChargeOf(o, c).fee = required[o][c].fee
    <3>1. o \in Ops /\ PreProcessOK(o) /\ required[o][c] = Charge(o, cp, c)
      BY DEF Done, BInv, IInv, ChecksStillHold
    <3> QED
      BY <1>0, <3>1, ChargeOfIsCharge
  <2>2. [o \in Done |-> L!ChargeOf(o, c).fee] = [o \in Done |-> required[o][c].fee]
    BY <2>1
  <2> QED
    BY <2>2 DEF PoolIsSum, FeesOf
<1>2. L!Fees(Done, a, c) =
        IF design[c] # NoDesign /\ F!HasReceiver(design[c].policy.feeer)
           /\ design[c].policy.feeer.receiver = a
        THEN fee[c] ELSE 0
  BY <1>1, SameFee, SameTotal DEF L!Fees, L!Registered
<1>3. fee[c] > 0 => design[c] # NoDesign /\ F!HasReceiver(design[c].policy.feeer)
  BY DEF BInv, FeesArePayable, FeeIsPayable, Registered
<1>4. fee[c] \in Nat
  BY <1>0 DEF TypeOK
<1> QED
  BY <1>2, <1>3, <1>4 DEF FeeGain, FeeReceiver

\* With the fees paid, the balances in the state pool are those of the
\* ledger's block.
LEMMA PoolBalances ==
    ASSUME BInv, PoolIsSum, cp = design, closed, NEW a \in Addresses, NEW c \in Currencies
    PROVE  balance[a][c] + delta[a][c] =
             balance[a][c] + L!Received(Done, a, c) + L!Issued(Done, a, c)
               + L!Fees(Done, a, c) - L!Paid(Done, a, c)
PROOF
<1>0. TypeOK
  BY DEF BInv, IInv
<1>1. delta[a][c] = GivenBy(Done, a, c) - TakenBy(Done, a, c) + FeeGain(a, c)
  BY DEF PoolIsSum
<1>2. /\ L!Received(Done, a, c) \in Nat /\ L!Issued(Done, a, c) \in Nat
      /\ GivenBy(Done, a, c) = L!Received(Done, a, c) + L!Issued(Done, a, c)
  BY DoneIsFinite, GivenIsReceivedAndIssued
<1>3. TakenBy(Done, a, c) = L!Paid(Done, a, c) /\ TakenBy(Done, a, c) \in Nat
  BY <1>0, DoneIsFinite, SumsType, TakenIsPaid
<1>4. FeeGain(a, c) = L!Fees(Done, a, c) /\ FeeGain(a, c) \in Nat
  BY <1>0, FeeGainIsFees DEF FeeGain, TypeOK
<1>5. balance[a][c] \in Int
  BY <1>0 DEF TypeOK
<1> QED
  BY <1>1, <1>2, <1>3, <1>4, <1>5

\* The accounts that were Set are those that the operations of B, let in
\* together, create and update.
NewAccountsOf(B) == [a \in Addresses |->
    CASE \E o \in B : a \in Targets(o) -> KeysOf[a]
      [] \E o \in B : o.type = "key-updater" /\ o.target = a ->
           (CHOOSE o \in B : o.type = "key-updater" /\ o.target = a).keys
      [] OTHER -> NoKeys]

\* The accounts in the state pool are those of the ledger's block: the order
\* in which the operations were processed does not show.
LEMMA PoolAccounts ==
    ASSUME BInv, WritesStand
    PROVE  /\ newAccount = NewAccountsOf(Done)
           /\ \A a \in Addresses :
                (IF newAccount[a] # NoKeys THEN newAccount[a] ELSE account[a]) =
                  CASE \E o \in Done : a \in L!Targets(o) -> KeysOf[a]
                    [] \E o \in Done : o.type = "key-updater" /\ o.target = a ->
                         (CHOOSE o \in Done : o.type = "key-updater" /\ o.target = a).keys
                    [] OTHER -> account[a]
PROOF
<1> DEFINE Created(a) == \E o \in Done : a \in L!Targets(o)
           Updated(a) == \E o \in Done : o.type = "key-updater" /\ o.target = a
           Updater(a) == CHOOSE o \in Done : o.type = "key-updater" /\ o.target = a
<1>0. NewAccountsOf(Done) = [a \in Addresses |->
        CASE Created(a) -> KeysOf[a]
          [] Updated(a) -> Updater(a).keys
          [] OTHER -> NoKeys]
  BY SameOperations DEF NewAccountsOf
<1>1. ASSUME NEW a \in Addresses, Created(a)
      PROVE  newAccount[a] = KeysOf[a] /\ newAccount[a] # NoKeys
  <2>1. PICK o \in Done : a \in Targets(o)
    BY <1>1, SameOperations
  <2>2. newAccount[a] = KeysOf[a]
    BY <2>1 DEF WritesStand
  <2> QED
    BY <2>2, NoKeysAreKeys DEF AccountKeys
<1>2. ASSUME NEW a \in Addresses, Updated(a)
      PROVE  newAccount[a] = Updater(a).keys /\ newAccount[a] # NoKeys
  <2>1. Updater(a) \in Done /\ Updater(a).type = "key-updater" /\ Updater(a).target = a
    BY <1>2
  <2> HIDE DEF Updater
  <2>2. newAccount[a] = Updater(a).keys
    BY <2>1 DEF WritesStand
  <2>3. Updater(a).keys \in AccountKeys
    BY <2>1, DoneIsFinite, KeyUpdaterFields
  <2> QED
    BY <2>2, <2>3, NoKeysAreKeys
<1>3. ASSUME NEW a \in Addresses, newAccount[a] # NoKeys
      PROVE  Created(a) \/ Updated(a)
  <2>1. PICK o \in Ops : ~IsCurrencyOperation(o) /\ Wrote(o, a)
    BY <1>3 DEF BInv, WrittenByProposal
  <2>2. o \in Done /\ a \in Overwrites(o)
    BY <2>1 DEF Wrote, Done
  <2>3. CASE o.type = "key-updater"
    BY <2>2, <2>3, OverwritesFields
  <2>4. CASE o.type # "key-updater"
    <3>1. a \in Targets(o)
      BY <2>1, <2>2, <2>4 DEF Overwrites
    <3> QED
      BY <2>2, <3>1, SameOperations
  <2> QED
    BY <2>3, <2>4
<1> HIDE DEF Created, Updated, Updater
<1>4. ASSUME NEW a \in Addresses
      PROVE  /\ (IF newAccount[a] # NoKeys THEN newAccount[a] ELSE account[a]) =
                  CASE Created(a) -> KeysOf[a]
                    [] Updated(a) -> Updater(a).keys
                    [] OTHER -> account[a]
             /\ newAccount[a] =
                  CASE Created(a) -> KeysOf[a]
                    [] Updated(a) -> Updater(a).keys
                    [] OTHER -> NoKeys
  <2>1. CASE Created(a) /\ ~Updated(a)
    BY <1>1, <2>1
  <2>2. CASE Updated(a) /\ ~Created(a)
    BY <1>2, <2>2
  <2>3. CASE ~Created(a) /\ ~Updated(a)
    BY <1>3, <2>3
  <2>4. CASE Created(a) /\ Updated(a)
    <3>1. KeysOf[a] = Updater(a).keys
      BY <1>1, <1>2, <2>4
    <3> QED
      BY <1>1, <2>4, <3>1
  <2> QED
    BY <2>1, <2>2, <2>3, <2>4
<1>5. newAccount = NewAccountsOf(Done)
  <2>1. newAccount \in [Addresses -> AccountKeys \cup {NoKeys}]
    BY DEF BInv, IInv, TypeOK
  <2> QED
    BY <1>0, <1>4, <2>1
<1> QED
  BY <1>4, <1>5 DEF Created, Updated, Updater

\* So are the designs.
NewDesignsOf(de, B) == [c \in Currencies |->
    CASE \E o \in B : o.type = "currency-register" /\ o.currency = c ->
           (CHOOSE o \in B : o.type = "currency-register" /\ o.currency = c).design
      [] \E o \in B : o.type = "currency-policy-updater" /\ o.currency = c ->
           [amount |-> de[c].amount,
            policy |-> (CHOOSE o \in B : o.type = "currency-policy-updater"
                                           /\ o.currency = c).policy]
      [] OTHER -> NoDesign]

LEMMA PoolDesigns ==
    ASSUME BInv, WritesStand
    PROVE  /\ newDesign = NewDesignsOf(design, Done)
           /\ \A c \in Currencies :
                (IF newDesign[c] # NoDesign THEN newDesign[c] ELSE design[c]) =
                  CASE \E o \in Done : o.type = "currency-register" /\ o.currency = c ->
                         (CHOOSE o \in Done : o.type = "currency-register"
                                                /\ o.currency = c).design
                    [] \E o \in Done : o.type = "currency-policy-updater" /\ o.currency = c ->
                         [amount |-> design[c].amount,
                          policy |-> (CHOOSE o \in Done : o.type = "currency-policy-updater"
                                                            /\ o.currency = c).policy]
                    [] OTHER -> design[c]
PROOF
<1> DEFINE Issued(c) == \E o \in Done : o.type = "currency-register" /\ o.currency = c
           Issuer(c) == CHOOSE o \in Done : o.type = "currency-register" /\ o.currency = c
           Updated(c) == \E o \in Done : o.type = "currency-policy-updater" /\ o.currency = c
           Updater(c) == CHOOSE o \in Done : o.type = "currency-policy-updater"
                                               /\ o.currency = c
           NewPolicy(c) == [amount |-> design[c].amount, policy |-> Updater(c).policy]
<1>0. /\ NewDesignsOf(design, Done) = [c \in Currencies |->
           CASE Issued(c) -> Issuer(c).design
             [] Updated(c) -> NewPolicy(c)
             [] OTHER -> NoDesign]
      /\ newDesign \in [Currencies -> Designs \cup {NoDesign}]
  BY DEF NewDesignsOf, BInv, IInv, TypeOK
<1>1. ASSUME NEW c \in Currencies, Issued(c)
      PROVE  newDesign[c] = Issuer(c).design /\ newDesign[c] # NoDesign
  <2>1. Issuer(c) \in Done /\ Issuer(c).type = "currency-register" /\ Issuer(c).currency = c
    BY <1>1
  <2> HIDE DEF Issuer
  <2>2. newDesign[c] = Issuer(c).design
    BY <2>1 DEF WritesStand
  <2>3. Issuer(c).design \in Designs
    BY <2>1, DoneIsFinite, CurrencyRegisterFields
  <2> QED
    BY <2>2, <2>3, NoValuesAssumption
<1>2. ASSUME NEW c \in Currencies, Updated(c)
      PROVE  newDesign[c] = NewPolicy(c) /\ newDesign[c] # NoDesign
  <2>1. /\ Updater(c) \in Done
        /\ Updater(c).type = "currency-policy-updater" /\ Updater(c).currency = c
    BY <1>2
  <2> HIDE DEF Updater
  <2>2. newDesign[c] = NewPolicy(c)
    BY <2>1 DEF WritesStand
  <2>3. PreProcessOK(Updater(c)) /\ Updater(c) \in Ops
    BY <2>1 DEF BInv, IInv, ChecksStillHold, Done
  <2>4. design[c] \in Designs
    BY <2>1, <2>3 DEF PreProcessOK, SuffrageOK, CurrencyPolicyUpdaterOK,
                      IsCurrencyOperation, BInv, IInv, TypeOK
  <2>5. Updater(c).policy \in Policies
    BY <2>1, <2>3, CurrencyPolicyUpdaterFields
  <2>6. NewPolicy(c) \in Designs
    BY <2>4, <2>5 DEF Designs
  <2> QED
    BY <2>2, <2>6, NoValuesAssumption
<1>3. ASSUME NEW c \in Currencies, newDesign[c] # NoDesign
      PROVE  Issued(c) \/ Updated(c)
  <2>1. PICK o \in Ops : IsCurrencyOperation(o) /\ Wrote(o, c)
    BY <1>3 DEF BInv, WrittenByProposal
  <2>2. o \in Done /\ o.currency = c
    BY <2>1, OverwritesFields DEF Wrote, Done
  <2> QED
    BY <2>1, <2>2 DEF IsCurrencyOperation
<1> HIDE DEF Issued, Issuer, Updated, Updater, NewPolicy
<1>4. ASSUME NEW c \in Currencies
      PROVE  /\ (IF newDesign[c] # NoDesign THEN newDesign[c] ELSE design[c]) =
                  CASE Issued(c) -> Issuer(c).design
                    [] Updated(c) -> NewPolicy(c)
                    [] OTHER -> design[c]
             /\ newDesign[c] =
                  CASE Issued(c) -> Issuer(c).design
                    [] Updated(c) -> NewPolicy(c)
                    [] OTHER -> NoDesign
  <2>1. CASE Issued(c) /\ ~Updated(c)
    BY <1>1, <2>1
  <2>2. CASE Updated(c) /\ ~Issued(c)
    BY <1>2, <2>2
  <2>3. CASE ~Issued(c) /\ ~Updated(c)
    BY <1>3, <2>3
  <2>4. CASE Issued(c) /\ Updated(c)
    <3>1. Issuer(c).design = NewPolicy(c)
      BY <1>1, <1>2, <2>4
    <3> QED
      BY <1>1, <2>4, <3>1
  <2> QED
    BY <2>1, <2>2, <2>3, <2>4
<1>5. newDesign = NewDesignsOf(design, Done)
  BY <1>0, <1>4
<1> QED
  BY <1>4, <1>5 DEF Issued, Issuer, Updated, Updater, NewPolicy

\* The operations that were processed are good on their own and fit together.
LEMMA DoneIsGood ==
    ASSUME BInv, cp = design
    PROVE  (\A o \in Done : L!Good(o)) /\ L!Compatible(Done)
PROOF
<1>0. TypeOK
  BY DEF BInv, IInv
<1>1. ASSUME NEW o \in Done
      PROVE  o \in Ops /\ PreProcessOK(o) /\ LetIn(o)
  BY DEF Done, BInv, IInv, ChecksStillHold, LetIn
<1>2. \A o \in Done : L!Good(o)
  BY <1>0, <1>1, CheckedIsGood
<1>3. L!Compatible(Done)
  <2>1. ASSUME NEW o \in Done, NEW p \in Done, o # p
        PROVE  DuplicationKey(o) # DuplicationKey(p) /\ Targets(o) \cap Targets(p) = {}
    BY <1>1, <2>1 DEF BInv, IInv, ClaimsAreDistinct
  <2> QED
    BY <2>1, SameOperations DEF L!Compatible
<1> QED
  BY <1>2, <1>3

\* A saved block of some operations is a block of the ledger.
LEMMA SaveIsBlock ==
    ASSUME BInv, PoolKeepsUp, WritesStand, PoolIsSum, Save
    PROVE  /\ L!Block(Done)
           /\ Done \subseteq Ops \ committed
PROOF
<1>0. TypeOK /\ IInv
  BY DEF BInv, IInv
<1>1. cp = design
  <2>1. ~hook
    BY DEF BInv, IInv, PoolIsOfProposal, Save
  <2>2. \A c \in Currencies : cp[c] = design[c]
    BY <2>1 DEF PoolKeepsUp
  <2>3. cp \in [Currencies -> Designs \cup {NoDesign}]
        /\ design \in [Currencies -> Designs \cup {NoDesign}]
    BY <1>0 DEF TypeOK
  <2> QED
    BY <2>2, <2>3
<1>2. ASSUME NEW o \in Done
      PROVE  o \in Ops /\ o \in proposed /\ o \notin committed /\ PreProcessOK(o) /\ LetIn(o)
  BY DEF Done, BInv, IInv, ChecksStillHold, LetIn, PoolIsOfProposal
<1>3. committed' = committed \cup Done
  <2>1. {o \in proposed : status[o] = "processed"} = Done
    BY <1>0, <1>2 DEF Done, TypeOK
  <2> QED
    BY <2>1 DEF Save
<1>4. (\A o \in Done : L!Good(o)) /\ L!Compatible(Done)
  BY <1>1, DoneIsGood
<1>5. balance' = [a \in Addresses |-> [c \in Currencies |->
         balance[a][c] + L!Received(Done, a, c) + L!Issued(Done, a, c)
           + L!Fees(Done, a, c) - L!Paid(Done, a, c)]]
  BY <1>1, PoolBalances DEF Save
<1>6. account' = [a \in Addresses |->
         CASE \E o \in Done : a \in L!Targets(o) -> KeysOf[a]
           [] \E o \in Done : o.type = "key-updater" /\ o.target = a ->
                (CHOOSE o \in Done : o.type = "key-updater" /\ o.target = a).keys
           [] OTHER -> account[a]]
  BY PoolAccounts DEF Save
<1>7. design' = [c \in Currencies |->
         CASE \E o \in Done : o.type = "currency-register" /\ o.currency = c ->
                (CHOOSE o \in Done : o.type = "currency-register" /\ o.currency = c).design
           [] \E o \in Done : o.type = "currency-policy-updater" /\ o.currency = c ->
                [amount |-> design[c].amount,
                 policy |-> (CHOOSE o \in Done : o.type = "currency-policy-updater"
                                                   /\ o.currency = c).policy]
           [] OTHER -> design[c]]
  BY PoolDesigns DEF Save
<1>8. L!Block(Done)
  BY <1>3, <1>4, <1>5, <1>6, <1>7 DEF L!Block
<1> QED
  BY <1>2, <1>8

\* A saved block of no operations leaves the ledger as it was.
LEMMA EmptyBlockIsStutter ==
    ASSUME BInv, WritesStand, PoolIsSum, Save, Done = {}
    PROVE  UNCHANGED L!vars
PROOF
<1>0. TypeOK
  BY DEF BInv, IInv
<1>1. \A a \in Addresses, c \in Currencies : delta[a][c] = 0
  <2> SUFFICES ASSUME NEW a \in Addresses, NEW c \in Currencies
               PROVE  delta[a][c] = 0
    OBVIOUS
  <2>1. GivenBy(Done, a, c) = 0 /\ TakenBy(Done, a, c) = 0 /\ FeesOf(Done, c) = 0
    BY NothingDone
  <2>2. FeeGain(a, c) = 0
    BY <2>1 DEF PoolIsSum, FeeGain
  <2>3. delta[a][c] = GivenBy(Done, a, c) - TakenBy(Done, a, c) + FeeGain(a, c)
    BY DEF PoolIsSum, Save
  <2> QED
    BY <2>1, <2>2, <2>3
<1>2. balance' = balance
  <2>1. \A a \in Addresses, c \in Currencies : balance[a][c] + delta[a][c] = balance[a][c]
    BY <1>0, <1>1 DEF TypeOK
  <2>2. balance' = [a \in Addresses |-> [c \in Currencies |-> balance[a][c]]]
    BY <2>1 DEF Save
  <2> QED
    BY <1>0, <2>2 DEF TypeOK
<1>3. account' = account
  <2>1. \A a \in Addresses : newAccount[a] = NoKeys
    BY DEF BInv, WrittenByProposal, Wrote, Done
  <2> QED
    BY <1>0, <2>1 DEF Save, TypeOK
<1>4. design' = design
  <2>1. \A c \in Currencies : newDesign[c] = NoDesign
    BY DEF BInv, WrittenByProposal, Wrote, Done
  <2> QED
    BY <1>0, <2>1 DEF Save, TypeOK
<1>5. committed' = committed
  BY <1>0 DEF Save, Done, TypeOK
<1> QED
  BY <1>2, <1>3, <1>4, <1>5 DEF L!vars

\* Every step is a block of the ledger, or leaves it alone.
LEMMA StepIsBlock ==
    ASSUME BInv, PoolKeepsUp, WritesStand, PoolIsSum, [Next]_vars
    PROVE  [L!Next]_(L!vars)
PROOF
<1>1. CASE UNCHANGED ledger
  BY <1>1 DEF ledger, L!vars
<1>2. CASE Save /\ Done = {}
  BY <1>2, EmptyBlockIsStutter
<1>3. CASE Save /\ Done # {}
  BY <1>3, SaveIsBlock DEF L!Next
<1>4. UNCHANGED ledger \/ Save
  BY DEF Next, NewProposal, Validate, Invalidate, CheckDuplication, Process, Close,
         Cancel, WhenBlockSaved, Restart, vars
<1> QED
  BY <1>1, <1>2, <1>3, <1>4

\* The blocks of a node are those of the abstract ledger: whatever order the
\* operations are checked and processed in, whatever proposals are cancelled
\* and wherever the node restarts, a saved block is a set of operations good
\* on their own that claim different things, applied at once, as long as the
\* hooks keep the currency pool up to date.
THEOREM ProcessorImplementsLedger ==
    ASSUME LoadMayFail = FALSE
    PROVE  Spec => RefinesLedger
PROOF
<1>1. Init => L!Init
  BY LedgerInit
<1>2. Init => WritesStand /\ PoolIsSum
  BY SumsInit
<1>3. BInv /\ WritesStand /\ [Next]_vars => WritesStand'
  BY StandsStep DEF BInv
<1>4. BInv /\ PoolIsSum /\ [Next]_vars => PoolIsSum'
  BY SumsStep DEF BInv
<1>5. BInv /\ PoolKeepsUp /\ WritesStand /\ PoolIsSum /\ [Next]_vars => [L!Next]_(L!vars)
  BY StepIsBlock
<1> QED
  BY <1>1, <1>2, <1>3, <1>4, <1>5, PoolKeptUp, PTL DEF Spec, RefinesLedger, L!Spec
=============================================================================
