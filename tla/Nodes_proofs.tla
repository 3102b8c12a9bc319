---------------------------- MODULE Nodes_proofs ----------------------------
(***************************************************************************)
(* The nodes agree, and the chain they make is the abstract ledger.        *)
(*                                                                         *)
(* A node at work is the OperationProcessor of Blocks_proofs, begun in the *)
(* states that the earlier blocks left.  Its PreProcess goes through the   *)
(* proposal in order, so what it lets in is fixed by its pool, the last    *)
(* block and that order; its state pool is the sum of what it lets in.     *)
(***************************************************************************)
EXTENDS Nodes, FiniteSetTheorems, SequenceTheorems, WellFoundedInduction, TLAPS

\* The OperationProcessor of the node that is working, with what is proved of it.
W == INSTANCE Blocks_proofs WITH
    LoadMayFail <- TRUE,
    cp <- cps[worker], hook <- hooks[worker], saved <- saveds[worker],
    proposed <- IF worker \in Nodes THEN ToSet(proposal) ELSE {}

(***************************************************************************)
(* The words of Operations mean the same here, in the working node's       *)
(* processors (W) and in those of node n (P(n)).                           *)
(***************************************************************************)
\* Finite sets.
LEMMA SameFinite == \A S : W!IsFiniteSet(S) <=> IsFiniteSet(S)
BY DEF W!IsFiniteSet, IsFiniteSet

\* Sums.
LEMMA SameTotal == \A f : W!Total(f) = Total(f)
BY DEF W!Total, Total, W!Coins, Coins, W!Cardinality, Cardinality

\* The sets of operations, designs and keys.
LEMMA SameSets ==
    /\ W!Facts = Facts /\ W!Designs = Designs /\ W!AnyKeys = AnyKeys
    /\ W!AccountKeys = AccountKeys
BY DEF W!Facts, Facts, W!Designs, Designs, W!AnyKeys, AnyKeys, W!AccountKeys, AccountKeys,
   W!AmountsFacts, AmountsFacts, W!KeyUpdaterFacts, KeyUpdaterFacts, W!CurrencyRegisterFacts,
   CurrencyRegisterFacts,
   W!CurrencyPolicyUpdaterFacts, CurrencyPolicyUpdaterFacts, W!Policies, Policies, W!Matrix,
   Matrix,
   W!F!Feeers, F!Feeers, W!F!NilFeeers, F!NilFeeers, W!F!FixedFeeers, F!FixedFeeers,
   W!F!RatioFeeers, F!RatioFeeers,
   W!F!UnlimitedMaxFeeAmount, F!UnlimitedMaxFeeAmount

\* The validity of keys.
LEMMA SameKeys == \A k : W!KeysIsValid(k) <=> KeysIsValid(k)
BY SameTotal DEF W!KeysIsValid, KeysIsValid, W!MaxKeyInKeys, MaxKeyInKeys, W!Members, Members,
   W!Weight, Weight, W!Cardinality, Cardinality

\* What the OperationProcessor of the working node assumes of its constants.
LEMMA Assumptions ==
    /\ W!OpsAssumption /\ W!GenesisAssumption /\ W!NoValuesAssumption
    /\ W!SetsAssumption /\ W!KeysAssumption
<1>1. W!OpsAssumption
  BY OpsAssumption, SameSets, SameFinite
<1>2. W!GenesisAssumption
  BY GenesisAssumption, SameSets DEF W!F!HasReceiver, F!HasReceiver
<1>3. W!NoValuesAssumption
  BY NoValuesAssumption, SameSets
<1>4. W!SetsAssumption
  BY SetsAssumption, SameFinite
<1>5. W!KeysAssumption
  BY KeysAssumption, SameSets, SameFinite, SameKeys
<1> QED  BY <1>1, <1>2, <1>3, <1>4, <1>5

\* What an operation names, moves and claims.
LEMMA SameOperations ==
    ASSUME NEW o
    PROVE  /\ W!HasItems(o) <=> HasItems(o)
           /\ W!IsCurrencyOperation(o) <=> IsCurrencyOperation(o)
           /\ W!Payer(o) = Payer(o)
           /\ W!DuplicationKey(o) = DuplicationKey(o)
           /\ W!Receivers(o) = Receivers(o)
           /\ W!Targets(o) = Targets(o)
           /\ W!Used(o) = Used(o)
           /\ \A a, c : W!Credit(o, a, c) = Credit(o, a, c)
<1>1. /\ W!HasItems(o) <=> HasItems(o)
      /\ W!IsCurrencyOperation(o) <=> IsCurrencyOperation(o)
      /\ W!Receivers(o) = Receivers(o)
  BY DEF W!HasItems, HasItems, W!IsCurrencyOperation, IsCurrencyOperation, W!Receivers,
     Receivers
<1>2. W!Payer(o) = Payer(o) /\ W!Targets(o) = Targets(o) /\ W!Used(o) = Used(o)
  BY <1>1 DEF W!Payer, Payer, W!Targets, Targets, W!Used, Used
<1> QED  BY <1>1, <1>2 DEF W!DuplicationKey, DuplicationKey, W!Credit, Credit

\* The fees of a feeer.
LEMMA SameFee == \A f, n : W!F!Fee(f, n) = F!Fee(f, n)
BY DEF W!F!Fee, F!Fee, W!F!RatioFee, F!RatioFee, W!F!MulRatio, F!MulRatio,
       W!F!UnlimitedMaxFeeAmount, F!UnlimitedMaxFeeAmount

\* What an operation is charged by designs ds.
LEMMA SameCharge ==
    ASSUME NEW o, NEW ds, NEW c
    PROVE  W!Charge(o, ds, c) = Charge(o, ds, c)
<1> DEFINE f == ds[c].policy.feeer
<1>1. W!ItemsFee(o, f, c) = ItemsFee(o, f, c)
  <2>1. \A n : W!ItemFee(f, n) = ItemFee(f, n)
    BY SameFee DEF W!ItemFee, ItemFee
  <2>2. [r \in Addresses |-> W!ItemFee(f, o.amounts[r][c])] =
        [r \in Addresses |-> ItemFee(f, o.amounts[r][c])]
    BY <2>1
  <2> HIDE DEF f
  <2> QED  BY <2>2, SameTotal DEF W!ItemsFee, ItemsFee
<1>2. W!KeyUpdaterFee(f) = KeyUpdaterFee(f)
  BY SameFee DEF W!KeyUpdaterFee, KeyUpdaterFee
<1> QED  BY <1>1, <1>2, SameOperations DEF W!Charge, Charge, W!NoCharge, NoCharge

\* What an operation names, moves and claims.
LEMMA SameOperationsOf ==
    ASSUME NEW n, NEW o
    PROVE  /\ P(n)!HasItems(o) <=> HasItems(o)
           /\ P(n)!IsCurrencyOperation(o) <=> IsCurrencyOperation(o)
           /\ P(n)!Payer(o) = Payer(o)
           /\ P(n)!DuplicationKey(o) = DuplicationKey(o)
           /\ P(n)!Receivers(o) = Receivers(o)
           /\ P(n)!Targets(o) = Targets(o)
           /\ P(n)!Used(o) = Used(o)
           /\ \A a, c : P(n)!Credit(o, a, c) = Credit(o, a, c)
<1>1. /\ P(n)!HasItems(o) <=> HasItems(o)
      /\ P(n)!IsCurrencyOperation(o) <=> IsCurrencyOperation(o)
      /\ P(n)!Receivers(o) = Receivers(o)
  BY DEF P!HasItems, HasItems, P!IsCurrencyOperation, IsCurrencyOperation, P!Receivers,
     Receivers
<1>2. P(n)!Payer(o) = Payer(o) /\ P(n)!Targets(o) = Targets(o) /\ P(n)!Used(o) = Used(o)
  BY <1>1 DEF P!Payer, Payer, P!Targets, Targets, P!Used, Used
<1> QED  BY <1>1, <1>2 DEF P!DuplicationKey, DuplicationKey, P!Credit, Credit

\* The sums.
LEMMA SameTotalOf == \A n, f : P(n)!Total(f) = Total(f)
BY DEF P!Total, Total, P!Coins, Coins, P!Cardinality, Cardinality

\* The fees of a feeer.
LEMMA SameFeeOf == \A m, f, n : P(m)!F!Fee(f, n) = F!Fee(f, n)
BY DEF P!F!Fee, F!Fee, P!F!RatioFee, F!RatioFee, P!F!MulRatio, F!MulRatio,
       P!F!UnlimitedMaxFeeAmount, F!UnlimitedMaxFeeAmount

\* What an operation is charged by designs ds.
LEMMA SameChargeOf ==
    ASSUME NEW n, NEW o, NEW ds, NEW c
    PROVE  P(n)!Charge(o, ds, c) = Charge(o, ds, c)
<1> DEFINE f == ds[c].policy.feeer
<1>1. P(n)!ItemsFee(o, f, c) = ItemsFee(o, f, c)
  <2>1. \A k : P(n)!ItemFee(f, k) = ItemFee(f, k)
    BY SameFeeOf DEF P!ItemFee, ItemFee
  <2>2. [r \in Addresses |-> P(n)!ItemFee(f, o.amounts[r][c])] =
        [r \in Addresses |-> ItemFee(f, o.amounts[r][c])]
    BY <2>1
  <2> HIDE DEF f
  <2> QED  BY <2>2, SameTotalOf DEF P!ItemsFee, ItemsFee
<1>2. P(n)!KeyUpdaterFee(f) = KeyUpdaterFee(f)
  BY SameFeeOf DEF P!KeyUpdaterFee, KeyUpdaterFee
<1> QED  BY <1>1, <1>2, SameOperationsOf DEF P!Charge, Charge, P!NoCharge, NoCharge

\* PreProcess of node n lets operation o through its checks.
Passes(n, o) == P(n)!PreProcessOK(o)

\* Whether signatures reach a threshold.
LEMMA SameSigns ==
    ASSUME NEW signs, NEW keys, NEW n
    PROVE  /\ W!CheckThreshold(signs, keys) <=> CheckThreshold(signs, keys)
           /\ P(n)!CheckThreshold(signs, keys) <=> CheckThreshold(signs, keys)
           /\ \A pubs, k : /\ W!CheckFactSignsByPubs(signs, pubs, k) <=>
                                CheckFactSignsByPubs(signs, pubs, k)
                           /\ P(n)!CheckFactSignsByPubs(signs, pubs, k) <=>
                                CheckFactSignsByPubs(signs, pubs, k)
<1>1. W!Members(keys) = Members(keys) /\ P(n)!Members(keys) = Members(keys)
  BY DEF W!Members, P!Members, Members
<1>2. W!Weight(keys, signs) = Weight(keys, signs) /\ P(n)!Weight(keys, signs) = Weight(keys, signs)
  BY SameTotal, SameTotalOf DEF W!Weight, P!Weight, Weight
<1> QED  BY <1>1, <1>2 DEF W!CheckThreshold, P!CheckThreshold, CheckThreshold,
        W!CheckFactSignsByPubs, P!CheckFactSignsByPubs, CheckFactSignsByPubs,
        W!Cardinality, P!Cardinality, Cardinality

\* The checks of the node that is working are those of its processors.
LEMMA PassesIsPreProcessOK ==
    ASSUME NEW n, worker = n, NEW o
    PROVE  Passes(n, o) <=> W!PreProcessOK(o)
<1>1. P(n)!SuffrageOK(o) <=> W!SuffrageOK(o)
  BY SameSigns
     DEF P!SuffrageOK, W!SuffrageOK, P!CurrencyRegisterOK, W!CurrencyRegisterOK,
         P!CurrencyPolicyUpdaterOK, W!CurrencyPolicyUpdaterOK, P!Registered, W!Registered,
         P!ReceiverIsOK, W!ReceiverIsOK, P!F!HasReceiver, W!F!HasReceiver, P!Exists, W!Exists
<1>2. P(n)!EnoughBalance(o) <=> W!EnoughBalance(o)
  BY SameOperations, SameOperationsOf, SameCharge, SameChargeOf DEF P!EnoughBalance,
     W!EnoughBalance
<1>3. P(n)!PayerOK(o) <=> W!PayerOK(o)
  BY <1>2, SameOperations, SameOperationsOf, SameSigns
     DEF P!PayerOK, W!PayerOK, P!Exists, W!Exists, P!Registered, W!Registered,
         P!TransfersOK, W!TransfersOK, P!CreateAccountsOK, W!CreateAccountsOK,
         P!KeyUpdaterOK, W!KeyUpdaterOK, P!SignedByKeys, W!SignedByKeys
<1> QED  BY <1>1, <1>3, SameOperations, SameOperationsOf
         DEF Passes, P!PreProcessOK, W!PreProcessOK

\* What an operation is checked against: the pool and the last block.
LEMMA SamePoolSamePasses ==
    ASSUME NEW m, NEW n, cps[m] = cps[n], NEW o
    PROVE  Passes(m, o) <=> Passes(n, o)
<1>1. P(m)!SuffrageOK(o) <=> P(n)!SuffrageOK(o)
  BY SameSigns
     DEF P!SuffrageOK, P!CurrencyRegisterOK,
         P!CurrencyPolicyUpdaterOK, P!Registered,
         P!ReceiverIsOK, P!F!HasReceiver, P!Exists
<1>2. P(m)!EnoughBalance(o) <=> P(n)!EnoughBalance(o)
  BY SameOperationsOf, SameChargeOf DEF P!EnoughBalance
<1>3. P(m)!PayerOK(o) <=> P(n)!PayerOK(o)
  BY <1>2, SameOperationsOf, SameSigns
     DEF P!PayerOK, P!Exists, P!Registered, P!TransfersOK, P!CreateAccountsOK, P!KeyUpdaterOK,
        P!SignedByKeys
<1> QED  BY <1>1, <1>3, SameOperationsOf
         DEF Passes, P!PreProcessOK

\* The checks come out the same while the pool and the last block stay.
LEMMA PassesStays ==
    ASSUME NEW n, cps'[n] = cps[n], UNCHANGED ledger, NEW o
    PROVE  Passes(n, o)' <=> Passes(n, o)
<1> USE DEF ledger
<1>1. P(n)!SuffrageOK(o)' <=> P(n)!SuffrageOK(o)
  BY SameSigns
     DEF P!SuffrageOK, P!CurrencyRegisterOK,
         P!CurrencyPolicyUpdaterOK, P!Registered,
         P!ReceiverIsOK, P!F!HasReceiver, P!Exists, P!CheckFactSignsByPubs
<1>2. P(n)!EnoughBalance(o)' <=> P(n)!EnoughBalance(o)
  <2>1. \A c : P(n)!Charge(o, cps[n], c)' = P(n)!Charge(o, cps[n], c)
    BY DEF P!Charge, P!Used, P!NoCharge, P!HasItems, P!ItemsFee, P!KeyUpdaterFee
  <2>2. P(n)!Used(o)' = P(n)!Used(o) /\ P(n)!Payer(o)' = P(n)!Payer(o)
    BY DEF P!Used, P!Payer, P!HasItems
  <2> QED
  BY <2>1, <2>2 DEF P!EnoughBalance
<1>3. P(n)!PayerOK(o)' <=> P(n)!PayerOK(o)
  <2>2. P(n)!Used(o)' = P(n)!Used(o) /\ P(n)!Payer(o)' = P(n)!Payer(o) /\ P(n)!Receivers(o)' = P(n)!Receivers(o)
    BY DEF P!Used, P!Payer, P!HasItems, P!Receivers
  <2>3. P(n)!CheckThreshold(o.signs, account[P(n)!Payer(o)])' <=> P(n)!CheckThreshold(o.signs, account[P(n)!Payer(o)])
    BY <2>2 DEF P!CheckThreshold, P!Members, P!Weight
  <2> QED
  BY <1>2, <2>2, <2>3
     DEF P!PayerOK, P!Exists, P!Registered, P!TransfersOK, P!CreateAccountsOK, P!KeyUpdaterOK,
        P!SignedByKeys
<1> QED  BY <1>1, <1>3
         DEF Passes, P!PreProcessOK, P!IsCurrencyOperation

\* A step of the node that is working is one of its OperationProcessor.
LEMMA WorkingSteps ==
    ASSUME NEW n \in Nodes, worker = n, UNCHANGED <<pools, blocks, proposal, worker>>, NEW o
    PROVE  /\ P(n)!Validate(o) => W!Validate(o)
           /\ P(n)!Invalidate(o) => W!Invalidate(o)
           /\ P(n)!CheckDuplication(o) => W!CheckDuplication(o)
           /\ P(n)!Process(o) => W!Process(o)
           /\ P(n)!Close => W!Close
<1> USE DEF pools, P!ledger, P!pool, P!tables, P!changes, W!ledger, W!pool, W!tables, W!changes,
            P!SetStatus, W!SetStatus
<1>0. P(n)!PreProcessOK(o) <=> W!PreProcessOK(o)
  BY PassesIsPreProcessOK DEF Passes
<1>1. P(n)!Validate(o) => W!Validate(o)
  BY <1>0, SameCharge, SameChargeOf DEF P!Validate, W!Validate
<1>2. P(n)!Invalidate(o) => W!Invalidate(o)
  BY <1>0 DEF P!Invalidate, W!Invalidate
<1>3. P(n)!CheckDuplication(o) => W!CheckDuplication(o)
  BY SameOperations, SameOperationsOf
     DEF P!CheckDuplication, W!CheckDuplication, P!Accept, W!Accept, P!Reject, W!Reject
<1>4. P(n)!Process(o) => W!Process(o)
  <2>1. \A a, c : P(n)!Gain(o, a, c) = W!Gain(o, a, c) /\ P(n)!Loss(o, a, c) = W!Loss(o, a, c)
    BY SameOperations, SameOperationsOf DEF P!Gain, W!Gain, P!Loss, W!Loss
  <2>2. P(n)!BalancesSet(o) = W!BalancesSet(o)
    BY <2>1, SameOperations, SameOperationsOf DEF P!BalancesSet, W!BalancesSet
  <2>3. P(n)!AccountsSet(o) = W!AccountsSet(o) /\ P(n)!DesignsSet(o) = W!DesignsSet(o)
    BY SameOperations, SameOperationsOf DEF P!AccountsSet, W!AccountsSet, P!DesignsSet,
       W!DesignsSet
  <2> QED  BY <2>1, <2>2, <2>3 DEF P!Process, W!Process
<1>5. P(n)!Close => W!Close
  BY DEF P!Close, W!Close, P!AllDone, W!AllDone, P!FeeIsPayable, W!FeeIsPayable, P!FeeGain,
     W!FeeGain,
         P!FeeReceiver, W!FeeReceiver, P!Registered, W!Registered, P!Exists, W!Exists,
         P!F!HasReceiver, W!F!HasReceiver
<1> QED  BY <1>1, <1>2, <1>3, <1>4, <1>5

\* So is all that a working node does.
LEMMA WorkIsNext ==
    ASSUME NEW n \in Nodes, Work(n), ToSet(proposal) \subseteq Ops
    PROVE  W!Next
<1>1. \A i \in DOMAIN proposal : proposal[i] \in Ops
  BY DEF ToSet
<1> QED  BY <1>1, WorkingSteps DEF Work, PreProcess, W!Next

\* The designs of the currencies, where there are any.
Designed == [Currencies -> Designs \cup {NoDesign}]

\* The receiver of the fees of design de is one of the accounts acc.
ReceiverIsIn(acc, de) ==
    de # NoDesign /\ F!HasReceiver(de.policy.feeer) => acc[de.policy.feeer.receiver] # NoKeys

\* How much of a currency there is.
Supply(de) == IF de = NoDesign THEN 0 ELSE de.amount

\* What holds of the states of every block.
GoodLedger(acc, hld, bal, des, com) ==
    /\ acc \in [Addresses -> AccountKeys \cup {NoKeys}]
    /\ hld \subseteq Addresses \X Currencies
    /\ bal \in [Addresses -> [Currencies -> Nat]]
    /\ des \in Designed
    /\ com \subseteq Ops
    /\ \A a \in Addresses, c \in Currencies :
         IF <<a, c>> \in hld THEN acc[a] # NoKeys /\ des[c] # NoDesign ELSE bal[a][c] = 0
    /\ \A c \in Currencies : ReceiverIsIn(acc, des[c])
    /\ \A c \in Currencies : Total([a \in Addresses |-> bal[a][c]]) = Supply(des[c])

\* The states of the last block are good.
LedgerInv == GoodLedger(account, held, balance, design, committed)

\* A node's pool knows currencies of the blocks only.
PoolInv(n) ==
    /\ cps[n] \in Designed
    /\ hooks[n] \in BOOLEAN
    /\ saveds[n] \subseteq Currencies
    /\ ~hooks[n] => saveds[n] = {}
    /\ \A c \in Currencies : cps[n][c] # NoDesign => design[c] # NoDesign
    /\ \A c \in Currencies : ReceiverIsIn(account, cps[n][c])

\* The processors' tables between proposals.
Fresh ==
    /\ status = [o \in Ops |-> "proposed"]
    /\ required = [o \in Ops |-> [c \in Currencies |-> NoCharge]]
    /\ duplicated = {}
    /\ newAddress = {}
    /\ fee = [c \in Currencies |-> 0]
    /\ delta = [a \in Addresses |-> [c \in Currencies |-> 0]]
    /\ touched = {}
    /\ newAccount = [a \in Addresses |-> NoKeys]
    /\ newDesign = [c \in Currencies |-> NoDesign]
    /\ closed = FALSE

\* The processors of a node that begins have nothing done, in whatever states
\* the blocks are.
LEMMA Started ==
    ASSUME worker \in Nodes, proposal # <<>>, ToSet(proposal) \subseteq Ops \ committed,
           ToSet(proposal) # {},
           Fresh, LedgerInv, PoolInv(worker), ~hooks[worker]
    PROVE  W!BInv /\ W!WritesStand /\ W!PoolIsSum
<1> USE DEF Fresh
<1> DEFINE pr == IF worker \in Nodes THEN ToSet(proposal) ELSE {}
<1>0. pr \subseteq Ops \ committed /\ pr # {}
  OBVIOUS
<1> HIDE DEF pr
<1>1. W!TypeOK
  <2>1. W!Policies = Policies /\ W!NoCharge = NoCharge
    BY DEF W!Policies, Policies, W!F!Feeers, F!Feeers, W!F!NilFeeers, F!NilFeeers,
       W!F!FixedFeeers, F!FixedFeeers,
           W!F!RatioFeeers, F!RatioFeeers, W!F!UnlimitedMaxFeeAmount, F!UnlimitedMaxFeeAmount,
           W!NoCharge, NoCharge
  <2>2. required \in [Ops -> [Currencies -> [amount : Nat, fee : Nat]]]
    BY DEF NoCharge
  <2>3. balance \in [Addresses -> [Currencies -> Int]]
    BY DEF LedgerInv, GoodLedger
  <2>4. /\ account \in [Addresses -> W!AccountKeys \cup {NoKeys}]
        /\ held \subseteq Addresses \X Currencies
        /\ design \in [Currencies -> W!Designs \cup {NoDesign}]
        /\ committed \subseteq Ops
    BY SameSets DEF LedgerInv, GoodLedger, Designed
  <2>5. /\ cps[worker] \in [Currencies -> W!Designs \cup {NoDesign}]
        /\ hooks[worker] \in BOOLEAN
        /\ saveds[worker] \subseteq Currencies
    BY SameSets DEF PoolInv, Designed
  <2>6. /\ status \in [Ops -> W!Statuses]
        /\ duplicated \subseteq Addresses \cup Currencies
        /\ newAddress \subseteq Addresses
        /\ fee \in [Currencies -> Nat]
        /\ touched \subseteq Addresses \X Currencies
        /\ closed \in BOOLEAN
    BY DEF W!Statuses
  <2>7. delta \in [Addresses -> [Currencies -> Int]]
    BY DEF W!Statuses
  <2>8. /\ newAccount \in [Addresses -> W!AccountKeys \cup {NoKeys}]
        /\ newDesign \in [Currencies -> W!Designs \cup {NoDesign}]
    OBVIOUS
  <2>9. pr \subseteq Ops
    BY <1>0
  <2> QED  BY <2>2, <2>3, <2>4, <2>5, <2>6, <2>7, <2>8, <2>9 DEF W!TypeOK, pr
<1>2. /\ W!ChecksStillHold /\ W!ClaimsAreDistinct /\ W!OnlyPayersLose
      /\ W!NoOverdraft
  <2>1. \A a \in Addresses, c \in Currencies : balance[a][c] \in Nat /\ delta[a][c] = 0
    BY DEF LedgerInv, GoodLedger
  <2> QED  BY <2>1 DEF W!ChecksStillHold, W!ClaimsAreDistinct, W!LetIn, W!OnlyPayersLose,
     W!NoOverdraft
<1>3. W!IInv
  BY <1>1, <1>2 DEF W!IInv
<1>4. W!PoolIsOfProposal /\ W!WrittenByProposal
  BY <1>0 DEF W!PoolIsOfProposal, W!WrittenByProposal, pr
<1>5. W!ReceiversExist /\ W!PoolIsBehind
  BY DEF W!ReceiversExist, W!PoolIsBehind, W!ReceiverIsOK, W!Exists, LedgerInv, GoodLedger,
     PoolInv,
         ReceiverIsIn, W!F!HasReceiver, F!HasReceiver
<1>6. W!FeesArePayable /\ W!HeldHasOwner /\ W!BalanceHasOwner /\ W!MoneyIsHeld /\ W!ComersAreFunded
  BY DEF W!FeesArePayable, W!HeldHasOwner, W!BalanceHasOwner, W!MoneyIsHeld, W!ComersAreFunded,
         LedgerInv, GoodLedger
<1>7. W!Conservation
  <2> SUFFICES ASSUME NEW c \in Currencies
               PROVE  /\ W!Total([a \in Addresses |-> balance[a][c]]) = W!Supply(design[c])
                      /\ W!InFlight(c) = W!Supply(IF newDesign[c] # NoDesign THEN newDesign[c] ELSE design[c])
    BY DEF W!Conservation
  <2>1. [a \in Addresses |-> balance[a][c] + delta[a][c]] = [a \in Addresses |-> balance[a][c]]
    <3>1. \A a \in Addresses : balance[a][c] + delta[a][c] = balance[a][c]
      BY DEF LedgerInv, GoodLedger
    <3> QED  BY <3>1
  <2>2. W!Total([a \in Addresses |-> balance[a][c]]) = Supply(design[c])
    BY SameTotal DEF LedgerInv, GoodLedger
  <2>3. Supply(design[c]) \in Nat
    BY DEF LedgerInv, GoodLedger, Designed, Designs, Supply
  <2>4. W!InFlight(c) = W!Total([a \in Addresses |-> balance[a][c]]) + 0
    BY <2>1 DEF W!InFlight
  <2>5. W!Supply(design[c]) = Supply(design[c]) /\ newDesign[c] = NoDesign
    BY DEF W!Supply, Supply
  <2> QED  BY <2>2, <2>3, <2>4, <2>5
<1>8. W!BInv
  BY <1>3, <1>4, <1>5, <1>6, <1>7 DEF W!BInv
<1>9. W!Done = {}
  BY DEF W!Done
<1>10. W!WritesStand
  BY <1>9 DEF W!WritesStand
<1>11. W!PoolIsSum
  <2>1. ASSUME NEW a \in Addresses, NEW c \in Currencies
        PROVE  /\ delta[a][c] = W!GivenBy(W!Done, a, c) - W!TakenBy(W!Done, a, c) + 0
               /\ fee[c] = W!FeesOf(W!Done, c)
    <3>1. /\ W!GivenBy(W!Done, a, c) = 0 /\ W!TakenBy(W!Done, a, c) = 0
          /\ W!FeesOf(W!Done, c) = 0
      BY <1>9, W!NothingDone, Assumptions
    <3> QED  BY <3>1
  <2>2. \A c \in Currencies : fee[c] = W!FeesOf(W!Done, c)
    BY <2>1, GenesisAssumption
  <2> QED  BY <2>1, <2>2 DEF W!PoolIsSum
<1> QED  BY <1>8, <1>10, <1>11

(***************************************************************************)
(* Which operations a node lets into its block                             *)
(***************************************************************************)

\* A proposal is a sequence of different operations that no block holds.
ProposalInv ==
    proposal # <<>> =>
        /\ \E k \in Nat \ {0} : proposal \in [1..k -> Ops \ committed]
        /\ \A i, j \in DOMAIN proposal : proposal[i] = proposal[j] => i = j

\* The i-th operation passes its checks, comes before any other that passes
\* them and claims the same key, and none of A that comes before it claims one
\* of its new addresses.
Fits(n, i, A) ==
    /\ Passes(n, proposal[i])
    /\ \A j \in 1..(i - 1) : Passes(n, proposal[j]) =>
          DuplicationKey(proposal[j]) # DuplicationKey(proposal[i])
    /\ \A j \in 1..(i - 1) : proposal[j] \in A =>
          Targets(proposal[j]) \cap Targets(proposal[i]) = {}

\* A are the operations of the proposal that node n lets into its block.
LetsIn(n, A) ==
    /\ A \subseteq ToSet(proposal)
    /\ \A i \in DOMAIN proposal : proposal[i] \in A <=> Fits(n, i, A)

\* The operations that PreProcess of the working node has let in.
LetIns == {o \in Ops : W!LetIn(o)}

\* PreProcess is through with the operations of the proposal up to some place,
\* and has let in those that fit there.
InOrder(n) ==
    /\ \A i \in DOMAIN proposal : status[proposal[i]] # "proposed" =>
          \A j \in 1..(i - 1) : PreProcessed(j)
    /\ duplicated = {DuplicationKey(proposal[j]) :
          j \in {i \in DOMAIN proposal : PreProcessed(i) /\ Passes(n, proposal[i])}}
    /\ newAddress = UNION {Targets(proposal[j]) :
          j \in {i \in DOMAIN proposal : W!LetIn(proposal[i])}}
    /\ \A i \in DOMAIN proposal : PreProcessed(i) =>
          (W!LetIn(proposal[i]) <=> Fits(n, i, LetIns))

\* The operations of a proposal, by their places.
LEMMA ProposalFacts ==
    ASSUME ProposalInv, proposal # <<>>
    PROVE  /\ ToSet(proposal) # {} /\ ToSet(proposal) \subseteq Ops \ committed
           /\ \A i \in DOMAIN proposal : i \in Nat /\ i >= 1 /\ proposal[i] \in Ops \ committed
           /\ \A i \in DOMAIN proposal : \A j \in 1..(i - 1) :
                j \in DOMAIN proposal /\ proposal[j] # proposal[i]
           /\ \A i, j \in DOMAIN proposal : i # j => proposal[i] # proposal[j]
<1>1. PICK k \in Nat \ {0} : proposal \in [1..k -> Ops \ committed]
  BY DEF ProposalInv
<1>2. DOMAIN proposal = 1..k /\ 1 \in 1..k
  BY <1>1
<1>3. \A i \in DOMAIN proposal : \A j \in 1..(i - 1) : j \in DOMAIN proposal /\ j # i
  BY <1>2
<1>4. ToSet(proposal) # {} /\ ToSet(proposal) \subseteq Ops \ committed
  BY <1>1, <1>2 DEF ToSet
<1> QED  BY <1>1, <1>2, <1>3, <1>4 DEF ProposalInv

\* An operation fits as long as the pool, the last block and the proposal stay.
LEMMA FitsStays ==
    ASSUME NEW n, NEW i, NEW A, cps'[n] = cps[n], UNCHANGED <<ledger, proposal>>
    PROVE  Fits(n, i, A)' <=> Fits(n, i, A)
<1>1. \A o : Passes(n, o)' <=> Passes(n, o)
  BY PassesStays
<1> QED  BY <1>1 DEF Fits

\* PreProcess is at the k-th operation.
AtTurn(k) ==
    /\ k \in DOMAIN proposal
    /\ \A j \in 1..(k - 1) : PreProcessed(j)
    /\ ~PreProcessed(k)

\* When PreProcess goes on with the k-th operation, the others stay as they
\* are: it is through with those before the k-th and has not seen those after.
LEMMA Turn ==
    ASSUME NEW n, ProposalInv, proposal # <<>>, W!TypeOK, InOrder(n),
           NEW k, AtTurn(k), NEW s, s # "proposed", W!SetStatus(proposal[k], s),
           UNCHANGED proposal
    PROVE  /\ \A o \in Ops : o # proposal[k] => status'[o] = status[o]
           /\ \A i \in DOMAIN proposal : i # k =>
                /\ status'[proposal[i]] = status[proposal[i]]
                /\ PreProcessed(i)' <=> PreProcessed(i)
                /\ W!LetIn(proposal[i])' <=> W!LetIn(proposal[i])
           /\ status'[proposal[k]] = s
           /\ \A i \in DOMAIN proposal : PreProcessed(i) <=> i < k
           /\ \A i \in DOMAIN proposal : status'[proposal[i]] # "proposed" =>
                \A j \in 1..(i - 1) : PreProcessed(j)'
           /\ k \in Nat /\ proposal[k] \in Ops
<1>1. /\ \A i \in DOMAIN proposal : i \in Nat /\ i >= 1 /\ proposal[i] \in Ops
      /\ \A i \in DOMAIN proposal : \A j \in 1..(i - 1) : j \in DOMAIN proposal /\ j # i
      /\ \A i, j \in DOMAIN proposal : i # j => proposal[i] # proposal[j]
  BY ProposalFacts
<1>2. k \in DOMAIN proposal /\ k \in Nat /\ proposal[k] \in Ops
  BY <1>1 DEF AtTurn
<1>3. /\ \A o \in Ops : o # proposal[k] => status'[o] = status[o]
      /\ status'[proposal[k]] = s
  BY <1>2 DEF W!SetStatus, W!TypeOK
<1>4. \A i \in DOMAIN proposal : i # k => status'[proposal[i]] = status[proposal[i]]
  BY <1>1, <1>2, <1>3
<1>5. \A i \in DOMAIN proposal : i # k =>
        /\ PreProcessed(i)' <=> PreProcessed(i)
        /\ W!LetIn(proposal[i])' <=> W!LetIn(proposal[i])
  BY <1>4 DEF PreProcessed, W!LetIn
<1>6. \A i \in DOMAIN proposal : i > k => status[proposal[i]] = "proposed"
  <2> SUFFICES ASSUME NEW i \in DOMAIN proposal, i > k, status[proposal[i]] # "proposed"
               PROVE  FALSE
    OBVIOUS
  <2>1. k \in 1..(i - 1)
    BY <1>1, <1>2
  <2> QED  BY <2>1 DEF InOrder, AtTurn
<1>7. \A i \in DOMAIN proposal : PreProcessed(i) <=> i < k
  <2> SUFFICES ASSUME NEW i \in DOMAIN proposal
               PROVE  PreProcessed(i) <=> i < k
    OBVIOUS
  <2>1. CASE i < k
    <3>1. i \in 1..(k - 1)
      BY <1>1, <1>2, <2>1
    <3> QED  BY <2>1, <3>1 DEF AtTurn
  <2>2. CASE i = k
    BY <1>2, <2>2 DEF AtTurn
  <2>3. CASE i > k
    BY <1>2, <1>1, <1>6, <2>3 DEF PreProcessed
  <2> QED  BY <1>1, <1>2, <2>1, <2>2, <2>3
<1>8. ASSUME NEW i \in DOMAIN proposal, status'[proposal[i]] # "proposed",
             NEW j \in 1..(i - 1)
      PROVE  PreProcessed(j)'
  <2>1. i =< k
    BY <1>1, <1>2, <1>4, <1>6, <1>8
  <2>2. j \in DOMAIN proposal /\ j < k /\ j # k
    BY <1>1, <1>2, <2>1
  <2> QED  BY <1>5, <1>7, <2>2
<1> QED  BY <1>2, <1>3, <1>4, <1>5, <1>7, <1>8

\* PreProcess checks the k-th operation.
LEMMA OrderValidate ==
    ASSUME NEW n \in Nodes, worker = n, ProposalInv, proposal # <<>>, W!IInv, InOrder(n),
           NEW k, AtTurn(k), W!Validate(proposal[k]) \/ W!Invalidate(proposal[k]),
           UNCHANGED <<cps, proposal, worker>>
    PROVE  InOrder(n)'
<1> DEFINE o == proposal[k]
           s == IF W!PreProcessOK(o) THEN "validated" ELSE "rejected"
<1>1. /\ W!SetStatus(o, s) /\ s # "proposed"
      /\ UNCHANGED <<ledger, duplicated, newAddress>>
  BY DEF W!Validate, W!Invalidate, W!ledger, ledger, W!tables
<1>2. Passes(n, o) <=> W!PreProcessOK(o)
  BY PassesIsPreProcessOK
<1>3. W!TypeOK
  BY DEF W!IInv
<1> HIDE DEF s
<1>4. /\ \A i \in DOMAIN proposal : i # k =>
           /\ PreProcessed(i)' <=> PreProcessed(i)
           /\ W!LetIn(proposal[i])' <=> W!LetIn(proposal[i])
      /\ \A p \in Ops : p # o => status'[p] = status[p]
      /\ status'[o] = s
      /\ \A i \in DOMAIN proposal : PreProcessed(i) <=> i < k
      /\ \A i \in DOMAIN proposal : status'[proposal[i]] # "proposed" =>
           \A j \in 1..(i - 1) : PreProcessed(j)'
      /\ k \in Nat /\ o \in Ops
  BY <1>1, <1>3, Turn
<1>5. k \in DOMAIN proposal /\ ~PreProcessed(k) /\ ~W!LetIn(o)
  BY DEF AtTurn, PreProcessed, W!LetIn
<1>6. ~W!LetIn(o)' /\ (PreProcessed(k)' <=> ~Passes(n, o))
  BY <1>2, <1>4 DEF W!LetIn, PreProcessed, s
<1>7. \A p : Passes(n, p)' <=> Passes(n, p)
  BY <1>1, PassesStays
<1>8. LetIns' = LetIns
  BY <1>4, <1>5, <1>6 DEF LetIns, W!LetIn
<1>9. \A i : Fits(n, i, LetIns)' <=> Fits(n, i, LetIns)
  BY <1>7, <1>8 DEF Fits
<1>10. {i \in DOMAIN proposal : PreProcessed(i) /\ Passes(n, proposal[i])}' =
       {i \in DOMAIN proposal : PreProcessed(i) /\ Passes(n, proposal[i])}
  BY <1>4, <1>5, <1>6, <1>7
<1>11. {i \in DOMAIN proposal : W!LetIn(proposal[i])}' = {i \in DOMAIN proposal : W!LetIn(proposal[i])}
  BY <1>4, <1>5, <1>6
<1>12. \A i \in DOMAIN proposal : PreProcessed(i)' =>
         (W!LetIn(proposal[i])' <=> Fits(n, i, LetIns))
  <2> SUFFICES ASSUME NEW i \in DOMAIN proposal, PreProcessed(i)'
               PROVE  W!LetIn(proposal[i])' <=> Fits(n, i, LetIns)
    OBVIOUS
  <2>1. CASE i # k
    BY <1>4, <2>1 DEF InOrder
  <2>2. CASE i = k
    BY <1>6, <2>2 DEF Fits
  <2> QED  BY <2>1, <2>2
<1> HIDE DEF o
<1> QED  BY <1>1, <1>4, <1>9, <1>10, <1>11, <1>12 DEF InOrder

\* PreProcess looks the k-th operation up among the claimed keys and addresses.
LEMMA OrderDuplication ==
    ASSUME NEW n \in Nodes, worker = n, ProposalInv, proposal # <<>>, W!IInv, InOrder(n),
           NEW k, AtTurn(k), W!CheckDuplication(proposal[k]),
           UNCHANGED <<cps, proposal, worker>>
    PROVE  InOrder(n)'
<1> DEFINE o == proposal[k]
           isIn == ~(DuplicationKey(o) \in duplicated \/ Targets(o) \cap newAddress # {})
           s == IF isIn THEN "accepted" ELSE "rejected"
<1>0. W!DuplicationKey(o) = DuplicationKey(o) /\ W!Targets(o) = Targets(o)
  BY SameOperations
<1>1. /\ W!SetStatus(o, s) /\ s # "proposed"
      /\ UNCHANGED ledger
      /\ duplicated' = duplicated \cup {DuplicationKey(o)}
      /\ newAddress' = newAddress \cup (IF isIn THEN Targets(o) ELSE {})
  BY <1>0 DEF W!CheckDuplication, W!Reject, W!Accept, W!ledger, ledger
<1>2. W!TypeOK /\ status[o] = "validated" /\ Passes(n, o)
  <2>1. W!TypeOK /\ status[o] = "validated" /\ o \in Ops
    BY ProposalFacts DEF W!IInv, W!CheckDuplication, AtTurn
  <2>2. W!PreProcessOK(o)
    BY <2>1 DEF W!IInv, W!ChecksStillHold
  <2> QED  BY <2>1, <2>2, PassesIsPreProcessOK
<1> HIDE DEF s
<1>4. /\ \A i \in DOMAIN proposal : i # k =>
           /\ PreProcessed(i)' <=> PreProcessed(i)
           /\ W!LetIn(proposal[i])' <=> W!LetIn(proposal[i])
      /\ \A p \in Ops : p # o => status'[p] = status[p]
      /\ status'[o] = s
      /\ \A i \in DOMAIN proposal : PreProcessed(i) <=> i < k
      /\ \A i \in DOMAIN proposal : status'[proposal[i]] # "proposed" =>
           \A j \in 1..(i - 1) : PreProcessed(j)'
      /\ k \in Nat /\ o \in Ops
  BY <1>1, <1>2, Turn
<1>5. /\ k \in DOMAIN proposal /\ ~PreProcessed(k) /\ ~W!LetIn(o)
      /\ \A i \in DOMAIN proposal : \A j \in 1..(i - 1) : j \in DOMAIN proposal /\ j # i
      /\ \A i \in DOMAIN proposal : i \in Nat /\ i >= 1
  BY <1>2, ProposalFacts DEF AtTurn, PreProcessed, W!LetIn
<1>6. (W!LetIn(o)' <=> isIn) /\ PreProcessed(k)'
  BY <1>4 DEF W!LetIn, PreProcessed, s
<1>7. \A p : Passes(n, p)' <=> Passes(n, p)
  BY <1>1, PassesStays
<1>8. \A p \in Ops : p \in LetIns' <=> p \in LetIns \/ (p = o /\ isIn)
  BY <1>4, <1>5, <1>6 DEF LetIns, W!LetIn
<1> DEFINE C == {i \in DOMAIN proposal : PreProcessed(i) /\ Passes(n, proposal[i])}
           I == {i \in DOMAIN proposal : W!LetIn(proposal[i])}
<1>10. C' = C \cup {k}
  BY <1>2, <1>4, <1>5, <1>6, <1>7
<1>11. I' = I \cup (IF isIn THEN {k} ELSE {})
  BY <1>4, <1>5, <1>6
<1>12. duplicated' = {DuplicationKey(proposal[j]) : j \in C'}
  <2>1. duplicated = {DuplicationKey(proposal[j]) : j \in C}
    BY DEF InOrder
  <2> HIDE DEF C
  <2> QED  BY <1>1, <1>10, <2>1
<1>13. newAddress' = UNION {Targets(proposal[j]) : j \in I'}
  <2>1. newAddress = UNION {Targets(proposal[j]) : j \in I}
    BY DEF InOrder
  <2> HIDE DEF I, isIn
  <2>2. CASE isIn
    BY <1>1, <1>11, <2>1, <2>2
  <2>3. CASE ~isIn
    BY <1>1, <1>11, <2>1, <2>3
  <2> QED  BY <2>2, <2>3
<1>14. isIn <=> Fits(n, k, LetIns)
  <2>1. DuplicationKey(o) \in duplicated <=>
          \E j \in 1..(k - 1) : Passes(n, proposal[j]) /\ DuplicationKey(proposal[j]) = DuplicationKey(o)
    <3>1. \A j : j \in C <=> j \in 1..(k - 1) /\ Passes(n, proposal[j])
      BY <1>4, <1>5
    <3>2. duplicated = {DuplicationKey(proposal[j]) : j \in C}
      BY DEF InOrder
    <3> HIDE DEF C
    <3> QED  BY <3>1, <3>2
  <2>2. Targets(o) \cap newAddress = {} <=>
          \A j \in 1..(k - 1) : proposal[j] \in LetIns => Targets(proposal[j]) \cap Targets(o) = {}
    <3>1. \A j : j \in I <=> j \in 1..(k - 1) /\ proposal[j] \in LetIns
      <4>1. \A j \in DOMAIN proposal : W!LetIn(proposal[j]) => PreProcessed(j)
        BY DEF W!LetIn, PreProcessed
      <4>2. \A j \in DOMAIN proposal : proposal[j] \in Ops
        BY ProposalFacts
      <4> QED  BY <1>4, <1>5, <4>1, <4>2 DEF LetIns
    <3>2. newAddress = UNION {Targets(proposal[j]) : j \in I}
      BY DEF InOrder
    <3> HIDE DEF I
    <3> QED  BY <3>1, <3>2
  <2> QED  BY <1>2, <2>1, <2>2 DEF Fits
<1> HIDE DEF isIn
<1>15. ASSUME NEW i \in DOMAIN proposal, PreProcessed(i)'
       PROVE  W!LetIn(proposal[i])' <=> Fits(n, i, LetIns)'
  <2>1. i =< k
    BY <1>4, <1>5, <1>15
  <2>2. \A j \in 1..(i - 1) : proposal[j] \in Ops /\ proposal[j] # o
    BY <1>5, <2>1, ProposalFacts
  <2>3. \A j \in 1..(i - 1) : proposal[j] \in LetIns <=> proposal[j] \in LetIns'
    BY <1>8, <2>2
  <2>4. Fits(n, i, LetIns)' <=> Fits(n, i, LetIns)
    BY <1>7, <2>3 DEF Fits
  <2>5. CASE i # k
    BY <1>4, <1>15, <2>4, <2>5 DEF InOrder
  <2>6. CASE i = k
    BY <1>6, <1>14, <2>4, <2>6
  <2> QED  BY <2>5, <2>6
<1> HIDE DEF o
<1> QED  BY <1>4, <1>12, <1>13, <1>15 DEF InOrder

\* No step of a working node upsets the order of its PreProcess.
LEMMA OrderStep ==
    ASSUME NEW n \in Nodes, ProposalInv, proposal # <<>>, W!IInv, InOrder(n), Work(n)
    PROVE  InOrder(n)'
<1>0. /\ worker = n /\ UNCHANGED <<cps, proposal, worker>>
      /\ UNCHANGED <<pools, blocks, proposal, worker>>
  BY DEF Work, pools
<1>1. ASSUME NEW k \in DOMAIN proposal, PreProcess(n, k)
      PROVE  InOrder(n)'
  <2>1. \/ W!Validate(proposal[k]) \/ W!Invalidate(proposal[k])
        \/ W!CheckDuplication(proposal[k])
    BY <1>0, <1>1, WorkingSteps DEF PreProcess
  <2>2. status[proposal[k]] \in {"proposed", "validated"}
    BY <2>1 DEF W!Validate, W!Invalidate, W!CheckDuplication
  <2>3. AtTurn(k)
    BY <1>1, <2>2 DEF AtTurn, PreProcess, PreProcessed
  <2> QED  BY <1>0, <2>1, <2>3, OrderValidate, OrderDuplication
<1>2. ASSUME NEW k \in DOMAIN proposal, P(n)!Process(proposal[k])
      PROVE  InOrder(n)'
  <2>1. W!Process(proposal[k]) /\ proposal[k] \in Ops
    BY <1>0, <1>2, WorkingSteps, ProposalFacts
  <2>2. /\ status[proposal[k]] = "accepted"
        /\ status' = [status EXCEPT ![proposal[k]] = "processed"]
        /\ UNCHANGED <<ledger, duplicated, newAddress>>
    BY <2>1 DEF W!Process, W!SetStatus, W!ledger, ledger
  <2>3. W!TypeOK
    BY DEF W!IInv
  <2>4. \A o \in Ops : /\ W!LetIn(o)' <=> W!LetIn(o)
                       /\ (status'[o] = "proposed") <=> (status[o] = "proposed")
                       /\ (status'[o] = "validated") <=> (status[o] = "validated")
    BY <2>1, <2>2, <2>3 DEF W!TypeOK, W!LetIn
  <2>5. \A i \in DOMAIN proposal :
          /\ proposal[i] \in Ops
          /\ PreProcessed(i)' <=> PreProcessed(i)
          /\ \A j \in 1..(i - 1) : PreProcessed(j)' <=> PreProcessed(j)
    BY <1>0, <2>4, ProposalFacts DEF PreProcessed
  <2>6. \A p : Passes(n, p)' <=> Passes(n, p)
    BY <1>0, <2>2, PassesStays
  <2>7. LetIns' = LetIns
    BY <2>4 DEF LetIns
  <2>8. \A i : Fits(n, i, LetIns)' <=> Fits(n, i, LetIns)
    BY <1>0, <2>6, <2>7 DEF Fits
  <2>9. {i \in DOMAIN proposal : PreProcessed(i) /\ Passes(n, proposal[i])}' =
        {i \in DOMAIN proposal : PreProcessed(i) /\ Passes(n, proposal[i])}
    BY <1>0, <2>5, <2>6
  <2>10. {i \in DOMAIN proposal : W!LetIn(proposal[i])}' = {i \in DOMAIN proposal : W!LetIn(proposal[i])}
    BY <1>0, <2>4, <2>5
  <2> QED  BY <1>0, <2>2, <2>4, <2>5, <2>8, <2>9, <2>10 DEF InOrder
<1>3. CASE P(n)!Close
  <2>1. W!Close
    BY <1>0, <1>3, WorkingSteps
  <2>2. UNCHANGED <<ledger, status, duplicated, newAddress>>
    BY <2>1 DEF W!Close, W!ledger, ledger, W!tables
  <2>3. \A p : Passes(n, p)' <=> Passes(n, p)
    BY <1>0, <2>2, PassesStays
  <2>4. \A o : W!LetIn(o)' <=> W!LetIn(o)
    BY <2>2 DEF W!LetIn
  <2>5. LetIns' = LetIns
    BY <2>4 DEF LetIns
  <2>6. \A i : Fits(n, i, LetIns)' <=> Fits(n, i, LetIns)
    BY <1>0, <2>3, <2>5 DEF Fits
  <2>7. \A i : PreProcessed(i)' <=> PreProcessed(i)
    BY <1>0, <2>2 DEF PreProcessed
  <2>8. {i \in DOMAIN proposal : PreProcessed(i) /\ Passes(n, proposal[i])}' =
        {i \in DOMAIN proposal : PreProcessed(i) /\ Passes(n, proposal[i])}
    BY <1>0, <2>3, <2>7
  <2>9. {i \in DOMAIN proposal : W!LetIn(proposal[i])}' = {i \in DOMAIN proposal : W!LetIn(proposal[i])}
    BY <1>0, <2>4
  <2> QED  BY <1>0, <2>2, <2>4, <2>6, <2>7, <2>8, <2>9 DEF InOrder
<1> QED  BY <1>1, <1>2, <1>3 DEF Work

\* When all is done, the operations that were processed are those let in.
LEMMA DoneIsLetIn ==
    ASSUME NEW n \in Nodes, worker = n, ProposalInv, proposal # <<>>, W!IInv, InOrder(n),
           W!AllDone
    PROVE  LetsIn(n, W!Done) /\ W!Done = {o \in ToSet(proposal) : status[o] = "processed"}
<1>0. ToSet(proposal) \subseteq Ops /\ \A i \in DOMAIN proposal : proposal[i] \in ToSet(proposal)
  BY ProposalFacts DEF ToSet
<1>1. \A o \in Ops : status[o] \in {"accepted", "processed"} => o \in ToSet(proposal)
  BY DEF W!IInv, W!ChecksStillHold
<1>2. W!Done = {o \in ToSet(proposal) : status[o] = "processed"}
  BY <1>0, <1>1 DEF W!Done
<1>3. \A o \in ToSet(proposal) : status[o] \in {"processed", "rejected"}
  BY DEF W!AllDone
<1>4. LetIns = W!Done
  BY <1>1, <1>3 DEF LetIns, W!LetIn, W!Done
<1>5. \A i \in DOMAIN proposal : PreProcessed(i) /\ (W!LetIn(proposal[i]) <=> proposal[i] \in W!Done)
  BY <1>0, <1>3 DEF PreProcessed, W!LetIn, W!Done
<1> QED  BY <1>2, <1>4, <1>5 DEF LetsIn, InOrder

\* There is one way to let in what fits.
LEMMA OneWay ==
    ASSUME ProposalInv, proposal # <<>>, NEW m, NEW n, NEW A, NEW B,
           \A o : Passes(m, o) <=> Passes(n, o), LetsIn(m, A), LetsIn(n, B)
    PROVE  A = B
<1> DEFINE T == {i \in DOMAIN proposal : ~(proposal[i] \in A <=> proposal[i] \in B)}
<1>1. /\ \A i \in DOMAIN proposal : i \in Nat
      /\ \A i \in DOMAIN proposal : \A j \in 1..(i - 1) : j \in DOMAIN proposal /\ j < i
  BY ProposalFacts
<1>2. ASSUME T # {} PROVE FALSE
  <2>1. T \subseteq Nat
    BY <1>1
  <2>2. IsWellFoundedOn(OpToRel(<, Nat), Nat)
    BY NatLessThanWellFounded
  <2> HIDE DEF T
  <2>3. PICK i \in T : \A j \in T : ~(<<j, i>> \in OpToRel(<, Nat))
    BY <1>2, <2>1, <2>2, WFMin
  <2>4. \A j \in T : ~(j < i)
    BY <2>1, <2>3 DEF OpToRel
  <2>5. i \in DOMAIN proposal /\ ~(proposal[i] \in A <=> proposal[i] \in B)
    BY <2>3 DEF T
  <2>6. \A j \in 1..(i - 1) : proposal[j] \in A <=> proposal[j] \in B
    BY <1>1, <2>4, <2>5 DEF T
  <2>7. Fits(m, i, A) <=> Fits(n, i, B)
    BY <2>6 DEF Fits
  <2> QED  BY <2>5, <2>7 DEF LetsIn
<1>3. A \subseteq ToSet(proposal) /\ B \subseteq ToSet(proposal)
  BY DEF LetsIn
<1>4. \A o \in ToSet(proposal) : o \in A <=> o \in B
  BY <1>2 DEF ToSet
<1> QED  BY <1>3, <1>4

\* The FeeOperation lists every fee that was collected, and no other.
LEMMA FeesAreListed ==
    ASSUME NEW fees \in FeeFacts
    PROVE  ToSet(fees) = {<<c, fee[c]>> : c \in {d \in Currencies : fee[d] > 0}}
<1> DEFINE I == {d \in Currencies : fee[d] > 0}
           S == {<<c, fee[c]>> : c \in I}
           k == Cardinality(S)
<1>1. IsFiniteSet(S) /\ k \in Nat
  <2>1. IsFiniteSet(I)
    BY SetsAssumption, FS_Subset
  <2>2. [c \in I |-> <<c, fee[c]>>] \in Surjection(I, S)
    BY DEF Surjection
  <2> HIDE DEF I, S
  <2>3. IsFiniteSet(S)
    BY <2>1, <2>2, FS_Surjection
  <2> QED  BY <2>3, FS_CardinalityType
<1> HIDE DEF I, S
<1>2. fees \in [1..k -> S] /\ \A i, j \in 1..k : i # j => fees[i] # fees[j]
  BY DEF FeeFacts, SetToSeqs, I, S
<1>3. fees \in Injection(1..k, S)
  BY <1>2 DEF Injection, IsInjective
<1>4. IsFiniteSet(1..k) /\ Cardinality(1..k) = k
  <2>1. Cardinality(1..k) = IF 1 > k THEN 0 ELSE k - 1 + 1
    BY <1>1, FS_Interval
  <2> QED  BY <1>1, <2>1, FS_Interval
<1> HIDE DEF k
<1>5. Cardinality(1..k) = Cardinality(S)
  BY <1>4 DEF k
<1>6. fees \in Surjection(1..k, S)
  BY <1>1, <1>3, <1>5, FS_Injection
<1>7. \A t \in S : \E i \in 1..k : fees[i] = t
  BY <1>6 DEF Surjection
<1>8. ToSet(fees) = S
  BY <1>2, <1>7 DEF ToSet
<1> QED  BY <1>8 DEF S, I

(***************************************************************************)
(* The block that a node makes of the operations it lets in                *)
(***************************************************************************)

\* What the operations of B take, and the fees they leave, by designs ds.
TakenAt(ds, B, a, c) ==
    Total([o \in B |-> IF ~W!IsCurrencyOperation(o) /\ a = W!Payer(o)
                       THEN W!Charge(o, ds, c).amount ELSE 0])

\* The fees that the operations of B leave.
FeesAt(ds, B, c) == Total([o \in B |-> W!Charge(o, ds, c).fee])

\* The currencies of those fees.
FeesPaidAt(ds, B) == {c \in Currencies : FeesAt(ds, B, c) > 0}

\* Who receives them.
ReceiverAt(ds, c) == ds[c].policy.feeer.receiver

\* The fees as the FeeOperation lists them.
FeesOf(ds, B) == {<<c, FeesAt(ds, B, c)>> : c \in FeesPaidAt(ds, B)}

\* What the operations of B and their fees add to each balance.
DeltaOf(ds, B) == [a \in Addresses |-> [c \in Currencies |->
    W!GivenBy(B, a, c) - TakenAt(ds, B, a, c)
      + (IF c \in FeesPaidAt(ds, B) /\ a = ReceiverAt(ds, c) THEN FeesAt(ds, B, c) ELSE 0)]]

\* The balances that they set.
TouchedOf(ds, B) ==
    (UNION {W!BalancesSet(o) : o \in B}) \cup {<<ReceiverAt(ds, c), c>> : c \in FeesPaidAt(ds, B)}

\* The block of the operations of B, but for the order of its fees, when the
\* pool has designs ds and the blocks de.
BlockOf(ds, de, B) ==
    [ops |-> B, fees |-> FeesOf(ds, B), delta |-> DeltaOf(ds, B), touched |-> TouchedOf(ds, B),
     newAccount |-> W!NewAccountsOf(B), newDesign |-> W!NewDesignsOf(de, B)]

\* The balance states in the state pool are those that the processed
\* operations Set, and once it is closed those of the fees.
ByDone == UNION {W!BalancesSet(o) : o \in W!Done}

\* The balances that the fees Set.
ByFees == {<<W!FeeReceiver(c), c>> : c \in {d \in Currencies : fee[d] > 0}}

\* The balance states in the state pool, and whom they come from.
TouchedBySome == touched = ByDone \cup (IF closed THEN ByFees ELSE {})

\* Every balance state in the state pool is there for an operation or a fee.
LEMMA TouchedStep ==
    ASSUME NEW n \in Nodes, ProposalInv, proposal # <<>>, W!IInv, W!PoolIsOfProposal,
           TouchedBySome, Work(n)
    PROVE  TouchedBySome'
<1>0. /\ worker = n /\ UNCHANGED <<cps, proposal, worker>>
      /\ UNCHANGED <<pools, blocks, proposal, worker>>
      /\ W!TypeOK
  BY DEF Work, pools, W!IInv
<1>1. ASSUME W!Done' = W!Done, UNCHANGED <<touched, closed, fee>>
      PROVE  TouchedBySome'
  BY <1>0, <1>1 DEF TouchedBySome, ByDone, ByFees, W!FeeReceiver
<1>2. ASSUME NEW k \in DOMAIN proposal, PreProcess(n, k)
      PROVE  TouchedBySome'
  <2>1. /\ proposal[k] \in Ops
        /\ \/ W!Validate(proposal[k]) \/ W!Invalidate(proposal[k])
           \/ W!CheckDuplication(proposal[k])
    BY <1>0, <1>2, WorkingSteps, ProposalFacts DEF PreProcess
  <2>2. W!Done' = W!Done /\ UNCHANGED <<fee, W!changes>>
    BY <1>0, <2>1, Assumptions, W!DoneStays
  <2> QED  BY <1>1, <2>2 DEF W!changes
<1>3. ASSUME NEW k \in DOMAIN proposal, P(n)!Process(proposal[k])
      PROVE  TouchedBySome'
  <2>1. W!Process(proposal[k]) /\ proposal[k] \in Ops /\ proposal[k] \in ToSet(proposal)
    BY <1>0, <1>3, WorkingSteps, ProposalFacts DEF ToSet
  <2>2. W!Done' = W!Done \cup {proposal[k]}
    BY <1>0, <2>1 DEF W!Process, W!SetStatus, W!TypeOK, W!Done
  <2>3. ~closed /\ ~closed'
    BY <2>1 DEF W!Process, W!PoolIsOfProposal, W!AllDone
  <2>4. touched' = touched \cup W!BalancesSet(proposal[k])
    BY <2>1 DEF W!Process
  <2>5. touched' = ByDone'
    BY <2>2, <2>3, <2>4 DEF TouchedBySome, ByDone
  <2> QED  BY <2>3, <2>5 DEF TouchedBySome
<1>4. CASE P(n)!Close
  <2>1. W!Close
    BY <1>0, <1>4, WorkingSteps
  <2>2. W!Done' = W!Done /\ ~closed /\ closed' = TRUE /\ UNCHANGED fee
    BY <2>1 DEF W!Close, W!Done, W!tables
  <2>3. touched' = touched \cup ByFees
    BY <2>1 DEF W!Close, ByFees
  <2>4. \A c : W!FeeReceiver(c)' = W!FeeReceiver(c)
    BY <1>0 DEF W!FeeReceiver
  <2>5. ByFees' = ByFees /\ ByDone' = ByDone
    BY <2>2, <2>4 DEF ByFees, ByDone
  <2> QED  BY <2>2, <2>3, <2>5 DEF TouchedBySome
<1> QED  BY <1>2, <1>3, <1>4 DEF Work

\* Content lists the fees as a set.
LEMMA ContentOf ==
    ASSUME NEW o, NEW f, NEW d, NEW t, NEW a, NEW de
    PROVE  Content([ops |-> o, fees |-> f, delta |-> d, touched |-> t, newAccount |-> a, newDesign |-> de])
             = [ops |-> o, fees |-> ToSet(f), delta |-> d, touched |-> t, newAccount |-> a, newDesign |-> de]
BY DEF Content

\* A node makes the block of the operations it lets in.
LEMMA MadeIsBlockOf ==
    ASSUME NEW n \in Nodes, worker = n, ProposalInv, proposal # <<>>,
           W!BInv, W!WritesStand, W!PoolIsSum, TouchedBySome, InOrder(n), closed,
           NEW fees \in FeeFacts
    PROVE  Content(Block(fees)) = BlockOf(cps[n], design, W!Done)
<1> DEFINE B == W!Done
           ds == cps[n]
<1>0. W!IInv /\ W!TypeOK /\ W!AllDone
  BY DEF W!BInv, W!IInv, W!PoolIsOfProposal
<1>1. {o \in ToSet(proposal) : status[o] = "processed"} = B
  BY <1>0, DoneIsLetIn
<1>2. \A o \in B : required[o] = [c \in Currencies |-> W!Charge(o, ds, c)]
  BY <1>0 DEF W!IInv, W!ChecksStillHold, W!Done
<1>3. ASSUME NEW c \in Currencies
      PROVE  fee[c] = FeesAt(ds, B, c) /\ fee[c] \in Nat
  <2>1. [o \in B |-> required[o][c].fee] = [o \in B |-> W!Charge(o, ds, c).fee]
    BY <1>2
  <2> HIDE DEF B, ds
  <2>2. W!FeesOf(B, c) = FeesAt(ds, B, c)
    BY <2>1, SameTotal DEF W!FeesOf, FeesAt
  <2> QED  BY <1>0, <2>2 DEF W!PoolIsSum, W!TypeOK, B
<1>4. ASSUME NEW a \in Addresses, NEW c \in Currencies
      PROVE  W!TakenBy(B, a, c) = TakenAt(ds, B, a, c)
  <2>1. [o \in B |-> W!Loss(o, a, c)] =
        [o \in B |-> IF ~W!IsCurrencyOperation(o) /\ a = W!Payer(o) THEN W!Charge(o, ds, c).amount ELSE 0]
    BY <1>2 DEF W!Loss
  <2> HIDE DEF B, ds
  <2> QED  BY <2>1, SameTotal DEF W!TakenBy, TakenAt
<1>5. \A c : W!FeeReceiver(c) = ReceiverAt(ds, c)
  BY DEF W!FeeReceiver, ReceiverAt
<1>6. {d \in Currencies : fee[d] > 0} = FeesPaidAt(ds, B)
  BY <1>3 DEF FeesPaidAt
<1> HIDE DEF B, ds
<1>7. ToSet(fees) = FeesOf(ds, B)
  <2>1. ToSet(fees) = {<<c, fee[c]>> : c \in FeesPaidAt(ds, B)}
    BY <1>6, FeesAreListed
  <2> QED  BY <1>3, <2>1 DEF FeesPaidAt, FeesOf
<1>8. delta = DeltaOf(ds, B)
  <2>1. ASSUME NEW a \in Addresses, NEW c \in Currencies
        PROVE  delta[a][c] = W!GivenBy(B, a, c) - TakenAt(ds, B, a, c)
          + (IF c \in FeesPaidAt(ds, B) /\ a = ReceiverAt(ds, c) THEN FeesAt(ds, B, c) ELSE 0)
    <3>1. delta[a][c] = W!GivenBy(B, a, c) - W!TakenBy(B, a, c) + W!FeeGain(a, c)
      BY DEF W!PoolIsSum, B
    <3>2. W!FeeGain(a, c) = IF c \in FeesPaidAt(ds, B) /\ a = ReceiverAt(ds, c) THEN FeesAt(ds, B, c) ELSE 0
      BY <1>3, <1>5 DEF W!FeeGain, FeesPaidAt
    <3> QED  BY <1>4, <3>1, <3>2
  <2>2. delta \in [Addresses -> [Currencies -> Int]]
    BY <1>0 DEF W!TypeOK
  <2> QED  BY <2>1, <2>2 DEF DeltaOf
<1>9. touched = TouchedOf(ds, B)
  <2>1. ByFees = {<<ReceiverAt(ds, c), c>> : c \in FeesPaidAt(ds, B)}
    BY <1>5, <1>6 DEF ByFees
  <2>2. ByDone = UNION {W!BalancesSet(o) : o \in B}
    BY DEF ByDone, B
  <2>3. touched = ByDone \cup ByFees
    BY DEF TouchedBySome
  <2> QED  BY <2>1, <2>2, <2>3 DEF TouchedOf
<1>10. newAccount = W!NewAccountsOf(B) /\ newDesign = W!NewDesignsOf(design, B)
  BY Assumptions, W!PoolAccounts, W!PoolDesigns DEF B
<1>11. Content(Block(fees)) =
         [ops |-> B, fees |-> ToSet(fees), delta |-> delta, touched |-> touched,
          newAccount |-> newAccount, newDesign |-> newDesign]
  <2>1. Block(fees) = [ops |-> B, fees |-> fees, delta |-> delta, touched |-> touched,
                       newAccount |-> newAccount, newDesign |-> newDesign]
    BY <1>1 DEF Block
  <2> QED  BY <2>1, ContentOf
<1>12. Content(Block(fees)) = BlockOf(ds, design, B)
  BY <1>7, <1>8, <1>9, <1>10, <1>11 DEF BlockOf
<1> QED  BY <1>12 DEF B, ds

\* The states after block b.
AccountAfter(b) == [a \in Addresses |->
    IF b.newAccount[a] # NoKeys THEN b.newAccount[a] ELSE account[a]]

\* The balances after it.
BalanceAfter(b) == [a \in Addresses |-> [c \in Currencies |-> balance[a][c] + b.delta[a][c]]]

\* The designs after it.
DesignAfter(b) == [c \in Currencies |->
    IF b.newDesign[c] # NoDesign THEN b.newDesign[c] ELSE design[c]]

\* The states after it are good.
GoodAfter(b) ==
    GoodLedger(AccountAfter(b), held \cup b.touched, BalanceAfter(b), DesignAfter(b),
               committed \cup b.ops)

\* The receivers of a design's fees are found among the accounts.
LEMMA ReceiverIsKnown ==
    ASSUME NEW de \in Designs, F!HasReceiver(de.policy.feeer)
    PROVE  de.policy.feeer.receiver \in Addresses
<1>1. de.policy.feeer \in F!Feeers
  BY DEF Designs, Policies
<1> QED
  BY <1>1 DEF F!Feeers, F!NilFeeers, F!FixedFeeers, F!RatioFeeers, F!HasReceiver

\* The states after a block that a node makes are good, whatever its pool.
LEMMA MadeIsGood ==
    ASSUME LedgerInv, ProposalInv, proposal # <<>>, W!BInv, closed, NEW fees
    PROVE  GoodAfter(Block(fees))
<1> DEFINE acc == [a \in Addresses |-> IF newAccount[a] # NoKeys THEN newAccount[a] ELSE account[a]]
           bal == [a \in Addresses |-> [c \in Currencies |-> balance[a][c] + delta[a][c]]]
           des == [c \in Currencies |-> IF newDesign[c] # NoDesign THEN newDesign[c] ELSE design[c]]
           ops == {o \in ToSet(proposal) : status[o] = "processed"}
<1>0. W!TypeOK /\ W!NoOverdraft
  BY DEF W!BInv, W!IInv
<1>1. acc \in [Addresses -> AccountKeys \cup {NoKeys}] /\ des \in Designed
  BY <1>0, SameSets DEF W!TypeOK, Designed
<1>2. held \cup touched \subseteq Addresses \X Currencies /\ committed \cup ops \subseteq Ops
  BY <1>0, ProposalFacts DEF W!TypeOK
<1>3. bal \in [Addresses -> [Currencies -> Nat]]
  <2>1. \A a \in Addresses, c \in Currencies : balance[a][c] + delta[a][c] \in Nat
    BY <1>0 DEF W!NoOverdraft, W!TypeOK
  <2> QED  BY <2>1
<1>4. ASSUME NEW a \in Addresses, NEW c \in Currencies
      PROVE  IF <<a, c>> \in held \cup touched THEN acc[a] # NoKeys /\ des[c] # NoDesign
             ELSE bal[a][c] = 0
  <2>1. CASE <<a, c>> \in held \cup touched
    BY <2>1 DEF W!BInv, W!BalanceHasOwner
  <2>2. CASE <<a, c>> \notin held \cup touched
    <3>1. balance[a][c] = 0 /\ delta[a][c] = 0
      BY <2>2 DEF W!BInv, W!MoneyIsHeld
    <3> QED  BY <2>2, <3>1
  <2> QED  BY <2>1, <2>2
<1>5. ASSUME NEW c \in Currencies
      PROVE  ReceiverIsIn(acc, des[c])
  <2> SUFFICES ASSUME des[c] # NoDesign, F!HasReceiver(des[c].policy.feeer)
               PROVE  acc[des[c].policy.feeer.receiver] # NoKeys
    BY DEF ReceiverIsIn
  <2>1. des[c] \in Designs /\ des[c] \in {design[c], newDesign[c]}
    BY <1>1 DEF Designed
  <2> HIDE DEF des
  <2>2. W!ReceiverIsOK(des[c].policy.feeer)
    BY <2>1 DEF W!BInv, W!ReceiversExist
  <2>3. account[des[c].policy.feeer.receiver] # NoKeys
    BY <2>2 DEF W!ReceiverIsOK, W!Exists, W!F!HasReceiver, F!HasReceiver
  <2>4. des[c].policy.feeer.receiver \in Addresses
    BY <2>1, ReceiverIsKnown
  <2> QED  BY <2>3, <2>4
<1>6. ASSUME NEW c \in Currencies
      PROVE  Total([a \in Addresses |-> bal[a][c]]) = Supply(des[c])
  <2>1. W!InFlight(c) = Supply(des[c])
    BY DEF W!BInv, W!Conservation, W!Supply, Supply
  <2>2. W!InFlight(c) = Total([a \in Addresses |-> balance[a][c] + delta[a][c]]) + 0
    BY SameTotal DEF W!InFlight
  <2>3. [a \in Addresses |-> bal[a][c]] = [a \in Addresses |-> balance[a][c] + delta[a][c]]
    OBVIOUS
  <2>4. Supply(des[c]) \in Nat
    BY <1>1 DEF Designed, Designs, Supply
  <2>5. [a \in Addresses |-> bal[a][c]] \in [Addresses -> Nat]
    BY <1>3
  <2> HIDE DEF bal, des
  <2>6. Total([a \in Addresses |-> bal[a][c]]) \in Nat
    BY <2>5, Assumptions, SameTotal, W!TotalIsNat, SetsAssumption, SameFinite
  <2> QED  BY <2>1, <2>2, <2>3, <2>4, <2>6
<1>7. /\ AccountAfter(Block(fees)) = acc /\ BalanceAfter(Block(fees)) = bal
      /\ DesignAfter(Block(fees)) = des
      /\ Block(fees).touched = touched /\ Block(fees).ops = ops
  BY DEF AccountAfter, BalanceAfter, DesignAfter, Block
<1> HIDE DEF acc, bal, des, ops
<1> QED  BY <1>1, <1>2, <1>3, <1>4, <1>5, <1>6, <1>7 DEF GoodAfter, GoodLedger

(***************************************************************************)
(* The abstract ledger's words are those of the working node's ledger      *)
(***************************************************************************)
LEMMA SameLedgerOperations ==
    ASSUME NEW o
    PROVE  /\ W!L!HasItems(o) <=> L!HasItems(o)
           /\ W!L!IsCurrencyOperation(o) <=> L!IsCurrencyOperation(o)
           /\ W!L!Payer(o) = L!Payer(o)
           /\ W!L!DuplicationKey(o) = L!DuplicationKey(o)
           /\ W!L!Receivers(o) = L!Receivers(o)
           /\ W!L!Targets(o) = L!Targets(o)
           /\ W!L!Used(o) = L!Used(o)
           /\ \A a, c : W!L!Credit(o, a, c) = L!Credit(o, a, c)
<1>1. /\ W!L!HasItems(o) <=> L!HasItems(o)
      /\ W!L!IsCurrencyOperation(o) <=> L!IsCurrencyOperation(o)
      /\ W!L!Receivers(o) = L!Receivers(o)
  BY DEF W!L!HasItems, L!HasItems, W!L!IsCurrencyOperation, L!IsCurrencyOperation,
         W!L!Receivers, L!Receivers
<1>2. W!L!Payer(o) = L!Payer(o) /\ W!L!Targets(o) = L!Targets(o) /\ W!L!Used(o) = L!Used(o)
  BY <1>1 DEF W!L!Payer, L!Payer, W!L!Targets, L!Targets, W!L!Used, L!Used
<1> QED  BY <1>1, <1>2 DEF W!L!DuplicationKey, L!DuplicationKey, W!L!Credit, L!Credit

\* The sums.
LEMMA SameLedgerTotal == \A f : W!L!Total(f) = L!Total(f) /\ L!Total(f) = Total(f)
BY DEF W!L!Total, L!Total, Total, W!L!Coins, L!Coins, Coins, W!L!Cardinality, L!Cardinality,
   Cardinality

\* The fees of a feeer.
LEMMA SameLedgerFee ==
    /\ \A f, n : W!L!F!Fee(f, n) = L!F!Fee(f, n)
    /\ \A f : W!L!F!HasReceiver(f) <=> L!F!HasReceiver(f)
BY DEF W!L!F!Fee, L!F!Fee, W!L!F!RatioFee, L!F!RatioFee, W!L!F!MulRatio, L!F!MulRatio,
       W!L!F!UnlimitedMaxFeeAmount, L!F!UnlimitedMaxFeeAmount, W!L!F!HasReceiver,
       L!F!HasReceiver

\* What an operation is charged.
LEMMA SameLedgerCharge ==
    ASSUME NEW o, NEW c
    PROVE  W!L!ChargeOf(o, c) = L!ChargeOf(o, c)
<1> DEFINE f == design[c].policy.feeer
<1>1. W!L!ItemsFee(o, f, c) = L!ItemsFee(o, f, c)
  <2>1. \A n : W!L!ItemFee(f, n) = L!ItemFee(f, n)
    BY SameLedgerFee DEF W!L!ItemFee, L!ItemFee
  <2>2. [r \in Addresses |-> W!L!ItemFee(f, o.amounts[r][c])] =
        [r \in Addresses |-> L!ItemFee(f, o.amounts[r][c])]
    BY <2>1
  <2> HIDE DEF f
  <2> QED  BY <2>2, SameLedgerTotal DEF W!L!ItemsFee, L!ItemsFee
<1>2. W!L!KeyUpdaterFee(f) = L!KeyUpdaterFee(f)
  BY SameLedgerFee DEF W!L!KeyUpdaterFee, L!KeyUpdaterFee
<1>3. W!L!Charge(o, design, c) = L!Charge(o, design, c)
  BY <1>1, <1>2, SameLedgerOperations DEF W!L!Charge, L!Charge, W!L!NoCharge, L!NoCharge
<1> QED  BY <1>3 DEF W!L!ChargeOf, L!ChargeOf, W!L!Registered, L!Registered, W!L!NoCharge,
   L!NoCharge

\* Whether signatures reach a threshold.
LEMMA SameLedgerSigns ==
    ASSUME NEW signs, NEW keys
    PROVE  /\ W!L!CheckThreshold(signs, keys) <=> L!CheckThreshold(signs, keys)
           /\ \A pubs, k : W!L!CheckFactSignsByPubs(signs, pubs, k) <=> L!CheckFactSignsByPubs(signs, pubs, k)
<1>1. W!L!Members(keys) = L!Members(keys)
  BY DEF W!L!Members, L!Members
<1>2. W!L!Weight(keys, signs) = L!Weight(keys, signs)
  BY SameLedgerTotal DEF W!L!Weight, L!Weight
<1> QED  BY <1>1, <1>2 DEF W!L!CheckThreshold, L!CheckThreshold,
        W!L!CheckFactSignsByPubs, L!CheckFactSignsByPubs, W!L!Cardinality, L!Cardinality

\* Whether an operation is good.
LEMMA SameGood ==
    ASSUME NEW o
    PROVE  W!L!Good(o) <=> L!Good(o)
<1>1. W!L!PaidFor(o) <=> L!PaidFor(o)
  BY SameLedgerOperations, SameLedgerCharge, SameLedgerSigns
     DEF W!L!PaidFor, L!PaidFor, W!L!Exists, L!Exists, W!L!Registered, L!Registered
<1>2. W!L!Approved(o) <=> L!Approved(o)
  BY SameLedgerSigns DEF W!L!Approved, L!Approved
<1>3. \A f : W!L!GoodReceiver(f) <=> L!GoodReceiver(f)
  BY SameLedgerFee DEF W!L!GoodReceiver, L!GoodReceiver, W!L!Exists, L!Exists
<1> QED
  BY <1>1, <1>2, <1>3, SameLedgerOperations
     DEF W!L!Good, L!Good, W!L!Exists, L!Exists, W!L!Registered, L!Registered

\* What operations move, and whether they go together.
LEMMA SameSums ==
    ASSUME NEW B, NEW a, NEW c
    PROVE  /\ W!L!Received(B, a, c) = L!Received(B, a, c)
           /\ W!L!Issued(B, a, c) = L!Issued(B, a, c)
           /\ W!L!Paid(B, a, c) = L!Paid(B, a, c)
           /\ W!L!Fees(B, a, c) = L!Fees(B, a, c)
           /\ W!L!Compatible(B) <=> L!Compatible(B)
<1>1. W!L!Received(B, a, c) = L!Received(B, a, c)
  <2>1. [o \in B |-> W!L!Credit(o, a, c)] = [o \in B |-> L!Credit(o, a, c)]
    BY SameLedgerOperations
  <2> QED  BY <2>1, SameLedgerTotal DEF W!L!Received, L!Received
<1>2. W!L!Issued(B, a, c) = L!Issued(B, a, c)
  BY SameLedgerTotal DEF W!L!Issued, L!Issued
<1>3. W!L!Paid(B, a, c) = L!Paid(B, a, c)
  <2> DEFINE S == {p \in B : ~L!IsCurrencyOperation(p) /\ L!Payer(p) = a}
  <2>1. {p \in B : ~W!L!IsCurrencyOperation(p) /\ W!L!Payer(p) = a} = S
    BY SameLedgerOperations
  <2>2. [o \in S |-> W!L!ChargeOf(o, c).amount] = [o \in S |-> L!ChargeOf(o, c).amount]
    BY SameLedgerCharge
  <2> HIDE DEF S
  <2>3. W!L!Paid(B, a, c) = W!L!Total([o \in S |-> W!L!ChargeOf(o, c).amount])
    BY <2>1 DEF W!L!Paid
  <2>4. L!Paid(B, a, c) = L!Total([o \in S |-> L!ChargeOf(o, c).amount])
    BY DEF L!Paid, S
  <2> QED  BY <2>2, <2>3, <2>4, SameLedgerTotal
<1>4. W!L!Fees(B, a, c) = L!Fees(B, a, c)
  <2>1. [o \in B |-> W!L!ChargeOf(o, c).fee] = [o \in B |-> L!ChargeOf(o, c).fee]
    BY SameLedgerCharge
  <2> QED  BY <2>1, SameLedgerTotal, SameLedgerFee DEF W!L!Fees, L!Fees, W!L!Registered,
     L!Registered
<1>5. W!L!Compatible(B) <=> L!Compatible(B)
  BY SameLedgerOperations DEF W!L!Compatible, L!Compatible
<1> QED  BY <1>1, <1>2, <1>3, <1>4, <1>5

\* Block b would be a block of the abstract ledger.
IsLedgerBlock(b) ==
    /\ b.ops \subseteq Ops \ committed
    /\ \A o \in b.ops : L!Good(o)
    /\ L!Compatible(b.ops)
    /\ \A a \in Addresses, c \in Currencies :
         balance[a][c] + b.delta[a][c] =
           balance[a][c] + L!Received(b.ops, a, c) + L!Issued(b.ops, a, c)
             + L!Fees(b.ops, a, c) - L!Paid(b.ops, a, c)
    /\ \A a \in Addresses :
         (IF b.newAccount[a] # NoKeys THEN b.newAccount[a] ELSE account[a]) =
           CASE \E o \in b.ops : a \in L!Targets(o) -> KeysOf[a]
             [] \E o \in b.ops : o.type = "key-updater" /\ o.target = a ->
                  (CHOOSE o \in b.ops : o.type = "key-updater" /\ o.target = a).keys
             [] OTHER -> account[a]
    /\ \A c \in Currencies :
         (IF b.newDesign[c] # NoDesign THEN b.newDesign[c] ELSE design[c]) =
           CASE \E o \in b.ops : o.type = "currency-register" /\ o.currency = c ->
                  (CHOOSE o \in b.ops : o.type = "currency-register" /\ o.currency = c).design
             [] \E o \in b.ops : o.type = "currency-policy-updater" /\ o.currency = c ->
                  [amount |-> design[c].amount,
                   policy |-> (CHOOSE o \in b.ops : o.type = "currency-policy-updater"
                                                      /\ o.currency = c).policy]
             [] OTHER -> design[c]

\* A node whose pool has the designs of the blocks makes a block of the
\* abstract ledger.
LEMMA MadeIsLedgerBlock ==
    ASSUME NEW n \in Nodes, worker = n, ProposalInv, proposal # <<>>,
           W!BInv, W!WritesStand, W!PoolIsSum, InOrder(n), closed, cps[n] = design,
           NEW fees
    PROVE  IsLedgerBlock(Block(fees))
<1> DEFINE B == W!Done
<1>0. W!IInv /\ W!AllDone /\ cps[worker] = design
  BY DEF W!BInv, W!IInv, W!PoolIsOfProposal
<1>1. {o \in ToSet(proposal) : status[o] = "processed"} = B
  BY <1>0, DoneIsLetIn
<1>2. /\ Block(fees).ops = B /\ Block(fees).delta = delta
      /\ Block(fees).newAccount = newAccount /\ Block(fees).newDesign = newDesign
  BY <1>1 DEF Block
<1>3. B \subseteq Ops \ committed
  BY <1>1, ProposalFacts
<1>4. (\A o \in B : L!Good(o)) /\ L!Compatible(B)
  <2>1. (\A o \in B : W!L!Good(o)) /\ W!L!Compatible(B)
    BY <1>0, Assumptions, W!DoneIsGood
  <2> QED  BY <2>1, SameGood, SameSums
<1>5. ASSUME NEW a \in Addresses, NEW c \in Currencies
      PROVE  balance[a][c] + delta[a][c] =
           balance[a][c] + L!Received(B, a, c) + L!Issued(B, a, c)
             + L!Fees(B, a, c) - L!Paid(B, a, c)
  <2>1. balance[a][c] + delta[a][c] =
           balance[a][c] + W!L!Received(B, a, c) + W!L!Issued(B, a, c)
             + W!L!Fees(B, a, c) - W!L!Paid(B, a, c)
    BY <1>0, Assumptions, W!PoolBalances
  <2> QED  BY <2>1, SameSums
<1>6. ASSUME NEW a \in Addresses
      PROVE  (IF newAccount[a] # NoKeys THEN newAccount[a] ELSE account[a]) =
           CASE \E o \in B : a \in L!Targets(o) -> KeysOf[a]
             [] \E o \in B : o.type = "key-updater" /\ o.target = a ->
                  (CHOOSE o \in B : o.type = "key-updater" /\ o.target = a).keys
             [] OTHER -> account[a]
  <2>1. \A o : W!L!Targets(o) = L!Targets(o)
    BY SameLedgerOperations
  <2> QED  BY <2>1, Assumptions, W!PoolAccounts
<1>7. ASSUME NEW c \in Currencies
      PROVE  (IF newDesign[c] # NoDesign THEN newDesign[c] ELSE design[c]) =
           CASE \E o \in B : o.type = "currency-register" /\ o.currency = c ->
                  (CHOOSE o \in B : o.type = "currency-register" /\ o.currency = c).design
             [] \E o \in B : o.type = "currency-policy-updater" /\ o.currency = c ->
                  [amount |-> design[c].amount,
                   policy |-> (CHOOSE o \in B : o.type = "currency-policy-updater"
                                                  /\ o.currency = c).policy]
             [] OTHER -> design[c]
  BY Assumptions, W!PoolDesigns
<1> HIDE DEF B
<1> QED  BY <1>2, <1>3, <1>4, <1>5, <1>6, <1>7 DEF IsLedgerBlock

\* What a node's block says of the operations it lets in and of the states
\* after it.
Made(n, b) ==
    /\ LetsIn(n, b.ops)
    /\ Content(b) = BlockOf(cps[n], design, b.ops)
    /\ GoodAfter(b)
    /\ cps[n] = design => IsLedgerBlock(b)

\* Operations are good as long as the last block stays.
LEMMA GoodStays ==
    ASSUME NEW o, UNCHANGED ledger
    PROVE  L!Good(o)' <=> L!Good(o)
BY DEF ledger, L!Good, L!PaidFor, L!Approved, L!Exists, L!Registered, L!GoodReceiver, L!ChargeOf

\* So are the sums the same.
LEMMA SumsStay ==
    ASSUME NEW B, NEW a, NEW c, UNCHANGED ledger
    PROVE  /\ L!Received(B, a, c)' = L!Received(B, a, c)
           /\ L!Issued(B, a, c)' = L!Issued(B, a, c)
           /\ L!Paid(B, a, c)' = L!Paid(B, a, c)
           /\ L!Fees(B, a, c)' = L!Fees(B, a, c)
           /\ L!Compatible(B)' <=> L!Compatible(B)
BY DEF ledger, L!Paid, L!Fees, L!ChargeOf, L!Registered

\* What a block says holds as long as the pool, the last block and the proposal
\* stay.
LEMMA MadeStays ==
    ASSUME NEW n, NEW b, cps'[n] = cps[n], UNCHANGED <<ledger, proposal>>, Made(n, b)
    PROVE  Made(n, b)'
<1>1. LetsIn(n, b.ops)'
  <2>1. \A i : Fits(n, i, b.ops)' <=> Fits(n, i, b.ops)
    BY FitsStays
  <2> QED  BY <2>1 DEF Made, LetsIn
<1>2. (Content(b) = BlockOf(cps[n], design, b.ops))'
  BY DEF Made, ledger
<1>3. GoodAfter(b)'
  BY DEF Made, ledger, GoodAfter, AccountAfter, BalanceAfter, DesignAfter
<1>4. (cps[n] = design => IsLedgerBlock(b))'
  <2> SUFFICES ASSUME IsLedgerBlock(b)
               PROVE  IsLedgerBlock(b)'
    BY DEF Made, ledger
  <2>1. \A o \in b.ops : L!Good(o)'
    BY GoodStays DEF IsLedgerBlock
  <2>2. L!Compatible(b.ops)'
    BY SumsStay DEF IsLedgerBlock
  <2>3. UNCHANGED <<account, balance, design, committed>>
    BY DEF ledger
  <2> QED  BY <2>1, <2>2, <2>3, SumsStay DEF IsLedgerBlock
<1> QED  BY <1>1, <1>2, <1>3, <1>4 DEF Made

(***************************************************************************)
(* The invariant                                                           *)
(***************************************************************************)
\* The pools, hooks and blocks of each node.
Typed ==
    /\ cps \in [Nodes -> Designed]
    /\ hooks \in [Nodes -> BOOLEAN]
    /\ saveds \in [Nodes -> SUBSET Currencies]
    /\ blocks = [n \in Nodes |-> blocks[n]]
    /\ worker \in Nodes \cup {Nobody}

\* What holds of the processors of the node that is working.
Busy ==
    /\ proposal # <<>>
    /\ ~hooks[worker]
    /\ W!BInv /\ W!WritesStand /\ W!PoolIsSum
    /\ TouchedBySome
    /\ InOrder(worker)

\* What holds of a node that has made a block: it waits, and its pool, which
\* no hook is to change, is the one it made the block with.
Waits(n) ==
    /\ proposal # <<>>
    /\ worker # n
    /\ ~hooks[n]
    /\ Made(n, blocks[n])

\* The bound on the pools that are behind the blocks.
FewAreStale == Cardinality({n \in Nodes : Stale(n)}) =< MaxStale

\* The inductive invariant: what the blocks, the pools, the node that works and
\* the nodes that wait have to do with one another.
NodesInv ==
    /\ Typed
    /\ LedgerInv
    /\ ProposalInv
    /\ \A n \in Nodes : PoolInv(n)
    /\ worker = Nobody => Fresh
    /\ worker \in Nodes => Busy
    /\ \A n \in Nodes : blocks[n] # NoBlock => Waits(n)
    /\ FewAreStale

\* There is a node.
LEMMA NodesAreSome == \E n : n \in Nodes
<1>1. Nodes # {}
  BY ThresholdAssumption, FS_EmptySet
<1> QED  BY <1>1

\* The same processors in the same surroundings are as busy as they were.
LEMMA BusyStays ==
    ASSUME worker \in Nodes, Busy, UNCHANGED <<ledger, proposal, worker, working>>,
           UNCHANGED <<cps[worker], hooks[worker], saveds[worker]>>
    PROVE  Busy'
<1> USE DEF working, changes
<1>1. UNCHANGED W!vars
  BY DEF ledger, W!vars, W!ledger, W!pool, W!tables, W!changes
<1>2. W!BInv' /\ W!WritesStand' /\ W!PoolIsSum'
  <2>1. W!IInv /\ W!PoolIsOfProposal
    BY DEF Busy, W!BInv
  <2> QED  BY <1>1, <2>1, Assumptions, W!BlocksStep, W!StandsStep, W!SumsStep DEF Busy
<1>3. W!Done' = W!Done /\ ByFees' = ByFees /\ ByDone' = ByDone
  BY DEF W!Done, ByFees, ByDone, W!FeeReceiver
<1>4. TouchedBySome'
  BY <1>3 DEF Busy, TouchedBySome
<1>5. \A o : Passes(worker, o)' <=> Passes(worker, o)
  BY PassesStays
<1>6. \A o : W!LetIn(o)' <=> W!LetIn(o)
  BY DEF W!LetIn
<1>7. \A i : PreProcessed(i)' <=> PreProcessed(i)
  BY DEF PreProcessed
<1>8. LetIns' = LetIns
  BY <1>6 DEF LetIns
<1>9. \A i : Fits(worker, i, LetIns)' <=> Fits(worker, i, LetIns)
  BY <1>5, <1>8 DEF Fits
<1>10. {i \in DOMAIN proposal : PreProcessed(i) /\ Passes(worker, proposal[i])}' =
       {i \in DOMAIN proposal : PreProcessed(i) /\ Passes(worker, proposal[i])}
  BY <1>5, <1>7
<1>11. {i \in DOMAIN proposal : W!LetIn(proposal[i])}' = {i \in DOMAIN proposal : W!LetIn(proposal[i])}
  BY <1>6
<1>12. InOrder(worker)'
  BY <1>6, <1>7, <1>9, <1>10, <1>11 DEF Busy, InOrder
<1> QED  BY <1>2, <1>4, <1>12 DEF Busy

\* A pool that is let alone stays as it is.
LEMMA PoolStays ==
    ASSUME NEW n, PoolInv(n), UNCHANGED <<account, design, cps[n], hooks[n], saveds[n]>>
    PROVE  PoolInv(n)'
BY DEF PoolInv, ReceiverIsIn

\* Pools fall behind only where a hook fails.
LEMMA StaleStays ==
    ASSUME FewAreStale, \A n \in Nodes : Stale(n)' => Stale(n)
    PROVE  FewAreStale'
<1> DEFINE S == {n \in Nodes : Stale(n)}
<1>1. IsFiniteSet(S) /\ S' \subseteq S
  BY ThresholdAssumption, FS_Subset
<1> HIDE DEF S
<1>2. IsFiniteSet(S') /\ Cardinality(S') =< Cardinality(S)
  BY <1>1, FS_Subset
<1>3. Cardinality(S) \in Nat /\ Cardinality(S') \in Nat /\ MaxStale \in Int
  BY <1>1, <1>2, ThresholdAssumption, FS_CardinalityType
<1>4. Cardinality(S) =< MaxStale
  BY DEF FewAreStale, S
<1>5. Cardinality(S') =< MaxStale
  BY <1>2, <1>3, <1>4
<1> QED  BY <1>5 DEF FewAreStale, S

\* The tables stay fresh when nobody works.
LEMMA FreshStays ==
    ASSUME Fresh, UNCHANGED working
    PROVE  Fresh'
BY DEF Fresh, working, changes

\* A dropped proposal leaves fresh tables.
LEMMA DroppedIsFresh ==
    ASSUME NEW n, P(n)!DropProposal
    PROVE  Fresh'
BY DEF Fresh, P!DropProposal, P!NoFee, P!NoDelta, P!NoNewAccounts, P!NoNewDesigns, P!NoCharge,
   NoCharge

\* The states of the last block stay good.
LEMMA LedgerStays == ASSUME LedgerInv, UNCHANGED ledger PROVE LedgerInv'
BY DEF LedgerInv, ledger, GoodLedger

\* A pool is behind the blocks as long as neither changes.
LEMMA StaleSame ==
    ASSUME NEW n, UNCHANGED <<design, cps[n], saveds[n]>>
    PROVE  Stale(n)' <=> Stale(n)
BY DEF Stale

\* The nodes start on the genesis block.
LEMMA NodesInit == Init => NodesInv
<1> SUFFICES ASSUME Init PROVE NodesInv
  OBVIOUS
<1>1. PICK n \in Nodes : P(n)!Init
  BY NodesAreSome DEF Init
<1>2. /\ account = [a \in Addresses |-> IF a = Genesis THEN KeysOf[Genesis] ELSE NoKeys]
      /\ design = GenesisDesigns
      /\ held = {<<Genesis, c>> : c \in {d \in Currencies : GenesisDesigns[d] # NoDesign}}
      /\ balance = [a \in Addresses |-> [c \in Currencies |->
                      IF <<a, c>> \in held THEN GenesisDesigns[c].amount ELSE 0]]
      /\ committed = {}
  BY <1>1 DEF P!Init, P!GenesisLedger, P!NoNewAccounts
<1>3. Fresh
  BY <1>1 DEF P!Init, P!FreshTables, Fresh, P!NoFee, P!NoDelta, P!NoNewAccounts,
     P!NoNewDesigns, P!NoCharge, NoCharge
<1>4. design \in Designed
  BY <1>2, GenesisAssumption DEF Designed
<1>5. KeysOf[Genesis] \in AccountKeys /\ KeysOf[Genesis] # NoKeys
  BY GenesisAssumption, KeysAssumption, NoValuesAssumption DEF AccountKeys
<1>6. \A c \in Currencies : ReceiverIsIn(account, design[c])
  BY <1>2, <1>4, <1>5, GenesisAssumption DEF ReceiverIsIn
<1>7. LedgerInv
  <2>1. account \in [Addresses -> AccountKeys \cup {NoKeys}]
    BY <1>2, <1>5
  <2>2. held \subseteq Addresses \X Currencies
    BY <1>2, GenesisAssumption
  <2>3. balance = [a \in Addresses |-> [c \in Currencies |->
                     IF a = Genesis THEN Supply(design[c]) ELSE 0]]
    <3>1. ASSUME NEW a \in Addresses, NEW c \in Currencies
          PROVE  <<a, c>> \in held <=> a = Genesis /\ design[c] # NoDesign
      BY <1>2
    <3>2. ASSUME NEW a \in Addresses, NEW c \in Currencies
          PROVE  balance[a][c] = IF a = Genesis THEN Supply(design[c]) ELSE 0
      BY <1>2, <3>1 DEF Supply
    <3> QED  BY <1>2, <3>2
  <2>4. \A c \in Currencies : Supply(design[c]) \in Nat
    BY <1>4 DEF Supply, Designs, Designed
  <2>5. balance \in [Addresses -> [Currencies -> Nat]]
    BY <2>3, <2>4
  <2>6. \A a \in Addresses, c \in Currencies :
          IF <<a, c>> \in held THEN account[a] # NoKeys /\ design[c] # NoDesign ELSE balance[a][c] = 0
    BY <1>2, <1>5
  <2>7. ASSUME NEW c \in Currencies
        PROVE  Total([a \in Addresses |-> balance[a][c]]) = Supply(design[c])
    <3> DEFINE k == Supply(design[c])
               f == [a \in Addresses |-> balance[a][c]]
    <3>1. k \in Nat /\ f = [a \in Addresses |-> IF a = Genesis THEN k ELSE 0]
      BY <2>3, <2>4
    <3> HIDE DEF k, f
    <3>2. W!Total(f) = k
      BY <3>1, Assumptions, GenesisAssumption, SetsAssumption, SameFinite, W!TotalSingle
    <3>3. Total(f) = k
      BY <3>2, SameTotal
    <3> QED  BY <3>3 DEF k, f
  <2> QED  BY <1>2, <1>4, <1>6, <2>1, <2>2, <2>5, <2>6, <2>7 DEF LedgerInv, GoodLedger
<1>8. \A m \in Nodes : cps[m] = design /\ hooks[m] = FALSE /\ saveds[m] = {} /\ blocks[m] = NoBlock
  BY <1>2 DEF Init
<1>9. \A m \in Nodes : PoolInv(m)
  BY <1>4, <1>6, <1>8 DEF PoolInv
<1>10. Typed
  BY <1>4, <1>2 DEF Init, Typed
<1>11. FewAreStale
  <2>1. {m \in Nodes : Stale(m)} = {}
    BY <1>8 DEF Stale
  <2>2. Cardinality({m \in Nodes : Stale(m)}) = 0
    BY <2>1, FS_EmptySet
  <2> QED  BY <2>2, ThresholdAssumption DEF FewAreStale
<1>12. ProposalInv /\ worker \notin Nodes
  BY ThresholdAssumption DEF Init, ProposalInv
<1> QED  BY <1>3, <1>7, <1>8, <1>9, <1>10, <1>11, <1>12 DEF NodesInv

\* A proposal comes.
LEMMA StepPropose ==
    ASSUME NodesInv, NEW s \in Proposals, Propose(s)
    PROVE  NodesInv'
<1>1. PICK k \in 0..MaxProposalOps : s \in [1..k -> Ops \ committed]
  BY DEF Proposals, SeqOf
<1>2. k \in Nat \ {0}
  <2>1. CASE k = 0
    BY <1>1, <2>1, SeqDef, EmptySeq DEF Proposals
  <2> QED  BY <2>1, OpsAssumption
<1>3. ProposalInv'
  BY <1>1, <1>2 DEF Propose, ledger, ProposalInv, Proposals, IsInjective
<1>4. UNCHANGED <<ledger, pools, blocks, worker, working>> /\ proposal = <<>>
  BY DEF Propose
<1>5. Typed' /\ LedgerInv' /\ (worker' = Nobody => Fresh') /\ worker' \notin Nodes
      /\ \A n \in Nodes : blocks'[n] = NoBlock
  BY <1>4, LedgerStays, FreshStays DEF NodesInv, Typed, pools, Busy, Waits
<1>6. \A n \in Nodes : PoolInv(n)'
  BY <1>4, PoolStays DEF NodesInv, pools, ledger
<1>7. FewAreStale'
  BY <1>4, StaleSame, StaleStays DEF NodesInv, pools, ledger
<1> QED  BY <1>3, <1>5, <1>6, <1>7 DEF NodesInv

\* A node begins with the tables fresh.
Starting ==
    /\ worker \in Nodes /\ proposal # <<>>
    /\ ToSet(proposal) \subseteq Ops \ committed /\ ToSet(proposal) # {}
    /\ Fresh /\ LedgerInv /\ PoolInv(worker) /\ ~hooks[worker]

\* Its processors then keep their own invariants.
Going == W!BInv /\ W!WritesStand /\ W!PoolIsSum

\* The same of the next state.
LEMMA StartedNext == Starting' => Going'
<1>1. Starting => Going
  BY Started DEF Starting, Going
<1> QED  BY <1>1, PTL

\* A node that has made a block waits while the others go on.
LEMMA WaitsStays ==
    ASSUME NEW n, Waits(n), worker' # n, hooks'[n] = hooks[n], blocks'[n] = blocks[n],
           cps'[n] = cps[n], UNCHANGED <<ledger, proposal>>
    PROVE  Waits(n)'
<1>1. Made(n, blocks[n])
  BY DEF Waits
<1>2. Made(n, blocks[n])'
  <2> DEFINE b == blocks[n]
  <2>1. b' = b
    OBVIOUS
  <2> HIDE DEF b
  <2>2. ASSUME NEW x, Made(n, x) PROVE Made(n, x)'
    BY <2>2, MadeStays
  <2> QED  BY <1>1, <2>1, <2>2 DEF b
<1> QED  BY <1>2 DEF Waits

\* A node begins with the proposal.
LEMMA StepBegin ==
    ASSUME NodesInv, NEW n \in Nodes, Begin(n)
    PROVE  NodesInv'
<1>1. /\ proposal # <<>> /\ worker = Nobody /\ blocks[n] = NoBlock /\ worker' = n
      /\ UNCHANGED <<pools, blocks, proposal>>
      /\ UNCHANGED <<ledger, working>> /\ ~hooks[n]
  BY DEF Begin, P!NewProposal, P!ledger, P!pool, P!tables, P!changes, ledger, working, changes
<1>2. Fresh' /\ LedgerInv' /\ ProposalInv' /\ \A m \in Nodes : PoolInv(m)'
  BY <1>1, FreshStays, LedgerStays, PoolStays DEF NodesInv, pools, ledger, ProposalInv
<1>3. ToSet(proposal) \subseteq Ops \ committed /\ ToSet(proposal) # {}
  BY <1>1, ProposalFacts DEF NodesInv
<1>4. Starting'
  BY <1>1, <1>2, <1>3 DEF Starting, pools, ledger
<1>5. W!BInv' /\ W!WritesStand' /\ W!PoolIsSum'
  BY <1>4, StartedNext DEF Going
<1>6. \A o \in Ops : status'[o] = "proposed"
  BY <1>2 DEF Fresh
<1>7. TouchedBySome'
  <2>1. W!Done' = {}
    BY <1>6 DEF W!Done
  <2> QED  BY <1>2, <2>1 DEF Fresh, TouchedBySome, ByDone
<1>8. InOrder(n)'
  <2>1. \A i \in DOMAIN proposal : status'[proposal[i]] = "proposed" /\ ~PreProcessed(i)' /\ ~W!LetIn(proposal[i])'
    BY <1>1, <1>6, ProposalFacts DEF NodesInv, PreProcessed, W!LetIn
  <2>2. {i \in DOMAIN proposal : PreProcessed(i) /\ Passes(n, proposal[i])}' = {}
    BY <1>1, <2>1
  <2>3. {i \in DOMAIN proposal : W!LetIn(proposal[i])}' = {}
    BY <1>1, <2>1
  <2> QED  BY <1>1, <1>2, <2>1, <2>2, <2>3 DEF Fresh, InOrder
<1>9. Busy'
  BY <1>1, <1>5, <1>7, <1>8 DEF Busy, pools
<1>10. \A m \in Nodes : blocks'[m] # NoBlock => Waits(m)'
  BY <1>1, WaitsStays DEF NodesInv, pools
<1>11. Typed' /\ FewAreStale'
  BY <1>1, StaleSame, StaleStays DEF NodesInv, Typed, pools, ledger
<1>12. n # Nobody
  BY ThresholdAssumption
<1> QED  BY <1>1, <1>2, <1>9, <1>10, <1>11, <1>12 DEF NodesInv

\* A node works at the proposal.
LEMMA StepWork ==
    ASSUME NodesInv, NEW n \in Nodes, Work(n)
    PROVE  NodesInv'
<1>1. worker = n /\ UNCHANGED <<pools, blocks, proposal, worker>>
  BY DEF Work
<1>2. Busy /\ ProposalInv
  BY <1>1 DEF NodesInv
<1>3. W!Next
  BY <1>2, ProposalFacts, WorkIsNext DEF Busy
<1>4. UNCHANGED ledger
  BY <1>1 DEF Work, PreProcess, ledger, P!ledger, P!Validate, P!Invalidate,
     P!CheckDuplication, P!Process, P!Close
<1>5. W!BInv' /\ W!WritesStand' /\ W!PoolIsSum'
  <2>1. W!IInv /\ W!PoolIsOfProposal
    BY <1>2 DEF Busy, W!BInv
  <2> QED  BY <1>2, <1>3, <2>1, Assumptions, W!BlocksStep, W!StandsStep, W!SumsStep DEF Busy
<1>6. InOrder(n)' /\ TouchedBySome'
  BY <1>1, <1>2, OrderStep, TouchedStep DEF Busy, W!BInv
<1>7. Busy'
  BY <1>1, <1>2, <1>5, <1>6 DEF Busy, pools
<1>8. LedgerInv' /\ ProposalInv' /\ \A m \in Nodes : PoolInv(m)'
  BY <1>1, <1>4, LedgerStays, PoolStays DEF NodesInv, pools, ledger, ProposalInv
<1>9. \A m \in Nodes : blocks'[m] # NoBlock => Waits(m)'
  BY <1>1, <1>4, WaitsStays DEF NodesInv, Waits, pools
<1>10. Typed' /\ FewAreStale'
  BY <1>1, <1>4, StaleSame, StaleStays DEF NodesInv, Typed, pools, ledger
<1>11. worker' # Nobody
  BY <1>1, ThresholdAssumption
<1> QED  BY <1>7, <1>8, <1>9, <1>10, <1>11 DEF NodesInv

\* A node has made its block.
LEMMA StepMakeBlock ==
    ASSUME NodesInv, NEW n \in Nodes, MakeBlock(n)
    PROVE  NodesInv'
<1>1. /\ worker = n /\ closed /\ worker' = Nobody
      /\ UNCHANGED <<ledger, pools, proposal>> /\ P(n)!DropProposal
  BY DEF MakeBlock
<1>2. PICK fees \in FeeFacts : blocks' = [blocks EXCEPT ![n] = Block(fees)]
  BY DEF MakeBlock
<1>3. Busy /\ ProposalInv /\ LedgerInv
  BY <1>1 DEF NodesInv
<1> DEFINE b == Block(fees)
<1>4. /\ b.ops = {o \in ToSet(proposal) : status[o] = "processed"}
      /\ W!IInv /\ W!AllDone
  BY <1>1, <1>3 DEF Block, Busy, W!BInv, W!PoolIsOfProposal
<1>5. LetsIn(n, b.ops) /\ b.ops = W!Done
  BY <1>1, <1>3, <1>4, DoneIsLetIn DEF Busy
<1>6. Content(b) = BlockOf(cps[n], design, b.ops)
  BY <1>1, <1>3, <1>5, MadeIsBlockOf DEF Busy
<1>7. GoodAfter(b)
  BY <1>1, <1>3, MadeIsGood DEF Busy
<1>8. cps[n] = design => IsLedgerBlock(b)
  BY <1>1, <1>3, MadeIsLedgerBlock DEF Busy
<1> HIDE DEF b
<1>9. Made(n, b)
  BY <1>5, <1>6, <1>7, <1>8 DEF Made
<1>10. PICK x : x = b /\ Made(n, x)
  BY <1>9
<1>11. blocks'[n] = x /\ \A m \in Nodes : m # n => blocks'[m] = blocks[m]
  BY <1>2, <1>10 DEF NodesInv, Typed, b
<1>12. \A m \in Nodes : m # Nobody
  BY ThresholdAssumption
<1>13. Waits(n)'
  <2>1. Made(n, x)'
    BY <1>1, <1>10, MadeStays DEF pools
  <2> DEFINE y == blocks[n]
  <2>2. y' = x
    BY <1>11
  <2> HIDE DEF y
  <2>3. Made(n, y)'
    BY <2>1, <2>2
  <2> QED  BY <1>1, <1>3, <1>12, <2>3 DEF Waits, Busy, pools, y
<1>14. \A m \in Nodes : blocks'[m] # NoBlock => Waits(m)'
  BY <1>1, <1>11, <1>12, <1>13, WaitsStays DEF NodesInv, pools
<1>15. Fresh' /\ worker' \notin Nodes
  BY <1>1, ThresholdAssumption, DroppedIsFresh
<1>16. LedgerInv' /\ ProposalInv' /\ \A m \in Nodes : PoolInv(m)'
  BY <1>1, LedgerStays, PoolStays DEF NodesInv, pools, ledger, ProposalInv
<1>17. Typed' /\ FewAreStale'
  <2>1. blocks' = [m \in Nodes |-> blocks'[m]]
    BY <1>2 DEF NodesInv, Typed
  <2> QED  BY <1>1, <2>1, StaleSame, StaleStays DEF NodesInv, Typed, pools, ledger
<1> QED  BY <1>14, <1>15, <1>16, <1>17 DEF NodesInv

\* A round ends without a block.
LEMMA RoundIsOver ==
    ASSUME NodesInv, NextRound, UNCHANGED pools, Fresh', LedgerInv', \A n \in Nodes : PoolInv(n)',
           FewAreStale'
    PROVE  NodesInv'
<1>1. proposal' = <<>> /\ worker' = Nobody /\ blocks' = [n \in Nodes |-> NoBlock] /\ Nobody \notin Nodes
  BY ThresholdAssumption DEF NextRound
<1>2. Typed' /\ ProposalInv'
  BY <1>1 DEF NodesInv, Typed, pools, ProposalInv
<1>3. \A n \in Nodes : blocks'[n] = NoBlock
  BY <1>1
<1> QED  BY <1>1, <1>2, <1>3 DEF NodesInv

\* A block is saved: its hooks are to run on the designs it set.
LEMMA StepSaveBlock ==
    ASSUME NodesInv, NEW n \in Nodes, SaveBlock(blocks[n])
    PROVE  NodesInv'
<1> DEFINE b == blocks[n]
<1>1. b # NoBlock /\ worker = Nobody /\ UNCHANGED <<cps, working>>
  BY DEF SaveBlock
<1>2. Made(n, b) /\ Fresh
  BY <1>1 DEF NodesInv, Waits
<1>3. /\ account' = AccountAfter(b) /\ held' = held \cup b.touched /\ balance' = BalanceAfter(b)
      /\ design' = DesignAfter(b) /\ committed' = committed \cup b.ops
  BY DEF SaveBlock, AccountAfter, BalanceAfter, DesignAfter
<1>4. /\ hooks' = [m \in Nodes |-> TRUE]
      /\ saveds' = [m \in Nodes |-> saveds[m] \cup {c \in Currencies : b.newDesign[c] # NoDesign}]
      /\ proposal' = <<>> /\ worker' = Nobody /\ blocks' = [m \in Nodes |-> NoBlock]
  BY DEF SaveBlock, NextRound
<1> HIDE DEF b
<1>5. LedgerInv'
  BY <1>2, <1>3 DEF Made, GoodAfter, LedgerInv, GoodLedger
<1>6. Fresh'
  BY <1>1, <1>2, FreshStays
<1>7. \A a \in Addresses : account[a] # NoKeys => account'[a] # NoKeys
  BY <1>3 DEF AccountAfter
<1>8. \A c \in Currencies : design[c] # NoDesign => design'[c] # NoDesign
  BY <1>3 DEF DesignAfter
<1>9. ASSUME NEW m \in Nodes
      PROVE  PoolInv(m)'
  <2>1. PoolInv(m) /\ cps' = cps
    BY <1>1 DEF NodesInv
  <2>2. hooks'[m] = TRUE /\ saveds'[m] \subseteq Currencies
    BY <1>4, <2>1 DEF PoolInv
  <2>3. \A c \in Currencies : ReceiverIsIn(account', cps[m][c])
    BY <1>7, <2>1, ReceiverIsKnown DEF PoolInv, ReceiverIsIn, Designed
  <2> QED  BY <1>8, <2>1, <2>2, <2>3 DEF PoolInv
<1>10. Typed'
  <2>1. saveds' \in [Nodes -> SUBSET Currencies]
    BY <1>4 DEF NodesInv, Typed
  <2> QED  BY <1>1, <1>4, <2>1 DEF NodesInv, Typed
<1>11. FewAreStale'
  <2>1. ASSUME NEW m \in Nodes, Stale(m)' PROVE Stale(m)
    <3>1. PICK c \in Currencies : cps[m][c] # design'[c] /\ c \notin saveds'[m]
      BY <1>1, <2>1 DEF Stale
    <3>2. design'[c] = design[c] /\ c \notin saveds[m]
      BY <1>3, <1>4, <3>1 DEF DesignAfter
    <3> QED  BY <3>1, <3>2 DEF Stale
  <2> QED  BY <2>1, StaleStays DEF NodesInv
<1>12. Nobody \notin Nodes /\ ProposalInv' /\ \A m \in Nodes : blocks'[m] = NoBlock
  BY <1>4, ThresholdAssumption DEF ProposalInv
<1> QED  BY <1>4, <1>5, <1>6, <1>9, <1>10, <1>11, <1>12 DEF NodesInv

\* Consensus goes another way.
LEMMA StepCancel ==
    ASSUME NodesInv, Cancel
    PROVE  NodesInv'
<1>1. NextRound /\ UNCHANGED <<ledger, pools>> /\ \A n \in Nodes : P(n)!DropProposal
  BY DEF Cancel
<1>2. Fresh'
  BY <1>1, NodesAreSome, DroppedIsFresh
<1>3. LedgerInv' /\ (\A n \in Nodes : PoolInv(n)') /\ FewAreStale'
  BY <1>1, LedgerStays, PoolStays, StaleSame, StaleStays DEF NodesInv, pools, ledger
<1> QED  BY <1>1, <1>2, <1>3, RoundIsOver

\* What a hook or a start does to the pools.
LEMMA LoadedPools ==
    ASSUME Typed, LedgerInv, \A m \in Nodes : PoolInv(m), UNCHANGED ledger,
           NEW n \in Nodes, NEW S \in SUBSET Currencies, Load(n, S)
    PROVE  /\ cps' \in [Nodes -> Designed] /\ hooks' \in [Nodes -> BOOLEAN]
           /\ saveds' \in [Nodes -> SUBSET Currencies]
           /\ \A m \in Nodes : PoolInv(m)'
           /\ \A m \in Nodes \ {n} : UNCHANGED <<cps[m], hooks[m], saveds[m]>>
           /\ \A c \in Currencies : cps'[n][c] = IF c \in S THEN design[c] ELSE cps[n][c]
           /\ saveds'[n] = {}
<1> DEFINE d == [c \in Currencies |-> IF c \in S THEN design[c] ELSE cps[n][c]]
<1>1. /\ cps' = [cps EXCEPT ![n] = d] /\ hooks' = [hooks EXCEPT ![n] = FALSE]
      /\ saveds' = [saveds EXCEPT ![n] = {}]
  BY DEF Load
<1>2. d \in Designed
  BY DEF Typed, LedgerInv, GoodLedger, Designed
<1>3. \A c \in Currencies : d[c] = IF c \in S THEN design[c] ELSE cps[n][c]
  OBVIOUS
<1> HIDE DEF d
<1>4. /\ cps' \in [Nodes -> Designed] /\ hooks' \in [Nodes -> BOOLEAN]
      /\ saveds' \in [Nodes -> SUBSET Currencies]
      /\ \A m \in Nodes \ {n} : UNCHANGED <<cps[m], hooks[m], saveds[m]>>
      /\ cps'[n] = d /\ hooks'[n] = FALSE /\ saveds'[n] = {}
  BY <1>1, <1>2 DEF Typed
<1>5. PoolInv(n)'
  <2>1. \A c \in Currencies : ReceiverIsIn(account, d[c])
    BY <1>3 DEF PoolInv, LedgerInv, GoodLedger
  <2>2. \A c \in Currencies : d[c] # NoDesign => design[c] # NoDesign
    BY <1>3 DEF PoolInv
  <2> QED  BY <1>2, <1>4, <2>1, <2>2 DEF PoolInv, ledger
<1>6. \A m \in Nodes : PoolInv(m)'
  BY <1>4, <1>5, PoolStays DEF ledger
<1> QED  BY <1>3, <1>4, <1>6

\* A hook runs, and may fail.
LEMMA StepHook ==
    ASSUME NodesInv, NEW n \in Nodes, WhenBlockSaved(n)
    PROVE  NodesInv'
<1>1. hooks[n] /\ UNCHANGED <<ledger, blocks, proposal, worker, working>>
  BY DEF WhenBlockSaved
<1>2. PICK S \in SUBSET saveds[n] :
         /\ Load(n, S)
         /\ S # saveds[n] => Cardinality({m \in Nodes : Stale(m)'}) =< MaxStale
  BY DEF WhenBlockSaved
<1>3. S \in SUBSET Currencies
  BY DEF NodesInv, Typed
<1>4. /\ cps' \in [Nodes -> Designed] /\ hooks' \in [Nodes -> BOOLEAN]
      /\ saveds' \in [Nodes -> SUBSET Currencies]
      /\ \A m \in Nodes : PoolInv(m)'
      /\ \A m \in Nodes \ {n} : UNCHANGED <<cps[m], hooks[m], saveds[m]>>
      /\ \A c \in Currencies : cps'[n][c] = IF c \in S THEN design[c] ELSE cps[n][c]
      /\ saveds'[n] = {}
  BY <1>1, <1>2, <1>3, LoadedPools DEF NodesInv
<1>5. Typed' /\ LedgerInv' /\ ProposalInv' /\ (worker' = Nobody => Fresh')
  BY <1>1, <1>4, LedgerStays, FreshStays DEF NodesInv, Typed, ProposalInv, ledger
<1>6. worker' \in Nodes => Busy'
  <2> SUFFICES ASSUME worker \in Nodes PROVE Busy'
    BY <1>1
  <2>1. worker \in Nodes \ {n} /\ Busy
    BY <1>1 DEF NodesInv, Busy
  <2> QED  BY <1>1, <1>4, <2>1, BusyStays
<1>7. \A m \in Nodes : blocks'[m] # NoBlock => Waits(m)'
  <2> SUFFICES ASSUME NEW m \in Nodes, blocks'[m] # NoBlock PROVE Waits(m)'
    OBVIOUS
  <2>1. Waits(m) /\ m # n
    BY <1>1 DEF NodesInv, Waits
  <2>2. worker' # m
    BY <1>1, <2>1 DEF Waits
  <2> QED  BY <1>1, <1>4, <2>1, <2>2, WaitsStays
<1>8. FewAreStale'
  <2>1. CASE S # saveds[n]
    BY <1>2, <2>1 DEF FewAreStale
  <2>2. CASE S = saveds[n]
    <3>1. Stale(n)' => Stale(n)
      BY <1>1, <1>4, <2>2 DEF Stale, ledger
    <3>2. \A m \in Nodes \ {n} : Stale(m)' => Stale(m)
      BY <1>1, <1>4, StaleSame DEF ledger
    <3> QED  BY <3>1, <3>2, StaleStays DEF NodesInv
  <2> QED  BY <2>1, <2>2
<1> QED  BY <1>4, <1>5, <1>6, <1>7, <1>8 DEF NodesInv

\* A node starts again, wherever it stopped.
LEMMA StepRestart ==
    ASSUME NodesInv, NEW n \in Nodes, Restart(n)
    PROVE  NodesInv'
<1>1. /\ Load(n, Currencies) /\ blocks' = [blocks EXCEPT ![n] = NoBlock]
      /\ UNCHANGED <<ledger, proposal>>
      /\ \/ worker = n /\ worker' = Nobody /\ P(n)!DropProposal
         \/ worker # n /\ UNCHANGED <<worker, working>>
  BY DEF Restart
<1>2. /\ cps' \in [Nodes -> Designed] /\ hooks' \in [Nodes -> BOOLEAN]
      /\ saveds' \in [Nodes -> SUBSET Currencies]
      /\ \A m \in Nodes : PoolInv(m)'
      /\ \A m \in Nodes \ {n} : UNCHANGED <<cps[m], hooks[m], saveds[m]>>
      /\ \A c \in Currencies : cps'[n][c] = design[c]
      /\ saveds'[n] = {}
  BY <1>1, LoadedPools DEF NodesInv
<1>3. blocks'[n] = NoBlock /\ \A m \in Nodes \ {n} : blocks'[m] = blocks[m]
  BY <1>1 DEF NodesInv, Typed
<1>4. Typed'
  <2>1. blocks' = [m \in Nodes |-> blocks'[m]]
    BY <1>1 DEF NodesInv, Typed
  <2> QED  BY <1>1, <1>2, <2>1 DEF NodesInv, Typed
<1>5. LedgerInv' /\ ProposalInv'
  BY <1>1, LedgerStays DEF NodesInv, ProposalInv, ledger
<1>6. Nobody \notin Nodes
  BY ThresholdAssumption
<1>7. worker' = Nobody => Fresh'
  BY <1>1, FreshStays, DroppedIsFresh DEF NodesInv
<1>8. worker' \in Nodes => Busy'
  <2> SUFFICES ASSUME worker' \in Nodes PROVE Busy'
    OBVIOUS
  <2>1. worker \in Nodes \ {n} /\ UNCHANGED <<worker, working>> /\ Busy
    BY <1>1, <1>6 DEF NodesInv
  <2> QED  BY <1>1, <1>2, <2>1, BusyStays
<1>9. \A m \in Nodes : blocks'[m] # NoBlock => Waits(m)'
  <2> SUFFICES ASSUME NEW m \in Nodes, blocks'[m] # NoBlock PROVE Waits(m)'
    OBVIOUS
  <2>1. m \in Nodes \ {n} /\ Waits(m)
    BY <1>3 DEF NodesInv
  <2>2. worker' # m
    BY <1>1, <1>6, <2>1 DEF Waits
  <2> QED  BY <1>1, <1>2, <1>3, <2>1, <2>2, WaitsStays
<1>10. FewAreStale'
  <2>1. ~Stale(n)'
    BY <1>1, <1>2 DEF Stale, ledger
  <2>2. \A m \in Nodes \ {n} : Stale(m)' => Stale(m)
    BY <1>1, <1>2, StaleSame DEF ledger
  <2> QED  BY <2>1, <2>2, StaleStays DEF NodesInv
<1> QED  BY <1>2, <1>4, <1>5, <1>7, <1>8, <1>9, <1>10 DEF NodesInv

\* Every step keeps the invariant.
LEMMA NodesStep == NodesInv /\ [Next]_vars => NodesInv'
<1> SUFFICES ASSUME NodesInv, [Next]_vars PROVE NodesInv'
  OBVIOUS
<1>1. CASE Next
  BY <1>1, StepPropose, StepBegin, StepWork, StepMakeBlock, StepSaveBlock, StepHook,
     StepRestart,
     StepCancel DEF Next
<1>2. CASE UNCHANGED vars
  <2>1. UNCHANGED <<ledger, pools, blocks, proposal, worker, working>>
    BY <1>2 DEF vars
  <2>2. Typed' /\ LedgerInv' /\ ProposalInv' /\ (worker' = Nobody => Fresh')
    BY <2>1, LedgerStays, FreshStays DEF NodesInv, Typed, ProposalInv, ledger, pools
  <2>3. (\A n \in Nodes : PoolInv(n)') /\ FewAreStale'
    BY <2>1, PoolStays, StaleSame, StaleStays DEF NodesInv, ledger, pools
  <2>4. worker' \in Nodes => Busy'
    BY <2>1, BusyStays DEF NodesInv, pools
  <2>5. \A n \in Nodes : blocks'[n] # NoBlock => Waits(n)'
    BY <2>1, WaitsStays DEF NodesInv, Waits, pools
  <2> QED  BY <2>2, <2>3, <2>4, <2>5 DEF NodesInv
<1> QED  BY <1>1, <1>2

\* However the nodes take their turns, hooks fail and nodes start again: the
\* states of the blocks are good (each currency's balances add up to its supply,
\* every balance has an owner, every fee receiver is an account), and a block that
\* a node has made and not saved lets in exactly the operations that fit its pool
\* and the order of the proposal.
THEOREM NodesInvariance == Spec => []NodesInv
  BY NodesInit, NodesStep, PTL DEF Spec

\* Nodes whose pools are the same make the same block of a proposal, up to the
\* order of the fees: whichever of two conflicting operations one lets in, the
\* others let in, though Process runs in any order and nodes stop and start again.
THEOREM NodesAgree == Spec => []SamePoolSameBlock
<1>1. NodesInv => SamePoolSameBlock
  <2> SUFFICES ASSUME NodesInv, NEW m \in Nodes, NEW n \in Nodes, cps[m] = cps[n],
                      blocks[m] # NoBlock, blocks[n] # NoBlock
               PROVE  Content(blocks[m]) = Content(blocks[n])
    BY DEF SamePoolSameBlock
  <2>1. Made(m, blocks[m]) /\ Made(n, blocks[n]) /\ ProposalInv /\ proposal # <<>>
    BY DEF NodesInv, Waits
  <2>2. blocks[m].ops = blocks[n].ops
    BY <2>1, SamePoolSamePasses, OneWay DEF Made
  <2> QED  BY <2>1, <2>2 DEF Made
<1> QED  BY <1>1, NodesInvariance, PTL

(***************************************************************************)
(* The chain is the abstract ledger                                        *)
(***************************************************************************)
LEMMA SomeVoterIsCurrent ==
    ASSUME NodesInv, NEW n \in Nodes, SaveBlock(blocks[n])
    PROVE  \E m \in Voters(blocks[n]) : cps[m] = design
<1> DEFINE V == Voters(blocks[n])
           S == {m \in Nodes : Stale(m)}
<1>1. blocks[n] # NoBlock /\ Cardinality(V) >= Threshold
  BY DEF SaveBlock
<1>2. IsFiniteSet(V) /\ IsFiniteSet(S) /\ V \subseteq Nodes
  BY ThresholdAssumption, FS_Subset DEF Voters
<1>3. Cardinality(S) =< MaxStale
  BY DEF NodesInv, FewAreStale
<1>4. ~(V \subseteq S)
  <2> HIDE DEF V, S
  <2>1. V \subseteq S => Cardinality(V) =< Cardinality(S)
    BY <1>2, FS_Subset
  <2>2. Cardinality(V) \in Nat /\ Cardinality(S) \in Nat /\ Threshold \in Int /\ MaxStale \in Int
        /\ MaxStale < Threshold
    <3>1. Cardinality(Nodes) \in Nat
      BY ThresholdAssumption, FS_CardinalityType
    <3> QED  BY <1>2, <3>1, ThresholdAssumption, FS_CardinalityType
  <2> QED  BY <1>1, <1>3, <2>1, <2>2
<1>5. PICK m \in V : m \in Nodes /\ ~Stale(m) /\ blocks[m] # NoBlock
  BY <1>1, <1>2, <1>4 DEF Voters
<1>6. saveds[m] = {} /\ cps[m] \in Designed /\ design \in Designed
  BY <1>5 DEF NodesInv, Waits, PoolInv, LedgerInv, GoodLedger
<1>7. \A c \in Currencies : cps[m][c] = design[c]
  BY <1>5, <1>6 DEF Stale
<1>8. cps[m] = design
  BY <1>6, <1>7 DEF Designed
<1> QED  BY <1>5, <1>8

\* A block of no operations changes nothing.
LEMMA EmptyBlock ==
    ASSUME NodesInv, NEW b, IsLedgerBlock(b), b.ops = {}
    PROVE  AccountAfter(b) = account /\ BalanceAfter(b) = balance /\ DesignAfter(b) = design
           /\ committed \cup b.ops = committed
<1>1. /\ account \in [Addresses -> AccountKeys \cup {NoKeys}]
      /\ balance \in [Addresses -> [Currencies -> Nat]]
      /\ design \in [Currencies -> Designs \cup {NoDesign}]
  BY DEF NodesInv, LedgerInv, GoodLedger, Designed
<1>2. AccountAfter(b) = account
  <2>1. \A a \in Addresses : (IF b.newAccount[a] # NoKeys THEN b.newAccount[a] ELSE account[a]) = account[a]
    BY DEF IsLedgerBlock
  <2> QED  BY <1>1, <2>1 DEF AccountAfter
<1>3. DesignAfter(b) = design
  <2>1. \A c \in Currencies : (IF b.newDesign[c] # NoDesign THEN b.newDesign[c] ELSE design[c]) = design[c]
    BY DEF IsLedgerBlock
  <2> QED  BY <1>1, <2>1 DEF DesignAfter
<1>4. BalanceAfter(b) = balance
  <2> SUFFICES ASSUME NEW a \in Addresses, NEW c \in Currencies
               PROVE  balance[a][c] + b.delta[a][c] = balance[a][c]
    BY <1>1 DEF BalanceAfter
  <2>1. L!Received({}, a, c) = 0 /\ L!Issued({}, a, c) = 0 /\ L!Fees({}, a, c) = 0 /\ L!Paid({}, a, c) = 0
    <3>1. \A f : DOMAIN f = {} => L!Total(f) = 0
      <4> SUFFICES ASSUME NEW f, DOMAIN f = {} PROVE L!Total(f) = 0
        OBVIOUS
      <4>1. Coins(f) = {}
        BY DEF Coins
      <4>2. Total(f) = 0
        BY <4>1, FS_EmptySet DEF Total
      <4> QED  BY <4>2, SameLedgerTotal
    <3>2. L!Received({}, a, c) = 0
      BY <3>1 DEF L!Received
    <3>3. L!Issued({}, a, c) = 0
      BY <3>1 DEF L!Issued
    <3>4. L!Fees({}, a, c) = 0
      BY <3>1 DEF L!Fees
    <3>5. L!Paid({}, a, c) = 0
      BY <3>1 DEF L!Paid
    <3> QED  BY <3>2, <3>3, <3>4, <3>5
  <2>2. balance[a][c] + b.delta[a][c] =
           balance[a][c] + L!Received(b.ops, a, c) + L!Issued(b.ops, a, c)
             + L!Fees(b.ops, a, c) - L!Paid(b.ops, a, c)
    BY DEF IsLedgerBlock
  <2> QED  BY <1>1, <2>1, <2>2
<1> QED  BY <1>2, <1>3, <1>4

\* The block that is saved is one of the abstract ledger.
LEMMA SaveIsLedgerBlock ==
    ASSUME NodesInv, NEW n \in Nodes, SaveBlock(blocks[n])
    PROVE  [L!Next]_(L!vars)
<1> DEFINE b == blocks[n]
<1>1. /\ account' = AccountAfter(b) /\ balance' = BalanceAfter(b)
      /\ design' = DesignAfter(b) /\ committed' = committed \cup b.ops
  BY DEF SaveBlock, AccountAfter, BalanceAfter, DesignAfter
<1>2. IsLedgerBlock(b)
  <2>1. PICK m \in Voters(b) : cps[m] = design
    BY SomeVoterIsCurrent
  <2>2. m \in Nodes /\ blocks[m] = b /\ b # NoBlock
    BY <2>1 DEF Voters, SaveBlock
  <2>3. Made(m, b)
    BY <2>2 DEF NodesInv, Waits
  <2> QED  BY <2>1, <2>3 DEF Made
<1> HIDE DEF b
<1>3. CASE b.ops = {}
  BY <1>1, <1>2, <1>3, EmptyBlock DEF L!vars
<1>4. CASE b.ops # {}
  <2>1. b.ops \in SUBSET (Ops \ committed)
    BY <1>2 DEF IsLedgerBlock
  <2>2. balance' = [a \in Addresses |-> [c \in Currencies |->
          balance[a][c] + L!Received(b.ops, a, c) + L!Issued(b.ops, a, c) + L!Fees(b.ops, a, c)
            - L!Paid(b.ops, a, c)]]
    BY <1>1, <1>2 DEF BalanceAfter, IsLedgerBlock
  <2>3. account' = [a \in Addresses |->
          CASE \E o \in b.ops : a \in L!Targets(o) -> KeysOf[a]
            [] \E o \in b.ops : o.type = "key-updater" /\ o.target = a ->
                 (CHOOSE o \in b.ops : o.type = "key-updater" /\ o.target = a).keys
            [] OTHER -> account[a]]
    BY <1>1, <1>2 DEF AccountAfter, IsLedgerBlock
  <2>4. design' = [c \in Currencies |->
          CASE \E o \in b.ops : o.type = "currency-register" /\ o.currency = c ->
                 (CHOOSE o \in b.ops : o.type = "currency-register" /\ o.currency = c).design
            [] \E o \in b.ops : o.type = "currency-policy-updater" /\ o.currency = c ->
                 [amount |-> design[c].amount,
                  policy |-> (CHOOSE o \in b.ops : o.type = "currency-policy-updater"
                                                 /\ o.currency = c).policy]
            [] OTHER -> design[c]]
    BY <1>1, <1>2 DEF DesignAfter, IsLedgerBlock
  <2>5. L!Block(b.ops)
    BY <1>1, <1>2, <2>2, <2>3, <2>4 DEF IsLedgerBlock, L!Block
  <2> QED  BY <1>4, <2>1, <2>5 DEF L!Next
<1> QED  BY <1>3, <1>4

\* Every step is one of the abstract ledger or changes none of its states.
LEMMA StepIsLedgerStep == NodesInv /\ [Next]_vars => [L!Next]_(L!vars)
<1> SUFFICES ASSUME NodesInv, [Next]_vars PROVE [L!Next]_(L!vars)
  OBVIOUS
<1>1. ASSUME UNCHANGED ledger PROVE [L!Next]_(L!vars)
  BY <1>1 DEF ledger, L!vars
<1>2. ASSUME NEW n \in Nodes, SaveBlock(blocks[n]) PROVE [L!Next]_(L!vars)
  BY <1>2, SaveIsLedgerBlock
<1>3. ASSUME NEW n \in Nodes, Begin(n) PROVE UNCHANGED ledger
  BY <1>3 DEF Begin, P!NewProposal, P!ledger, ledger
<1>4. ASSUME NEW n \in Nodes, Work(n) PROVE UNCHANGED ledger
  BY <1>4 DEF Work, PreProcess, ledger, P!ledger, P!Validate, P!Invalidate,
     P!CheckDuplication, P!Process, P!Close
<1>5. CASE Next
  BY <1>1, <1>2, <1>3, <1>4, <1>5 DEF Next, Propose, MakeBlock, WhenBlockSaved, Restart, Cancel
<1>6. CASE UNCHANGED vars
  BY <1>1, <1>6 DEF vars
<1> QED  BY <1>5, <1>6

\* The genesis block is where the abstract ledger starts.
LEMMA NodesLedgerInit == Init => L!Init
<1> SUFFICES ASSUME Init PROVE L!Init
  OBVIOUS
<1>1. PICK n \in Nodes : P(n)!Init
  BY NodesAreSome DEF Init
<1>2. /\ account = [a \in Addresses |-> IF a = Genesis THEN KeysOf[Genesis] ELSE NoKeys]
      /\ design = GenesisDesigns
      /\ held = {<<Genesis, c>> : c \in {d \in Currencies : GenesisDesigns[d] # NoDesign}}
      /\ balance = [a \in Addresses |-> [c \in Currencies |->
                      IF <<a, c>> \in held THEN GenesisDesigns[c].amount ELSE 0]]
      /\ committed = {}
  BY <1>1 DEF P!Init, P!GenesisLedger, P!NoNewAccounts
<1>3. account = [a \in Addresses |-> IF a = Genesis THEN KeysOf[a] ELSE NoKeys]
  BY <1>2
<1>4. \A a \in Addresses, c \in Currencies : <<a, c>> \in held <=> a = Genesis /\ design[c] # NoDesign
  BY <1>2
<1>5. balance = [a \in Addresses |-> [c \in Currencies |->
                    IF a = Genesis /\ design[c] # NoDesign THEN design[c].amount ELSE 0]]
  BY <1>2, <1>4
<1> QED  BY <1>2, <1>3, <1>5 DEF L!Init

\* The chain implements the abstract ledger though some pools are behind the
\* blocks: fewer are than make a block, so one of the nodes that made it had
\* checked and charged its operations by the policies of its parent.
THEOREM ChainIsTheLedger == Spec => ChainIsLedger
<1>1. NodesInv /\ [Next]_vars => [L!Next]_(L!vars)
  BY StepIsLedgerStep
<1> QED  BY <1>1, NodesLedgerInit, NodesInvariance, PTL DEF Spec, ChainIsLedger, L!Spec
=============================================================================
