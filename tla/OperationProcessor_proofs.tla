---------------------- MODULE OperationProcessor_proofs ----------------------
(***************************************************************************)
(* What holds of the operation processor for every set of accounts,        *)
(* currencies, policies and operations: types, and no overdraft.  Before   *)
(* it, facts about sums of natural numbers, each proved from the set of    *)
(* coins the sum counts.                                                   *)
(***************************************************************************)
EXTENDS OperationProcessor, FiniteSetTheorems, TLAPS

(***************************************************************************)
(* Sums                                                                    *)
(***************************************************************************)
\* What a coin is: a member of the family and a number up to its amount.
LEMMA CoinsMembers ==
    ASSUME NEW D, NEW f \in [D -> Nat]
    PROVE  \A p : p \in Coins(f) <=> \E x \in D : \E i \in 1..f[x] : p = <<x, i>>
PROOF
<1>1. DOMAIN f = D
  OBVIOUS
<1> TAKE p
<1>2. p \in Coins(f) <=> \E x \in D : p \in {x} \X (1..f[x])
  BY <1>1 DEF Coins
<1>3. \A x \in D : p \in {x} \X (1..f[x]) <=> \E i \in 1..f[x] : p = <<x, i>>
  OBVIOUS
<1> QED
  BY <1>2, <1>3

\* A finite family has finitely many coins.
LEMMA CoinsFinite ==
    ASSUME NEW D, IsFiniteSet(D), NEW f \in [D -> Nat]
    PROVE  IsFiniteSet(Coins(f))
PROOF
<1> DEFINE Of == [x \in D |-> {x} \X (1..f[x])]
           S  == {{x} \X (1..f[x]) : x \in D}
<1>1. Of \in Surjection(D, S)
  BY DEF Surjection
<1>2. IsFiniteSet(S)
  <2> HIDE DEF Of, S
  <2> QED
    BY <1>1, FS_Surjection
<1>3. ASSUME NEW T \in S
      PROVE  IsFiniteSet(T)
  <2>1. PICK x \in D : T = {x} \X (1..f[x])
    OBVIOUS
  <2>2. IsFiniteSet({x})
    BY FS_Singleton
  <2>3. f[x] \in Int /\ 1 \in Int
    OBVIOUS
  <2>4. IsFiniteSet(1..f[x])
    BY <2>3, FS_Interval
  <2> QED
    BY <2>1, <2>2, <2>4, FS_Product
<1>4. Coins(f) = UNION S
  BY DEF Coins
<1> QED
  <2> HIDE DEF Of, S
  <2> QED
    BY <1>2, <1>3, <1>4, FS_UNION

\* A sum of natural numbers is a natural number.
THEOREM TotalIsNat ==
    ASSUME NEW D, IsFiniteSet(D), NEW f \in [D -> Nat]
    PROVE  Total(f) \in Nat
PROOF
  BY CoinsFinite, FS_CardinalityType DEF Total

\* The sum of two families is the sum of their sums.
THEOREM TotalAdd ==
    ASSUME NEW D, IsFiniteSet(D), NEW f \in [D -> Nat], NEW g \in [D -> Nat]
    PROVE  Total([x \in D |-> f[x] + g[x]]) = Total(f) + Total(g)
PROOF
<1> DEFINE h == [x \in D |-> f[x] + g[x]]
           Above == {p \in Coins(h) : p \notin Coins(f)}
           Up == [p \in Coins(g) |-> <<p[1], f[p[1]] + p[2]>>]
<1>h. h \in [D -> Nat]
  OBVIOUS
<1>0. /\ IsFiniteSet(Coins(f)) /\ IsFiniteSet(Coins(g)) /\ IsFiniteSet(Coins(h))
  BY <1>h, CoinsFinite
<1>f. \A p : p \in Coins(f) <=> \E x \in D : \E i \in 1..f[x] : p = <<x, i>>
  BY CoinsMembers
<1>g. \A p : p \in Coins(g) <=> \E x \in D : \E i \in 1..g[x] : p = <<x, i>>
  BY CoinsMembers
<1>c. \A p : p \in Coins(h) <=> \E x \in D : \E i \in 1..(f[x] + g[x]) : p = <<x, i>>
  <2>1. \A p : p \in Coins(h) <=> \E x \in D : \E i \in 1..h[x] : p = <<x, i>>
    BY <1>h, CoinsMembers
  <2>2. \A x \in D : h[x] = f[x] + g[x]
    OBVIOUS
  <2> HIDE DEF h
  <2> QED
    BY <2>1, <2>2
<1> HIDE DEF h
<1>1. Coins(f) \subseteq Coins(h)
  BY <1>f, <1>c
<1>2. \A x \in D, i \in Nat : <<x, i>> \in Above <=> i \in (f[x] + 1)..(f[x] + g[x])
  BY <1>f, <1>c
<1>3. Up \in Bijection(Coins(g), Above)
  <2>1. \A x \in D : \A i \in 1..g[x] :
            <<x, i>> \in Coins(g) /\ Up[<<x, i>>] = <<x, f[x] + i>>
    BY <1>g
  <2>2. ASSUME NEW p \in Coins(g)
        PROVE  Up[p] \in Above
    <3>1. PICK x \in D : \E i \in 1..g[x] : p = <<x, i>>
      BY <1>g
    <3>2. PICK i \in 1..g[x] : p = <<x, i>>
      BY <3>1
    <3>3. f[x] + i \in Nat /\ f[x] + i \in (f[x] + 1)..(f[x] + g[x])
      OBVIOUS
    <3> HIDE DEF Up, Above
    <3> QED
      BY <3>2, <3>3, <2>1, <1>2
  <2>3. ASSUME NEW p \in Coins(g), NEW q \in Coins(g), Up[p] = Up[q]
        PROVE  p = q
    <3>1. PICK x \in D : \E i \in 1..g[x] : p = <<x, i>>
      BY <1>g
    <3>2. PICK i \in 1..g[x] : p = <<x, i>>
      BY <3>1
    <3>3. PICK y \in D : \E j \in 1..g[y] : q = <<y, j>>
      BY <1>g
    <3>4. PICK j \in 1..g[y] : q = <<y, j>>
      BY <3>3
    <3>5. <<x, f[x] + i>> = <<y, f[y] + j>>
      <4> HIDE DEF Up
      <4> QED
        BY <2>1, <2>3, <3>2, <3>4
    <3> QED
      BY <3>2, <3>4, <3>5
  <2>4. ASSUME NEW q \in Above
        PROVE  \E p \in Coins(g) : Up[p] = q
    <3>1. PICK x \in D : \E i \in 1..(f[x] + g[x]) : q = <<x, i>>
      BY <1>c
    <3>2. PICK i \in 1..(f[x] + g[x]) : q = <<x, i>>
      BY <3>1
    <3>3. i \in (f[x] + 1)..(f[x] + g[x])
      BY <3>2, <1>2
    <3>4. i - f[x] \in 1..g[x] /\ f[x] + (i - f[x]) = i
      BY <3>3
    <3> HIDE DEF Up
    <3> QED
      BY <3>2, <3>4, <2>1
  <2>5. Up \in [Coins(g) -> Above]
    <3> HIDE DEF Above
    <3>1. \A p \in Coins(g) : <<p[1], f[p[1]] + p[2]>> \in Above
      BY <2>2
    <3> QED
      BY <3>1
  <2> HIDE DEF Up, Above
  <2> QED
    BY <2>3, <2>4, <2>5 DEF Bijection, Injection, Surjection, IsInjective
<1>4. IsFiniteSet(Above) /\ Cardinality(Above) = Cardinality(Coins(g))
  <2> HIDE DEF Up, Above
  <2> QED
    BY <1>0, <1>3, FS_Bijection DEF ExistsBijection
<1>5. Coins(h) = Coins(f) \cup Above /\ Coins(f) \cap Above = {}
  BY <1>1
<1>6. Cardinality(Coins(h)) = Cardinality(Coins(f)) + Cardinality(Above) - 0
  <2> HIDE DEF Above
  <2> QED
    BY <1>0, <1>4, <1>5, FS_Union, FS_EmptySet
<1>7. Cardinality(Coins(f)) \in Nat /\ Cardinality(Coins(g)) \in Nat
  BY <1>0, FS_CardinalityType
<1> QED
  BY <1>4, <1>6, <1>7 DEF Total, h

\* The coins of one member: as many as its amount.
LEMMA CoinsOfOne ==
    ASSUME NEW x, NEW n \in Nat
    PROVE  IsFiniteSet({x} \X (1..n)) /\ Cardinality({x} \X (1..n)) = n
PROOF
<1>1. IsFiniteSet({x}) /\ Cardinality({x}) = 1
  BY FS_Singleton
<1>2. IsFiniteSet(1..n) /\ Cardinality(1..n) = IF 1 > n THEN 0 ELSE n - 1 + 1
  <2>1. 1 \in Int /\ n \in Int
    OBVIOUS
  <2> QED
    BY <2>1, FS_Interval
<1>3. Cardinality({x} \X (1..n)) = 1 * Cardinality(1..n) /\ IsFiniteSet({x} \X (1..n))
  BY <1>1, <1>2, FS_Product
<1> QED
  BY <1>2, <1>3

\* A sum of nothing but zeros is zero.
LEMMA TotalZero ==
    ASSUME NEW D, NEW f \in [D -> Nat], \A x \in D : f[x] = 0
    PROVE  Total(f) = 0
PROOF
<1>1. \A p : p \notin Coins(f)
  BY CoinsMembers
<1>2. Coins(f) = {}
  BY <1>1
<1> QED
  BY <1>2, FS_EmptySet DEF Total

\* One more member adds its amount to the sum.
THEOREM TotalExtend ==
    ASSUME NEW D, IsFiniteSet(D), NEW x, x \notin D, NEW f \in [D \cup {x} -> Nat]
    PROVE  Total(f) = Total([y \in D |-> f[y]]) + f[x]
PROOF
<1> DEFINE g == [y \in D |-> f[y]]
           Own == {x} \X (1..f[x])
<1>1. g \in [D -> Nat] /\ f[x] \in Nat
  OBVIOUS
<1>2. \A p : p \in Coins(f) <=> \E y \in D \cup {x} : \E i \in 1..f[y] : p = <<y, i>>
  BY CoinsMembers
<1>3. \A p : p \in Coins(g) <=> \E y \in D : \E i \in 1..f[y] : p = <<y, i>>
  <2>1. \A p : p \in Coins(g) <=> \E y \in D : \E i \in 1..g[y] : p = <<y, i>>
    BY <1>1, CoinsMembers
  <2>2. \A y \in D : g[y] = f[y]
    OBVIOUS
  <2> HIDE DEF g
  <2> QED
    BY <2>1, <2>2
<1>4. \A p : p \in Own <=> \E i \in 1..f[x] : p = <<x, i>>
  OBVIOUS
<1>5. IsFiniteSet(Own) /\ Cardinality(Own) = f[x]
  BY <1>1, CoinsOfOne
<1>6. IsFiniteSet(Coins(g))
  BY <1>1, CoinsFinite
<1> HIDE DEF g, Own
<1>7. Coins(f) = Coins(g) \cup Own /\ Coins(g) \cap Own = {}
  BY <1>2, <1>3, <1>4
<1>8. Cardinality(Coins(f)) = Cardinality(Coins(g)) + Cardinality(Own) - 0
  BY <1>5, <1>6, <1>7, FS_Union, FS_EmptySet
<1>9. Cardinality(Coins(g)) \in Nat
  BY <1>6, FS_CardinalityType
<1> QED
  BY <1>1, <1>5, <1>8, <1>9 DEF Total, g

\* A family that is zero but at one member has that member's amount as its sum.
LEMMA TotalSingle ==
    ASSUME NEW D, IsFiniteSet(D), NEW x \in D, NEW n \in Nat
    PROVE  Total([y \in D |-> IF y = x THEN n ELSE 0]) = n
PROOF
<1> DEFINE f == [y \in D |-> IF y = x THEN n ELSE 0]
           E == D \ {x}
           g == [y \in E |-> f[y]]
<1>1. IsFiniteSet(E) /\ x \notin E /\ E \cup {x} = D
  BY FS_Subset
<1>2. f \in [E \cup {x} -> Nat] /\ f[x] = n
  BY <1>1
<1>3. g \in [E -> Nat] /\ \A y \in E : g[y] = 0
  OBVIOUS
<1> HIDE DEF f, E, g
<1>4. Total(f) = Total([y \in E |-> f[y]]) + f[x]
  BY <1>1, <1>2, TotalExtend
<1>5. Total(g) = 0
  BY <1>3, TotalZero
<1> QED
  BY <1>2, <1>4, <1>5 DEF f, g

\* Members that hold nothing may be left out of a sum.
LEMMA TotalPart ==
    ASSUME NEW D, NEW S \in SUBSET D, NEW f \in [S -> Nat]
    PROVE  Total([x \in D |-> IF x \in S THEN f[x] ELSE 0]) = Total(f)
PROOF
<1> DEFINE g == [x \in D |-> IF x \in S THEN f[x] ELSE 0]
<1>1. g \in [D -> Nat]
  OBVIOUS
<1>2. \A p : p \in Coins(f) <=> \E x \in S : \E i \in 1..f[x] : p = <<x, i>>
  BY CoinsMembers
<1>3. \A p : p \in Coins(g) <=> \E x \in D : \E i \in 1..g[x] : p = <<x, i>>
  BY <1>1, CoinsMembers
<1>4. \A x \in D : \A i : i \in 1..g[x] <=> x \in S /\ i \in 1..f[x]
  OBVIOUS
<1> HIDE DEF g
<1>5. \A p : p \in Coins(g) <=> p \in Coins(f)
  BY <1>2, <1>3, <1>4
<1>6. Coins(g) = Coins(f)
  BY <1>5
<1> QED
  BY <1>6 DEF Total, g


(***************************************************************************)
(* Fees and charges                                                        *)
(***************************************************************************)

\* A fraction of an amount, rounded down, is an amount.
LEMMA DivIsNat ==
    ASSUME NEW m \in Nat, NEW n \in Nat \ {0}
    PROVE  m \div n \in Nat
PROOF
  OBVIOUS

\* A fee is never negative, whatever the policy.
LEMMA FeeIsNat ==
    ASSUME NEW f \in F!Feeers, NEW a \in Nat
    PROVE  F!Fee(f, a) \in Nat
PROOF
<1>1. CASE f \in F!NilFeeers
  BY <1>1 DEF F!NilFeeers, F!Fee
<1>2. CASE f \in F!FixedFeeers
  BY <1>2 DEF F!FixedFeeers, F!Fee
<1>3. CASE f \in F!RatioFeeers
  <2>1. /\ f.type = "ratio"
        /\ f.num \in Nat
        /\ f.den \in Nat \ {0}
        /\ f.min \in Nat
        /\ f.max \in Nat \cup {F!UnlimitedMaxFeeAmount}
    BY <1>3 DEF F!RatioFeeers
  <2>2. a * f.num \in Nat
    BY <2>1
  <2>3. F!MulRatio(a, f) \in Nat
    BY <2>1, <2>2, DivIsNat DEF F!MulRatio
  <2>4. F!RatioFee(f, a) \in Nat
    <3> DEFINE m == F!MulRatio(a, f)
    <3>1. m \in Nat
      BY <2>3
    <3> HIDE DEF m
    <3>2. F!RatioFee(f, a) \in {0, f.min, a, f.max, m}
      BY DEF F!RatioFee, m
    <3>3. F!RatioFee(f, a) = f.max => f.max \in Nat
      BY <2>1, <3>1 DEF F!RatioFee, m, F!UnlimitedMaxFeeAmount
    <3> QED
      BY <2>1, <3>1, <3>2, <3>3
  <2> QED
    BY <2>1, <2>4 DEF F!Fee
<1> QED
  BY <1>1, <1>2, <1>3 DEF F!Feeers

\* The kinds of operation, by their type.
LEMMA OpsKinds ==
    ASSUME NEW o \in Ops
    PROVE  /\ HasItems(o) => o \in AmountsFacts
           /\ o.type = "key-updater" => o \in KeyUpdaterFacts
           /\ o.type = "currency-register" => o \in CurrencyRegisterFacts
           /\ o.type = "currency-policy-updater" => o \in CurrencyPolicyUpdaterFacts
           /\ \/ HasItems(o) \/ o.type = "key-updater"
              \/ o.type = "currency-register" \/ o.type = "currency-policy-updater"
PROOF
<1>1. o \in Facts
  BY OpsAssumption
<1>2. CASE o \in AmountsFacts
  BY <1>2 DEF AmountsFacts, HasItems
<1>3. CASE o \in KeyUpdaterFacts
  BY <1>3 DEF KeyUpdaterFacts, HasItems
<1>4. CASE o \in CurrencyRegisterFacts
  BY <1>4 DEF CurrencyRegisterFacts, HasItems
<1>5. CASE o \in CurrencyPolicyUpdaterFacts
  BY <1>5 DEF CurrencyPolicyUpdaterFacts, HasItems
<1> QED
  BY <1>1, <1>2, <1>3, <1>4, <1>5 DEF Facts

\* The fields of each kind.
LEMMA ItemsFields ==
    ASSUME NEW o \in Ops, HasItems(o)
    PROVE  /\ o.sender \in Addresses
           /\ o.amounts \in [Addresses -> [Currencies -> Nat]]
           /\ \A c \in Currencies : o.amounts[o.sender][c] = 0
PROOF
  BY OpsKinds DEF AmountsFacts, Matrix

LEMMA KeyUpdaterFields ==
    ASSUME NEW o \in Ops, o.type = "key-updater"
    PROVE  o.target \in Addresses /\ o.keys \in AccountKeys /\ o.currency \in Currencies
PROOF
  BY OpsKinds DEF KeyUpdaterFacts

LEMMA CurrencyRegisterFields ==
    ASSUME NEW o \in Ops, o.type = "currency-register"
    PROVE  o.currency \in Currencies /\ o.design \in Designs /\ o.genesis \in Addresses
PROOF
  BY OpsKinds DEF CurrencyRegisterFacts

LEMMA CurrencyPolicyUpdaterFields ==
    ASSUME NEW o \in Ops, o.type = "currency-policy-updater"
    PROVE  o.currency \in Currencies /\ o.policy \in Policies
PROOF
  BY OpsKinds DEF CurrencyPolicyUpdaterFacts

\* Every operation an account pays for names that account.
LEMMA PayerType ==
    ASSUME NEW o \in Ops, ~IsCurrencyOperation(o)
    PROVE  Payer(o) \in Addresses
PROOF
  BY OpsKinds, ItemsFields, KeyUpdaterFields DEF Payer, IsCurrencyOperation

\* An operation claims an account or a currency.
LEMMA DuplicationKeyType ==
    ASSUME NEW o \in Ops
    PROVE  DuplicationKey(o) \in Addresses \cup Currencies
PROOF
  BY OpsKinds, PayerType, CurrencyRegisterFields, CurrencyPolicyUpdaterFields
     DEF DuplicationKey, IsCurrencyOperation

Charges == [amount : Nat, fee : Nat]

\* What an operation is charged is a natural number, and so is its fee.
LEMMA ChargeType ==
    ASSUME NEW o \in Ops, NEW c \in Currencies,
           NEW ds \in [Currencies -> Designs \cup {NoDesign}],
           c \in Used(o) => ds[c] # NoDesign
    PROVE  Charge(o, ds, c) \in Charges
PROOF
<1>1. CASE c \notin Used(o)
  BY <1>1 DEF Charge, NoCharge, Charges
<1>2. CASE c \in Used(o)
  <2> DEFINE f == ds[c].policy.feeer
  <2>1. ds[c] \in Designs
    BY <1>2
  <2>2. f \in F!Feeers
    BY <2>1 DEF Designs, Policies
  <2> HIDE DEF f
  <2>3. CASE HasItems(o)
    <3> DEFINE ams  == [r \in Addresses |-> o.amounts[r][c]]
               fees == [r \in Addresses |-> ItemFee(f, o.amounts[r][c])]
    <3>1. \A r \in Addresses : o.amounts[r][c] \in Nat
      BY <2>3, ItemsFields
    <3>2. \A r \in Addresses : ItemFee(f, o.amounts[r][c]) \in Nat
      BY <2>2, <3>1, FeeIsNat DEF ItemFee
    <3>3. ams \in [Addresses -> Nat] /\ fees \in [Addresses -> Nat]
      BY <3>1, <3>2
    <3>4. ItemsFee(o, f, c) = [amount |-> Total(ams) + Total(fees), fee |-> Total(fees)]
      BY DEF ItemsFee
    <3>5. Charge(o, ds, c) = ItemsFee(o, f, c)
      BY <1>2, <2>3 DEF Charge, f
    <3>6. Total(ams) \in Nat /\ Total(fees) \in Nat
      <4> HIDE DEF ams, fees
      <4> QED
        BY <3>3, TotalIsNat, SetsAssumption
    <3> HIDE DEF ams, fees
    <3> QED
      BY <3>4, <3>5, <3>6 DEF Charges
  <2>4. CASE ~HasItems(o)
    <3>1. F!Fee(f, 0) \in Nat
      BY <2>2, FeeIsNat
    <3> QED
      BY <1>2, <2>4, <3>1 DEF Charge, KeyUpdaterFee, Charges, f
  <2> QED
    BY <2>3, <2>4
<1> QED
  BY <1>1, <1>2

\* A feeer that has a receiver has an address for it.
LEMMA ReceiverType ==
    ASSUME NEW f \in F!Feeers, F!HasReceiver(f)
    PROVE  f.receiver \in Addresses
PROOF
  BY DEF F!Feeers, F!NilFeeers, F!FixedFeeers, F!RatioFeeers, F!HasReceiver

(***************************************************************************)
(* What Process adds and takes                                             *)
(***************************************************************************)

\* An operation never takes from an account by what it gives.
LEMMA GainType ==
    ASSUME NEW o \in Ops, NEW a \in Addresses, NEW c \in Currencies
    PROVE  Gain(o, a, c) \in Nat
PROOF
<1>1. CASE o.type = "currency-register"
  BY <1>1, CurrencyRegisterFields DEF Gain, Designs
<1>2. CASE o.type # "currency-register"
  BY <1>2, ItemsFields DEF Gain, Credit
<1> QED
  BY <1>1, <1>2

LEMMA LossType ==
    ASSUME NEW o \in Ops, NEW a \in Addresses, NEW c \in Currencies, TypeOK
    PROVE  Loss(o, a, c) \in Nat
PROOF
  BY DEF Loss, TypeOK

\* The states an operation sets are balances of accounts and currencies,
\* keys, and designs.
LEMMA BalancesSetType ==
    ASSUME NEW o \in Ops
    PROVE  BalancesSet(o) \subseteq Addresses \X Currencies
PROOF
  BY DEF BalancesSet

LEMMA AccountsSetType ==
    ASSUME NEW o \in Ops, TypeOK
    PROVE  AccountsSet(o) \in [Addresses -> AccountKeys \cup {NoKeys}]
PROOF
<1>1. CASE o.type = "key-updater"
  BY <1>1, KeyUpdaterFields DEF AccountsSet, TypeOK
<1>2. CASE o.type = "create-accounts"
  BY <1>2 DEF AccountsSet, TypeOK, AccountKeys
<1>3. CASE o.type \notin {"key-updater", "create-accounts"}
  BY <1>3 DEF AccountsSet, TypeOK
<1> QED
  BY <1>1, <1>2, <1>3

LEMMA DesignsSetType ==
    ASSUME NEW o \in Ops, TypeOK,
           o.type = "currency-policy-updater" => design[o.currency] # NoDesign
    PROVE  DesignsSet(o) \in [Currencies -> Designs \cup {NoDesign}]
PROOF
<1>1. CASE o.type = "currency-register"
  BY <1>1, CurrencyRegisterFields DEF DesignsSet, TypeOK
<1>2. CASE o.type = "currency-policy-updater"
  <2>1. design[o.currency] \in Designs
    BY <1>2, CurrencyPolicyUpdaterFields DEF TypeOK
  <2>2. [amount |-> design[o.currency].amount, policy |-> o.policy] \in Designs
    BY <1>2, <2>1, CurrencyPolicyUpdaterFields DEF Designs
  <2> QED
    BY <1>2, <2>2, CurrencyPolicyUpdaterFields DEF DesignsSet, TypeOK
<1>3. CASE o.type \notin {"currency-register", "currency-policy-updater"}
  BY <1>3 DEF DesignsSet, TypeOK
<1> QED
  BY <1>1, <1>2, <1>3

\* The checks of an operation read the states of the last block and the
\* currency pool, and nothing else.
LEMMA ChecksReadBlockAndPool ==
    ASSUME UNCHANGED <<ledger, cp>>, NEW o \in Ops
    PROVE  /\ PreProcessOK(o)' <=> PreProcessOK(o)
           /\ \A c \in Currencies : Charge(o, cp, c)' = Charge(o, cp, c)
PROOF
  BY DEF ledger, PreProcessOK, SuffrageOK, CurrencyRegisterOK, CurrencyPolicyUpdaterOK,
         PayerOK, TransfersOK, CreateAccountsOK, KeyUpdaterOK, EnoughBalance,
         SignedByKeys, Exists, Registered, ReceiverIsOK

\* An operation that passed its checks can be charged.
LEMMA CheckedCharge ==
    ASSUME NEW o \in Ops, TypeOK, PreProcessOK(o)
    PROVE  /\ \A c \in Used(o) : cp[c] # NoDesign
           /\ \A c \in Currencies : Charge(o, cp, c) \in Charges
PROOF
<1>1. \A c \in Used(o) : cp[c] # NoDesign
  <2>1. CASE IsCurrencyOperation(o)
    BY <2>1 DEF Used, IsCurrencyOperation, HasItems
  <2>2. CASE ~IsCurrencyOperation(o)
    BY <2>2 DEF PreProcessOK, PayerOK, Registered
  <2> QED
    BY <2>1, <2>2
<1>2. ASSUME NEW c \in Currencies
      PROVE  Charge(o, cp, c) \in Charges
  BY <1>1, ChargeType DEF TypeOK
<1> QED
  BY <1>1, <1>2

(***************************************************************************)
(* The invariant holds at the start                                        *)
(***************************************************************************)

\* The genesis account has the supply of each currency, and nobody else has any.
LEMMA GenesisBalances ==
    ASSUME Init, NEW a \in Addresses, NEW c \in Currencies
    PROVE  balance[a][c] \in Nat
PROOF
<1>1. balance[a][c] = IF <<a, c>> \in held THEN GenesisDesigns[c].amount ELSE 0
  BY DEF Init, GenesisLedger
<1>2. CASE <<a, c>> \in held
  <2>1. GenesisDesigns[c] \in Designs
    BY <1>2, GenesisAssumption DEF Init, GenesisLedger
  <2>2. \A de \in Designs : de.amount \in Nat
    BY DEF Designs
  <2> QED
    BY <1>1, <1>2, <2>1, <2>2
<1>3. CASE <<a, c>> \notin held
  BY <1>1, <1>3
<1> QED
  BY <1>2, <1>3

\* The genesis block, an empty state pool and fresh tables.
LEMMA InitInvariant == Init => IInv
PROOF
<1> SUFFICES ASSUME Init
             PROVE  IInv
  OBVIOUS
<1>1. TypeOK
  <2>1. account \in [Addresses -> AccountKeys \cup {NoKeys}]
    BY GenesisAssumption DEF Init, GenesisLedger, NoNewAccounts, AccountKeys
  <2>2. held \subseteq Addresses \X Currencies
    BY GenesisAssumption DEF Init, GenesisLedger
  <2>3. balance \in [Addresses -> [Currencies -> Int]]
    <3>1. \A a \in Addresses, c \in Currencies : balance[a][c] \in Nat
      BY GenesisBalances
    <3> QED
      BY <3>1 DEF Init, GenesisLedger
  <2>4. design \in [Currencies -> Designs \cup {NoDesign}]
        /\ cp \in [Currencies -> Designs \cup {NoDesign}]
    BY GenesisAssumption DEF Init, GenesisLedger
  <2>5. required \in [Ops -> [Currencies -> [amount : Nat, fee : Nat]]]
    BY DEF Init, FreshTables, NoCharge
  <2>6. /\ newAccount \in [Addresses -> AccountKeys \cup {NoKeys}]
        /\ newDesign \in [Currencies -> Designs \cup {NoDesign}]
    BY DEF Init, FreshTables, NoNewAccounts, NoNewDesigns
  <2>7. /\ fee \in [Currencies -> Nat]
        /\ delta \in [Addresses -> [Currencies -> Int]]
    BY DEF Init, FreshTables, NoFee, NoDelta
  <2>8. /\ committed \subseteq Ops
        /\ hook \in BOOLEAN
        /\ saved \subseteq Currencies
        /\ proposed \subseteq Ops
        /\ status \in [Ops -> Statuses]
        /\ duplicated \subseteq Addresses \cup Currencies
        /\ newAddress \subseteq Addresses
        /\ touched \subseteq Addresses \X Currencies
        /\ closed \in BOOLEAN
    BY DEF Init, GenesisLedger, FreshTables, Statuses
  <2> QED
    BY <2>1, <2>2, <2>3, <2>4, <2>5, <2>6, <2>7, <2>8 DEF TypeOK
<1>2. ChecksStillHold
  BY DEF Init, FreshTables, ChecksStillHold
<1>3. ClaimsAreDistinct
  BY DEF Init, FreshTables, ClaimsAreDistinct, LetIn
<1>4. OnlyPayersLose
  BY DEF Init, FreshTables, OnlyPayersLose, NoDelta
<1>5. NoOverdraft
  <2>1. \A a \in Addresses, c \in Currencies : balance[a][c] \in Nat
    BY GenesisBalances
  <2>2. \A a \in Addresses, c \in Currencies : delta[a][c] = 0
    BY DEF Init, FreshTables, NoDelta
  <2> QED
    BY <1>1, <2>1, <2>2 DEF NoOverdraft, TypeOK
<1>6. hook => proposed = {}
  BY DEF Init
<1> QED
  BY <1>1, <1>2, <1>3, <1>4, <1>5, <1>6 DEF IInv

(***************************************************************************)
(* Every step keeps it                                                     *)
(***************************************************************************)

\* A proposal dropped leaves the tables and the state pool of a new one.
LEMMA DropType ==
    ASSUME DropProposal
    PROVE  /\ proposed' \subseteq Ops
           /\ status' \in [Ops -> Statuses]
           /\ required' \in [Ops -> [Currencies -> [amount : Nat, fee : Nat]]]
           /\ duplicated' \subseteq Addresses \cup Currencies
           /\ newAddress' \subseteq Addresses
           /\ fee' \in [Currencies -> Nat]
           /\ delta' \in [Addresses -> [Currencies -> Int]]
           /\ touched' \subseteq Addresses \X Currencies
           /\ newAccount' \in [Addresses -> AccountKeys \cup {NoKeys}]
           /\ newDesign' \in [Currencies -> Designs \cup {NoDesign}]
           /\ closed' \in BOOLEAN
PROOF
<1>1. /\ proposed' \subseteq Ops
      /\ status' \in [Ops -> Statuses]
      /\ duplicated' \subseteq Addresses \cup Currencies
      /\ newAddress' \subseteq Addresses
      /\ touched' \subseteq Addresses \X Currencies
      /\ closed' \in BOOLEAN
  BY DEF DropProposal, Statuses
<1>2. required' \in [Ops -> [Currencies -> [amount : Nat, fee : Nat]]]
  BY DEF DropProposal, NoCharge
<1>3. fee' \in [Currencies -> Nat] /\ delta' \in [Addresses -> [Currencies -> Int]]
  BY DEF DropProposal, NoFee, NoDelta
<1>4. /\ newAccount' \in [Addresses -> AccountKeys \cup {NoKeys}]
      /\ newDesign' \in [Currencies -> Designs \cup {NoDesign}]
  BY DEF DropProposal, NoNewAccounts, NoNewDesigns
<1> QED
  BY <1>1, <1>2, <1>3, <1>4

\* Processing an operation keeps the types.
LEMMA ProcessType ==
    ASSUME IInv, NEW o \in Ops, Process(o)
    PROVE  TypeOK'
PROOF
<1>0. TypeOK
  BY DEF IInv
<1>1. delta' \in [Addresses -> [Currencies -> Int]]
  <2>1. ASSUME NEW a \in Addresses, NEW c \in Currencies
        PROVE  delta[a][c] + Gain(o, a, c) - Loss(o, a, c) \in Int
    <3>1. delta[a][c] \in Int
      BY <1>0 DEF TypeOK
    <3> QED
      BY <3>1, <1>0, GainType, LossType
  <2> QED
    BY <2>1 DEF Process
<1>2. touched' \subseteq Addresses \X Currencies
  BY <1>0, BalancesSetType DEF Process, TypeOK
<1>3. newAccount' \in [Addresses -> AccountKeys \cup {NoKeys}]
  BY <1>0, AccountsSetType DEF Process
<1>4. newDesign' \in [Currencies -> Designs \cup {NoDesign}]
  <2>1. PreProcessOK(o)
    BY DEF IInv, ChecksStillHold, Process
  <2>2. o.type = "currency-policy-updater" => design[o.currency] # NoDesign
    BY <2>1 DEF PreProcessOK, SuffrageOK, CurrencyPolicyUpdaterOK, IsCurrencyOperation
  <2> QED
    BY <1>0, <2>2, DesignsSetType DEF Process
<1>5. fee' \in [Currencies -> Nat]
  BY <1>0 DEF Process, TypeOK
<1>6. status' \in [Ops -> Statuses]
  BY <1>0 DEF Process, SetStatus, TypeOK, Statuses
<1> QED
  BY <1>0, <1>1, <1>2, <1>3, <1>4, <1>5, <1>6 DEF Process, TypeOK, ledger, pool

\* A currency whose fees are payable has an account to pay them to.
LEMMA FeeReceiverType ==
    ASSUME TypeOK, NEW c \in Currencies, FeeIsPayable(c)
    PROVE  FeeReceiver(c) \in Addresses
PROOF
<1>1. cp[c] \in Designs
  BY DEF FeeIsPayable, Registered, TypeOK
<1> QED
  BY <1>1, ReceiverType DEF FeeIsPayable, FeeReceiver, Designs, Policies

\* Paying the fees keeps the types.
LEMMA CloseType ==
    ASSUME TypeOK, Close
    PROVE  TypeOK'
PROOF
<1>1. delta' \in [Addresses -> [Currencies -> Int]]
  <2>1. ASSUME NEW a \in Addresses, NEW c \in Currencies
        PROVE  delta[a][c] + FeeGain(a, c) \in Int
    BY DEF TypeOK, FeeGain
  <2> QED
    BY <2>1 DEF Close
<1>2. touched' \subseteq Addresses \X Currencies
  BY FeeReceiverType DEF Close, TypeOK
<1> QED
  BY <1>1, <1>2 DEF Close, TypeOK, ledger, pool, tables

\* Saving a block keeps the types.
LEMMA SaveType ==
    ASSUME TypeOK, Save
    PROVE  TypeOK'
PROOF
<1>1. /\ account' \in [Addresses -> AccountKeys \cup {NoKeys}]
      /\ held' \subseteq Addresses \X Currencies
      /\ design' \in [Currencies -> Designs \cup {NoDesign}]
      /\ committed' \subseteq Ops
      /\ saved' \subseteq Currencies
      /\ hook' \in BOOLEAN
      /\ cp' = cp
  BY DEF Save, TypeOK
<1>2. balance' \in [Addresses -> [Currencies -> Int]]
  <2>1. \A a \in Addresses, c \in Currencies : balance[a][c] + delta[a][c] \in Int
    BY DEF TypeOK
  <2> QED
    BY <2>1 DEF Save
<1>3. DropProposal
  BY DEF Save
<1> QED
  BY <1>1, <1>2, <1>3, DropType DEF TypeOK

\* Passing the checks keeps the types.
LEMMA ValidateType ==
    ASSUME TypeOK, NEW o \in Ops, Validate(o)
    PROVE  TypeOK'
PROOF
<1>1. \A c \in Currencies : Charge(o, cp, c) \in [amount : Nat, fee : Nat]
  BY CheckedCharge DEF Validate, Charges
<1>2. required' \in [Ops -> [Currencies -> [amount : Nat, fee : Nat]]]
  BY <1>1 DEF Validate, TypeOK
<1>3. status' \in [Ops -> Statuses]
  BY DEF Validate, SetStatus, Statuses, TypeOK
<1> QED
  BY <1>2, <1>3 DEF Validate, TypeOK, ledger, pool, tables, changes

\* Claiming a place in the proposal keeps the types.
LEMMA CheckDuplicationType ==
    ASSUME TypeOK, NEW o \in Ops, CheckDuplication(o)
    PROVE  TypeOK'
PROOF
<1>1. duplicated' \subseteq Addresses \cup Currencies
  BY DuplicationKeyType DEF CheckDuplication, TypeOK
<1>2. newAddress' \subseteq Addresses
  BY DEF CheckDuplication, Reject, Accept, Targets, Receivers, TypeOK
<1>3. status' \in [Ops -> Statuses]
  BY DEF CheckDuplication, Reject, Accept, SetStatus, Statuses, TypeOK
<1> QED
  BY <1>1, <1>2, <1>3 DEF CheckDuplication, TypeOK, ledger, pool, changes

\* Every step keeps the types.
LEMMA TypeStep ==
    ASSUME IInv, [Next]_vars
    PROVE  TypeOK'
PROOF
<1>0. TypeOK
  BY DEF IInv
<1>1. ASSUME NEW P \in SUBSET (Ops \ committed), NewProposal(P)
      PROVE  TypeOK'
  BY <1>0, <1>1 DEF NewProposal, TypeOK, ledger, pool, tables, changes
<1>2. ASSUME NEW o \in Ops, Validate(o)
      PROVE  TypeOK'
  BY <1>0, <1>2, ValidateType
<1>3. ASSUME NEW o \in Ops, Invalidate(o)
      PROVE  TypeOK'
  <2>1. status' \in [Ops -> Statuses]
    BY <1>0, <1>3 DEF Invalidate, SetStatus, Statuses, TypeOK
  <2> QED
    BY <1>0, <1>3, <2>1 DEF Invalidate, TypeOK, ledger, pool, tables, changes
<1>4. ASSUME NEW o \in Ops, CheckDuplication(o)
      PROVE  TypeOK'
  BY <1>0, <1>4, CheckDuplicationType
<1>5. ASSUME NEW o \in Ops, Process(o)
      PROVE  TypeOK'
  BY <1>5, ProcessType
<1>6. CASE Close
  BY <1>0, <1>6, CloseType
<1>7. CASE Cancel
  <2>1. DropProposal
    BY <1>7 DEF Cancel
  <2> QED
    BY <1>0, <1>7, <2>1, DropType DEF Cancel, TypeOK, ledger, pool
<1>8. CASE Save
  BY <1>0, <1>8, SaveType
<1>9. CASE WhenBlockSaved
  <2>1. cp' \in [Currencies -> Designs \cup {NoDesign}]
    BY <1>0, <1>9 DEF WhenBlockSaved, SetDesigns, TypeOK
  <2> QED
    BY <1>0, <1>9, <2>1 DEF WhenBlockSaved, TypeOK, ledger, tables, changes
<1>10. CASE Restart
  <2>1. cp' \in [Currencies -> Designs \cup {NoDesign}]
    BY <1>0, <1>10 DEF Restart, SetDesigns, TypeOK
  <2>2. DropProposal
    BY <1>10 DEF Restart
  <2> QED
    BY <1>0, <1>10, <2>1, <2>2, DropType DEF Restart, TypeOK, ledger
<1>11. CASE UNCHANGED vars
  BY <1>0, <1>11 DEF vars, TypeOK, ledger, pool, tables, changes
<1> QED
  BY <1>1, <1>2, <1>3, <1>4, <1>5, <1>6, <1>7, <1>8, <1>9, <1>10, <1>11 DEF Next

(***************************************************************************)
(* The checks of an operation hold until its block is saved                *)
(***************************************************************************)

\* A step of another operation leaves what an operation was checked for.
LEMMA CheckKept ==
    ASSUME IInv, UNCHANGED <<ledger, pool, proposed>>, NEW o \in Ops,
           status[o] \in {"validated", "accepted", "processed"},
           required'[o] = required[o]
    PROVE  /\ o \in proposed'
           /\ ~hook'
           /\ PreProcessOK(o)'
           /\ required'[o] = [c \in Currencies |-> Charge(o, cp, c)']
PROOF
<1>1. /\ o \in proposed
      /\ ~hook
      /\ PreProcessOK(o)
      /\ required[o] = [c \in Currencies |-> Charge(o, cp, c)]
  BY DEF IInv, ChecksStillHold
<1>2. UNCHANGED <<ledger, cp>>
  BY DEF pool
<1>3. PreProcessOK(o)' <=> PreProcessOK(o)
  BY <1>2, ChecksReadBlockAndPool
<1>4. \A c \in Currencies : Charge(o, cp, c)' = Charge(o, cp, c)
  BY <1>2, ChecksReadBlockAndPool
<1> QED
  BY <1>1, <1>3, <1>4 DEF pool

\* Once a proposal is dropped no operation is past its checks.
LEMMA ChecksDropped ==
    ASSUME DropProposal
    PROVE  ChecksStillHold' /\ ClaimsAreDistinct'
PROOF
<1>1. \A o \in Ops : status'[o] = "proposed"
  BY DEF DropProposal
<1> QED
  BY <1>1 DEF ChecksStillHold, ClaimsAreDistinct, LetIn

\* Every step keeps the checks of the operations that passed them.
LEMMA ChecksStep ==
    ASSUME IInv, [Next]_vars
    PROVE  ChecksStillHold'
PROOF
<1>0. TypeOK /\ ChecksStillHold /\ (hook => proposed = {})
  BY DEF IInv
<1>1. ASSUME NEW P \in SUBSET (Ops \ committed), NewProposal(P)
      PROVE  ChecksStillHold'
  <2>1. \A o \in Ops : status'[o] \notin {"validated", "accepted", "processed"}
    BY <1>0, <1>1 DEF NewProposal, ChecksStillHold
  <2> QED
    BY <2>1 DEF ChecksStillHold
<1>2. ASSUME NEW o \in Ops, Validate(o)
      PROVE  ChecksStillHold'
  <2> SUFFICES ASSUME NEW p \in Ops,
                      status'[p] \in {"validated", "accepted", "processed"}
               PROVE  /\ p \in proposed'
                      /\ ~hook'
                      /\ PreProcessOK(p)'
                      /\ required'[p] = [c \in Currencies |-> Charge(p, cp, c)']
    BY DEF ChecksStillHold
  <2>1. UNCHANGED <<ledger, pool, proposed>> /\ UNCHANGED <<ledger, cp>>
    BY <1>2 DEF Validate, pool
  <2>2. CASE p # o
    <3>1. status[p] = status'[p] /\ required'[p] = required[p]
      BY <1>0, <1>2, <2>2 DEF Validate, SetStatus, TypeOK
    <3> QED
      BY <2>1, <3>1, CheckKept
  <2>3. CASE p = o
    <3>1. o \in proposed' /\ ~hook'
      BY <1>0, <1>2 DEF Validate, pool
    <3>2. PreProcessOK(o)'
      BY <1>2, <2>1, ChecksReadBlockAndPool DEF Validate
    <3>3. required'[o] = [c \in Currencies |-> Charge(o, cp, c)]
      BY <1>0, <1>2 DEF Validate, TypeOK
    <3>4. \A c \in Currencies : Charge(o, cp, c)' = Charge(o, cp, c)
      BY <2>1, ChecksReadBlockAndPool
    <3> QED
      BY <2>3, <3>1, <3>2, <3>3, <3>4
  <2> QED
    BY <2>2, <2>3
<1>3. ASSUME UNCHANGED <<ledger, pool, proposed, required>>,
             \A p \in Ops : status'[p] \in {"validated", "accepted", "processed"} =>
                 status[p] \in {"validated", "accepted", "processed"}
      PROVE  ChecksStillHold'
  <2> SUFFICES ASSUME NEW p \in Ops,
                      status'[p] \in {"validated", "accepted", "processed"}
               PROVE  /\ p \in proposed'
                      /\ ~hook'
                      /\ PreProcessOK(p)'
                      /\ required'[p] = [c \in Currencies |-> Charge(p, cp, c)']
    BY DEF ChecksStillHold
  <2> QED
    BY <1>3, CheckKept
<1>4. ASSUME NEW o \in Ops, Invalidate(o)
      PROVE  ChecksStillHold'
  BY <1>0, <1>3, <1>4 DEF Invalidate, SetStatus, TypeOK
<1>5. ASSUME NEW o \in Ops, CheckDuplication(o)
      PROVE  ChecksStillHold'
  BY <1>0, <1>3, <1>5 DEF CheckDuplication, Reject, Accept, SetStatus, TypeOK
<1>6. ASSUME NEW o \in Ops, Process(o)
      PROVE  ChecksStillHold'
  BY <1>0, <1>3, <1>6 DEF Process, SetStatus, TypeOK
<1>7. CASE Close
  BY <1>3, <1>7 DEF Close
<1>8. CASE Cancel \/ Save \/ Restart
  BY <1>8, ChecksDropped DEF Cancel, Save, Restart
<1>9. CASE WhenBlockSaved
  <2>1. \A o \in Ops : status'[o] \notin {"validated", "accepted", "processed"}
    BY <1>0, <1>9 DEF WhenBlockSaved, ChecksStillHold
  <2> QED
    BY <2>1 DEF ChecksStillHold
<1>10. CASE UNCHANGED vars
  BY <1>3, <1>10 DEF vars
<1> QED
  BY <1>1, <1>2, <1>4, <1>5, <1>6, <1>7, <1>8, <1>9, <1>10 DEF Next

(***************************************************************************)
(* Claims are distinct, and only payers lose                               *)
(***************************************************************************)

\* A step that lets nobody in keeps the claims.
LEMMA ClaimsKept ==
    ASSUME ClaimsAreDistinct, duplicated \subseteq duplicated',
           newAddress \subseteq newAddress',
           \A p \in Ops : LetIn(p)' => LetIn(p)
    PROVE  ClaimsAreDistinct'
PROOF
  BY DEF ClaimsAreDistinct

\* Every step keeps the claims of the operations let into a proposal.
LEMMA ClaimsStep ==
    ASSUME IInv, [Next]_vars
    PROVE  ClaimsAreDistinct'
PROOF
<1>0. TypeOK /\ ChecksStillHold /\ ClaimsAreDistinct
  BY DEF IInv
<1>1. ASSUME NEW P \in SUBSET (Ops \ committed), NewProposal(P)
      PROVE  ClaimsAreDistinct'
  BY <1>0, <1>1, ClaimsKept DEF NewProposal, tables, LetIn
<1>2. ASSUME NEW o \in Ops, Validate(o) \/ Invalidate(o) \/ Process(o)
      PROVE  ClaimsAreDistinct'
  <2>1. \A p \in Ops : LetIn(p)' => LetIn(p)
    BY <1>0, <1>2 DEF Validate, Invalidate, Process, SetStatus, LetIn, TypeOK
  <2> QED
    BY <1>0, <1>2, <2>1, ClaimsKept DEF Validate, Invalidate, Process, tables
<1>3. ASSUME NEW o \in Ops, CheckDuplication(o)
      PROVE  ClaimsAreDistinct'
  <2>1. duplicated' = duplicated \cup {DuplicationKey(o)}
    BY <1>3 DEF CheckDuplication
  <2>2. \A p \in Ops : p # o /\ LetIn(p)' => LetIn(p)
    BY <1>0, <1>3 DEF CheckDuplication, Reject, Accept, SetStatus, LetIn, TypeOK
  <2>3. CASE DuplicationKey(o) \in duplicated \/ Targets(o) \cap newAddress # {}
    <3>1. ~LetIn(o)' /\ newAddress' = newAddress
      BY <1>0, <1>3, <2>3 DEF CheckDuplication, Reject, SetStatus, LetIn, TypeOK
    <3> QED
      BY <1>0, <2>1, <2>2, <3>1, ClaimsKept
  <2>4. CASE DuplicationKey(o) \notin duplicated /\ Targets(o) \cap newAddress = {}
    <3>1. newAddress' = newAddress \cup Targets(o)
      BY <1>3, <2>4 DEF CheckDuplication, Accept
    <3>2. \A p \in Ops : LetIn(p)' =>
             DuplicationKey(p) \in duplicated' /\ Targets(p) \subseteq newAddress'
      BY <1>0, <2>1, <2>2, <3>1 DEF ClaimsAreDistinct
    <3>3. \A p \in Ops : p # o /\ LetIn(p)' =>
             /\ DuplicationKey(o) # DuplicationKey(p)
             /\ Targets(o) \cap Targets(p) = {}
      BY <1>0, <2>2, <2>4 DEF ClaimsAreDistinct
    <3>4. \A p, q \in Ops : p # o /\ q # o /\ p # q /\ LetIn(p)' /\ LetIn(q)' =>
             /\ DuplicationKey(p) # DuplicationKey(q)
             /\ Targets(p) \cap Targets(q) = {}
      BY <1>0, <2>2 DEF ClaimsAreDistinct
    <3> QED
      BY <3>2, <3>3, <3>4 DEF ClaimsAreDistinct
  <2> QED
    BY <2>3, <2>4
<1>4. CASE Close
  BY <1>0, <1>4, ClaimsKept DEF Close, tables, LetIn
<1>5. CASE Cancel \/ Save \/ Restart
  BY <1>5, ChecksDropped DEF Cancel, Save, Restart
<1>6. CASE WhenBlockSaved
  BY <1>0, <1>6, ClaimsKept DEF WhenBlockSaved, tables, LetIn
<1>7. CASE UNCHANGED vars
  BY <1>0, <1>7, ClaimsKept DEF vars, tables, LetIn
<1> QED
  BY <1>1, <1>2, <1>3, <1>4, <1>5, <1>6, <1>7 DEF Next

PaysFrom(o, a) == status[o] = "processed" /\ ~IsCurrencyOperation(o) /\ Payer(o) = a

\* A step that processes nothing and takes from no balance keeps the losers.
LEMMA LosersKept ==
    ASSUME OnlyPayersLose,
           \A o \in Ops : status[o] = "processed" => status'[o] = "processed",
           \A a \in Addresses, c \in Currencies : delta[a][c] >= 0 => delta'[a][c] >= 0
    PROVE  OnlyPayersLose'
PROOF
  BY DEF OnlyPayersLose

\* Every step leaves the accounts that nobody pays from without a loss.
LEMMA LosersStep ==
    ASSUME IInv, [Next]_vars
    PROVE  OnlyPayersLose'
PROOF
<1>0. TypeOK /\ OnlyPayersLose
  BY DEF IInv
<1>1. ASSUME NEW P \in SUBSET (Ops \ committed), NewProposal(P)
      PROVE  OnlyPayersLose'
  BY <1>0, <1>1, LosersKept DEF NewProposal, changes
<1>2. ASSUME NEW o \in Ops, Validate(o) \/ Invalidate(o)
      PROVE  OnlyPayersLose'
  <2>1. \A p \in Ops : status[p] = "processed" => status'[p] = "processed"
    BY <1>0, <1>2 DEF Validate, Invalidate, SetStatus, TypeOK
  <2> QED
    BY <1>0, <1>2, <2>1, LosersKept DEF Validate, Invalidate, changes
<1>3. ASSUME NEW o \in Ops, CheckDuplication(o)
      PROVE  OnlyPayersLose'
  <2>1. \A p \in Ops : status[p] = "processed" => status'[p] = "processed"
    BY <1>0, <1>3 DEF CheckDuplication, Reject, Accept, SetStatus, TypeOK
  <2> QED
    BY <1>0, <1>3, <2>1, LosersKept DEF CheckDuplication, changes
<1>4. ASSUME NEW o \in Ops, Process(o)
      PROVE  OnlyPayersLose'
  <2> SUFFICES ASSUME NEW a \in Addresses, NEW c \in Currencies,
                      \A p \in Ops : ~PaysFrom(p, a)'
               PROVE  delta'[a][c] >= 0
    BY DEF OnlyPayersLose, PaysFrom
  <2>1. \A p \in Ops : status[p] = "processed" => status'[p] = "processed"
    BY <1>0, <1>4 DEF Process, SetStatus, TypeOK
  <2>2. status'[o] = "processed"
    BY <1>0, <1>4 DEF Process, SetStatus, TypeOK
  <2>3. delta[a][c] >= 0
    BY <1>0, <2>1 DEF OnlyPayersLose, PaysFrom
  <2>4. Loss(o, a, c) = 0
    BY <2>2 DEF Loss, PaysFrom
  <2>5. delta'[a][c] = delta[a][c] + Gain(o, a, c) - Loss(o, a, c)
    BY <1>4 DEF Process
  <2>6. delta[a][c] \in Int
    BY <1>0 DEF TypeOK
  <2> QED
    BY <2>3, <2>4, <2>5, <2>6, GainType
<1>5. CASE Close
  <2>1. ASSUME NEW a \in Addresses, NEW c \in Currencies, delta[a][c] >= 0
        PROVE  delta'[a][c] >= 0
    <3>1. delta'[a][c] = delta[a][c] + FeeGain(a, c)
      BY <1>5 DEF Close
    <3>2. delta[a][c] \in Int /\ FeeGain(a, c) \in Nat
      BY <1>0 DEF TypeOK, FeeGain
    <3> QED
      BY <2>1, <3>1, <3>2
  <2>2. status' = status
    BY <1>5 DEF Close
  <2> QED
    BY <1>0, <2>1, <2>2, LosersKept
<1>6. CASE Cancel \/ Save \/ Restart
  <2>1. \A a \in Addresses, c \in Currencies : delta'[a][c] = 0
    BY <1>6 DEF Cancel, Save, Restart, DropProposal, NoDelta
  <2> QED
    BY <2>1 DEF OnlyPayersLose
<1>7. CASE WhenBlockSaved
  BY <1>0, <1>7, LosersKept DEF WhenBlockSaved, changes
<1>8. CASE UNCHANGED vars
  BY <1>0, <1>8, LosersKept DEF vars, changes
<1> QED
  BY <1>1, <1>2, <1>3, <1>4, <1>5, <1>6, <1>7, <1>8 DEF Next

(***************************************************************************)
(* No overdraft                                                            *)
(***************************************************************************)

\* What an operation takes from an account is there in the last block.
LEMMA LossIsCovered ==
    ASSUME IInv, NEW o \in Ops, status[o] = "accepted",
           NEW a \in Addresses, NEW c \in Currencies
    PROVE  Loss(o, a, c) =< balance[a][c]
PROOF
<1>0. /\ TypeOK /\ NoOverdraft
      /\ PreProcessOK(o)
      /\ required[o][c] = Charge(o, cp, c)
  BY DEF IInv, ChecksStillHold
<1>1. balance[a][c] \in Int /\ balance[a][c] >= 0
  BY <1>0 DEF TypeOK, NoOverdraft
<1>2. CASE IsCurrencyOperation(o) \/ a # Payer(o)
  BY <1>1, <1>2 DEF Loss
<1>3. CASE ~IsCurrencyOperation(o) /\ a = Payer(o)
  <2>1. Loss(o, a, c) = Charge(o, cp, c).amount
    BY <1>0, <1>3 DEF Loss
  <2>2. CASE c \in Used(o)
    BY <1>0, <1>3, <2>1, <2>2 DEF PreProcessOK, PayerOK, EnoughBalance
  <2>3. CASE c \notin Used(o)
    BY <1>1, <2>1, <2>3 DEF Charge, NoCharge
  <2> QED
    BY <2>2, <2>3
<1> QED
  BY <1>2, <1>3

\* An operation that pays finds its account without a loss: no other
\* operation of the proposal pays from it.
LEMMA PayerIsAlone ==
    ASSUME IInv, NEW o \in Ops, status[o] = "accepted", ~IsCurrencyOperation(o),
           NEW c \in Currencies
    PROVE  delta[Payer(o)][c] >= 0
PROOF
<1>1. ASSUME NEW p \in Ops, status[p] = "processed", ~IsCurrencyOperation(p)
      PROVE  Payer(p) # Payer(o)
  <2>1. p # o /\ LetIn(p) /\ LetIn(o)
    BY <1>1 DEF LetIn
  <2>2. DuplicationKey(p) # DuplicationKey(o)
    BY <2>1 DEF IInv, ClaimsAreDistinct
  <2> QED
    BY <1>1, <2>2 DEF DuplicationKey
<1>2. Payer(o) \in Addresses
  BY PayerType
<1> QED
  BY <1>1, <1>2 DEF IInv, OnlyPayersLose

\* Every step keeps every balance from going below zero.
LEMMA OverdraftStep ==
    ASSUME IInv, [Next]_vars
    PROVE  NoOverdraft'
PROOF
<1>0. TypeOK /\ NoOverdraft
  BY DEF IInv
<1>1. ASSUME UNCHANGED <<balance, delta>>
      PROVE  NoOverdraft'
  BY <1>0, <1>1 DEF NoOverdraft
<1>2. ASSUME NEW o \in Ops, Process(o)
      PROVE  NoOverdraft'
  <2> SUFFICES ASSUME NEW a \in Addresses, NEW c \in Currencies
               PROVE  balance'[a][c] >= 0 /\ balance'[a][c] + delta'[a][c] >= 0
    BY DEF NoOverdraft
  <2>1. balance' = balance
    BY <1>2 DEF Process, ledger
  <2>2. delta'[a][c] = delta[a][c] + Gain(o, a, c) - Loss(o, a, c)
    BY <1>2 DEF Process
  <2>3. /\ balance[a][c] \in Int /\ delta[a][c] \in Int
        /\ Gain(o, a, c) \in Nat /\ Loss(o, a, c) \in Nat
        /\ balance[a][c] >= 0 /\ balance[a][c] + delta[a][c] >= 0
    BY <1>0, GainType, LossType DEF TypeOK, NoOverdraft
  <2>4. CASE IsCurrencyOperation(o) \/ a # Payer(o)
    <3>1. Loss(o, a, c) = 0
      BY <2>4 DEF Loss
    <3> QED
      BY <2>1, <2>2, <2>3, <3>1
  <2>5. CASE ~IsCurrencyOperation(o) /\ a = Payer(o)
    <3>1. status[o] = "accepted"
      BY <1>2 DEF Process
    <3>2. Loss(o, a, c) =< balance[a][c]
      BY <3>1, LossIsCovered
    <3>3. delta[a][c] >= 0
      BY <2>5, <3>1, PayerIsAlone
    <3> QED
      BY <2>1, <2>2, <2>3, <3>2, <3>3
  <2> QED
    BY <2>4, <2>5
<1>3. CASE Close
  <2> SUFFICES ASSUME NEW a \in Addresses, NEW c \in Currencies
               PROVE  balance'[a][c] >= 0 /\ balance'[a][c] + delta'[a][c] >= 0
    BY DEF NoOverdraft
  <2>1. balance' = balance /\ delta'[a][c] = delta[a][c] + FeeGain(a, c)
    BY <1>3 DEF Close, ledger
  <2>2. /\ balance[a][c] \in Int /\ delta[a][c] \in Int /\ FeeGain(a, c) \in Nat
        /\ balance[a][c] >= 0 /\ balance[a][c] + delta[a][c] >= 0
    BY <1>0 DEF TypeOK, NoOverdraft, FeeGain
  <2> QED
    BY <2>1, <2>2
<1>4. CASE Save
  <2> SUFFICES ASSUME NEW a \in Addresses, NEW c \in Currencies
               PROVE  balance'[a][c] >= 0 /\ balance'[a][c] + delta'[a][c] >= 0
    BY DEF NoOverdraft
  <2>1. balance'[a][c] = balance[a][c] + delta[a][c] /\ delta'[a][c] = 0
    BY <1>4 DEF Save, DropProposal, NoDelta
  <2>2. /\ balance[a][c] \in Int /\ delta[a][c] \in Int
        /\ balance[a][c] + delta[a][c] >= 0
    BY <1>0 DEF TypeOK, NoOverdraft
  <2> QED
    BY <2>1, <2>2
<1>5. CASE Cancel \/ Restart
  <2> SUFFICES ASSUME NEW a \in Addresses, NEW c \in Currencies
               PROVE  balance'[a][c] >= 0 /\ balance'[a][c] + delta'[a][c] >= 0
    BY DEF NoOverdraft
  <2>1. balance' = balance /\ delta'[a][c] = 0
    BY <1>5 DEF Cancel, Restart, DropProposal, NoDelta, ledger
  <2>2. balance[a][c] \in Int /\ balance[a][c] >= 0
    BY <1>0 DEF TypeOK, NoOverdraft
  <2> QED
    BY <2>1, <2>2
<1>6. ASSUME NEW P \in SUBSET (Ops \ committed), NewProposal(P)
      PROVE  NoOverdraft'
  BY <1>1, <1>6 DEF NewProposal, ledger, changes
<1>7. ASSUME NEW o \in Ops, Validate(o) \/ Invalidate(o) \/ CheckDuplication(o)
      PROVE  NoOverdraft'
  BY <1>1, <1>7 DEF Validate, Invalidate, CheckDuplication, ledger, changes
<1>8. CASE WhenBlockSaved
  BY <1>1, <1>8 DEF WhenBlockSaved, ledger, changes
<1>9. CASE UNCHANGED vars
  BY <1>1, <1>9 DEF vars, ledger, changes
<1> QED
  BY <1>2, <1>3, <1>4, <1>5, <1>6, <1>7, <1>8, <1>9 DEF Next

(***************************************************************************)
(* The theorems                                                            *)
(***************************************************************************)

\* No proposal is under way while the hook of the last block runs.
LEMMA HookStep ==
    ASSUME IInv, [Next]_vars
    PROVE  (hook => proposed = {})'
PROOF
<1>0. hook => proposed = {}
  BY DEF IInv
<1>1. ASSUME NEW P \in SUBSET (Ops \ committed), NewProposal(P)
      PROVE  (hook => proposed = {})'
  BY <1>1 DEF NewProposal, pool
<1>2. ASSUME NEW o \in Ops,
             Validate(o) \/ Invalidate(o) \/ CheckDuplication(o) \/ Process(o)
      PROVE  (hook => proposed = {})'
  BY <1>0, <1>2 DEF Validate, Invalidate, CheckDuplication, Process, pool
<1>3. CASE Close \/ Cancel \/ Save \/ WhenBlockSaved \/ Restart
  BY <1>0, <1>3 DEF Close, Cancel, Save, WhenBlockSaved, Restart, DropProposal, pool
<1>4. CASE UNCHANGED vars
  BY <1>0, <1>4 DEF vars, pool
<1> QED
  BY <1>1, <1>2, <1>3, <1>4 DEF Next

\* The inductive invariant: the checks of every operation past PreProcess
\* still hold, those let in claim different things, and only their payers
\* lose, so no balance is overdrawn.
THEOREM Invariance == Spec => []IInv
PROOF
<1>1. Init => IInv
  BY InitInvariant
<1>2. IInv /\ [Next]_vars => IInv'
  <2> SUFFICES ASSUME IInv, [Next]_vars
               PROVE  IInv'
    OBVIOUS
  <2>1. TypeOK' /\ ChecksStillHold' /\ ClaimsAreDistinct'
    BY TypeStep, ChecksStep, ClaimsStep
  <2>2. OnlyPayersLose' /\ NoOverdraft' /\ (hook => proposed = {})'
    BY LosersStep, OverdraftStep, HookStep
  <2> QED
    BY <2>1, <2>2 DEF IInv
<1> QED
  BY <1>1, <1>2, PTL DEF Spec

\* Every variable keeps its type: in particular no fee is negative and every
\* policy in force is one that IsValid accepts.
THEOREM TypeCorrect == Spec => []TypeOK
PROOF
<1>1. IInv => TypeOK
  BY DEF IInv
<1> QED
  BY <1>1, Invariance, PTL

\* No account is ever overdrawn, in a block or in the block being made,
\* though every sender is checked against the last block alone.
THEOREM NoAccountIsOverdrawn == Spec => []NoOverdraft
PROOF
<1>1. IInv => NoOverdraft
  BY DEF IInv
<1> QED
  BY <1>1, Invariance, PTL

\* The states, the policies and the charge an operation was checked with are
\* those it is processed with.
THEOREM ChecksHold == Spec => []ChecksStillHold
PROOF
<1>1. IInv => ChecksStillHold
  BY DEF IInv
<1> QED
  BY <1>1, Invariance, PTL

\* Two operations let into a proposal never claim the same payer, currency or
\* new account: checkDuplication keeps its tables under the lock.
THEOREM ClaimsHold == Spec => []ClaimsAreDistinct
PROOF
<1>1. IInv => ClaimsAreDistinct
  BY DEF IInv
<1> QED
  BY <1>1, Invariance, PTL

\* The account or currency states an operation sets are those it claims; a
\* created account is a target, and only of operations that create.
LEMMA OverwritesClaims ==
    ASSUME NEW o \in Ops
    PROVE  Overwrites(o) \subseteq {DuplicationKey(o)} \cup Targets(o)
PROOF
<1>1. CASE o.type = "key-updater"
  BY <1>1 DEF Overwrites, DuplicationKey, IsCurrencyOperation, Payer, HasItems
<1>2. CASE IsCurrencyOperation(o)
  BY <1>2 DEF Overwrites, DuplicationKey, IsCurrencyOperation
<1>3. CASE o.type # "key-updater" /\ ~IsCurrencyOperation(o)
  BY <1>3 DEF Overwrites, IsCurrencyOperation
<1> QED
  BY <1>1, <1>2, <1>3

\* No two operations of a proposal set the same account or design state: two
\* that claim the same key are told apart by CheckDuplication, two that create
\* the same account by the new addresses, and one that updates an account from
\* one that creates it by their checks, since an account either exists or not.
LEMMA OneWriter == IInv => SingleWriter
PROOF
<1> SUFFICES ASSUME IInv, NEW o \in proposed, NEW p \in proposed, o # p,
                    {status[o], status[p]} \subseteq {"accepted", "processed"},
                    NEW x \in Overwrites(o), x \in Overwrites(p)
             PROVE  FALSE
  BY DEF SingleWriter
<1>1. o \in Ops /\ p \in Ops /\ LetIn(o) /\ LetIn(p)
  BY DEF IInv, TypeOK, LetIn
<1>2. DuplicationKey(o) # DuplicationKey(p) /\ Targets(o) \cap Targets(p) = {}
  BY <1>1 DEF IInv, ClaimsAreDistinct
<1>3. PreProcessOK(o) /\ PreProcessOK(p)
  BY <1>1 DEF IInv, ChecksStillHold, LetIn
<1>4. ASSUME NEW q \in Ops, NEW r \in Ops, PreProcessOK(q), PreProcessOK(r),
             x \in Overwrites(q), x \in Overwrites(r), x \in Targets(q),
             Targets(q) \cap Targets(r) = {}
      PROVE  FALSE
  <2>1. q.type = "create-accounts" /\ x \in Receivers(q) /\ x \in Addresses
    BY <1>4 DEF Targets, Receivers
  <2>2. ~Exists(x)
    BY <1>4, <2>1 DEF PreProcessOK, PayerOK, CreateAccountsOK, IsCurrencyOperation
  <2>3. x \notin Targets(r) /\ x = DuplicationKey(r)
    BY <1>4, OverwritesClaims
  <2>4. CASE IsCurrencyOperation(r)
    BY <2>1, <2>3, <2>4, SetsAssumption, OpsKinds, CurrencyRegisterFields,
       CurrencyPolicyUpdaterFields DEF DuplicationKey, IsCurrencyOperation
  <2>5. CASE ~IsCurrencyOperation(r)
    BY <1>4, <2>2, <2>3, <2>5 DEF PreProcessOK, PayerOK, DuplicationKey
  <2> QED
    BY <2>4, <2>5
<1> QED
  BY <1>1, <1>2, <1>3, <1>4, OverwritesClaims

\* An account or design state is never overwritten by a second operation of the
\* proposal, so it does not matter in what order the operations are processed.
THEOREM StatesHaveOneWriter == Spec => []SingleWriter
PROOF
  BY OneWriter, Invariance, PTL
=============================================================================
