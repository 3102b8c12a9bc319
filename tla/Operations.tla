----------------------------- MODULE Operations -----------------------------
(***************************************************************************)
(* The operations a block may carry, and what each asks of the account     *)
(* that pays for it: the facts of currency/transfers.go,                   *)
(* create_accounts.go, keyupdater.go, currency_register.go and             *)
(* currency_policy_updater.go, with the fee computation the processors     *)
(* share (create_accounts_process.go).                                     *)
(*                                                                         *)
(* The items of a Transfers or CreateAccounts fact name each receiver once *)
(* and each currency once per receiver, with amounts over zero; they are a *)
(* matrix `amounts` of receivers and currencies in which 0 stands for no   *)
(* amount.  An address is derived from the keys it is created with, so a   *)
(* new account is named by its address and KeysOf gives its keys.          *)
(***************************************************************************)
EXTENDS Keys

CONSTANTS
    Addresses,    \* addresses of accounts, existing or to be created
    Currencies,   \* currency ids
    KeysOf,       \* the keys each address is derived from
    NewKeys,      \* the other keys a KeyUpdater may give an account
    NodePubs,     \* public keys of the suffrage nodes
    NodeThreshold \* suffrage signatures a currency operation needs

F == INSTANCE Feeer

Policies == [minBalance : Nat, feeer : F!Feeers]

Designs == [amount : Nat \ {0}, policy : Policies]

\* Every keys value an account may have.
AccountKeys == {KeysOf[a] : a \in Addresses} \cup NewKeys

Matrix == [Addresses -> [Currencies -> Nat]]

\* The facts that pass their IsValid.
AmountsFacts ==
    {o \in [type : {"transfers", "create-accounts"}, sender : Addresses,
            amounts : Matrix, signs : SUBSET Pubkeys] :
        \A c \in Currencies : o.amounts[o.sender][c] = 0}

KeyUpdaterFacts ==
    [type : {"key-updater"}, target : Addresses, keys : AccountKeys,
     currency : Currencies, signs : SUBSET Pubkeys]

CurrencyRegisterFacts ==
    [type : {"currency-register"}, currency : Currencies, design : Designs,
     genesis : Addresses, signs : SUBSET Pubkeys]

CurrencyPolicyUpdaterFacts ==
    [type : {"currency-policy-updater"}, currency : Currencies,
     policy : Policies, signs : SUBSET Pubkeys]

Facts == AmountsFacts \cup KeyUpdaterFacts
           \cup CurrencyRegisterFacts \cup CurrencyPolicyUpdaterFacts

ASSUME KeysAssumption ==
    /\ IsFiniteSet(Pubkeys)
    /\ KeysOf \in [Addresses -> AnyKeys]
    /\ NewKeys \subseteq AnyKeys
    /\ \A k \in AccountKeys : KeysIsValid(k)
    /\ NodePubs \subseteq Pubkeys
    /\ NodeThreshold \in Nat

ASSUME SetsAssumption ==
    /\ IsFiniteSet(Addresses)
    /\ IsFiniteSet(Currencies)
    /\ Addresses \cap Currencies = {}

-----------------------------------------------------------------------------
HasItems(o) == o.type \in {"transfers", "create-accounts"}

IsCurrencyOperation(o) ==
    o.type \in {"currency-register", "currency-policy-updater"}

\* The account that pays for o.
Payer(o) == IF HasItems(o) THEN o.sender ELSE o.target

\* What an operation claims for itself in a proposal: its payer, or the
\* currency it registers or updates (checkDuplication).
DuplicationKey(o) == IF IsCurrencyOperation(o) THEN o.currency ELSE Payer(o)

Receivers(o) == {r \in Addresses : \E c \in Currencies : o.amounts[r][c] > 0}

\* CreateAccountsFact.Targets
Targets(o) == IF o.type = "create-accounts" THEN Receivers(o) ELSE {}

\* The currencies o moves or pays its fee in.
Used(o) ==
    CASE HasItems(o) ->
           {c \in Currencies : \E r \in Addresses : o.amounts[r][c] > 0}
      [] o.type = "key-updater" -> {o.currency}
      [] OTHER -> {}

Credit(o, a, c) == IF HasItems(o) THEN o.amounts[a][c] ELSE 0

\* The fee on one amount of an item; a currency the item does not name has
\* no amount and no fee.
ItemFee(feeer, am) == IF am = 0 THEN 0 ELSE F!Fee(feeer, am)

\* Mutant: the fee is collected but not charged.
ItemsFeeUncharged(o, feeer, c) ==
    [amount |-> Total([r \in Addresses |-> o.amounts[r][c]]),
     fee    |-> Total([r \in Addresses |-> ItemFee(feeer, o.amounts[r][c])])]

\* CalculateItemsFee for one currency c under its feeer: what the sender is
\* charged in all, and the part of it that is fee.
ItemsFee(o, feeer, c) ==
    LET fee == Total([r \in Addresses |-> ItemFee(feeer, o.amounts[r][c])])
    IN  [amount |-> Total([r \in Addresses |-> o.amounts[r][c]]) + fee,
         fee    |-> fee]

\* A KeyUpdater pays the fee of a zero amount.
KeyUpdaterFee(feeer) == [amount |-> F!Fee(feeer, 0), fee |-> F!Fee(feeer, 0)]

NoCharge == [amount |-> 0, fee |-> 0]

\* What o is charged in currency c by the designs ds of the currencies.
Charge(o, ds, c) ==
    IF c \notin Used(o) THEN NoCharge
    ELSE IF HasItems(o) THEN ItemsFee(o, ds[c].policy.feeer, c)
    ELSE KeyUpdaterFee(ds[c].policy.feeer)
=============================================================================
