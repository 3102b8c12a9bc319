------------------------------ MODULE Genesis ------------------------------
(***************************************************************************)
(* The genesis currencies, from the node's configuration to the ledger of  *)
(* the genesis block (cmds/design.go, cmds/init_node.go,                   *)
(* currency/genesis_currencies.go, genesis_currencies_process.go).         *)
(*                                                                         *)
(* A configuration names the keys of one account and a list of currencies, *)
(* each with an amount, a minimum balance and a feeer.  Its YAML scalars   *)
(* are records: an unquoted integer, a quoted one, or a float as the       *)
(* fraction that is written.  A float64 holds the fractions near enough to *)
(* a multiple of 1/FloatDen; it is finer in the program, and finer still   *)
(* near zero.  What is built from an accepted configuration are the        *)
(* records of Operations.                                                  *)
(***************************************************************************)
EXTENDS Operations, Sequences

CONSTANTS
    MaxInt64,   \* the largest signed number an unquoted integer may hold
    FloatDen,   \* a float64 is a multiple of 1/FloatDen
    Exponent,   \* floats from here on are written with an exponent: 10^6
    NoAccount,  \* a configuration without account-keys
    NoCurrency, \* a currency without an id
    NoKeys,     \* no account state
    NoDesign    \* no currency design state

ASSUME GenesisConfigAssumption ==
    /\ MaxInt64 \in Nat \ {0}
    /\ FloatDen \in Nat \ {0}
    /\ Exponent \in 2 .. (MaxInt64 + 1)
    /\ NoAccount \notin AnyKeys
    /\ NoCurrency \notin Currencies
    /\ NoKeys \notin AnyKeys
    /\ NoDesign \notin Designs

Absent == [kind |-> "absent"]

\* The scalars YAML reads: an unquoted integer is an int64 or a uint64, and a
\* larger one a float.
Scalars ==
    {Absent}
      \cup [kind : {"int"}, value : -(MaxInt64 + 1) .. (2 * MaxInt64 + 1)]
      \cup [kind : {"text"}, value : Int]
      \cup [kind : {"float"}, num : Int, den : Nat \ {0}]

\* A configured currency, as it is read.
IsCurrencyDesign(de) ==
    /\ de.currency \in Currencies \cup {NoCurrency}
    /\ {de.balance, de.minBalance} \subseteq Scalars
    /\ de.feeer.type = "fixed" => de.feeer.amount \in Scalars
    /\ de.feeer.type = "ratio" => {de.feeer.ratio, de.feeer.min, de.feeer.max} \subseteq Scalars

IsNumber(v) == v.kind \in {"int", "text"}

\* NewBigFromInterface: an unquoted integer past int64 is a uint64, and
\* int64(t) wraps it; a quoted one has any size.
BigFromInterface(v) ==
    IF v.kind = "int" /\ v.value > MaxInt64 THEN v.value - 2 * (MaxInt64 + 1)
    ELSE v.value

\* The float64 that YAML makes of a literal: the nearest.
Float64(v) ==
    [kind |-> "float", num |-> (2 * v.num * FloatDen + v.den) \div (2 * v.den), den |-> FloatDen]

\* A float that is written without point and exponent.
IsPlain(f) == f.num % f.den = 0 /\ f.num \div f.den \in (1 - Exponent) .. (Exponent - 1)

\* Mutant: a float stays one.
FloatAgain(v) == IF v.kind = "float" THEN Float64(v) ELSE v

\* A scalar that is read, written and read again: a plain float comes back as
\* an integer.
Remarshalled(v) ==
    IF v.kind # "float" THEN v
    ELSE IF IsPlain(Float64(v))
         THEN [kind |-> "int", value |-> Float64(v).num \div FloatDen] ELSE Float64(v)

RemarshalledFeeer(de) ==
    CASE de.type = "fixed" -> [type |-> "fixed", amount |-> Remarshalled(de.amount)]
      [] de.type = "ratio" ->
           [type |-> "ratio", ratio |-> Remarshalled(de.ratio),
            min |-> Remarshalled(de.min), max |-> Remarshalled(de.max)]
      [] OTHER -> de

RemarshalledCurrency(de) ==
    [currency   |-> de.currency,
     balance    |-> Remarshalled(de.balance),
     minBalance |-> Remarshalled(de.minBalance),
     feeer      |-> RemarshalledFeeer(de.feeer)]

\* The genesis operation is marshalled to YAML, as a whole, and read again.
ReadAgain(conf) ==
    [keys       |-> conf.keys,
     currencies |-> [i \in DOMAIN conf.currencies |-> RemarshalledCurrency(conf.currencies[i])]]

\* FeeerDesign.IsValid; a currency without a feeer has the nil one.
FeeerDesignIsValid(de) ==
    \/ de.type = "nil"
    \/ de.type = "fixed" /\ IsNumber(de.amount)
    \/ /\ de.type = "ratio"
       /\ de.ratio.kind = "float"
       /\ IsNumber(de.min)
       /\ de.max = Absent \/ IsNumber(de.max)

\* CurrencyDesign.IsValid of the configuration, as it is read again.
CurrencyDesignIsValid(de) ==
    /\ de.currency # NoCurrency
    /\ de.balance = Absent \/ IsNumber(de.balance)
    /\ de.minBalance = Absent \/ IsNumber(de.minBalance)
    /\ FeeerDesignIsValid(de.feeer)

GenesisDesignIsValid(conf) ==
    /\ conf.keys # NoAccount
    /\ KeysIsValid(conf.keys)
    /\ \A i \in DOMAIN conf.currencies : CurrencyDesignIsValid(conf.currencies[i])

\* NewAddressFromKeys
AddressFromKeys(keys) == CHOOSE a \in Addresses : KeysOf[a] = keys

\* loadGenesisCurrenciesFeeer: the fees of the genesis currencies go to the
\* genesis account.
LoadFeeer(de, ga) ==
    CASE de.type = "nil" -> [type |-> "nil"]
      [] de.type = "fixed" ->
           [type |-> "fixed", receiver |-> ga, amount |-> BigFromInterface(de.amount)]
      [] de.type = "ratio" ->
           [type |-> "ratio", receiver |-> ga, num |-> de.ratio.num, den |-> de.ratio.den,
            min |-> BigFromInterface(de.min),
            max |-> IF de.max = Absent THEN F!UnlimitedMaxFeeAmount
                    ELSE BigFromInterface(de.max)]

\* loadCurrencyDesign
LoadCurrencyDesign(de, ga) ==
    [amount |-> IF de.balance = Absent THEN 0 ELSE de.balance.value,
     policy |-> [minBalance |-> IF de.minBalance = Absent THEN 0 ELSE de.minBalance.value,
                 feeer |-> LoadFeeer(de.feeer, ga)]]

\* GenesisOperationsHandlerGenesisCurrencies: the fact of a valid configuration.
GenesisCurrenciesFact(conf) ==
    LET currencies == ReadAgain(conf).currencies
    IN  [keys |-> conf.keys,
         cs   |-> [i \in DOMAIN currencies |->
                     [currency |-> currencies[i].currency,
                      design   |-> LoadCurrencyDesign(currencies[i], AddressFromKeys(conf.keys))]]]

\* Mutant: two designs may be of the same currency.
FactIsValidTwice(fact) ==
    /\ fact.cs # <<>>
    /\ \A i \in DOMAIN fact.cs : fact.cs[i].design \in Designs

\* GenesisCurrenciesFact.IsValid
FactIsValid(fact) ==
    /\ fact.cs # <<>>
    /\ \A i \in DOMAIN fact.cs : fact.cs[i].design \in Designs
    /\ \A i, j \in DOMAIN fact.cs : i # j => fact.cs[i].currency # fact.cs[j].currency

\* A configuration that the init command takes.
Accepted(conf) ==
    /\ GenesisDesignIsValid(ReadAgain(conf))
    /\ FactIsValid(GenesisCurrenciesFact(conf))

DesignsOf(fact, c) == {i \in DOMAIN fact.cs : fact.cs[i].currency = c}

NoLedger ==
    [account |-> [a \in Addresses |-> NoKeys],
     held    |-> {},
     balance |-> [a \in Addresses |-> [c \in Currencies |-> 0]],
     design  |-> [c \in Currencies |-> NoDesign]]

\* GenesisCurrencies.Process on an empty ledger: the account, and for each
\* currency its whole amount on the account and its design.  Two amounts of
\* one currency would be added by the state pool and the last design kept.
Process(fact) ==
    LET ga == AddressFromKeys(fact.keys)
        registered == {c \in Currencies : DesignsOf(fact, c) # {}}
    IN  [account |-> [NoLedger.account EXCEPT ![ga] = fact.keys],
         held    |-> {<<ga, c>> : c \in registered},
         balance |-> [NoLedger.balance EXCEPT ![ga] = [c \in Currencies |->
                        Total([i \in DesignsOf(fact, c) |-> fact.cs[i].design.amount])]],
         design  |-> [c \in Currencies |->
                        IF c \notin registered THEN NoDesign
                        ELSE fact.cs[CHOOSE i \in DesignsOf(fact, c) :
                               \A j \in DesignsOf(fact, c) : j =< i].design]]
=============================================================================
