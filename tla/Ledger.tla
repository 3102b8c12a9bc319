------------------------------- MODULE Ledger -------------------------------
(***************************************************************************)
(* What a chain of currency blocks promises: each block applies a set of   *)
(* operations to the states of the block before it, all at once.  Every    *)
(* operation of the set is good on its own against those states and those  *)
(* policies, no two of them claim the same account, currency or new        *)
(* address, and the fees they leave go to the receivers the policies name. *)
(*                                                                         *)
(* There are no processors, tables, locks, pools or hooks here.  The       *)
(* OperationProcessor module implements this one.                          *)
(***************************************************************************)
EXTENDS Operations

CONSTANTS
    Ops,            \* the operations clients have sent
    Genesis,        \* the account that first holds the money
    GenesisDesigns, \* the currencies at the start
    NoKeys,         \* no account
    NoDesign        \* no currency

VARIABLES
    account,  \* the keys of each account, or NoKeys
    balance,  \* what each account has of each currency
    design,   \* the design of each currency, or NoDesign
    committed \* the operations applied so far

vars == <<account, balance, design, committed>>

Init ==
    /\ account = [a \in Addresses |-> IF a = Genesis THEN KeysOf[a] ELSE NoKeys]
    /\ design = GenesisDesigns
    /\ balance = [a \in Addresses |-> [c \in Currencies |->
                    IF a = Genesis /\ design[c] # NoDesign THEN design[c].amount ELSE 0]]
    /\ committed = {}

-----------------------------------------------------------------------------
Exists(a) == account[a] # NoKeys
Registered(c) == design[c] # NoDesign

ChargeOf(o, c) == IF Registered(c) THEN Charge(o, design, c) ELSE NoCharge

\* An operation an account signs and pays for.
PaidFor(o) ==
    /\ Exists(Payer(o))
    /\ CheckThreshold(o.signs, account[Payer(o)])
    /\ \A c \in Used(o) : Registered(c) /\ ChargeOf(o, c).amount =< balance[Payer(o)][c]

Approved(o) == CheckFactSignsByPubs(o.signs, NodePubs, NodeThreshold)

GoodReceiver(f) == F!HasReceiver(f) => Exists(f.receiver)

Good(o) ==
    \/ /\ o.type = "transfers"
       /\ PaidFor(o)
       /\ \A r \in Receivers(o) : Exists(r)
    \/ /\ o.type = "create-accounts"
       /\ PaidFor(o)
       /\ \A r \in Receivers(o) : ~Exists(r)
       /\ \A r \in Receivers(o), c \in Used(o) :
            o.amounts[r][c] \in {0} \cup {n \in Nat : n >= design[c].policy.minBalance}
    \/ /\ o.type = "key-updater"
       /\ PaidFor(o)
       /\ account[o.target] # o.keys
    \/ /\ o.type = "currency-register"
       /\ Approved(o)
       /\ ~Registered(o.currency)
       /\ Exists(o.genesis)
       /\ GoodReceiver(o.design.policy.feeer)
    \/ /\ o.type = "currency-policy-updater"
       /\ Approved(o)
       /\ Registered(o.currency)
       /\ GoodReceiver(o.policy.feeer)

Compatible(B) ==
    \A o, p \in B : o # p =>
        /\ DuplicationKey(o) # DuplicationKey(p)
        /\ Targets(o) \cap Targets(p) = {}

-----------------------------------------------------------------------------
Received(B, a, c) == Total([o \in B |-> Credit(o, a, c)])

Issued(B, a, c) ==
    Total([o \in {p \in B : p.type = "currency-register" /\ p.genesis = a
                              /\ p.currency = c} |-> o.design.amount])

Paid(B, a, c) ==
    Total([o \in {p \in B : ~IsCurrencyOperation(p) /\ Payer(p) = a} |->
              ChargeOf(o, c).amount])

Fees(B, a, c) ==
    IF Registered(c) /\ F!HasReceiver(design[c].policy.feeer)
       /\ design[c].policy.feeer.receiver = a
    THEN Total([o \in B |-> ChargeOf(o, c).fee]) ELSE 0

\* One block of the chain.
Block(B) ==
    /\ committed' = committed \cup B
    /\ \A o \in B : Good(o)
    /\ Compatible(B)
    /\ balance' = [a \in Addresses |-> [c \in Currencies |->
          balance[a][c] + Received(B, a, c) + Issued(B, a, c) + Fees(B, a, c)
            - Paid(B, a, c)]]
    /\ account' = [a \in Addresses |->
          CASE \E o \in B : a \in Targets(o) -> KeysOf[a]
            [] \E o \in B : o.type = "key-updater" /\ o.target = a ->
                 (CHOOSE o \in B : o.type = "key-updater" /\ o.target = a).keys
            [] OTHER -> account[a]]
    /\ design' = [c \in Currencies |->
          CASE \E o \in B : o.type = "currency-register" /\ o.currency = c ->
                 (CHOOSE o \in B : o.type = "currency-register" /\ o.currency = c).design
            [] \E o \in B : o.type = "currency-policy-updater" /\ o.currency = c ->
                 [amount |-> design[c].amount,
                  policy |-> (CHOOSE o \in B : o.type = "currency-policy-updater"
                                                 /\ o.currency = c).policy]
            [] OTHER -> design[c]]

Next == \E B \in SUBSET (Ops \ committed) : B # {} /\ Block(B)

Spec == Init /\ [][Next]_vars
=============================================================================
