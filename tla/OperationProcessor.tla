------------------------- MODULE OperationProcessor -------------------------
(***************************************************************************)
(* A suffrage node processing proposals into blocks of currency            *)
(* operations: currency/operation_processor.go, the *_process.go of each   *)
(* operation, fee.go, amount_state.go, currency_pool.go, and the hooks of  *)
(* cmds/run_node.go and cmds/base.go that keep the currency pool.          *)
(*                                                                         *)
(* A proposal is a set of operations.  Each is checked by its processor    *)
(* against the states of the last block (Validate), claims its place in    *)
(* the proposal under the lock (CheckDuplication) and adds its changes to  *)
(* the state pool (Process).  The operations of a proposal interleave      *)
(* freely: only CheckDuplication and the writing of states hold a lock.    *)
(* Close pays the collected fees, Save stores the block, and the           *)
(* block-saved hook then loads the changed currencies into the pool the    *)
(* next proposal reads.                                                    *)
(*                                                                         *)
(* External, modelled from its use here: the state pool of mitum (Get      *)
(* answers from the last block whatever was Set since, Set of a balance    *)
(* is merged, Set of any other state overwrites), the driver that proposes *)
(* an operation only if no block holds it yet, and the storage of blocks.  *)
(***************************************************************************)
EXTENDS Operations

CONSTANTS
    Ops,            \* the operations clients have sent
    MaxProposalOps, \* how many of them a proposal may carry
    Genesis,        \* the account of the GenesisCurrencies operation
    GenesisDesigns, \* the currencies it registers
    LoadMayFail,    \* whether the block-saved hook's query may fail
    NoKeys,         \* no account state
    NoDesign        \* no currency design state

ASSUME OpsAssumption ==
    /\ Ops \subseteq Facts
    /\ IsFiniteSet(Ops)
    /\ MaxProposalOps \in Nat
    /\ LoadMayFail \in BOOLEAN

ASSUME GenesisAssumption ==
    /\ Genesis \in Addresses
    /\ GenesisDesigns \in [Currencies -> Designs \cup {NoDesign}]
    /\ \A c \in Currencies : GenesisDesigns[c] # NoDesign =>
         LET f == GenesisDesigns[c].policy.feeer
         IN  F!HasReceiver(f) => f.receiver = Genesis

ASSUME NoValuesAssumption == NoKeys \notin AnyKeys /\ NoDesign \notin Designs

VARIABLES
    \* the states of the last block
    account,    \* the keys of each account, or NoKeys
    held,       \* the <<address, currency>> that have a balance state
    balance,    \* the amount of each balance state, 0 where there is none
    design,     \* the design of each currency, or NoDesign
    committed,  \* the operations that the blocks hold
    \* the currency pool and the hook that keeps it
    cp,         \* CurrencyPool: the designs known to the processors
    hook,       \* TRUE from the saving of a block to its hook's end
    saved,      \* the currencies whose design the last block set
    \* the proposal under way
    proposed,   \* its operations, {} when there is none
    status,     \* how far each operation is
    required,   \* what PreProcess computed each is to be charged
    duplicated, \* the keys claimed by operations of the proposal
    newAddress, \* the addresses claimed by operations of the proposal
    fee,        \* the fees collected, by currency
    \* the state pool of the proposal
    delta,      \* what the merged AmountStates add to each balance
    touched,    \* the balance states that were Set
    newAccount, \* the keys Set in account states, or NoKeys
    newDesign,  \* the designs Set, or NoDesign
    closed      \* TRUE once Close has paid the fees

ledger   == <<account, held, balance, design, committed>>
pool     == <<cp, hook, saved>>
tables   == <<duplicated, newAddress, fee>>
changes  == <<delta, touched, newAccount, newDesign, closed>>
vars     == <<ledger, pool, proposed, status, required, tables, changes>>

Statuses == {"proposed", "validated", "accepted", "processed", "rejected"}

NoDelta == [a \in Addresses |-> [c \in Currencies |-> 0]]
NoFee   == [c \in Currencies |-> 0]
NoNewAccounts == [a \in Addresses |-> NoKeys]
NoNewDesigns  == [c \in Currencies |-> NoDesign]

\* The account, currency and fee receiver lookups the processors share.
Exists(a)      == account[a] # NoKeys
Registered(c)  == cp[c] # NoDesign

\* Mutant: the receiver of a new policy's fees is not looked up.
ReceiverUnchecked(f) == TRUE

ReceiverIsOK(f) == F!HasReceiver(f) => Exists(f.receiver)

-----------------------------------------------------------------------------
(***************************************************************************)
(* The block of GenesisCurrencies: one account, which holds the whole      *)
(* supply of every currency registered with it.                            *)
(***************************************************************************)
GenesisLedger ==
    /\ account = [NoNewAccounts EXCEPT ![Genesis] = KeysOf[Genesis]]
    /\ design = GenesisDesigns
    /\ held = {<<Genesis, c>> : c \in {d \in Currencies : GenesisDesigns[d] # NoDesign}}
    /\ balance = [a \in Addresses |-> [c \in Currencies |->
                    IF <<a, c>> \in held THEN GenesisDesigns[c].amount ELSE 0]]
    /\ committed = {}

\* The tables OperationProcessor.New makes, and the empty state pool.
FreshTables ==
    /\ proposed = {}
    /\ status = [o \in Ops |-> "proposed"]
    /\ required = [o \in Ops |-> [c \in Currencies |-> NoCharge]]
    /\ duplicated = {}
    /\ newAddress = {}
    /\ fee = NoFee
    /\ delta = NoDelta
    /\ touched = {}
    /\ newAccount = NoNewAccounts
    /\ newDesign = NoNewDesigns
    /\ closed = FALSE

\* The node starts on the genesis block: HookLoadCurrencies loads it all.
Init ==
    /\ GenesisLedger
    /\ cp = GenesisDesigns
    /\ hook = FALSE
    /\ saved = {}
    /\ FreshTables

-----------------------------------------------------------------------------
\* Mutant: the next proposal does not wait for the hook of the last block.
NewProposalAtOnce(P) ==
    /\ proposed = {}
    /\ P # {}
    /\ Cardinality(P) =< MaxProposalOps
    /\ proposed' = P
    /\ UNCHANGED <<ledger, pool, status, required, tables, changes>>

\* OperationProcessor.New: a proposal of operations that no block holds starts
\* when the last one is done with and the hook of the last block has returned.
NewProposal(P) ==
    /\ proposed = {}
    /\ ~hook
    /\ P # {}
    /\ Cardinality(P) =< MaxProposalOps
    /\ proposed' = P
    /\ UNCHANGED <<ledger, pool, status, required, tables, changes>>

-----------------------------------------------------------------------------
(***************************************************************************)
(* PreProcess of each processor: the checks against the last block's       *)
(* states and the currency pool.                                           *)
(***************************************************************************)
\* Mutant: a signature of any of the keys will do.
SignedByAKey(o) == o.signs \subseteq Members(account[Payer(o)])

SignedByKeys(o) == CheckThreshold(o.signs, account[Payer(o)])

\* CheckEnoughBalance for what o is charged.
EnoughBalance(o) ==
    \A c \in Used(o) :
        /\ <<Payer(o), c>> \in held
        /\ Charge(o, cp, c).amount =< balance[Payer(o)][c]

\* Mutant: the receivers are not looked up.
TransfersToAnyone(o) == TRUE

TransfersOK(o) == \A r \in Receivers(o) : Exists(r)

\* Mutant: the least balance of a new account is not looked at.
CreateAccountsUnfunded(o) == \A r \in Receivers(o) : ~Exists(r)

CreateAccountsOK(o) ==
    /\ \A r \in Receivers(o) : ~Exists(r)
    /\ \A r \in Receivers(o), c \in Currencies :
         o.amounts[r][c] > 0 => o.amounts[r][c] >= cp[c].policy.minBalance

KeyUpdaterOK(o) == account[o.target] # o.keys

\* The three operations an account signs and pays for.
PayerOK(o) ==
    /\ Exists(Payer(o))
    /\ \A c \in Used(o) : Registered(c)
    /\ EnoughBalance(o)
    /\ CASE o.type = "transfers" -> TransfersOK(o)
         [] o.type = "create-accounts" -> CreateAccountsOK(o)
         [] OTHER -> KeyUpdaterOK(o)
    /\ SignedByKeys(o)

CurrencyRegisterOK(o) ==
    /\ ~Registered(o.currency)
    /\ Exists(o.genesis)
    /\ ReceiverIsOK(o.design.policy.feeer)
    /\ design[o.currency] = NoDesign
    /\ <<o.genesis, o.currency>> \notin held

CurrencyPolicyUpdaterOK(o) ==
    /\ Registered(o.currency)
    /\ ReceiverIsOK(o.policy.feeer)
    /\ design[o.currency] # NoDesign

SuffrageOK(o) ==
    /\ NodePubs # {}
    /\ CheckFactSignsByPubs(o.signs, NodePubs, NodeThreshold)
    /\ IF o.type = "currency-register" THEN CurrencyRegisterOK(o)
       ELSE CurrencyPolicyUpdaterOK(o)

PreProcessOK(o) == IF IsCurrencyOperation(o) THEN SuffrageOK(o) ELSE PayerOK(o)

SetStatus(o, s) == status' = [status EXCEPT ![o] = s]

\* PreProcess of o's processor keeps what it computed for Process to use.
Validate(o) ==
    /\ o \in proposed
    /\ status[o] = "proposed"
    /\ PreProcessOK(o)
    /\ required' = [required EXCEPT ![o] = [c \in Currencies |-> Charge(o, cp, c)]]
    /\ SetStatus(o, "validated")
    /\ UNCHANGED <<ledger, pool, proposed, tables, changes>>

Invalidate(o) ==
    /\ o \in proposed
    /\ status[o] = "proposed"
    /\ ~PreProcessOK(o)
    /\ SetStatus(o, "rejected")
    /\ UNCHANGED <<ledger, pool, proposed, required, tables, changes>>

-----------------------------------------------------------------------------
(***************************************************************************)
(* checkDuplication and checkNewAddressDuplication, under the lock.  The   *)
(* key is claimed before the new addresses are looked at, so an operation  *)
(* turned down for an address keeps the key it claimed.                    *)
(***************************************************************************)
Reject(o) == SetStatus(o, "rejected") /\ UNCHANGED newAddress

\* Mutants: the new addresses are not kept, or the claimed key is kept with
\* them.
AcceptForgetfully(o) == SetStatus(o, "accepted") /\ UNCHANGED newAddress

AcceptInWrongTable(o) ==
    SetStatus(o, "accepted") /\ newAddress' = newAddress \cup {DuplicationKey(o)}

Accept(o) == SetStatus(o, "accepted") /\ newAddress' = newAddress \cup Targets(o)

\* Mutants: senders are not looked up among the claimed keys, or operations
\* other than those with items claim nothing.
CheckAddressesOnly(o) ==
    /\ o \in proposed
    /\ status[o] = "validated"
    /\ duplicated' = duplicated \cup {DuplicationKey(o)}
    /\ IF Targets(o) \cap newAddress # {} THEN Reject(o) ELSE Accept(o)
    /\ UNCHANGED <<ledger, pool, proposed, required, fee, changes>>

CheckSendersOnly(o) ==
    /\ o \in proposed
    /\ status[o] = "validated"
    /\ duplicated' = duplicated \cup (IF HasItems(o) THEN {DuplicationKey(o)} ELSE {})
    /\ IF HasItems(o) /\ (DuplicationKey(o) \in duplicated \/ Targets(o) \cap newAddress # {})
       THEN Reject(o) ELSE Accept(o)
    /\ UNCHANGED <<ledger, pool, proposed, required, fee, changes>>

CheckDuplication(o) ==
    /\ o \in proposed
    /\ status[o] = "validated"
    /\ duplicated' = duplicated \cup {DuplicationKey(o)}
    /\ IF DuplicationKey(o) \in duplicated \/ Targets(o) \cap newAddress # {}
       THEN Reject(o) ELSE Accept(o)
    /\ UNCHANGED <<ledger, pool, proposed, required, fee, changes>>

-----------------------------------------------------------------------------
(***************************************************************************)
(* Process of each processor, with setState: what the operation adds to    *)
(* and takes from each balance, the states it sets, the fee it leaves.     *)
(***************************************************************************)
Gain(o, a, c) ==
    IF o.type = "currency-register"
    THEN IF a = o.genesis /\ c = o.currency THEN o.design.amount ELSE 0
    ELSE Credit(o, a, c)

Loss(o, a, c) ==
    IF ~IsCurrencyOperation(o) /\ a = Payer(o) THEN required[o][c].amount ELSE 0

\* The balance states setState is given.
BalancesSet(o) ==
    {ac \in Addresses \X Currencies :
        \/ Gain(o, ac[1], ac[2]) > 0
        \/ ~IsCurrencyOperation(o) /\ ac[1] = Payer(o) /\ ac[2] \in Used(o)}

AccountsSet(o) ==
    CASE o.type = "key-updater" -> [newAccount EXCEPT ![o.target] = o.keys]
      [] o.type = "create-accounts" ->
           [a \in Addresses |-> IF a \in Receivers(o) THEN KeysOf[a]
                                ELSE newAccount[a]]
      [] OTHER -> newAccount

DesignsSet(o) ==
    CASE o.type = "currency-register" -> [newDesign EXCEPT ![o.currency] = o.design]
      [] o.type = "currency-policy-updater" ->
           [newDesign EXCEPT ![o.currency] =
               [amount |-> design[o.currency].amount, policy |-> o.policy]]
      [] OTHER -> newDesign

Process(o) ==
    /\ o \in proposed
    /\ status[o] = "accepted"
    /\ delta' = [a \in Addresses |-> [c \in Currencies |->
                    delta[a][c] + Gain(o, a, c) - Loss(o, a, c)]]
    /\ touched' = touched \cup BalancesSet(o)
    /\ newAccount' = AccountsSet(o)
    /\ newDesign' = DesignsSet(o)
    /\ fee' = [c \in Currencies |-> fee[c] + required[o][c].fee]
    /\ SetStatus(o, "processed")
    /\ UNCHANGED <<ledger, pool, proposed, required, duplicated, newAddress, closed>>

-----------------------------------------------------------------------------
(***************************************************************************)
(* Close: the FeeOperation pays the fees of each currency to the receiver  *)
(* its policy names.  FeeOperationProcessor.Process fails, and Close with  *)
(* it, for a currency that is not registered or a receiver that does not   *)
(* exist.                                                                  *)
(***************************************************************************)
AllDone == \A o \in proposed : status[o] \in {"processed", "rejected"}

FeeReceiver(c) == cp[c].policy.feeer.receiver

FeeIsPayable(c) ==
    /\ Registered(c)
    /\ F!HasReceiver(cp[c].policy.feeer)
    /\ Exists(FeeReceiver(c))

FeeGain(a, c) == IF fee[c] > 0 /\ a = FeeReceiver(c) THEN fee[c] ELSE 0

Close ==
    /\ proposed # {}
    /\ ~closed
    /\ AllDone
    /\ \A c \in Currencies : fee[c] > 0 => FeeIsPayable(c)
    /\ delta' = [a \in Addresses |-> [c \in Currencies |-> delta[a][c] + FeeGain(a, c)]]
    /\ touched' = touched \cup {<<FeeReceiver(c), c>> : c \in {d \in Currencies : fee[d] > 0}}
    /\ closed' = TRUE
    /\ UNCHANGED <<ledger, pool, proposed, status, required, tables,
                   newAccount, newDesign>>

\* Mutant: the collected fees are carried over to the next proposal.
DropKeepingFees ==
    /\ proposed' = {}
    /\ status' = [o \in Ops |-> "proposed"]
    /\ required' = [o \in Ops |-> [c \in Currencies |-> NoCharge]]
    /\ duplicated' = {}
    /\ newAddress' = {}
    /\ UNCHANGED fee
    /\ delta' = NoDelta
    /\ touched' = {}
    /\ newAccount' = NoNewAccounts
    /\ newDesign' = NoNewDesigns
    /\ closed' = FALSE

\* The next proposal gets tables and a state pool of its own.
DropProposal ==
    /\ proposed' = {}
    /\ status' = [o \in Ops |-> "proposed"]
    /\ required' = [o \in Ops |-> [c \in Currencies |-> NoCharge]]
    /\ duplicated' = {}
    /\ newAddress' = {}
    /\ fee' = NoFee
    /\ delta' = NoDelta
    /\ touched' = {}
    /\ newAccount' = NoNewAccounts
    /\ newDesign' = NoNewDesigns
    /\ closed' = FALSE

\* Cancel: consensus went another way and the state pool is thrown away.
Cancel ==
    /\ proposed # {}
    /\ DropProposal
    /\ UNCHANGED <<ledger, pool>>

\* AmountState.Merge of each balance, and the other states as they were Set.
Save ==
    /\ closed
    /\ account' = [a \in Addresses |->
                      IF newAccount[a] # NoKeys THEN newAccount[a] ELSE account[a]]
    /\ held' = held \cup touched
    /\ balance' = [a \in Addresses |-> [c \in Currencies |-> balance[a][c] + delta[a][c]]]
    /\ design' = [c \in Currencies |->
                     IF newDesign[c] # NoDesign THEN newDesign[c] ELSE design[c]]
    /\ committed' = committed \cup {o \in proposed : status[o] = "processed"}
    /\ hook' = TRUE
    /\ saved' = {c \in Currencies : newDesign[c] # NoDesign}
    /\ DropProposal
    /\ UNCHANGED cp

-----------------------------------------------------------------------------
\* CurrencyPool.Set of the designs of S.
SetDesigns(S) ==
    cp' = [c \in Currencies |-> IF c \in S THEN design[c] ELSE cp[c]]

\* whenBlockSaved: LoadCurrenciesFromDatabase sets the designs from the
\* saved block on.  When a query fails the hook logs the error and returns;
\* the designs it had not come to are never loaded by a later hook.
WhenBlockSaved ==
    /\ hook
    /\ \E S \in SUBSET saved :
         /\ S # saved => LoadMayFail
         /\ SetDesigns(S)
    /\ hook' = FALSE
    /\ saved' = {}
    /\ UNCHANGED <<ledger, proposed, status, required, tables, changes>>

\* The node stops at any point and starts again: what was not saved is gone,
\* and HookLoadCurrencies loads every design.
Restart ==
    /\ SetDesigns(Currencies)
    /\ hook' = FALSE
    /\ saved' = {}
    /\ DropProposal
    /\ UNCHANGED ledger

Next ==
    \/ \E P \in SUBSET (Ops \ committed) : NewProposal(P)
    \/ \E o \in Ops : \/ Validate(o)
                      \/ Invalidate(o)
                      \/ CheckDuplication(o)
                      \/ Process(o)
    \/ Close
    \/ Cancel
    \/ Save
    \/ WhenBlockSaved
    \/ Restart

Spec == Init /\ [][Next]_vars

-----------------------------------------------------------------------------
\* Type invariant: balances and merged changes are integers, every state has
\* the shape its StateValue has, and an operation's charge is computed.
TypeOK ==
    /\ account \in [Addresses -> AccountKeys \cup {NoKeys}]
    /\ held \subseteq Addresses \X Currencies
    /\ balance \in [Addresses -> [Currencies -> Int]]
    /\ design \in [Currencies -> Designs \cup {NoDesign}]
    /\ committed \subseteq Ops
    /\ cp \in [Currencies -> Designs \cup {NoDesign}]
    /\ hook \in BOOLEAN
    /\ saved \subseteq Currencies
    /\ proposed \subseteq Ops
    /\ status \in [Ops -> Statuses]
    /\ required \in [Ops -> [Currencies -> [amount : Nat, fee : Nat]]]
    /\ duplicated \subseteq Addresses \cup Currencies
    /\ newAddress \subseteq Addresses
    /\ fee \in [Currencies -> Nat]
    /\ delta \in [Addresses -> [Currencies -> Int]]
    /\ touched \subseteq Addresses \X Currencies
    /\ newAccount \in [Addresses -> AccountKeys \cup {NoKeys}]
    /\ newDesign \in [Currencies -> Designs \cup {NoDesign}]
    /\ closed \in BOOLEAN

\* No balance goes below zero, in the blocks or in the state pool: the
\* processors check a sender against the last block only, so this rests on
\* one paying operation per account in a proposal, whatever the order in
\* which the operations are checked and processed.
NoOverdraft ==
    \A a \in Addresses, c \in Currencies :
        /\ balance[a][c] >= 0
        /\ balance[a][c] + delta[a][c] >= 0

\* What the blocks and the state pool hold of a currency: its balances, and
\* the fees Process has taken and Close has not paid yet.
InFlight(c) ==
    Total([a \in Addresses |-> balance[a][c] + delta[a][c]])
      + (IF closed THEN 0 ELSE fee[c])

Supply(de) == IF de = NoDesign THEN 0 ELSE de.amount

\* Money is neither made nor lost: the balances of a currency add up to the
\* supply it was registered with, in every block and at every moment of a
\* proposal, fees included, while operations and the registration of the
\* currency itself are processed in any order.
Conservation ==
    \A c \in Currencies :
        /\ Total([a \in Addresses |-> balance[a][c]]) = Supply(design[c])
        /\ InFlight(c) = Supply(IF newDesign[c] # NoDesign THEN newDesign[c] ELSE design[c])

\* The account and design states an operation sets.
Overwrites(o) ==
    CASE o.type = "key-updater" -> {o.target}
      [] IsCurrencyOperation(o) -> {o.currency}
      [] OTHER -> Targets(o)

\* The state pool merges balances but overwrites account and design states:
\* no two operations let into a proposal set the same one.
SingleWriter ==
    \A o, p \in proposed :
        /\ o # p
        /\ {status[o], status[p]} \subseteq {"accepted", "processed"}
        => Overwrites(o) \cap Overwrites(p) = {}

\* A balance state belongs to an account that exists and a currency that is
\* registered, in the blocks and in the block being made.
BalanceHasOwner ==
    \A a \in Addresses, c \in Currencies :
        <<a, c>> \in held \cup touched =>
            /\ account[a] # NoKeys \/ newAccount[a] # NoKeys
            /\ design[c] # NoDesign \/ newDesign[c] # NoDesign

\* Close never fails: whatever fees the operations of a proposal left can be
\* paid to a receiver that exists, under every policy ever put in force and
\* even when the currency pool lags behind the blocks.
FeesArePayable == \A c \in Currencies : fee[c] > 0 => FeeIsPayable(c)

\* Only the keys in force before a block let money leave an account or
\* change its keys in that block, though signatures are checked long before
\* the block is saved and a key update may be in the same proposal.
SpendingIsSigned ==
    [][\A a \in Addresses :
         \/ account'[a] # account[a] /\ account[a] # NoKeys
         \/ \E c \in Currencies : balance'[a][c] < balance[a][c]
         => \E o \in committed' \ committed :
              /\ ~IsCurrencyOperation(o)
              /\ Payer(o) = a
              /\ CheckThreshold(o.signs, account[a])]_vars

\* Every account that appears in a block has at least the least balance its
\* currency's policy in that block's parent asks of new accounts, provided
\* the hooks have kept the currency pool up to date.
NewAccountsAreFunded ==
    [][\A a \in Addresses, c \in Currencies :
         /\ account[a] = NoKeys
         /\ account'[a] # NoKeys
         /\ balance'[a][c] > 0
         => balance'[a][c] >= design[c].policy.minBalance]_vars

-----------------------------------------------------------------------------
\* How an operation that passed its checks stands until its block is saved:
\* the states and the policies it was checked against have not moved, and
\* the charge it will make is the one those policies ask for.  A proposal
\* may not start before the last block's hook has loaded the currencies.
ChecksStillHold ==
    \A o \in Ops : status[o] \in {"validated", "accepted", "processed"} =>
        /\ o \in proposed
        /\ ~hook
        /\ PreProcessOK(o)
        /\ required[o] = [c \in Currencies |-> Charge(o, cp, c)]

LetIn(o) == status[o] \in {"accepted", "processed"}

\* Two operations let into a proposal never claim the same payer, the same
\* currency or a new account in common, in whatever order CheckDuplication
\* meets them.
ClaimsAreDistinct ==
    /\ \A o \in Ops : LetIn(o) =>
          DuplicationKey(o) \in duplicated /\ Targets(o) \subseteq newAddress
    /\ \A o, p \in Ops : o # p /\ LetIn(o) /\ LetIn(p) =>
          /\ DuplicationKey(o) # DuplicationKey(p)
          /\ Targets(o) \cap Targets(p) = {}

\* An account that no processed operation pays from has lost nothing.
OnlyPayersLose ==
    \A a \in Addresses, c \in Currencies :
        (\A o \in Ops : status[o] = "processed" /\ ~IsCurrencyOperation(o) => Payer(o) # a)
        => delta[a][c] >= 0

\* The inductive invariant behind NoOverdraft.
IInv ==
    /\ TypeOK
    /\ ChecksStillHold
    /\ ClaimsAreDistinct
    /\ OnlyPayersLose
    /\ NoOverdraft
    /\ hook => proposed = {}

-----------------------------------------------------------------------------
L == INSTANCE Ledger WITH
    account <- account, balance <- balance, design <- design, committed <- committed

\* The blocks a node makes are those of the abstract ledger: whatever the
\* interleaving of checks and changes, the cancelled proposals and the
\* restarts, a saved block is a set of operations that are good on their own
\* and fit together, applied at once with the policies of its parent.
RefinesLedger == L!Spec
=============================================================================
