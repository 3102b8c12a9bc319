---------------------------- MODULE Start_proofs ----------------------------
(***************************************************************************)
(* What holds of a node's commands for every configuration that YAML can   *)
(* be read as, every order of the processes and every sequence of runs:    *)
(* the ledger of the genesis block, and what a node runs.                  *)
(***************************************************************************)
EXTENDS Start, FiniteSetTheorems, TLAPS

(***************************************************************************)
(* The genesis block                                                       *)
(***************************************************************************)

\* The sum of one amount.
LEMMA TotalOfOne ==
    ASSUME NEW x, NEW n \in Nat, NEW f, f = [i \in {x} |-> n]
    PROVE  Total(f) = n
<1> DEFINE g == [i \in 1..n |-> <<x, i>>]
<1>1. \A p : p \in Coins(f) <=> \E i \in 1..n : p = <<x, i>>
  BY DEF Coins
<1>2. g \in Bijection(1..n, Coins(f))
  <2>1. g \in [1..n -> Coins(f)]
    BY <1>1
  <2>2. \A i, j \in 1..n : g[i] = g[j] => i = j
    OBVIOUS
  <2>3. \A p \in Coins(f) : \E i \in 1..n : g[i] = p
    BY <1>1
  <2> HIDE DEF g
  <2> QED  BY <2>1, <2>2, <2>3 DEF Bijection, Injection, Surjection, IsInjective
<1>3. ExistsBijection(1..n, Coins(f))
  BY <1>2 DEF ExistsBijection
<1> QED  BY <1>3, FS_CountingElements DEF Total

LEMMA RestIsNat ==
    ASSUME NEW m \in Int, NEW n \in Nat \ {0}
    PROVE  m % n \in 0..(n - 1)
  OBVIOUS

\* Nothing and all of it leave no rest.
LEMMA NoRest ==
    ASSUME NEW n \in Nat \ {0}
    PROVE  0 % n = 0 /\ n % n = 0 /\ 0 \div n = 0 /\ n \div n = 1
<1>1. 0 = n * (0 \div n) + (0 % n) /\ 0 % n \in 0..(n - 1)
  OBVIOUS
<1> QED  BY <1>1

\* The designs of a configuration that is read again, by its keys' address.
Loaded(g, i) ==
    LoadCurrencyDesign(RemarshalledCurrency(g.currencies[i]), AddressFromKeys(g.keys))

LEMMA AcceptedConfs ==
    ASSUME NEW g \in Confs, Accepted(g)
    PROVE  /\ AddressFromKeys(g.keys) \in Addresses
           /\ g.keys \in AnyKeys /\ KeysIsValid(g.keys)
           /\ DOMAIN g.currencies # {}
           /\ \A i \in DOMAIN g.currencies :
                /\ g.currencies[i].currency \in Currencies
                /\ Loaded(g, i) \in Designs
                /\ CurrencyDesignIsValid(RemarshalledCurrency(g.currencies[i]))
                /\ IsCurrencyDesign(g.currencies[i])
           /\ \A i, j \in DOMAIN g.currencies :
                i # j => g.currencies[i].currency # g.currencies[j].currency
<1> DEFINE fact == GenesisCurrenciesFact(g)
           D == DOMAIN g.currencies
           again == ReadAgain(g)
<1>1. GenesisDesignIsValid(again) /\ FactIsValid(fact)
  BY DEF Accepted
<1>0. /\ again.keys = g.keys
      /\ again.currencies = [i \in D |-> RemarshalledCurrency(g.currencies[i])]
  BY DEF ReadAgain
<1>2. KeysIsValid(g.keys) /\ \E a \in Addresses : KeysOf[a] = g.keys
  BY <1>0, <1>1, ConfsAssumption DEF GenesisDesignIsValid
<1>3. AddressFromKeys(g.keys) \in Addresses /\ KeysOf[AddressFromKeys(g.keys)] = g.keys
  BY <1>2 DEF AddressFromKeys
<1>4. g.keys \in AnyKeys
  BY <1>3, KeysAssumption
<1>5. /\ fact.cs = [i \in D |-> [currency |-> g.currencies[i].currency, design |-> Loaded(g, i)]]
      /\ fact.keys = g.keys
  BY <1>0 DEF GenesisCurrenciesFact, Loaded, RemarshalledCurrency
<1>6. D # {}
  <2> SUFFICES ASSUME D = {} PROVE FALSE
    OBVIOUS
  <2>1. fact.cs = <<>>
    BY <1>5
  <2> QED  BY <1>1, <2>1 DEF FactIsValid
<1>7. ASSUME NEW i \in D
      PROVE  /\ g.currencies[i].currency \in Currencies
             /\ Loaded(g, i) \in Designs
             /\ CurrencyDesignIsValid(RemarshalledCurrency(g.currencies[i]))
             /\ IsCurrencyDesign(g.currencies[i])
  <2>1. CurrencyDesignIsValid(RemarshalledCurrency(g.currencies[i])) /\ IsCurrencyDesign(g.currencies[i])
    BY <1>0, <1>1, ConfsAssumption DEF GenesisDesignIsValid
  <2>2. i \in DOMAIN fact.cs /\ fact.cs[i].design = Loaded(g, i)
    <3> HIDE DEF fact
    <3> QED  BY <1>5
  <2>3. Loaded(g, i) \in Designs
    <3> HIDE DEF fact
    <3> QED  BY <1>1, <2>2 DEF FactIsValid
  <2> QED  BY <2>1, <2>3 DEF CurrencyDesignIsValid, IsCurrencyDesign, RemarshalledCurrency
<1>8. ASSUME NEW i \in D, NEW j \in D, i # j
      PROVE  g.currencies[i].currency # g.currencies[j].currency
  <2>1. fact.cs[i].currency # fact.cs[j].currency
    BY <1>1, <1>5, <1>8 DEF FactIsValid
  <2> QED  BY <1>5, <2>1
<1> QED  BY <1>2, <1>3, <1>4, <1>6, <1>7, <1>8

\* The ledger of a genesis block: each currency has the design that was
\* configured for it, and all of it is on the account of the keys.
LEMMA GenesisLedger ==
    ASSUME NEW g \in Confs, Accepted(g)
    PROVE  LET l == Process(GenesisCurrenciesFact(g))
               ga == AddressFromKeys(g.keys)
               C == {c \in Currencies : \E i \in DOMAIN g.currencies : g.currencies[i].currency = c}
           IN  /\ l.account = [a \in Addresses |-> IF a = ga THEN g.keys ELSE NoKeys]
               /\ l.held = {<<ga, c>> : c \in C}
               /\ \A c \in Currencies \ C : l.design[c] = NoDesign
               /\ \A i \in DOMAIN g.currencies : LET c == g.currencies[i].currency
                  IN  /\ l.design[c] = Loaded(g, i)
                      /\ \A a \in Addresses :
                           l.balance[a][c] = IF a = ga THEN Loaded(g, i).amount ELSE 0
<1> DEFINE fact == GenesisCurrenciesFact(g)
           l == Process(fact)
           ga == AddressFromKeys(g.keys)
           D == DOMAIN g.currencies
           C == {c \in Currencies : \E i \in D : g.currencies[i].currency = c}
<1>1. /\ fact.cs = [i \in D |-> [currency |-> g.currencies[i].currency, design |-> Loaded(g, i)]]
      /\ fact.keys = g.keys
  BY DEF GenesisCurrenciesFact, ReadAgain, Loaded, RemarshalledCurrency
<1>2. \A c : DesignsOf(fact, c) = {i \in D : g.currencies[i].currency = c}
  BY <1>1 DEF DesignsOf
<1>3. {c \in Currencies : DesignsOf(fact, c) # {}} = C
  BY <1>2
<1>4. /\ l.account = [NoLedger.account EXCEPT ![ga] = g.keys]
      /\ l.held = {<<ga, c>> : c \in {c \in Currencies : DesignsOf(fact, c) # {}}}
      /\ l.balance = [NoLedger.balance EXCEPT ![ga] = [c \in Currencies |->
                        Total([i \in DesignsOf(fact, c) |-> fact.cs[i].design.amount])]]
      /\ l.design = [c \in Currencies |->
                        IF c \notin {d \in Currencies : DesignsOf(fact, d) # {}} THEN NoDesign
                        ELSE fact.cs[CHOOSE i \in DesignsOf(fact, c) :
                               \A j \in DesignsOf(fact, c) : j =< i].design]
  BY <1>1 DEF Process
<1>5. /\ NoLedger.account = [a \in Addresses |-> NoKeys]
      /\ NoLedger.balance = [a \in Addresses |-> [c \in Currencies |-> 0]]
  BY DEF NoLedger
<1>6. ga \in Addresses
  BY AcceptedConfs
<1>7. l.account = [a \in Addresses |-> IF a = ga THEN g.keys ELSE NoKeys]
  BY <1>4, <1>5, <1>6
<1>8. l.held = {<<ga, c>> : c \in C}
  BY <1>3, <1>4
<1>9. \A c \in Currencies \ C : l.design[c] = NoDesign
  BY <1>3, <1>4
<1>10. ASSUME NEW i \in D
       PROVE  LET c == g.currencies[i].currency
              IN  /\ l.design[c] = Loaded(g, i)
                  /\ \A a \in Addresses : l.balance[a][c] = IF a = ga THEN Loaded(g, i).amount ELSE 0
  <2> DEFINE c == g.currencies[i].currency
  <2>1. c \in Currencies /\ c \in C /\ Loaded(g, i) \in Designs
    BY AcceptedConfs
  <2>2. DesignsOf(fact, c) = {i}
    BY <1>2, AcceptedConfs
  <2>3. i \in Int
    BY ConfsAssumption
  <2>4. (CHOOSE k \in DesignsOf(fact, c) : \A j \in DesignsOf(fact, c) : j =< k) = i
    BY <2>2, <2>3
  <2>5. fact.cs[i].design = Loaded(g, i)
    BY <1>1
  <2>6. l.design[c] = Loaded(g, i)
    <3> HIDE DEF l, fact, c, C
    <3> QED  BY <1>3, <1>4, <2>1, <2>4, <2>5
  <2>7. Loaded(g, i).amount \in Nat
    BY <2>1 DEF Designs
  <2>8. Total([k \in DesignsOf(fact, c) |-> fact.cs[k].design.amount]) = Loaded(g, i).amount
    <3>1. [k \in DesignsOf(fact, c) |-> fact.cs[k].design.amount] = [k \in {i} |-> Loaded(g, i).amount]
      BY <2>2, <2>5
    <3> QED  BY <2>7, <3>1, TotalOfOne
  <2>9. ASSUME NEW a \in Addresses PROVE l.balance[a][c] = IF a = ga THEN Loaded(g, i).amount ELSE 0
    <3> HIDE DEF l, fact, c, C, ga
    <3> QED  BY <1>4, <1>5, <1>6, <2>1, <2>8
  <2> QED  BY <2>6, <2>9
<1> HIDE DEF l, ga, C, D
<1> QED  BY <1>7, <1>8, <1>9, <1>10 DEF l, ga, C, D

(***************************************************************************)
(* The runs                                                                *)
(***************************************************************************)

HasDigest == conf.digest # NoDigest

\* What each value of the context, each thing that runs and the hook of the
\* blocks come from: the configuration and the processes that have run.
FromProcesses ==
    /\ "digest_design" \in context <=> HasDigest
    /\ "operation_processors" \in context <=> conf.inside
    /\ "digest_database" \in context <=> HasDigest /\ "digest_database" \in done
    /\ "digester" \in context <=> HasDigest /\ "digester" \in done
    /\ "digest_network" \in context <=> HasDigest /\ "digest_api" \in done
    /\ "handlers" \in context <=> HasDigest /\ "digest_api" \in done
    /\ started = {x \in {"api", "digester"} :
                    /\ HasDigest
                    /\ x = "api" => "start_digest_api" \in done
                    /\ x = "digester" => "start_digester" \in done}
    /\ hook = IF "digester" \notin done THEN "none"
              ELSE IF HasDigest THEN "digester" ELSE "currencies"

DoneInOrder ==
    /\ done \subseteq Processes
    /\ \A p \in done : Requires[p] \subseteq done
    /\ state = "running" => done = Processes

FollowedUp ==
    state = "starting" /\ "digester" \in done /\ HasDigest => digested = height

RunInv ==
    /\ state \in {"stopped", "init", "starting", "running"}
    /\ state \in {"stopped", "init"} => Nothing
    /\ state \in {"starting", "running"} =>
         FromProcesses /\ DoneInOrder /\ FollowedUp /\ cp = ledger.design

\* The ledger of the genesis block is that of the configuration which was taken.
GenesisInv ==
    /\ height \in Nat \cup {NilHeight}
    /\ state = "init" => height = NilHeight /\ genesis \in Confs /\ Accepted(genesis)
    /\ height = 0 =>
         /\ genesis \in Confs
         /\ Accepted(genesis)
         /\ ledger = Process(GenesisCurrenciesFact(genesis))

LEMMA RunInvInit == Init => RunInv
BY DEF Init, RunInv

\* A process of a start changes what it is for, and no other.
LEMMA ARunKeepsRunInv ==
    ASSUME RunInv, RunProcess
    PROVE  RunInv'
<1>1. /\ state = "starting" /\ FromProcesses /\ DoneInOrder /\ FollowedUp /\ cp = ledger.design
      /\ UNCHANGED <<height, ledger, state, conf, cp>>
  BY DEF RunInv, RunProcess, Runs, ProcessDigestDatabase, ProcessDigester, ProcessDigestAPI,
         ProcessStartDigestAPI, ProcessStartDigester
<1>2. HasDigest' <=> HasDigest
  BY <1>1 DEF HasDigest
<1>3. Processes = {"digest_database", "digester", "digest_api", "start_digest_api", "start_digester"}
  BY DEF Processes, Requires
<1>4. SUFFICES FromProcesses' /\ DoneInOrder' /\ FollowedUp'
  BY <1>1 DEF RunInv
<1>5. ASSUME NEW p \in Processes, Runs(p) PROVE DoneInOrder'
  BY <1>1, <1>5 DEF DoneInOrder, Runs
<1>6. CASE ProcessDigestDatabase
  <2>1. done' = done \cup {"digest_database"} /\ DoneInOrder'
    BY <1>3, <1>5, <1>6 DEF ProcessDigestDatabase, Runs
  <2>2. FromProcesses' /\ FollowedUp'
    BY <1>1, <1>2, <1>6, <2>1 DEF FromProcesses, FollowedUp, ProcessDigestDatabase, With
  <2> QED  BY <2>1, <2>2
<1>7. CASE ProcessDigester
  <2>1. done' = done \cup {"digester"} /\ DoneInOrder' /\ "digest_database" \in done
    BY <1>3, <1>5, <1>7 DEF ProcessDigester, Runs, Requires
  <2>2. FromProcesses'
    BY <1>1, <1>2, <1>7, <2>1 DEF FromProcesses, ProcessDigester, With, SetStateHandler
  <2>3. FollowedUp'
    BY <1>1, <1>2, <1>7, <2>1 DEF FromProcesses, FollowedUp, ProcessDigester, DigesterFollowUp
  <2> QED  BY <2>1, <2>2, <2>3
<1>8. CASE ProcessDigestAPI
  <2>1. done' = done \cup {"digest_api"} /\ DoneInOrder'
    BY <1>3, <1>5, <1>8 DEF ProcessDigestAPI, Runs
  <2>2. FromProcesses' /\ FollowedUp'
    BY <1>1, <1>2, <1>8, <2>1 DEF FromProcesses, FollowedUp, ProcessDigestAPI
  <2> QED  BY <2>1, <2>2
<1>9. CASE ProcessStartDigestAPI
  <2>1. done' = done \cup {"start_digest_api"} /\ DoneInOrder' /\ "digest_api" \in done
    BY <1>3, <1>5, <1>9 DEF ProcessStartDigestAPI, Runs, Requires
  <2>2. FromProcesses' /\ FollowedUp'
    BY <1>1, <1>2, <1>9, <2>1 DEF FromProcesses, FollowedUp, ProcessStartDigestAPI
  <2> QED  BY <2>1, <2>2
<1>10. CASE ProcessStartDigester
  <2>1. done' = done \cup {"start_digester"} /\ DoneInOrder' /\ "digester" \in done
    BY <1>3, <1>5, <1>10 DEF ProcessStartDigester, Runs, Requires
  <2>2. FromProcesses' /\ FollowedUp'
    BY <1>1, <1>2, <1>10, <2>1 DEF FromProcesses, FollowedUp, ProcessStartDigester
  <2> QED  BY <2>1, <2>2
<1> QED  BY <1>6, <1>7, <1>8, <1>9, <1>10 DEF RunProcess

LEMMA RunInvNext == RunInv /\ [Next]_vars => RunInv'
<1> SUFFICES ASSUME RunInv, [Next]_vars PROVE RunInv'
  OBVIOUS
<1> USE DEF RunInv
<1>1. ASSUME NEW g \in Confs, NEW d \in DigestConfs, InitCommand(g, d) PROVE RunInv'
  BY <1>1 DEF InitCommand, Nothing, command
<1>2. CASE GenesisBlock
  BY <1>2 DEF GenesisBlock, Nothing, command
<1>3. ASSUME NEW c \in [digest : DigestConfs, inside : BOOLEAN, known : BOOLEAN], RunCommand(c)
      PROVE  RunInv'
  <2>1. /\ Nothing /\ state' = "starting" /\ conf' = c
        /\ context' = Processors(c) \cup (IF c.digest = NoDigest THEN {} ELSE {"digest_design"})
        /\ UNCHANGED <<height, ledger, digested, done, hook, started>>
        /\ cp' = ledger.design
    BY <1>3 DEF RunCommand, databases, LoadCurrencies
  <2>2. FromProcesses'
    BY <2>1 DEF Nothing, FromProcesses, Processors, HasDigest
  <2>3. DoneInOrder' /\ FollowedUp'
    BY <2>1 DEF Nothing, DoneInOrder, FollowedUp
  <2> QED  BY <2>1, <2>2, <2>3
<1>4. CASE RunProcess
  BY <1>4, ARunKeepsRunInv
<1>5. CASE EnteringBootingState
  BY <1>5 DEF EnteringBootingState, databases, command, FromProcesses, HasDigest, DoneInOrder, FollowedUp
<1>6. CASE BlockSaved
  <2>1. /\ state = "running" /\ state' = "running" /\ FromProcesses /\ DoneInOrder
        /\ UNCHANGED <<conf, done, context, hook, started>>
        /\ cp' = IF hook # "none" THEN ledger'.design ELSE cp
    BY <1>6 DEF BlockSaved, WhenBlockSaved
  <2>2. hook # "none"
    BY <2>1 DEF DoneInOrder, FromProcesses, Processes, Requires
  <2>3. FromProcesses' /\ DoneInOrder' /\ FollowedUp'
    BY <2>1 DEF FromProcesses, HasDigest, DoneInOrder, FollowedUp
  <2> QED  BY <2>1, <2>2, <2>3
<1>7. CASE DigestBlock
  BY <1>7 DEF DigestBlock, command, FromProcesses, HasDigest, DoneInOrder, FollowedUp
<1>8. CASE Stop
  BY <1>8 DEF Stop, Nothing
<1>9. CASE UNCHANGED vars
  BY <1>9 DEF vars, databases, command, Nothing, FromProcesses, HasDigest, DoneInOrder, FollowedUp
<1> QED  BY <1>1, <1>2, <1>3, <1>4, <1>5, <1>6, <1>7, <1>8, <1>9 DEF Next

\* What a start has set up at each moment follows from the processes that have
\* run, in whatever order, and from nothing of the runs before it.
THEOREM RunInvariance == Spec => []RunInv
BY RunInvInit, RunInvNext, PTL DEF Spec

\* For every configuration, order of the processes and history of runs: a node
\* that runs runs what it is configured to, no request is answered before the
\* handlers are there, and the digest has the earlier blocks before the node
\* takes new ones.
THEOREM NodesRunWhatIsConfigured == Spec => []RunsWhatIsConfigured
<1>1. RunInv => RunsWhatIsConfigured
  <2> SUFFICES ASSUME RunInv PROVE RunsWhatIsConfigured
    OBVIOUS
  <2>1. CASE state \in {"stopped", "init"}
    BY <2>1 DEF RunInv, Nothing, RunsWhatIsConfigured
  <2>2. CASE state \in {"starting", "running"}
    <3>1. FromProcesses /\ DoneInOrder /\ FollowedUp /\ cp = ledger.design
      BY <2>2 DEF RunInv
    <3>2. "api" \in started => "handlers" \in context
      BY <3>1 DEF FromProcesses, DoneInOrder, Processes, Requires
    <3>3. state = "running" => RunsAll
      BY <3>1 DEF FromProcesses, DoneInOrder, Processes, Requires, RunsAll, HasDigest
    <3> QED  BY <3>1, <3>2, <3>3 DEF FollowedUp, HasDigest, RunsWhatIsConfigured
  <2> QED  BY <2>1, <2>2 DEF RunInv
<1> QED  BY <1>1, RunInvariance, PTL

LEMMA GenesisInvNext == GenesisInv /\ [Next]_vars => GenesisInv'
<1> SUFFICES ASSUME GenesisInv, [Next]_vars PROVE GenesisInv'
  OBVIOUS
<1> USE DEF GenesisInv, NilHeight
<1>1. ASSUME NEW g \in Confs, NEW d \in DigestConfs, InitCommand(g, d) PROVE GenesisInv'
  BY <1>1 DEF InitCommand
<1>2. CASE GenesisBlock
  BY <1>2 DEF GenesisBlock
<1>3. ASSUME NEW c, RunCommand(c) PROVE GenesisInv'
  BY <1>3 DEF RunCommand, databases
<1>4. CASE RunProcess
  BY <1>4 DEF RunProcess, Runs, ProcessDigestDatabase, ProcessDigester, ProcessDigestAPI,
              ProcessStartDigestAPI, ProcessStartDigester
<1>5. CASE EnteringBootingState
  BY <1>5 DEF EnteringBootingState, databases
<1>6. CASE BlockSaved
  <2>1. CASE height = NilHeight
    BY <1>6, <2>1 DEF BlockSaved
  <2>2. CASE height # NilHeight
    <3>1. height' = height + 1 /\ height \in Nat /\ state' = "running"
      BY <1>6, <2>2 DEF BlockSaved
    <3> QED  BY <3>1
  <2> QED  BY <2>1, <2>2
<1>7. CASE DigestBlock
  BY <1>7 DEF DigestBlock
<1>8. CASE Stop
  BY <1>8 DEF Stop
<1>9. CASE UNCHANGED vars
  BY <1>9 DEF vars, databases
<1> QED  BY <1>1, <1>2, <1>3, <1>4, <1>5, <1>6, <1>7, <1>8, <1>9 DEF Next

\* The genesis block that a node has is made from a configuration that was
\* accepted, whatever was configured and tried before.
THEOREM GenesisInvariance == Spec => []GenesisInv
<1>1. Init => GenesisInv
  BY DEF Init, GenesisInv, NilHeight
<1> QED  BY <1>1, GenesisInvNext, PTL DEF Spec

LEMMA RegisteredAtGenesis ==
    ASSUME GenesisInv, height = 0
    PROVE  /\ Registered = {c \in Currencies :
                              \E i \in DOMAIN genesis.currencies : genesis.currencies[i].currency = c}
           /\ \A i \in DOMAIN genesis.currencies :
                ledger.design[genesis.currencies[i].currency] = Loaded(genesis, i)
<1>1. genesis \in Confs /\ Accepted(genesis) /\ ledger = Process(GenesisCurrenciesFact(genesis))
  BY DEF GenesisInv
<1>2. \A i \in DOMAIN genesis.currencies :
        ledger.design[genesis.currencies[i].currency] = Loaded(genesis, i)
  BY <1>1, GenesisLedger
<1>3. \A i \in DOMAIN genesis.currencies : Loaded(genesis, i) \in Designs /\ Loaded(genesis, i) # NoDesign
  BY <1>1, AcceptedConfs, GenesisConfigAssumption
<1>4. \A c \in Currencies : (\A i \in DOMAIN genesis.currencies : genesis.currencies[i].currency # c)
        => ledger.design[c] = NoDesign
  BY <1>1, GenesisLedger
<1> QED  BY <1>2, <1>3, <1>4 DEF Registered

\* Every accepted configuration makes a ledger on which operations can be
\* processed: its one account is the one of its keys, which can be satisfied,
\* has all of every currency, and is the receiver of every fee.
THEOREM GenesisLedgersAreSound == Spec => []GenesisIsSound
<1>1. GenesisInv => GenesisIsSound
  <2> SUFFICES ASSUME GenesisInv, height = 0 PROVE GenesisIsSound
    BY DEF GenesisIsSound
  <2> DEFINE ga == AddressFromKeys(genesis.keys)
             D == DOMAIN genesis.currencies
  <2>1. genesis \in Confs /\ Accepted(genesis) /\ ledger = Process(GenesisCurrenciesFact(genesis))
    BY DEF GenesisInv
  <2>2. /\ Registered = {c \in Currencies : \E i \in D : genesis.currencies[i].currency = c}
        /\ \A i \in D : ledger.design[genesis.currencies[i].currency] = Loaded(genesis, i)
    BY RegisteredAtGenesis
  <2>3. /\ ga \in Addresses /\ D # {}
        /\ genesis.keys # NoKeys /\ KeysIsValid(genesis.keys)
        /\ \A i \in D : genesis.currencies[i].currency \in Currencies
        /\ \A i \in D : CurrencyDesignIsValid(RemarshalledCurrency(genesis.currencies[i]))
    BY <2>1, AcceptedConfs, GenesisConfigAssumption
  <2>4. Registered # {}
    BY <2>2, <2>3
  <2>5. ledger.account = [a \in Addresses |-> IF a = ga THEN genesis.keys ELSE NoKeys]
    BY <2>1, GenesisLedger
  <2>6. ledger.held = {<<ga, c>> : c \in Registered}
    BY <2>1, <2>2, GenesisLedger
  <2>7. ASSUME NEW c \in Registered
        PROVE  /\ \A a \in Addresses :
                    ledger.balance[a][c] = IF a = ga THEN ledger.design[c].amount ELSE 0
               /\ LET f == ledger.design[c].policy.feeer
                  IN  F!HasReceiver(f) => <<f.receiver, c>> \in ledger.held
    <3>1. PICK i \in D : genesis.currencies[i].currency = c
      BY <2>2, <2>7
    <3>2. ledger.design[c] = Loaded(genesis, i)
      BY <2>2, <3>1
    <3>3. \A a \in Addresses : ledger.balance[a][c] = IF a = ga THEN Loaded(genesis, i).amount ELSE 0
      BY <2>1, <3>1, GenesisLedger
    <3> DEFINE fd == RemarshalledCurrency(genesis.currencies[i]).feeer
    <3>4. FeeerDesignIsValid(fd)
      BY <2>3 DEF CurrencyDesignIsValid
    <3>5. Loaded(genesis, i).policy.feeer = LoadFeeer(fd, ga)
      BY DEF Loaded, LoadCurrencyDesign
    <3>6. F!HasReceiver(LoadFeeer(fd, ga)) => LoadFeeer(fd, ga).receiver = ga
      BY <3>4 DEF FeeerDesignIsValid, LoadFeeer, F!HasReceiver
    <3> HIDE DEF ga
    <3> QED  BY <2>6, <3>2, <3>3, <3>5, <3>6
  <2> HIDE DEF ga, D
  <2>8. ledger.held = {ga} \X Registered
    BY <2>6
  <2>9. \A a \in Addresses : ledger.account[a] # NoKeys <=> a = ga
    BY <2>3, <2>5
  <2>10. KeysIsValid(ledger.account[ga])
    BY <2>3, <2>5
  <2> QED  BY <2>3, <2>4, <2>7, <2>8, <2>9, <2>10 DEF GenesisIsSound
<1> QED  BY <1>1, GenesisInvariance, PTL

\* An unquoted number past int64 becomes one below zero, which nothing takes
\* but a maximum, when it becomes -1.
LEMMA WrappedNumbers ==
    ASSUME NEW v \in Scalars, IsNumber(v)
    PROVE  /\ BigFromInterface(v) \in Nat => BigFromInterface(v) = v.value
           /\ BigFromInterface(v) = -1 => BigFromInterface(v) = v.value \/ ReadAsNoLimit(v)
<1>1. CASE v.kind = "int"
  <2>1. v \in [kind : {"int"}, value : -(MaxInt64 + 1) .. (2 * MaxInt64 + 1)]
    BY <1>1 DEF Scalars, Absent
  <2>2. MaxInt64 \in Nat /\ v.value \in Int /\ v.value =< 2 * MaxInt64 + 1
    BY <2>1, GenesisConfigAssumption
  <2>3. v.value > MaxInt64 => BigFromInterface(v) = v.value - 2 * (MaxInt64 + 1)
    BY <1>1 DEF BigFromInterface
  <2>4. ~ (v.value > MaxInt64) => BigFromInterface(v) = v.value
    BY DEF BigFromInterface
  <2>5. v.value = 2 * MaxInt64 + 1 => ReadAsNoLimit(v)
    BY <2>1 DEF ReadAsNoLimit
  <2> QED  BY <2>2, <2>3, <2>4, <2>5
<1>2. CASE v.kind # "int"
  BY <1>2 DEF BigFromInterface
<1> QED  BY <1>1, <1>2

LEMMA Division ==
    ASSUME NEW x \in Int, NEW m \in Nat \ {0}
    PROVE  x \div m \in Int /\ x = m * (x \div m) + (x % m) /\ x % m \in 0..(m - 1)
  OBVIOUS

\* The nearest multiple of 1/D is at most half a step away.
LEMMA Nearest ==
    ASSUME NEW num \in Int, NEW d \in Nat \ {0}, NEW D \in Nat \ {0},
           NEW q, q = (2 * num * D + d) \div (2 * d)
    PROVE  q \in Int /\ 2 * (q * d) - 2 * (num * D) \in (-d) .. d
<1> DEFINE p == num * D
           x == 2 * num * D + d
           m == 2 * d
<1>1. p \in Int /\ x = 2 * p + d /\ x \in Int /\ m \in Nat \ {0}
  OBVIOUS
<1>2. x = m * q + (x % m) /\ q \in Int /\ x % m \in 0..(m - 1)
  <2> HIDE DEF x, m
  <2>1. q = x \div m
    BY DEF x, m
  <2>2. x \div m \in Int /\ x = m * (x \div m) + (x % m) /\ x % m \in 0..(m - 1)
    BY <1>1, Division
  <2> QED  BY <2>1, <2>2
<1>3. m * q = 2 * (q * d) /\ q * d \in Int
  <2>1. q \in Int
    BY <1>2
  <2> HIDE DEF x
  <2>2. \A k \in Int : (2 * d) * k = 2 * (k * d) /\ k * d \in Int
    OBVIOUS
  <2> QED  BY <2>1, <2>2
<1> DEFINE y == q * d
<1>5. 2 * y - 2 * p \in (-d) .. d
  <2>1. /\ 2 * p + d = 2 * y + (x % m)
        /\ x % m \in 0 .. (2 * d - 1)
        /\ y \in Int
    BY <1>1, <1>2, <1>3
  <2> HIDE DEF x, m, p, y
  <2> QED  BY <1>1, <2>1
<1> QED  BY <1>2, <1>5

\* What the second reading makes of a float: still a float, or, when it is
\* whole, the integer that is as written.
LEMMA FloatsReadAgain ==
    ASSUME NEW v \in Scalars, v.kind = "float"
    PROVE  /\ Remarshalled(v) \in Scalars
           /\ Remarshalled(v).kind \in {"int", "float"}
           /\ Remarshalled(v).kind = "int" =>
                /\ Remarshalled(v).value \in (-(MaxInt64)) .. MaxInt64
                /\ IsAsWritten(Remarshalled(v).value, v)
           /\ Remarshalled(v).kind = "float" => Remarshalled(v) = Float64(v) /\ ~IsPlain(Float64(v))
<1> DEFINE q == Float64(v).num
           n == q \div FloatDen
<1>1. v.num \in Int /\ v.den \in Nat \ {0} /\ FloatDen \in Nat \ {0}
  BY GenesisConfigAssumption DEF Scalars, Absent
<1>2. /\ q = (2 * v.num * FloatDen + v.den) \div (2 * v.den)
      /\ Float64(v) = [kind |-> "float", num |-> q, den |-> FloatDen]
  BY DEF Float64
<1>3. q \in Int /\ 2 * (q * v.den) - 2 * (v.num * FloatDen) \in (-v.den) .. v.den
  <2> HIDE DEF q
  <2> QED  BY <1>1, <1>2, Nearest
<1> HIDE DEF q
<1>4. CASE IsPlain(Float64(v))
  <2>1. /\ q % FloatDen = 0
        /\ n \in (1 - Exponent) .. (Exponent - 1)
        /\ Remarshalled(v) = [kind |-> "int", value |-> n]
    BY <1>2, <1>4 DEF IsPlain, Remarshalled, q
  <2>2. n \in (-MaxInt64) .. MaxInt64 /\ n \in -(MaxInt64 + 1) .. (2 * MaxInt64 + 1)
    BY <2>1, GenesisConfigAssumption
  <2>3. n \in Int /\ q = FloatDen * n
    BY <1>1, <1>3, <2>1, Division
  <2> HIDE DEF n
  <2>4. 2 * FloatDen * (n * v.den - v.num) = 2 * (q * v.den) - 2 * (v.num * FloatDen)
    <3>1. FloatDen * (n * v.den - v.num) = FloatDen * (n * v.den) - FloatDen * v.num
      BY <1>1, <2>3
    <3>2. FloatDen * (n * v.den) = q * v.den
      BY <1>1, <2>3
    <3>3. FloatDen * v.num = v.num * FloatDen
      BY <1>1
    <3> QED  BY <1>1, <1>3, <2>3, <3>1, <3>2, <3>3
  <2>5. IsAsWritten(n, v)
    BY <1>3, <2>4 DEF IsAsWritten
  <2> QED  BY <2>1, <2>2, <2>5 DEF Scalars
<1>5. CASE ~IsPlain(Float64(v))
  <2>1. Remarshalled(v) = Float64(v)
    BY <1>5 DEF Remarshalled
  <2> QED  BY <1>1, <1>2, <1>3, <1>5, <2>1 DEF Scalars
<1> QED  BY <1>4, <1>5

\* A number that is read again and not refused is as it was written, but for
\* the maximum.
LEMMA NumbersReadAgain ==
    ASSUME NEW v \in Scalars, IsNumber(Remarshalled(v))
    PROVE  LET r == Remarshalled(v)
               b == BigFromInterface(r)
           IN  /\ r # Absent /\ v # Absent
               /\ IsAsWritten(r.value, v)
               /\ b \in Nat => IsAsWritten(b, v)
               /\ b = -1 => IsAsWritten(b, v) \/ ReadAsNoLimit(v)
<1>1. CASE v.kind = "float"
  <2> DEFINE r == Remarshalled(v)
  <2>1. /\ r.kind = "int" /\ IsAsWritten(r.value, v)
        /\ r.value \in (-MaxInt64) .. MaxInt64
    BY <1>1, FloatsReadAgain DEF IsNumber
  <2>2. ~(r.value > MaxInt64)
    BY <2>1, GenesisConfigAssumption
  <2>3. BigFromInterface(r) = r.value
    BY <2>2 DEF BigFromInterface
  <2> QED  BY <1>1, <2>1, <2>3 DEF Absent
<1>2. CASE v.kind # "float"
  <2>1. Remarshalled(v) = v /\ IsNumber(v) /\ v # Absent
    BY <1>2 DEF Remarshalled, IsNumber, Absent
  <2>2. \A n : IsAsWritten(n, v) <=> n = v.value
    BY <1>2 DEF IsAsWritten
  <2> QED  BY <2>1, <2>2, WrappedNumbers
<1> QED  BY <1>1, <1>2

LEMMA AbsentReadAgain ==
    ASSUME NEW v \in Scalars
    PROVE  Remarshalled(v) = Absent <=> v = Absent
<1>1. CASE v.kind = "float"
  BY <1>1, FloatsReadAgain DEF Absent
<1>2. CASE v.kind # "float"
  BY <1>2 DEF Remarshalled
<1> QED  BY <1>1, <1>2

\* A ratio that stays a float is not whole.
LEMMA RatiosAreInside ==
    ASSUME NEW v \in Scalars, NEW r, r = Remarshalled(v), r.kind = "float",
           r.num \in Nat, r.num =< r.den
    PROVE  r.num = Float64(v).num /\ r.den = FloatDen /\ 0 < r.num /\ r.num < r.den
<1>1. v.kind = "float"
  BY DEF Remarshalled
<1>2. r = Float64(v) /\ ~IsPlain(r)
  BY <1>1, FloatsReadAgain
<1>3. r.den = FloatDen /\ FloatDen \in Nat \ {0}
  BY <1>2, GenesisConfigAssumption DEF Float64
<1>4. {0, 1} \subseteq (1 - Exponent) .. (Exponent - 1)
  BY GenesisConfigAssumption
<1>5. r.num # 0 /\ r.num # r.den
  BY <1>2, <1>3, <1>4, NoRest DEF IsPlain
<1> QED  BY <1>2, <1>3, <1>5

\* No number of the configuration is wrapped on its way to the genesis block,
\* and none is cut off beyond what a float64 holds, whatever numbers it has;
\* the exception is a maximum fee of 2^64 - 1.
THEOREM GenesisAmountsAreAsWritten == Spec => []AmountsAreAsWritten
<1>1. GenesisInv => AmountsAreAsWritten
  <2> SUFFICES ASSUME GenesisInv, height = 0, NEW i \in DOMAIN genesis.currencies
               PROVE  LET de == genesis.currencies[i]
                          registered == ledger.design[de.currency]
                          f == registered.policy.feeer
                      IN  /\ IsAsWritten(registered.amount, de.balance)
                          /\ IF de.minBalance = Absent THEN registered.policy.minBalance = 0
                             ELSE IsAsWritten(registered.policy.minBalance, de.minBalance)
                          /\ f.type = de.feeer.type
                          /\ f.type = "fixed" => IsAsWritten(f.amount, de.feeer.amount)
                          /\ f.type = "ratio" =>
                               /\ <<f.num, f.den>> = <<Float64(de.feeer.ratio).num, FloatDen>>
                               /\ 0 < f.num /\ f.num < f.den
                               /\ IsAsWritten(f.min, de.feeer.min)
                               /\ SameLimit(de.feeer.max, f.max)
                                    \/ (ReadAsNoLimit(de.feeer.max) /\ f.max = F!UnlimitedMaxFeeAmount)
    BY DEF AmountsAreAsWritten
  <2> DEFINE de == genesis.currencies[i]
             rd == RemarshalledCurrency(de)
             fd == de.feeer
             again == rd.feeer
             registered == ledger.design[de.currency]
             f == registered.policy.feeer
  <2>1. registered = Loaded(genesis, i)
    BY RegisteredAtGenesis
  <2>2. registered \in Designs /\ CurrencyDesignIsValid(rd) /\ IsCurrencyDesign(de)
    BY <2>1, AcceptedConfs DEF GenesisInv
  <2>3. f \in F!Feeers /\ registered.amount \in Nat \ {0}
    BY <2>2 DEF Designs, Policies
  <2>4. /\ FeeerDesignIsValid(again)
        /\ rd.balance = Absent \/ IsNumber(rd.balance)
        /\ rd.minBalance = Absent \/ IsNumber(rd.minBalance)
    BY <2>2 DEF CurrencyDesignIsValid
  <2>5. PICK ga : registered = LoadCurrencyDesign(rd, ga)
    BY <2>1 DEF Loaded
  <2>6. /\ f = LoadFeeer(again, ga)
        /\ registered.amount = IF rd.balance = Absent THEN 0 ELSE rd.balance.value
        /\ registered.policy.minBalance = IF rd.minBalance = Absent THEN 0 ELSE rd.minBalance.value
    BY <2>5 DEF LoadCurrencyDesign
  <2>7. /\ de.balance \in Scalars /\ rd.balance = Remarshalled(de.balance)
        /\ de.minBalance \in Scalars /\ rd.minBalance = Remarshalled(de.minBalance)
        /\ again = RemarshalledFeeer(fd)
        /\ fd.type = "fixed" => fd.amount \in Scalars
        /\ fd.type = "ratio" => fd.ratio \in Scalars /\ fd.min \in Scalars /\ fd.max \in Scalars
    BY <2>2 DEF IsCurrencyDesign, RemarshalledCurrency
  <2> HIDE DEF f, fd, again, rd
  <2>8. IsAsWritten(registered.amount, de.balance)
    BY <2>3, <2>4, <2>6, <2>7, NumbersReadAgain
  <2>9. IF de.minBalance = Absent THEN registered.policy.minBalance = 0
        ELSE IsAsWritten(registered.policy.minBalance, de.minBalance)
    BY <2>4, <2>6, <2>7, NumbersReadAgain, AbsentReadAgain
  <2>10. again.type = fd.type
    BY <2>7 DEF RemarshalledFeeer
  <2>11. f.type = fd.type /\ fd.type \in {"nil", "fixed", "ratio"}
    BY <2>4, <2>6, <2>10 DEF FeeerDesignIsValid, LoadFeeer
  <2>12. ASSUME fd.type = "fixed" PROVE IsAsWritten(f.amount, fd.amount)
    <3>1. f.amount \in Nat
      BY <2>3, <2>11, <2>12 DEF F!Feeers, F!NilFeeers, F!FixedFeeers, F!RatioFeeers
    <3>2. again.amount = Remarshalled(fd.amount)
      BY <2>7, <2>12 DEF RemarshalledFeeer
    <3>3. f.amount = BigFromInterface(again.amount) /\ IsNumber(again.amount)
      BY <2>4, <2>6, <2>10, <2>12 DEF FeeerDesignIsValid, LoadFeeer
    <3> QED  BY <2>7, <2>12, <3>1, <3>2, <3>3, NumbersReadAgain
  <2>13. ASSUME fd.type = "ratio"
         PROVE  /\ <<f.num, f.den>> = <<Float64(fd.ratio).num, FloatDen>>
                /\ 0 < f.num /\ f.num < f.den
                /\ IsAsWritten(f.min, fd.min)
                /\ \/ SameLimit(fd.max, f.max)
                   \/ ReadAsNoLimit(fd.max) /\ f.max = F!UnlimitedMaxFeeAmount
    <3>1. /\ f.num \in Nat /\ f.num =< f.den /\ f.min \in Nat
          /\ f.max \in Nat \cup {-1}
      BY <2>3, <2>11, <2>13
         DEF F!Feeers, F!NilFeeers, F!FixedFeeers, F!RatioFeeers, F!UnlimitedMaxFeeAmount
    <3>2. /\ again.ratio = Remarshalled(fd.ratio) /\ again.min = Remarshalled(fd.min)
          /\ again.max = Remarshalled(fd.max)
      BY <2>7, <2>13 DEF RemarshalledFeeer
    <3>3. /\ again.ratio.kind = "float" /\ IsNumber(again.min)
          /\ again.max = Absent \/ IsNumber(again.max)
      BY <2>4, <2>10, <2>13 DEF FeeerDesignIsValid
    <3>4. /\ f.num = again.ratio.num /\ f.den = again.ratio.den
          /\ f.min = BigFromInterface(again.min)
          /\ f.max = IF again.max = Absent THEN F!UnlimitedMaxFeeAmount ELSE BigFromInterface(again.max)
      BY <2>6, <2>10, <2>13 DEF LoadFeeer
    <3>5. fd.ratio \in Scalars /\ fd.min \in Scalars /\ fd.max \in Scalars
      BY <2>7, <2>13
    <3>6. IsAsWritten(f.min, fd.min)
      BY <3>1, <3>2, <3>3, <3>4, <3>5, NumbersReadAgain
    <3>7. f.num = Float64(fd.ratio).num /\ f.den = FloatDen /\ 0 < f.num /\ f.num < f.den
      BY <3>1, <3>2, <3>3, <3>4, <3>5, RatiosAreInside
    <3>8. CASE fd.max = Absent
      <4>1. f.max = F!UnlimitedMaxFeeAmount
        BY <3>2, <3>4, <3>5, <3>8, AbsentReadAgain
      <4> QED  BY <3>6, <3>7, <3>8, <4>1 DEF SameLimit
    <3>9. CASE fd.max # Absent
      <4>1. f.max = BigFromInterface(again.max) /\ IsNumber(again.max)
        BY <3>2, <3>3, <3>4, <3>5, <3>9, AbsentReadAgain
      <4>2. IsAsWritten(f.max, fd.max) \/ (ReadAsNoLimit(fd.max) /\ f.max = -1)
        BY <3>1, <3>2, <3>5, <4>1, NumbersReadAgain
      <4>3. SameLimit(fd.max, f.max) \/ (ReadAsNoLimit(fd.max) /\ f.max = F!UnlimitedMaxFeeAmount)
        BY <3>9, <4>2 DEF SameLimit, F!UnlimitedMaxFeeAmount
      <4> QED  BY <3>6, <3>7, <4>3
    <3> QED  BY <3>8, <3>9
  <2> QED  BY <2>8, <2>9, <2>11, <2>12, <2>13 DEF f, fd
<1> QED  BY <1>1, GenesisInvariance, PTL
=============================================================================
