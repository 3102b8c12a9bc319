------------------------------- MODULE Start -------------------------------
(***************************************************************************)
(* The commands of a node: init, which writes the genesis block, and run,  *)
(* which starts the node on the blocks there are (cmds/base.go,            *)
(* run_node.go, init_node.go, design.go, context.go, process_*.go).        *)
(*                                                                         *)
(* A start is a sequence of processes, each with the hooks before and      *)
(* after it, that hand each other values in a context; a process runs when *)
(* the ones it requires have.  Whatever the operator changes in the        *)
(* configuration between two runs, and wherever a start fails or the node  *)
(* stops, the next start has the databases only.                           *)
(*                                                                         *)
(* External: mitum's processes, which run before the ones of this program; *)
(* its check of the rest of the configuration; the consensus that saves    *)
(* blocks.  Here a block changes at most a currency's design, and the      *)
(* hook's work on it and the digesting of a block are a step each:         *)
(* OperationProcessor and Digest have them in full.                        *)
(***************************************************************************)
EXTENDS Genesis

CONSTANTS
    Confs,       \* the genesis operations an operator may configure
    DigestConfs, \* and the digest sections
    NoDigest,    \* no digest section
    NoNetwork,   \* a digest section without a network
    NoLimiter,   \* and without a rate limiter
    MitumBind,   \* the bind address of mitum's own network
    NewDesigns,  \* designs that later blocks give currencies
    NoPool,      \* no currency pool in the context
    MaxHeight    \* bound: the highest block

NilHeight == -2

ASSUME StartAssumption ==
    /\ NoDigest \in DigestConfs
    /\ NewDesigns \subseteq Designs
    /\ MaxHeight \in Nat

\* A configuration is read as YAML, and the account that valid keys make has
\* its address among the addresses.
ASSUME ConfsAssumption ==
    \A g \in Confs :
        /\ DOMAIN g.currencies = 1..Len(g.currencies)
        /\ \A i \in DOMAIN g.currencies : IsCurrencyDesign(g.currencies[i])
        /\ g.keys # NoAccount /\ KeysIsValid(g.keys) => \E a \in Addresses : KeysOf[a] = g.keys

\* What each process requires, beside mitum's.
Requires ==
    [digest_database  |-> {},
     digester         |-> {"digest_database"},
     digest_api       |-> {"digest_database"},
     start_digest_api |-> {"digest_database", "digest_api"},
     start_digester   |-> {"digester"}]

Processes == DOMAIN Requires

VARIABLES
    \* the databases
    height,   \* the last block of the chain, NilHeight when there is none
    ledger,   \* its states
    digested, \* the last block the digest has
    genesis,  \* history: the configuration the genesis block is made from
    \* the command
    state,    \* "stopped", "init", "starting" or "running"
    conf,     \* its configuration
    done,     \* the processes that have run
    context,  \* the names of the values in the context
    cp,       \* the currency pool of the context, or NoPool
    hook,     \* the hook of saved blocks: "none", or whether it has a digester
    started   \* what is running: "api", "digester"

databases == <<height, ledger, digested, genesis>>
command == <<conf, done, context, cp, hook, started>>
vars == <<databases, state, command>>

NoGenesis == [keys |-> NoAccount, currencies |-> <<>>]

NoConf == [digest |-> NoDigest, inside |-> FALSE, known |-> FALSE]

Nothing ==
    /\ conf = NoConf
    /\ done = {}
    /\ context = {}
    /\ cp = NoPool
    /\ hook = "none"
    /\ started = {}

Init ==
    /\ height = NilHeight
    /\ ledger = NoLedger
    /\ digested = NilHeight
    /\ genesis = NoGenesis
    /\ state = "stopped"
    /\ Nothing

-----------------------------------------------------------------------------
\* RateLimiterDesign.Set
RateLimiterIsSet(limiter) ==
    /\ limiter.period \in Nat
    /\ limiter.limit > 0

\* DigestDesign.Set.  Without a network it calls Bind on a nil interface,
\* and the command ends in a panic.
DigestDesignIsSet(d) ==
    /\ d.network # NoNetwork
    /\ d.limiter # NoLimiter => RateLimiterIsSet(d.limiter)

IsLocal(h) == h \in {"localhost", "any"}

SameBind(a, b) ==
    /\ a.scheme = b.scheme
    /\ a.port = b.port
    /\ a.host = b.host \/ (IsLocal(a.host) /\ IsLocal(b.host))

\* validateDigestConfigNetwork: certificates are made up for localhost only.
NetworkIsValid(n) ==
    /\ ~SameBind(n.bind, MitumBind)
    /\ n.bind.scheme = "https" => n.certs \/ n.bind.host = "localhost"

\* hookLoadDigestConfig and hookValidateDigestConfig, of both commands.
DigestIsValid(d) ==
    d # NoDigest => DigestDesignIsSet(d) /\ NetworkIsValid(d.network)

\* The init command, up to the generating of the genesis block.
InitCommand(g, d) ==
    /\ state = "stopped"
    /\ height = NilHeight
    /\ Accepted(g)
    /\ DigestIsValid(d)
    /\ state' = "init"
    /\ genesis' = g
    /\ UNCHANGED <<height, ledger, digested, command>>

\* The genesis block is saved, and the command ends.
GenesisBlock ==
    /\ state = "init"
    /\ ledger' = Process(GenesisCurrenciesFact(genesis))
    /\ height' = 0
    /\ state' = "stopped"
    /\ UNCHANGED <<digested, genesis, command>>

\* HookLoadCurrencies
LoadCurrencies == cp' = ledger.design

\* Whether mitum calls the operation processor: HookInitializeProposalProcessor
\* attaches it on a node of the suffrage, and needs every node's public key.
ProcessorIsAttached(c) == c.inside => c.known

Processors(c) == IF c.inside THEN {"operation_processors"} ELSE {}

\* The run command reads its configuration and runs mitum's processes.
RunCommand(c) ==
    /\ state = "stopped"
    /\ DigestIsValid(c.digest)
    /\ ProcessorIsAttached(c)
    /\ state' = "starting"
    /\ conf' = c
    /\ LoadCurrencies
    /\ context' = Processors(c) \cup (IF c.digest = NoDigest THEN {} ELSE {"digest_design"})
    /\ UNCHANGED <<databases, done, hook, started>>

Runs(p) ==
    /\ state = "starting"
    /\ p \notin done
    /\ Requires[p] \subseteq done
    /\ done' = done \cup {p}
    /\ UNCHANGED <<height, ledger, genesis, state, conf, cp>>

With(value, condition) == context' = IF condition THEN context \cup {value} ELSE context

\* ProcessDigestDatabase
ProcessDigestDatabase ==
    /\ Runs("digest_database")
    /\ With("digest_database", "digest_design" \in context)
    /\ UNCHANGED <<digested, hook, started>>

\* hookSetStateHandler: the hook digests saved blocks when there is a digester.
SetStateHandler ==
    hook' = IF "digester" \in context' THEN "digester" ELSE "currencies"

\* Mutant: a digest that has nothing is not followed up.
FollowUpStarted ==
    digested' = IF "digest_database" \in context /\ digested > NilHeight THEN height ELSE digested

\* HookDigesterFollowUp: the digest gets all the blocks it has not.
DigesterFollowUp ==
    digested' = IF "digest_database" \in context THEN height ELSE digested

\* ProcessDigester and the hooks after it.
ProcessDigester ==
    /\ Runs("digester")
    /\ With("digester", "digest_database" \in context)
    /\ SetStateHandler
    /\ DigesterFollowUp
    /\ UNCHANGED started

\* ProcessDigestAPI makes the server, where the digest section has a network.
HasServer == "digest_design" \in context /\ conf.digest.network # NoNetwork

\* ProcessDigestAPI, and hookDigestAPIHandlers after it, which wants a server
\* on every node that has a digest section, and every node of the suffrage.
ProcessDigestAPI ==
    /\ Runs("digest_api")
    /\ "digest_design" \in context => HasServer /\ conf.known
    /\ context' = IF "digest_design" \in context
                  THEN context \cup {"digest_network", "handlers"} ELSE context
    /\ UNCHANGED <<digested, hook, started>>

ProcessStartDigestAPI ==
    /\ Runs("start_digest_api")
    /\ started' = IF "digest_network" \in context THEN started \cup {"api"} ELSE started
    /\ UNCHANGED <<digested, context, hook>>

ProcessStartDigester ==
    /\ Runs("start_digester")
    /\ started' = IF "digester" \in context THEN started \cup {"digester"} ELSE started
    /\ UNCHANGED <<digested, context, hook>>

RunProcess ==
    \/ ProcessDigestDatabase
    \/ ProcessDigester
    \/ ProcessDigestAPI
    \/ ProcessStartDigestAPI
    \/ ProcessStartDigester

\* enteringBootingState, when the start is over: from here blocks are saved.
EnteringBootingState ==
    /\ state = "starting"
    /\ done = Processes
    /\ state' = "running"
    /\ UNCHANGED <<databases, command>>

-----------------------------------------------------------------------------
\* whenBlockSaved, what it does to the currency pool.
WhenBlockSaved ==
    cp' = IF hook # "none" THEN ledger'.design ELSE cp

\* A block is saved: the next one, which may change a design, or, on a node
\* that was not initialized, the genesis block of another.
BlockSaved ==
    /\ state = "running"
    /\ height < MaxHeight
    /\ IF height = NilHeight
       THEN /\ height' = 0
            /\ \E g \in Confs :
                 /\ Accepted(g)
                 /\ genesis' = g
                 /\ ledger' = Process(GenesisCurrenciesFact(g))
       ELSE /\ height' = height + 1
            /\ UNCHANGED genesis
            /\ \/ UNCHANGED ledger
               \/ \E c \in Currencies, de \in NewDesigns :
                    /\ ledger.design[c] # NoDesign
                    /\ ledger' = [ledger EXCEPT !.design[c].policy = de.policy]
    /\ WhenBlockSaved
    /\ UNCHANGED <<digested, state, conf, done, context, hook, started>>

\* The digester digests the next block the hook gave it.
DigestBlock ==
    /\ state = "running"
    /\ hook = "digester" /\ "digester" \in started
    /\ digested < height
    /\ digested' = IF digested = NilHeight THEN 0 ELSE digested + 1
    /\ UNCHANGED <<height, ledger, genesis, state, command>>

\* The node stops: its process ends, or a start fails (a database, a bind
\* that is taken, a cache that is not there, a suffrage node that is not known).
Stop ==
    /\ state # "stopped"
    /\ state' = "stopped"
    /\ conf' = NoConf
    /\ done' = {}
    /\ context' = {}
    /\ cp' = NoPool
    /\ hook' = "none"
    /\ started' = {}
    /\ genesis' = IF height = NilHeight THEN NoGenesis ELSE genesis
    /\ UNCHANGED <<height, ledger, digested>>

Next ==
    \/ \E g \in Confs, d \in DigestConfs : InitCommand(g, d)
    \/ GenesisBlock
    \/ \E c \in [digest : DigestConfs, inside : BOOLEAN, known : BOOLEAN] : RunCommand(c)
    \/ RunProcess
    \/ EnteringBootingState
    \/ BlockSaved
    \/ DigestBlock
    \/ Stop

\* Safety only: nobody has to start a node, and no start has to succeed.
Spec == Init /\ [][Next]_vars

-----------------------------------------------------------------------------
Registered == {c \in Currencies : ledger.design[c] # NoDesign}

\* Any configuration that the init command takes makes a ledger on which
\* operations can be processed: one account, with keys that its signers can
\* satisfy; all of every currency on it; and no currency whose fees go to an
\* account that has no balance of it (an operation that pays such a fee would
\* make the whole proposal fail).
GenesisIsSound ==
    height = 0 =>
        /\ Registered # {}
        /\ \E ga \in Addresses :
             /\ \A a \in Addresses : ledger.account[a] # NoKeys <=> a = ga
             /\ KeysIsValid(ledger.account[ga])
             /\ ledger.held = {ga} \X Registered
             /\ \A c \in Registered :
                  /\ \A a \in Addresses :
                       ledger.balance[a][c] = IF a = ga THEN ledger.design[c].amount ELSE 0
                  /\ LET f == ledger.design[c].policy.feeer
                     IN  F!HasReceiver(f) => <<f.receiver, c>> \in ledger.held

\* n is what v says.  A float says the whole number that its float64 is: it
\* may be off by half a step of the float64.
IsAsWritten(n, v) ==
    IF v.kind = "float"
    THEN 2 * FloatDen * (n * v.den - v.num) \in (-v.den) .. v.den
    ELSE n = v.value

\* What a feeer of the configuration says of a limit, and what there is.
SameLimit(v, max) ==
    IF v = Absent THEN max = F!UnlimitedMaxFeeAmount ELSE IsAsWritten(max, v)

\* An unquoted 2^64 - 1 (the largest one YAML reads as an integer) is read as -1.
ReadAsNoLimit(v) == v = [kind |-> "int", value |-> 2 * MaxInt64 + 1]

\* The numbers of the genesis block are those of the configuration: none is
\* wrapped on the way, and none is cut off but for what a float64 does not
\* hold.  So an amount that is written as a float is taken, and rounded, only
\* if its float64 is whole (and below a million): 2.5 is refused and never
\* read as 2, while 2.00000000000000001 is 2.0, and so 2, for the YAML reader.
\* The one exception is an unquoted maximum fee of 2^64 - 1, which is taken
\* for "no maximum".  A ratio is strictly between 0 and 1, although RatioFeeer
\* takes both ends: a whole ratio does not survive the second reading of the
\* configuration as a float64, and is refused.
AmountsAreAsWritten ==
    height = 0 => \A i \in DOMAIN genesis.currencies :
        LET de == genesis.currencies[i]
            registered == ledger.design[de.currency]
            f == registered.policy.feeer
        IN  /\ IsAsWritten(registered.amount, de.balance)
            /\ IF de.minBalance = Absent THEN registered.policy.minBalance = 0
               ELSE IsAsWritten(registered.policy.minBalance, de.minBalance)
            /\ f.type = de.feeer.type
            /\ f.type = "fixed" => IsAsWritten(f.amount, de.feeer.amount)
            /\ f.type = "ratio" =>
                 /\ <<f.num, f.den>> = <<Float64(de.feeer.ratio).num, FloatDen>>
                 /\ 0 < f.num /\ f.num < f.den
                 /\ IsAsWritten(f.min, de.feeer.min)
                 /\ SameLimit(de.feeer.max, f.max)
                      \/ (ReadAsNoLimit(de.feeer.max) /\ f.max = F!UnlimitedMaxFeeAmount)

RunsAll ==
    LET digest == conf.digest # NoDigest
    IN  /\ started = IF digest THEN {"api", "digester"} ELSE {}
        /\ hook = IF digest THEN "digester" ELSE "currencies"
        /\ digest <=> {"digest_database", "handlers"} \subseteq context
        /\ conf.inside <=> "operation_processors" \in context

\* In whatever order the processes of a start have run, whatever the earlier
\* runs of the node were configured to do, and whatever block they ended on:
\*  - a node that runs runs all that it is configured to, with a digest section
\*    the digester, on the hook of the blocks, and the API with its handlers,
\*    without one neither, and in the suffrage the operation processor;
\*  - it knows the designs of its last block, with or without a digest;
\*  - no request is answered before the handlers are there;
\*  - before it takes blocks its digest has all the earlier ones, those of the
\*    runs without a digest included.
RunsWhatIsConfigured ==
    /\ state = "running" => RunsAll /\ cp = ledger.design
    /\ "api" \in started => "handlers" \in context
    /\ state = "starting" /\ "digester" \in done /\ conf.digest # NoDigest
         => digested = height
=============================================================================
