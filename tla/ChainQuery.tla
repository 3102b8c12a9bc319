----------------------------- MODULE ChainQuery -----------------------------
(***************************************************************************)
(* What the digest API answers about one thing: the node, a block, its     *)
(* manifest, the list of manifests, an operation, an account and its       *)
(* operations, a currency (digest/handler_*.go).  The answers come from    *)
(* three places that go on at their own pace: mitum's database of blocks,  *)
(* the digest, and the currency pool that the block-saved hook fills; and  *)
(* they link to each other.                                                *)
(*                                                                         *)
(* There is one account, and of each block at most one operation.  Left    *)
(* out are the links to an answer itself or to another form of it (self,   *)
(* current, alternate, reverse), templates, and neighbours: next and prev  *)
(* of a block, next of a page (see Handlers), previous_block.              *)
(*                                                                         *)
(* A currency is read in two calls: Get under the read lock of the pool,   *)
(* State without a lock.  Go may stop the process when a map is read while *)
(* it is written (Throw), or the read finds either the old or the new      *)
(* entry.                                                                  *)
(*                                                                         *)
(* Like those of Handlers, the handlers look into the cache, share         *)
(* requests in flight, and cache what nobody shared.                       *)
(* External: mitum's database, which has a block and its manifest at once; *)
(* clients; the cache's expiry and eviction.                               *)
(***************************************************************************)
EXTENDS AccountQuery, FiniteSets

CONSTANTS
    Designs,     \* the states of currency designs in the chain: [cid, height]
    Created,     \* the block the account is created in
    Addressed,   \* the blocks whose operation names the account
    Clients,
    Asked,       \* bound: what each client asks for
    ItemsLimit,  \* itemsLimiter
    CacheSize    \* bound: entries of the cache

\* The blocks that have an operation.
OperationHeights == {d.height : d \in {e \in Docs : e.col = "operation"}}

\* A currency comes or changes by an operation that names no account, an
\* account by one that does, but for those of the genesis block; and it
\* comes with an amount.
ASSUME ChainAssumption ==
    /\ \A d \in Designs : d.cid \in Currencies /\ d.height \in OperationHeights \ Addressed
    /\ Addressed \subseteq OperationHeights \ {0}
    /\ Created \in {0} \cup Addressed
    /\ \A col \in {"account", "balance"} : \E d \in Docs : d.col = col /\ d.height = Created
    /\ \E r \in Readers : Readers = {r}
    /\ Currencies # {}
    /\ ItemsLimit \in Nat \ {0}
    /\ CacheSize \in Nat \ {0}

PreGenesisHeight == -1

VARIABLES
    saved,    \* the last block of mitum's database
    pool,     \* CurrencyPool: of each currency, the blocks of its entries in demap and stsmap
    hook,     \* the design states that the block-saved hook has yet to load
    setting,  \* the one that Set has put into demap and not yet into stsmap
    up,       \* whether the process runs
    cache,    \* the cached answers, one for a key
    flights,  \* the requests in flight (Handlers.rg)
    walks     \* of each client, what it asks for and what it got

chain == <<saved, pool, hook, setting>>
api == <<cache, flights, walks>>
chainVars == <<vars, chain, up, api>>

-----------------------------------------------------------------------------
\* The URLs.
Key(kind) == [kind |-> kind, height |-> NilHeight, cid |-> "", reverse |-> FALSE]
NodeInfo == Key("node")
Currencies_ == Key("currencies")
Currency(c) == [Key("currency") EXCEPT !.cid = c]
AccountKey == Key("account")
AccountOperations == Key("account operations")
Block(h) == [Key("block") EXCEPT !.height = h]
Manifest(h) == [Key("manifest") EXCEPT !.height = h]
Operation(h) == [Key("operation") EXCEPT !.height = h]
Manifests(offset, reverse) ==
    [Key("manifests") EXCEPT !.height = offset, !.reverse = reverse]

\* The paths that a route matches: a height in one has digits only, the
\* offset of the manifests may have a sign.
URLs ==
    {key \in [kind : {"node", "currencies", "currency", "account", "account operations", "block",
                      "manifest", "manifests", "operation"},
              height : Int, cid : Currencies \cup {""}, reverse : BOOLEAN] :
        /\ key.kind \in {"block", "manifest", "operation"} => key.height >= 0
        /\ key.kind = "currency" => key.cid # ""
        /\ key.kind = "account" => key = AccountKey
        /\ key.kind = "account operations" => key = AccountOperations}

ASSUME AskedAssumption == \A c \in Clients : Asked[c] \subseteq URLs

\* An answer: the heights of what it shows and the URLs it links to.
OKWith(shown, links) == [ok |-> TRUE, shown |-> shown, links |-> links]
NotFound == [ok |-> FALSE, shown |-> {}, links |-> {}]

\* handleManifestsInGroup and Database.Manifests: the manifest of the
\* pre-genesis block counts for the limit and is not shown.
ManifestsPage(key) ==
    LET found == {h \in PreGenesisHeight..saved :
                    key.height > NilHeight =>
                        IF key.reverse THEN h < key.height ELSE h > key.height}
        Sooner(g, h) == IF key.reverse THEN g > h ELSE g < h
    IN  {h \in found : Cardinality({g \in found : Sooner(g, h)}) < ItemsLimit} \ {PreGenesisHeight}

\* buildBlockHalByHeight: whether there is such a block is not asked.
BlockDocument(h) == OKWith({}, {Manifest(h)})

ManifestLinks(h) == {Block(h)}

ManifestDocument(h) == IF h =< saved THEN OKWith({h}, ManifestLinks(h)) ELSE NotFound

ManifestsDocument(key) ==
    LET page == ManifestsPage(key)
    IN  IF page = {} THEN NotFound ELSE OKWith(page, UNION {ManifestLinks(h) : h \in page})

\* buildOperationHal: one that creates accounts links to them (new_account).
OperationLinks(h) ==
    {Block(h), Manifest(h)} \cup (IF h = Created /\ h \in Addressed THEN {AccountKey} ELSE {})

\* Whether the digest has the operation of a block.
Digested(h) == \E d \in stored : d.col = "operation" /\ d.height = h

OperationDocument(h) == IF Digested(h) THEN OKWith({h}, OperationLinks(h)) ELSE NotFound

\* handleAccountOperationsInGroup, the first page: the oldest operations
\* that name the account, whether it exists or not.
AccountOperationsDocument ==
    LET found == {h \in Addressed : Digested(h)}
        page == {h \in found : Cardinality({g \in found : g < h}) < ItemsLimit}
    IN  IF page = {} THEN NotFound
        ELSE OKWith(page, {AccountKey} \cup UNION {OperationLinks(h) : h \in page})

NodeInfoDocument == OKWith({saved}, {Block(saved), Manifest(saved), Currencies_})

Known == {c \in Currencies : pool[c].design > NilHeight}

CurrenciesDocument == OKWith({}, {Currency(c) : c \in Known})

\* What a handler answers that reads once.
Document(key) ==
    CASE key.kind = "block" -> BlockDocument(key.height)
      [] key.kind = "manifest" -> ManifestDocument(key.height)
      [] key.kind = "manifests" -> ManifestsDocument(key)
      [] key.kind = "operation" -> OperationDocument(key.height)
      [] key.kind = "account operations" -> AccountOperationsDocument
      [] key.kind = "node" -> NodeInfoDocument
      [] key.kind = "currencies" -> CurrenciesDocument

\* buildCurrency: the design and, by the state, its block and operation.
CurrencyDocument(design, state) == OKWith({design}, {Block(state), Operation(state)})

\* buildAccountHal: the account's block is that of its newest balance.
\* There is no URL of the block of an account without balance.
AccountDocument(read) ==
    LET heights == {read.amounts[c] : c \in Currencies}
        last == CHOOSE h \in heights : \A g \in heights : g =< h
    IN  IF read.pc = "not found" \/ last = NilHeight THEN NotFound
        ELSE OKWith({last}, {Block(last), AccountOperations})

-----------------------------------------------------------------------------
\* The newest entry of the chain for a currency.
Loaded(c) ==
    LET heights == {NilHeight} \cup {d.height : d \in {e \in Designs : e.cid = c /\ e.height =< saved}}
        last == CHOOSE h \in heights : \A g \in heights : g =< h
    IN  [design |-> last, state |-> last]

Idle == [pc |-> "idle", key |-> Key(""), there |-> FALSE, answer |-> NotFound]

\* A node that has the genesis block at least, and has loaded the currencies.
ChainInit ==
    /\ Init
    /\ saved \in {next - 1, next} \cap Nat
    /\ \A d \in stored : d.height =< saved
    /\ pool = [c \in Currencies |-> Loaded(c)]
    /\ hook = {}
    /\ setting = {}
    /\ up = TRUE
    /\ cache = {}
    /\ flights = {}
    /\ walks = [c \in Clients |-> Idle]

\* The next block is saved; the hook starts.
WhenBlockSaved ==
    /\ saved < MaxHeight
    /\ hook \cup setting = {}
    /\ saved' = saved + 1
    /\ hook' = {d \in Designs : d.height = saved + 1}
    /\ UNCHANGED <<vars, pool, setting, up, api>>

\* CurrencyPool.Set, which holds the lock: first demap ...
Set(d) ==
    /\ setting = {}
    /\ pool' = [pool EXCEPT ![d.cid].design = d.height]
    /\ setting' = {d}
    /\ hook' = hook \ {d}
    /\ UNCHANGED <<vars, saved, up, api>>

\* Mutant: stsmap is forgotten.
SetNoState(d) ==
    /\ setting' = {}
    /\ UNCHANGED <<vars, saved, pool, hook, up, api>>

\* ... and then stsmap.
SetState(d) ==
    /\ pool' = [pool EXCEPT ![d.cid].state = d.height]
    /\ setting' = {}
    /\ UNCHANGED <<vars, saved, hook, up, api>>

\* The query for the next currency fails, which is logged.
HookFails ==
    /\ hook # {}
    /\ setting = {}
    /\ hook' = {}
    /\ UNCHANGED <<vars, saved, pool, setting, up, api>>

\* The hook gives the digester a block that has been saved.
DigestedWhenSaved == next =< saved

DigestBlocks ==
    /\ DigestedWhenSaved
    /\ Digesting
    /\ UNCHANGED <<chain, up, api>>

-----------------------------------------------------------------------------
\* Whether what a key is of is there to be found: in a settled block, for
\* what comes from the digest.
There(key) ==
    CASE key.kind = "operation" ->
           \E d \in Of("operation") : d.height = key.height /\ d.height =< Settled
      [] key.kind = "account operations" ->
           \E d \in Of("operation") : d.height \in Addressed /\ d.height =< Settled
      [] key.kind = "account" ->
           \A col \in {"account", "balance"} : \E d \in Of(col) : d.height =< Settled
      [] key.kind = "currency" -> key.cid \in Known
      [] OTHER -> Document(key).ok

FlightsOf(key) == {f \in flights : f.key = key}

Requested(key) ==
    [pc |-> "load", key |-> key, there |-> There(key) /\ FlightsOf(key) = {}, answer |-> NotFound]

Received(walk, answer) == [walk EXCEPT !.pc = "answered", !.answer = answer]

Ask(c) ==
    /\ walks[c].pc \in {"idle", "answered"}
    /\ \E key \in Asked[c] : walks' = [walks EXCEPT ![c] = Requested(key)]
    /\ UNCHANGED <<vars, chain, up, cache, flights>>

\* loadFromCache.
Load(c) ==
    /\ walks[c].pc = "load"
    /\ LET hits == {e \in cache : e.key = walks[c].key}
       IN  IF hits = {} THEN walks' = [walks EXCEPT ![c].pc = "do"]
           ELSE \E e \in hits : walks' = [walks EXCEPT ![c] = Received(@, e.answer)]
    /\ UNCHANGED <<vars, chain, up, cache, flights>>

\* Mutant: requests are not shared.
NeverJoined(key) == FALSE

Joined(key) == FlightsOf(key) # {}

\* rg.Do: the first one starts the flight.
Do(c) ==
    /\ walks[c].pc = "do"
    /\ walks' = [walks EXCEPT ![c].pc = "flying"]
    /\ flights' = IF Joined(walks[c].key) THEN flights
                  ELSE flights \cup {[key |-> walks[c].key, pc |-> "new", design |-> NilHeight,
                                      answer |-> NotFound]}
    /\ UNCHANGED <<vars, chain, up, cache>>

-----------------------------------------------------------------------------
\* The leader of a flight.  Nothing of the chain changes.
FlightGoes(f, g) ==
    /\ flights' = (flights \ {f}) \cup {g}
    /\ UNCHANGED <<chain, cache, walks>>

FlightDone(f, answer) == FlightGoes(f, [f EXCEPT !.pc = "done", !.answer = answer])

\* handle...InGroup of what takes one read; Designs takes the read lock.
InGroup(f) ==
    /\ f.pc = "new"
    /\ f.key.kind \notin {"currency", "account"}
    /\ f.key.kind = "currencies" => setting = {}
    /\ FlightDone(f, Document(f.key))
    /\ UNCHANGED <<vars, up>>

\* handleCurrencyInGroup: CurrencyPool.Get, with the read lock ...
Get(f) ==
    /\ f.pc = "new"
    /\ f.key.kind = "currency"
    /\ setting = {}
    /\ IF f.key.cid \notin Known THEN FlightDone(f, NotFound)
       ELSE FlightGoes(f, [f EXCEPT !.pc = "state", !.design = pool[f.key.cid].design])
    /\ UNCHANGED <<vars, up>>

\* ... and CurrencyPool.State, without it.
State(f) ==
    /\ f.pc = "state"
    /\ LET state == pool[f.key.cid].state
       IN  FlightDone(f, IF state = NilHeight THEN NotFound ELSE CurrencyDocument(f.design, state))
    /\ UNCHANGED <<vars, up>>

\* Go finds the map read and written at once.
Throw(f) ==
    /\ f.pc = "state"
    /\ setting # {}
    /\ up' = FALSE
    /\ UNCHANGED <<vars, chain, api>>

\* handleAccountInGroup: Database.Account begins, and returns.
StartRead(f, r) ==
    /\ f.pc = "new"
    /\ f.key.kind = "account"
    /\ Request(r)
    /\ FlightGoes(f, [f EXCEPT !.pc = "reading"])
    /\ UNCHANGED up

EndRead(f, r) ==
    /\ f.pc = "reading"
    /\ FlightDone(f, AccountDocument(reads[r]))
    /\ Return(r)
    /\ UNCHANGED up

ReadAccount(r) == Query(r) /\ UNCHANGED <<chain, up, api>>

-----------------------------------------------------------------------------
Flying(key) == {c \in Clients : walks[c].pc = "flying" /\ walks[c].key = key}

\* Mutant: a 404 is as good as an answer.
AnyStatus(answer) == TRUE

\* CacheResponseWriter.OK.
OK(answer) == answer.ok

\* What singleflight calls shared.
Shared(key) == Cardinality(Flying(key)) > 1

\* Mutant: every answer is kept for long.
AlwaysLong(key, answer) == TRUE

\* What is kept for 30 hours or more, the rest for 2 or 3 seconds: what does
\* not change, and a page that is full.
KeptLong(key, answer) ==
    \/ key.kind \in {"block", "manifest", "operation"}
    \/ /\ key.kind \in {"manifests", "account operations"}
       /\ Cardinality(answer.shown) = ItemsLimit

\* CacheResponseWriter.Cache.  When there is no room an entry makes place.
Cache(key, answer) ==
    \E kept \in SUBSET {e \in cache : e.key # key} :
        /\ Cardinality(kept) < CacheSize
        /\ cache' = kept \cup {[key |-> key, answer |-> answer, long |-> KeptLong(key, answer)]}

\* The flight lands: all that wait for it answer, and what is not shared is
\* cached.  (Handlers has the caching as a step of its own.)
Answer(f) ==
    /\ f.pc = "done"
    /\ flights' = flights \ {f}
    /\ walks' = [c \in Clients |-> IF c \in Flying(f.key) THEN Received(walks[c], f.answer)
                                   ELSE walks[c]]
    /\ IF OK(f.answer) /\ ~Shared(f.key) THEN Cache(f.key, f.answer) ELSE UNCHANGED cache
    /\ UNCHANGED <<vars, chain, up>>

\* An entry expires.
Expire(e) ==
    /\ cache' = cache \ {e}
    /\ UNCHANGED <<vars, chain, up, flights, walks>>

-----------------------------------------------------------------------------
Handle(c) == Load(c) \/ Do(c)

Fly(f) ==
    \/ InGroup(f)
    \/ Get(f)
    \/ State(f)
    \/ \E r \in Readers : StartRead(f, r) \/ EndRead(f, r)
    \/ Answer(f)

Hook ==
    \/ \E d \in hook : Set(d)
    \/ \E d \in setting : SetState(d)

ChainNext ==
    /\ up
    /\ \/ WhenBlockSaved
       \/ Hook
       \/ HookFails
       \/ DigestBlocks
       \/ \E r \in Readers : ReadAccount(r)
       \/ \E c \in Clients : Ask(c) \/ Handle(c)
       \/ \E f \in flights : Fly(f) \/ Throw(f)
       \/ \E e \in cache : Expire(e)

\* The database answers the queries of a read; nobody has to ask, to save
\* blocks or to digest them.
ChainFairness == \A r \in Readers : WF_chainVars(up /\ ReadAccount(r))

ChainSpec == ChainInit /\ [][ChainNext]_chainVars /\ ChainFairness

-----------------------------------------------------------------------------
\* Type invariant; a key is cached once and has one flight, whoever flies
\* has a flight to wait for, and no flight flies for nobody.
TypeOK ==
    /\ saved \in 0..MaxHeight
    /\ hook \subseteq Designs /\ setting \subseteq Designs
    /\ \A e, o \in cache : e.key = o.key => e = o
    /\ \A f, g \in flights : f.key = g.key => f = g
    /\ \A c \in Clients : walks[c].pc = "flying" => FlightsOf(walks[c].key) # {}
    /\ \A f \in flights : Flying(f.key) # {}
    /\ \A e \in cache : e.answer.ok

Answers ==
    {[key |-> e.key, answer |-> e.answer] : e \in cache} \cup
    {[key |-> walks[c].key, answer |-> walks[c].answer] :
        c \in {b \in Clients : walks[b].pc = "answered"}}

CurrencyStateIsNotOlder(a) ==
    a.key.kind = "currency" =>
        \A d \in a.answer.shown, link \in a.answer.links : d =< link.height

\* Whether the digest shows now what a link leads to.
Shown(link) ==
    CASE link.kind = "operation" -> OperationDocument(link.height).ok
      [] link.kind = "account" -> \A col \in {"account", "balance"} : Of(col) # {}
      [] link.kind = "account operations" -> AccountOperationsDocument.ok

\* The blocks that what a link leads to comes from.
Sources(link) ==
    CASE link.kind = "operation" -> {link.height}
      [] link.kind = "account" -> {Created}
      [] link.kind = "account operations" -> Addressed

\* Whatever an answer links to is there, though the digest, the pool and the
\* blocks are kept by different parties: no answer is ahead of the saved
\* blocks, and no list of currencies of the pool.  (A block's page answers
\* of blocks to come as well.)
\*
\* The digest may be behind an answer, itself even: a currency comes from the
\* pool, an operation is inserted before the account it creates, and the
\* answer may stay in a cache for 30 hours.  A link into it leads to a 404
\* only as long as no block that has what is linked is settled, and, but for
\* the operations of an account and their account, such a block is saved: it
\* is enough to wait for the digest.  (An account may have no operation, and
\* an operation that failed may name an account that never is.)
\*
\* And the block and the operation that a currency links to are not older
\* than the design shown, though they are read apart and State is not locked.
LinksAreThere ==
    \A a \in Answers : a.key.kind # "block" =>
        /\ \A link \in a.answer.links :
             /\ link.kind \in {"block", "manifest", "operation"} => link.height \in 0..saved
             /\ link.kind = "currency" => link.cid \in Known
             /\ link.kind = "account" /\ a.key.kind = "operation" => Created =< saved
             /\ link.kind \in {"operation", "account", "account operations"} =>
                  Shown(link) \/ \A h \in Sources(link) : h > Settled
        /\ CurrencyStateIsNotOlder(a)

\* What was settled before it was asked for is not answered with a 404,
\* neither from the cache nor in the middle of a digestion or a Set; but
\* who shares an older request shares its answer.
WhatIsThereIsFound ==
    \A c \in Clients : walks[c].pc = "answered" /\ walks[c].there => walks[c].answer.ok

\* Whether an answer cannot change any more: not the reverse manifests
\* from where no block was, nor an operation or a page of them, whose blocks
\* may be digested again (see LongPagesAreRight in Handlers).
Final(e) ==
    /\ e.key.kind \notin {"operation", "account operations"}
    /\ e.key.kind = "manifests" /\ e.key.reverse => e.key.height - 1 \in e.answer.shown

\* What is cached for 30 hours or more is what the handler would answer now.
LongIsRight ==
    \A e \in cache : e.long /\ Final(e) =>
        e.answer = IF e.key.kind \in {"currency", "account"} THEN NotFound ELSE Document(e.key)

\* The read of an account comes to its end, whatever is digested meanwhile:
\* no currency is asked for again and again.
ReadsEnd == \A r \in Readers : reads[r].pc = "account" ~> (Complete(r) \/ ~up)
=============================================================================
