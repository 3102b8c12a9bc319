# mitum-currency: a specification

TLA+ models of [mitum-currency](../src), the currency model that runs on the
mitum blockchain, with TLC runs and TLAPS proofs. The models follow the Go code:
`PROJECT.json` names, for each definition, the lines it stands for.

## The system

A suffrage node of a mitum network agrees with its peers on blocks. The mitum
library does the consensus, the storage of blocks, the network and the encoding;
this repository supplies what a block *means*, and a second database to read it
from.

| Component | Code | State it keeps | Operations |
|---|---|---|---|
| Operation processor | `currency/operation_processor.go`, `*_process.go`, `amount_state.go`, `state.go` | per proposal: claimed senders and currencies, claimed new addresses, collected fees; the state pool it writes to | `New`, `PreProcess`, `Process`, `Close`, `Cancel` |
| Fees | `currency/feeer.go`, `fee.go`, `big.go` | none | `Fee` of three policies; the `FeeOperation` of a block |
| Operations | `currency/transfers.go`, `create_accounts.go`, `keyupdater.go`, `currency_register.go`, `currency_policy_updater.go`, `genesis_currencies.go` | none | validity of a fact, its targets and addresses |
| Keys and signatures | `currency/keys.go`, `signs.go`, `account.go`, `address.go` | none | validity, threshold checks |
| Currency pool | `currency/currency_pool.go`, `digest/currency.go`, hooks in `cmds/base.go` and `cmds/run_node.go` | the design of each known currency | `Set`, `Exists`, `Get`, `Policy`, `Feeer`; loading at startup and after each block |
| Digester | `digest/digest.go`, `block_session.go`, `database.go`, `cmds/process_digester.go` | a channel of blocks, the last digested block in memory and on disk, three collections | `Digest`, `DigestBlock`, `Initialize`, `CleanByHeight`, follow-up at startup |
| Digest queries | `digest/database.go` | none | pages of operations, accounts, manifests |
| API handlers and cache | `digest/handler*.go`, `cache.go` | cached responses, requests in flight | one handler per URL |
| Genesis and node start | `cmds/init_node.go`, `run_node.go`, `base.go`, `design.go`, `process_*.go`, `currency/genesis_currencies*.go` | the configuration; the context that the processes of a start hand on | the `init` and `run` commands |
| Sending | `digest/handler_send.go`, `cmds/process_digest_api.go`, `cmds/send.go` | none | a seal is sent to several nodes |
| Operation builder | `digest/builder.go`, `handler_operation_build.go` | none | a template, a fact to sign, a signed operation, by request |
| Client commands | `cmds/create_account.go`, `transfer.go`, `key_updater.go`, `currency_*.go`, `sign_*.go`, `send.go` | the seal that one prints and the next reads | make operations, sign facts and seals, send |
| Encoders, legacy | `*_json.go`, `*_bson.go`, `*_encode.go`, `.cmds/` | none | conversions; `.cmds/` is not built |

### How they interact

1. mitum gives the operations of a proposal to an `OperationProcessor` made by
   `New`. For each operation it calls `PreProcess` and `Process`, many at a time.
   `PreProcess` reads the states of the **last block** (the pool's `Get` never sees
   what the same proposal has set) and the currency pool. Then `checkDuplication`
   claims, under the lock, the sender or currency and the new addresses. `Process`
   writes changes to the state pool through `setState`, which collects fees.
2. Balances are `AmountState`s: they carry a difference, and the pool merges those of
   the same key. Every other state is overwritten.
3. `Close` adds one `FeeOperation` that pays the collected fees to the receivers the
   policies name. The block is then saved.
4. The block-saved hook starts a goroutine that hands the blocks to the digester, and
   loads the currency designs of the block into the currency pool.
5. The digester writes the documents of each block into the digest database, from which
   the API answers.
6. Clients make seals with the builder of the API, in two requests with a signature between them, or
   with commands that pass a seal on by files and pipes; the API or the send command gives it to nodes.
7. `init` makes the genesis block from a YAML configuration. `run` is a sequence of processes with hooks
   that pass values in a context: `HookLoadCurrencies` fills the pool, `Initialize` cleans the digest
   beyond its persisted last block, the API gets its handlers and starts, and the follow-up digests the
   blocks that are missing before the node takes new ones.

### What is hard about it

The whole list is under `hazards` in `PROJECT.json`. In short: checks made against the
last block while other operations of the proposal move money; two kinds of writes to the
state pool; fees taken in one operation and paid in another; a pool of policies that is
loaded after the block is saved, and may fail to load; goroutines that race to a bounded
channel; a digest of several collections updated call by call, with a last block
in memory and another on disk; stops and failures anywhere in it; an API that answers from the blocks, the
pool and the digest at once, which go on at their own pace, and caches what it said; a configuration that is
read twice, and changes between two starts on the same databases. Outside the node, nothing but the document
itself ties the steps of making a seal to each other.

### What makes each component correct

- *Operation processor*: no overdraft; conservation of each currency; one writer for every
  state that is overwritten; nothing spent without the keys of the parent block; the block
  is what an abstract ledger would make of the same operations at once.
- *Fees*: never negative, and `Close` can always pay them.
- *Currency pool*: the policies of the last block when a proposal is processed; at worst
  old ones after a failure, and then still nothing of the above is lost.
- *Digester*: no document twice, no block missing below the last digested one, complete
  after every start, and every block digested in the end.
- *Lists and accounts*: nothing twice, nothing settled missing, nothing older than what was settled.
- *Other answers*: what an answer links to is there, or in a block that the digest has yet to settle; what was
  there is not answered with a 404.
- *Genesis, start*: a genesis ledger that operations can be processed on, with the numbers that were written;
  a node that runs what its configuration says, on the designs and the digest of all its blocks.
- *Sending*: ok only if every node has the seal, and nothing invalid sent.
- *Builder, commands*: every signature that comes out is its signer's, of a fact that says the same in all that
  is hashed (which, of a currency registration, is not all: see the violations), and none is lost or left a default.

## Modules

| Module | What it is |
|---|---|
| `Amounts` | sums of amounts, as a count (no recursion, so that proofs can use them) |
| `Feeer` | the fee of the three policies |
| `Keys` | keys, thresholds, signature checks |
| `Operations` | valid facts, what each claims, creates, uses and is charged |
| `OperationProcessor` | the state machine: proposals, the pool and its hook, blocks, restarts |
| `Ledger` | the abstract specification: a block applies a compatible set of good operations at once |
| `Digest` | the digester, its channel, its database, the start of the node |
| `DigestStore` | the digest database document by document, as its readers see it while the digester works |
| `Handlers` | lists of operations through the API: pages, cache, requests in flight, clients that follow the links (uses `DigestStore`) |
| `AccountQuery` | an account read in several queries (uses `DigestStore`) |
| `ChainQuery` | the API's answers about one thing with their links: node, blocks, manifests, an operation, an account, currencies (extends `AccountQuery`; blocks, pool and digest together) |
| `Nodes` | several nodes, each an instance of `OperationProcessor` with a pool of its own, that make the same block or do not; the chain against `Ledger` |
| `Send` | a posted operation or seal, or one of the builder's or the send command's, is given to all suffrage nodes |
| `Builder` | an operation made with the API's templates, by clients that may change anything in between |
| `Seals` | what seals of operations are to the commands: facts, signatures, validity |
| `ClientSeals` | a seal that passes through the seal commands and from key to key (extends `Seals`) |
| `Clients` | `Builder`, `ClientSeals` and `Send` together: from a client's document to the nodes |
| `Genesis` | from the YAML of the genesis operation to the ledger of the first block (uses `Operations`) |
| `Start` | the `init` and `run` commands, stops, and starts with another configuration (uses `Genesis`) |
| `MCOperationProcessor`, `MCDigest`, `MCHandlers`, `MCChainQuery`, `MCNodes`, `MCClients`, `MCStart` | values of the constants for TLC |
| `OperationProcessor_proofs`, `Blocks_proofs`, `Digest_proofs`, `Handlers_proofs`, `ChainQuery_proofs`, `Clients_proofs`, `Start_proofs`, `Nodes_proofs` | the theorems |

### State and actions of `OperationProcessor`

`account`, `held`, `balance`, `design`, `committed` are the states of the last block.
`held` says which balance states exist: a balance of zero and no balance are different
answers of `getState`. `cp`, `hook`, `saved` are the currency pool and the hook's progress.
`duplicated`, `newAddress`, `fee` are the three maps of the Go struct of the same meaning.
`delta` and `touched` are the `AmountState`s in the pool, `newAccount` and `newDesign` the
states that are overwritten. `required` is what a processor object keeps between
`PreProcess` and `Process`.

| Action | Code |
|---|---|
| `NewProposal` | `OperationProcessor.New` on a proposal |
| `Validate`, `Invalidate` | `PreProcess` of the operation's own processor, succeeding or failing |
| `CheckDuplication` | `checkDuplication`, one critical section |
| `Process` | `Process` of the operation's processor with `setState` |
| `Close` | `Close` with `FeeOperationProcessor.Process` |
| `Cancel` | the proposal is thrown away |
| `Save` | the block is stored: `AmountState.Merge`, the other states as set |
| `WhenBlockSaved` | the hook's loading of currencies, whole or cut short by a failed query |
| `Restart` | the process stops and starts; `HookLoadCurrencies` |

The items of an operation are a matrix of receivers and currencies. Amounts are naturals
(`Big` is `math/big`, so there is no overflow to model). A ratio is a fraction; `MulFloat64`
drops the fractional part, and so does `\div`; the rounding of the float itself is left out.

Two facts about mitum are assumed from how it is used here. `NewProposal` waits for the hook: the
hook is a function the node calls after saving and not a goroutine (only the digesting is one).
`NewProposal` offers only operations no block holds. The mutant `NewProposalAtOnce`
shows what the first assumption is worth: without it `ChecksStillHold` fails.

### State and actions of `Nodes`

`cps`, `hooks` and `saveds` are each node's pool and hook; the states of the last block are the same for all.
`P(n)` is `OperationProcessor` with the pool of node `n`. Nodes share nothing while they process a proposal, so they
take turns: `worker` is the one whose tables and state pool are in `status`, `delta` and the rest, and `blocks` keeps what
each has made. A block is what its hash is computed from: the processed operations, the states set, and the fact
of the `FeeOperation`.

`OperationProcessor` lets mitum call `PreProcess` and `Process` in any order of the operations, which is more than one node does
and all that its own properties need. Nodes that are to agree need an order: mitum calls `PreProcess` one by one along the
proposal (`PreProcess(n, i)` waits for those before it) and `Process` of any of them at any time. The mutant
`PreProcessedLoosely` shows what that is worth: without it `SamePoolSameBlock` fails, since whichever of two
conflicting operations comes first gets in.

| Action | Code |
|---|---|
| `Propose`, `SaveBlock`, `Cancel` | mitum's consensus: a proposal; enough nodes have made the same block, which all then save; neither |
| `Begin`, `Work` | `OperationProcessor.New` and the steps of `OperationProcessor` on one node |
| `MakeBlock` | the closed state pool becomes a block; `FeeFacts` are the orders in which `NewFeeOperationFact` may list the fees |
| `WhenBlockSaved`, `Restart` | as in `OperationProcessor`, by node; at most `MaxStale` pools are behind the blocks at a time |

### State and actions of `Digest`

`docs` counts the chunks (bulk writes) each collection holds of each block; `info` is the
persisted last block and `lastBlock` the one in memory. `pc` numbers the eight database calls
of a block: three deletes, `setLastBlock(h-1)`, three sets of inserts, `SetLastBlock(h)`.
The session works on a `Database` of its own, so the fourth call changes what is persisted
and not `lastBlock`; `SetLastBlock` then compares with `lastBlock`. Each call may fail
(`Fail`) and the node may stop before each (`Crash`). In the digester a failure starts the block
again, in `Initialize` and the follow-up it ends the start.
`pending` holds the goroutines of the hook with what they have yet to send.
`overtaken` remembers that one of them has sent a block before a lower one that another still had.

### State and actions of `DigestStore`, `Handlers`, `AccountQuery`

`Digest` counts chunks and takes every failure apart; its readers need less of the digester and more
of the data. `DigestStore` therefore keeps the documents one by one (`stored`), has the blocks come in order,
and lets a failed session only start again. A bulk write is unordered, so `Insert` makes the documents of a
block visible in any order. The API's process may start before the follow-up of the last block
has ended, so `StoreInit` has states in which the next block is there already and will be digested again.

A page is the set of its items; its order is that of the key. The code's limit is the smaller of
`itemsLimiter`'s and the database's own; `ItemsLimit` is that number.

| Action | Code |
|---|---|
| `DigestBlock`, `CleanByHeight`, `Insert`, `Inserted`, `Retry` | `BlockSession.Prepare` and `Commit`, step by step, and the digester's retry |
| `Walk` | a client asks for a list: all operations, an account's, a block's; forward or reverse |
| `Load` | `loadFromCache` of a handler |
| `Do` | `rg.Do` (singleflight): join the request in flight for the key or start one |
| `InGroup` | the query of the one that started it |
| `Answer` | all that wait for the flight get its page; nobody stores a shared one under the key that is looked up |
| `Cache` | `CacheResponseWriter.Cache`, after the answer is written; 30 hours if the page is full, else 3 seconds |
| `Expire` | an entry is expired or evicted: at any time, since neither has a bound in the code |
| `Request`, `Account`, `Balance` | a request for an account, and the queries of `Database.Account` and `balance` |

### State and actions of `ChainQuery`

`saved` is the last block of mitum's database, which has a block at once. `pool` holds of each currency the blocks
whose design it has in `demap` and in `stsmap`: `CurrencyPool.Set` writes one and then the other, so `Set` and
`SetState` are two actions with `setting` between them. `cache`, `flights` and `walks` are what they are in
`Handlers`. An answer is what it shows and what it links to; `URLs` is what the routes match.

The links are those from one thing to another: an account to its block and its operations, an operation to its
block, its manifest and, if it has created the account, to the account (`new_account`), a page of an account's operations to
the account and all that its operations link to, a currency to the block and the operation of its state, the node to its block
and the currencies. Left out are links of an answer to itself or another form of it (`self`, `current`, `alternate`, `reverse`),
templates, and neighbours (`next` and `prev` of a block, `next` of a page, `previous_block` of an account). There
is one account, and of each block at most one operation, so an operation is named by its height. That the
operations in a currency's state are the fact hashes under which the digest keeps them is mitum's (`state.go`, external).

What `LinksAreThere` promises of a link depends on whom it leads to. Blocks and manifests are at most the saved ones, and the
currencies of the list are those of the pool, so they are there. Operations and accounts are in the digest, which follows the
blocks: a currency comes from the pool and may name an operation of a block that is not digested yet
(`digest/handler_currency.go:135`), and an operation is inserted before the account it creates
(`digest/handler_operation.go:249`, `digest/block_session.go:88`), so a client may find a 404 behind such a link, also of
an answer that stays in the cache for 30 hours. It finds one only until a block that has what is linked is settled. Whether there
will be such a block is another question: an account may have no operations at all, and an operation that failed may name a receiver
who never comes. So that the block is saved is promised of operations, and of the accounts that an operation has created.

| Action | Code |
|---|---|
| `WhenBlockSaved`, `Set`, `SetState`, `HookFails` | a block is saved; the hook's loading of its designs, step by step |
| `DigestBlocks` | the steps of `DigestStore` for blocks that are saved |
| `Ask`, `Load`, `Do`, `InGroup` | a request, `loadFromCache`, singleflight, and the query of one that reads a single source |
| `Get`, `State` | the two reads of a currency's handler: under the pool's lock, and without it |
| `Throw` | an unlocked read while `Set` writes: Go may stop the process (*concurrent map read and map write*) |
| `StartRead`, `ReadAccount`, `EndRead` | the account's handler with the queries of `AccountQuery` |
| `Answer` | all that wait for the flight get its answer, and one nobody shares is cached |
| `Expire` | as in `Handlers` |

### State and actions of `Genesis`, `Start`

A number of the configuration is an integer, a text or a float, and `MaxInt64` is where an unquoted one wraps
(`big.go` turns a `uint64` into an `int64`). A float is read as the nearest float64, here the nearest multiple of
1/`FloatDen` (`Float64`). The whole section is read twice (`ReadAgain`, `cmds/init_node.go:99`): what the first reading has
found is written out and read again, and a float64 that is whole and below a million is written without a point and so
comes back as an integer (`Remarshalled`). A literal 2.0 or 2.00000000000000001 is therefore accepted as the amount 2, in every
number of the section, and the ratio 1.0 refused. The finer grid that a float64 has near zero is left out. `GenesisDesignIsValid`, `GenesisCurrenciesFact` and
`FactIsValid` are the three checks on the way and `Process` is what the genesis processor stores.

`height`, `ledger`, `digested` and `genesis` outlive the node. `state`, `conf`, `done`, `context`, `cp`, `hook` and
`started` are those of one start.

| Action | Code |
|---|---|
| `InitCommand`, `GenesisBlock` | `init`: accepts or refuses the configuration, and writes block 0 |
| `RunCommand` | `run`: the digest section with its checks and defaults, mitum's own processes, `HookLoadCurrencies` |
| `RunProcess` | the five processes of this program with their hooks, in any order that their `Requires` allows |
| `EnteringBootingState` | the node takes blocks from here on |
| `BlockSaved`, `DigestBlock` | a block with the hook that was set, in one step (`OperationProcessor` and `Digest` take it apart) |
| `Stop` | a process fails, or the node stops, anywhere; the next start may have another configuration |

### State and actions of `Send`

`HandleSend` is the handler with all its checks, `SendSeal` and `Put` are the two steps of the goroutine of a
node, `Answer` is what follows `wg.Wait`. `transit` holds the seals that are still on their way when the time limit
of their goroutine is over, and `Arrive` delivers them. `Post` is a request to the handler. `Give` is who sends without it:
the builder, and the send command (`cmds/send.go` has the same goroutines and channel again), which may fail to load a channel first.

### State and actions of `Builder`

`doc` is the client's document, `base` the fact whose signature base the server gave last, `built` what
BuildOperation let out last. A field of a fact is its default, a value of the client's or, after a change of
mind, another one; a hash is what it is made of (`Hash`), so a fact that is changed without its hash is told apart if the change is
in a field that is hashed. `HashedFields` says which are: all of them, but of a currency registration only the token, the
amount and the currency id. Its `Bytes` takes `currency.Bytes()` (`currency/currency_register.go:46`), and `CurrencyDesign` has
none of its own but those of the `Amount` it embeds. A signature is checked against the hash alone; the model's signs remember
in `of` the fact their signer had before him.

| Action | Code |
|---|---|
| `FactTemplate` | `handleOperationBuildFactTemplate` and `Builder.FactTemplate` |
| `BuildFact` | `handleOperationBuildFact`, `buildFact*`: the token checked, the fact made again, then validated |
| `BuildOperation` | `handleOperationBuildSign`, `build*`: signing times set, the operation validated, then the defaults looked for |
| `Write`, `Fill`, `Alter`, `ReplaceSign`, `AddSign` | clients: one that knows the format, one that fills in a template, changes, signatures of the base or of what the document says now |

### State and actions of `ClientSeals`

`seal` is the file that one command prints and the next reads. `consent` remembers which key had which fact
signed and `hands` the keys that signed since the file's operations were made; the commands know neither.
`CreateOperation` is create-account and transfer with or without `--seal`; `KeyUpdater`, `CurrencyRegister` and
`CurrencyPolicyUpdater` read no seal; `SignFact`, `SignSeal` and `SendCommand` are sign-fact, sign, and what send prints. A seal
with an item twice or too many may be printed and is not `Readable` by the next command.

### State and actions of `Clients`

The variables of the three parts, and `agreed`: whether what was posted last is valid and has the signatures of its signers only.
One document is made, by the builder (`Build`) or by the commands (`GiveCommand`), at a time, and one thing is sent.

| Action | Code |
|---|---|
| `PostOperation`, `PostSeal`, `PostOther` | a client posts to `handleSend`: what it has of the builder, built or not; a seal of the commands; anything |
| `SendBuilt` | `handleOperationBuildSign` with `send`: `sendSeal`, past the handler's checks |
| `SendFile` | the send command with a seal that it could load |
| `Proceed` | the handler and its goroutines |

## Runs

| Run | Question | Bounds |
|---|---|---|
| `accounts` | May concurrent checks and changes overdraw an account, write a state twice, create a balance nobody owns, or spend on old keys? Does it all implement the abstract ledger? Is what a check has found still so when its operation is processed, are new accounts funded? | three addresses, one of them with two keys and a threshold, and ten operations of all kinds that compete for them (two creations of the same account, payments both ways, a key update, a payment with the new key only, a currency registered and a policy changed in between); up to three in a proposal |
| `currencies` | Is money conserved and are fees payable, while currencies and policies change and the hook may fail? | two currencies, two competing registrations of the second, a policy that moves the fee receiver and kind; up to three in a proposal; any part of the hook's load may be missing |
| `digest` | What holds after failures and stops, in whatever order goroutines run? Until one overtakes another: does the digest hold every block, and catch up? | blocks up to height 4, one with two chunks and one that writes no account, hooks of one or two blocks, channel of two, two failures, two stops |
| `digest_up_to_date` | Is a digest that is said to be up to date complete? **No**: see below | one stop, no failure |
| `lists` | What do pages from the cache, the database or another's request guarantee, while blocks are digested, fail half-way and are digested again? Is every request answered, and does following the links end? | blocks of one and three operations, of which an account has three; pages of two, two clients, one failure |
| `lists_in_order` | Does a walk along the links meet all operations, the newest first in a reverse list? **No**: see below | blocks of one, two and one operations, all in the list; no failure |
| `answers` | Is an account ever answered older than what was settled when it was asked for? Does anything link to what is not there, and how long, or miss what is? Does what is cached for long stay right? | three blocks: the genesis block, one whose operation creates the account, one with a new currency and a new policy for the other; one client that follows links among currencies, account, its operations, an operation and manifests, another that asks for the operation too; one cache entry; no retries |
| `clients` | May an operation be built with a default in it, and is anybody refused who does as the templates say? Does each signature stay with the fact it was made for, and is none lost? Is all that reaches a node valid and agreed, whichever way it went, and what is the answer to its sender worth? | two clients' keys and the template's, two signatures, every default kept or replaced, one change after BuildFact; two keys, senders and items, any three commands, from nothing or from a seal of two operations; every kind of body, valid and not; three nodes |
| `builder_as_signed` | Has whoever signed an operation that the builder lets out signed this very fact? **No**: see below | the builder of `clients`, alone |
| `start` | Does what `init` accepts make a sound ledger, with the numbers that were written? Does a started node run what it is configured to? | some hundreds of genesis configurations (every kind of number at, below and beyond each boundary, integers wrapping above 3, whole, nearly whole and other floats in every place of a number), twelve digest sections, blocks up to height 2, any number of starts and stops |
| `nodes` | Do nodes with the same pool make the same block of a proposal, and is the chain the abstract ledger though a pool is behind it? | three nodes, two of which make a block; one stale pool at a time; five operations, of which two create the same account and a third conflicts with one of them, a policy and a payment in two currencies with fees; up to three in a proposal, in any order |
| `nodes_one_fee_operation` | Do they make the same `FeeOperation`? **No**: see below | the same, up to two in a proposal |

Two keys are a signer and one that comes later, which is all that the commands and the builder tell apart;
three commands make an operation, extend or sign it and sign it again.

Pages of two and a block of two or more operations let a page end before, within and behind a
block, and let a page be full or not in both directions. Two clients share and do not share a request; a third
would meet no other key or entry. Readers of an account do not meet at all, so one is enough, and so is one
cached answer: no handler looks at another's. Three nodes give an
answer a first, a middle and a last place in the channel.

The ledger is implemented as long as the hooks keep the pool current: with a hook that failed, a block may be made
by the policies of an earlier block, which `Ledger` does not allow. So `accounts` has hooks that do not fail, and
`currencies` shows what holds of one node when they do. `nodes` shows what holds of the chain: as long as
fewer pools are behind the blocks than make a block, the chain is the ledger (`ChainIsLedger`), and the node with the
stale pool takes the others' block.

Three operations in a proposal are enough for two that conflict and a third that depends on them or
pays into them; every conflict the code looks for (sender, currency, new address, existence) is
between two. The chain of blocks has no bound of its own: each operation is in one block at most.
Deadlock is checked in `accounts`, `currencies`, `nodes` and `start`. The other systems stop: clients have nothing to ask for
any more, a seal is sent, or the bounds are used up.

### Fairness

In `Digest`, database calls return, the start goes on, goroutines get to
run and the digester receives when it can (weak fairness of `DigestBlock`, `DigesterFollowUp`,
`Digest`, `Receive`): Go schedules goroutines that can run. Nobody is obliged to save blocks or to
start a node that is down. Failures are bounded: with a database that never recovers
`util.Retry(0, ...)` goes on for ever and nothing is promised.

In `Handlers` the fairness is that of the handlers and of the queries they wait for, in `AccountQuery` and
`ChainQuery` that of the account's queries, as long as the process runs; clients, the digester, caching and expiry owe nothing. In `Send` the handler and its
goroutines run, and `SendSeal` returns because its context has a timeout; in `Clients` that is all the fairness there is. `Start`, `Builder`,
`ClientSeals`, `OperationProcessor` and `Nodes` have no liveness properties and assume no fairness.

### The violations

`UpToDate` fails when two hook calls' goroutines reach the channel in the other order. Say block 2
is digested before block 1: digesting block 1 deletes everything from height 1 on, block 2 included.
`SetLastBlock(1)` changes nothing since the memory says 2. A later block sets the persisted last block
past the gap, and the next start logs `digested blocks is up-to-dated` (`cmds/process_digester.go:130`).

`WalksAreInOrder` speaks only of walks that begin when the whole chain is digested and no request is under
way, and fails in two ways. A bulk write is unordered, so a page read in the middle of one may hold a later
operation of the block and not an earlier one. If it is full it is cached for 30 hours, as if it could not
change (`digest/handler_operation.go:101`), and its link leads on behind the later operation: a client that walks
the list a day later, when everything is long digested, never sees the earlier one. And the first page of a reverse
list is full as soon as there are enough operations, and is then kept for 30 hours while newer ones are digested;
the same holds of the list of manifests (`digest/handler_manifest.go:177`).

`SignedAsBuilt`: a client gets a currency registration to sign, signs it, alters its genesis account or minimum balance (the
feeer would do as well), leaves hash and signatures as they are and posts it; BuildOperation finds the hash right, and gives
the operation out or sends it. So does the send handler of any other client, and so do the nodes. Hash and signatures leave out
the genesis account and the policy (`HashedFields`). `SignedIsBuilt` and `SentIsAgreed` say what is left: each signature is the
signer's own, and of a fact that says the same in everything else.

`OneFeeOperation`: `NewFeeOperationFact` lists the fees by ranging over a Go map and hashes the list (`currency/fee.go:33`), so
two nodes that have processed a proposal alike make blocks with different hashes when there are fees in two currencies: with
two it is a matter of chance, with more they will seldom agree. `SamePoolSameBlock` therefore compares blocks up to the order of the fees,
and `SaveBlock` wants votes for one order.

What does hold of cached pages is `LongPagesAreRight`: a full page that was final when it was read is right for ever,
even when its blocks are deleted and written again.

Smaller disagreements that the models follow the code in, without a run:

- create-account and transfer with `--seal` put the new operation in the place of all that the seal holds
  (`cmds/create_account.go:183`), under the comment "NOTE add operation to existing seal". What is left of the others is the items
  of the last operation of the same type, now under the sender of this command. `Make` and `Extended` do so.
- `checkToken` of the builder refuses
an empty token and updates the template's, its comment has the empty one updated
(`digest/builder.go:605`).
- The map of the templates lacks the currency policy update, which the builder can make and
`openapi.yml:742` lists (`digest/handler_operation_build.go:16`).
- A fact built for create-accounts keeps one
amount of each item (`digest/builder.go:207`), where the one for transfers keeps all.
- A ratio of 1.0 or 0.0 in the genesis configuration is refused, since the second reading finds an integer and not a
  float; the comment at the ratio allows both ends (`currency/feeer.go:131`). For the same reason 2.0 is accepted where an
  amount is expected, 2.5 refused, and 2.00000000000000001 taken as 2. An unquoted maximum fee of
  2^64 - 1 is read as -1, which means "no maximum". `AmountsAreAsWritten` states both exceptions.
- A digest section without a network stops the start: `DigestDesign.Set` calls `Bind` of what is nil
  (`cmds/design.go:256`). `cmds/base.go:260` and `cmds/process_digest_api.go:90` are prepared to go on without
  the API, and never get there.
- An answer that joins a request in flight may be an older 404; the first page of a reverse list of manifests stays for 30
  hours; an operation found in the cache may be of a block that is being digested again. `WhatIsThereIsFound` and
  `LongIsRight` leave these out.
- The template `block:{hash}` of a block's links has the path by height (`digest/handler_block.go:15`).

## Proofs

`OperationProcessor_proofs` proves, for every set of addresses, currencies, policies, keys and
operations that meets the assumptions of `Operations` and `OperationProcessor` (finite sets, valid
facts, fee receivers that exist at genesis):

- `Invariance`: `Spec => []IInv`;
- `TypeCorrect`, `NoAccountIsOverdrawn`, `ChecksHold`, `ClaimsHold`, `StatesHaveOneWriter`: the
  invariants `TypeOK`, `NoOverdraft`, `ChecksStillHold`, `ClaimsAreDistinct`, `SingleWriter`.

`NoOverdraft` is not inductive: that `Process` leaves the payer's balance at zero or more needs to know
that the charge it takes was checked against the balance of the *same* block under the *same*
policies (`ChecksStillHold`), that nobody else in the proposal takes from that account
(`ClaimsAreDistinct` and `OnlyPayersLose`), and that the block and the pool do not move meanwhile
(no proposal while the hook runs). `IInv` is the conjunction of these. The proof has one lemma per
conjunct (`TypeStep`, `ChecksStep`, `ClaimsStep`, `LosersStep`, `OverdraftStep`, `HookStep`) with one
step per action. `TypeOK` rests on `FeeIsNat` (no policy asks a negative fee) and `ChargeType`, and these
on `TotalIsNat`. The lemmas on sums at the top of the module serve the others too.

`SingleWriter` follows from `IInv` alone: two operations that set the same state either claim it both
(`ClaimsAreDistinct`), or one creates the account and the other updates it, and then their checks
contradict each other.

`Blocks_proofs` goes on from there, under the same assumptions, to what the blocks are. Its invariant `BInv`
(`BlocksInvariance`) adds to `IInv` what ties the state pool to the proposal and the currency pool to the blocks:

- `PoolIsOfProposal`, `WrittenByProposal`: between proposals the maps and the pool are empty, and each account or design
  state in the pool was set by an operation that is processed.
- `ReceiversExist`: who receives fees exists, in the policies of the blocks, of the currency pool and of the state
  pool. With it a charged fee has somebody to go to: `FeesCanBePaid` (`FeesArePayable`).
- `PoolIsBehind`, `HeldHasOwner`: the processors know no currency that the blocks do not, and a balance state has its
  account and its currency; so `BalancesHaveOwners` (`BalanceHasOwner`), where `Process` of a creation needs that no
  other operation writes the account it creates (`ClaimsAreDistinct`).
- `MoneyIsHeld`: without a balance state there is no money. `MoneyIsConserved` (`Conservation`) needs it for a
  registered currency, whose supply comes to a balance that was none before; the sums are added by `TotalAdd`,
  `TotalExtend` and `TotalPart`.
- `ComersAreFunded`: what the pool has for a new account is at least the least balance the processors know.

`SpendingNeedsSignatures` (`SpendingIsSigned`) follows step by step: a balance that a block lowers has a negative
amount in the pool, so an operation paid from it (`OnlyPayersLose`), and that one's check, with the keys of the last
block, still holds (`ChecksStillHold`).

Two theorems assume `LoadMayFail = FALSE`, no hook's query fails, and without it they do not hold. Then the pool
differs from the blocks only until the hook is done (`PoolKeepsUp`), so a proposal is checked by the policies in force.
`ComersHaveEnough` is `NewAccountsAreFunded`. `ProcessorImplementsLedger` is the refinement: only `Save` changes what
`Ledger` sees, and it is one of its blocks. For that, the pool has to be what the processed operations make of it
in any order: `WritesStand` says that nothing set is set again, and `PoolIsSum` that the merged amounts are the sums of
gains, losses and fees. With both, `PoolBalances`, `PoolAccounts` and `PoolDesigns` say that the state pool holds what the
abstract block makes of the same set at once, and a block of nothing is a stutter.

`Digest_proofs` proves `DigestIsTyped`, `NothingIsTwice`, `DigestedBlocksAreWhole` and `StartsUpToDate` (`TypeOK`,
`NothingTwice`, `DigestedAreWhole`, `UpToDateInOrder`) for any chain, channel, number of bulk writes, hook calls,
failures and stops. There are two invariants. `SInv` holds in whatever order the blocks come: what a session has
deleted stays empty until it inserts (`Emptied`), and then the block has in each collection what the session has inserted
(`Filled`); so it inserts nothing that is there. `OInv` holds as long as no goroutine has overtaken another, and
`DigestInvariance` states that:

- `Recoverable`: all blocks below the persisted last one are whole, and that one too if it is the last of the chain; what
  is not whole is digested again by the next start.
- `FollowsUp`: the follow-up has all blocks below its own.
- `InOrder`: the digester's block, those in the channel and those of the goroutines (`Queued`) are in this order the
  blocks from the digest's last one to the saved one, none missing and none twice.

The step that needs that nobody overtakes is `LeastIsNext`: then the goroutine that sends has the least block of all, which
is the next one of the chain.

`ChainQuery_proofs` is about what the API answers, for every chain of documents and designs, any clients, requests, page
length, size of the cache and number of failures. It assumes that a path has no negative height, that there is a currency, and
of the chain that currencies come with operations and the account with an amount, by an operation that names it or at genesis
(`ChainAssumption`). It begins with `AccountsAreNotOlder` (`NeverOlder`, for any number of readers), which rests on `StoreInv`:
the settled blocks are whole and stay whole, and the collections that a session has finished are whole in the next block
too; the latter is what makes a finished session settle its block. `ReadOK` then says of each read that what it has found is
at least as new as what was settled when it began, and that a currency it has not seen still has its documents in
the database for the next query to find. The step that needs an argument is `BalanceStep`: the newest
of all unseen balances is the newest of its own currency.

On that stands the invariant of the whole, `AInv`:

- `Behind`: neither the digest nor a read is ahead of the saved blocks.
- `PoolInv`: nor is the pool; and the state of a currency is older than its design only while `Set` is between the two maps.
- `FlightsInv`: between `Get` and `State` the pool's state of the currency is at least as new as the design that was
  read under the lock, because what the hook sets is always of the last block; and a finished flight has a `Good` answer.
- `EntriesInv`, `WalksInv`: so have the cache and the clients.

`Good` is what a new block, the hook and the digester cannot take from an answer (`GoodStays`): its links lead to what is there
or to a block that is saved; a currency's block and operation are not older than its design; and if it is one that lasts, the
handler would answer it now. The last needs `FullPageStays`: a full page of manifests that begins where it was asked to begin does
not change with the next block, as it has as many manifests as there may be before the new one. Of the links into the digest
`SettledIsShown` says the rest: what a settled block has is in the digest, so a link leads to a 404 only while no block that
has what is linked is settled. From `AInv` follow `AnswersAreTyped`, `WhatIsLinkedIsThere` and
`WhatIsKeptIsRight` (`TypeOK`, `LinksAreThere`, `LongIsRight`), and `AnswersAreNotOlder` (`NeverOlder` in the API). For
`WhatIsAskedForIsFound` (`WhatIsThereIsFound`) `Promised` adds that what was there stays there until it is answered, and
that no flight of it, whoever began it, began before it was there.

`Handlers_proofs` is about the lists, for any lists of operations that are ordered by height and index (`ListsAssumption`),
any number of clients, page sizes, directions and failures of the digester. It begins with what a page is: the first
items of a finite ordered set. `FirstIsPrefix` says that what comes before an item of the page is in it, `NotFullIsAll`
that a page with room has everything, and `FullStays` that a full page does not change when items come behind its last one.
From these a page that was just read is `Right` (`QueriesAreRight`): it misses nothing that was settled, and if it is full
and final it is the page of the whole chain. The invariant is `HInv` (`HandlersInvariance`), where

- `StoreInv` keeps the settled documents in the store while a session deletes and inserts beyond them;
- every flight that has read, every page about to be cached and every cached one is `Right`, for what was settled
  when it was *read*, which is what lets an old page from the cache be part of a walk;
- `WalkInv`: what a client has got lies before the offset of its next request, and what was settled at all its reads
  and lies before the offset it has got.

`HandlersAreTyped`, `NothingIsGotTwice`, `WhatWasSettledIsFound` and `LongKeptPagesAreRight` (`TypeOK`, `NothingTwice`,
`SettledAreFound`, `LongPagesAreRight`) follow. `NothingTwice` is not inductive without the second part: that the next page
has nothing the client has got needs that the page lies behind the offset, and all that was got before it.

`Clients_proofs` is about the way from a client's document to the nodes, part by part and as a whole.

- *Sending*: `OKMeansSent` and `SentIsValid` for any number of nodes: a goroutine that is done
  has its error in the channel (`Got`), so if the channel has no error, no goroutine has one, and then every node
  has the seal.
- *Seal commands*: `SignersHaveAgreed` and `NoHandIsLost` for any keys, items, imported seals and number
  of commands, from `FileInv`, which adds that the file holds a seal of operations (`IsSeal`). The argument is in
  `Resigned`: what sign-fact does to an operation leaves alone what its fact is made of.
- *Builder*: `BuiltHasNoTemplate` and `GuidedClientsBuild` (`NoTemplateLeft`, `GuidedIsBuilt`) for any signers that are not the
  templates' own (`SignersAssumption`). A client may change a document at any time, so `BuilderInv` says of it only how its parts
  are written, and of the server's side that the fact it last gave to sign is valid (`base`). The argument is that the
  two checks of a fact look at every field between them (`ValidHasNoTemplate`), and that the signatures that
  BuildOperation lets through have the hash of the fact as it is now, from which `BuiltWasSigned` follows: they are of a fact that
  says the same in every field that is hashed.
- *The whole*: `ClientsSend`, `ClientsBuild` and `ClientsKeepFiles` show that every step of the whole is a step of
  `Send`, of `Builder` or of `ClientSeals`, or leaves its variables alone; so `ClientsOKMeansSent`, `ClientsBuildGuided` and
  `ClientsSignersHaveAgreed` follow from the parts' theorems. `SentWasAgreed` needs all parts: `Agreements` says that what the
  builder has let out is agreed, and that what was posted is if the handler finds it sendable.

`Start_proofs` has two invariants, for any set of configurations as YAML can be read (`ConfsAssumption`), any word size and any
history of starts and stops. `RunInv` (`RunInvariance`) says where each value of the context, each thing that runs and the
block-saved hook come from: the configuration and the processes that have run (`FromProcesses`), which have run in an order their
requirements allow (`DoneInOrder`); and a node that starts with a digester has digested all there is (`FollowedUp`).
`NodesRunWhatIsConfigured` (`RunsWhatIsConfigured`) is what is left of it when all processes have run. `GenesisInv`
(`GenesisInvariance`) says that the ledger of block 0 is what `Process` makes of a configuration that was accepted; then
`GenesisLedgersAreSound` and `GenesisAmountsAreAsWritten` (`GenesisIsSound`, `AmountsAreAsWritten`) are about the accepted
configurations: `AcceptedConfs` follows a currency through the three checks and both readings of the whole section, `GenesisLedger` through
the sums of the genesis processor, and `WrappedNumbers` shows that only the one number, 2^64 - 1, comes to be read as another that
passes the checks.

`Nodes_proofs` is about any number of nodes, of which `Threshold` make a block and fewer may be behind the blocks
(`ThresholdAssumption`). The node that works is the `OperationProcessor` of `Blocks_proofs` (`W`), whose steps it takes
(`WorkIsNext`); but it begins in the states the earlier blocks have left and not at genesis, so `NodesInv` (`NodesInvariance`)
has to say what makes a beginning good:

- `LedgerInv`: in the states of the last block every balance has an owner, each currency's balances add up to its supply
  and every fee receiver is an account. `PoolInv`: no pool knows more than the blocks. From these `Started` has all of
  `BInv`, `WritesStand` and `PoolIsSum`, which `BlocksStep`, `StandsStep` and `SumsStep` then keep.
- `InOrder`: `PreProcess` is through with the proposal up to some place, and what it has let in there is what `Fits`: it passes
  the checks, comes before any other that passes them and claims its key, and no operation let in before it claims one of its new addresses.
- `Waits`: a node that has made a block has no hook to run until the round is over, so its pool is the one it made the block
  with, and the block (`Made`) is `BlockOf` this pool, the designs of the blocks and the operations let in.
- `FewAreStale`: the bound of `Nodes` on stale pools; only a failed hook adds to them.

There is one way to let in what fits (`OneWay`, by the first place where two would differ), and `Fits` and `BlockOf` depend on
the node by its pool alone (`SamePoolSamePasses`): that is `NodesAgree` (`SamePoolSameBlock`). For `ChainIsTheLedger`
(`ChainIsLedger`), more nodes have made the block that is saved than have stale pools, so one of them
has the designs of the blocks (`SomeVoterIsCurrent`), and what it made is a block of `Ledger` (`MadeIsLedgerBlock`). No hook has to succeed
for that, which `ProcessorImplementsLedger` needed of a single node. TLC has checked `NodesInv` itself on three nodes and
proposals of up to two operations.

All invariants that the runs check are proved, and all action properties and refinements, those that a violation refutes
aside. Liveness is out of the prover's reach and stays with TLC.

## Not modelled

- The conversions between types and JSON or BSON: field by field, without control.
- `writeFromCache` scans a cached response line by line with the limit of `bufio.Scanner`; a longer line would cut it. The
  cache of the models gives back what was put into it.
- `ItemsAreValid` leaves out that a sender may not be its own receiver: the items of the models' commands name others.
- The HTTP server, command line flags, the key commands and those that print or delete; mitum's own
  configuration and processes, which `Start` takes as done; more than one genesis operation in a configuration.
- The directory `.cmds`, which the Go tool ignores.
- A race of `Digest` in `digest/digest.go:108`, which sorts a slice in place while the hook reads its first
  element. That of `CurrencyPool.State`, which reads the map without the lock, is in `ChainQuery`.

## Plan

1. (done) Operation processor, pool and hook; the abstract ledger; types, no overdraft and one writer
   proved.
2. (done) Digester with its start.
3. (done) Pages of operations while blocks are digested and deleted; the account read in several queries;
   cache and requests in flight.
4. (done) Sending of seals.
5. (done) The life of a seal before it is sent: the builder, and the client commands that create operations,
   add signatures and collect them in seals.
6. (done) Several nodes processing the same proposal: the hash of the fee operation and a node with a
   stale pool. The clients, the builder, the handler and the send command together.
7. (done) The handlers of manifests, blocks and currencies, with the pool's reads and writes by several goroutines.
8. (done) Start and first block of a node: `init`, genesis currencies, the order of the processes and hooks.
9. (done) What the blocks are: conservation, fees, owners, signatures, new accounts, and the refinement of the ledger
   proved; that the digest is whole, and a started node up to date; the answers of the API.
10. (done) The lists, the builder, the genesis configurations and the start of a node proved.
11. (done) Nodes: that they agree, and that their chain is the ledger, from what `Blocks_proofs` has of one node.
