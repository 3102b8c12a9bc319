------------------------------- MODULE Nodes --------------------------------
(***************************************************************************)
(* The suffrage nodes at one chain: each processes the proposal on its own *)
(* (the OperationProcessor module), with a currency pool of its own, which *)
(* a failed block-saved hook leaves behind the blocks.  Enough nodes must  *)
(* make the same block for it to be saved.                                 *)
(*                                                                         *)
(* A block is here what its hash is computed from.  Nodes share nothing    *)
(* while they process a proposal, so they take turns at it.                *)
(*                                                                         *)
(* External, modelled from its use here: mitum hands the operations to     *)
(* PreProcess one by one in the order of the proposal and to Process in    *)
(* any order, counts the votes, gives the block to the nodes that made     *)
(* another or none, and runs the hook on all of them.                      *)
(***************************************************************************)
EXTENDS Operations, SequencesExt

CONSTANTS
    Ops, MaxProposalOps, Genesis, GenesisDesigns, NoKeys, NoDesign,
    Nodes,     \* the suffrage nodes
    Threshold, \* how many must make a block
    MaxStale,  \* bound: the pools that may be behind the blocks
    Nobody,    \* no node
    NoBlock    \* no block

ASSUME OpsAssumption ==
    /\ Ops \subseteq Facts
    /\ IsFiniteSet(Ops)
    /\ MaxProposalOps \in Nat

ASSUME GenesisAssumption ==
    /\ Genesis \in Addresses
    /\ GenesisDesigns \in [Currencies -> Designs \cup {NoDesign}]
    /\ \A c \in Currencies : GenesisDesigns[c] # NoDesign =>
         LET f == GenesisDesigns[c].policy.feeer
         IN  F!HasReceiver(f) => f.receiver = Genesis

ASSUME NoValuesAssumption == NoKeys \notin AnyKeys /\ NoDesign \notin Designs

ASSUME ThresholdAssumption ==
    /\ IsFiniteSet(Nodes)
    /\ Threshold \in 1..Cardinality(Nodes)
    /\ MaxStale \in 0..(Threshold - 1)
    /\ Nobody \notin Nodes

VARIABLES
    \* the states of the last block
    account, held, balance, design, committed,
    \* each node's currency pool and hook, and the block it has made
    cps, hooks, saveds,
    blocks,
    \* the proposal, and the node that is processing it
    proposal, worker,
    \* the processors of that node
    status, required, duplicated, newAddress, fee,
    delta, touched, newAccount, newDesign, closed

ledger  == <<account, held, balance, design, committed>>
pools   == <<cps, hooks, saveds>>
changes == <<delta, touched, newAccount, newDesign>>
working == <<status, required, duplicated, newAddress, fee, changes, closed>>
vars    == <<ledger, pools, blocks, proposal, worker, working>>

\* The OperationProcessor of node n; whether a hook may fail is up to the
\* bound on stale pools here.
P(n) == INSTANCE OperationProcessor WITH
    LoadMayFail <- TRUE,
    cp <- cps[n], hook <- hooks[n], saved <- saveds[n],
    proposed <- IF worker = n THEN ToSet(proposal) ELSE {}

Init ==
    /\ cps = [n \in Nodes |-> GenesisDesigns]
    /\ hooks = [n \in Nodes |-> FALSE]
    /\ saveds = [n \in Nodes |-> {}]
    /\ blocks = [n \in Nodes |-> NoBlock]
    /\ proposal = <<>>
    /\ worker = Nobody
    /\ \A n \in Nodes : P(n)!Init

-----------------------------------------------------------------------------
\* One operation after the other, none that a block holds.
Proposals ==
    {s \in SeqOf(Ops \ committed, MaxProposalOps) : s # <<>> /\ IsInjective(s)}

Propose(s) ==
    /\ proposal = <<>>
    /\ proposal' = s
    /\ UNCHANGED <<ledger, pools, blocks, worker, working>>

Begin(n) ==
    /\ proposal # <<>>
    /\ worker = Nobody
    /\ blocks[n] = NoBlock
    /\ worker' = n
    /\ UNCHANGED <<pools, blocks, proposal>>
    /\ P(n)!NewProposal(ToSet(proposal))

\* Mutant: the duplication check is left to the workers that run Process.
PreProcessedLoosely(i) == status[proposal[i]] # "proposed"

\* PreProcess of the i-th operation has returned.
PreProcessed(i) == status[proposal[i]] \notin {"proposed", "validated"}

\* PreProcess, of the first operation it has not returned for.
PreProcess(n, i) ==
    /\ \A j \in 1..(i - 1) : PreProcessed(j)
    /\ \/ P(n)!Validate(proposal[i])
       \/ P(n)!Invalidate(proposal[i])
       \/ P(n)!CheckDuplication(proposal[i])

\* A step of the processors of node n.
Work(n) ==
    /\ worker = n
    /\ UNCHANGED <<pools, blocks, proposal, worker>>
    /\ \/ \E i \in DOMAIN proposal : PreProcess(n, i) \/ P(n)!Process(proposal[i])
       \/ P(n)!Close

\* NewFeeOperationFact: the amounts in the order in which Go ranges over the
\* map, which is any.
FeeFacts ==
    SetToSeqs({<<c, fee[c]>> : c \in {d \in Currencies : fee[d] > 0}})

\* What the hash of a block is computed from: its operations, with the one
\* for the fees that Close adds, and the states they set.
Block(fees) ==
    [ops |-> {o \in ToSet(proposal) : status[o] = "processed"},
     fees |-> fees,
     delta |-> delta, touched |-> touched,
     newAccount |-> newAccount, newDesign |-> newDesign]

\* Mutant: a node makes its block when all is processed, the fees unpaid.
MakeBlockUnclosed(n) ==
    /\ worker = n
    /\ P(n)!AllDone
    /\ \E fees \in FeeFacts : blocks' = [blocks EXCEPT ![n] = Block(fees)]
    /\ worker' = Nobody
    /\ UNCHANGED <<ledger, pools, proposal>>
    /\ P(n)!DropProposal

MakeBlock(n) ==
    /\ worker = n
    /\ closed
    /\ \E fees \in FeeFacts : blocks' = [blocks EXCEPT ![n] = Block(fees)]
    /\ worker' = Nobody
    /\ UNCHANGED <<ledger, pools, proposal>>
    /\ P(n)!DropProposal

Voters(b) == {n \in Nodes : blocks[n] = b}

\* The round is over.
NextRound ==
    /\ proposal' = <<>>
    /\ worker' = Nobody
    /\ blocks' = [n \in Nodes |-> NoBlock]

\* Enough nodes have made block b; the others get it from them.
SaveBlock(b) ==
    /\ worker = Nobody
    /\ b # NoBlock
    /\ Cardinality(Voters(b)) >= Threshold
    /\ account' = [a \in Addresses |->
                      IF b.newAccount[a] # NoKeys THEN b.newAccount[a] ELSE account[a]]
    /\ held' = held \cup b.touched
    /\ balance' = [a \in Addresses |-> [c \in Currencies |-> balance[a][c] + b.delta[a][c]]]
    /\ design' = [c \in Currencies |->
                     IF b.newDesign[c] # NoDesign THEN b.newDesign[c] ELSE design[c]]
    /\ committed' = committed \cup b.ops
    /\ hooks' = [n \in Nodes |-> TRUE]
    /\ saveds' = [n \in Nodes |-> saveds[n] \cup {c \in Currencies : b.newDesign[c] # NoDesign}]
    /\ NextRound
    /\ UNCHANGED <<cps, working>>

\* Consensus goes another way: no block of this proposal.
Cancel ==
    /\ proposal # <<>>
    /\ NextRound
    /\ UNCHANGED <<ledger, pools>>
    /\ \A n \in Nodes : P(n)!DropProposal

\* Node n's pool is behind the blocks, and no hook that is to run will
\* change that.
Stale(n) == \E c \in Currencies : cps[n][c] # design[c] /\ c \notin saveds[n]

\* Node n's pool after a hook or a start that loads the currencies of S.
Load(n, S) ==
    /\ cps' = [cps EXCEPT ![n] = [c \in Currencies |-> IF c \in S THEN design[c] ELSE @[c]]]
    /\ hooks' = [hooks EXCEPT ![n] = FALSE]
    /\ saveds' = [saveds EXCEPT ![n] = {}]

WhenBlockSaved(n) ==
    /\ hooks[n]
    /\ UNCHANGED <<ledger, blocks, proposal, worker, working>>
    /\ \E S \in SUBSET saveds[n] :
         /\ Load(n, S)
         /\ S # saveds[n] => Cardinality({m \in Nodes : Stale(m)'}) =< MaxStale

\* Node n stops, at its work or not, and starts again.
Restart(n) ==
    /\ Load(n, Currencies)
    /\ blocks' = [blocks EXCEPT ![n] = NoBlock]
    /\ UNCHANGED <<ledger, proposal>>
    /\ IF worker = n THEN worker' = Nobody /\ P(n)!DropProposal
       ELSE UNCHANGED <<worker, working>>

Next ==
    \/ \E s \in Proposals : Propose(s)
    \/ \E n \in Nodes : \/ Begin(n) \/ Work(n) \/ MakeBlock(n)
                        \/ SaveBlock(blocks[n])
                        \/ WhenBlockSaved(n) \/ Restart(n)
    \/ Cancel

Spec == Init /\ [][Next]_vars

-----------------------------------------------------------------------------
\* A block but for the order of its fees.
Content(b) == [b EXCEPT !.fees = ToSet(@)]

\* Nodes whose pools are the same make the same block of a proposal, up to
\* the order of the fees: whichever of two conflicting operations a node
\* lets in, all others let in, though the operations are processed in any
\* order and nodes stop and start again in between.
SamePoolSameBlock ==
    \A m, n \in Nodes :
        cps[m] = cps[n] /\ NoBlock \notin {blocks[m], blocks[n]}
        => Content(blocks[m]) = Content(blocks[n])

\* NewFeeOperationFact takes the block's height for the token in place of
\* random bytes, "for unique token": nodes that make the same block of a
\* proposal make one FeeOperation, so that they can agree on the block.
OneFeeOperation ==
    \A m, n \in Nodes :
        /\ NoBlock \notin {blocks[m], blocks[n]}
        /\ Content(blocks[m]) = Content(blocks[n])
        => blocks[m].fees = blocks[n].fees

L == INSTANCE Ledger WITH
    account <- account, balance <- balance, design <- design, committed <- committed

\* The chain is the abstract ledger though some pools are behind the blocks:
\* fewer are than make a block, so one of those that made it had checked and
\* charged its operations by the policies of its parent.
ChainIsLedger == L!Spec
=============================================================================
