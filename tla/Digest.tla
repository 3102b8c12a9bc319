------------------------------- MODULE Digest -------------------------------
(***************************************************************************)
(* The digest: a second database that the API reads, filled with the       *)
(* operations, accounts and balances of each block after it is saved       *)
(* (digest/digest.go, block_session.go, database.go, with the hooks of     *)
(* cmds/run_node.go and cmds/process_digester.go).                         *)
(*                                                                         *)
(* Every saving of blocks starts a goroutine that sends them to the        *)
(* digester's bounded channel.  The digester takes one block at a time:    *)
(* it deletes what the digest holds from that height on, collection by     *)
(* collection, sets the persisted last block back, inserts the documents   *)
(* of the block in chunks and sets the last block forward.  A failure      *)
(* starts the block again.  At startup Initialize deletes what is beyond   *)
(* the persisted last block and the follow-up digests what was missed.     *)
(*                                                                         *)
(* External: the database (each of its calls is atomic and may fail) and   *)
(* the consensus that saves blocks, one or several at a time.              *)
(***************************************************************************)
EXTENDS Integers, Sequences

CONSTANTS
    Collections, \* the names of the three collections
    MaxHeight,   \* bound: the highest block
    Chunks,      \* the bulk writes a block needs in each collection
    ChanCap,     \* the capacity of blockChan (100 in the program)
    MaxSaved,    \* the most blocks one hook call hands over
    MaxFailures, \* bound: database failures
    MaxCrashes   \* bound: stops of the node

NilHeight == -2
PreGenesisHeight == -1
Heights == PreGenesisHeight..MaxHeight

CleanOrder == <<"account", "balance", "operation">>
WriteOrder == <<"operation", "account", "balance">>

ASSUME DigestAssumption ==
    /\ Collections = {"account", "balance", "operation"}
    /\ MaxHeight \in Nat
    /\ Chunks \in [Heights -> [Collections -> Nat]]
    /\ Chunks[PreGenesisHeight] = [col \in Collections |-> 0]
    /\ ChanCap \in Nat \ {0}
    /\ MaxSaved \in Nat \ {0}

VARIABLES
    saved,    \* the height of the last block of the chain
    docs,     \* the chunks each collection holds of each block
    info,     \* the last block that the digest has persisted
    node,     \* "down", "initialize", "follow-up" or "running"
    lastBlock,\* Database.lastBlock, in memory
    pending,  \* what the goroutines of the hook have yet to send
    blockChan,\* Digester.blockChan
    height,   \* the block being digested (or cleaned from)
    pc,       \* its next database call, 0 when there is none
    chunk,    \* the chunks of the collection inserted so far
    overtaken,\* history: a goroutine has sent a block before one of a lower block
    failures, crashes

disk == <<saved, docs, info>>
work == <<height, pc, chunk>>
bounds == <<overtaken, failures, crashes>>
vars == <<disk, node, lastBlock, pending, blockChan, work, bounds>>

\* The database calls of a block, by number: three deletes, the last block
\* set back, three inserts of chunks, the last block set forward.
Deletes  == 1..3
SetBack  == 4
Inserts  == 5..7
SetForth == 8

Init ==
    /\ saved = 0
    /\ docs = [h \in Heights |-> [col \in Collections |-> 0]]
    /\ info = NilHeight
    /\ node = "down"
    /\ lastBlock = NilHeight
    /\ pending = {}
    /\ blockChan = <<>>
    /\ height = NilHeight
    /\ pc = 0
    /\ chunk = 0
    /\ overtaken = FALSE
    /\ failures = 0
    /\ crashes = 0

-----------------------------------------------------------------------------
\* cleanByHeight(h) of one collection: all of it for the first blocks.
IsFirst(h) == h =< PreGenesisHeight + 1

\* Mutant: the block itself is kept.
KeptBelowOrAt(h) == IF IsFirst(h) THEN {} ELSE {k \in Heights : k =< h}

KeptBelow(h) == IF IsFirst(h) THEN {} ELSE {k \in Heights : k < h}

\* Mutant: the last block is set back to the block about to be written.
CleanedToItself(h) == IF IsFirst(h) THEN NilHeight ELSE h

\* The last block that cleanByHeight(h) leaves.
CleanedTo(h) == IF IsFirst(h) THEN NilHeight ELSE h - 1

Delete ==
    /\ pc \in Deletes
    /\ docs' = [h \in Heights |-> [col \in Collections |->
                  IF col = CleanOrder[pc] /\ h \notin KeptBelow(height) THEN 0
                  ELSE docs[h][col]]]
    /\ pc' = pc + 1
    /\ UNCHANGED <<saved, info, node, lastBlock, pending, blockChan, height, chunk, bounds>>

\* The end of cleanByHeight.  The session has a Database of its own, so only
\* Initialize, which cleans through the node's Database, changes lastBlock.
CleanInfo ==
    /\ pc = SetBack
    /\ info' = CleanedTo(height)
    /\ IF node = "initialize"
       THEN /\ lastBlock' = info'
            /\ node' = "follow-up"
            /\ pc' = 0
            /\ height' = NilHeight
       ELSE /\ pc' = 5
            /\ UNCHANGED <<lastBlock, node, height>>
    /\ chunk' = 0
    /\ UNCHANGED <<saved, docs, pending, blockChan, bounds>>

\* writeModels of one collection, chunk by chunk.
WriteModels ==
    /\ pc \in Inserts
    /\ LET col == WriteOrder[pc - 4]
       IN  IF chunk < Chunks[height][col]
           THEN /\ docs' = [docs EXCEPT ![height][col] = @ + 1]
                /\ chunk' = chunk + 1
                /\ UNCHANGED pc
           ELSE /\ pc' = pc + 1
                /\ chunk' = 0
                /\ UNCHANGED docs
    /\ UNCHANGED <<saved, info, node, lastBlock, pending, blockChan, height, bounds>>

\* Mutant: the follow-up goes on one block past the last manifest.
DoneBeyond == IF node = "follow-up" /\ height =< saved
              THEN height' = height + 1 /\ pc' = 1 /\ UNCHANGED node
              ELSE node' = "running" /\ pc' = 0 /\ height' = NilHeight

\* What comes after a block: the next one of the follow-up, or nothing.
Done == IF node = "follow-up" /\ height < saved
        THEN height' = height + 1 /\ pc' = 1 /\ UNCHANGED node
        ELSE node' = "running" /\ pc' = 0 /\ height' = NilHeight

\* SetLastBlock: a block that is not beyond the last one changes nothing,
\* not even the persisted height that the session has just set back.
SetLastBlock ==
    /\ pc = SetForth
    /\ IF height =< lastBlock THEN UNCHANGED <<info, lastBlock>>
       ELSE info' = height /\ lastBlock' = height
    /\ Done
    /\ UNCHANGED <<saved, docs, pending, blockChan, chunk, bounds>>

Stop ==
    /\ node' = "down"
    /\ pc' = 0
    /\ height' = NilHeight
    /\ chunk' = 0
    /\ lastBlock' = NilHeight
    /\ pending' = {}
    /\ blockChan' = <<>>

\* Mutant: the digester gives the block up.
FailAndGiveUp ==
    /\ pc # 0
    /\ failures < MaxFailures
    /\ failures' = failures + 1
    /\ IF node = "running"
       THEN /\ pc' = 0 /\ chunk' = 0 /\ height' = NilHeight
            /\ UNCHANGED <<node, lastBlock, pending, blockChan>>
       ELSE Stop
    /\ UNCHANGED <<disk, overtaken, crashes>>

\* A database call fails: util.Retry starts the block again, for ever; in
\* Initialize or the follow-up the error ends the start of the node.
Fail ==
    /\ pc # 0
    /\ failures < MaxFailures
    /\ failures' = failures + 1
    /\ IF node = "running"
       THEN /\ pc' = 1 /\ chunk' = 0
            /\ UNCHANGED <<node, height, lastBlock, pending, blockChan>>
       ELSE Stop
    /\ UNCHANGED <<disk, overtaken, crashes>>

\* The node stops at any point; only the databases remain.
Crash ==
    /\ node # "down"
    /\ crashes < MaxCrashes
    /\ crashes' = crashes + 1
    /\ Stop
    /\ UNCHANGED <<disk, overtaken, failures>>

-----------------------------------------------------------------------------
\* ProcessDigestDatabase: Initialize loads the last block and cleans from
\* the height after it.  (Where none was ever persisted nothing was written
\* either, and the cleaning that Initialize leaves out has nothing to do.)
Initialize ==
    /\ node = "down"
    /\ node' = "initialize"
    /\ lastBlock' = info
    /\ height' = info + 1
    /\ pc' = 1
    /\ chunk' = 0
    /\ UNCHANGED <<disk, pending, blockChan, bounds>>

\* Mutant: a follow-up of one block is left out.
NewBlocksFoundLate == saved > lastBlock + 1

NewBlocksFound == saved > lastBlock

\* HookDigesterFollowUp: digestFollowup starts from the last block itself.
DigesterFollowUp ==
    /\ node = "follow-up"
    /\ pc = 0
    /\ IF NewBlocksFound
       THEN /\ height' = IF lastBlock < PreGenesisHeight THEN PreGenesisHeight ELSE lastBlock
            /\ pc' = 1
            /\ UNCHANGED node
       ELSE /\ node' = "running"
            /\ UNCHANGED <<height, pc>>
    /\ UNCHANGED <<disk, lastBlock, pending, blockChan, chunk, bounds>>

-----------------------------------------------------------------------------
\* Blocks are saved, and whenBlockSaved starts a goroutine for them.
BlockSaved(n) ==
    /\ node = "running"
    /\ saved + n =< MaxHeight
    /\ saved' = saved + n
    /\ pending' = pending \cup {[i \in 1..n |-> saved + i]}
    /\ UNCHANGED <<docs, info, node, lastBlock, blockChan, work, bounds>>

\* Digester.Digest: one of the goroutines sends its next block.
Digest(p) ==
    /\ p \in pending
    /\ Len(blockChan) < ChanCap
    /\ overtaken' = (overtaken \/ \E q \in pending : Head(q) < Head(p))
    /\ blockChan' = Append(blockChan, Head(p))
    /\ pending' = (pending \ {p}) \cup (IF Len(p) = 1 THEN {} ELSE {Tail(p)})
    /\ UNCHANGED <<disk, node, lastBlock, work, failures, crashes>>

\* Mutant: an error ends the digester's loop for good.
ReceiveUntilFailed ==
    /\ node = "running"
    /\ pc = 0
    /\ failures = 0
    /\ blockChan # <<>>
    /\ height' = Head(blockChan)
    /\ blockChan' = Tail(blockChan)
    /\ pc' = 1
    /\ UNCHANGED <<disk, node, lastBlock, pending, chunk, bounds>>

\* Digester.start takes a block off the channel.
Receive ==
    /\ node = "running"
    /\ pc = 0
    /\ blockChan # <<>>
    /\ height' = Head(blockChan)
    /\ blockChan' = Tail(blockChan)
    /\ pc' = 1
    /\ UNCHANGED <<disk, node, lastBlock, pending, chunk, bounds>>

DigestBlock == Delete \/ CleanInfo \/ WriteModels \/ SetLastBlock

Next ==
    \/ DigestBlock
    \/ Fail
    \/ Crash
    \/ Initialize
    \/ DigesterFollowUp
    \/ \E n \in 1..MaxSaved : BlockSaved(n)
    \/ \E p \in pending : Digest(p)
    \/ Receive

\* Database calls return, the start of the node goes on, and goroutines get
\* to run; nobody has to save blocks or start the node.
Fairness ==
    /\ WF_vars(DigestBlock)
    /\ WF_vars(DigesterFollowUp)
    /\ WF_vars(\E p \in pending : Digest(p))
    /\ WF_vars(Receive)

Spec == Init /\ [][Next]_vars /\ Fairness

-----------------------------------------------------------------------------
\* Type invariant: the heights stay within the chain, the channel within its
\* capacity.
TypeOK ==
    /\ saved \in Heights
    /\ docs \in [Heights -> [Collections -> Nat]]
    /\ info \in Heights \cup {NilHeight}
    /\ node \in {"down", "initialize", "follow-up", "running"}
    /\ lastBlock \in Heights \cup {NilHeight}
    /\ \A p \in pending : Len(p) > 0 /\ \A i \in 1..Len(p) : p[i] \in Heights
    /\ Len(blockChan) =< ChanCap
    /\ height \in {NilHeight} \cup Heights \cup (IF node = "initialize" THEN {MaxHeight + 1} ELSE {})
    /\ pc \in {0} \cup Deletes \cup {SetBack} \cup Inserts \cup {SetForth}
    /\ chunk \in Nat

Complete(h) == docs[h] = Chunks[h]

\* No document is inserted twice, by any sequence of failures, retries,
\* restarts and follow-ups, in whatever order the blocks arrive: the inserts
\* have no key that would refuse a second copy.
NothingTwice ==
    \A h \in Heights, col \in Collections : docs[h][col] =< Chunks[h][col]

\* While the node runs, every block up to the digest's last block is there in
\* all its collections, whole, whatever crashed or failed before, as long as
\* no goroutine has overtaken another.
DigestedAreWhole ==
    node = "running" /\ ~overtaken => \A h \in Heights : h =< lastBlock => Complete(h)

Started == node # "running" /\ node' = "running"

\* When the node has started (having logged that the digested blocks are up
\* to date, or that it digested the new ones) every block of the chain is in
\* the digest.
UpToDate == [][Started => \A h \in Heights : h =< saved => Complete(h)]_vars

\* UpToDate, as long as no goroutine has overtaken another.
UpToDateInOrder ==
    [][Started /\ ~overtaken => \A h \in Heights : h =< saved => Complete(h)]_vars

\* A block that a running node saves gets into the digest, unless the node
\* goes down first (and then the next start has to see to it) or goroutines
\* overtake each other.
EventuallyDigested ==
    \A h \in Heights :
        node = "running" /\ saved >= h
          ~> (Complete(h) /\ lastBlock >= h) \/ node = "down" \/ overtaken

\* The digester keeps up: it takes everything the hook's goroutines have for
\* it, however small the channel and in whatever order they come.
Drains == []<>(node = "down" \/ (pending = {} /\ blockChan = <<>> /\ pc = 0))
=============================================================================
