---------------------------- MODULE Digest_proofs ----------------------------
(***************************************************************************)
(* What holds of the digest, for every number of blocks, bulk writes, hook *)
(* calls, failures and stops: nothing is inserted twice, and as long as no *)
(* goroutine overtakes another the digested blocks are whole and a started *)
(* node has digested all blocks there are.                                 *)
(***************************************************************************)
EXTENDS Digest, SequenceTheorems, TLAPS

(***************************************************************************)
(* Types                                                                   *)
(***************************************************************************)

\* What the code's shape ties together: a node that is down does nothing, one
\* that is not running has no hook, and Initialize deletes and sets back only.
WellFormed ==
    /\ saved >= 0
    /\ pending \subseteq Seq(Heights)
    /\ blockChan \in Seq(Heights)
    /\ node # "running" => pending = {} /\ blockChan = <<>>
    /\ node = "down" => pc = 0
    /\ node = "initialize" => pc \in 1..4 /\ height = info + 1 /\ lastBlock = info
    /\ pc # 0 => height # NilHeight
    /\ chunk = 0 \/ pc \in Inserts

LEMMA TypeInit == Init => TypeOK /\ WellFormed
PROOF
  BY DigestAssumption DEF Init, TypeOK, WellFormed, Heights, NilHeight, PreGenesisHeight,
     Deletes, SetBack, Inserts, SetForth

LEMMA HeightsAreInt == Heights \subseteq Int /\ NilHeight \in Int /\ NilHeight \notin Heights
PROOF
  BY DEF Heights, NilHeight, PreGenesisHeight

LEMMA Bounds == /\ MaxHeight \in Nat /\ ChanCap \in Nat \ {0} /\ MaxSaved \in Nat \ {0}
                /\ Chunks \in [Heights -> [Collections -> Nat]]
PROOF
  BY DigestAssumption

\* The order in which the collections are written and cleaned.
LEMMA OrdersAreCollections ==
    /\ WriteOrder[1] = "operation" /\ WriteOrder[2] = "account" /\ WriteOrder[3] = "balance"
    /\ CleanOrder[1] = "account" /\ CleanOrder[2] = "balance" /\ CleanOrder[3] = "operation"
    /\ \A c \in Inserts : WriteOrder[c - 4] \in Collections
    /\ \A c \in Deletes : CleanOrder[c] \in Collections
PROOF
<1>1. /\ WriteOrder[1] = "operation" /\ WriteOrder[2] = "account" /\ WriteOrder[3] = "balance"
      /\ CleanOrder[1] = "account" /\ CleanOrder[2] = "balance" /\ CleanOrder[3] = "operation"
  BY DEF WriteOrder, CleanOrder
<1>2. \A c \in Inserts : c - 4 \in {1, 2, 3}
  BY DEF Inserts
<1>3. Deletes = {1, 2, 3}
  BY DEF Deletes
<1> QED
  BY <1>1, <1>2, <1>3, DigestAssumption

\* One chunk more of a collection of a block.
LEMMA OneMore ==
    ASSUME NEW d \in [Heights -> [Collections -> Nat]], NEW h \in Heights, NEW c \in Collections,
           NEW e, e = [d EXCEPT ![h][c] = @ + 1]
    PROVE  /\ e \in [Heights -> [Collections -> Nat]]
           /\ e[h][c] = d[h][c] + 1
           /\ \A k \in Heights, x \in Collections : k # h \/ x # c => e[k][x] = d[k][x]
PROOF
<1> DEFINE row == [d[h] EXCEPT ![c] = @ + 1]
<1>1. d[h] \in [Collections -> Nat]
  OBVIOUS
<1>2. /\ row \in [Collections -> Nat]
      /\ row[c] = d[h][c] + 1
      /\ \A x \in Collections : x # c => row[x] = d[h][x]
  BY <1>1
<1>3. e = [d EXCEPT ![h] = row]
  OBVIOUS
<1> HIDE DEF row
<1>4. /\ e \in [Heights -> [Collections -> Nat]]
      /\ e[h] = row
      /\ \A k \in Heights : k # h => e[k] = d[k]
  BY <1>2, <1>3
<1> QED
  BY <1>2, <1>4

LEMMA StopType ==
    ASSUME TypeOK, WellFormed, Stop, UNCHANGED disk
    PROVE  TypeOK' /\ WellFormed'
PROOF
  BY DigestAssumption, HeightsAreInt
     DEF TypeOK, WellFormed, Stop, disk, Deletes, SetBack, Inserts, SetForth

\* The next block of a queue, and the queue without it.
LEMMA HeadTail ==
    ASSUME NEW s \in Seq(Heights), s # <<>>
    PROVE  /\ Len(s) > 0
           /\ Head(s) = s[1] /\ s[1] \in Heights
           /\ Tail(s) \in Seq(Heights)
           /\ Len(Tail(s)) = Len(s) - 1
           /\ \A i \in 1..Len(Tail(s)) : Tail(s)[i] = s[i + 1]
PROOF
  BY HeadTailProperties

LEMMA TypeStep == TypeOK /\ WellFormed /\ [Next]_vars => TypeOK' /\ WellFormed'
PROOF
<1> SUFFICES ASSUME TypeOK, WellFormed, [Next]_vars
             PROVE  TypeOK' /\ WellFormed'
  OBVIOUS
<1> USE Bounds, HeightsAreInt
<1>1. CASE Delete
  <2>1. docs' \in [Heights -> [Collections -> Nat]]
    BY <1>1 DEF Delete, TypeOK
  <2> QED
    BY <1>1, <2>1 DEF Delete, TypeOK, WellFormed, bounds, Deletes, SetBack, Inserts, SetForth
<1>2. CASE CleanInfo
  <2>1. CleanedTo(height) \in Heights \cup {NilHeight}
    BY <1>2 DEF CleanInfo, TypeOK, WellFormed, CleanedTo, IsFirst, Heights,
                NilHeight, PreGenesisHeight, SetBack
  <2> QED
    BY <1>2, <2>1 DEF CleanInfo, TypeOK, WellFormed, bounds, Deletes, SetBack, Inserts, SetForth
<1>3. CASE WriteModels
  <2>1. node # "initialize" /\ node # "down"
    BY <1>3 DEF WriteModels, WellFormed, Inserts
  <2>2. docs' \in [Heights -> [Collections -> Nat]]
    <3>1. height \in Heights
      BY <1>3, <2>1 DEF WriteModels, TypeOK, WellFormed, Inserts
    <3> DEFINE col == WriteOrder[pc - 4]
    <3>2. col \in Collections
      BY <1>3, OrdersAreCollections DEF WriteModels
    <3>3. docs' = docs \/ docs' = [docs EXCEPT ![height][col] = @ + 1]
      BY <1>3 DEF WriteModels
    <3> HIDE DEF col
    <3>4. docs \in [Heights -> [Collections -> Nat]]
      BY DEF TypeOK
    <3> QED
      BY <3>1, <3>2, <3>3, <3>4, OneMore
  <2>3. /\ pc \in Inserts
        /\ pc' = pc \/ (pc' = pc + 1 /\ chunk' = 0)
        /\ chunk' \in {chunk + 1, 0}
        /\ UNCHANGED <<saved, info, node, lastBlock, pending, blockChan, height>>
    BY <1>3 DEF WriteModels
  <2>4. pc' \in {0} \cup Deletes \cup {SetBack} \cup Inserts \cup {SetForth} /\ chunk' \in Nat
    BY <2>3 DEF TypeOK, Deletes, SetBack, Inserts, SetForth
  <2>5. pc # 0 /\ (chunk' = 0 \/ pc' \in Inserts)
    BY <2>3 DEF Inserts
  <2>6. TypeOK'
    BY <2>2, <2>3, <2>4 DEF TypeOK
  <2> QED
    BY <2>1, <2>3, <2>5, <2>6 DEF WellFormed
<1>4. CASE SetLastBlock
  <2>1. node # "initialize" /\ node # "down" /\ height \in Heights
    BY <1>4 DEF SetLastBlock, TypeOK, WellFormed, SetForth
  <2>2. height < saved => height + 1 \in Heights /\ height + 1 # NilHeight
    BY <2>1 DEF TypeOK, Heights, PreGenesisHeight, NilHeight
  <2> QED
    BY <1>4, <2>1, <2>2 DEF SetLastBlock, Done, TypeOK, WellFormed, bounds, Deletes,
                            SetBack, Inserts, SetForth
<1>5. CASE Fail
  <2>1. CASE node = "running"
    BY <1>5, <2>1 DEF Fail, TypeOK, WellFormed, disk, Deletes, SetBack, Inserts, SetForth
  <2>2. CASE node # "running"
    BY <1>5, <2>2, StopType DEF Fail
  <2> QED
    BY <2>1, <2>2
<1>6. CASE Crash
  BY <1>6, StopType DEF Crash
<1>7. CASE Initialize
  <2>1. info + 1 \in Heights \cup {MaxHeight + 1} /\ info + 1 # NilHeight
    BY DEF TypeOK, Heights, NilHeight, PreGenesisHeight
  <2> QED
    BY <1>7, <2>1 DEF Initialize, TypeOK, WellFormed, disk, bounds, Deletes, SetBack,
                      Inserts, SetForth
<1>8. CASE DigesterFollowUp
  <2>1. lastBlock # NilHeight => ~(lastBlock < PreGenesisHeight) /\ lastBlock \in Heights
    BY DEF TypeOK, Heights, PreGenesisHeight
  <2>2. PreGenesisHeight \in Heights
    BY DEF Heights, PreGenesisHeight
  <2> QED
    BY <1>8, <2>1, <2>2 DEF DigesterFollowUp, TypeOK, WellFormed, disk, bounds, Deletes,
       SetBack, Inserts, SetForth, NilHeight, PreGenesisHeight
<1>9. ASSUME NEW n \in 1..MaxSaved, BlockSaved(n)
      PROVE  TypeOK' /\ WellFormed'
  <2> DEFINE p == [i \in 1..n |-> saved + i]
  <2>0. \A i \in 1..n : saved + i \in Heights
    BY <1>9 DEF BlockSaved, TypeOK, WellFormed, Heights, PreGenesisHeight
  <2>1. /\ p \in Seq(Heights) /\ Len(p) = n /\ n > 0
        /\ \A i \in 1..Len(p) : p[i] \in Heights
    <3>1. p \in [1..n -> Heights] /\ n \in Nat
      BY <2>0
    <3>2. p \in Seq(Heights) /\ Len(p) = n
      BY <3>1
    <3> QED
      BY <3>1, <3>2
  <2>2. saved' = saved + n /\ saved' \in Heights /\ saved' >= 0
    BY <1>9 DEF BlockSaved, TypeOK, WellFormed, Heights, PreGenesisHeight
  <2>3. pending' = pending \cup {p}
    BY <1>9 DEF BlockSaved
  <2> HIDE DEF p
  <2> QED
    BY <1>9, <2>1, <2>2, <2>3 DEF BlockSaved, TypeOK, WellFormed, work, bounds
<1>10. ASSUME NEW p \in pending, Digest(p)
       PROVE  TypeOK' /\ WellFormed'
  <2>1. p \in Seq(Heights) /\ p # <<>> /\ Head(p) \in Heights
    BY HeadTail DEF TypeOK, WellFormed
  <2>2. blockChan' \in Seq(Heights) /\ Len(blockChan') = Len(blockChan) + 1
    BY <1>10, <2>1 DEF Digest, WellFormed
  <2>3. Len(p) # 1 => /\ Tail(p) \in Seq(Heights) /\ Len(Tail(p)) > 0
                      /\ \A i \in 1..Len(Tail(p)) : Tail(p)[i] \in Heights
    <3>1. Tail(p) \in Seq(Heights) /\ Len(Tail(p)) = Len(p) - 1 /\ Len(p) > 0
      BY <2>1, HeadTail
    <3>2. \A i \in 1..Len(Tail(p)) : Tail(p)[i] \in Heights
      BY <3>1, ElementOfSeq
    <3> QED
      BY <3>1, <3>2, LenProperties
  <2>4. \A q \in pending' : q \in pending \/ (Len(p) # 1 /\ q = Tail(p))
    BY <1>10 DEF Digest
  <2>5. Len(blockChan') =< ChanCap
    BY <1>10, <2>2 DEF Digest, WellFormed
  <2>6. node = "running"
    BY DEF WellFormed
  <2>7. \A q \in pending' : /\ q \in Seq(Heights) /\ Len(q) > 0
                            /\ \A i \in 1..Len(q) : q[i] \in Heights
    BY <2>3, <2>4 DEF TypeOK, WellFormed
  <2> QED
    BY <1>10, <2>2, <2>5, <2>6, <2>7 DEF Digest, TypeOK, WellFormed, disk, work
<1>11. CASE Receive
  <2>1. /\ Head(blockChan) \in Heights
        /\ Tail(blockChan) \in Seq(Heights)
        /\ Len(Tail(blockChan)) =< ChanCap
    BY <1>11, HeadTail DEF Receive, TypeOK, WellFormed
  <2> QED
    BY <1>11, <2>1 DEF Receive, TypeOK, WellFormed, disk, bounds, Deletes, SetBack,
                       Inserts, SetForth
<1>12. CASE UNCHANGED vars
  BY <1>12 DEF vars, disk, work, bounds, TypeOK, WellFormed
<1> QED
  BY <1>1, <1>2, <1>3, <1>4, <1>5, <1>6, <1>7, <1>8, <1>9, <1>10, <1>11, <1>12
     DEF Next, DigestBlock

(***************************************************************************)
(* The session of a block                                                  *)
(***************************************************************************)

\* The session has emptied its block in the collections it is done with.
Emptied ==
    pc \in 1..4 /\ height \in Heights =>
        /\ pc > 1 => docs[height]["account"] = 0
        /\ pc > 2 => docs[height]["balance"] = 0
        /\ pc > 3 => docs[height]["operation"] = 0

\* The collections it is done with are whole, those to come still empty.
Filled ==
    pc \in 5..8 =>
        /\ docs[height]["operation"] = IF pc = 5 THEN chunk ELSE Chunks[height]["operation"]
        /\ docs[height]["account"] = IF pc < 6 THEN 0
                                     ELSE IF pc = 6 THEN chunk ELSE Chunks[height]["account"]
        /\ docs[height]["balance"] = IF pc < 7 THEN 0
                                     ELSE IF pc = 7 THEN chunk ELSE Chunks[height]["balance"]

SInv == TypeOK /\ WellFormed /\ Emptied /\ Filled /\ NothingTwice

\* A delete empties one collection of the blocks that are not kept.
LEMMA Deleted ==
    ASSUME Delete
    PROVE  \A h \in Heights, col \in Collections :
             docs'[h][col] = IF col = CleanOrder[pc] /\ h \notin KeptBelow(height) THEN 0
                             ELSE docs[h][col]
PROOF
  BY DEF Delete

\* The block being digested is never kept.
LEMMA HeightIsNotKept == TypeOK => height \in Int /\ height \notin KeptBelow(height)
PROOF
<1>1. TypeOK => height \in Int
  BY Bounds, HeightsAreInt DEF TypeOK
<1> QED
  BY <1>1, HeightsAreInt DEF KeptBelow

\* What WriteModels inserts.
LEMMA Wrote ==
    ASSUME TypeOK, WellFormed, WriteModels, NEW col, col = WriteOrder[pc - 4]
    PROVE  /\ height \in Heights /\ col \in Collections
           /\ docs' \in [Heights -> [Collections -> Nat]]
           /\ \A h \in Heights, x \in Collections :
                h # height \/ x # col => docs'[h][x] = docs[h][x]
           /\ IF chunk < Chunks[height][col]
              THEN /\ docs'[height][col] = docs[height][col] + 1
                   /\ chunk' = chunk + 1 /\ pc' = pc
              ELSE docs' = docs /\ pc' = pc + 1 /\ chunk' = 0
PROOF
<1>1. height \in Heights
  BY HeightsAreInt DEF WriteModels, TypeOK, WellFormed, Inserts
<1>2. col \in Collections
  BY OrdersAreCollections DEF WriteModels
<1>3. docs \in [Heights -> [Collections -> Nat]]
  BY DEF TypeOK
<1>4. IF chunk < Chunks[height][col]
      THEN docs' = [docs EXCEPT ![height][col] = @ + 1] /\ chunk' = chunk + 1 /\ pc' = pc
      ELSE docs' = docs /\ pc' = pc + 1 /\ chunk' = 0
  BY DEF WriteModels
<1>5. CASE chunk < Chunks[height][col]
  <2>1. docs' = [docs EXCEPT ![height][col] = @ + 1] /\ chunk' = chunk + 1 /\ pc' = pc
    BY <1>4, <1>5
  <2>2. /\ docs' \in [Heights -> [Collections -> Nat]]
        /\ docs'[height][col] = docs[height][col] + 1
        /\ \A k \in Heights, x \in Collections :
             k # height \/ x # col => docs'[k][x] = docs[k][x]
    BY <1>1, <1>2, <1>3, <2>1, OneMore
  <2> QED
    BY <1>1, <1>2, <1>5, <2>1, <2>2
<1>6. CASE ~(chunk < Chunks[height][col])
  BY <1>1, <1>2, <1>3, <1>4, <1>6
<1> QED
  BY <1>5, <1>6

LEMMA NumbersOfChunks ==
    ASSUME NEW d \in [Heights -> [Collections -> Nat]]
    PROVE  \A h \in Heights, x \in Collections : d[h][x] \in Nat
PROOF
  OBVIOUS

LEMMA DocsAreCounted ==
    /\ TypeOK => chunk \in Nat /\ \A h \in Heights, x \in Collections : docs[h][x] \in Nat
    /\ \A h \in Heights, x \in Collections : Chunks[h][x] \in Nat
PROOF
<1>1. TypeOK => chunk \in Nat /\ docs \in [Heights -> [Collections -> Nat]]
  BY DEF TypeOK
<1>2. Chunks \in [Heights -> [Collections -> Nat]]
  BY Bounds
<1> QED
  BY <1>1, <1>2, NumbersOfChunks

LEMMA SessionInit == Init => Emptied /\ Filled /\ NothingTwice
PROOF
<1>1. \A h \in Heights, col \in Collections : Chunks[h][col] \in Nat
  BY DocsAreCounted
<1> QED
  BY <1>1 DEF Init, Emptied, Filled, NothingTwice

\* When no document is written and no session is past its deletes.
LEMMA SessionStays ==
    ASSUME SInv, docs' = docs, pc' \in {0, 1}
    PROVE  Emptied' /\ Filled' /\ NothingTwice'
PROOF
  BY DEF SInv, Emptied, Filled, NothingTwice

LEMMA SessionStep == SInv /\ [Next]_vars => SInv'
PROOF
<1> SUFFICES ASSUME SInv, [Next]_vars
             PROVE  Emptied' /\ Filled' /\ NothingTwice'
  BY TypeStep DEF SInv
<1>0. TypeOK /\ WellFormed /\ Collections = {"account", "balance", "operation"}
  BY DigestAssumption DEF SInv
<1>1. CASE Delete
  <2>1. \A h \in Heights, col \in Collections :
          docs'[h][col] \in Nat /\ docs[h][col] \in Nat /\ docs'[h][col] =< docs[h][col]
    BY <1>0, <1>1, Deleted, DocsAreCounted
  <2>2. NothingTwice'
    BY <2>1, DocsAreCounted DEF SInv, NothingTwice
  <2>3. height \in Heights => docs'[height][CleanOrder[pc]] = 0
    BY <1>0, <1>1, Deleted, HeightIsNotKept, OrdersAreCollections DEF Delete
  <2>4. pc \in 1..3 /\ pc' = pc + 1 /\ height' = height
    BY <1>1 DEF Delete, Deletes
  <2>5. Emptied'
    BY <1>0, <2>1, <2>3, <2>4, OrdersAreCollections DEF SInv, Emptied
  <2>6. Filled'
    BY <2>4 DEF Filled
  <2> QED
    BY <2>2, <2>5, <2>6
<1>2. CASE CleanInfo
  <2>1. CASE node = "initialize"
    BY <1>2, <2>1, SessionStays DEF CleanInfo
  <2>2. CASE node # "initialize"
    <3>1. pc = 4 /\ pc' = 5 /\ chunk' = 0 /\ UNCHANGED <<docs, height>>
      BY <1>2, <2>2 DEF CleanInfo, SetBack
    <3>2. height \in Heights
      BY <1>0, <2>2, <3>1 DEF TypeOK, WellFormed
    <3> QED
      BY <3>1, <3>2 DEF SInv, Emptied, Filled, NothingTwice
  <2> QED
    BY <2>1, <2>2
<1>3. CASE WriteModels
  <2> DEFINE col == WriteOrder[pc - 4]
  <2>1. /\ height \in Heights /\ col \in Collections
        /\ \A h \in Heights, x \in Collections :
             h # height \/ x # col => docs'[h][x] = docs[h][x]
        /\ IF chunk < Chunks[height][col]
           THEN /\ docs'[height][col] = docs[height][col] + 1
                /\ chunk' = chunk + 1 /\ pc' = pc
           ELSE docs' = docs /\ pc' = pc + 1 /\ chunk' = 0
    BY <1>0, <1>3, Wrote
  <2>2. pc \in 5..7 /\ height' = height
    BY <1>3 DEF WriteModels, Inserts
  <2>3. /\ chunk \in Nat
        /\ \A h \in Heights, x \in Collections : docs[h][x] \in Nat /\ Chunks[h][x] \in Nat
    BY <1>0, DocsAreCounted
  <2>4. \A h \in Heights, x \in Collections : docs[h][x] =< Chunks[h][x]
    BY DEF SInv, NothingTwice
  <2>5. docs[height][col] = chunk
    BY <2>2, OrdersAreCollections DEF SInv, Filled
  <2>6. col = IF pc = 5 THEN "operation" ELSE IF pc = 6 THEN "account" ELSE "balance"
    BY <2>2, OrdersAreCollections
  <2> HIDE DEF col
  <2>7. CASE chunk < Chunks[height][col]
    <3>1. NothingTwice'
      BY <2>1, <2>3, <2>4, <2>5, <2>7 DEF NothingTwice
    <3>2. Filled'
      BY <1>0, <2>1, <2>2, <2>3, <2>5, <2>6, <2>7 DEF SInv, Filled
    <3> QED
      BY <2>1, <2>2, <2>7, <3>1, <3>2 DEF Emptied
  <2>8. CASE ~(chunk < Chunks[height][col])
    <3>1. chunk = Chunks[height][col]
      BY <2>1, <2>3, <2>4, <2>5, <2>8
    <3>2. docs' = docs /\ pc' = pc + 1 /\ chunk' = 0
      BY <2>1, <2>8
    <3>3. Filled'
      BY <1>0, <2>1, <2>2, <2>5, <2>6, <3>1, <3>2 DEF SInv, Filled
    <3> QED
      BY <2>2, <3>2, <3>3 DEF SInv, Emptied, NothingTwice
  <2> QED
    BY <2>7, <2>8
<1>4. CASE SetLastBlock
  BY <1>4, SessionStays DEF SetLastBlock, Done
<1>5. CASE Fail
  BY <1>5, SessionStays DEF Fail, Stop, disk
<1>6. CASE Crash
  BY <1>6, SessionStays DEF Crash, Stop, disk
<1>7. CASE Initialize
  BY <1>7, SessionStays DEF Initialize, disk
<1>8. CASE DigesterFollowUp
  BY <1>8, SessionStays DEF DigesterFollowUp, disk
<1>9. ASSUME NEW n \in 1..MaxSaved, BlockSaved(n)
      PROVE  Emptied' /\ Filled' /\ NothingTwice'
  BY <1>9 DEF BlockSaved, work, SInv, Emptied, Filled, NothingTwice
<1>10. ASSUME NEW p \in pending, Digest(p)
       PROVE  Emptied' /\ Filled' /\ NothingTwice'
  BY <1>10 DEF Digest, disk, work, SInv, Emptied, Filled, NothingTwice
<1>11. CASE Receive
  BY <1>11, SessionStays DEF Receive, disk
<1>12. CASE UNCHANGED vars
  BY <1>12 DEF vars, disk, work, SInv, Emptied, Filled, NothingTwice
<1> QED
  BY <1>1, <1>2, <1>3, <1>4, <1>5, <1>6, <1>7, <1>8, <1>9, <1>10, <1>11, <1>12
     DEF Next, DigestBlock

LEMMA SessionInvariance == Spec => []SInv
PROOF
<1>1. Init => SInv
  BY TypeInit, SessionInit DEF SInv
<1> QED
  BY <1>1, SessionStep, PTL DEF Spec

\* The types of the digest and its heights, for every chain and capacity.
THEOREM DigestIsTyped == Spec => []TypeOK
PROOF
<1>1. SInv => TypeOK
  BY DEF SInv
<1> QED
  BY <1>1, SessionInvariance, PTL

\* No document is inserted twice, whatever fails, whenever the node stops and
\* in whatever order the blocks arrive: a session inserts only where it has
\* deleted before.
THEOREM NothingIsTwice == Spec => []NothingTwice
PROOF
<1>1. SInv => NothingTwice
  BY DEF SInv
<1> QED
  BY <1>1, SessionInvariance, PTL

(***************************************************************************)
(* The goroutines' blocks, as long as none is overtaken                    *)
(***************************************************************************)

\* The blocks n to m are those the goroutines P have yet to send, each once,
\* and each goroutine has its blocks in order.
Queued(n, P, m) ==
    /\ n =< m + 1
    /\ \A p \in P : \A i \in 1..Len(p) : n =< p[i] /\ p[i] =< m /\ p[i] = p[1] + (i - 1)
    /\ \A h \in Heights : n =< h /\ h =< m => \E p \in P : \E i \in 1..Len(p) : p[i] = h
    /\ \A p, q \in P : \A i \in 1..Len(p), j \in 1..Len(q) : p[i] = q[j] => p = q

\* What the goroutine p leaves when it has sent its next block.
Sent(P, p) == (P \ {p}) \cup (IF Len(p) = 1 THEN {} ELSE {Tail(p)})

LEMMA NobodyQueued == \A m \in Int : Queued(m + 1, {}, m)
PROOF
  BY DEF Queued, Heights, PreGenesisHeight

LEMMA FirstOf ==
    ASSUME NEW s \in Seq(Heights), Len(s) > 0
    PROVE  /\ Len(s) \in Nat /\ Head(s) = s[1] /\ 1 \in 1..Len(s)
           /\ s[1] \in Heights /\ s[1] \in Int
PROOF
<1>1. s # <<>> /\ Len(s) \in Nat
  OBVIOUS
<1>2. 1 \in 1..Len(s)
  BY <1>1
<1>3. Head(s) = s[1] /\ s[1] \in Heights
  BY <1>1, HeadTail
<1> QED
  BY <1>1, <1>2, <1>3, HeightsAreInt

\* The goroutine with the least block has the next one.
LEMMA LeastIsNext ==
    ASSUME NEW n \in Int, NEW m \in Heights, n >= PreGenesisHeight,
           NEW P \in SUBSET Seq(Heights), \A q \in P : Len(q) > 0, Queued(n, P, m),
           NEW p \in P, \A q \in P : ~(Head(q) < Head(p))
    PROVE  Head(p) = n
PROOF
<1>1. /\ Len(p) \in Nat /\ Head(p) = p[1] /\ 1 \in 1..Len(p)
      /\ p[1] \in Heights /\ p[1] \in Int
  BY FirstOf
<1>2. n =< p[1] /\ p[1] =< m /\ m =< MaxHeight /\ m \in Int
  BY <1>1, HeightsAreInt, Bounds DEF Queued, Heights
<1>3. n \in Heights /\ n =< m
  BY <1>1, <1>2, Bounds DEF Heights, PreGenesisHeight
<1>4. PICK q \in P : \E i \in 1..Len(q) : q[i] = n
  BY <1>3 DEF Queued
<1>5. PICK i \in 1..Len(q) : q[i] = n
  BY <1>4
<1>6. /\ Len(q) \in Nat /\ Head(q) = q[1] /\ 1 \in 1..Len(q)
      /\ q[1] \in Heights /\ q[1] \in Int
  BY FirstOf
<1>7. n =< q[1] /\ n = q[1] + (i - 1)
  BY <1>5, <1>6 DEF Queued
<1>8. q[1] = n
  BY <1>6, <1>7
<1> QED
  BY <1>1, <1>2, <1>6, <1>8

\* When it has sent it, the ones after it are queued.
LEMMA RestIsQueued ==
    ASSUME NEW n \in Int, NEW m \in Heights,
           NEW P \in SUBSET Seq(Heights), \A q \in P : Len(q) > 0, Queued(n, P, m),
           NEW p \in P, Head(p) = n
    PROVE  Queued(n + 1, Sent(P, p), m)
PROOF
<1> DEFINE Q == Sent(P, p)
<1>0. m \in Int /\ Len(p) \in Nat \ {0} /\ p[1] = n /\ 1 \in 1..Len(p)
  BY HeadTail, HeightsAreInt, LenProperties
<1>1. n + 1 =< m + 1
  BY <1>0 DEF Queued
<1>2. Len(p) # 1 => /\ Tail(p) \in Seq(Heights) /\ Len(Tail(p)) = Len(p) - 1
                    /\ \A i \in 1..Len(Tail(p)) : i + 1 \in 1..Len(p) /\ Tail(p)[i] = p[i + 1]
  BY <1>0, HeadTail
<1>3. \A q \in Q : (q \in P /\ q # p) \/ (Len(p) # 1 /\ q = Tail(p))
  BY DEF Sent
<1>4. ASSUME NEW q \in P, q # p, NEW i \in 1..Len(q), q[i] = n PROVE FALSE
  <2>1. q[i] = p[1] => q = p
    BY <1>0 DEF Queued
  <2> QED
    BY <1>0, <1>4, <2>1
<1>5. \A q \in P : \A i \in 1..Len(q) : q[i] \in Int /\ n =< q[i] /\ q[i] =< m
                                        /\ q[i] = q[1] + (i - 1)
  BY ElementOfSeq, HeightsAreInt DEF Queued
<1>6. Len(p) # 1 => \A i \in 1..Len(Tail(p)) : Tail(p)[i] = n + i
  BY <1>0, <1>2, <1>5
<1>7. ASSUME NEW q \in Q
      PROVE  \A i \in 1..Len(q) : n + 1 =< q[i] /\ q[i] =< m /\ q[i] = q[1] + (i - 1)
  <2>1. CASE q \in P /\ q # p
    <3>1. \A i \in 1..Len(q) : q[i] # n
      BY <1>4, <2>1
    <3> QED
      BY <1>5, <2>1, <3>1
  <2>2. CASE Len(p) # 1 /\ q = Tail(p)
    <3>1. Len(q) \in Nat \ {0} /\ \A i \in 1..Len(q) : q[i] = n + i
      BY <1>0, <1>2, <1>6, <2>2
    <3>2. \A i \in 1..Len(q) : q[i] =< m
      BY <1>2, <1>5, <2>2
    <3> QED
      BY <3>1, <3>2
  <2> QED
    BY <1>3, <2>1, <2>2
<1>8. ASSUME NEW h \in Heights, n + 1 =< h, h =< m
      PROVE  \E q \in Q : \E i \in 1..Len(q) : q[i] = h
  <2>1. h \in Int /\ n =< h /\ h # n
    BY <1>8, HeightsAreInt
  <2>2. PICK q \in P : \E i \in 1..Len(q) : q[i] = h
    BY <1>8, <2>1 DEF Queued
  <2>3. PICK i \in 1..Len(q) : q[i] = h
    BY <2>2
  <2>4. CASE q # p
    BY <2>3, <2>4 DEF Sent
  <2>5. CASE q = p
    <3>1. i # 1 /\ i \in 1..Len(p) /\ p[i] = h
      BY <1>0, <2>1, <2>3, <2>5
    <3>2. Len(p) # 1 /\ i - 1 \in 1..Len(Tail(p))
      BY <1>0, <1>2, <3>1
    <3>3. Tail(p)[i - 1] = p[(i - 1) + 1] /\ (i - 1) + 1 = i
      BY <1>2, <3>2
    <3>4. Tail(p) \in Q
      BY <3>2 DEF Sent
    <3> QED
      BY <3>1, <3>2, <3>3, <3>4
  <2> QED
    BY <2>4, <2>5
<1>9. ASSUME NEW q \in Q, NEW r \in Q, NEW i \in 1..Len(q), NEW j \in 1..Len(r), q[i] = r[j]
      PROVE  q = r
  <2>1. \A k \in 1..Len(Tail(p)) : Len(p) # 1 =>
          k + 1 \in 1..Len(p) /\ Tail(p)[k] = p[k + 1]
    BY <1>2
  <2>2. \A a, b \in P : \A k \in 1..Len(a), l \in 1..Len(b) : a[k] = b[l] => a = b
    BY DEF Queued
  <2>3. CASE q \in P /\ q # p /\ r \in P /\ r # p
    BY <1>9, <2>2, <2>3
  <2>4. CASE q \in P /\ q # p /\ Len(p) # 1 /\ r = Tail(p)
    <3>1. j + 1 \in 1..Len(p) /\ q[i] = p[j + 1]
      BY <1>9, <2>1, <2>4
    <3> QED
      BY <2>2, <2>4, <3>1
  <2>5. CASE r \in P /\ r # p /\ Len(p) # 1 /\ q = Tail(p)
    <3>1. i + 1 \in 1..Len(p) /\ r[j] = p[i + 1]
      BY <1>9, <2>1, <2>5
    <3> QED
      BY <2>2, <2>5, <3>1
  <2> QED
    BY <1>3, <2>3, <2>4, <2>5
<1> QED
  BY <1>1, <1>7, <1>8, <1>9 DEF Queued

\* A hook call queues the blocks it hands over behind the others.
LEMMA SavedAreQueued ==
    ASSUME NEW n \in Int, NEW m \in Heights, NEW k \in Nat \ {0}, m + k =< MaxHeight,
           NEW P \in SUBSET Seq(Heights), Queued(n, P, m),
           NEW s, s = [i \in 1..k |-> m + i]
    PROVE  Queued(n, P \cup {s}, m + k)
PROOF
<1>1. m \in Int /\ n =< m + 1
  BY HeightsAreInt DEF Queued
<1>2. Len(s) = k /\ \A i \in 1..Len(s) : s[i] = m + i
  OBVIOUS
<1>3. \A p \in P : \A i \in 1..Len(p) : p[i] \in Int /\ n =< p[i] /\ p[i] =< m
                                        /\ p[i] = p[1] + (i - 1)
  BY ElementOfSeq, HeightsAreInt DEF Queued
<1>4. \A p \in P \cup {s} : \A i \in 1..Len(p) :
        n =< p[i] /\ p[i] =< m + k /\ p[i] = p[1] + (i - 1)
  <2>1. \A p \in P : \A i \in 1..Len(p) :
          n =< p[i] /\ p[i] =< m + k /\ p[i] = p[1] + (i - 1)
    BY <1>1, <1>3
  <2>2. \A i \in 1..Len(s) : n =< s[i] /\ s[i] =< m + k /\ s[i] = s[1] + (i - 1)
    BY <1>1, <1>2
  <2> QED
    BY <2>1, <2>2
<1>5. ASSUME NEW h \in Heights, n =< h, h =< m + k
      PROVE  \E p \in P \cup {s} : \E i \in 1..Len(p) : p[i] = h
  <2>0. h \in Int
    BY HeightsAreInt
  <2>1. CASE h =< m
    BY <1>5, <2>1 DEF Queued
  <2>2. CASE ~(h =< m)
    <3>1. h - m \in 1..k
      BY <1>1, <1>5, <2>0, <2>2
    <3>2. s[h - m] = h
      BY <1>1, <1>2, <2>0, <3>1
    <3> QED
      BY <1>2, <3>1, <3>2
  <2> QED
    BY <2>1, <2>2
<1>6. ASSUME NEW p \in P \cup {s}, NEW q \in P \cup {s},
             NEW i \in 1..Len(p), NEW j \in 1..Len(q), p[i] = q[j]
      PROVE  p = q
  <2>1. CASE p \in P /\ q \in P
    BY <1>6, <2>1 DEF Queued
  <2>2. \A r \in P : \A l \in 1..Len(r), a \in 1..Len(s) : r[l] # s[a]
    BY <1>1, <1>2, <1>3
  <2> QED
    BY <1>6, <2>1, <2>2
<1> QED
  BY <1>1, <1>4, <1>5, <1>6 DEF Queued

(***************************************************************************)
(* What the digest, its last block and the goroutines have to do with each *)
(* other, as long as none is overtaken                                     *)
(***************************************************************************)

Below(k) == \A h \in Heights : h < k => Complete(h)

\* What a stop may find: the blocks below the persisted one are whole, and
\* the next start digests the persisted one again, unless it is the last and
\* whole too.
Recoverable ==
    /\ info =< saved
    /\ Below(info)
    /\ info = saved => Complete(saved)

\* The follow-up digests the block it starts from and those after it, and has
\* more to digest until it is done.
FollowsUp ==
    node = "follow-up" =>
        IF pc = 0 THEN lastBlock = info
        ELSE /\ info =< lastBlock
             /\ lastBlock < saved
             /\ height \in {lastBlock, lastBlock + 1}
             /\ Below(height)

Busy == IF pc = 0 THEN 0 ELSE 1

\* The block that a goroutine sends next.
NextSent == lastBlock + Busy + Len(blockChan) + 1

\* The digester has the block after the last one, the channel those after
\* that, and the goroutines the rest.
InOrder ==
    node = "running" =>
        /\ info =< lastBlock
        /\ Below(lastBlock + 1)
        /\ pc # 0 => height = lastBlock + 1
        /\ \A i \in 1..Len(blockChan) : blockChan[i] = lastBlock + Busy + i
        /\ Queued(NextSent, pending, saved)

OInv == ~overtaken => Recoverable /\ FollowsUp /\ InOrder

\* A block is whole when each of its collections is.
LEMMA WholeByCollection ==
    ASSUME NEW d \in [Heights -> [Collections -> Nat]], NEW h \in Heights
    PROVE  d[h] = Chunks[h] <=> \A x \in Collections : d[h][x] = Chunks[h][x]
PROOF
<1>1. d[h] \in [Collections -> Nat] /\ Chunks[h] \in [Collections -> Nat]
  BY Bounds
<1> QED
  BY <1>1

LEMMA DocsType ==
    /\ TypeOK => docs \in [Heights -> [Collections -> Nat]]
    /\ TypeOK' => docs' \in [Heights -> [Collections -> Nat]]
PROOF
  BY DEF TypeOK

\* The pre-genesis block is empty and always whole.
LEMMA NothingBeforeGenesis ==
    ASSUME NEW d \in [Heights -> [Collections -> Nat]],
           \A h \in Heights, x \in Collections : d[h][x] =< Chunks[h][x]
    PROVE  d[PreGenesisHeight] = Chunks[PreGenesisHeight]
PROOF
<1>1. PreGenesisHeight \in Heights
  BY Bounds DEF Heights, PreGenesisHeight
<1>2. \A x \in Collections : Chunks[PreGenesisHeight][x] = 0
  BY DigestAssumption
<1>3. \A x \in Collections : d[PreGenesisHeight][x] =< 0
  BY <1>1, <1>2
<1>4. \A x \in Collections : d[PreGenesisHeight][x] \in Nat
  BY <1>1, NumbersOfChunks
<1>5. ASSUME NEW x \in Collections
      PROVE  d[PreGenesisHeight][x] = Chunks[PreGenesisHeight][x]
  <2>1. d[PreGenesisHeight][x] \in Nat /\ d[PreGenesisHeight][x] =< 0
    BY <1>3, <1>4
  <2>2. d[PreGenesisHeight][x] = 0
    BY <2>1
  <2> QED
    BY <1>2, <2>2
<1> QED
  BY <1>1, <1>5, WholeByCollection

\* The block of a session that has nothing left to insert is whole.
LEMMA SessionIsWhole == SInv /\ pc = SetForth => height \in Heights /\ Complete(height)
PROOF
<1> SUFFICES ASSUME SInv, pc = 8
             PROVE  height \in Heights /\ Complete(height)
  BY DEF SetForth
<1>1. height \in Heights
  BY HeightsAreInt DEF SInv, TypeOK, WellFormed
<1>2. /\ docs[height]["operation"] = Chunks[height]["operation"]
      /\ docs[height]["account"] = Chunks[height]["account"]
      /\ docs[height]["balance"] = Chunks[height]["balance"]
  BY DEF SInv, Filled
<1>3. \A x \in Collections : docs[height][x] = Chunks[height][x]
  BY <1>2, DigestAssumption
<1> QED
  BY <1>1, <1>3, DocsType, WholeByCollection DEF SInv, Complete

\* A session leaves the blocks below its own as they are.
LEMMA SessionKeeps ==
    ASSUME SInv, SInv', Delete \/ WriteModels,
           NEW h \in Heights, h < height, Complete(h)
    PROVE  Complete(h)'
PROOF
<1>0. /\ h \in Int /\ height \in Int /\ TypeOK /\ WellFormed
      /\ docs \in [Heights -> [Collections -> Nat]]
      /\ docs' \in [Heights -> [Collections -> Nat]]
  BY HeightsAreInt, HeightIsNotKept, DocsType DEF SInv
<1>1. \A x \in Collections : docs[h][x] = Chunks[h][x]
  BY <1>0, WholeByCollection DEF Complete
<1>2. (\A x \in Collections : docs'[h][x] = docs[h][x]) => Complete(h)'
  BY <1>0, <1>1, WholeByCollection DEF Complete
<1>3. CASE Delete /\ IsFirst(height)
  <2>1. h = PreGenesisHeight
    BY <1>0, <1>3 DEF IsFirst, Heights, PreGenesisHeight
  <2>2. \A k \in Heights, x \in Collections : docs'[k][x] =< Chunks[k][x]
    BY DEF SInv, NothingTwice
  <2> QED
    BY <1>0, <2>1, <2>2, NothingBeforeGenesis DEF Complete
<1>4. CASE Delete /\ ~IsFirst(height)
  <2>1. h \in KeptBelow(height)
    BY <1>4 DEF KeptBelow
  <2> QED
    BY <1>2, <1>4, <2>1, Deleted
<1>5. CASE WriteModels
  BY <1>0, <1>2, <1>5, Wrote
<1> QED
  BY <1>3, <1>4, <1>5

\* The numbers that the following compares.
LEMMA Numbers ==
    /\ TypeOK => /\ saved \in Int /\ info \in Int /\ lastBlock \in Int /\ height \in Int
                 /\ saved =< MaxHeight /\ MaxHeight \in Nat
                 /\ lastBlock >= NilHeight /\ info >= NilHeight
    /\ NilHeight = -2 /\ PreGenesisHeight = -1
    /\ \A h \in Heights : h \in Int /\ h >= -1
PROOF
<1>1. NilHeight = -2 /\ PreGenesisHeight = -1 /\ \A h \in Heights : h \in Int /\ h >= -1
  BY DEF Heights, NilHeight, PreGenesisHeight
<1>2. \A h \in Heights \cup {NilHeight} : h \in Int /\ h >= NilHeight
  BY <1>1
<1>3. TypeOK => saved =< MaxHeight
  BY DEF TypeOK, Heights
<1> QED
  BY <1>1, <1>2, <1>3, Bounds DEF TypeOK

\* A session works above the persisted block, or on it while there are others
\* to come.
LEMMA SessionIsAbove ==
    ASSUME SInv, Recoverable, FollowsUp, InOrder, pc # 0
    PROVE  info =< height /\ (info = saved => info < height)
PROOF
<1>0. TypeOK /\ WellFormed
  BY DEF SInv
<1>1. CASE node = "initialize"
  BY <1>0, <1>1, Numbers DEF WellFormed
<1>2. CASE node = "follow-up"
  <2>1. info =< lastBlock /\ lastBlock < saved /\ height \in {lastBlock, lastBlock + 1}
    BY <1>2 DEF FollowsUp
  <2> QED
    BY <1>0, <2>1, Numbers
<1>3. CASE node = "running"
  BY <1>0, <1>3, Numbers DEF InOrder
<1> QED
  BY <1>0, <1>1, <1>2, <1>3 DEF TypeOK, WellFormed

\* Deletes and inserts of a session touch its own block and those above it.
LEMMA SessionOrder ==
    ASSUME SInv, SInv', Recoverable, FollowsUp, InOrder, Delete \/ WriteModels
    PROVE  Recoverable' /\ FollowsUp' /\ InOrder'
PROOF
<1>0. TypeOK /\ WellFormed
  BY DEF SInv
<1>1. /\ pc # 0 /\ pc' # 0
      /\ UNCHANGED <<saved, info, node, lastBlock, pending, blockChan, height>>
  BY DEF Delete, WriteModels, Deletes, Inserts
<1>2. \A k \in Int : k =< height /\ Below(k) => Below(k)'
  BY <1>0, <1>1, SessionKeeps, Numbers DEF Below
<1>3. info =< height /\ (info = saved => saved < height)
  BY <1>1, SessionIsAbove
<1>4. Recoverable'
  <2>1. Below(info)'
    BY <1>0, <1>1, <1>2, <1>3, Numbers DEF Recoverable, Below
  <2>2. \A h \in Heights : h < height /\ Complete(h) => docs'[h] = Chunks[h]
    BY SessionKeeps DEF Complete
  <2>3. info = saved => docs'[saved] = Chunks[saved]
    BY <1>0, <1>3, <2>2 DEF Recoverable, TypeOK
  <2> QED
    BY <1>1, <2>1, <2>3 DEF Recoverable, Complete
<1>5. FollowsUp'
  <2>1. node = "follow-up" => Below(height)'
    BY <1>0, <1>1, <1>2, Numbers DEF FollowsUp, Below
  <2> QED
    BY <1>1, <2>1 DEF FollowsUp
<1>6. InOrder'
  <2>1. node = "running" => height = lastBlock + 1
    BY <1>1 DEF InOrder
  <2>2. node = "running" => Below(lastBlock + 1)'
    BY <1>0, <1>1, <1>2, <2>1, Numbers DEF InOrder, Below
  <2> QED
    BY <1>1, <2>1, <2>2 DEF InOrder, Busy, NextSent
<1> QED
  BY <1>4, <1>5, <1>6

LEMMA CleanInfoOrder ==
    ASSUME SInv, Recoverable, FollowsUp, InOrder, CleanInfo
    PROVE  Recoverable' /\ FollowsUp' /\ InOrder'
PROOF
<1>0. TypeOK /\ WellFormed
  BY DEF SInv
<1>1. /\ pc # 0 /\ info' = CleanedTo(height)
      /\ UNCHANGED <<saved, docs, pending, blockChan>>
  BY DEF CleanInfo, SetBack
<1>2. info' \in Int /\ (info' = NilHeight \/ info' = height - 1)
  BY <1>0, <1>1, Numbers DEF CleanedTo
<1>3. saved >= 0
  BY <1>0 DEF WellFormed
<1>4. CASE node = "initialize"
  <2>1. height = info + 1
    BY <1>0, <1>4 DEF WellFormed
  <2>2. info' = info \/ info' = NilHeight
    BY <1>0, <1>2, <2>1, Numbers
  <2>3. node' = "follow-up" /\ lastBlock' = info' /\ pc' = 0
    BY <1>4 DEF CleanInfo
  <2>4. Recoverable'
    BY <1>0, <1>1, <1>3, <2>2, Numbers DEF Recoverable, Below, Complete
  <2> QED
    BY <2>3, <2>4 DEF FollowsUp, InOrder
<1>5. CASE node # "initialize"
  <2>1. UNCHANGED <<lastBlock, node, height>> /\ pc' # 0
    BY <1>5 DEF CleanInfo
  <2>2. CASE node = "follow-up"
    <3>1. /\ lastBlock < saved /\ height \in {lastBlock, lastBlock + 1} /\ Below(height)
      BY <1>1, <2>2 DEF FollowsUp
    <3>2. info' =< lastBlock /\ info' < saved /\ info' =< height
      BY <1>0, <1>2, <1>3, <3>1, Numbers
    <3>3. \A h \in Heights : h < info' => docs'[h] = Chunks[h]
      BY <1>0, <1>1, <1>2, <3>1, <3>2, Numbers DEF Below, Complete
    <3>4. Recoverable'
      BY <1>0, <1>1, <1>2, <3>2, <3>3, Numbers DEF Recoverable, Below, Complete
    <3>5. Below(height)'
      BY <1>1, <2>1, <3>1 DEF Below, Complete
    <3> QED
      BY <1>1, <2>1, <2>2, <3>1, <3>2, <3>4, <3>5 DEF FollowsUp, InOrder
  <2>3. CASE node = "running"
    <3>1. height = lastBlock + 1 /\ Below(lastBlock + 1) /\ NextSent =< saved + 1
      BY <1>1, <2>3 DEF InOrder, Queued
    <3>2. Len(blockChan) \in Nat
      BY <1>0 DEF WellFormed
    <3>3. lastBlock < saved
      BY <1>0, <1>1, <3>1, <3>2, Numbers DEF NextSent, Busy
    <3>4. info' =< lastBlock /\ info' < saved
      BY <1>0, <1>2, <3>1, <3>3, Numbers
    <3>5. \A h \in Heights : h < info' => docs'[h] = Chunks[h]
      BY <1>0, <1>1, <1>2, <3>1, <3>4, Numbers DEF Below, Complete
    <3>6. Recoverable'
      BY <1>0, <1>1, <1>2, <3>4, <3>5, Numbers DEF Recoverable, Below, Complete
    <3>7. Below(lastBlock + 1)'
      BY <1>1, <2>1, <3>1 DEF Below, Complete
    <3> QED
      BY <1>1, <2>1, <2>3, <3>1, <3>4, <3>6, <3>7 DEF InOrder, FollowsUp, Busy, NextSent
  <2>4. node \in {"follow-up", "running"}
    BY <1>0, <1>1, <1>5 DEF TypeOK, WellFormed
  <2> QED
    BY <2>2, <2>3, <2>4
<1> QED
  BY <1>4, <1>5

LEMMA SetLastBlockOrder ==
    ASSUME SInv, Recoverable, FollowsUp, InOrder, SetLastBlock
    PROVE  Recoverable' /\ FollowsUp' /\ InOrder'
PROOF
<1>0. TypeOK /\ WellFormed
  BY DEF SInv
<1>1. pc = 8 /\ UNCHANGED <<saved, docs, pending, blockChan>>
  BY DEF SetLastBlock, SetForth
<1>2. height \in Heights /\ docs[height] = Chunks[height]
  BY <1>1, SessionIsWhole DEF SetForth, Complete
<1>3. IF height =< lastBlock THEN info' = info /\ lastBlock' = lastBlock
      ELSE info' = height /\ lastBlock' = height
  BY DEF SetLastBlock
<1>4. IF node = "follow-up" /\ height < saved
      THEN height' = height + 1 /\ pc' = 1 /\ node' = node
      ELSE node' = "running" /\ pc' = 0
  BY DEF SetLastBlock, Done
<1>5. CASE node = "follow-up"
  <2>1. /\ info =< lastBlock /\ lastBlock < saved
        /\ height \in {lastBlock, lastBlock + 1}
        /\ \A h \in Heights : h < height => docs[h] = Chunks[h]
    BY <1>1, <1>5 DEF FollowsUp, Below, Complete
  <2>2. \A h \in Heights : h =< height => docs[h] = Chunks[h]
    BY <1>0, <1>2, <2>1, Numbers
  <2>3. info' =< lastBlock' /\ lastBlock' =< height /\ lastBlock' \in Int /\ info' \in Int
        /\ height =< saved /\ height =< lastBlock' + 1
    BY <1>0, <1>3, <2>1, Numbers
  <2>4. Recoverable'
    BY <1>0, <1>1, <2>2, <2>3, Numbers DEF Recoverable, Below, Complete, TypeOK
  <2>5. CASE height < saved
    <3>1. height' = height + 1 /\ pc' = 1 /\ node' = "follow-up"
      BY <1>4, <1>5, <2>5
    <3>2. lastBlock' = height
      BY <1>0, <1>3, <2>1, Numbers
    <3>3. \A h \in Heights : h < height' => docs'[h] = Chunks[h]
      BY <1>0, <1>1, <2>2, <3>1, Numbers
    <3> QED
      BY <1>0, <1>1, <2>3, <2>4, <2>5, <3>1, <3>2, <3>3, Numbers
         DEF FollowsUp, InOrder, Below, Complete
  <2>6. CASE ~(height < saved)
    <3>1. height = saved /\ lastBlock' = saved
      BY <1>0, <1>3, <2>1, <2>3, <2>6, Numbers
    <3>2. node' = "running" /\ pc' = 0
      BY <1>4, <2>6
    <3>3. pending' = {} /\ blockChan' = <<>>
      BY <1>0, <1>1, <1>5 DEF WellFormed
    <3>4. NextSent' = saved + 1
      BY <1>0, <3>1, <3>2, <3>3, Numbers DEF NextSent, Busy
    <3>5. Queued(NextSent', pending', saved')
      BY <1>0, <1>1, <3>3, <3>4, NobodyQueued, Numbers
    <3>6. \A h \in Heights : h < lastBlock' + 1 => docs'[h] = Chunks[h]
      BY <1>0, <1>1, <2>2, <3>1, Numbers
    <3>7. InOrder'
      BY <2>3, <3>2, <3>3, <3>5, <3>6 DEF InOrder, Below, Complete
    <3> QED
      BY <2>4, <3>2, <3>7 DEF FollowsUp
  <2> QED
    BY <2>5, <2>6
<1>6. CASE node = "running"
  <2>1. /\ info =< lastBlock /\ height = lastBlock + 1
        /\ \A h \in Heights : h < lastBlock + 1 => docs[h] = Chunks[h]
        /\ \A i \in 1..Len(blockChan) : blockChan[i] = lastBlock + 1 + i
        /\ Queued(NextSent, pending, saved) /\ NextSent =< saved + 1
    <3>1. Busy = 1 /\ Queued(NextSent, pending, saved)
      BY <1>1, <1>6 DEF InOrder, Busy
    <3>2. NextSent =< saved + 1
      BY <3>1 DEF Queued
    <3>3. info =< lastBlock /\ height = lastBlock + 1
          /\ \A i \in 1..Len(blockChan) : blockChan[i] = lastBlock + 1 + i
      BY <1>1, <1>6, <3>1 DEF InOrder
    <3>4. \A h \in Heights : h < lastBlock + 1 => docs[h] = Chunks[h]
      BY <1>1, <1>6 DEF InOrder, Below, Complete
    <3> QED
      BY <3>1, <3>2, <3>3, <3>4
  <2>2. info' = height /\ lastBlock' = height /\ node' = "running" /\ pc' = 0
    BY <1>0, <1>3, <1>4, <1>6, <2>1, Numbers
  <2>3. Len(blockChan) \in Nat
    BY <1>0 DEF WellFormed
  <2>4. NextSent' = NextSent /\ height =< saved
    <3>1. NextSent = lastBlock + 1 + Len(blockChan) + 1
      BY <1>1 DEF NextSent, Busy
    <3>2. NextSent' = lastBlock' + 0 + Len(blockChan) + 1
      BY <1>1, <2>2 DEF NextSent, Busy
    <3>3. lastBlock \in Int /\ saved \in Int /\ height \in Int
      BY <1>0, Numbers
    <3>4. NextSent' = height + 0 + Len(blockChan) + 1 /\ height = lastBlock + 1
      BY <2>1, <2>2, <3>2
    <3>5. NextSent =< saved + 1
      BY <2>1
    <3> QED
      BY <2>3, <3>1, <3>3, <3>4, <3>5
  <2>5. \A h \in Heights : h < height + 1 => docs[h] = Chunks[h]
    BY <1>0, <1>2, <2>1, Numbers
  <2>6. Recoverable'
    BY <1>0, <1>1, <2>2, <2>4, <2>5, Numbers DEF Recoverable, Below, Complete, TypeOK
  <2>7. \A i \in 1..Len(blockChan') : blockChan'[i] = lastBlock' + 0 + i
    BY <1>0, <1>1, <2>1, <2>2, Numbers
  <2>8. InOrder'
    BY <1>0, <1>1, <2>1, <2>2, <2>4, <2>5, <2>7, Numbers DEF InOrder, Below, Complete, Busy
  <2> QED
    BY <2>2, <2>6, <2>8 DEF FollowsUp
<1>7. node \in {"follow-up", "running"}
  BY <1>0, <1>1 DEF TypeOK, WellFormed
<1> QED
  BY <1>5, <1>6, <1>7

\* The start finds what a stop has left.
LEMMA FollowUpOrder ==
    ASSUME SInv, Recoverable, FollowsUp, InOrder, DigesterFollowUp
    PROVE  Recoverable' /\ FollowsUp' /\ InOrder'
PROOF
<1>0. TypeOK /\ WellFormed
  BY DEF SInv
<1>1. /\ node = "follow-up" /\ pc = 0 /\ lastBlock = info
      /\ UNCHANGED <<saved, docs, info, lastBlock, pending, blockChan>>
  BY DEF DigesterFollowUp, FollowsUp, disk
<1>2. Recoverable'
  BY <1>1 DEF Recoverable, Below, Complete
<1>3. \A h \in Heights : h < info => docs[h] = Chunks[h]
  BY DEF Recoverable, Below, Complete
<1>4. info =< saved /\ (info = saved => docs[saved] = Chunks[saved])
  BY DEF Recoverable, Complete
<1>5. CASE NewBlocksFound
  <2>1. /\ height' = IF lastBlock < PreGenesisHeight THEN PreGenesisHeight ELSE lastBlock
        /\ pc' = 1 /\ node' = node
    BY <1>5 DEF DigesterFollowUp
  <2>2. height' \in {lastBlock, lastBlock + 1}
    BY <1>0, <2>1, Numbers
  <2>3. \A h \in Heights : h < height' => docs'[h] = Chunks[h]
    BY <1>0, <1>1, <1>3, <2>1, Numbers
  <2> QED
    BY <1>0, <1>1, <1>2, <1>5, <2>1, <2>2, <2>3, Numbers
       DEF NewBlocksFound, FollowsUp, InOrder, Below, Complete
<1>6. CASE ~NewBlocksFound
  <2>1. node' = "running" /\ pc' = 0
    BY <1>1, <1>6 DEF DigesterFollowUp
  <2>2. info = saved /\ lastBlock' = saved
    BY <1>0, <1>1, <1>4, <1>6, Numbers DEF NewBlocksFound
  <2>3. pending' = {} /\ blockChan' = <<>>
    BY <1>0, <1>1 DEF WellFormed
  <2>4. NextSent' = saved + 1
    BY <1>0, <2>1, <2>2, <2>3, Numbers DEF NextSent, Busy
  <2>5. Queued(NextSent', pending', saved')
    BY <1>0, <1>1, <2>3, <2>4, NobodyQueued, Numbers
  <2>6. \A h \in Heights : h < lastBlock' + 1 => docs'[h] = Chunks[h]
    BY <1>0, <1>1, <1>3, <1>4, <2>2, Numbers
  <2>7. InOrder'
    BY <1>0, <1>1, <2>1, <2>2, <2>3, <2>5, <2>6, Numbers DEF InOrder, Below, Complete
  <2> QED
    BY <1>2, <2>1, <2>7 DEF FollowsUp
<1> QED
  BY <1>5, <1>6

LEMMA BlockSavedOrder ==
    ASSUME SInv, Recoverable, FollowsUp, InOrder, NEW n \in 1..MaxSaved, BlockSaved(n)
    PROVE  Recoverable' /\ FollowsUp' /\ InOrder'
PROOF
<1>0. TypeOK /\ WellFormed
  BY DEF SInv
<1> DEFINE s == [i \in 1..n |-> saved + i]
<1>1. /\ node = "running" /\ saved + n =< MaxHeight /\ saved' = saved + n
      /\ pending' = pending \cup {s}
      /\ UNCHANGED <<docs, info, node, lastBlock, blockChan, height, pc>>
  BY DEF BlockSaved, work
<1>2. n \in Nat \ {0}
  BY Bounds
<1>3. Len(blockChan) \in Nat /\ saved \in Heights /\ pending \subseteq Seq(Heights)
  BY <1>0 DEF TypeOK, WellFormed
<1>4. NextSent \in Int /\ NextSent >= lastBlock + 1 /\ NextSent' = NextSent
  <2>1. Busy \in {0, 1} /\ Busy' = Busy
    BY <1>1 DEF Busy
  <2>2. lastBlock \in Int
    BY <1>0, Numbers
  <2> QED
    BY <1>1, <1>3, <2>1, <2>2 DEF NextSent
<1>5. Queued(NextSent, pending, saved) /\ info =< lastBlock /\ NextSent =< saved + 1
  BY <1>1 DEF InOrder, Queued
<1> HIDE DEF s
<1>6. Queued(NextSent, pending \cup {s}, saved + n)
  BY <1>1, <1>2, <1>3, <1>4, <1>5, SavedAreQueued DEF s
<1>7. info < saved'
  BY <1>0, <1>1, <1>2, <1>4, <1>5, Numbers
<1>8. Recoverable'
  BY <1>0, <1>1, <1>2, <1>7, Numbers DEF Recoverable, Below, Complete
<1>9. InOrder'
  BY <1>1, <1>4, <1>6 DEF InOrder, Below, Complete, Busy
<1> QED
  BY <1>1, <1>8, <1>9 DEF FollowsUp

LEMMA DigestOrder ==
    ASSUME SInv, Recoverable, FollowsUp, InOrder, NEW p \in pending, Digest(p), ~overtaken'
    PROVE  Recoverable' /\ FollowsUp' /\ InOrder'
PROOF
<1>0. TypeOK /\ WellFormed
  BY DEF SInv
<1>1. /\ blockChan' = Append(blockChan, Head(p))
      /\ pending' = Sent(pending, p)
      /\ \A q \in pending : ~(Head(q) < Head(p))
      /\ UNCHANGED <<saved, docs, info, node, lastBlock, height, pc>>
  BY DEF Digest, Sent, disk, work
<1>2. node = "running"
  BY <1>0 DEF WellFormed
<1>3. /\ blockChan \in Seq(Heights) /\ Len(blockChan) \in Nat /\ saved \in Heights
      /\ pending \in SUBSET Seq(Heights) /\ \A q \in pending : Len(q) > 0
  BY <1>0 DEF TypeOK, WellFormed
<1>4. NextSent \in Int /\ NextSent = lastBlock + Busy + Len(blockChan) + 1
      /\ Busy \in {0, 1} /\ NextSent >= PreGenesisHeight
  <2>1. Busy \in {0, 1}
    BY DEF Busy
  <2>2. lastBlock \in Int /\ lastBlock >= -2 /\ PreGenesisHeight = -1
    BY <1>0, Numbers
  <2> QED
    BY <1>3, <2>1, <2>2 DEF NextSent
<1>5. /\ Queued(NextSent, pending, saved)
      /\ \A i \in 1..Len(blockChan) : blockChan[i] = lastBlock + Busy + i
  BY <1>2 DEF InOrder
<1>6. Head(p) = NextSent
  BY <1>1, <1>3, <1>4, <1>5, LeastIsNext
<1>7. Queued(NextSent + 1, pending', saved)
  BY <1>1, <1>3, <1>4, <1>5, <1>6, RestIsQueued
<1>8. Head(p) \in Heights
  BY <1>3, FirstOf
<1>9. /\ Len(blockChan') = Len(blockChan) + 1
      /\ \A i \in 1..Len(blockChan) : blockChan'[i] = blockChan[i]
      /\ blockChan'[Len(blockChan) + 1] = Head(p)
  BY <1>1, <1>3, <1>8
<1>10. Busy' = Busy /\ NextSent' = NextSent + 1
  <2>1. Busy' = Busy
    BY <1>1 DEF Busy
  <2>2. NextSent' = lastBlock + Busy + (Len(blockChan) + 1) + 1
    BY <1>1, <1>9, <2>1 DEF NextSent
  <2>3. lastBlock \in Int
    BY <1>0, Numbers
  <2> QED
    BY <1>3, <1>4, <2>1, <2>2, <2>3
<1>11. ASSUME NEW i \in 1..Len(blockChan')
       PROVE  blockChan'[i] = lastBlock + Busy + i
  <2>1. CASE i \in 1..Len(blockChan)
    BY <1>5, <1>9, <2>1
  <2>2. CASE i = Len(blockChan) + 1
    <3>1. lastBlock \in Int
      BY <1>0, Numbers
    <3>2. blockChan'[i] = NextSent
      BY <1>6, <1>9, <2>2
    <3> QED
      BY <1>3, <1>4, <2>2, <3>1, <3>2
  <2> QED
    BY <1>3, <1>9, <2>1, <2>2
<1>12. InOrder'
  BY <1>1, <1>7, <1>10, <1>11 DEF InOrder, Below, Complete
<1>13. Recoverable'
  BY <1>1 DEF Recoverable, Below, Complete
<1> QED
  BY <1>1, <1>2, <1>12, <1>13 DEF FollowsUp

LEMMA ReceiveOrder ==
    ASSUME SInv, Recoverable, FollowsUp, InOrder, Receive
    PROVE  Recoverable' /\ FollowsUp' /\ InOrder'
PROOF
<1>0. TypeOK /\ WellFormed
  BY DEF SInv
<1>1. /\ node = "running" /\ pc = 0 /\ pc' = 1 /\ blockChan # <<>>
      /\ height' = Head(blockChan) /\ blockChan' = Tail(blockChan)
      /\ UNCHANGED <<saved, docs, info, node, lastBlock, pending>>
  BY DEF Receive, disk
<1>2. /\ Len(blockChan) \in Nat /\ Len(blockChan) > 0
      /\ Head(blockChan) = blockChan[1]
      /\ Len(blockChan') = Len(blockChan) - 1
      /\ \A i \in 1..Len(blockChan') : blockChan'[i] = blockChan[i + 1]
  BY <1>0, <1>1, HeadTail DEF WellFormed
<1>3. \A i \in 1..Len(blockChan) : blockChan[i] = lastBlock + 0 + i
  BY <1>1 DEF InOrder, Busy
<1>4. height' = lastBlock + 1 /\ \A i \in 1..Len(blockChan') : blockChan'[i] = lastBlock + 1 + i
  BY <1>0, <1>1, <1>2, <1>3, Numbers
<1>5. NextSent' = NextSent /\ Busy' = 1
  BY <1>0, <1>1, <1>2, Numbers DEF NextSent, Busy
<1>6. InOrder'
  BY <1>1, <1>4, <1>5 DEF InOrder, Below, Complete
<1>7. Recoverable'
  BY <1>1 DEF Recoverable, Below, Complete
<1> QED
  BY <1>1, <1>6, <1>7 DEF FollowsUp

LEMMA OrderInit == Init => OInv
PROOF
  BY Numbers DEF Init, OInv, Recoverable, FollowsUp, InOrder, Below

LEMMA OrderStep == SInv /\ OInv /\ [Next]_vars => OInv'
PROOF
<1> SUFFICES ASSUME SInv, OInv, [Next]_vars, ~overtaken'
             PROVE  Recoverable' /\ FollowsUp' /\ InOrder'
  BY DEF OInv
<1>0. SInv' /\ ~overtaken
  <2>1. SInv'
    BY SessionStep
  <2>2. overtaken => overtaken'
    BY DEF Next, DigestBlock, Delete, CleanInfo, WriteModels, SetLastBlock, Fail, Crash,
           Initialize, DigesterFollowUp, BlockSaved, Digest, Receive, vars, bounds
  <2> QED
    BY <2>1, <2>2
<1>1. Recoverable /\ FollowsUp /\ InOrder
  BY <1>0 DEF OInv
<1>2. CASE Delete \/ WriteModels
  BY <1>0, <1>1, <1>2, SessionOrder
<1>3. CASE CleanInfo
  BY <1>1, <1>3, CleanInfoOrder
<1>4. CASE SetLastBlock
  BY <1>1, <1>4, SetLastBlockOrder
<1>5. CASE DigesterFollowUp
  BY <1>1, <1>5, FollowUpOrder
<1>6. ASSUME NEW n \in 1..MaxSaved, BlockSaved(n)
      PROVE  Recoverable' /\ FollowsUp' /\ InOrder'
  BY <1>1, <1>6, BlockSavedOrder
<1>7. ASSUME NEW p \in pending, Digest(p)
      PROVE  Recoverable' /\ FollowsUp' /\ InOrder'
  BY <1>1, <1>7, DigestOrder
<1>8. CASE Receive
  BY <1>1, <1>8, ReceiveOrder
<1>9. ASSUME Stop, UNCHANGED disk
      PROVE  Recoverable' /\ FollowsUp' /\ InOrder'
  BY <1>1, <1>9 DEF Stop, disk, Recoverable, FollowsUp, InOrder, Below, Complete
<1>10. CASE Crash
  BY <1>9, <1>10 DEF Crash
<1>11. CASE Fail
  <2>1. CASE node = "running"
    <3>1. /\ pc # 0 /\ pc' = 1
          /\ UNCHANGED <<saved, docs, info, node, height, lastBlock, pending, blockChan>>
      BY <1>11, <2>1 DEF Fail, disk
    <3>2. Busy' = Busy
      BY <3>1 DEF Busy
    <3> QED
      BY <1>1, <2>1, <3>1, <3>2
         DEF Recoverable, FollowsUp, InOrder, Below, Complete, NextSent
  <2>2. CASE node # "running"
    BY <1>9, <1>11, <2>2 DEF Fail
  <2> QED
    BY <2>1, <2>2
<1>12. CASE Initialize
  BY <1>1, <1>12 DEF Initialize, disk, Recoverable, FollowsUp, InOrder, Below, Complete
<1>13. CASE UNCHANGED vars
  <2>1. UNCHANGED <<saved, docs, info, node, height, lastBlock, pending, blockChan, pc>>
    BY <1>13 DEF vars, disk, work
  <2>2. Busy' = Busy /\ NextSent' = NextSent
    BY <2>1 DEF Busy, NextSent
  <2> QED
    BY <1>1, <2>1, <2>2 DEF Recoverable, FollowsUp, InOrder, Below, Complete
<1> QED
  BY <1>2, <1>3, <1>4, <1>5, <1>6, <1>7, <1>8, <1>10, <1>11, <1>12, <1>13
     DEF Next, DigestBlock

\* What is persisted, what the digester has and what the goroutines have for
\* it fit together, after every failure and stop.
THEOREM DigestInvariance == Spec => [](SInv /\ OInv)
PROOF
<1>1. Init => OInv
  BY OrderInit
<1> QED
  BY <1>1, OrderStep, SessionInvariance, PTL DEF Spec

\* While a node runs, and no goroutine has overtaken another, every block up
\* to the last one of the digest is whole in all collections, whatever failed
\* and stopped before.
THEOREM DigestedBlocksAreWhole == Spec => []DigestedAreWhole
PROOF
<1>1. SInv /\ OInv => DigestedAreWhole
  <2> SUFFICES ASSUME SInv, OInv, node = "running", ~overtaken,
                      NEW h \in Heights, h =< lastBlock
               PROVE  Complete(h)
    BY DEF DigestedAreWhole
  <2>1. Below(lastBlock + 1)
    BY DEF OInv, InOrder
  <2>2. h < lastBlock + 1
    BY Numbers DEF SInv
  <2> QED
    BY <2>1, <2>2 DEF Below
<1> QED
  BY <1>1, DigestInvariance, PTL

LEMMA StartIsFresh ==
    ASSUME SInv, OInv, Next, Started, ~overtaken, NEW h \in Heights, h =< saved
    PROVE  Complete(h)
PROOF
<1>0. TypeOK /\ WellFormed /\ Recoverable /\ FollowsUp
  BY DEF SInv, OInv
<1>1. node # "running" /\ node' = "running"
  BY DEF Started
<1>2. SetLastBlock \/ DigesterFollowUp
  BY <1>0, <1>1 DEF Next, DigestBlock, Delete, CleanInfo, WriteModels, Fail, Crash, Stop,
                    Initialize, BlockSaved, Digest, Receive, WellFormed
<1>3. CASE SetLastBlock
  <2>1. pc = SetForth /\ pc # 0 /\ node = "follow-up"
    BY <1>0, <1>1, <1>3 DEF SetLastBlock, SetForth, TypeOK, WellFormed
  <2>2. ~(height < saved)
    BY <1>1, <1>3, <2>1 DEF SetLastBlock, Done
  <2>3. lastBlock < saved /\ height \in {lastBlock, lastBlock + 1} /\ Below(height)
    BY <1>0, <2>1 DEF FollowsUp
  <2>4. height = saved
    BY <1>0, <2>2, <2>3, Numbers
  <2>5. h < height \/ h = height
    BY <1>0, <2>4, Numbers
  <2>6. Complete(height)
    BY <2>1, SessionIsWhole
  <2> QED
    BY <2>3, <2>5, <2>6 DEF Below
<1>4. CASE DigesterFollowUp
  <2>1. pc = 0 /\ node = "follow-up" /\ ~NewBlocksFound
    BY <1>1, <1>4 DEF DigesterFollowUp
  <2>2. lastBlock = info
    BY <1>0, <2>1 DEF FollowsUp
  <2>3. info = saved /\ Below(info) /\ Complete(saved)
    BY <1>0, <2>1, <2>2, Numbers DEF NewBlocksFound, Recoverable
  <2>4. h < saved \/ h = saved
    BY <1>0, Numbers
  <2> QED
    BY <2>3, <2>4 DEF Below
<1> QED
  BY <1>2, <1>3, <1>4

\* A start ends with every block of the chain in the digest: what a stop has
\* left is deleted or digested again, and what the digest has missed follows.
THEOREM StartsUpToDate == Spec => UpToDateInOrder
PROOF
<1>1. SInv /\ OInv /\ [Next]_vars =>
        [Started /\ ~overtaken => \A h \in Heights : h =< saved => Complete(h)]_vars
  BY StartIsFresh
<1> QED
  BY <1>1, DigestInvariance, PTL DEF Spec, UpToDateInOrder
=============================================================================
