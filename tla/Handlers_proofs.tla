-------------------------- MODULE Handlers_proofs ---------------------------
(***************************************************************************)
(* What holds of the lists of the API for every chain, list and page size, *)
(* any number of clients and every order of digesting, querying, caching   *)
(* and expiring: what clients who follow the links get, and what is kept   *)
(* in the cache.                                                           *)
(*                                                                         *)
(* The proofs go along one invariant.  Of every page, whether in flight,   *)
(* on its way to the cache or in it, it says what the chain as a whole has *)
(* to say of it; the digester may go on, fail or start again, and that     *)
(* stays true.  Of every walk it says what has been got up to its offset.  *)
(***************************************************************************)
EXTENDS Handlers, FiniteSetTheorems, WellFoundedInduction, TLAPS

(***************************************************************************)
(* The order of a list                                                     *)
(***************************************************************************)

\* What has a place in a list.
HasPlace(d) == d.height \in Int /\ d.index \in Int

\* Sets in which no two members have the same place.
Ordered(S) ==
    /\ \A d \in S : HasPlace(d)
    /\ \A d, e \in S : d.height = e.height /\ d.index = e.index => d = e

LEMMA AfterIsOrder ==
    ASSUME NEW d, NEW e, NEW f, HasPlace(d), HasPlace(e), HasPlace(f), NEW r \in BOOLEAN
    PROVE  /\ ~ComesAfter(d, d, r)
           /\ ComesAfter(d, e, r) => ~ComesAfter(e, d, r)
           /\ ComesAfter(d, e, r) /\ ComesAfter(e, f, r) => ComesAfter(d, f, r)
           /\ (d.height = e.height /\ d.index = e.index) \/ ComesAfter(d, e, r) \/ ComesAfter(e, d, r)
  BY DEF HasPlace, ComesAfter, Before

\* What is not after e is not after anything that comes after e either.
LEMMA NotAfter ==
    ASSUME NEW d, NEW e, NEW f, HasPlace(d), HasPlace(e), HasPlace(f), NEW r \in BOOLEAN,
           ~ComesAfter(d, e, r), ComesAfter(f, e, r) \/ (f.height = e.height /\ f.index = e.index)
    PROVE  ~ComesAfter(d, f, r)
  BY DEF HasPlace, ComesAfter, Before

\* How many members of S come before d in this direction.
Rank(S, d, r) == Cardinality({e \in S : ComesAfter(d, e, r)})

LEMMA RankIsNat ==
    ASSUME NEW S, IsFiniteSet(S), NEW d, NEW r
    PROVE  /\ IsFiniteSet({e \in S : ComesAfter(d, e, r)})
           /\ Rank(S, d, r) \in Nat
<1>1. {e \in S : ComesAfter(d, e, r)} \in SUBSET S
  OBVIOUS
<1> QED  BY <1>1, FS_Subset, FS_CardinalityType DEF Rank

LEMMA RankGrows ==
    ASSUME NEW S, IsFiniteSet(S), Ordered(S), NEW d \in S, NEW e \in S, NEW r \in BOOLEAN, ComesAfter(d, e, r)
    PROVE  Rank(S, e, r) < Rank(S, d, r)
<1> DEFINE D == {f \in S : ComesAfter(d, f, r)}
           E == {f \in S : ComesAfter(e, f, r)}
<1>1. E \subseteq D
  BY AfterIsOrder DEF Ordered
<1>2. e \in D /\ e \notin E
  BY AfterIsOrder DEF Ordered
<1>3. IsFiniteSet(D) /\ Cardinality(D) \in Nat /\ Cardinality(E) \in Nat
  BY RankIsNat DEF Rank
<1>4. Cardinality(E) =< Cardinality(D) /\ (Cardinality(D) = Cardinality(E) => D = E)
  BY <1>1, <1>3, FS_Subset
<1> QED  BY <1>2, <1>3, <1>4 DEF Rank

\* A set of numbers has a least one.
LEMMA LeastOf ==
    ASSUME NEW T \in SUBSET Nat, T # {}
    PROVE  \E x \in T : \A y \in T : x =< y
<1>1. IsWellFoundedOn(OpToRel(<, Nat), Nat)
  BY NatLessThanWellFounded
<1>2. PICK x \in T : \A y \in T : ~(<<y, x>> \in OpToRel(<, Nat))
  BY <1>1, WFMin
<1>3. ASSUME NEW y \in T PROVE x =< y
  <2>1. ~(y < x)
    BY <1>2 DEF OpToRel
  <2> QED  BY <2>1
<1> QED  BY <1>3

\* The first of a set that is not empty, and so the last of it.
LEMMA FirstExists ==
    ASSUME NEW S, IsFiniteSet(S), Ordered(S), S # {}, NEW r \in BOOLEAN
    PROVE  \E d \in S : \A e \in S \ {d} : ComesAfter(e, d, r)
<1> DEFINE T == {Rank(S, d, r) : d \in S}
<1>1. T \in SUBSET Nat /\ T # {}
  <2>1. \A d \in S : Rank(S, d, r) \in Nat
    BY RankIsNat
  <2> QED  BY <2>1
<1>2. PICK x \in T : \A y \in T : x =< y
  BY <1>1, LeastOf
<1>3. PICK d \in S : x = Rank(S, d, r)
  BY <1>2
<1>4. ASSUME NEW e \in S \ {d} PROVE ComesAfter(e, d, r)
  <2>1. Rank(S, d, r) =< Rank(S, e, r) /\ Rank(S, d, r) \in Nat /\ Rank(S, e, r) \in Nat
    BY <1>2, <1>3, RankIsNat
  <2>2. ~ComesAfter(d, e, r)
    BY <2>1, RankGrows
  <2> QED  BY <2>2, AfterIsOrder DEF Ordered
<1> QED  BY <1>4

LEMMA LastExists ==
    ASSUME NEW S, IsFiniteSet(S), Ordered(S), S # {}, NEW r \in BOOLEAN
    PROVE  \E d \in S : \A e \in S \ {d} : ComesAfter(d, e, r)
<1>1. PICK d \in S : \A e \in S \ {d} : ComesAfter(e, d, ~r)
  BY FirstExists
<1> QED  BY <1>1 DEF ComesAfter

(***************************************************************************)
(* Pages                                                                   *)
(***************************************************************************)

\* The first members of S, as many as a page has.
FirstOf(S, r) == {d \in S : Rank(S, d, r) < ItemsLimit}

LEMMA PageIsFirst ==
    ASSUME NEW docs, NEW key
    PROVE  Page(docs, key) = FirstOf(Filtered(docs, key), key.reverse)
  BY DEF Page, FirstOf, Rank

LEMMA FirstIsPrefix ==
    ASSUME NEW S, IsFiniteSet(S), Ordered(S), NEW r \in BOOLEAN,
           NEW d \in FirstOf(S, r), NEW e \in S, ~ComesAfter(e, d, r)
    PROVE  e \in FirstOf(S, r)
<1>1. CASE e = d
  BY <1>1
<1>2. CASE e # d
  <2>1. ComesAfter(d, e, r)
    BY <1>2, AfterIsOrder DEF Ordered, FirstOf
  <2>2. Rank(S, e, r) < Rank(S, d, r) /\ Rank(S, d, r) < ItemsLimit
    BY <2>1, RankGrows DEF FirstOf
  <2>3. Rank(S, e, r) \in Nat /\ Rank(S, d, r) \in Nat
    BY RankIsNat
  <2> QED  BY <2>2, <2>3, ListsAssumption DEF FirstOf
<1> QED  BY <1>1, <1>2

LEMMA FirstIsShort ==
    ASSUME NEW S, IsFiniteSet(S), Ordered(S), NEW r \in BOOLEAN
    PROVE  /\ IsFiniteSet(FirstOf(S, r))
           /\ Cardinality(FirstOf(S, r)) \in Nat
           /\ Cardinality(FirstOf(S, r)) =< ItemsLimit
<1> DEFINE P == FirstOf(S, r)
<1>1. P \in SUBSET S
  BY DEF FirstOf
<1>2. IsFiniteSet(P) /\ Cardinality(P) \in Nat
  BY <1>1, FS_Subset, FS_CardinalityType
<1>3. CASE P = {}
  BY <1>2, <1>3, FS_EmptySet, ListsAssumption
<1>4. CASE P # {}
  <2>1. Ordered(P)
    BY <1>1 DEF Ordered
  <2>2. PICK d \in P : \A e \in P \ {d} : ComesAfter(d, e, r)
    <3> HIDE DEF P
    <3> QED  BY <1>2, <1>4, <2>1, LastExists
  <2> DEFINE E == {e \in S : ComesAfter(d, e, r)}
  <2>3. IsFiniteSet(E) /\ Cardinality(E) = Rank(S, d, r) /\ Cardinality(E) \in Nat /\ Cardinality(E) < ItemsLimit
    <3>1. IsFiniteSet(E) /\ Rank(S, d, r) \in Nat
      BY RankIsNat
    <3>2. Rank(S, d, r) < ItemsLimit
      BY <2>2 DEF FirstOf
    <3> QED  BY <3>1, <3>2 DEF Rank
  <2>4. P \in SUBSET (E \cup {d})
    BY <1>1, <2>2
  <2>5. IsFiniteSet(E \cup {d}) /\ Cardinality(E \cup {d}) =< Cardinality(E) + 1
    <3>1. IsFiniteSet(E) /\ Cardinality(E) \in Nat
      BY <2>3
    <3> HIDE DEF E
    <3>2. /\ IsFiniteSet(E \cup {d})
          /\ Cardinality(E \cup {d}) = IF d \in E THEN Cardinality(E) ELSE Cardinality(E) + 1
      BY <3>1, FS_AddElement
    <3> QED  BY <3>1, <3>2
  <2>6. Cardinality(P) =< Cardinality(E \cup {d}) /\ Cardinality(E \cup {d}) \in Nat
    BY <2>4, <2>5, FS_Subset, FS_CardinalityType
  <2> QED  BY <1>2, <2>3, <2>5, <2>6, ListsAssumption
<1> QED  BY <1>2, <1>3, <1>4

\* A page that is not full has all that there is.
LEMMA NotFullIsAll ==
    ASSUME NEW S, IsFiniteSet(S), Ordered(S), NEW r \in BOOLEAN,
           Cardinality(FirstOf(S, r)) # ItemsLimit
    PROVE  FirstOf(S, r) = S
<1> DEFINE P == FirstOf(S, r)
           R == S \ P
<1>1. SUFFICES ASSUME R # {} PROVE FALSE
  BY DEF FirstOf
<1>2. IsFiniteSet(R) /\ Ordered(R)
  BY FS_Subset DEF Ordered
<1>3. PICK x \in R : \A e \in R \ {x} : ComesAfter(e, x, r)
  <2> HIDE DEF R
  <2> QED  BY <1>1, <1>2, FirstExists
<1> DEFINE E == {e \in S : ComesAfter(x, e, r)}
<1>4. E \in SUBSET P
  BY <1>3, AfterIsOrder DEF Ordered
<1>5. Cardinality(E) =< Cardinality(P) /\ Cardinality(E) = Rank(S, x, r)
  BY <1>4, FirstIsShort, FS_Subset DEF Rank
<1>6. Rank(S, x, r) \in Nat /\ ~(Rank(S, x, r) < ItemsLimit)
  BY <1>3, RankIsNat DEF FirstOf
<1> QED  BY <1>5, <1>6, FirstIsShort, ListsAssumption

\* What comes later adds nothing to a full page, unless it belongs before
\* one of its items.
LEMMA FullStays ==
    ASSUME NEW U, IsFiniteSet(U), Ordered(U), NEW S \in SUBSET U, NEW r \in BOOLEAN,
           Cardinality(FirstOf(S, r)) = ItemsLimit,
           \A u \in U, d \in FirstOf(S, r) : ~ComesAfter(u, d, r) => u \in S
    PROVE  FirstOf(U, r) = FirstOf(S, r)
<1> DEFINE P == FirstOf(S, r)
<1>1. IsFiniteSet(S) /\ Ordered(S)
  BY FS_Subset DEF Ordered
<1>2. ASSUME NEW d \in P PROVE d \in FirstOf(U, r)
  <2>0. d \in S /\ d \in U
    BY DEF FirstOf
  <2>1. \A u \in U : ComesAfter(d, u, r) => ~ComesAfter(u, d, r)
    BY <2>0, AfterIsOrder DEF Ordered
  <2>2. {e \in U : ComesAfter(d, e, r)} = {e \in S : ComesAfter(d, e, r)}
    BY <2>1
  <2> QED  BY <2>2 DEF FirstOf, Rank
<1>3. ASSUME NEW d \in FirstOf(U, r) PROVE d \in P
  <2> DEFINE E == {e \in U : ComesAfter(d, e, r)}
  <2>1. d \in U /\ Cardinality(E) < ItemsLimit /\ IsFiniteSet(E) /\ Cardinality(E) \in Nat
    <3>1. d \in U /\ Rank(U, d, r) < ItemsLimit
      BY DEF FirstOf
    <3>2. IsFiniteSet(E) /\ Rank(U, d, r) \in Nat
      BY RankIsNat
    <3>3. Rank(U, d, r) = Cardinality(E)
      BY DEF Rank
    <3> QED  BY <3>1, <3>2, <3>3
  <2>2. CASE \E p \in P : ~ComesAfter(d, p, r)
    <3>1. d \in S
      BY <2>1, <2>2
    <3>2. {e \in S : ComesAfter(d, e, r)} \in SUBSET E
      OBVIOUS
    <3>3. Cardinality({e \in S : ComesAfter(d, e, r)}) =< Cardinality(E)
      BY <2>1, <3>2, FS_Subset
    <3>4. Rank(S, d, r) =< Cardinality(E)
      BY <3>3 DEF Rank
    <3>5. Rank(S, d, r) \in Nat
      BY <1>1, RankIsNat
    <3> QED  BY <2>1, <3>1, <3>4, <3>5, ListsAssumption DEF FirstOf
  <2>3. CASE \A p \in P : ComesAfter(d, p, r)
    <3>1. P \in SUBSET E
      BY <2>3 DEF FirstOf
    <3>2. Cardinality(P) =< Cardinality(E)
      BY <2>1, <3>1, FS_Subset
    <3> QED  BY <2>1, <3>2, ListsAssumption
  <2> QED  BY <2>2, <2>3
<1> QED  BY <1>2, <1>3

(***************************************************************************)
(* What is asked for, and what a page has to say of the chain              *)
(***************************************************************************)
Places == [height : Nat, index : Nat]

Queries == [list : DOMAIN Lists, offset : Places \cup {NoOffset}, reverse : BOOLEAN]

LEMMA ListsAreOrdered ==
    ASSUME NEW key \in Queries, NEW docs
    PROVE  /\ Filtered(docs, key) \subseteq Lists[key.list]
           /\ IsFiniteSet(Filtered(docs, key))
           /\ Ordered(Filtered(docs, key))
           /\ \A d \in Lists[key.list] : d \in Docs /\ d.height \in 0..MaxHeight /\ d.height \in Nat /\ d.index \in Nat
           /\ HasPlace(key.offset)
<1>1. Filtered(docs, key) \in SUBSET Lists[key.list]
  BY DEF Filtered
<1>2. key.list \in DOMAIN Lists
  BY DEF Queries
<1>3. \A d \in Lists[key.list] : d \in Docs /\ d.height \in 0..MaxHeight /\ d.height \in Nat /\ d.index \in Nat
  <2>1. \A d \in Lists[key.list] : d \in Docs /\ d.index \in Nat
    BY <1>2, ListsAssumption
  <2>2. ASSUME NEW d \in Docs PROVE d.height \in 0..MaxHeight /\ d.height \in Nat
    <3>1. d.height \in 0..MaxHeight /\ MaxHeight \in Nat
      BY DocsAssumption
    <3> QED  BY <3>1
  <2> QED  BY <2>1, <2>2
<1>4. IsFiniteSet(Filtered(docs, key))
  BY <1>1, <1>2, ListsAssumption, FS_Subset
<1>5. Ordered(Filtered(docs, key))
  <2>1. \A d \in Lists[key.list] : HasPlace(d)
    BY <1>3 DEF HasPlace
  <2>2. \A d, e \in Lists[key.list] : d.height = e.height /\ d.index = e.index => d = e
    BY <1>2, ListsAssumption
  <2> QED  BY <1>1, <2>1, <2>2 DEF Ordered
<1>6. HasPlace(key.offset)
  BY DEF Queries, Places, NoOffset, HasPlace
<1> QED  BY <1>1, <1>3, <1>4, <1>5, <1>6

\* The place of the last item is one that all other items come before.
LEMMA NextOffsetIsLast ==
    ASSUME NEW key \in Queries, NEW page \in SUBSET Filtered(Docs, key), page # {}
    PROVE  /\ NextOffset(page, key.reverse) \in Places
           /\ \E d \in page :
                /\ NextOffset(page, key.reverse) = [height |-> d.height, index |-> d.index]
                /\ \A e \in page \ {d} : ComesAfter(d, e, key.reverse)
<1>1. IsFiniteSet(page) /\ Ordered(page)
  BY ListsAreOrdered, FS_Subset DEF Ordered
<1>2. key.reverse \in BOOLEAN
  BY DEF Queries
<1> DEFINE last == CHOOSE d \in page : \A e \in page \ {d} : ComesAfter(d, e, key.reverse)
<1>3. last \in page /\ \A e \in page \ {last} : ComesAfter(last, e, key.reverse)
  BY <1>1, <1>2, LastExists
<1>4. NextOffset(page, key.reverse) = [height |-> last.height, index |-> last.index]
  BY DEF NextOffset
<1>5. last \in Lists[key.list]
  <2> HIDE DEF last
  <2> QED  BY <1>3, ListsAreOrdered
<1>6. last.height \in Nat /\ last.index \in Nat
  <2> HIDE DEF last
  <2> QED  BY <1>5, ListsAreOrdered
<1>7. NextOffset(page, key.reverse) \in Places
  BY <1>4, <1>6 DEF Places
<1> HIDE DEF last
<1> QED  BY <1>3, <1>4, <1>7

\* It has items of the list behind the offset only; of those that were
\* settled it has all, but for the ones behind its last item; and if it was
\* full and final, it is the page of the whole chain.
Right(e) ==
    /\ e.key \in Queries
    /\ e.settled \in Int
    /\ e.page \subseteq Filtered(Docs, e.key)
    /\ \A d \in Filtered(Docs, e.key) : d.height =< e.settled =>
         \/ d \in e.page
         \/ Filled(e.page) /\ \A p \in e.page : ComesAfter(d, p, e.key.reverse)
    /\ Filled(e.page) /\ Final(e) => e.page = Page(Docs, e.key)

\* So is the page of every query.
LEMMA QueriesAreRight ==
    ASSUME NEW e, e.key \in Queries, e.settled \in Int, NEW docs \in SUBSET Docs,
           e.page = Page(docs, e.key),
           \A d \in Docs : d.height =< e.settled => d \in docs
    PROVE  Right(e)
<1> DEFINE S == Filtered(docs, e.key)
           U == Filtered(Docs, e.key)
           r == e.key.reverse
<1>1. /\ IsFiniteSet(S) /\ Ordered(S) /\ IsFiniteSet(U) /\ Ordered(U)
      /\ S \in SUBSET U /\ r \in BOOLEAN
  BY ListsAreOrdered DEF Filtered, Queries
<1>2. e.page = FirstOf(S, r) /\ Page(Docs, e.key) = FirstOf(U, r)
  BY PageIsFirst
<1>3. e.page \subseteq S
  BY <1>2 DEF FirstOf
<1>4. \A d \in U : d.height =< e.settled => d \in S
  BY ListsAreOrdered DEF Filtered
<1>5. ASSUME NEW d \in U, d.height =< e.settled, d \notin e.page
      PROVE  Filled(e.page) /\ \A p \in e.page : ComesAfter(d, p, r)
  <2>1. d \in S
    BY <1>4, <1>5
  <2>2. Filled(e.page)
    <3> HIDE DEF S, r
    <3> QED  BY <1>1, <1>2, <1>5, <2>1, NotFullIsAll DEF Filled
  <2>3. \A p \in e.page : ComesAfter(d, p, r)
    <3> HIDE DEF S, r
    <3> QED  BY <1>1, <1>2, <1>5, <2>1, FirstIsPrefix
  <2> QED  BY <2>2, <2>3
<1>6. ASSUME Filled(e.page), Final(e)
      PROVE  e.page = Page(Docs, e.key)
  <2>1. \A u \in U, d \in e.page : ~ComesAfter(u, d, r) => u \in S
    <3> SUFFICES ASSUME NEW u \in U, NEW d \in e.page, ~ComesAfter(u, d, r) PROVE u.height =< e.settled
      BY <1>4
    <3>1. u.height \in Int /\ u.index \in Int /\ d.height \in Int /\ d.index \in Int
      BY <1>1, <1>3 DEF Ordered, HasPlace
    <3>2. CASE r
      <4>1. e.key.offset # NoOffset /\ e.key.offset.height =< e.settled
        BY <1>6, <3>2 DEF Final
      <4>2. ComesAfter(u, e.key.offset, r)
        BY <4>1 DEF Filtered
      <4>3. HasPlace(e.key.offset)
        BY ListsAreOrdered
      <4> QED  BY <3>1, <3>2, <4>1, <4>2, <4>3 DEF ComesAfter, Before, HasPlace
    <3>3. CASE ~r
      <4>1. d.height =< e.settled
        BY <1>6, <3>3 DEF Final
      <4> QED  BY <3>1, <3>3, <4>1 DEF ComesAfter, Before
    <3> QED  BY <1>1, <3>2, <3>3
  <2>2. Cardinality(FirstOf(S, r)) = ItemsLimit
    BY <1>2, <1>6 DEF Filled
  <2> HIDE DEF S, U, r
  <2> QED  BY <1>1, <1>2, <2>1, <2>2, FullStays
<1> QED  BY <1>1, <1>3, <1>5, <1>6 DEF Right

(***************************************************************************)
(* The invariant                                                           *)
(***************************************************************************)

\* What the blocks below the one being digested have is there, and of that
\* one the collections that the session is done with.
StoreInv ==
    /\ stored \subseteq Docs
    /\ next \in Nat
    /\ pc \in 0..6
    /\ \A d \in Docs : d.height < next => d \in stored
    /\ \A d \in Docs :
         /\ d.height = next
         /\ \/ pc >= 5 /\ d.col = "operation"
            \/ pc = 6 /\ d.col = "account"
         => d \in stored

Walks ==
    [pc : {"idle", "load", "do", "flying", "ended"},
     key : [list : DOMAIN Lists \cup {""}, offset : Places \cup {NoOffset}, reverse : BOOLEAN],
     got : SUBSET Docs, again : BOOLEAN, low : Int, whole : BOOLEAN]

Flights == [key : Queries, read : BOOLEAN, page : SUBSET Docs, settled : Int]

Active(w) == w.pc \in {"load", "do", "flying"}

\* What a client has got is not behind the offset of its next request, and
\* what was settled all the time and is not behind it, he has got.
WalkInv(w) ==
    /\ w \in Walks
    /\ ~w.again
    /\ w.pc # "idle" => w.key \in Queries /\ w.got \subseteq Lists[w.key.list]
    /\ Active(w) =>
         /\ \A d \in w.got : w.key.offset # NoOffset /\ ~ComesAfter(d, w.key.offset, w.key.reverse)
         /\ \A d \in Lists[w.key.list] :
              /\ d.height =< w.low
              /\ w.key.offset # NoOffset /\ ~ComesAfter(d, w.key.offset, w.key.reverse)
              => d \in w.got
    /\ w.pc = "ended" => \A d \in Lists[w.key.list] : d.height =< w.low => d \in w.got

\* The inductive invariant.
HInv ==
    /\ StoreInv
    /\ walks \in [Clients -> Walks]
    /\ \A c \in Clients : WalkInv(walks[c])
    /\ flights \subseteq Flights
    /\ \A f \in flights : f.read => Right(f)
    /\ \A e \in caching : e.page # {} /\ Right(e)
    /\ \A e \in cache : e.page # {} /\ Right(e) /\ e.long = KeptLong(e.page)
    /\ TypeOK

LEMMA DocHeights ==
    \A d \in Docs : d.height \in Int /\ d.col \in {"account", "balance", "operation"}
<1> SUFFICES ASSUME NEW d \in Docs PROVE d.height \in Int /\ d.col \in {"account", "balance", "operation"}
  OBVIOUS
<1>1. d.height \in 0..MaxHeight /\ MaxHeight \in Nat /\ d.col \in {"account", "balance", "operation"}
  BY DocsAssumption
<1> QED  BY <1>1

LEMMA StoreStep == StoreInv /\ [StoreNext]_store => StoreInv'
<1> SUFFICES ASSUME StoreInv, [StoreNext]_store PROVE StoreInv'
  OBVIOUS
<1> USE DocHeights, DocsAssumption
<1>1. CASE DigestBlock
  BY <1>1 DEF StoreInv, DigestBlock
<1>2. CASE CleanByHeight
  <2>1. stored' \subseteq Docs
    BY <1>2 DEF StoreInv, CleanByHeight
  <2>2. \A d \in Docs : d.height < next => d \in stored'
    BY <1>2 DEF StoreInv, CleanByHeight, RemovedByHeight
  <2>3. pc' \in 2..4 /\ next' = next
    BY <1>2 DEF StoreInv, CleanByHeight
  <2> QED  BY <2>1, <2>2, <2>3 DEF StoreInv
<1>3. CASE Insert
  BY <1>3 DEF StoreInv, Insert, Missing
<1>4. CASE Inserted
  <2>1. \A d \in Docs : d.height = next /\ d.col = WriteOrder[pc - 3] => d \in stored
    BY <1>4 DEF StoreInv, Inserted, Missing
  <2>2. CASE pc = 4
    BY <1>4, <2>1, <2>2 DEF StoreInv, Inserted, WriteOrder
  <2>3. CASE pc = 5
    BY <1>4, <2>1, <2>3 DEF StoreInv, Inserted, WriteOrder
  <2>4. CASE pc = 6
    <3>1. \A d \in Docs : d.height = next => d \in stored
      BY <2>1, <2>4 DEF StoreInv, WriteOrder
    <3>2. stored' = stored /\ pc' = 0 /\ next' = next + 1
      BY <1>4, <2>4 DEF Inserted
    <3>3. \A d \in Docs : d.height < next' => d \in stored'
      BY <3>1, <3>2 DEF StoreInv
    <3> QED  BY <3>2, <3>3 DEF StoreInv
  <2> QED  BY <1>4, <2>2, <2>3, <2>4 DEF Inserted
<1>5. CASE Retry
  BY <1>5 DEF StoreInv, Retry
<1>6. CASE UNCHANGED store
  BY <1>6 DEF StoreInv, store
<1> QED  BY <1>1, <1>2, <1>3, <1>4, <1>5, <1>6 DEF StoreNext

\* A client that gets the right page of his query.
LEMMA ReceiveInv ==
    ASSUME NEW w, WalkInv(w), Active(w), NEW e, e.key = w.key, Right(e)
    PROVE  /\ WalkInv(Receive(w, e.page, e.settled))
           /\ Receive(w, e.page, e.settled).pc \in {"load", "ended"}
<1> DEFINE v == Receive(w, e.page, e.settled)
           r == w.key.reverse
           after(d) == w.key.offset # NoOffset => ComesAfter(d, w.key.offset, r)
<1>1. /\ w \in Walks /\ w.key \in Queries /\ r \in BOOLEAN
      /\ w.got \subseteq Lists[w.key.list]
      /\ e.page \in SUBSET Filtered(Docs, w.key) /\ e.settled \in Int
  BY DEF WalkInv, Active, Right, Queries
<1>2. /\ \A d \in Lists[w.key.list] : d \in Docs /\ HasPlace(d)
      /\ HasPlace(w.key.offset)
  BY <1>1, ListsAreOrdered DEF HasPlace
<1>3. \A d \in Lists[w.key.list] : d \in Filtered(Docs, w.key) <=> after(d)
  BY <1>2 DEF Filtered
<1>4. e.page \subseteq Lists[w.key.list] /\ \A d \in e.page : after(d)
  BY <1>1, <1>3 DEF Filtered
<1>5. e.page \cap w.got = {}
  BY <1>4 DEF WalkInv
<1>6. v = [w EXCEPT
             !.got = w.got \cup e.page,
             !.again = w.again \/ e.page \cap w.got # {},
             !.low = IF e.settled < w.low THEN e.settled ELSE w.low,
             !.pc = IF Filled(e.page) THEN "load" ELSE "ended",
             !.key.offset = IF Filled(e.page) THEN NextOffset(e.page, r) ELSE w.key.offset]
  BY DEF Receive
<1> HIDE DEF v
<1>7. /\ v.got = w.got \cup e.page
      /\ v.again = w.again
      /\ v.low \in Int /\ v.low =< w.low /\ v.low =< e.settled
      /\ v.pc = IF Filled(e.page) THEN "load" ELSE "ended"
      /\ v.key = [w.key EXCEPT !.offset = IF Filled(e.page) THEN NextOffset(e.page, r) ELSE w.key.offset]
      /\ v.whole = w.whole
      /\ DOMAIN v = DOMAIN w
  <2>1. w = [pc |-> w.pc, key |-> w.key, got |-> w.got, again |-> w.again, low |-> w.low, whole |-> w.whole]
        /\ w.again \in BOOLEAN /\ w.low \in Int
    BY <1>1 DEF Walks
  <2>2. /\ v.got = w.got \cup e.page
        /\ v.again = (w.again \/ e.page \cap w.got # {})
        /\ v.low = IF e.settled < w.low THEN e.settled ELSE w.low
        /\ v.pc = IF Filled(e.page) THEN "load" ELSE "ended"
        /\ v.key = [w.key EXCEPT !.offset = IF Filled(e.page) THEN NextOffset(e.page, r) ELSE w.key.offset]
        /\ v.whole = w.whole
        /\ DOMAIN v = DOMAIN w
    BY <1>6, <2>1
  <2>3. v.again = w.again
    BY <1>5, <2>1, <2>2
  <2>4. v.low \in Int /\ v.low =< w.low /\ v.low =< e.settled
    BY <1>1, <2>1, <2>2
  <2> QED  BY <2>2, <2>3, <2>4
<1>10. \A d \in Lists[w.key.list] : after(d) /\ d.height =< e.settled =>
        \/ d \in e.page
        \/ Filled(e.page) /\ \A p \in e.page : ComesAfter(d, p, r)
  BY <1>3 DEF Right
<1>11. \A d \in Lists[w.key.list] : ~after(d) /\ d.height =< w.low => d \in w.got
  BY DEF WalkInv
<1>12. /\ v.key \in [list : DOMAIN Lists \cup {""}, offset : Places \cup {NoOffset}, reverse : BOOLEAN]
       /\ v.pc \in {"load", "ended"}
       => v \in Walks
  <2>1. /\ w = [pc |-> w.pc, key |-> w.key, got |-> w.got, again |-> w.again, low |-> w.low, whole |-> w.whole]
        /\ w.got \in SUBSET Docs /\ w.again \in BOOLEAN /\ w.whole \in BOOLEAN
    BY <1>1 DEF Walks
  <2>2. v = [pc |-> v.pc, key |-> v.key, got |-> v.got, again |-> v.again, low |-> v.low, whole |-> v.whole]
    BY <1>6, <2>1
  <2>3. v.got \in SUBSET Docs /\ v.again \in BOOLEAN /\ v.low \in Int /\ v.whole \in BOOLEAN
    BY <1>2, <1>4, <1>7, <2>1
  <2> QED  BY <2>2, <2>3 DEF Walks
<1> HIDE DEF after
<1>8. CASE Filled(e.page)
  <2>1. e.page # {}
    BY <1>8, FS_EmptySet, ListsAssumption DEF Filled
  <2>2. PICK last \in e.page :
          /\ NextOffset(e.page, r) = [height |-> last.height, index |-> last.index]
          /\ \A d \in e.page \ {last} : ComesAfter(last, d, r)
    BY <1>1, <2>1, NextOffsetIsLast
  <2>3. v.key.offset = [height |-> last.height, index |-> last.index] /\ v.key.reverse = r
        /\ v.key.list = w.key.list /\ v.key \in Queries
    <3>1. v.key = [w.key EXCEPT !.offset = NextOffset(e.page, r)] /\ NextOffset(e.page, r) \in Places
      BY <1>1, <1>7, <1>8, <2>1, NextOffsetIsLast
    <3>2. w.key = [list |-> w.key.list, offset |-> w.key.offset, reverse |-> r] /\ w.key.list \in DOMAIN Lists
      BY <1>1 DEF Queries
    <3>3. v.key = [list |-> w.key.list, offset |-> NextOffset(e.page, r), reverse |-> r]
      BY <3>1, <3>2
    <3> QED  BY <1>1, <2>2, <3>1, <3>2, <3>3 DEF Queries
  <2>4. HasPlace(last) /\ v.key.offset # NoOffset /\ HasPlace(v.key.offset)
    BY <1>1, <1>2, <1>4, <2>3, ListsAreOrdered DEF HasPlace, NoOffset
  <2>5. ASSUME NEW d \in Lists[w.key.list]
        PROVE  ComesAfter(d, v.key.offset, r) <=> ComesAfter(d, last, r)
    BY <2>3 DEF ComesAfter, Before
  <2>6. ASSUME NEW d \in v.got PROVE ~ComesAfter(d, v.key.offset, r)
    <3>1. HasPlace(d)
      BY <1>1, <1>2, <1>4, <1>7
    <3>2. CASE d \in e.page
      <4>1. d = last \/ ComesAfter(last, d, r)
        BY <2>2, <3>2
      <4>2. ~ComesAfter(d, last, r)
        BY <1>1, <2>4, <3>1, <4>1, AfterIsOrder
      <4> QED  BY <1>4, <2>5, <3>2, <4>2
    <3>3. CASE d \in w.got
      <4>1. w.key.offset # NoOffset /\ ~ComesAfter(d, w.key.offset, r)
        BY <3>3 DEF WalkInv
      <4>2. ComesAfter(last, w.key.offset, r)
        BY <1>4, <4>1 DEF after
      <4>3. ~ComesAfter(d, last, r)
        BY <1>1, <1>2, <2>4, <3>1, <4>1, <4>2, NotAfter
      <4> QED  BY <1>1, <2>5, <3>3, <4>3
    <3> QED  BY <1>7, <3>2, <3>3
  <2>7. ASSUME NEW d \in Lists[w.key.list], d.height =< v.low, ~ComesAfter(d, v.key.offset, r)
        PROVE  d \in v.got
    <3>0. d.height \in Int /\ w.low \in Int
      BY <1>1, <1>2 DEF HasPlace, Walks
    <3>1. d.height =< w.low /\ d.height =< e.settled /\ ~ComesAfter(d, last, r)
      BY <1>1, <1>7, <2>5, <2>7, <3>0
    <3>2. CASE after(d)
      BY <1>4, <1>7, <1>10, <2>2, <3>1, <3>2
    <3>3. CASE ~after(d)
      BY <1>7, <1>11, <3>1, <3>3
    <3> QED  BY <3>2, <3>3
  <2>8. v \in Walks
    BY <1>12, <1>8, <1>7, <2>3 DEF Queries
  <2> QED
    <3>1. ~v.again /\ v.pc = "load" /\ v.key \in Queries /\ v.got \subseteq Lists[v.key.list]
      BY <1>1, <1>4, <1>7, <1>8, <2>3 DEF WalkInv
    <3>2. \A d \in v.got : v.key.offset # NoOffset /\ ~ComesAfter(d, v.key.offset, v.key.reverse)
      BY <2>3, <2>4, <2>6
    <3>3. \A d \in Lists[v.key.list] :
            d.height =< v.low /\ ~ComesAfter(d, v.key.offset, v.key.reverse) => d \in v.got
      BY <2>3, <2>7
    <3>4. WalkInv(v)
      BY <2>8, <3>1, <3>2, <3>3 DEF WalkInv
    <3> QED  BY <3>1, <3>4 DEF v
<1>9. CASE ~Filled(e.page)
  <2>1. v.pc = "ended" /\ v.key = w.key
    BY <1>1, <1>7, <1>9 DEF Walks
  <2>2. ASSUME NEW d \in Lists[w.key.list], d.height =< v.low PROVE d \in v.got
    <3>1. d.height =< w.low /\ d.height =< e.settled
      <4>1. d.height \in Int /\ w.low \in Int
        BY <1>1, <1>2 DEF HasPlace, Walks
      <4> QED  BY <1>1, <1>7, <2>2, <4>1
    <3>2. CASE after(d)
      BY <1>7, <1>9, <1>10, <3>1, <3>2
    <3>3. CASE ~after(d)
      BY <1>7, <1>11, <3>1, <3>3
    <3> QED  BY <3>2, <3>3
  <2>3. v \in Walks
    BY <1>12, <1>9, <1>7, <2>1, <1>1 DEF Walks
  <2> QED
    <3>1. ~v.again /\ v.key \in Queries /\ v.got \subseteq Lists[v.key.list]
      BY <1>1, <1>4, <1>7, <2>1 DEF WalkInv
    <3>2. WalkInv(v)
      BY <2>1, <2>2, <2>3, <3>1 DEF WalkInv, Active
    <3> QED  BY <2>1, <3>2 DEF v
<1> QED  BY <1>8, <1>9

LEMMA HandlersInitial == Init => HInv
<1> SUFFICES ASSUME Init PROVE HInv
  OBVIOUS
<1>1. StoreInv
  <2>1. stored \subseteq Docs /\ next \in Nat /\ pc = 0 /\ \A d \in Docs : d.height < next => d \in stored
    BY DocsAssumption DEF Init, StoreInit
  <2> QED  BY <2>1 DEF StoreInv
<1>2. Idle \in Walks /\ Idle.pc = "idle" /\ Idle.again = FALSE
  BY DocsAssumption DEF Idle, Walks
<1>3. WalkInv(Idle)
  BY <1>2 DEF WalkInv, Active
<1>4. walks \in [Clients -> Walks] /\ (\A c \in Clients : WalkInv(walks[c])) /\ \A c \in Clients : walks[c].pc = "idle"
  BY <1>2, <1>3 DEF Init
<1>5. cache = {} /\ caching = {} /\ flights = {}
  BY DEF Init
<1>6. TypeOK
  BY <1>1, <1>4, <1>5 DEF TypeOK, StoreInv
<1> QED  BY <1>1, <1>4, <1>5, <1>6 DEF HInv

LEMMA DigestingStep == HInv /\ Digesting => HInv'
<1> SUFFICES ASSUME HInv, Digesting PROVE HInv'
  OBVIOUS
<1>1. StoreInv'
  BY StoreStep DEF HInv, Digesting
<1>2. UNCHANGED <<cache, flights, caching, walks>>
  BY DEF Digesting, api
<1>3. TypeOK'
  BY <1>1, <1>2 DEF HInv, TypeOK, StoreInv, Flying
<1> QED  BY <1>1, <1>2, <1>3 DEF HInv

LEMMA WalkStep == ASSUME HInv, NEW c \in Clients, Walk(c) PROVE HInv'
<1>1. UNCHANGED <<store, cache, flights, caching>> /\ walks[c].pc = "idle"
  BY DEF Walk
<1>2. StoreInv'
  BY <1>1 DEF HInv, StoreInv, store
<1>3. PICK list \in DOMAIN Lists, reverse \in BOOLEAN :
        walks' = [walks EXCEPT ![c] =
           [Idle EXCEPT !.pc = "load", !.key.list = list, !.key.reverse = reverse,
                        !.whole = (Settled = MaxHeight /\ flights = {} /\ caching = {})]]
  BY DEF Walk
<1> DEFINE w == [Idle EXCEPT !.pc = "load", !.key.list = list, !.key.reverse = reverse,
                             !.whole = (Settled = MaxHeight /\ flights = {} /\ caching = {})]
<1>4. /\ w.pc = "load" /\ w.got = {} /\ w.again = FALSE /\ w.key.offset = NoOffset
      /\ w.key \in Queries /\ w \in Walks
  <2> DEFINE whole == Settled = MaxHeight /\ flights = {} /\ caching = {}
  <2>1. w = [pc |-> "load", key |-> [list |-> list, offset |-> NoOffset, reverse |-> reverse],
             got |-> {}, again |-> FALSE, low |-> MaxHeight, whole |-> whole]
    <3> HIDE DEF whole
    <3>1. w = [Idle EXCEPT !.pc = "load", !.key.list = list, !.key.reverse = reverse, !.whole = whole]
      BY DEF whole
    <3>2. Idle = [pc |-> "idle", key |-> [list |-> "", offset |-> NoOffset, reverse |-> FALSE],
                  got |-> {}, again |-> FALSE, low |-> MaxHeight, whole |-> FALSE]
      BY DEF Idle
    <3>3. Idle.key = [list |-> "", offset |-> NoOffset, reverse |-> FALSE]
      BY <3>2
    <3> HIDE DEF w
    <3> QED  BY <3>1, <3>2, <3>3
  <2>2. whole \in BOOLEAN /\ MaxHeight \in Int
    BY DocsAssumption
  <2> HIDE DEF w, whole
  <2> QED  BY <2>1, <2>2 DEF Walks, Queries
<1> HIDE DEF w
<1>5. WalkInv(w)
  BY <1>4 DEF WalkInv, Active
<1>6. walks' = [walks EXCEPT ![c] = w]
  BY <1>3 DEF w
<1>7. walks' \in [Clients -> Walks] /\ \A b \in Clients : WalkInv(walks'[b])
  BY <1>4, <1>5, <1>6 DEF HInv
<1>8. \A key : Flying(key)' = Flying(key)
  BY <1>1, <1>4, <1>6 DEF HInv, Flying
<1>9. TypeOK'
  BY <1>1, <1>4, <1>6, <1>8 DEF HInv, TypeOK, store
<1> QED  BY <1>1, <1>2, <1>7, <1>9 DEF HInv

LEMMA LoadStep == ASSUME HInv, NEW c \in Clients, Load(c) PROVE HInv'
<1>1. UNCHANGED <<store, cache, flights, caching>> /\ walks[c].pc = "load"
  BY DEF Load
<1>2. StoreInv'
  BY <1>1 DEF HInv, StoreInv, store
<1>3. walks \in [Clients -> Walks] /\ WalkInv(walks[c])
  BY DEF HInv
<1>4. PICK w : /\ walks' = [walks EXCEPT ![c] = w]
               /\ WalkInv(w) /\ w.pc \in {"do", "load", "ended"}
  <2>1. CASE {e \in cache : e.key = walks[c].key} = {}
    <3> DEFINE w == [walks[c] EXCEPT !.pc = "do"]
    <3>1. /\ w.pc = "do" /\ w.key = walks[c].key /\ w.got = walks[c].got /\ w.again = walks[c].again
          /\ w.low = walks[c].low /\ w \in Walks
      BY <1>3 DEF Walks
    <3>2. walks' = [walks EXCEPT ![c] = w]
      BY <2>1 DEF Load
    <3> HIDE DEF w
    <3>3. WalkInv(w)
      BY <1>1, <1>3, <3>1 DEF WalkInv, Active
    <3> QED  BY <3>1, <3>2, <3>3
  <2>2. CASE {e \in cache : e.key = walks[c].key} # {}
    <3>1. PICK e \in cache : e.key = walks[c].key
                             /\ walks' = [walks EXCEPT ![c] = Receive(walks[c], e.page, e.settled)]
      BY <1>3, <2>2 DEF Load
    <3>2. Right(e)
      BY DEF HInv
    <3>3. Active(walks[c])
      BY <1>1 DEF Active
    <3> QED  BY <1>3, <3>1, <3>2, <3>3, ReceiveInv
  <2> QED  BY <2>1, <2>2
<1>5. w \in Walks
  BY <1>4 DEF WalkInv
<1>6. walks' \in [Clients -> Walks] /\ \A b \in Clients : WalkInv(walks'[b])
  BY <1>4, <1>5 DEF HInv
<1>7. \A key : Flying(key)' = Flying(key)
  BY <1>1, <1>3, <1>4 DEF Flying
<1>8. \A b \in Clients : walks'[b].pc = "flying" => b # c /\ walks'[b] = walks[b]
  BY <1>3, <1>4
<1>9. TypeOK'
  <2>1. \A b \in Clients : walks'[b].pc \in {"idle", "load", "do", "flying", "ended"}
    BY <1>6 DEF Walks
  <2>2. \A b \in Clients : walks'[b].pc = "flying" => \E f \in flights' : f.key = walks'[b].key
    BY <1>1, <1>8 DEF HInv, TypeOK
  <2> QED  BY <1>1, <1>2, <1>7, <2>1, <2>2 DEF HInv, TypeOK, StoreInv
<1> QED  BY <1>1, <1>2, <1>6, <1>9 DEF HInv

LEMMA DoStep == ASSUME HInv, NEW c \in Clients, Do(c) PROVE HInv'
<1>1. UNCHANGED <<store, cache, caching>> /\ walks[c].pc = "do"
  BY DEF Do
<1>2. StoreInv'
  BY <1>1 DEF HInv, StoreInv, store
<1> DEFINE w == [walks[c] EXCEPT !.pc = "flying"]
           new == [key |-> walks[c].key, read |-> FALSE, page |-> {}, settled |-> -1]
<1>3. walks \in [Clients -> Walks] /\ WalkInv(walks[c]) /\ walks[c].key \in Queries
  BY <1>1 DEF HInv, WalkInv
<1>4. /\ w.pc = "flying" /\ w.key = walks[c].key /\ w.got = walks[c].got /\ w.again = walks[c].again
      /\ w.low = walks[c].low /\ w \in Walks
  BY <1>3 DEF Walks
<1>5. walks' = [walks EXCEPT ![c] = w]
  BY DEF Do
<1> HIDE DEF w
<1>6. WalkInv(w)
  BY <1>1, <1>3, <1>4 DEF WalkInv, Active
<1>7. walks' \in [Clients -> Walks] /\ \A b \in Clients : WalkInv(walks'[b])
  BY <1>4, <1>5, <1>6 DEF HInv
<1>8. new \in Flights /\ new.key = walks[c].key /\ new.read = FALSE
  BY <1>3 DEF Flights
<1>9. \/ flights' = flights /\ \E f \in flights : f.key = walks[c].key
      \/ flights' = flights \cup {new} /\ \A f \in flights : f.key # walks[c].key
  BY DEF Do
<1> HIDE DEF new
<1>10. flights' \subseteq Flights /\ \A f \in flights' : f.read => Right(f)
  BY <1>8, <1>9 DEF HInv
<1>11. \A key : Flying(key) \subseteq Flying(key)'
  BY <1>1, <1>3, <1>4, <1>5 DEF Flying
<1>12. \A key : key = walks[c].key => c \in Flying(key)'
  BY <1>3, <1>4, <1>5 DEF Flying
<1>13. \A f \in flights' : Flying(f.key)' # {}
  <2> TAKE f \in flights'
  <2>1. CASE f \in flights
    <3>1. Flying(f.key) # {}
      BY <2>1 DEF HInv, TypeOK
    <3> QED  BY <1>11, <3>1
  <2>2. CASE f = new
    BY <1>8, <1>12, <2>2
  <2> QED  BY <1>9, <2>1, <2>2
<1>14. \A b \in Clients : walks'[b].pc = "flying" => \E f \in flights' : f.key = walks'[b].key
  <2> TAKE b \in Clients
  <2>1. CASE b = c
    BY <1>3, <1>4, <1>5, <1>8, <1>9, <2>1
  <2>2. CASE b # c
    BY <1>3, <1>5, <1>9, <2>2 DEF HInv, TypeOK
  <2> QED  BY <2>1, <2>2
<1>15. \A f, g \in flights' : f.key = g.key => f = g
  BY <1>8, <1>9 DEF HInv, TypeOK
<1>16. \A b \in Clients : walks'[b].pc \in {"idle", "load", "do", "flying", "ended"}
  BY <1>7 DEF Walks
<1>17. TypeOK'
  BY <1>1, <1>2, <1>13, <1>14, <1>15, <1>16 DEF HInv, TypeOK, StoreInv
<1> QED  BY <1>1, <1>2, <1>7, <1>10, <1>17 DEF HInv

LEMMA InGroupStep == ASSUME HInv, NEW f \in flights, InGroup(f) PROVE HInv'
<1> DEFINE g == [f EXCEPT !.read = TRUE, !.page = Page(stored, f.key), !.settled = Settled]
<1>1. UNCHANGED <<store, cache, caching, walks>> /\ flights' = (flights \ {f}) \cup {g}
  BY DEF InGroup
<1>2. StoreInv'
  BY <1>1 DEF HInv, StoreInv, store
<1>3. f \in Flights /\ f.key \in Queries /\ Settled \in Int
  BY DEF HInv, Flights, StoreInv, Settled
<1>4. g.key = f.key /\ g.read = TRUE /\ g.page = Page(stored, f.key) /\ g.settled = Settled
  BY <1>3 DEF Flights
<1>5. Page(stored, f.key) \subseteq Docs
  BY DEF Page, Filtered, HInv, StoreInv
<1>6. g \in Flights
  BY <1>3, <1>5 DEF Flights
<1> HIDE DEF g
<1>7. \A d \in Docs : d.height =< g.settled => d \in stored
  <2> SUFFICES ASSUME NEW d \in Docs, d.height =< g.settled PROVE d \in stored
    OBVIOUS
  <2>1. d.height \in Int /\ next \in Nat /\ g.settled = next - 1
    BY <1>4, DocHeights DEF Settled, HInv, StoreInv
  <2>2. d.height < next
    BY <2>1
  <2> QED  BY <2>2 DEF HInv, StoreInv
<1>8. Right(g)
  <2>1. stored \in SUBSET Docs
    BY DEF HInv, StoreInv
  <2> QED  BY <1>3, <1>4, <1>7, <2>1, QueriesAreRight
<1>9. flights' \subseteq Flights /\ \A h \in flights' : h.read => Right(h)
  BY <1>1, <1>6, <1>8 DEF HInv
<1>10. TypeOK'
  <2>1. \A key : Flying(key)' = Flying(key)
    BY <1>1 DEF Flying
  <2>2. \A h, i \in flights' : h.key = i.key => h = i
    BY <1>1, <1>4 DEF HInv, TypeOK
  <2>3. \A h \in flights' : Flying(h.key)' # {}
    BY <1>1, <1>4, <2>1 DEF HInv, TypeOK
  <2>4. \A c \in Clients : walks'[c].pc = "flying" => \E h \in flights' : h.key = walks'[c].key
    <3> SUFFICES ASSUME NEW c \in Clients, walks[c].pc = "flying"
                 PROVE  \E h \in flights' : h.key = walks[c].key
      BY <1>1
    <3>1. PICK h \in flights : h.key = walks[c].key
      BY DEF HInv, TypeOK
    <3>2. CASE h = f
      BY <1>1, <1>4, <3>1, <3>2
    <3>3. CASE h # f
      BY <1>1, <3>1, <3>3
    <3> QED  BY <3>2, <3>3
  <2> QED  BY <1>1, <1>2, <2>2, <2>3, <2>4 DEF HInv, TypeOK, StoreInv
<1> QED  BY <1>1, <1>2, <1>9, <1>10 DEF HInv

LEMMA AnswerStep == ASSUME HInv, NEW f \in flights, Answer(f) PROVE HInv'
<1>1. UNCHANGED <<store, cache>> /\ flights' = flights \ {f} /\ Right(f)
  BY DEF Answer, HInv
<1>2. StoreInv'
  BY <1>1 DEF HInv, StoreInv, store
<1>3. walks' = [c \in Clients |-> IF c \in Flying(f.key) THEN Receive(walks[c], f.page, f.settled)
                                  ELSE walks[c]]
  BY DEF Answer
<1>4. ASSUME NEW c \in Clients
      PROVE  /\ walks'[c] \in Walks /\ WalkInv(walks'[c])
             /\ walks'[c].pc = "flying" => walks'[c] = walks[c] /\ walks[c].key # f.key
             /\ walks[c].pc = "flying" /\ walks[c].key # f.key => walks'[c] = walks[c]
  <2>1. WalkInv(walks[c])
    BY DEF HInv
  <2>2. CASE c \in Flying(f.key)
    <3>1. Active(walks[c]) /\ f.key = walks[c].key
      BY <2>2 DEF Flying, Active
    <3>2. walks'[c] = Receive(walks[c], f.page, f.settled)
      BY <1>3, <2>2
    <3>3. WalkInv(walks'[c]) /\ walks'[c].pc \in {"load", "ended"}
      BY <1>1, <2>1, <3>1, <3>2, ReceiveInv
    <3> QED  BY <3>1, <3>3 DEF WalkInv
  <2>3. CASE c \notin Flying(f.key)
    <3>1. walks'[c] = walks[c]
      BY <1>3, <2>3
    <3> QED  BY <2>1, <2>3, <3>1 DEF WalkInv, Flying
  <2> QED  BY <2>2, <2>3
<1>5. walks' \in [Clients -> Walks] /\ \A c \in Clients : WalkInv(walks'[c])
  BY <1>3, <1>4
<1>6. \A e \in caching' : e.page # {} /\ Right(e) /\ e.page \subseteq Docs
  <2> DEFINE new == [key |-> f.key, page |-> f.page, settled |-> f.settled]
  <2>1. caching' = caching \/ (caching' = caching \cup {new} /\ f.page # {})
    BY DEF Answer, OK
  <2>2. Right(new)
    BY <1>1 DEF Right, Final
  <2>3. \A e : Right(e) => e.page \subseteq Docs
    BY DEF Right, Filtered
  <2>4. \A e \in caching : e.page # {} /\ Right(e)
    BY DEF HInv
  <2>5. new.page = f.page
    OBVIOUS
  <2> HIDE DEF new
  <2> QED  BY <2>1, <2>2, <2>3, <2>4, <2>5
<1>7. TypeOK'
  <2>1. \A key : key # f.key => Flying(key)' = Flying(key)
    <3> SUFFICES ASSUME NEW key, key # f.key, NEW c \in Clients
                 PROVE  walks'[c].pc = "flying" /\ walks'[c].key = key
                          <=> walks[c].pc = "flying" /\ walks[c].key = key
      BY DEF Flying
    <3> QED  BY <1>4
  <2>2. \A g \in flights' : g.key # f.key
    BY <1>1 DEF HInv, TypeOK
  <2>3. \A g \in flights' : Flying(g.key)' # {}
    BY <1>1, <2>1, <2>2 DEF HInv, TypeOK
  <2>4. \A c \in Clients : walks'[c].pc = "flying" => \E g \in flights' : g.key = walks'[c].key
    BY <1>1, <1>4 DEF HInv, TypeOK
  <2>5. \A c \in Clients : walks'[c].pc \in {"idle", "load", "do", "flying", "ended"}
    BY <1>5 DEF Walks
  <2> QED  BY <1>1, <1>2, <1>6, <2>3, <2>4, <2>5 DEF HInv, TypeOK, StoreInv
<1> QED  BY <1>1, <1>2, <1>5, <1>6, <1>7 DEF HInv

LEMMA CacheStep == ASSUME HInv, NEW e \in caching, Cache(e) PROVE HInv'
<1> DEFINE new == [key |-> e.key, page |-> e.page, settled |-> e.settled, long |-> KeptLong(e.page)]
<1>1. UNCHANGED <<store, flights, walks>> /\ caching' = caching \ {e}
      /\ cache' = {o \in cache : o.key # e.key} \cup {new}
  BY DEF Cache
<1>2. StoreInv'
  BY <1>1 DEF HInv, StoreInv, store
<1>3. new.key = e.key /\ new.page = e.page /\ new.settled = e.settled /\ new.long = KeptLong(e.page)
  OBVIOUS
<1> HIDE DEF new
<1>4. e.page # {} /\ Right(e)
  BY DEF HInv
<1>5. Right(new)
  BY <1>3, <1>4 DEF Right, Final
<1>6. \A o \in cache' : o.page # {} /\ Right(o) /\ o.long = KeptLong(o.page)
  BY <1>1, <1>3, <1>4, <1>5 DEF HInv
<1>7. TypeOK'
  <2>1. \A o, p \in cache' : o.key = p.key => o = p
    BY <1>1, <1>3 DEF HInv, TypeOK
  <2>2. \A o \in cache' \cup caching' : o.page # {} /\ o.page \subseteq Docs
    BY <1>1, <1>3, <1>4 DEF HInv, TypeOK
  <2>3. \A key : Flying(key)' = Flying(key)
    BY <1>1 DEF Flying
  <2> QED  BY <1>1, <1>2, <2>1, <2>2, <2>3 DEF HInv, TypeOK, StoreInv
<1> QED  BY <1>1, <1>2, <1>6, <1>7 DEF HInv

LEMMA ExpireStep == ASSUME HInv, NEW e \in cache, Expire(e) PROVE HInv'
<1>1. UNCHANGED <<store, flights, caching, walks>> /\ cache' = cache \ {e}
  BY DEF Expire
<1>2. StoreInv'
  BY <1>1 DEF HInv, StoreInv, store
<1>3. \A key : Flying(key)' = Flying(key)
  BY <1>1 DEF Flying
<1>4. TypeOK'
  BY <1>1, <1>2, <1>3 DEF HInv, TypeOK, StoreInv
<1> QED  BY <1>1, <1>2, <1>4 DEF HInv

LEMMA HandlersInductive == HInv /\ [Next]_vars => HInv'
<1> SUFFICES ASSUME HInv, [Next]_vars PROVE HInv'
  OBVIOUS
<1>1. CASE UNCHANGED vars
  <2>1. UNCHANGED <<stored, next, pc, cache, flights, caching, walks>>
    BY <1>1 DEF vars, store, api
  <2>2. \A key : Flying(key)' = Flying(key)
    BY <2>1 DEF Flying
  <2> QED  BY <2>1, <2>2 DEF HInv, StoreInv, TypeOK
<1>2. CASE Next
  BY <1>2, DigestingStep, WalkStep, LoadStep, DoStep, InGroupStep, AnswerStep, CacheStep, ExpireStep
     DEF Next, Handle
<1> QED  BY <1>1, <1>2

\* The inductive invariant.
THEOREM HandlersInvariance == Spec => []HInv
  BY HandlersInitial, HandlersInductive, PTL DEF Spec

\* Types; a key is cached once and has one flight, and nobody waits for a
\* flight that is not there.
THEOREM HandlersAreTyped == Spec => []TypeOK
<1>1. HInv => TypeOK
  BY DEF HInv
<1> QED  BY <1>1, HandlersInvariance, PTL

\* Whoever follows the links gets nothing twice, for every list, page size
\* and number of clients, whatever is digested or expires on the way.
THEOREM NothingIsGotTwice == Spec => []NothingTwice
<1>1. HInv => NothingTwice
  BY DEF HInv, WalkInv, NothingTwice
<1> QED  BY <1>1, HandlersInvariance, PTL

\* A walk that has ended has all that was settled when its oldest page was
\* read.
THEOREM WhatWasSettledIsFound == Spec => []SettledAreFound
<1>1. HInv => SettledAreFound
  BY DEF HInv, WalkInv, SettledAreFound
<1> QED  BY <1>1, HandlersInvariance, PTL

\* A page that is kept for 30 hours and was final when it was read is the
\* page of the whole chain.
THEOREM LongKeptPagesAreRight == Spec => []LongPagesAreRight
<1>1. HInv => LongPagesAreRight
  BY DEF HInv, Right, KeptLong, LongPagesAreRight
<1> QED  BY <1>1, HandlersInvariance, PTL
=============================================================================
