------------------------------ MODULE Handlers ------------------------------
(***************************************************************************)
(* The lists of operations of the digest API (digest/handler_operation.go, *)
(* handler_account.go, database.go), with the cache and the sharing of     *)
(* requests in flight that all handlers have (handler.go, cache.go), read  *)
(* by clients that follow the "next" links while blocks are digested.      *)
(*                                                                         *)
(* A handler looks for its key in the cache; on a miss it joins or starts  *)
(* the flight of the key (singleflight), whose leader queries the database *)
(* once for all.  Only an answer that nobody shared is stored under the    *)
(* key, for 30 hours when the page is full and else for 3 seconds.  (The   *)
(* shared ones go to the key of the request's URL, which no handler reads; *)
(* answers that are not OK are not stored.)                                *)
(*                                                                         *)
(* A page is the set of its items, its order being that of the key.        *)
(* External: clients, the cache's expiry and eviction.                     *)
(***************************************************************************)
EXTENDS DigestStore, FiniteSets

CONSTANTS
    Lists,       \* the operations of each list: all, an account's, a block's
    ItemsLimit,  \* itemsLimiter, not beyond the maxLimit of the database
    Clients

\* An operation's index is its place in its block.
ASSUME ListsAssumption ==
    /\ \A l \in DOMAIN Lists :
         /\ IsFiniteSet(Lists[l])
         /\ \A d \in Lists[l] : d \in Docs /\ d.col = "operation" /\ d.index \in Nat
         /\ \A d, e \in Lists[l] : d.height = e.height /\ d.index = e.index => d = e
    /\ ItemsLimit \in Nat \ {0}

NoOffset == [height |-> -1, index |-> -1]

VARIABLES
    cache,    \* the cached pages, one for a key
    flights,  \* the requests in flight (Handlers.rg)
    caching,  \* pages answered and not yet cached
    walks     \* of each client, the list it is walking

api == <<cache, flights, caching, walks>>
vars == <<store, api>>

Before(d, e) == d.height < e.height \/ (d.height = e.height /\ d.index < e.index)

\* d comes after e in a list of this direction.
ComesAfter(d, e, reverse) == IF reverse THEN Before(d, e) ELSE Before(e, d)

\* Mutant: the offset is left out of the query.
FilteredByListOnly(docs, key) == docs \cap Lists[key.list]

\* Mutant: the item at the offset is in the query.
FilteredFromOffset(docs, key) ==
    {d \in docs \cap Lists[key.list] :
        key.offset # NoOffset => ~ComesAfter(key.offset, d, key.reverse)}

\* Mutant: of the offset, only the height is looked at.
FilteredByHeight(docs, key) ==
    {d \in docs \cap Lists[key.list] :
        key.offset # NoOffset =>
            IF key.reverse THEN d.height < key.offset.height ELSE d.height > key.offset.height}

\* buildOperationsFilterByAddress, buildOperationsFilterByOffset and
\* buildOperationsByHeightFilterByOffset: what a query is about.
Filtered(docs, key) ==
    {d \in docs \cap Lists[key.list] :
        key.offset # NoOffset => ComesAfter(d, key.offset, key.reverse)}

\* The sorted and limited query.
Page(docs, key) ==
    LET found == Filtered(docs, key)
    IN  {d \in found : Cardinality({e \in found : ComesAfter(d, e, key.reverse)}) < ItemsLimit}

Filled(page) == Cardinality(page) = ItemsLimit

\* Mutant: every page is kept for long.
AlwaysLong(page) == TRUE

\* Whether a page is kept for 30 hours.
KeptLong(page) == Filled(page)

\* The "next" link: the place of the last item.
NextOffset(page, reverse) ==
    LET last == CHOOSE d \in page : \A e \in page \ {d} : ComesAfter(d, e, reverse)
    IN  [height |-> last.height, index |-> last.index]

-----------------------------------------------------------------------------
Idle == [pc |-> "idle", key |-> [list |-> "", offset |-> NoOffset, reverse |-> FALSE],
         got |-> {}, again |-> FALSE, low |-> MaxHeight, whole |-> FALSE]

Init ==
    /\ StoreInit
    /\ cache = {}
    /\ flights = {}
    /\ caching = {}
    /\ walks = [c \in Clients |-> Idle]

\* What a client makes of an answer: it goes on from a full page, and stops
\* after a page that is not full or when nothing was found.
Receive(walk, page, settled) ==
    [walk EXCEPT
        !.got = @ \cup page,
        !.again = @ \/ page \cap walk.got # {},
        !.low = IF settled < @ THEN settled ELSE @,
        !.pc = IF Filled(page) THEN "load" ELSE "ended",
        !.key.offset = IF Filled(page) THEN NextOffset(page, walk.key.reverse) ELSE @]

\* A client asks for a list without an offset.
Walk(c) ==
    /\ walks[c].pc = "idle"
    /\ \E list \in DOMAIN Lists, reverse \in BOOLEAN :
         walks' = [walks EXCEPT ![c] =
           [Idle EXCEPT !.pc = "load", !.key.list = list, !.key.reverse = reverse,
                        !.whole = (Settled = MaxHeight /\ flights = {} /\ caching = {})]]
    /\ UNCHANGED <<store, cache, flights, caching>>

\* loadFromCache.
Load(c) ==
    /\ walks[c].pc = "load"
    /\ LET hits == {e \in cache : e.key = walks[c].key}
       IN  IF hits = {} THEN walks' = [walks EXCEPT ![c].pc = "do"]
           ELSE \E e \in hits : walks' = [walks EXCEPT ![c] = Receive(@, e.page, e.settled)]
    /\ UNCHANGED <<store, cache, flights, caching>>

\* rg.Do: the first one starts the flight.
Do(c) ==
    /\ walks[c].pc = "do"
    /\ walks' = [walks EXCEPT ![c].pc = "flying"]
    /\ flights' = IF \E f \in flights : f.key = walks[c].key THEN flights
                  ELSE flights \cup {[key |-> walks[c].key, read |-> FALSE, page |-> {}, settled |-> -1]}
    /\ UNCHANGED <<store, cache, caching>>

\* handleOperationsInGroup and the like, by the leader.
InGroup(f) ==
    /\ ~f.read
    /\ flights' = (flights \ {f}) \cup
         {[f EXCEPT !.read = TRUE, !.page = Page(stored, f.key), !.settled = Settled]}
    /\ UNCHANGED <<store, cache, caching, walks>>

Flying(key) == {c \in Clients : walks[c].pc = "flying" /\ walks[c].key = key}

\* Mutant: a 404 is as good as an answer.
AnyStatus(page) == TRUE

\* CacheResponseWriter.OK; nothing found is a 404.
OK(page) == page # {}

\* What singleflight calls shared.
Shared(key) == Cardinality(Flying(key)) > 1

\* The flight lands: all that wait for it answer.
Answer(f) ==
    /\ f.read
    /\ flights' = flights \ {f}
    /\ walks' = [c \in Clients |-> IF c \in Flying(f.key) THEN Receive(walks[c], f.page, f.settled)
                                   ELSE walks[c]]
    /\ caching' = IF OK(f.page) /\ ~Shared(f.key)
                  THEN caching \cup {[key |-> f.key, page |-> f.page, settled |-> f.settled]}
                  ELSE caching
    /\ UNCHANGED <<store, cache>>

\* CacheResponseWriter.Cache, after the handler has written its answer.
Cache(e) ==
    /\ caching' = caching \ {e}
    /\ cache' = {o \in cache : o.key # e.key} \cup
         {[key |-> e.key, page |-> e.page, settled |-> e.settled, long |-> KeptLong(e.page)]}
    /\ UNCHANGED <<store, flights, walks>>

\* An entry expires or is evicted.
Expire(e) ==
    /\ cache' = cache \ {e}
    /\ UNCHANGED <<store, flights, caching, walks>>

Digesting == StoreNext /\ UNCHANGED api

Handle(c) == Load(c) \/ Do(c)

Next ==
    \/ Digesting
    \/ \E c \in Clients : Walk(c) \/ Handle(c)
    \/ \E f \in flights : InGroup(f) \/ Answer(f)
    \/ \E e \in caching : Cache(e)
    \/ \E e \in cache : Expire(e)

\* Handlers run and the database answers; nobody has to ask or to digest.
Fairness ==
    /\ \A c \in Clients : WF_vars(Handle(c))
    /\ WF_vars(\E f \in flights : InGroup(f) \/ Answer(f))

Spec == Init /\ [][Next]_vars /\ Fairness

-----------------------------------------------------------------------------
\* Type invariant; a key is cached once and has one flight, and whoever
\* flies has a flight to wait for.
TypeOK ==
    /\ stored \subseteq Docs
    /\ \A e, o \in cache : e.key = o.key => e = o
    /\ \A f, g \in flights : f.key = g.key => f = g
    /\ \A e \in cache \cup caching : e.page # {} /\ e.page \subseteq Docs
    /\ \A c \in Clients :
         /\ walks[c].pc \in {"idle", "load", "do", "flying", "ended"}
         /\ walks[c].pc = "flying" => \E f \in flights : f.key = walks[c].key
    /\ \A f \in flights : Flying(f.key) # {}

\* A client that follows the links gets no operation twice, though its pages
\* may be from the cache or another's query, of different times, and blocks
\* be deleted and written again meanwhile.
NothingTwice ==
    \A c \in Clients : ~walks[c].again

\* A walk that has come to its end has all operations of its list from the
\* blocks that were settled when its oldest page was read.
SettledAreFound ==
    \A c \in Clients : walks[c].pc = "ended" =>
        \A d \in Lists[walks[c].key.list] : d.height =< walks[c].low => d \in walks[c].got

\* Whether a page was read when nothing within its range could still come:
\* a forward page of settled blocks, a reverse page from a settled offset.
Final(e) ==
    IF e.key.reverse THEN e.key.offset # NoOffset /\ e.key.offset.height =< e.settled
    ELSE \A d \in e.page : d.height =< e.settled

\* What is cached for 30 hours and was final when it was read is the page of
\* the whole chain, whatever is digested, deleted or digested again later.
LongPagesAreRight ==
    \A e \in cache : e.long /\ Final(e) => e.page = Page(Docs, e.key)

\* A walk that began when the whole chain was digested and no request was
\* under way, and has had full pages so far (others may be 3 seconds old).
OfWholeChain(walk) == walk.whole /\ walk.pc = "load"

\* The code's tests follow the links from a list's start, both ways, and
\* compare what they get with all operations, in order.  So a walk of the
\* whole chain jumps over no operation: a forward one not over what another
\* page was read too early for, a reverse one not over the newest.
WalksAreInOrder ==
    \A c \in Clients : OfWholeChain(walks[c]) =>
        \A d \in Lists[walks[c].key.list], e \in walks[c].got :
            ComesAfter(e, d, walks[c].key.reverse) => d \in walks[c].got

\* A client that follows the links comes to an end.
WalksEnd ==
    \A c \in Clients : walks[c].pc = "load" ~> walks[c].pc = "ended"
=============================================================================
