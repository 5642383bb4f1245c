----------------------------- MODULE Catalogue ------------------------------
(***************************************************************************)
(* internal/exchangesvc, AdminServer: the calls that describe currencies   *)
(* and choose the default rate pairs, beside a transaction of              *)
(* internal/ingest that discovers currencies.                              *)
(*                                                                         *)
(* No call runs in a transaction: each of its statements commits on its    *)
(* own, in between others run, and a call that fails leaves what it has    *)
(* done.  The client's gRPC service config repeats curation and bootstrap  *)
(* when the answer is UNAVAILABLE, whether the call was carried out or     *)
(* not; it does not repeat the sync.                                       *)
(***************************************************************************)
EXTENDS Integers, Sequences, SequencesExt, FiniteSets

CONSTANTS Paths,       \* item paths, in the order of their strings
          Requests,    \* function from the calls to what they ask for
          MaxRepeats,  \* bound: how often a call is carried out again
          MaxId        \* bound: AUTO_INCREMENT values of the ingest

NoPath == 0            \* an item of poe2scout without a BaseItemTypeId
None   == "none"       \* SQL NULL
Calls  == DOMAIN Requests

Op(c) == Requests[c].op

ASSUME CatalogueAssumption ==
    /\ Paths \subseteq Nat \ {NoPath}
    /\ \A c \in Calls : Op(c) \in {"sync", "curate", "bootstrap"}
    /\ \A c \in Calls : Op(c) = "sync" =>
           Requests[c].categories \in Seq(Seq(Seq(
               [path : Paths \union {NoPath}, name : STRING, category : STRING])))
    /\ \A c \in Calls : Op(c) = "curate" => Requests[c].path \in Paths
    /\ \A c \in Calls : Op(c) = "bootstrap" =>
           Requests[c].base \in Paths /\ Requests[c].quotes \in Seq(Paths)
    /\ {MaxRepeats, MaxId} \subseteq Nat

VARIABLES
    currencies,  \* per path: the committed row, id 0 if there is none
    pairs,       \* table default_rate_pairs: <<base id, quote id>> -> sort_order
    nextId,      \* AUTO_INCREMENT counter of currencies
    held,        \* paths whose row the ingest has locked
    own,         \* per path: id of the row the ingest inserted, or 0
    pc,          \* per call: "idle", "fetch", "run", "ok" or "failed"
    fetched,     \* per call: items a sync has read, and the page it reads next
    todo,        \* per call: what its loop has left to do
    base,        \* per call: id of the base that bootstrap read, or 0
    quote,       \* per call: id of the quote that bootstrap read, or 0
    repeats      \* per call: how often the client repeated it

tables == <<currencies, pairs, nextId>>
ingest == <<held, own>>
calls  == <<pc, fetched, todo, base, quote, repeats>>
vars   == <<tables, ingest, calls>>

NoRow == [id |-> 0, name |-> None, emoji |-> None, category |-> None,
          placeholder |-> FALSE]

Exists(p) == currencies[p].id # 0

FirstPage == [items |-> <<>>, category |-> 1, page |-> 1]

Init == /\ currencies = [p \in Paths |-> NoRow]
        /\ pairs = [ids \in {} |-> 0]
        /\ nextId = 1
        /\ held = {}
        /\ own = [p \in Paths |-> 0]
        /\ pc = [c \in Calls |-> "idle"]
        /\ fetched = [c \in Calls |-> FirstPage]
        /\ todo = [c \in Calls |-> <<>>]
        /\ base = [c \in Calls |-> 0]
        /\ quote = [c \in Calls |-> 0]
        /\ repeats = [c \in Calls |-> 0]

-----------------------------------------------------------------------------
(* The ingest's transaction: it locks a path, inserting a placeholder if   *)
(* the path is new to it, and ends by publishing or dropping them.         *)
Discover(p) ==
    /\ nextId <= MaxId
    /\ p \notin held
    /\ held' = held \union {p}
    /\ IF Exists(p) THEN UNCHANGED <<own, nextId>>
       ELSE /\ own' = [own EXCEPT ![p] = nextId]
            /\ nextId' = nextId + 1
    /\ UNCHANGED <<currencies, pairs, calls>>

EndTx == /\ held' = {}
         /\ own' = [p \in Paths |-> 0]
         /\ UNCHANGED <<pairs, nextId, calls>>

Placeholder(id) == [id |-> id, name |-> "path", emoji |-> None,
                    category |-> None, placeholder |-> TRUE]

(* Mutant: the upsert sets is_placeholder on a row that was there.         *)
CommitOverwriting ==
    /\ held # {}
    /\ currencies' = [p \in Paths |->
           IF own[p] # 0 THEN Placeholder(own[p])
           ELSE [currencies[p] EXCEPT !.placeholder = @ \/ p \in held]]
    /\ EndTx

Commit == /\ held # {}
          /\ currencies' = [p \in Paths |->
                 IF own[p] # 0 THEN Placeholder(own[p]) ELSE currencies[p]]
          /\ EndTx

Rollback == /\ held # {}
            /\ EndTx
            /\ UNCHANGED currencies

-----------------------------------------------------------------------------
(* INSERT ... ON DUPLICATE KEY UPDATE of one row, in its own transaction:  *)
(* it waits for the row's lock, keeps the id of a row that exists, and     *)
(* makes the row a described one.                                          *)
Upsert(p, name, emoji, category) ==
    /\ p \notin held
    /\ currencies' = [currencies EXCEPT ![p] =
           [id |-> IF Exists(p) THEN currencies[p].id ELSE nextId,
            name |-> name, emoji |-> emoji, category |-> category,
            placeholder |-> FALSE]]
    /\ nextId' = nextId + (IF Exists(p) THEN 0 ELSE 1)
    /\ UNCHANGED <<pairs, ingest>>

Return(c, how) == pc' = [pc EXCEPT ![c] = how]

(* poe2scout or the database fails, or the caller goes away.               *)
Fail(c) == /\ pc[c] \in {"idle", "fetch", "run"}
           /\ Return(c, "failed")
           /\ UNCHANGED <<tables, ingest, fetched, todo, base, quote, repeats>>

(* The category of the row stays.                                          *)
UpsertCurrencyCurated(r) == Upsert(r.path, r.name, r.emoji, currencies[r.path].category)

Curate(c) ==
    /\ Op(c) = "curate" /\ pc[c] = "idle"
    /\ UpsertCurrencyCurated(Requests[c])
    /\ Return(c, "ok")
    /\ UNCHANGED <<fetched, todo, base, quote, repeats>>

-----------------------------------------------------------------------------
(* AllCurrencyItems of poe2scout: the categories first, then every page of *)
(* each, until a page says that it is the last.  A page that is refused is *)
(* asked for again; poe2scout changes nothing meanwhile.                   *)
SyncStart(c) ==
    /\ Op(c) = "sync" /\ pc[c] = "idle"
    /\ fetched' = [fetched EXCEPT ![c] = FirstPage]
    /\ Return(c, "fetch")
    /\ UNCHANGED <<tables, ingest, todo, base, quote, repeats>>

MorePages(c) == fetched[c].category <= Len(Requests[c].categories)

(* Mutant: a category ends with its first page.                            *)
SyncFirstPage(c) ==
    /\ Op(c) = "sync" /\ pc[c] = "fetch" /\ MorePages(c)
    /\ LET at    == fetched[c]
           pages == Requests[c].categories[at.category]
           items == IF pages = <<>> THEN <<>> ELSE pages[1]
       IN  fetched' = [fetched EXCEPT ![c] =
               [items |-> at.items \o items, category |-> at.category + 1, page |-> 1]]
    /\ UNCHANGED <<tables, ingest, pc, todo, base, quote, repeats>>

SyncPage(c) ==
    /\ Op(c) = "sync" /\ pc[c] = "fetch" /\ MorePages(c)
    /\ LET at    == fetched[c]
           pages == Requests[c].categories[at.category]
           items == IF at.page <= Len(pages) THEN pages[at.page] ELSE <<>>
       IN  fetched' = [fetched EXCEPT ![c] =
               IF at.page >= Len(pages)
               THEN [items |-> at.items \o items, category |-> at.category + 1, page |-> 1]
               ELSE [at EXCEPT !.items = @ \o items, !.page = @ + 1]]
    /\ UNCHANGED <<tables, ingest, pc, todo, base, quote, repeats>>

PathsOf(items) == {items[i].path : i \in DOMAIN items} \ {NoPath}

(* The first item of a path counts.                                        *)
ItemOf(items, p) ==
    LET first == CHOOSE i \in DOMAIN items :
                     items[i].path = p /\ \A j \in 1 .. i - 1 : items[j].path # p
    IN  items[first]

(* The sequences of a set in ascending order: there is one.                *)
Ascending(set) == {rows \in SetToSeqs(set) :
                      \A i, j \in DOMAIN rows : i < j => rows[i] < rows[j]}

(* The rows to upsert, in the order of their paths.                        *)
SyncRows(c) ==
    /\ Op(c) = "sync" /\ pc[c] = "fetch" /\ ~MorePages(c)
    /\ \E rows \in Ascending(PathsOf(fetched[c].items)) :
           todo' = [todo EXCEPT ![c] = rows]
    /\ Return(c, "run")
    /\ UNCHANGED <<tables, ingest, fetched, base, quote, repeats>>

(* The emoji of the row stays: poe2scout knows none.                       *)
UpsertCurrencySynced(item) ==
    Upsert(item.path, item.name, currencies[item.path].emoji, item.category)

(* Mutants: the sync writes the emoji it does not know; a path that some   *)
(* transaction has locked is skipped.                                      *)
SyncUpsertWithEmoji(c) ==
    /\ Op(c) = "sync" /\ pc[c] = "run" /\ todo[c] # <<>>
    /\ LET item == ItemOf(fetched[c].items, Head(todo[c]))
       IN  Upsert(item.path, item.name, None, item.category)
    /\ todo' = [todo EXCEPT ![c] = Tail(@)]
    /\ UNCHANGED <<pc, fetched, base, quote, repeats>>

SyncUpsertSkipping(c) ==
    /\ Op(c) = "sync" /\ pc[c] = "run" /\ todo[c] # <<>>
    /\ LET item == ItemOf(fetched[c].items, Head(todo[c]))
       IN  IF item.path \in held THEN UNCHANGED <<tables, ingest>>
           ELSE UpsertCurrencySynced(item)
    /\ todo' = [todo EXCEPT ![c] = Tail(@)]
    /\ UNCHANGED <<pc, fetched, base, quote, repeats>>

SyncUpsert(c) ==
    /\ Op(c) = "sync" /\ pc[c] = "run" /\ todo[c] # <<>>
    /\ UpsertCurrencySynced(ItemOf(fetched[c].items, Head(todo[c])))
    /\ todo' = [todo EXCEPT ![c] = Tail(@)]
    /\ UNCHANGED <<pc, fetched, base, quote, repeats>>

LoopDone(c) ==
    /\ Op(c) # "curate" /\ pc[c] = "run" /\ todo[c] = <<>>
    /\ Return(c, "ok")
    /\ UNCHANGED <<tables, ingest, fetched, todo, base, quote, repeats>>

-----------------------------------------------------------------------------
(* Mutant: a row the ingest has not committed is read.                     *)
FindUncommitted(p) == IF own[p] # 0 THEN own[p] ELSE currencies[p].id

(* What is committed of a path.                                            *)
GetCurrencyByPath(p) == currencies[p]

(* currencyByPath: the id of the row, 0 for FailedPrecondition.            *)
Find(p) == GetCurrencyByPath(p).id

BootstrapBase(c) ==
    /\ Op(c) = "bootstrap" /\ pc[c] = "idle"
    /\ IF Find(Requests[c].base) = 0
       THEN Return(c, "failed") /\ UNCHANGED <<todo, base>>
       ELSE /\ base' = [base EXCEPT ![c] = Find(Requests[c].base)]
            /\ todo' = [todo EXCEPT ![c] = Requests[c].quotes]
            /\ Return(c, "run")
    /\ UNCHANGED <<tables, ingest, fetched, quote, repeats>>

(* Mutant: a quote that is not there is skipped.                           *)
BootstrapQuoteSkipping(c) ==
    /\ Op(c) = "bootstrap" /\ pc[c] = "run" /\ todo[c] # <<>> /\ quote[c] = 0
    /\ IF Find(Head(todo[c])) = 0
       THEN todo' = [todo EXCEPT ![c] = Tail(@)] /\ UNCHANGED quote
       ELSE quote' = [quote EXCEPT ![c] = Find(Head(todo[c]))] /\ UNCHANGED todo
    /\ UNCHANGED <<tables, ingest, pc, fetched, base, repeats>>

(* currencyByPath of the next quote.                                       *)
BootstrapQuote(c) ==
    /\ Op(c) = "bootstrap" /\ pc[c] = "run" /\ todo[c] # <<>> /\ quote[c] = 0
    /\ IF Find(Head(todo[c])) = 0
       THEN Return(c, "failed") /\ UNCHANGED quote
       ELSE quote' = [quote EXCEPT ![c] = Find(Head(todo[c]))] /\ UNCHANGED pc
    /\ UNCHANGED <<tables, ingest, fetched, todo, base, repeats>>

UpsertDefaultRatePair(baseId, quoteId, order) ==
    pairs' = [ids \in DOMAIN pairs \union {<<baseId, quoteId>>} |->
                  IF ids = <<baseId, quoteId>> THEN order ELSE pairs[ids]]

(* The quote's position is its sort_order.                                 *)
BootstrapPair(c) ==
    /\ Op(c) = "bootstrap" /\ pc[c] = "run" /\ todo[c] # <<>> /\ quote[c] # 0
    /\ UpsertDefaultRatePair(base[c], quote[c], Len(Requests[c].quotes) - Len(todo[c]))
    /\ quote' = [quote EXCEPT ![c] = 0]
    /\ todo' = [todo EXCEPT ![c] = Tail(@)]
    /\ UNCHANGED <<currencies, nextId, ingest, pc, fetched, base, repeats>>

(* The retryPolicy of grpcclient: another attempt after UNAVAILABLE.       *)
Repeat(c) ==
    /\ Op(c) # "sync"
    /\ pc[c] \in {"ok", "failed"}
    /\ repeats[c] < MaxRepeats
    /\ Return(c, "idle")
    /\ quote' = [quote EXCEPT ![c] = 0]
    /\ repeats' = [repeats EXCEPT ![c] = @ + 1]
    /\ UNCHANGED <<tables, ingest, fetched, todo, base>>

-----------------------------------------------------------------------------
Serve(c) == \/ Fail(c) \/ Curate(c) \/ LoopDone(c)
            \/ SyncStart(c) \/ SyncPage(c) \/ SyncRows(c) \/ SyncUpsert(c)
            \/ BootstrapBase(c) \/ BootstrapQuote(c) \/ BootstrapPair(c)

Ingest == (\E p \in Paths : Discover(p)) \/ Commit \/ Rollback

Next == Ingest \/ \E c \in Calls : Serve(c) \/ Repeat(c)

Spec == Init /\ [][Next]_vars

-----------------------------------------------------------------------------
Ids(c) == {base[c], quote[c]} \ {0}

RowIds == {currencies[p].id : p \in Paths} \ {0}

TypeOK == /\ DOMAIN currencies = Paths
          /\ \A p \in Paths : currencies[p].id \in Nat
          /\ nextId \in Nat \ {0}
          /\ held \subseteq Paths /\ own \in [Paths -> Nat]
          /\ pc \in [Calls -> {"idle", "fetch", "run", "ok", "failed"}]
          /\ base \in [Calls -> Nat] /\ quote \in [Calls -> Nat]
          /\ repeats \in [Calls -> 0 .. MaxRepeats]

(* CountOrphanRatePairCurrencies counts these.                             *)
OrphanPairs == {ids \in DOMAIN pairs : ~({ids[1], ids[2]} \subseteq RowIds)}

(* A default rate pair always has both its currencies, though no foreign   *)
(* key asks for it: the gauge of the service stays 0, and GetRates never   *)
(* meets a row that refers to nothing.                                     *)
PairsResolve == OrphanPairs = {}

(* What was curated or synced does not become a placeholder again, and a   *)
(* row keeps its id.                                                       *)
DescribedForGood ==
    [][\A p \in Paths : Exists(p) =>
        /\ currencies'[p].id = currencies[p].id
        /\ currencies'[p].placeholder => currencies[p].placeholder]_vars

ListPlaceholderCurrencies == {p \in Paths : Exists(p) /\ currencies[p].placeholder}

(* A sync that returned without an error has described every currency      *)
(* that poe2scout has a path for, on whatever page, whatever the ingest    *)
(* discovered meanwhile: none of them is left among the placeholders.      *)
SyncComplete ==
    \A c \in Calls : Op(c) = "sync" /\ pc[c] = "ok" =>
        \A pages \in Range(Requests[c].categories) : \A items \in Range(pages) :
            \A p \in PathsOf(items) : Exists(p) /\ p \notin ListPlaceholderCurrencies

(* No other curation writes the path of c.                                 *)
OnlyCuration(c) == \A d \in Calls \ {c} :
                       Op(d) = "curate" => Requests[d].path # Requests[c].path

(* A curated emoji stays, whatever syncs and ingests come after it.        *)
EmojiKept ==
    \A c \in Calls : Op(c) = "curate" /\ pc[c] = "ok" /\ OnlyCuration(c) =>
        currencies[Requests[c].path].emoji = Requests[c].emoji

(* ORDER BY sort_order: the answers the query can have, more than one only *)
(* if the order has ties.                                                  *)
ListDefaultRatePairs ==
    {list \in SetToSeqs(DOMAIN pairs) :
        \A i, j \in DOMAIN list : i < j => pairs[list[i]] <= pairs[list[j]]}

(* After a bootstrap that returned without an error the pairs are those it *)
(* was asked for, in its order, repeated and interrupted as it may have    *)
(* been; it names no quote twice, and no other bootstrap is asked for.     *)
BootstrapComplete ==
    \A c \in Calls : /\ Op(c) = "bootstrap" /\ pc[c] = "ok"
                     /\ IsInjective(Requests[c].quotes)
                     /\ \A d \in Calls \ {c} : Op(d) # "bootstrap"
        => LET r == Requests[c]
           IN  ListDefaultRatePairs = {[i \in DOMAIN r.quotes |->
                   <<currencies[r.base].id, currencies[r.quotes[i]].id>>]}
=============================================================================
