-------------------------- MODULE Catalogue_proofs --------------------------
(***************************************************************************)
(* Theorems of module Catalogue, for any calls and any paths.              *)
(***************************************************************************)
EXTENDS Catalogue, FiniteSetTheorems, SequenceTheorems, TLAPS

Shape == /\ DOMAIN currencies = Paths
         /\ \A p \in Paths : currencies[p].id \in Nat
         /\ nextId \in Nat \ {0}
         /\ own \in [Paths -> Nat]
         /\ DOMAIN base = Calls /\ DOMAIN quote = Calls

(* The ingest's own rows are new and locked, so nobody else inserts them.  *)
OwnIsNew == \A p \in Paths : own[p] # 0 => p \in held /\ ~Exists(p)

(* What one step leaves of every row: its id and, once described, that it  *)
(* is no placeholder.                                                      *)
RowsStay == \A p \in Paths : Exists(p) =>
                /\ currencies'[p].id = currencies[p].id
                /\ currencies'[p].placeholder => currencies[p].placeholder

(* An upsert gives no row another id and makes none a placeholder.         *)
LEMMA UpsertKeeps ==
    ASSUME Shape, OwnIsNew, NEW p, NEW n, NEW e, NEW g, Upsert(p, n, e, g)
    PROVE  /\ DOMAIN currencies' = Paths
           /\ \A q \in Paths : currencies'[q].id \in Nat
           /\ nextId' \in Nat \ {0}
           /\ UNCHANGED <<pairs, held, own>>
           /\ RowsStay /\ OwnIsNew'
<1> USE DEF Shape
<1>1. UNCHANGED <<pairs, held, own>> /\ DOMAIN currencies' = Paths
  BY DEF Upsert, ingest
<1>2. nextId' \in Nat \ {0}
  BY DEF Upsert
<1>3. \A q \in Paths : q # p => currencies'[q] = currencies[q]
  BY DEF Upsert
<1>4. p \in Paths => /\ currencies'[p].id = IF Exists(p) THEN currencies[p].id ELSE nextId
                     /\ currencies'[p].placeholder = FALSE
  BY DEF Upsert
<1>5. \A q \in Paths : currencies'[q].id \in Nat
  BY <1>3, <1>4
<1>6. RowsStay
  BY <1>3, <1>4 DEF RowsStay
<1>7. OwnIsNew'
  <2> SUFFICES ASSUME NEW q \in Paths, own'[q] # 0
               PROVE  q \in held' /\ ~(currencies'[q].id # 0)
    BY DEF OwnIsNew, Exists
  <2>1. q \in held /\ currencies[q].id = 0
    BY <1>1 DEF OwnIsNew, Exists
  <2>2. q # p
    BY <2>1 DEF Upsert
  <2> QED
    BY <1>1, <1>3, <2>1, <2>2
<1> QED
  BY <1>1, <1>2, <1>5, <1>6, <1>7

(* No step gives a committed row another id or makes it a placeholder      *)
(* again.                                                                  *)
LEMMA RowsStep ==
    ASSUME Shape, OwnIsNew, [Next]_vars
    PROVE  Shape' /\ OwnIsNew' /\ RowsStay
<1> USE DEF tables, ingest, calls
<1>1. ASSUME UNCHANGED <<currencies, nextId, held, own>>,
             DOMAIN base' = Calls, DOMAIN quote' = Calls
      PROVE  Shape' /\ OwnIsNew' /\ RowsStay
  BY <1>1 DEF Shape, OwnIsNew, RowsStay, Exists
<1>2. ASSUME NEW p \in Paths, Discover(p) PROVE Shape' /\ OwnIsNew' /\ RowsStay
  <2>1. UNCHANGED <<currencies, base, quote>> /\ held' = held \union {p}
    BY <1>2 DEF Discover
  <2>2. own' \in [Paths -> Nat] /\ nextId' \in Nat \ {0}
    BY <1>2 DEF Discover, Shape
  <2>3. \A q \in Paths : own'[q] = own[q] \/ (q = p /\ ~Exists(p))
    BY <1>2 DEF Discover, Shape
  <2>4. Shape' /\ RowsStay
    BY <2>1, <2>2 DEF Shape, RowsStay
  <2>5. OwnIsNew'
    <3> SUFFICES ASSUME NEW q \in Paths, own'[q] # 0
                 PROVE  q \in held' /\ ~(currencies'[q].id # 0)
      BY DEF OwnIsNew, Exists
    <3>1. CASE own'[q] = own[q]
      BY <2>1, <3>1 DEF OwnIsNew, Exists
    <3>2. CASE q = p /\ ~Exists(p)
      BY <2>1, <3>2 DEF Exists
    <3> QED
      BY <2>3, <3>1, <3>2
  <2> QED
    BY <2>4, <2>5
<1>3. ASSUME EndTx PROVE /\ own' \in [Paths -> Nat] /\ OwnIsNew'
                         /\ UNCHANGED <<nextId, base, quote>>
  BY <1>3 DEF EndTx, OwnIsNew
<1>4. CASE Commit
  <2>1. EndTx /\ currencies' = [p \in Paths |->
                     IF own[p] # 0 THEN Placeholder(own[p]) ELSE currencies[p]]
    BY <1>4 DEF Commit
  <2>2. \A p \in Paths : currencies'[p].id \in Nat
    BY <2>1 DEF Shape, Placeholder
  <2>3. Shape'
    BY <1>3, <2>1, <2>2 DEF Shape
  <2>4. ASSUME NEW p \in Paths, Exists(p) PROVE currencies'[p] = currencies[p]
    <3>1. own[p] = 0
      BY <2>4 DEF OwnIsNew
    <3> QED
      BY <2>1, <3>1
  <2>5. RowsStay
    BY <2>4 DEF RowsStay
  <2> QED
    BY <1>3, <2>1, <2>3, <2>5
<1>5. CASE Rollback
  BY <1>3, <1>5 DEF Rollback, Shape, RowsStay
<1>6. ASSUME NEW c \in Calls, Fail(c) \/ SyncStart(c) \/ SyncPage(c) \/ SyncRows(c)
                              \/ LoopDone(c)
                              \/ BootstrapBase(c) \/ BootstrapQuote(c)
                              \/ BootstrapPair(c) \/ Repeat(c)
      PROVE  Shape' /\ OwnIsNew' /\ RowsStay
  <2>1. UNCHANGED <<currencies, nextId, held, own>>
    BY <1>6 DEF Fail, SyncStart, SyncPage, SyncRows, LoopDone, BootstrapBase, BootstrapQuote,
                BootstrapPair, Repeat
  <2>2. DOMAIN base' = Calls /\ DOMAIN quote' = Calls
    BY <1>6 DEF Fail, SyncStart, SyncPage, SyncRows, LoopDone, BootstrapBase, BootstrapQuote,
                BootstrapPair, Repeat, Shape
  <2> QED
    BY <1>1, <2>1, <2>2
<1>7. ASSUME NEW c \in Calls, Curate(c) \/ SyncUpsert(c)
      PROVE  Shape' /\ OwnIsNew' /\ RowsStay
  <2>1. PICK p, n, e, g : Upsert(p, n, e, g)
    BY <1>7 DEF Curate, SyncUpsert, UpsertCurrencyCurated, UpsertCurrencySynced
  <2>2. UNCHANGED <<base, quote>>
    BY <1>7 DEF Curate, SyncUpsert
  <2> QED
    BY <2>1, <2>2, UpsertKeeps DEF Shape
<1>8. CASE UNCHANGED vars
  BY <1>1, <1>8 DEF vars, Shape
<1> QED
  BY <1>2, <1>4, <1>5, <1>6, <1>7, <1>8 DEF Next, Ingest, Serve

-----------------------------------------------------------------------------
(* Every id a call has read is that of a committed row, and a bootstrap    *)
(* that runs has read its base and has paths left to pair it with.         *)
Read == /\ DOMAIN pc = Calls /\ DOMAIN todo = Calls
        /\ \A c \in Calls : Ids(c) \subseteq RowIds
        /\ \A c \in Calls : Op(c) = "bootstrap" /\ pc[c] = "run" =>
               base[c] # 0 /\ todo[c] \in Seq(Paths)

(* No step leaves a pair, or an id a call has read, without its currency.  *)
LEMMA PairsStep ==
    ASSUME Shape, OwnIsNew, Read, PairsResolve, [Next]_vars
    PROVE  Read' /\ PairsResolve'
<1> USE DEF tables, ingest, calls
<1>1. Shape' /\ RowsStay
  BY RowsStep
<1>2. RowIds \subseteq RowIds'
  BY <1>1 DEF RowIds, RowsStay, Exists
<1>3. UNCHANGED pairs => PairsResolve'
  BY <1>2 DEF PairsResolve, OrphanPairs
<1>4. UNCHANGED <<base, quote>> => \A c \in Calls : Ids(c)' \subseteq RowIds'
  BY <1>2 DEF Read, Ids
<1>5. ASSUME UNCHANGED <<pc, todo, base, quote, pairs>>
      PROVE  Read' /\ PairsResolve'
  BY <1>3, <1>4, <1>5 DEF Read
<1>6. ASSUME NEW c \in Calls, NEW how, how # "run", Return(c, how),
             UNCHANGED <<todo, base, pairs>>
      PROVE  /\ DOMAIN pc' = Calls /\ DOMAIN todo' = Calls
             /\ \A d \in Calls : Op(d) = "bootstrap" /\ pc'[d] = "run" =>
                    base'[d] # 0 /\ todo'[d] \in Seq(Paths)
  BY <1>6 DEF Return, Read
<1>7. ASSUME NEW p \in Paths, Find(p) # 0 PROVE Find(p) \in RowIds'
  BY <1>2, <1>7 DEF Find, GetCurrencyByPath, RowIds
<1>8. CASE Ingest \/ UNCHANGED vars
  BY <1>5, <1>8 DEF Ingest, Discover, Commit, Rollback, EndTx, vars
<1>9. ASSUME NEW c \in Calls, Fail(c) PROVE Read' /\ PairsResolve'
  BY <1>3, <1>4, <1>6, <1>9 DEF Fail, Read
<1>10. ASSUME NEW c \in Calls, Curate(c) PROVE Read' /\ PairsResolve'
  BY <1>3, <1>4, <1>6, <1>10 DEF Curate, UpsertCurrencyCurated, Upsert, Read
<1>11. ASSUME NEW c \in Calls, LoopDone(c) PROVE Read' /\ PairsResolve'
  BY <1>3, <1>4, <1>6, <1>11 DEF LoopDone, Read
<1>12. ASSUME NEW c \in Calls, Repeat(c) PROVE Read' /\ PairsResolve'
  <2>1. \A d \in Calls : Ids(d)' \subseteq Ids(d)
    BY <1>12 DEF Repeat, Ids, Shape
  <2>2. \A d \in Calls : Ids(d)' \subseteq RowIds'
    BY <1>2, <2>1 DEF Read
  <2> QED
    BY <1>3, <1>6, <1>12, <2>2 DEF Repeat, Read
<1>13. ASSUME NEW c \in Calls, SyncStart(c) \/ SyncPage(c) \/ SyncRows(c) \/ SyncUpsert(c)
       PROVE  Read' /\ PairsResolve'
  <2>1. /\ Op(c) = "sync" /\ UNCHANGED <<base, quote, pairs>>
        /\ \A d \in Calls : d # c => pc'[d] = pc[d] /\ todo'[d] = todo[d]
        /\ DOMAIN pc' = Calls /\ DOMAIN todo' = Calls
    BY <1>13
       DEF SyncStart, SyncPage, SyncRows, SyncUpsert, UpsertCurrencySynced, Upsert,
           Return, Read
  <2> QED
    BY <1>3, <1>4, <2>1 DEF Read
<1>14. ASSUME NEW c \in Calls, BootstrapBase(c) PROVE Read' /\ PairsResolve'
  <2>1. /\ Op(c) = "bootstrap" /\ Requests[c].base \in Paths
        /\ Requests[c].quotes \in Seq(Paths)
    BY <1>14, CatalogueAssumption DEF BootstrapBase
  <2>2. CASE Find(Requests[c].base) = 0
    BY <1>3, <1>4, <1>6, <1>14, <2>2 DEF BootstrapBase, Read
  <2>3. CASE Find(Requests[c].base) # 0
    <3> DEFINE id == Find(Requests[c].base)
    <3>1. /\ base' = [base EXCEPT ![c] = id]
          /\ todo' = [todo EXCEPT ![c] = Requests[c].quotes]
          /\ pc' = [pc EXCEPT ![c] = "run"]
          /\ UNCHANGED <<quote, pairs>>
      BY <1>14, <2>3 DEF BootstrapBase, Return
    <3>2. id \in RowIds' /\ id # 0
      BY <1>7, <2>1, <2>3
    <3> HIDE DEF id
    <3>3. \A d \in Calls : Ids(d)' \subseteq RowIds'
      BY <1>2, <3>1, <3>2 DEF Ids, Read, Shape
    <3>4. \A d \in Calls : Op(d) = "bootstrap" /\ pc'[d] = "run" =>
              base'[d] # 0 /\ todo'[d] \in Seq(Paths)
      BY <2>1, <3>1, <3>2 DEF Read, Shape
    <3> QED
      BY <1>3, <3>1, <3>3, <3>4 DEF Read
  <2> QED
    BY <2>2, <2>3
<1>15. ASSUME NEW c \in Calls, BootstrapQuote(c) PROVE Read' /\ PairsResolve'
  <2>1. Head(todo[c]) \in Paths
    BY <1>15 DEF BootstrapQuote, Read
  <2>2. CASE Find(Head(todo[c])) = 0
    BY <1>3, <1>4, <1>6, <1>15, <2>2 DEF BootstrapQuote, Read
  <2>3. CASE Find(Head(todo[c])) # 0
    <3> DEFINE id == Find(Head(todo[c]))
    <3>1. /\ quote' = [quote EXCEPT ![c] = id]
          /\ UNCHANGED <<pc, todo, base, pairs>>
      BY <1>15, <2>3 DEF BootstrapQuote
    <3>2. id \in RowIds'
      BY <1>7, <2>1, <2>3
    <3> HIDE DEF id
    <3>3. \A d \in Calls : Ids(d)' \subseteq RowIds'
      BY <1>2, <3>1, <3>2 DEF Ids, Read, Shape
    <3> QED
      BY <1>3, <3>1, <3>3 DEF Read
  <2> QED
    BY <2>2, <2>3
<1>16. ASSUME NEW c \in Calls, BootstrapPair(c) PROVE Read' /\ PairsResolve'
  <2>1. base[c] \in RowIds /\ quote[c] \in RowIds
    <3>1. base[c] # 0 /\ quote[c] # 0
      BY <1>16 DEF BootstrapPair, Read
    <3>2. base[c] \in Ids(c) /\ quote[c] \in Ids(c)
      BY <3>1 DEF Ids
    <3> QED
      BY <3>2 DEF Read
  <2>2. DOMAIN pairs' = DOMAIN pairs \union {<<base[c], quote[c]>>}
    BY <1>16 DEF BootstrapPair, UpsertDefaultRatePair
  <2>3. PairsResolve'
    BY <1>2, <2>1, <2>2 DEF PairsResolve, OrphanPairs
  <2>4. /\ quote' = [quote EXCEPT ![c] = 0] /\ todo' = [todo EXCEPT ![c] = Tail(@)]
        /\ UNCHANGED <<pc, base>> /\ Op(c) = "bootstrap" /\ pc[c] = "run"
    BY <1>16 DEF BootstrapPair
  <2>5. \A d \in Calls : Ids(d)' \subseteq Ids(d)
    BY <2>4 DEF Ids, Shape
  <2>6. Tail(todo[c]) \in Seq(Paths)
    BY <1>16 DEF BootstrapPair, Read
  <2>7. \A d \in Calls : Ids(d)' \subseteq RowIds'
    BY <1>2, <2>5 DEF Read
  <2>8. DOMAIN pc' = Calls /\ DOMAIN todo' = Calls
    BY <2>4 DEF Read
  <2>9. \A d \in Calls : Op(d) = "bootstrap" /\ pc'[d] = "run" =>
            base'[d] # 0 /\ todo'[d] \in Seq(Paths)
    BY <2>4, <2>6 DEF Read
  <2> QED
    BY <2>3, <2>7, <2>8, <2>9 DEF Read
<1> QED
  BY <1>8, <1>9, <1>10, <1>11, <1>12, <1>13, <1>14, <1>15, <1>16 DEF Next, Serve

-----------------------------------------------------------------------------
(* The empty tables satisfy the invariant.                                 *)
LEMMA InitHolds == Init => Shape /\ OwnIsNew /\ Read /\ PairsResolve
<1> SUFFICES ASSUME Init PROVE Shape /\ OwnIsNew /\ Read /\ PairsResolve
  OBVIOUS
<1>1. Shape /\ OwnIsNew
  BY DEF Init, Shape, OwnIsNew, NoRow
<1>2. Read /\ PairsResolve
  BY DEF Init, Read, PairsResolve, OrphanPairs, Ids
<1> QED
  BY <1>1, <1>2

(* PairsResolve: however calls, repeats and ingests interleave, no default *)
(* rate pair refers to a currency that is not there.                       *)
THEOREM PairsAlwaysResolve == Spec => []PairsResolve
<1>1. Shape /\ OwnIsNew /\ Read /\ PairsResolve /\ [Next]_vars
      => (Shape /\ OwnIsNew /\ Read /\ PairsResolve)'
  BY RowsStep, PairsStep
<1> QED
  BY <1>1, InitHolds, PTL DEF Spec

(* DescribedForGood: a row keeps its id, and what was described once is    *)
(* not a placeholder again.                                                *)
THEOREM RowsAreForGood == Spec => DescribedForGood
<1>1. Shape /\ OwnIsNew /\ [Next]_vars => (Shape /\ OwnIsNew)'
  BY RowsStep
<1>2. Shape /\ OwnIsNew /\ [Next]_vars =>
          [\A p \in Paths : Exists(p) =>
              /\ currencies'[p].id = currencies[p].id
              /\ currencies'[p].placeholder => currencies[p].placeholder]_vars
  BY RowsStep DEF RowsStay
<1> QED
  BY <1>1, <1>2, InitHolds, PTL DEF Spec, DescribedForGood

-----------------------------------------------------------------------------
(* A curation that is done has its row.                                    *)
Curated == \A c \in Calls : Op(c) = "curate" /\ pc[c] = "ok" /\ OnlyCuration(c) =>
               /\ Exists(Requests[c].path)
               /\ currencies[Requests[c].path].emoji = Requests[c].emoji

(* A curation that was done before the step keeps its emoji if the step    *)
(* leaves the emoji of every row that is there.                            *)
LEMMA CuratedKept ==
    ASSUME Shape, Curated, RowsStay,
           \A p \in Paths : Exists(p) => currencies'[p].emoji = currencies[p].emoji,
           \A c \in Calls : Op(c) = "curate" /\ pc'[c] = "ok" => pc[c] = "ok"
    PROVE  Curated'
<1> SUFFICES ASSUME NEW c \in Calls, Op(c) = "curate", pc'[c] = "ok", OnlyCuration(c)
             PROVE  /\ currencies'[Requests[c].path].id # 0
                    /\ currencies'[Requests[c].path].emoji = Requests[c].emoji
  BY DEF Curated, Exists, Op, OnlyCuration
<1>1. Requests[c].path \in Paths
  BY CatalogueAssumption
<1>2. Exists(Requests[c].path) /\ currencies[Requests[c].path].emoji = Requests[c].emoji
  BY DEF Curated
<1> QED
  BY <1>1, <1>2 DEF RowsStay, Exists

(* Only a curation writes the emoji of a row that is there.                *)
LEMMA CuratedStep ==
    ASSUME Shape, OwnIsNew, DOMAIN pc = Calls, Curated, [Next]_vars
    PROVE  Curated'
<1> USE DEF tables, ingest, calls
<1>1. RowsStay
  BY RowsStep
<1>2. ASSUME UNCHANGED currencies,
             \A c \in Calls : Op(c) = "curate" /\ pc'[c] = "ok" => pc[c] = "ok"
      PROVE  Curated'
  BY <1>1, <1>2, CuratedKept
<1>3. CASE (\E p \in Paths : Discover(p)) \/ Rollback \/ UNCHANGED vars
  BY <1>2, <1>3 DEF Discover, Rollback, EndTx, vars
<1>4. CASE Commit
  <2>1. ASSUME NEW p \in Paths, Exists(p) PROVE currencies'[p] = currencies[p]
    <3>1. own[p] = 0
      BY <2>1 DEF OwnIsNew
    <3> QED
      BY <1>4, <3>1 DEF Commit
  <2>2. pc' = pc
    BY <1>4 DEF Commit, EndTx
  <2> QED
    BY <1>1, <2>1, <2>2, CuratedKept
<1>5. ASSUME NEW c \in Calls, \/ Fail(c) \/ SyncStart(c) \/ SyncPage(c) \/ SyncRows(c)
                              \/ BootstrapBase(c) \/ BootstrapQuote(c)
                              \/ BootstrapPair(c) \/ Repeat(c)
      PROVE  Curated'
  <2>1. UNCHANGED currencies
    BY <1>5 DEF Fail, SyncStart, SyncPage, SyncRows, BootstrapBase, BootstrapQuote,
                BootstrapPair, Repeat
  <2>2. \A d \in Calls : pc'[d] = "ok" => pc[d] = "ok"
    BY <1>5 DEF Fail, SyncStart, SyncPage, SyncRows, BootstrapBase, BootstrapQuote,
                BootstrapPair, Repeat, Return
  <2> QED
    BY <1>2, <2>1, <2>2
<1>6. ASSUME NEW c \in Calls, LoopDone(c) PROVE Curated'
  <2>1. Op(c) # "curate"
    BY <1>6 DEF LoopDone
  <2>2. UNCHANGED currencies /\ \A d \in Calls : d # c => pc'[d] = pc[d]
    BY <1>6 DEF LoopDone, Return
  <2> QED
    BY <1>2, <2>1, <2>2
<1>7. ASSUME NEW c \in Calls, SyncUpsert(c) PROVE Curated'
  <2>1. PICK item : UpsertCurrencySynced(item)
    BY <1>7 DEF SyncUpsert
  <2>2. \A p \in Paths : currencies'[p].emoji = currencies[p].emoji
    BY <2>1 DEF UpsertCurrencySynced, Upsert, Shape
  <2>3. pc' = pc
    BY <1>7 DEF SyncUpsert
  <2> QED
    BY <1>1, <2>2, <2>3, CuratedKept
<1>8. ASSUME NEW c \in Calls, Curate(c) PROVE Curated'
  <2> DEFINE r == Requests[c]
  <2>1. /\ Op(c) = "curate" /\ r.path \in Paths
        /\ \A d \in Calls : d # c => pc'[d] = pc[d]
    BY <1>8, CatalogueAssumption DEF Curate, Return
  <2>2. /\ currencies'[r.path].emoji = r.emoji
        /\ currencies'[r.path].id = IF Exists(r.path) THEN currencies[r.path].id ELSE nextId
        /\ \A p \in Paths : p # r.path => currencies'[p] = currencies[p]
    BY <1>8, <2>1 DEF Curate, UpsertCurrencyCurated, Upsert, Shape
  <2>3. currencies'[r.path].id # 0
    BY <2>2 DEF Exists, Shape
  <2> SUFFICES ASSUME NEW d \in Calls, Op(d) = "curate", pc'[d] = "ok", OnlyCuration(d)
               PROVE  /\ currencies'[Requests[d].path].id # 0
                      /\ currencies'[Requests[d].path].emoji = Requests[d].emoji
    BY DEF Curated, Exists, Op, OnlyCuration
  <2>4. CASE d = c
    BY <2>2, <2>3, <2>4
  <2>5. CASE d # c
    <3>1. Requests[d].path \in Paths /\ Requests[d].path # r.path
      BY <2>1, <2>5, CatalogueAssumption DEF OnlyCuration
    <3>2. /\ Exists(Requests[d].path)
          /\ currencies[Requests[d].path].emoji = Requests[d].emoji
      BY <2>1, <2>5 DEF Curated
    <3> QED
      BY <2>2, <3>1, <3>2 DEF Exists
  <2> QED
    BY <2>4, <2>5
<1> QED
  BY <1>3, <1>4, <1>5, <1>6, <1>7, <1>8 DEF Next, Ingest, Serve

(* EmojiKept: for any calls, repeats and discoveries, a curated emoji is   *)
(* not lost to a sync.                                                     *)
THEOREM EmojiAlwaysKept == Spec => []EmojiKept
<1>1. Init => Curated
  BY DEF Init, Curated
<1>2. Shape /\ OwnIsNew /\ Read /\ PairsResolve /\ Curated /\ [Next]_vars
      => (Shape /\ OwnIsNew /\ Read /\ PairsResolve /\ Curated)'
  BY RowsStep, PairsStep, CuratedStep DEF Read
<1>3. Curated => EmojiKept
  BY DEF Curated, EmojiKept
<1> QED
  BY <1>1, <1>2, <1>3, InitHolds, PTL DEF Spec

-----------------------------------------------------------------------------
(* The variables that Shape says little of.                                *)
CallTypes == /\ held \subseteq Paths
             /\ pc \in [Calls -> {"idle", "fetch", "run", "ok", "failed"}]
             /\ base \in [Calls -> Nat] /\ quote \in [Calls -> Nat]
             /\ repeats \in [Calls -> 0 .. MaxRepeats]

(* Every step keeps the types of what a call has in hand.                  *)
LEMMA CallTypesStep ==
    ASSUME Shape, Read, CallTypes, [Next]_vars
    PROVE  CallTypes'
<1> USE DEF CallTypes, tables, ingest, calls
<1>1. ASSUME NEW p \in Paths, Find(p) # 0 PROVE Find(p) \in Nat
  BY <1>1 DEF Find, GetCurrencyByPath, Shape
<1>2. CASE Ingest \/ UNCHANGED vars
  BY <1>2 DEF Ingest, Discover, Commit, Rollback, EndTx, vars
<1>3. ASSUME NEW c \in Calls, \/ Fail(c) \/ Curate(c) \/ LoopDone(c) \/ SyncStart(c)
                         \/ SyncPage(c) \/ SyncRows(c) \/ SyncUpsert(c)
      PROVE  CallTypes'
  BY <1>3 DEF Fail, Curate, SyncStart, SyncPage, SyncRows, SyncUpsert, LoopDone,
              UpsertCurrencyCurated, UpsertCurrencySynced, Upsert, Return
<1>4. ASSUME NEW c \in Calls, BootstrapBase(c) PROVE CallTypes'
  <2>1. Requests[c].base \in Paths
    BY <1>4, CatalogueAssumption DEF BootstrapBase
  <2>2. CASE Find(Requests[c].base) = 0
    BY <1>4, <2>2 DEF BootstrapBase, Return
  <2>3. CASE Find(Requests[c].base) # 0
    <3>1. Find(Requests[c].base) \in Nat
      BY <1>1, <2>1, <2>3
    <3> QED
      BY <1>4, <2>3, <3>1 DEF BootstrapBase, Return
  <2> QED
    BY <2>2, <2>3
<1>5. ASSUME NEW c \in Calls, BootstrapPair(c) PROVE CallTypes'
  BY <1>5 DEF BootstrapPair
<1>6. ASSUME NEW c \in Calls, BootstrapQuote(c) PROVE CallTypes'
  <2>1. CASE Find(Head(todo[c])) = 0
    BY <1>6, <2>1 DEF BootstrapQuote, Return
  <2>2. CASE Find(Head(todo[c])) # 0
    <3>1. Head(todo[c]) \in Paths
      BY <1>6 DEF BootstrapQuote, Read
    <3>2. Find(Head(todo[c])) \in Nat
      BY <1>1, <2>2, <3>1
    <3> QED
      BY <1>6, <2>2, <3>2 DEF BootstrapQuote
  <2> QED
    BY <2>1, <2>2
<1>7. ASSUME NEW c \in Calls, Repeat(c) PROVE CallTypes'
  <2>1. repeats[c] \in 0 .. MaxRepeats /\ repeats[c] < MaxRepeats
    BY <1>7 DEF Repeat
  <2>2. repeats[c] + 1 \in 0 .. MaxRepeats
    BY <2>1, CatalogueAssumption
  <2>3. repeats' \in [Calls -> 0 .. MaxRepeats]
    BY <1>7, <2>2 DEF Repeat
  <2> QED
    BY <1>7, <2>3 DEF Repeat, Return
<1> QED
  BY <1>2, <1>3, <1>4, <1>5, <1>6, <1>7 DEF Next, Serve

(* Every variable of Catalogue keeps its type.                             *)
THEOREM TypeCorrect == Spec => []TypeOK
<1>1. Init => CallTypes
  BY CatalogueAssumption DEF Init, CallTypes
<1>2. Shape /\ OwnIsNew /\ Read /\ PairsResolve /\ CallTypes /\ [Next]_vars
      => (Shape /\ OwnIsNew /\ Read /\ PairsResolve /\ CallTypes)'
  BY RowsStep, PairsStep, CallTypesStep
<1>3. Shape /\ CallTypes => TypeOK
  BY DEF Shape, CallTypes, TypeOK
<1> QED
  BY <1>1, <1>2, <1>3, InitHolds, PTL DEF Spec

-----------------------------------------------------------------------------
(* A sequence of all the elements of a finite set leaves none out.         *)
LEMMA SeqOfSet ==
    ASSUME NEW S, IsFiniteSet(S), NEW rows \in SetToSeqs(S)
    PROVE  /\ rows \in Seq(S) /\ Len(rows) = Cardinality(S)
           /\ \A x \in S : \E i \in 1 .. Len(rows) : rows[i] = x
<1> DEFINE n == Cardinality(S)
<1>1. n \in Nat
  BY FS_CardinalityType
<1>2. rows \in [1 .. n -> S] /\ \A i, j \in 1 .. n : i # j => rows[i] # rows[j]
  BY DEF SetToSeqs
<1> HIDE DEF n
<1>3. rows \in Injection(1 .. n, S)
  BY <1>2 DEF Injection, IsInjective
<1>4. IsFiniteSet(1 .. n) /\ Cardinality(1 .. n) = n
  BY <1>1, FS_Interval
<1>5. rows \in Surjection(1 .. n, S)
  BY <1>3, <1>4, FS_Injection DEF n
<1>6. rows \in Seq(S) /\ Len(rows) = n
  BY <1>1, <1>2
<1> QED
  BY <1>5, <1>6 DEF Surjection, n

(* An item as poe2scout returns it.                                        *)
Items == [path : Paths \union {NoPath}, name : STRING, category : STRING]

(* The items of a sync have finitely many paths, none of them missing.     *)
LEMMA PathsFinite ==
    ASSUME NEW items \in Seq(Items)
    PROVE  PathsOf(items) \subseteq Paths /\ IsFiniteSet(PathsOf(items))
<1> DEFINE D    == 1 .. Len(items)
           T    == {items[i].path : i \in D}
           path == [i \in D |-> items[i].path]
<1>1. Len(items) \in Nat /\ DOMAIN items = D
  OBVIOUS
<1>2. IsFiniteSet(D)
  BY <1>1, FS_Interval
<1>3. path \in Surjection(D, T)
  BY DEF Surjection
<1>4. IsFiniteSet(T)
  <2> HIDE DEF D, T, path
  <2> QED
    BY <1>2, <1>3, FS_Surjection
<1>5. PathsOf(items) \subseteq T
  BY <1>1 DEF PathsOf
<1>6. IsFiniteSet(PathsOf(items))
  <2> HIDE DEF T
  <2> QED
    BY <1>4, <1>5, FS_Subset
<1>7. ASSUME NEW i \in D PROVE items[i].path \in Paths \union {NoPath}
  <2>1. items[i] \in Items
    BY <1>1
  <2> QED
    BY <2>1 DEF Items
<1>8. PathsOf(items) \subseteq Paths
  BY <1>1, <1>7 DEF PathsOf
<1> QED
  BY <1>6, <1>8

(* Every path has a first item, and that item has the path.                *)
LEMMA ItemOfPath ==
    ASSUME NEW items \in Seq(Items), NEW p \in PathsOf(items)
    PROVE  ItemOf(items, p) \in Items /\ ItemOf(items, p).path = p
<1> DEFINE T == {i \in DOMAIN items : items[i].path = p}
<1>1. T \subseteq Nat /\ T # {} /\ DOMAIN items = 1 .. Len(items)
  BY DEF PathsOf
<1>2. PICK x \in T : \A y \in T : <<y, x>> \notin OpToRel(<, Nat)
  <2> HIDE DEF T
  <2> QED
    BY <1>1, NatLessThanWellFounded, WFMin
<1>3. x \in DOMAIN items /\ items[x].path = p
  OBVIOUS
<1>4. \A j \in 1 .. x - 1 : items[j].path # p
  <2> SUFFICES ASSUME NEW j \in 1 .. x - 1, items[j].path = p PROVE FALSE
    OBVIOUS
  <2>1. j \in T /\ j \in Nat /\ x \in Nat /\ j < x
    BY <1>1, <1>3
  <2>2. <<j, x>> \in OpToRel(<, Nat)
    BY <2>1 DEF OpToRel
  <2> QED
    BY <1>2, <2>1, <2>2
<1> DEFINE First(i) == items[i].path = p /\ \A j \in 1 .. i - 1 : items[j].path # p
           first    == CHOOSE i \in DOMAIN items : First(i)
<1>5. first \in DOMAIN items /\ First(first)
  <2>1. x \in DOMAIN items /\ First(x)
    BY <1>3, <1>4
  <2> HIDE DEF First
  <2> QED
    BY <2>1
<1>6. ItemOf(items, p) = items[first]
  BY DEF ItemOf
<1> QED
  BY <1>5, <1>6

(* The paths of two runs of items one after the other are those of both.   *)
LEMMA PathsOfConcat ==
    ASSUME NEW s \in Seq(Items), NEW t \in Seq(Items)
    PROVE  PathsOf(s \o t) = PathsOf(s) \union PathsOf(t)
<1>1. /\ s \o t \in Seq(Items) /\ Len(s \o t) = Len(s) + Len(t)
      /\ \A i \in 1 .. Len(s) + Len(t) :
             (s \o t)[i] = IF i <= Len(s) THEN s[i] ELSE t[i - Len(s)]
  BY ConcatProperties
<1>2. Len(s) \in Nat /\ Len(t) \in Nat
  OBVIOUS
<1>3. /\ DOMAIN s = 1 .. Len(s) /\ DOMAIN t = 1 .. Len(t)
      /\ DOMAIN (s \o t) = 1 .. Len(s) + Len(t)
  BY <1>1
<1>4. ASSUME NEW p \in PathsOf(s) PROVE p \in PathsOf(s \o t)
  <2>1. PICK i \in 1 .. Len(s) : s[i].path = p
    BY <1>3, <1>4 DEF PathsOf
  <2>2. i \in 1 .. Len(s) + Len(t) /\ (s \o t)[i].path = p
    BY <1>1, <1>2, <2>1
  <2>3. p # NoPath
    BY <1>4 DEF PathsOf
  <2> QED
    BY <1>3, <2>2, <2>3 DEF PathsOf
<1>5. ASSUME NEW p \in PathsOf(t) PROVE p \in PathsOf(s \o t)
  <2>1. PICK i \in 1 .. Len(t) : t[i].path = p
    BY <1>3, <1>5 DEF PathsOf
  <2>2. i + Len(s) \in 1 .. Len(s) + Len(t) /\ (s \o t)[i + Len(s)].path = p
    BY <1>1, <1>2, <2>1
  <2>3. p # NoPath
    BY <1>5 DEF PathsOf
  <2> QED
    BY <1>3, <2>2, <2>3 DEF PathsOf
<1>6. ASSUME NEW p \in PathsOf(s \o t) PROVE p \in PathsOf(s) \union PathsOf(t)
  <2>1. PICK i \in 1 .. Len(s) + Len(t) : (s \o t)[i].path = p
    BY <1>3, <1>6 DEF PathsOf
  <2>2. p # NoPath
    BY <1>6 DEF PathsOf
  <2>3. CASE i <= Len(s)
    <3>1. i \in 1 .. Len(s) /\ s[i].path = p
      BY <1>1, <1>2, <2>1, <2>3
    <3> QED
      BY <1>3, <2>2, <3>1 DEF PathsOf
  <2>4. CASE ~(i <= Len(s))
    <3>1. i - Len(s) \in 1 .. Len(t) /\ t[i - Len(s)].path = p
      BY <1>1, <1>2, <2>1, <2>4
    <3> QED
      BY <1>3, <2>2, <3>1 DEF PathsOf
  <2> QED
    BY <2>3, <2>4
<1> QED
  BY <1>4, <1>5, <1>6

(* A row that an administrator or a sync has written.                      *)
Described(p) == Exists(p) /\ ~currencies[p].placeholder

(* What a sync has read before a page, what its upserts have left to do,   *)
(* and what it has done in the end.                                        *)
ReadBefore(c, k, l) ==
    \A i \in DOMAIN Requests[c].categories : \A j \in DOMAIN Requests[c].categories[i] :
        i < k \/ (i = k /\ j < l)
        => PathsOf(Requests[c].categories[i][j]) \subseteq PathsOf(fetched[c].items)

AllRead(c) ==
    \A i \in DOMAIN Requests[c].categories : \A j \in DOMAIN Requests[c].categories[i] :
        PathsOf(Requests[c].categories[i][j]) \subseteq PathsOf(fetched[c].items)

RowsLeft(c) ==
    /\ todo[c] \in Seq(PathsOf(fetched[c].items))
    /\ \A p \in PathsOf(fetched[c].items) :
           (\E i \in 1 .. Len(todo[c]) : todo[c][i] = p) \/ Described(p)

Scouted(c) ==
    \A i \in DOMAIN Requests[c].categories : \A j \in DOMAIN Requests[c].categories[i] :
        \A p \in PathsOf(Requests[c].categories[i][j]) : Described(p)

SyncOf(c) ==
    /\ fetched[c] \in [items : Seq(Items), category : Nat \ {0}, page : Nat \ {0}]
    /\ pc[c] = "fetch" => ReadBefore(c, fetched[c].category, fetched[c].page)
    /\ pc[c] = "run" => AllRead(c) /\ RowsLeft(c)
    /\ pc[c] = "ok" => Scouted(c)

SyncKnows == /\ DOMAIN fetched = Calls
             /\ \A c \in Calls : Op(c) = "sync" => SyncOf(c)

LEMMA PagesOf ==
    ASSUME NEW c \in Calls, Op(c) = "sync"
    PROVE  Requests[c].categories \in Seq(Seq(Seq(Items)))
BY CatalogueAssumption DEF Items

(* A sync that does not move keeps what it knows, since rows stay.         *)
LEMMA SyncStays ==
    ASSUME RowsStay, NEW c \in Calls, Op(c) = "sync", SyncOf(c),
           fetched'[c] = fetched[c], todo'[c] = todo[c],
           pc'[c] = pc[c] \/ pc'[c] \in {"idle", "failed"}
    PROVE  SyncOf(c)'
<1>1. \A p \in Paths : Described(p) => Described(p)'
  BY DEF RowsStay, Described, Exists
<1>2. fetched[c].items \in Seq(Items)
  BY DEF SyncOf
<1>3. PathsOf(fetched[c].items) \subseteq Paths
  BY <1>2, PathsFinite
<1>4. ASSUME pc[c] = "ok" PROVE Scouted(c) => Scouted(c)'
  <2> SUFFICES ASSUME Scouted(c), NEW i \in DOMAIN Requests[c].categories,
                      NEW j \in DOMAIN Requests[c].categories[i],
                      NEW p \in PathsOf(Requests[c].categories[i][j])
               PROVE  Described(p)'
    BY DEF Scouted
  <2>1. Requests[c].categories[i][j] \in Seq(Items)
    BY PagesOf
  <2>2. p \in Paths
    BY <2>1, PathsFinite
  <2> QED
    BY <1>1, <2>2 DEF Scouted
<1>5. RowsLeft(c) => RowsLeft(c)'
  BY <1>1, <1>3 DEF RowsLeft
<1>6. AllRead(c) => AllRead(c)'
  BY DEF AllRead
<1>7. pc[c] = "fetch" => ReadBefore(c, fetched[c].category, fetched[c].page)'
  BY DEF SyncOf, ReadBefore
<1> QED
  BY <1>4, <1>5, <1>6, <1>7 DEF SyncOf

(* Reading a page puts its paths among the items, and moves on to the page *)
(* or the category that follows.                                           *)
LEMMA SyncPageReads ==
    ASSUME DOMAIN fetched = Calls, NEW c \in Calls, SyncOf(c), SyncPage(c)
    PROVE  SyncOf(c)'
<1> DEFINE cats == Requests[c].categories
           at   == fetched[c]
           at2  == fetched'[c]
           read == IF at.page <= Len(cats[at.category]) THEN cats[at.category][at.page]
                   ELSE <<>>
<1>1. /\ Op(c) = "sync" /\ pc[c] = "fetch" /\ pc' = pc
      /\ cats \in Seq(Seq(Seq(Items)))
      /\ at \in [items : Seq(Items), category : Nat \ {0}, page : Nat \ {0}]
      /\ at.category \in 1 .. Len(cats)
  <2>1. Op(c) = "sync" /\ pc[c] = "fetch" /\ pc' = pc /\ at.category <= Len(cats)
    BY DEF SyncPage, MorePages
  <2>2. at \in [items : Seq(Items), category : Nat \ {0}, page : Nat \ {0}]
    BY DEF SyncOf
  <2>3. cats \in Seq(Seq(Seq(Items))) /\ Len(cats) \in Nat
    BY <2>1, PagesOf
  <2> HIDE DEF cats, at
  <2> QED
    BY <2>1, <2>2, <2>3
<1>2. cats[at.category] \in Seq(Seq(Items)) /\ DOMAIN cats = 1 .. Len(cats)
  BY <1>1
<1>3. read \in Seq(Items)
  BY <1>1, <1>2
<1>4. at2 = IF at.page >= Len(cats[at.category])
            THEN [items |-> at.items \o read, category |-> at.category + 1, page |-> 1]
            ELSE [at EXCEPT !.items = @ \o read, !.page = @ + 1]
  BY DEF SyncPage
<1>5. /\ at2.items = at.items \o read /\ at2.items \in Seq(Items)
      /\ at2 \in [items : Seq(Items), category : Nat \ {0}, page : Nat \ {0}]
      /\ IF at.page >= Len(cats[at.category])
         THEN at2.category = at.category + 1 /\ at2.page = 1
         ELSE at2.category = at.category /\ at2.page = at.page + 1
  <2>1. at.items \o read \in Seq(Items)
    BY <1>1, <1>3, ConcatProperties
  <2>2. CASE at.page >= Len(cats[at.category])
    <3>1. at2 = [items |-> at.items \o read, category |-> at.category + 1, page |-> 1]
      BY <1>4, <2>2
    <3> HIDE DEF read, at2
    <3> QED
      BY <1>1, <2>1, <2>2, <3>1
  <2>3. CASE ~(at.page >= Len(cats[at.category]))
    <3>1. at2 = [at EXCEPT !.items = @ \o read, !.page = @ + 1]
      BY <1>4, <2>3
    <3> HIDE DEF read, at2, at
    <3>2. at2 = [items |-> at.items \o read, category |-> at.category, page |-> at.page + 1]
      BY <1>1, <3>1
    <3> QED
      BY <1>1, <2>1, <2>3, <3>2
  <2> QED
    BY <2>2, <2>3
<1>6. PathsOf(at2.items) = PathsOf(at.items) \union PathsOf(read)
  BY <1>1, <1>3, <1>5, PathsOfConcat
<1>7. ASSUME NEW i \in DOMAIN cats, NEW j \in DOMAIN cats[i],
             i < at2.category \/ (i = at2.category /\ j < at2.page)
      PROVE  PathsOf(cats[i][j]) \subseteq PathsOf(at2.items)
  <2>1. /\ i \in Nat /\ j \in Nat \ {0}
        /\ i = at.category => j \in 1 .. Len(cats[at.category])
    <3>1. cats[i] \in Seq(Seq(Items))
      BY <1>1
    <3> QED
      BY <1>2, <3>1
  <2>2. CASE i < at.category \/ (i = at.category /\ j < at.page)
    <3>1. ReadBefore(c, at.category, at.page)
      BY <1>1 DEF SyncOf
    <3> QED
      BY <1>6, <2>2, <3>1 DEF ReadBefore
  <2>3. CASE i = at.category /\ j = at.page
    BY <1>6, <2>1, <2>3
  <2>4. CASE ~(i < at.category \/ (i = at.category /\ j <= at.page))
    <3>1. Len(cats[at.category]) \in Nat /\ at.category \in Nat /\ at.page \in Nat
      BY <1>1, <1>2
    <3>2. CASE at.page >= Len(cats[at.category])
      <4>1. at2.category = at.category + 1 /\ at2.page = 1
        BY <1>5, <3>2
      <4> HIDE DEF at, at2, cats
      <4> QED
        BY <1>7, <2>1, <2>4, <3>1, <3>2, <4>1
    <3>3. CASE ~(at.page >= Len(cats[at.category]))
      <4>1. at2.category = at.category /\ at2.page = at.page + 1
        BY <1>5, <3>3
      <4> HIDE DEF at, at2, cats
      <4> QED
        BY <1>7, <2>1, <2>4, <3>1, <4>1
    <3> QED
      BY <3>2, <3>3
  <2> QED
    BY <1>1, <2>1, <2>2, <2>3, <2>4
<1>8. ReadBefore(c, fetched[c].category, fetched[c].page)'
  BY <1>7 DEF ReadBefore
<1> QED
  BY <1>1, <1>5, <1>8 DEF SyncOf

(* The rows to upsert are the paths of all pages.                          *)
LEMMA SyncRowsTaken ==
    ASSUME DOMAIN todo = Calls, DOMAIN pc = Calls, NEW c \in Calls, SyncOf(c), SyncRows(c)
    PROVE  SyncOf(c)'
<1> DEFINE items == fetched[c].items
<1>1. /\ Op(c) = "sync" /\ pc[c] = "fetch" /\ pc'[c] = "run" /\ fetched' = fetched
      /\ fetched[c].category > Len(Requests[c].categories)
  <2>1. Op(c) = "sync" /\ pc[c] = "fetch" /\ pc'[c] = "run" /\ fetched' = fetched
    BY DEF SyncRows, Return
  <2>2. Len(Requests[c].categories) \in Nat /\ fetched[c].category \in Nat
    BY <2>1, PagesOf DEF SyncOf
  <2> QED
    BY <2>1, <2>2 DEF SyncRows, MorePages
<1>2. items \in Seq(Items) /\ IsFiniteSet(PathsOf(items))
  BY PathsFinite DEF SyncOf
<1>3. PICK rows \in Ascending(PathsOf(items)) : todo'[c] = rows
  BY DEF SyncRows
<1>4. rows \in SetToSeqs(PathsOf(items))
  BY DEF Ascending
<1>5. rows \in Seq(PathsOf(items)) /\ \A p \in PathsOf(items) : \E i \in 1 .. Len(rows) : rows[i] = p
  BY <1>2, <1>4, SeqOfSet
<1>6. RowsLeft(c)'
  BY <1>1, <1>3, <1>5 DEF RowsLeft
<1>7. AllRead(c)'
  <2>1. \A i \in DOMAIN Requests[c].categories : i < fetched[c].category
    BY <1>1, PagesOf DEF SyncOf
  <2> QED
    BY <1>1, <2>1 DEF SyncOf, ReadBefore, AllRead
<1> QED
  BY <1>1, <1>6, <1>7 DEF SyncOf

(* An upsert describes its row, and leaves the others to do.               *)
LEMMA SyncUpsertDescribes ==
    ASSUME Shape, RowsStay, DOMAIN todo = Calls, NEW c \in Calls, SyncOf(c), SyncUpsert(c)
    PROVE  SyncOf(c)'
<1> DEFINE items == fetched[c].items
           p     == Head(todo[c])
           item  == ItemOf(items, p)
<1>1. /\ pc[c] = "run" /\ pc' = pc /\ fetched' = fetched /\ todo[c] # <<>>
      /\ todo'[c] = Tail(todo[c]) /\ UpsertCurrencySynced(item)
  BY DEF SyncUpsert
<1>2. AllRead(c) /\ RowsLeft(c) /\ items \in Seq(Items) /\ PathsOf(items) \subseteq Paths
  BY <1>1, PathsFinite DEF SyncOf
<1>3. todo[c] \in Seq(PathsOf(items)) /\ p \in PathsOf(items) /\ p \in Paths
  BY <1>1, <1>2 DEF RowsLeft
<1>4. item.path = p
  BY <1>2, <1>3, ItemOfPath
<1>5. ASSUME NEW q \in Paths, q = p PROVE Described(q)'
  <2>1. /\ currencies'[q].id = IF Exists(q) THEN currencies[q].id ELSE nextId
        /\ currencies'[q].placeholder = FALSE
    <3> HIDE DEF p, item
    <3> QED
      BY <1>1, <1>4, <1>5 DEF UpsertCurrencySynced, Upsert, Shape
  <2> QED
    BY <2>1 DEF Described, Exists, Shape
<1>6. \A q \in Paths : Described(q) => Described(q)'
  BY DEF RowsStay, Described, Exists
<1>7. ASSUME NEW q \in PathsOf(items), ~Described(q)'
      PROVE  \E i \in 1 .. Len(todo'[c]) : todo'[c][i] = q
  <2>1. PICK i \in 1 .. Len(todo[c]) : todo[c][i] = q
    BY <1>2, <1>6, <1>7 DEF RowsLeft
  <2>2. i # 1
    BY <1>2, <1>5, <1>7, <2>1
  <2>3. i - 1 \in 1 .. Len(Tail(todo[c])) /\ Tail(todo[c])[i - 1] = q
    BY <1>1, <1>3, <2>1, <2>2
  <2> QED
    BY <1>1, <2>3
<1>8. Tail(todo[c]) \in Seq(PathsOf(items))
  BY <1>1, <1>3
<1>9. RowsLeft(c)'
  BY <1>1, <1>7, <1>8 DEF RowsLeft
<1>10. AllRead(c)'
  BY <1>1, <1>2 DEF AllRead
<1> QED
  BY <1>1, <1>9, <1>10 DEF SyncOf

(* No step of any call or of the ingest takes from a sync what it knows.   *)
LEMMA SyncStep ==
    ASSUME Shape, OwnIsNew, Read, SyncKnows, [Next]_vars
    PROVE  SyncKnows'
<1> USE DEF tables, ingest, calls
<1>1. RowsStay /\ DOMAIN fetched = Calls /\ DOMAIN todo = Calls /\ DOMAIN pc = Calls
  BY RowsStep DEF SyncKnows, Read
<1>2. ASSUME DOMAIN fetched' = Calls,
             \A d \in Calls : Op(d) = "sync" =>
                 \/ SyncOf(d)'
                 \/ /\ fetched'[d] = fetched[d] /\ todo'[d] = todo[d]
                    /\ pc'[d] = pc[d] \/ pc'[d] \in {"idle", "failed"}
      PROVE  SyncKnows'
  <2> SUFFICES ASSUME NEW d \in Calls, Op(d) = "sync" PROVE SyncOf(d)'
    BY <1>2 DEF SyncKnows, Op
  <2>1. SyncOf(d)
    BY DEF SyncKnows
  <2> QED
    BY <1>1, <1>2, <2>1, SyncStays
<1>3. CASE Ingest \/ UNCHANGED vars
  <2>1. UNCHANGED <<fetched, todo, pc>>
    BY <1>3 DEF Ingest, Discover, Commit, Rollback, EndTx, vars
  <2> QED
    BY <1>1, <1>2, <2>1
<1>4. ASSUME NEW c \in Calls, Fail(c) \/ Repeat(c) PROVE SyncKnows'
  <2>1. UNCHANGED <<fetched, todo>> /\ \A d \in Calls : pc'[d] = pc[d] \/ pc'[d] \in {"idle", "failed"}
    BY <1>1, <1>4 DEF Fail, Repeat, Return
  <2> QED
    BY <1>1, <1>2, <2>1
<1>5. ASSUME NEW c \in Calls, Op(c) # "sync",
             Curate(c) \/ LoopDone(c) \/ BootstrapBase(c) \/ BootstrapQuote(c) \/ BootstrapPair(c)
      PROVE  SyncKnows'
  <2>1. /\ fetched' = fetched
        /\ \A d \in Calls : d # c => todo'[d] = todo[d] /\ pc'[d] = pc[d]
    BY <1>1, <1>5 DEF Curate, LoopDone, BootstrapBase, BootstrapQuote, BootstrapPair, Return
  <2> QED
    BY <1>1, <1>2, <1>5, <2>1
<1>6. ASSUME NEW c \in Calls, Op(c) = "sync",
             SyncStart(c) \/ SyncPage(c) \/ SyncRows(c) \/ SyncUpsert(c) \/ LoopDone(c)
      PROVE  SyncKnows'
  <2>1. /\ DOMAIN fetched' = Calls
        /\ \A d \in Calls : d # c =>
               fetched'[d] = fetched[d] /\ todo'[d] = todo[d] /\ pc'[d] = pc[d]
    BY <1>1, <1>6 DEF SyncStart, SyncPage, SyncRows, SyncUpsert, LoopDone, Return
  <2>2. SyncOf(c)
    BY <1>6 DEF SyncKnows
  <2>3. CASE SyncStart(c)
    <3>1. fetched'[c] = FirstPage /\ pc'[c] = "fetch"
      BY <1>1, <2>3 DEF SyncStart, Return
    <3>2. \A i \in DOMAIN Requests[c].categories : \A j \in DOMAIN Requests[c].categories[i] :
              ~(i < 1 \/ (i = 1 /\ j < 1))
      BY <1>6, PagesOf
    <3>3. ReadBefore(c, fetched[c].category, fetched[c].page)'
      BY <3>1, <3>2 DEF ReadBefore, FirstPage
    <3>4. SyncOf(c)'
      BY <3>1, <3>3 DEF SyncOf, FirstPage
    <3> QED
      BY <1>2, <2>1, <3>4
  <2>4. CASE LoopDone(c)
    <3>1. /\ pc[c] = "run" /\ pc'[c] = "ok" /\ todo[c] = <<>> /\ fetched' = fetched
          /\ currencies' = currencies
      BY <1>1, <2>4 DEF LoopDone, Return
    <3>2. AllRead(c) /\ \A p \in PathsOf(fetched[c].items) : Described(p)
      BY <2>2, <3>1 DEF SyncOf, RowsLeft
    <3>3. Scouted(c)
      BY <3>2 DEF AllRead, Scouted
    <3>4. Scouted(c)'
      BY <3>1, <3>3 DEF Scouted, Described, Exists
    <3>5. SyncOf(c)'
      BY <2>2, <3>1, <3>4 DEF SyncOf
    <3> QED
      BY <1>2, <2>1, <3>5
  <2>5. CASE SyncPage(c) \/ SyncRows(c) \/ SyncUpsert(c)
    <3>1. SyncOf(c)'
      BY <1>1, <2>2, <2>5, SyncPageReads, SyncRowsTaken, SyncUpsertDescribes
    <3> QED
      BY <1>2, <2>1, <3>1
  <2> QED
    BY <1>6, <2>3, <2>4, <2>5
<1>7. ASSUME NEW c \in Calls, Serve(c) PROVE SyncKnows'
  BY <1>4, <1>5, <1>6, <1>7
     DEF Serve, Curate, SyncStart, SyncPage, SyncRows, SyncUpsert, BootstrapBase,
         BootstrapQuote, BootstrapPair
<1> QED
  BY <1>3, <1>4, <1>7 DEF Next

(* SyncComplete: for any pages, ingests and curations, a sync that returns *)
(* without an error leaves no placeholder of a currency that poe2scout     *)
(* describes.                                                              *)
THEOREM SyncAlwaysComplete == Spec => []SyncComplete
<1>1. Init => SyncKnows
  BY DEF Init, SyncKnows, SyncOf, FirstPage
<1>2. Shape /\ OwnIsNew /\ Read /\ PairsResolve /\ SyncKnows /\ [Next]_vars
      => (Shape /\ OwnIsNew /\ Read /\ PairsResolve /\ SyncKnows)'
  BY RowsStep, PairsStep, SyncStep
<1>3. ASSUME SyncKnows PROVE SyncComplete
  <2> SUFFICES ASSUME NEW c \in Calls, Op(c) = "sync", pc[c] = "ok",
                      NEW pages \in Range(Requests[c].categories),
                      NEW items \in Range(pages), NEW p \in PathsOf(items)
               PROVE  Exists(p) /\ p \notin ListPlaceholderCurrencies
    BY DEF SyncComplete
  <2>1. Scouted(c)
    BY <1>3 DEF SyncKnows, SyncOf
  <2>2. Described(p)
    BY <2>1 DEF Scouted, Range
  <2> QED
    BY <2>2 DEF Described, ListPlaceholderCurrencies
<1> QED
  BY <1>1, <1>2, <1>3, InitHolds, PTL DEF Spec

-----------------------------------------------------------------------------
(* The id of a path's row, whether committed or the ingest's own.          *)
IdOf(p) == IF own[p] # 0 THEN own[p] ELSE currencies[p].id

(* No two paths have one id, and the next id is new.                       *)
IdsUnique == \A p \in Paths : /\ IdOf(p) < nextId
                              /\ \A q \in Paths : IdOf(p) = IdOf(q) => p = q \/ IdOf(p) = 0

(* Ids come from a counter, and a row takes one only if it is new.         *)
LEMMA IdsStep ==
    ASSUME Shape, OwnIsNew, IdsUnique, [Next]_vars
    PROVE  IdsUnique'
<1> USE DEF tables, ingest, calls
<1>1. \A p \in Paths : IdOf(p) \in Nat
  BY DEF IdOf, Shape
<1>2. nextId \in Nat \ {0}
  BY DEF Shape
<1>3. ASSUME nextId' = nextId, \A p \in Paths : IdOf(p)' = IdOf(p) \/ IdOf(p)' = 0
      PROVE  IdsUnique'
  <2>1. \A p \in Paths : IdOf(p)' < nextId'
    BY <1>1, <1>2, <1>3 DEF IdsUnique
  <2>2. ASSUME NEW p \in Paths, NEW q \in Paths, IdOf(p)' = IdOf(q)', IdOf(p)' # 0
        PROVE  p = q
    BY <1>3, <2>2 DEF IdsUnique
  <2> QED
    BY <2>1, <2>2 DEF IdsUnique
<1>4. ASSUME NEW p \in Paths, nextId' = nextId + 1, IdOf(p)' = nextId,
             \A q \in Paths : q # p => IdOf(q)' = IdOf(q)
      PROVE  IdsUnique'
  <2>1. \A q \in Paths : IdOf(q)' < nextId'
    BY <1>1, <1>2, <1>4 DEF IdsUnique
  <2>2. ASSUME NEW q \in Paths, NEW r \in Paths, IdOf(q)' = IdOf(r)', IdOf(q)' # 0
        PROVE  q = r
    BY <1>1, <1>2, <1>4, <2>2 DEF IdsUnique
  <2> QED
    BY <2>1, <2>2 DEF IdsUnique
<1>5. ASSUME UNCHANGED <<currencies, nextId, own>> PROVE IdsUnique'
  BY <1>5 DEF IdsUnique, IdOf
<1>6. ASSUME NEW p \in Paths, Discover(p) PROVE IdsUnique'
  <2>1. CASE Exists(p)
    BY <1>5, <1>6, <2>1 DEF Discover
  <2>2. CASE ~Exists(p)
    <3>1. /\ own' = [own EXCEPT ![p] = nextId] /\ nextId' = nextId + 1
          /\ currencies' = currencies
      BY <1>6, <2>2 DEF Discover
    <3>2. IdOf(p)' = nextId /\ \A q \in Paths : q # p => IdOf(q)' = IdOf(q)
      BY <1>2, <3>1 DEF IdOf, Shape
    <3> QED
      BY <1>4, <3>1, <3>2
  <2> QED
    BY <2>1, <2>2
<1>7. CASE Commit
  <2>1. \A p \in Paths : IdOf(p)' = IdOf(p)
    BY <1>7 DEF Commit, EndTx, IdOf, Placeholder
  <2> QED
    BY <1>3, <1>7, <2>1 DEF Commit, EndTx
<1>8. CASE Rollback
  <2>1. \A p \in Paths : IdOf(p)' = IdOf(p) \/ IdOf(p)' = 0
    BY <1>8 DEF Rollback, EndTx, IdOf, OwnIsNew, Exists
  <2> QED
    BY <1>3, <1>8, <2>1 DEF Rollback, EndTx
<1>9. ASSUME NEW p, NEW n, NEW e, NEW g, Upsert(p, n, e, g) PROVE IdsUnique'
  <2>1. /\ own' = own /\ p \notin held
        /\ \A q \in Paths : q # p => currencies'[q] = currencies[q]
    BY <1>9 DEF Upsert, Shape
  <2>2. CASE p \notin Paths
    <3>1. \A q \in Paths : IdOf(q)' = IdOf(q)
      BY <2>1, <2>2 DEF IdOf
    <3>2. nextId' = nextId \/ nextId' = nextId + 1
      BY <1>2, <1>9 DEF Upsert
    <3> QED
      BY <1>1, <1>2, <3>1, <3>2 DEF IdsUnique
  <2>3. CASE p \in Paths
    <3>1. own[p] = 0
      BY <2>1, <2>3 DEF OwnIsNew
    <3>2. /\ currencies'[p].id = IF Exists(p) THEN currencies[p].id ELSE nextId
          /\ nextId' = IF Exists(p) THEN nextId ELSE nextId + 1
      BY <1>2, <1>9, <2>3 DEF Upsert, Shape
    <3>3. \A q \in Paths : q # p => IdOf(q)' = IdOf(q)
      BY <2>1 DEF IdOf
    <3>4. IdOf(p)' = IF Exists(p) THEN IdOf(p) ELSE nextId
      BY <2>1, <3>1, <3>2 DEF IdOf
    <3> QED
      BY <1>3, <1>4, <2>3, <3>2, <3>3, <3>4
  <2> QED
    BY <2>2, <2>3
<1>10. ASSUME NEW c \in Calls, Serve(c) \/ Repeat(c) PROVE IdsUnique'
  <2>1. CASE Curate(c) \/ SyncUpsert(c)
    <3>1. PICK p, n, e, g : Upsert(p, n, e, g)
      BY <2>1 DEF Curate, SyncUpsert, UpsertCurrencyCurated, UpsertCurrencySynced
    <3> QED
      BY <1>9, <3>1
  <2>2. CASE ~(Curate(c) \/ SyncUpsert(c))
    <3>1. UNCHANGED <<currencies, nextId, own>>
      BY <1>10, <2>2
         DEF Serve, Fail, SyncStart, SyncPage, SyncRows, LoopDone, BootstrapBase,
             BootstrapQuote, BootstrapPair, Repeat
    <3> QED
      BY <1>5, <3>1
  <2> QED
    BY <2>1, <2>2
<1> QED
  BY <1>5, <1>6, <1>7, <1>8, <1>10 DEF Next, Ingest, vars

(* Numbers of 1 .. n in strictly ascending order are all of them.          *)
LEMMA AscendingIsIdentity ==
    ASSUME NEW n \in Nat, NEW g \in [1 .. n -> 1 .. n],
           \A i, j \in 1 .. n : i < j => g[i] < g[j]
    PROVE  \A i \in 1 .. n : g[i] = i
<1>1. g \in Injection(1 .. n, 1 .. n)
  BY DEF Injection, IsInjective
<1>2. IsFiniteSet(1 .. n)
  BY FS_Interval
<1>3. g \in Surjection(1 .. n, 1 .. n)
  BY <1>1, <1>2, FS_Injection
<1> DEFINE T == {i \in 1 .. n : g[i] # i}
<1> SUFFICES ASSUME T # {} PROVE FALSE
  OBVIOUS
<1>4. T \subseteq Nat
  OBVIOUS
<1>5. PICK x \in T : \A y \in T : <<y, x>> \notin OpToRel(<, Nat)
  <2> HIDE DEF T
  <2> QED
    BY <1>4, NatLessThanWellFounded, WFMin
<1>6. \A y \in 1 .. n : y < x => g[y] = y
  <2> SUFFICES ASSUME NEW y \in 1 .. n, y < x, g[y] # y PROVE FALSE
    OBVIOUS
  <2>1. y \in T /\ <<y, x>> \in OpToRel(<, Nat)
    BY <1>4 DEF OpToRel
  <2> QED
    BY <1>5, <2>1
<1>7. PICK k \in 1 .. n : g[k] = x
  BY <1>3 DEF Surjection
<1>8. x \in 1 .. n /\ g[x] # x /\ g[x] \in 1 .. n
  OBVIOUS
<1>9. k > x
  <2>1. k # x
    BY <1>7, <1>8
  <2>2. ~(k < x)
    <3> SUFFICES ASSUME k < x PROVE FALSE
      OBVIOUS
    <3>1. g[k] = k
      BY <1>6
    <3> QED
      BY <1>7, <3>1
  <2> HIDE DEF T
  <2> QED
    BY <1>8, <2>1, <2>2
<1>10. g[x] < x
  BY <1>7, <1>8, <1>9
<1>11. g[g[x]] = g[x] /\ g[g[x]] < g[x]
  BY <1>6, <1>8, <1>10
<1> QED
  BY <1>8, <1>11

-----------------------------------------------------------------------------
(* The only bootstrap, which names no quote twice.                         *)
Alone(c) == /\ Op(c) = "bootstrap" /\ IsInjective(Requests[c].quotes)
            /\ \A d \in Calls \ {c} : Op(d) # "bootstrap"

Count(c) == Len(Requests[c].quotes)

(* The ids of the i-th pair of a bootstrap, and that the pair is there.    *)
PairOf(c, i) == <<currencies[Requests[c].base].id, currencies[Requests[c].quotes[i]].id>>

Paired(c, i) == /\ Exists(Requests[c].base) /\ Exists(Requests[c].quotes[i])
                /\ PairOf(c, i) \in DOMAIN pairs

(* Every pair is one it asks for, in its place.                            *)
OnlyAsked(c) == \A ids \in DOMAIN pairs : \E i \in 1 .. Count(c) :
                    Paired(c, i) /\ ids = PairOf(c, i) /\ pairs[ids] = i - 1

(* While it runs, todo is the end of its quotes, those before are paired,  *)
(* and what it has read is the id of the base and of the next quote.       *)
Halfway(c) ==
    /\ base[c] = currencies[Requests[c].base].id
    /\ Len(todo[c]) <= Count(c)
    /\ \A j \in 1 .. Len(todo[c]) : todo[c][j] = Requests[c].quotes[Count(c) - Len(todo[c]) + j]
    /\ quote[c] # 0 => todo[c] # <<>> /\ quote[c] = currencies[Head(todo[c])].id
    /\ \A i \in 1 .. Count(c) - Len(todo[c]) : Paired(c, i)

BootstrapOf(c) == /\ OnlyAsked(c)
                  /\ pc[c] = "idle" => quote[c] = 0
                  /\ pc[c] = "run" => Halfway(c)
                  /\ pc[c] = "ok" => \A i \in 1 .. Count(c) : Paired(c, i)

BootstrapKnows == \A c \in Calls : Alone(c) => BootstrapOf(c)

LEMMA QuotesOf ==
    ASSUME NEW c \in Calls, Alone(c)
    PROVE  /\ Requests[c].base \in Paths /\ Requests[c].quotes \in Seq(Paths)
           /\ Count(c) \in Nat /\ \A i \in 1 .. Count(c) : Requests[c].quotes[i] \in Paths
<1>1. Requests[c].base \in Paths /\ Requests[c].quotes \in Seq(Paths)
  BY CatalogueAssumption DEF Alone
<1> QED
  BY <1>1 DEF Count

(* A pair stays as long as no pair is taken away.                          *)
LEMMA PairedStays ==
    ASSUME RowsStay, DOMAIN pairs \subseteq DOMAIN pairs', NEW c \in Calls, Alone(c)
    PROVE  \A i \in 1 .. Count(c) : Paired(c, i) => Paired(c, i)' /\ PairOf(c, i)' = PairOf(c, i)
BY QuotesOf DEF RowsStay, Paired, PairOf, Exists

(* A bootstrap that does not move keeps what it knows, since rows stay.    *)
LEMMA BootstrapStays ==
    ASSUME Read, RowsStay, pairs' = pairs, NEW c \in Calls, Alone(c), BootstrapOf(c),
           base'[c] = base[c], todo'[c] = todo[c], quote'[c] = quote[c],
           pc'[c] = pc[c] \/ pc'[c] = "failed"
    PROVE  BootstrapOf(c)'
<1>1. \A i \in 1 .. Count(c) : Paired(c, i) => Paired(c, i)' /\ PairOf(c, i)' = PairOf(c, i)
  BY PairedStays
<1>2. OnlyAsked(c)'
  BY <1>1 DEF BootstrapOf, OnlyAsked, Count
<1>3. ASSUME pc[c] = "run", pc'[c] = "run" PROVE Halfway(c)'
  <2>1. Halfway(c) /\ base[c] # 0 /\ todo[c] \in Seq(Paths)
    BY <1>3 DEF BootstrapOf, Alone, Read
  <2>2. base[c] = currencies[Requests[c].base].id /\ currencies'[Requests[c].base].id = base[c]
    BY <2>1, QuotesOf DEF Halfway, RowsStay, Exists
  <2>3. quote[c] # 0 => todo[c] # <<>> /\ quote[c] = currencies'[Head(todo[c])].id
    BY <2>1 DEF Halfway, RowsStay, Exists
  <2>4. \A i \in 1 .. Count(c) - Len(todo[c]) : i \in 1 .. Count(c)
    BY <2>1, QuotesOf DEF Halfway
  <2>5. \A i \in 1 .. Count(c) - Len(todo[c]) : Paired(c, i)'
    BY <1>1, <2>1, <2>4 DEF Halfway
  <2> QED
    BY <2>1, <2>2, <2>3, <2>5 DEF Halfway, Count
<1>4. pc[c] = "ok" => \A i \in 1 .. Count(c) : Paired(c, i)'
  BY <1>1 DEF BootstrapOf
<1> QED
  BY <1>2, <1>3, <1>4 DEF BootstrapOf, Count

(* A bootstrap starts with all of its quotes left to do.                   *)
LEMMA BaseRead ==
    ASSUME Shape, Read, NEW c \in Calls, Alone(c), BootstrapOf(c), BootstrapBase(c)
    PROVE  BootstrapOf(c)'
<1>1. UNCHANGED <<currencies, pairs, quote>> /\ pc[c] = "idle" /\ pc'[c] \in {"run", "failed"}
  BY DEF BootstrapBase, Return, Read, tables
<1>2. OnlyAsked(c)'
  BY <1>1 DEF BootstrapOf, OnlyAsked, Paired, PairOf, Exists, Count
<1>3. ASSUME pc'[c] = "run" PROVE Halfway(c)'
  <2>1. Find(Requests[c].base) # 0
    BY <1>1, <1>3 DEF BootstrapBase, Return, Read
  <2>2. base'[c] = currencies'[Requests[c].base].id /\ todo'[c] = Requests[c].quotes
    BY <1>1, <2>1 DEF BootstrapBase, Find, GetCurrencyByPath, Shape, Read
  <2>3. quote'[c] = 0
    BY <1>1 DEF BootstrapOf
  <2> QED
    BY <2>2, <2>3, QuotesOf DEF Halfway, Count
<1> QED
  BY <1>1, <1>2, <1>3 DEF BootstrapOf

(* The quote it reads is the next one.                                     *)
LEMMA QuoteRead ==
    ASSUME Shape, Read, NEW c \in Calls, Alone(c), BootstrapOf(c), BootstrapQuote(c)
    PROVE  BootstrapOf(c)'
<1>1. /\ UNCHANGED <<currencies, pairs, todo, base>> /\ pc[c] = "run"
      /\ pc'[c] \in {"run", "failed"} /\ todo[c] # <<>>
  BY DEF BootstrapQuote, Return, Read, tables
<1>2. OnlyAsked(c)'
  BY <1>1 DEF BootstrapOf, OnlyAsked, Paired, PairOf, Exists, Count
<1>3. ASSUME pc'[c] = "run" PROVE Halfway(c)'
  <2>1. Halfway(c)
    BY <1>1 DEF BootstrapOf
  <2>2. Find(Head(todo[c])) # 0
    BY <1>1, <1>3 DEF BootstrapQuote, Return, Read
  <2>3. quote'[c] = currencies[Head(todo[c])].id
    BY <2>2 DEF BootstrapQuote, Find, GetCurrencyByPath, Shape
  <2>4. \A i \in 1 .. Count(c) - Len(todo[c]) : Paired(c, i)'
    BY <1>1, <2>1 DEF Halfway, Paired, PairOf, Exists
  <2> QED
    BY <1>1, <2>1, <2>3, <2>4 DEF Halfway, Count
<1> QED
  BY <1>1, <1>2, <1>3 DEF BootstrapOf

(* The pair it writes is the next one, in its place.                       *)
LEMMA PairWritten ==
    ASSUME Shape, Read, NEW c \in Calls, Alone(c), BootstrapOf(c), BootstrapPair(c)
    PROVE  BootstrapOf(c)'
<1> DEFINE left == Len(todo[c])
           new  == <<base[c], quote[c]>>
<1>0. PICK i : i = Count(c) - left + 1
  OBVIOUS
<1>1. /\ UNCHANGED <<currencies, pc, base>> /\ pc[c] = "run" /\ quote[c] # 0
      /\ todo[c] # <<>> /\ todo'[c] = Tail(todo[c]) /\ quote'[c] = 0
  BY DEF BootstrapPair, Read, Shape
<1>2. Halfway(c) /\ base[c] # 0 /\ todo[c] \in Seq(Paths)
  BY <1>1 DEF BootstrapOf, Alone, Read
<1>3. /\ left \in Nat \ {0} /\ left <= Count(c) /\ Count(c) \in Nat
      /\ i \in 1 .. Count(c) /\ Len(todo'[c]) = left - 1
  <2>1. left \in Nat \ {0} /\ left <= Count(c) /\ Count(c) \in Nat
    BY <1>1, <1>2, QuotesOf DEF Halfway
  <2>2. Len(todo'[c]) = left - 1
    BY <1>1, <1>2
  <2> QED
    BY <1>0, <2>1, <2>2
<1>4. Head(todo[c]) = Requests[c].quotes[i]
  <2>1. Head(todo[c]) = todo[c][1] /\ 1 \in 1 .. Len(todo[c])
    BY <1>1, <1>2, <1>3
  <2> QED
    BY <1>0, <1>2, <1>3, <2>1 DEF Halfway
<1>5. /\ new = PairOf(c, i)
      /\ Exists(Requests[c].base) /\ Exists(Requests[c].quotes[i])
  BY <1>1, <1>2, <1>4 DEF Halfway, PairOf, Exists
<1>6. /\ DOMAIN pairs' = DOMAIN pairs \union {new} /\ pairs'[new] = i - 1
      /\ \A ids \in DOMAIN pairs : ids # new => pairs'[ids] = pairs[ids]
  <2>1. UpsertDefaultRatePair(base[c], quote[c], Count(c) - left)
    BY DEF BootstrapPair, Count
  <2>2. i - 1 = Count(c) - left
    BY <1>0, <1>3
  <2> QED
    BY <2>1, <2>2 DEF UpsertDefaultRatePair
<1>7. \A k : Paired(c, k) => Paired(c, k)' /\ PairOf(c, k)' = PairOf(c, k)
  BY <1>1, <1>6 DEF Paired, PairOf, Exists
<1>8. Paired(c, i)' /\ PairOf(c, i)' = PairOf(c, i)
  BY <1>1, <1>5, <1>6 DEF Paired, PairOf, Exists
<1>9. OnlyAsked(c)'
  <2> SUFFICES ASSUME NEW ids \in DOMAIN pairs'
               PROVE  \E k \in 1 .. Count(c) :
                          Paired(c, k)' /\ ids = PairOf(c, k)' /\ pairs'[ids] = k - 1
    BY DEF OnlyAsked, Count
  <2>1. CASE ids = new
    BY <1>3, <1>5, <1>6, <1>8, <2>1
  <2>2. CASE ids # new
    <3>1. ids \in DOMAIN pairs /\ pairs'[ids] = pairs[ids]
      BY <1>6, <2>2
    <3>2. PICK k \in 1 .. Count(c) : Paired(c, k) /\ ids = PairOf(c, k) /\ pairs[ids] = k - 1
      BY <3>1 DEF BootstrapOf, OnlyAsked
    <3> QED
      BY <1>7, <3>1, <3>2
  <2> QED
    BY <2>1, <2>2
<1>10. Halfway(c)'
  <2>1. base'[c] = currencies'[Requests[c].base].id
    BY <1>1, <1>2 DEF Halfway
  <2>2. ASSUME NEW j \in 1 .. left - 1
        PROVE  todo'[c][j] = Requests[c].quotes[Count(c) - (left - 1) + j]
    <3>1. j + 1 \in 1 .. left /\ Tail(todo[c])[j] = todo[c][j + 1]
      BY <1>1, <1>2, <1>3
    <3>2. todo[c][j + 1] = Requests[c].quotes[Count(c) - left + (j + 1)]
      BY <1>2, <3>1 DEF Halfway
    <3>3. Count(c) - left + (j + 1) = Count(c) - (left - 1) + j
      BY <1>3
    <3> QED
      BY <1>1, <3>1, <3>2, <3>3
  <2>3. ASSUME NEW k \in 1 .. Count(c) - (left - 1) PROVE Paired(c, k)'
    <3>1. CASE k = i
      BY <1>8, <3>1
    <3>2. CASE k # i
      <4>1. k \in 1 .. Count(c) - left
        BY <1>0, <1>3, <3>2
      <4> QED
        BY <1>2, <1>7, <4>1 DEF Halfway
    <3> QED
      BY <3>1, <3>2
  <2>4. Len(todo'[c]) <= Count(c)
    BY <1>3
  <2> HIDE DEF left
  <2> QED
    BY <1>1, <1>3, <2>1, <2>2, <2>3, <2>4 DEF Halfway, Count
<1> QED
  BY <1>1, <1>9, <1>10 DEF BootstrapOf

(* No step takes from the bootstrap what it knows.                         *)
LEMMA BootstrapStep ==
    ASSUME Shape, OwnIsNew, Read, BootstrapKnows, [Next]_vars
    PROVE  BootstrapKnows'
<1> USE DEF tables, ingest, calls
<1> SUFFICES ASSUME NEW c \in Calls, Alone(c) PROVE BootstrapOf(c)'
  BY DEF BootstrapKnows, Alone, Op
<1>1. RowsStay /\ BootstrapOf(c) /\ Op(c) = "bootstrap"
  BY RowsStep DEF BootstrapKnows, Alone
<1>2. ASSUME pairs' = pairs, base'[c] = base[c], todo'[c] = todo[c], quote'[c] = quote[c],
             pc'[c] = pc[c] \/ pc'[c] = "failed"
      PROVE  BootstrapOf(c)'
  BY <1>1, <1>2, BootstrapStays
<1>3. CASE Ingest \/ UNCHANGED vars
  BY <1>2, <1>3 DEF Ingest, Discover, Commit, Rollback, EndTx, vars
<1>4. CASE Fail(c)
  BY <1>2, <1>4 DEF Fail, Return, Read
<1>5. ASSUME NEW d \in Calls, d # c, Serve(d) \/ Repeat(d) PROVE BootstrapOf(c)'
  <2>1. Op(d) # "bootstrap"
    BY <1>5 DEF Alone
  <2>2. /\ pairs' = pairs /\ base' = base /\ todo'[c] = todo[c] /\ quote'[c] = quote[c]
        /\ pc'[c] = pc[c]
    BY <1>5, <2>1
       DEF Serve, Fail, Curate, SyncStart, SyncPage, SyncRows, SyncUpsert, LoopDone,
           BootstrapBase, BootstrapQuote, BootstrapPair, Repeat, Return, Read, Shape,
           UpsertCurrencyCurated, UpsertCurrencySynced, Upsert
  <2> QED
    BY <1>2, <2>2
<1>6. CASE LoopDone(c)
  <2>1. /\ UNCHANGED <<currencies, pairs>> /\ pc[c] = "run" /\ pc'[c] = "ok"
        /\ todo[c] = <<>>
    BY <1>6 DEF LoopDone, Return, Read
  <2>2. Halfway(c) /\ Len(todo[c]) = 0 /\ Count(c) \in Nat
    BY <1>1, <2>1, QuotesOf DEF BootstrapOf
  <2>3. \A i \in 1 .. Count(c) : Paired(c, i)
    BY <2>2 DEF Halfway
  <2> QED
    BY <1>1, <2>1, <2>3 DEF BootstrapOf, OnlyAsked, Paired, PairOf, Exists, Count
<1>7. CASE Repeat(c)
  <2>1. UNCHANGED <<currencies, pairs>> /\ pc'[c] = "idle" /\ quote'[c] = 0
    BY <1>7 DEF Repeat, Return, Read, Shape
  <2> QED
    BY <1>1, <2>1 DEF BootstrapOf, OnlyAsked, Paired, PairOf, Exists, Count
<1>8. CASE BootstrapBase(c) \/ BootstrapQuote(c) \/ BootstrapPair(c)
  BY <1>1, <1>8, BaseRead, QuoteRead, PairWritten
<1>9. ASSUME Serve(c) \/ Repeat(c) PROVE BootstrapOf(c)'
  BY <1>1, <1>4, <1>6, <1>7, <1>8, <1>9
     DEF Serve, Curate, SyncStart, SyncPage, SyncRows, SyncUpsert
<1> QED
  BY <1>3, <1>5, <1>9 DEF Next

(* The pairs of a bootstrap that is done have one order, that of its       *)
(* quotes.                                                                 *)
LEMMA AnswerOfPairs ==
    ASSUME OwnIsNew, IdsUnique, BootstrapKnows,
           NEW c \in Calls, Alone(c), pc[c] = "ok"
    PROVE  ListDefaultRatePairs =
               {[i \in DOMAIN Requests[c].quotes |->
                   <<currencies[Requests[c].base].id, currencies[Requests[c].quotes[i]].id>>]}
<1> DEFINE n      == Count(c)
           quotes == Requests[c].quotes
           D      == DOMAIN pairs
           list   == [i \in 1 .. n |-> PairOf(c, i)]
<1>1. n \in Nat /\ DOMAIN quotes = 1 .. n /\ \A i \in 1 .. n : quotes[i] \in Paths
  BY QuotesOf DEF Count
<1>2. OnlyAsked(c) /\ \A i \in 1 .. n : Paired(c, i)
  BY DEF BootstrapKnows, BootstrapOf
<1>3. ASSUME NEW i \in 1 .. n, NEW j \in 1 .. n, PairOf(c, i) = PairOf(c, j) PROVE i = j
  <2>1. currencies[quotes[i]].id = currencies[quotes[j]].id
    BY <1>3 DEF PairOf
  <2>2. Exists(quotes[i]) /\ Exists(quotes[j])
    BY <1>2 DEF Paired
  <2>3. IdOf(quotes[i]) = currencies[quotes[i]].id /\ IdOf(quotes[j]) = currencies[quotes[j]].id
    BY <1>1, <2>2 DEF IdOf, OwnIsNew
  <2>4. quotes[i] = quotes[j]
    BY <1>1, <2>1, <2>2, <2>3 DEF IdsUnique, Exists
  <2> QED
    BY <1>1, <2>4 DEF Alone, IsInjective
<1>4. \A i \in 1 .. n : PairOf(c, i) \in D /\ pairs[PairOf(c, i)] = i - 1
  BY <1>2, <1>3 DEF OnlyAsked, Paired
<1>5. \A ids \in D : \E i \in 1 .. n : ids = PairOf(c, i)
  BY <1>2 DEF OnlyAsked
<1> HIDE DEF n, D
<1>6. list \in Bijection(1 .. n, D)
  <2>1. list \in [1 .. n -> D]
    BY <1>4
  <2>2. list \in Injection(1 .. n, D)
    BY <1>3, <2>1 DEF Injection, IsInjective
  <2>3. list \in Surjection(1 .. n, D)
    BY <1>5, <2>1 DEF Surjection
  <2> QED
    BY <2>2, <2>3 DEF Bijection
<1>7. IsFiniteSet(D) /\ Cardinality(D) = n
  <2>1. IsFiniteSet(1 .. n) /\ Cardinality(1 .. n) = n
    BY <1>1, FS_Interval
  <2>2. ExistsBijection(1 .. n, D)
    BY <1>6 DEF ExistsBijection
  <2> QED
    BY <2>1, <2>2, FS_Bijection
<1>8. SetToSeqs(D) = {f \in [1 .. n -> D] : \A i, j \in 1 .. n : i # j => f[i] # f[j]}
  BY <1>7 DEF SetToSeqs
<1>9. list \in ListDefaultRatePairs
  <2>1. list \in SetToSeqs(D)
    BY <1>3, <1>4, <1>8
  <2>2. \A i, j \in 1 .. n : i < j => pairs[list[i]] <= pairs[list[j]]
    BY <1>1, <1>4
  <2> QED
    BY <2>1, <2>2 DEF ListDefaultRatePairs, D
<1>10. ASSUME NEW f \in ListDefaultRatePairs PROVE f = list
  <2>1. /\ f \in [1 .. n -> D] /\ \A i, j \in 1 .. n : i # j => f[i] # f[j]
        /\ \A i, j \in 1 .. n : i < j => pairs[f[i]] <= pairs[f[j]]
    BY <1>8 DEF ListDefaultRatePairs, D
  <2> DEFINE g == [i \in 1 .. n |-> pairs[f[i]] + 1]
  <2>2. ASSUME NEW i \in 1 .. n
        PROVE  g[i] \in 1 .. n /\ f[i] = PairOf(c, g[i]) /\ pairs[f[i]] = g[i] - 1
    <3>1. PICK k \in 1 .. n : f[i] = PairOf(c, k)
      BY <1>5, <2>1
    <3>2. pairs[f[i]] = k - 1
      BY <1>4, <3>1
    <3>3. g[i] = k
      BY <1>1, <3>2
    <3> QED
      BY <3>1, <3>2, <3>3
  <2>3. g \in [1 .. n -> 1 .. n]
    BY <2>2
  <2>4. ASSUME NEW i \in 1 .. n, NEW j \in 1 .. n, i < j PROVE g[i] < g[j]
    <3>1. f[i] # f[j] /\ pairs[f[i]] <= pairs[f[j]]
      BY <2>1, <2>4
    <3> HIDE DEF g
    <3>2. g[i] # g[j]
      BY <2>2, <3>1
    <3> QED
      BY <1>1, <2>2, <3>1, <3>2
  <2> HIDE DEF g
  <2>5. \A i \in 1 .. n : g[i] = i
    BY <1>1, <2>3, <2>4, AscendingIsIdentity
  <2>6. \A i \in 1 .. n : f[i] = list[i]
    BY <2>2, <2>5
  <2> QED
    BY <2>1, <2>6
<1>11. list = [i \in DOMAIN quotes |->
                  <<currencies[Requests[c].base].id, currencies[quotes[i]].id>>]
  BY <1>1 DEF PairOf
<1> QED
  BY <1>9, <1>10, <1>11

(* BootstrapComplete: for any quotes and any repeats, after the only       *)
(* bootstrap the query of the pairs has one answer, the pairs it was asked *)
(* for in the order of its quotes.                                         *)
THEOREM BootstrapAlwaysComplete == Spec => []BootstrapComplete
<1>1. Init => IdsUnique /\ BootstrapKnows
  <2> SUFFICES ASSUME Init PROVE IdsUnique /\ BootstrapKnows
    OBVIOUS
  <2>1. IdsUnique
    BY DEF Init, IdsUnique, IdOf, NoRow
  <2>2. BootstrapKnows
    BY DEF Init, BootstrapKnows, BootstrapOf, OnlyAsked
  <2> QED
    BY <2>1, <2>2
<1>2. /\ Shape /\ OwnIsNew /\ Read /\ PairsResolve /\ IdsUnique /\ BootstrapKnows
      /\ [Next]_vars
      => (Shape /\ OwnIsNew /\ Read /\ PairsResolve /\ IdsUnique /\ BootstrapKnows)'
  BY RowsStep, PairsStep, IdsStep, BootstrapStep
<1>3. OwnIsNew /\ IdsUnique /\ BootstrapKnows => BootstrapComplete
  BY AnswerOfPairs DEF BootstrapComplete, Alone
<1> QED
  BY <1>1, <1>2, <1>3, InitHolds, PTL DEF Spec
=============================================================================
