--------------------------- MODULE Ingest_proofs ----------------------------
(***************************************************************************)
(* Theorems of module Ingest, for any number of runs, paths, leagues,      *)
(* hours and digests.  Each invariant is shown to hold initially and to be *)
(* kept by every action; Step names the actions a step of Next consists    *)
(* of.                                                                     *)
(***************************************************************************)
EXTENDS Ingest, TLAPS

(* The entries of a well-formed market's pair are paths.                   *)
LEMMA PairPaths ==
    ASSUME TypeOK, NEW r \in Runs, MoreMarkets(r), WellFormed(Market(r))
    PROVE  /\ Market(r) \in Markets
           /\ Market(r).pair[1] \in Paths
           /\ Market(r).pair[2] \in Paths
           /\ ToResolve(r) \in Paths
<1>1. job[r].digest \in Seq(Markets)
  BY DigestsAssumption DEF TypeOK, Jobs
<1>2. idx[r] + 1 \in 1 .. Len(job[r].digest)
  BY <1>1 DEF TypeOK, MoreMarkets
<1>3. Market(r) \in Markets
  BY <1>1, <1>2 DEF Market
<1>4. Market(r).pair \in Seq(Paths)
  BY <1>3 DEF Markets
<1>5. Market(r).pair[1] \in Paths /\ Market(r).pair[2] \in Paths
  BY <1>4 DEF WellFormed
<1> QED
  BY <1>3, <1>5 DEF ToResolve

(* The row a resolved market makes: its type, and what its sides say.      *)
LEMMA NewRowFacts ==
    ASSUME TypeOK, NEW r \in Runs, Resolved(r)
    PROVE  /\ NewRow(r) \in Snapshots
           /\ byPath[r][NewRow(r).sideA.of] = NewRow(r).itemA
           /\ byPath[r][NewRow(r).sideB.of] = NewRow(r).itemB
           /\ NewRow(r).itemA <= NewRow(r).itemB
<1> DEFINE m == Market(r)
           pathA == m.pair[1]
           pathB == m.pair[2]
<1>1. /\ m \in Markets
      /\ pathA \in Paths
      /\ pathB \in Paths
  BY PairPaths DEF Resolved
<1>2. byPath[r][pathA] \in Ids /\ byPath[r][pathB] \in Ids
  BY <1>1 DEF Resolved, Known, TypeOK, Ids
<1>3. job[r].hour \in Hours /\ m.league \in Leagues
  BY <1>1 DEF TypeOK, Jobs, Markets
<1>4. Side(m, pathA) \in Sides /\ Side(m, pathB) \in Sides
  BY <1>1 DEF Side, Sides, Markets
<1> QED
  BY <1>1, <1>2, <1>3, <1>4 DEF NewRow, RowOf, Snapshots, Side, Ids

-----------------------------------------------------------------------------
(* Type correctness.                                                       *)
THEOREM TypeCorrect == Spec => []TypeOK
<1>1. Init => TypeOK
  BY DEF Init, TypeOK, NoIds, Ids
<1>2. TypeOK /\ [Next]_vars => TypeOK'
  <2> SUFFICES ASSUME TypeOK, [Next]_vars PROVE TypeOK'
    OBVIOUS
  <2>1. ASSUME NEW r \in Runs, List(r) PROVE TypeOK'
    BY <2>1 DEF List, ListCurrencies, TypeOK, database
  <2>2. ASSUME NEW r \in Runs, Skip(r) PROVE TypeOK'
    BY <2>2 DEF Skip, TypeOK, database
  <2>3. ASSUME NEW r \in Runs, Resolve(r) PROVE TypeOK'
    <3>1. ToResolve(r) \in Paths
      BY <2>3, PairPaths DEF Resolve
    <3> QED
      BY <2>3, <3>1
         DEF Resolve, UpsertCurrencyPlaceholder, GetCurrencyByPathForUpdate, TypeOK, Ids
  <2>4. ASSUME NEW r \in Runs, WriteSnapshot(r) PROVE TypeOK'
    <3>1. NewRow(r) \in Snapshots
      BY <2>4, NewRowFacts DEF WriteSnapshot
    <3>2. UpsertRows(rows[r], {NewRow(r)}) \subseteq Snapshots
      BY <3>1 DEF UpsertRows, TypeOK
    <3>3. rows' \in [Runs -> SUBSET Snapshots]
      BY <2>4, <3>2 DEF WriteSnapshot, TypeOK
    <3>4. idx' \in [Runs -> Nat]
      BY <2>4 DEF WriteSnapshot, TypeOK
    <3> QED
      BY <2>4, <3>3, <3>4 DEF WriteSnapshot, TypeOK, database
  <2>5. ASSUME NEW r \in Runs, Commit(r) PROVE TypeOK'
    <3>1. ids' \in [Paths -> Nat]
      BY <2>5 DEF Commit, Publish, TypeOK
    <3>2. snapshots' \subseteq Snapshots
      BY <2>5 DEF Commit, Publish, UpsertRows, TypeOK
    <3> QED
      BY <2>5, <3>1, <3>2 DEF Commit, Publish, EndTx, TypeOK, NoIds
  <2>6. ASSUME NEW r \in Runs, Fail(r) PROVE TypeOK'
    BY <2>6 DEF Fail, EndTx, TypeOK, NoIds, database
  <2>7. ASSUME NEW path \in Paths, Describe(path) PROVE TypeOK'
    BY <2>7 DEF Describe, TypeOK, locals, Ids
  <2>8. CASE UNCHANGED vars
    BY <2>8 DEF TypeOK, vars, database, locals
  <2> QED
    BY <2>1, <2>2, <2>3, <2>4, <2>5, <2>6, <2>7, <2>8
       DEF Next, Advance, Finished
<1> QED
  BY <1>1, <1>2, PTL DEF Spec
-----------------------------------------------------------------------------
(* References: what makes NoOrphans, SidesMatch and IdsStable hold.        *)

(* Only a path without a row can get an id: IdsStable, step by step.       *)
LEMMA IdsKept ==
    ASSUME TypeOK, OwnLocked, [Next]_vars
    PROVE  \A p \in Paths : ids[p] # 0 => ids'[p] = ids[p]
<1>1. ASSUME NEW r \in Runs, Commit(r)
      PROVE  \A p \in Paths : ids[p] # 0 => ids'[p] = ids[p]
  BY <1>1 DEF Commit, Publish, OwnLocked, TypeOK
<1>2. ASSUME NEW path \in Paths, Describe(path)
      PROVE  \A p \in Paths : ids[p] # 0 => ids'[p] = ids[p]
  BY <1>2 DEF Describe, TypeOK
<1> QED
  BY <1>1, <1>2
     DEF Next, Advance, Finished, List, Skip, Resolve, WriteSnapshot, Fail,
         vars, database

(* Every step of every run and every admin call keeps References.          *)
LEMMA ReferencesStep ==
    ASSUME TypeOK, References, [Next]_vars
    PROVE  References'
<1> USE DEF References
<1>1. ASSUME NEW r \in Runs, List(r) PROVE References'
  <2>1. SidesMatch' /\ OwnLocked'
    BY <1>1 DEF List, SidesMatch, OwnLocked, database
  <2>2. ByPathValid'
    BY <1>1 DEF List, ListCurrencies, ByPathValid, TypeOK, database
  <2>3. RowsResolved'
    BY <1>1 DEF List, RowsResolved, TypeOK, database
  <2> QED
    BY <2>1, <2>2, <2>3
<1>2. ASSUME NEW r \in Runs, Skip(r) PROVE References'
  BY <1>2 DEF Skip, SidesMatch, OwnLocked, ByPathValid, RowsResolved, database
<1>3. ASSUME NEW r \in Runs, Resolve(r) PROVE References'
  <2> DEFINE path == ToResolve(r)
  <2>1. path \in Paths
    BY <1>3, PairPaths DEF Resolve
  <2>2. byPath[r][path] = 0 /\ CurrencyUnlocked(r, path)
    BY <1>3 DEF Resolve, UpsertCurrencyPlaceholder, Known
  <2>3. SidesMatch'
    BY <1>3 DEF Resolve, SidesMatch
  <2>4. OwnLocked'
    <3>1. \A s \in Runs, p \in Paths :
             own'[s][p] # 0 => p \in held'[s] /\ ids'[p] = 0
      BY <1>3, <2>1 DEF Resolve, UpsertCurrencyPlaceholder, OwnLocked, TypeOK
    <3>2. \A s, t \in Runs : s # t => held'[s] \intersect held'[t] = {}
      BY <1>3, <2>1, <2>2
         DEF Resolve, UpsertCurrencyPlaceholder, OwnLocked, TypeOK, CurrencyUnlocked
    <3> QED
      BY <3>1, <3>2 DEF OwnLocked
  <2>5. ByPathValid'
    BY <1>3, <2>1
       DEF Resolve, UpsertCurrencyPlaceholder, GetCurrencyByPathForUpdate,
           ByPathValid, TypeOK, Ids
  <2>6. RowsResolved'
    <3> SUFFICES ASSUME NEW s \in Runs, NEW row \in rows[s]
                 PROVE  /\ pc[s] = "tx"
                        /\ byPath'[s][row.sideA.of] = row.itemA
                        /\ byPath'[s][row.sideB.of] = row.itemB
      BY <1>3 DEF Resolve, RowsResolved
    <3>1. /\ row.itemA # 0
          /\ row.itemB # 0
          /\ row.sideA.of \in Paths
          /\ row.sideB.of \in Paths
      BY DEF TypeOK, Snapshots, Sides, Ids
    <3>2. /\ pc[s] = "tx"
          /\ byPath[s][row.sideA.of] = row.itemA
          /\ byPath[s][row.sideB.of] = row.itemB
      BY DEF RowsResolved
    <3>3. \A p \in Paths : byPath[s][p] # 0 => byPath'[s][p] = byPath[s][p]
      BY <1>3, <2>1, <2>2 DEF Resolve, TypeOK
    <3> QED
      BY <3>1, <3>2, <3>3
  <2> QED
    BY <2>3, <2>4, <2>5, <2>6
<1>4. ASSUME NEW r \in Runs, WriteSnapshot(r) PROVE References'
  <2>1. SidesMatch' /\ OwnLocked' /\ ByPathValid'
    BY <1>4 DEF WriteSnapshot, SidesMatch, OwnLocked, ByPathValid, database
  <2>2. pc[r] = "tx"
    BY <1>4 DEF WriteSnapshot, Resolved, MoreMarkets
  <2>3. /\ byPath[r][NewRow(r).sideA.of] = NewRow(r).itemA
        /\ byPath[r][NewRow(r).sideB.of] = NewRow(r).itemB
    BY <1>4, NewRowFacts DEF WriteSnapshot
  <2>4. rows'[r] \subseteq rows[r] \union {NewRow(r)}
    BY <1>4 DEF WriteSnapshot, UpsertRows, TypeOK
  <2>5. \A s \in Runs : s # r => rows'[s] = rows[s]
    BY <1>4 DEF WriteSnapshot, TypeOK
  <2>6. pc' = pc /\ byPath' = byPath
    BY <1>4 DEF WriteSnapshot
  <2>7. RowsResolved'
    BY <2>2, <2>3, <2>4, <2>5, <2>6 DEF RowsResolved
  <2> QED
    BY <2>1, <2>7
<1>5. ASSUME NEW r \in Runs, Commit(r) PROVE References'
  <2>1. /\ own' = [own EXCEPT ![r] = NoIds]
        /\ held' = [held EXCEPT ![r] = {}]
        /\ rows' = [rows EXCEPT ![r] = {}]
        /\ byPath' = byPath
        /\ ids' = [p \in Paths |-> IF own[r][p] # 0 THEN own[r][p] ELSE ids[p]]
        /\ snapshots' \subseteq snapshots \union rows[r]
        /\ pc[r] = "tx" /\ pc'[r] # "tx"
        /\ \A s \in Runs : s # r => pc'[s] = pc[s]
    BY <1>5 DEF Commit, Publish, EndTx, UpsertRows, TypeOK
  <2>2. \A p \in Paths : ids[p] # 0 => ids'[p] = ids[p]
    BY <2>1 DEF OwnLocked
  <2>3. SidesMatch'
    <3> SUFFICES ASSUME NEW row \in snapshots'
                 PROVE  /\ ids'[row.sideA.of] = row.itemA
                        /\ ids'[row.sideB.of] = row.itemB
      BY DEF SidesMatch
    <3> row \in Snapshots
      BY <2>1 DEF TypeOK
    <3>1. /\ row.itemA # 0
          /\ row.itemB # 0
          /\ row.sideA.of \in Paths
          /\ row.sideB.of \in Paths
      BY DEF Snapshots, Sides, Ids
    <3>2. CASE row \in snapshots
      BY <2>2, <3>1, <3>2 DEF SidesMatch
    <3>3. CASE row \in rows[r]
      <4>1. \A p \in Paths : byPath[r][p] # 0 => ids'[p] = byPath[r][p]
        BY <2>1, <2>2 DEF ByPathValid
      <4> QED
        BY <3>1, <3>3, <4>1 DEF RowsResolved
    <3> QED
      BY <2>1, <3>2, <3>3
  <2>4. OwnLocked'
    <3>1. \A s \in Runs, p \in Paths :
             own'[s][p] # 0 => p \in held'[s] /\ ids'[p] = 0
      <4> SUFFICES ASSUME NEW s \in Runs, NEW p \in Paths, own'[s][p] # 0
                   PROVE  p \in held'[s] /\ ids'[p] = 0
        OBVIOUS
      <4>1. s # r /\ own[s][p] # 0 /\ held'[s] = held[s]
        BY <2>1 DEF NoIds, TypeOK
      <4>2. p \in held[s] /\ ids[p] = 0 /\ p \notin held[r]
        BY <4>1 DEF OwnLocked
      <4>3. own[r][p] = 0
        BY <4>2 DEF OwnLocked
      <4> QED
        BY <2>1, <4>1, <4>2, <4>3
    <3>2. \A s, t \in Runs : s # t => held'[s] \intersect held'[t] = {}
      BY <2>1 DEF OwnLocked, TypeOK
    <3> QED
      BY <3>1, <3>2 DEF OwnLocked
  <2>5. ByPathValid'
    <3> SUFFICES ASSUME NEW s \in Runs, NEW p \in Paths,
                        pc'[s] = "tx", byPath[s][p] # 0
                 PROVE  byPath[s][p] \in {ids'[p], own'[s][p]}
      BY <2>1 DEF ByPathValid
    <3>1. s # r /\ pc[s] = "tx"
      BY <2>1
    <3>2. own'[s] = own[s] /\ byPath[s][p] \in {ids[p], own[s][p]}
      BY <2>1, <3>1 DEF ByPathValid, TypeOK
    <3> QED
      BY <2>2, <3>2
  <2>6. RowsResolved'
    BY <2>1 DEF RowsResolved, TypeOK
  <2> QED
    BY <2>3, <2>4, <2>5, <2>6
<1>6. ASSUME NEW r \in Runs, Fail(r) PROVE References'
  <2>1. /\ own' = [own EXCEPT ![r] = NoIds]
        /\ held' = [held EXCEPT ![r] = {}]
        /\ rows' = [rows EXCEPT ![r] = {}]
        /\ UNCHANGED <<byPath, ids, snapshots>>
        /\ pc' = [pc EXCEPT ![r] = "failed"]
    BY <1>6 DEF Fail, EndTx, database
  <2>2. SidesMatch'
    BY <2>1 DEF SidesMatch
  <2>3. OwnLocked'
    BY <2>1 DEF OwnLocked, TypeOK, NoIds
  <2>4. ByPathValid'
    BY <2>1 DEF ByPathValid, TypeOK
  <2>5. RowsResolved'
    BY <2>1 DEF RowsResolved, TypeOK
  <2> QED
    BY <2>2, <2>3, <2>4, <2>5
<1>7. ASSUME NEW path \in Paths, Describe(path) PROVE References'
  <2>1. /\ UNCHANGED <<snapshots, pc, byPath, own, held, rows>>
        /\ \A p \in Paths : ids'[p] # ids[p] => p = path /\ ids[p] = 0
        /\ \A s \in Runs : path \notin held[s]
    BY <1>7 DEF Describe, locals, TypeOK
  <2>2. SidesMatch'
    <3>1. \A row \in snapshots : /\ row.itemA # 0 /\ row.itemB # 0
                                 /\ row.sideA.of \in Paths
                                 /\ row.sideB.of \in Paths
      BY DEF TypeOK, Snapshots, Sides, Ids
    <3> QED
      BY <2>1, <3>1 DEF SidesMatch
  <2>3. OwnLocked'
    BY <2>1 DEF OwnLocked
  <2>4. ByPathValid'
    BY <2>1 DEF ByPathValid
  <2>5. RowsResolved'
    BY <2>1 DEF RowsResolved
  <2> QED
    BY <2>2, <2>3, <2>4, <2>5
<1>8. CASE UNCHANGED vars
  BY <1>8 DEF SidesMatch, OwnLocked, ByPathValid, RowsResolved, vars, database, locals
<1> QED
  BY <1>1, <1>2, <1>3, <1>4, <1>5, <1>6, <1>7, <1>8
     DEF Next, Advance, Finished

(* Every reachable state has its references in order.                      *)
THEOREM ReferencesHold == Spec => []References
<1>1. Init => References
  BY DEF Init, References, SidesMatch, OwnLocked, ByPathValid, RowsResolved,
         NoIds
<1>2. TypeOK /\ References /\ [Next]_vars => References'
  BY ReferencesStep
<1> QED
  BY <1>1, <1>2, TypeCorrect, PTL DEF Spec

(* The numbers of a stored row belong to the currencies its ids name.      *)
THEOREM SidesAlwaysMatch == Spec => []SidesMatch
BY ReferencesHold, PTL DEF References

(* No snapshot ever refers to a currency that has no row.                  *)
THEOREM NeverOrphans == Spec => []NoOrphans
<1>1. TypeOK /\ SidesMatch => NoOrphans
  BY DEF TypeOK, SidesMatch, NoOrphans, OrphanRows, Snapshots, Sides
<1> QED
  BY <1>1, TypeCorrect, SidesAlwaysMatch, PTL

(* A currency never changes its id.                                        *)
THEOREM IdsNeverChange == Spec => IdsStable
<1>1. TypeOK /\ References /\ [Next]_vars
         => [\A p \in Paths : ids[p] # 0 => ids'[p] = ids[p]]_vars
  BY IdsKept DEF References
<1> QED
  BY <1>1, TypeCorrect, ReferencesHold, PTL DEF Spec, IdsStable
-----------------------------------------------------------------------------
(* Canonical rows: what makes OneRowPerPair hold.                          *)

(* An upsert keeps the unique key.                                         *)
LEMMA UpsertCanonical ==
    ASSUME NEW table, NEW new, Canonical(table), Canonical(new)
    PROVE  Canonical(UpsertRows(table, new))
BY DEF Canonical, UpsertRows

(* Every step keeps rows in their canonical order and the unique key.      *)
LEMMA CanonicalStep ==
    ASSUME TypeOK, CanonicalRows, [Next]_vars
    PROVE  CanonicalRows'
<1>1. ASSUME NEW r \in Runs, WriteSnapshot(r) PROVE CanonicalRows'
  <2>1. Canonical({NewRow(r)})
    BY <1>1, NewRowFacts DEF WriteSnapshot, Canonical
  <2>2. Canonical(UpsertRows(rows[r], {NewRow(r)}))
    BY <2>1, UpsertCanonical DEF CanonicalRows
  <2>3. /\ snapshots' = snapshots
        /\ rows' = [rows EXCEPT ![r] = UpsertRows(rows[r], {NewRow(r)})]
    BY <1>1 DEF WriteSnapshot, database
  <2> QED
    BY <2>2, <2>3 DEF CanonicalRows, TypeOK, Canonical
<1>2. ASSUME NEW r \in Runs, Commit(r) PROVE CanonicalRows'
  <2>1. Canonical(UpsertRows(snapshots, rows[r]))
    BY UpsertCanonical DEF CanonicalRows
  <2>2. Canonical({})
    BY DEF Canonical
  <2>3. /\ snapshots' = UpsertRows(snapshots, rows[r])
        /\ rows' = [rows EXCEPT ![r] = {}]
    BY <1>2 DEF Commit, Publish, EndTx
  <2> QED
    BY <2>1, <2>2, <2>3 DEF CanonicalRows, TypeOK, Canonical
<1>3. ASSUME NEW r \in Runs, Fail(r) PROVE CanonicalRows'
  <2>1. /\ snapshots' = snapshots
        /\ rows' = [rows EXCEPT ![r] = {}]
    BY <1>3 DEF Fail, EndTx, database
  <2> QED
    BY <2>1 DEF CanonicalRows, TypeOK, Canonical
<1>4. CASE UNCHANGED <<snapshots, rows>>
  BY <1>4 DEF CanonicalRows, Canonical
<1> QED
  BY <1>1, <1>2, <1>3, <1>4
     DEF Next, Advance, Finished, List, Skip, Resolve, Describe,
         vars, database, locals

(* An hour never has two rows for one pair of currencies in a league.      *)
THEOREM NeverTwoRowsPerPair == Spec => []OneRowPerPair
<1>1. Init => CanonicalRows
  BY DEF Init, CanonicalRows, Canonical
<1>2. TypeOK /\ CanonicalRows /\ [Next]_vars => CanonicalRows'
  BY CanonicalStep
<1>3. TypeOK /\ CanonicalRows => OneRowPerPair
  <2> SUFFICES ASSUME TypeOK, CanonicalRows,
                      NEW s \in snapshots, NEW t \in snapshots,
                      s.hour = t.hour, s.league = t.league,
                      {s.itemA, s.itemB} = {t.itemA, t.itemB}
               PROVE  s = t
    BY DEF OneRowPerPair
  <2>1. s \in Snapshots /\ t \in Snapshots
    BY DEF TypeOK
  <2>2. /\ s.itemA \in Nat /\ s.itemB \in Nat /\ s.itemA <= s.itemB
        /\ t.itemA \in Nat /\ t.itemB \in Nat /\ t.itemA <= t.itemB
    BY <2>1 DEF Snapshots, Ids, CanonicalRows, Canonical
  <2>3. s.itemA = t.itemA /\ s.itemB = t.itemB
    BY <2>2
  <2> QED
    BY <2>3 DEF CanonicalRows, Canonical, Key
<1> QED
  BY <1>1, <1>2, <1>3, TypeCorrect, PTL DEF Spec
-----------------------------------------------------------------------------
(* Ids: two currencies never get the same one.                             *)

(* Every step gives new ids only, and none twice.                          *)
LEMMA UniqueStep ==
    ASSUME TypeOK, OwnLocked, UniqueIds, [Next]_vars
    PROVE  UniqueIds'
<1>1. nextId \in Nat /\ nextId # 0
  BY DEF TypeOK, Ids
<1>2. ASSUME NEW r \in Runs, Resolve(r) PROVE UniqueIds'
  <2> DEFINE path == ToResolve(r)
  <2>1. path \in Paths
    BY <1>2, PairPaths DEF Resolve
  <2>2. ids' = ids
    BY <1>2 DEF Resolve
  <2>3. CASE ids[path] = 0 /\ own[r][path] = 0
    <3>1. own' = [own EXCEPT ![r][path] = nextId] /\ nextId' = nextId + 1
      BY <1>2, <2>3 DEF Resolve, UpsertCurrencyPlaceholder
    <3> HIDE DEF path
    <3>2. \A s \in Runs, p \in Paths :
              own'[s][p] = IF s = r /\ p = path THEN nextId ELSE own[s][p]
      BY <2>1, <3>1 DEF TypeOK
    <3>3. \A p \in Paths : ids[p] \in Nat /\ \A s \in Runs : own[s][p] \in Nat
      BY DEF TypeOK
    <3>4. /\ \A p \in Paths : ids'[p] < nextId'
          /\ \A s \in Runs, p \in Paths : own'[s][p] < nextId'
      BY <1>1, <2>2, <3>1, <3>2, <3>3 DEF UniqueIds
    <3>5. \A p, q \in Paths : (ids'[p] = ids'[q] /\ ids'[p] # 0) => p = q
      BY <2>2 DEF UniqueIds
    <3>6. \A s \in Runs, p, q \in Paths : own'[s][p] # 0 => own'[s][p] # ids'[q]
      BY <1>1, <2>2, <3>2, <3>3 DEF UniqueIds
    <3>7. \A s, t \in Runs, p, q \in Paths :
              (own'[s][p] # 0 /\ own'[s][p] = own'[t][q]) => s = t /\ p = q
      BY <1>1, <3>2, <3>3 DEF UniqueIds
    <3> QED
      BY <3>4, <3>5, <3>6, <3>7 DEF UniqueIds
  <2>4. CASE ~(ids[path] = 0 /\ own[r][path] = 0)
    BY <1>2, <2>2, <2>4 DEF Resolve, UpsertCurrencyPlaceholder, UniqueIds
  <2> QED
    BY <2>3, <2>4
<1>3. ASSUME NEW r \in Runs, Commit(r) PROVE UniqueIds'
  <2>1. /\ \A p \in Paths : ids'[p] = IF own[r][p] # 0 THEN own[r][p] ELSE ids[p]
        /\ \A s \in Runs, p \in Paths : own'[s][p] = IF s = r THEN 0 ELSE own[s][p]
        /\ nextId' = nextId
    BY <1>3 DEF Commit, Publish, EndTx, NoIds, TypeOK
  <2>2. \A p \in Paths : ids'[p] < nextId' /\ \A s \in Runs : own'[s][p] < nextId'
    BY <1>1, <2>1 DEF UniqueIds
  <2>3. \A p, q \in Paths : (ids'[p] = ids'[q] /\ ids'[p] # 0) => p = q
    BY <2>1 DEF UniqueIds
  <2>4. \A s \in Runs, p, q \in Paths : own'[s][p] # 0 => own'[s][p] # ids'[q]
    BY <2>1 DEF UniqueIds
  <2>5. \A s, t \in Runs, p, q \in Paths :
            (own'[s][p] # 0 /\ own'[s][p] = own'[t][q]) => s = t /\ p = q
    BY <2>1 DEF UniqueIds
  <2> QED
    BY <2>2, <2>3, <2>4, <2>5 DEF UniqueIds
<1>4. ASSUME NEW r \in Runs, Fail(r) PROVE UniqueIds'
  <2>1. /\ ids' = ids /\ nextId' = nextId
        /\ \A s \in Runs, p \in Paths : own'[s][p] = IF s = r THEN 0 ELSE own[s][p]
    BY <1>4 DEF Fail, EndTx, database, NoIds, TypeOK
  <2>2. 0 < nextId
    BY <1>1
  <2> QED
    BY <2>1, <2>2 DEF UniqueIds
<1>5. ASSUME NEW path \in Paths, Describe(path) PROVE UniqueIds'
  <2>1. own' = own
    BY <1>5 DEF Describe, locals
  <2>2. CASE ids[path] = 0
    <3>1. /\ \A p \in Paths : ids'[p] = IF p = path THEN nextId ELSE ids[p]
          /\ nextId' = nextId + 1
      BY <1>5, <2>2 DEF Describe, TypeOK
    <3>2. \A p \in Paths : ids[p] \in Nat /\ \A s \in Runs : own[s][p] \in Nat
      BY DEF TypeOK
    <3>3. \A p \in Paths : ids'[p] < nextId' /\ \A s \in Runs : own'[s][p] < nextId'
      BY <1>1, <2>1, <3>1, <3>2 DEF UniqueIds
    <3>4. \A p, q \in Paths : (ids'[p] = ids'[q] /\ ids'[p] # 0) => p = q
      BY <1>1, <3>1, <3>2 DEF UniqueIds
    <3>5. \A s \in Runs, p, q \in Paths : own'[s][p] # 0 => own'[s][p] # ids'[q]
      BY <1>1, <2>1, <3>1, <3>2 DEF UniqueIds
    <3> QED
      BY <2>1, <3>3, <3>4, <3>5 DEF UniqueIds
  <2>3. CASE ids[path] # 0
    BY <1>5, <2>1, <2>3 DEF Describe, UniqueIds
  <2> QED
    BY <2>2, <2>3
<1>6. CASE UNCHANGED <<ids, nextId, own>>
  BY <1>6 DEF UniqueIds
<1> QED
  BY <1>2, <1>3, <1>4, <1>5, <1>6
     DEF Next, Advance, Finished, List, Skip, WriteSnapshot, vars, database, locals

-----------------------------------------------------------------------------
(* Progress: a transaction holds exactly what its digest asks for.         *)

(* MarketStore makes the rows of a market as Ingest does.                  *)
LEMMA SameRow ==
    ASSUME NEW hour, NEW m, NEW id
    PROVE  Store!RowOf(hour, m, id) = RowOf(hour, m, id)
BY DEF Store!RowOf, RowOf, Store!Side, Side

(* The accepted markets of a digest are well-formed.                       *)
LEMMA AcceptedMarkets ==
    ASSUME TypeOK, NEW r \in Runs, NEW i \in Store!Accepted(job[r].digest)
    PROVE  /\ i \in 1 .. Len(job[r].digest)
           /\ WellFormed(job[r].digest[i])
           /\ job[r].digest[i].pair[1] \in Paths
           /\ job[r].digest[i].pair[2] \in Paths
<1>1. job[r].digest \in Seq(Markets)
  BY DigestsAssumption DEF TypeOK, Jobs
<1>2. i \in 1 .. Len(job[r].digest) /\ WellFormed(job[r].digest[i])
  BY <1>1 DEF Store!Accepted, Store!WellFormed, WellFormed
<1>3. job[r].digest[i] \in Markets
  BY <1>1, <1>2
<1>4. job[r].digest[i].pair \in Seq(Paths)
  BY <1>3 DEF Markets
<1> QED
  BY <1>2, <1>4 DEF WellFormed

(* The market a run is at is accepted if it is well-formed.                *)
LEMMA NextIsAccepted ==
    ASSUME TypeOK, NEW r \in Runs, MoreMarkets(r)
    PROVE  /\ idx[r] + 1 \in 1 .. Len(job[r].digest)
           /\ idx[r] + 1 \in Store!Accepted(job[r].digest) <=> WellFormed(Market(r))
<1>1. job[r].digest \in Seq(Markets)
  BY DigestsAssumption DEF TypeOK, Jobs
<1>2. idx[r] + 1 \in 1 .. Len(job[r].digest)
  BY <1>1 DEF TypeOK, MoreMarkets
<1> QED
  BY <1>1, <1>2 DEF Store!Accepted, Store!WellFormed, WellFormed, Market

(* What a transaction holds is untouched by the steps of others.           *)
LEMMA WrittenKept ==
    ASSUME NEW r \in Runs, Written(r), job' = job, idx'[r] = idx[r],
           own'[r] = own[r], rows'[r] = rows[r], byPath'[r] = byPath[r]
    PROVE  Written(r)'
BY DEF Written, Seen, RowAt, Known

(* Every step keeps Progress.                                              *)
LEMMA ProgressStep ==
    ASSUME TypeOK, References, Progress, [Next]_vars
    PROVE  Progress'
<1> USE DEF References
<1>1. ASSUME NEW r \in Runs, List(r) PROVE Progress'
  <2>1. /\ pc[r] = "start" /\ pc' = [pc EXCEPT ![r] = "tx"]
        /\ byPath' = [byPath EXCEPT ![r] = ListCurrencies]
        /\ UNCHANGED <<job, idx, own, held, rows>>
    BY <1>1 DEF List
  <2>2. idx[r] = 0 /\ own[r] = NoIds /\ rows[r] = {}
    BY <2>1 DEF Progress, RowsResolved
  <2>3. Seen(r)' = {}
    <3>1. \A i \in Store!Accepted(job[r].digest) : i \in 1 .. Len(job[r].digest)
      BY AcceptedMarkets
    <3> QED
      BY <2>1, <2>2, <3>1 DEF Seen
  <2>4. Len(job[r].digest) \in Nat
    BY DigestsAssumption DEF TypeOK, Jobs
  <2>5. Written(r)'
    BY <2>1, <2>2, <2>3, <2>4 DEF Written, NoIds
  <2>6. ASSUME NEW s \in Runs, s # r, pc'[s] = "tx" PROVE Written(s)'
    <3>1. pc[s] = "tx" /\ byPath'[s] = byPath[s]
      BY <2>1, <2>6 DEF TypeOK
    <3> QED
      BY <2>1, <3>1, WrittenKept DEF Progress
  <2>7. \A s \in Runs : pc'[s] = "start" => pc[s] = "start"
    BY <2>1 DEF TypeOK
  <2> QED
    BY <2>1, <2>5, <2>6, <2>7 DEF Progress
<1>2. ASSUME NEW r \in Runs, Skip(r) PROVE Progress'
  <2>1. /\ pc[r] = "tx" /\ idx' = [idx EXCEPT ![r] = @ + 1]
        /\ UNCHANGED <<job, pc, byPath, own, rows>>
    BY <1>2 DEF Skip, MoreMarkets
  <2>2. /\ idx[r] + 1 \in 1 .. Len(job[r].digest)
        /\ idx[r] + 1 \notin Store!Accepted(job[r].digest)
    BY <1>2, NextIsAccepted DEF Skip
  <2>3. Seen(r)' = Seen(r)
    <3>1. \A i \in Store!Accepted(job[r].digest) : i \in Nat
      BY AcceptedMarkets
    <3>2. idx[r] \in Nat /\ idx'[r] = idx[r] + 1 /\ job' = job
      BY <2>1 DEF TypeOK
    <3> QED
      BY <2>2, <3>1, <3>2 DEF Seen
  <2>4. Written(r)
    BY <2>1 DEF Progress
  <2>5. Written(r)'
    <3>1. idx'[r] <= Len(job'[r].digest)
      BY <2>1, <2>2 DEF TypeOK
    <3> QED
      BY <2>1, <2>3, <2>4, <3>1 DEF Written, Known, RowAt
  <2>6. ASSUME NEW s \in Runs, s # r, pc'[s] = "tx" PROVE Written(s)'
    BY <2>1, <2>6, WrittenKept DEF Progress, TypeOK
  <2>7. \A s \in Runs : pc'[s] = "start" => idx'[s] = 0 /\ own'[s] = NoIds
    BY <2>1 DEF Progress, TypeOK
  <2> QED
    BY <2>5, <2>6, <2>7 DEF Progress
<1>3. ASSUME NEW r \in Runs, Resolve(r) PROVE Progress'
  <2> DEFINE path == ToResolve(r)
  <2>1. /\ pc[r] = "tx" /\ path \in Paths /\ byPath[r][path] = 0
        /\ UNCHANGED <<pc, job, idx, rows>>
    BY <1>3, PairPaths DEF Resolve, MoreMarkets, Known
  <2>2. /\ byPath' = [byPath EXCEPT ![r][path] = GetCurrencyByPathForUpdate(r, path)]
        /\ \A s \in Runs, p \in Paths : own'[s][p] # own[s][p] => s = r /\ p = path
        /\ own' \in [Runs -> [Paths -> Nat]]
    <3>1. own' \in [Runs -> [Paths -> Nat]]
      BY <1>3, <2>1 DEF Resolve, UpsertCurrencyPlaceholder, TypeOK, Ids
    <3>2. \A s \in Runs, p \in Paths : own'[s][p] # own[s][p] => s = r /\ p = path
      BY <1>3, <2>1 DEF Resolve, UpsertCurrencyPlaceholder, TypeOK
    <3> QED
      BY <1>3, <3>1, <3>2 DEF Resolve
  <2>3. path \in Store!Mentioned(job[r].digest)
    <3>1. idx[r] + 1 \in Store!Accepted(job[r].digest)
      BY <1>3, NextIsAccepted DEF Resolve
    <3> QED
      BY <3>1 DEF Store!Mentioned, ToResolve, Market
  <2>4. Written(r)
    BY <2>1 DEF Progress
  <2>5. Seen(r)' = Seen(r)
    BY <2>1 DEF Seen
  <2>6. \A p \in Paths : byPath[r][p] # 0 => byPath'[r][p] = byPath[r][p]
    BY <2>1, <2>2 DEF TypeOK
  <2>7. ASSUME NEW i \in Seen(r), NEW k \in {1, 2}
        PROVE  Known(r, job[r].digest[i].pair[k])' /\ RowAt(r, i)' = RowAt(r, i)
    <3> DEFINE pair == job[r].digest[i].pair
    <3>1. pair[1] \in Paths /\ pair[2] \in Paths
      BY AcceptedMarkets DEF Seen
    <3>2. byPath[r][pair[1]] # 0 /\ byPath[r][pair[2]] # 0
      BY <2>4 DEF Written, Known
    <3>3. byPath'[r][pair[1]] = byPath[r][pair[1]] /\ byPath'[r][pair[2]] = byPath[r][pair[2]]
      BY <2>6, <3>1, <3>2
    <3> QED
      BY <2>1, <3>2, <3>3 DEF RowAt, RowOf, Known
  <2>8. Written(r)'
    <3>1. \A p \in Paths : own'[r][p] # 0 => p \in Store!Mentioned(job'[r].digest)
      BY <2>1, <2>2, <2>3, <2>4 DEF Written
    <3>2. rows'[r] = {RowAt(r, i)' : i \in {j \in Seen(r)' :
              \A k \in Seen(r)' : k > j => Key(RowAt(r, k)') # Key(RowAt(r, j)')}}
      <4>1. \A i \in Seen(r) : RowAt(r, i)' = RowAt(r, i)
        BY <2>7
      <4>2. {j \in Seen(r) : \A k \in Seen(r) : k > j => Key(RowAt(r, k)') # Key(RowAt(r, j)')}
            = {j \in Seen(r) : \A k \in Seen(r) : k > j => Key(RowAt(r, k)) # Key(RowAt(r, j))}
        BY <4>1
      <4> QED
        BY <2>1, <2>4, <2>5, <4>1, <4>2 DEF Written
    <3> QED
      BY <2>1, <2>4, <2>5, <2>7, <3>1, <3>2 DEF Written, Key
  <2>9. ASSUME NEW s \in Runs, s # r, pc'[s] = "tx" PROVE Written(s)'
    <3>1. byPath'[s] = byPath[s]
      BY <2>2, <2>9 DEF TypeOK
    <3>2. own'[s] = own[s]
      BY <2>2, <2>9 DEF TypeOK
    <3> QED
      BY <2>1, <2>9, <3>1, <3>2, WrittenKept DEF Progress
  <2>10. ASSUME NEW s \in Runs, pc'[s] = "start" PROVE idx'[s] = 0 /\ own'[s] = NoIds
    <3>1. s # r
      BY <2>1, <2>10
    <3>2. own'[s] = own[s]
      BY <2>2, <3>1 DEF TypeOK
    <3> QED
      BY <2>1, <2>10, <3>2 DEF Progress
  <2> QED
    BY <2>8, <2>9, <2>10 DEF Progress
<1>4. ASSUME NEW r \in Runs, WriteSnapshot(r) PROVE Progress'
  <2> DEFINE n == idx[r] + 1
  <2>1. /\ pc[r] = "tx" /\ Resolved(r) /\ UNCHANGED <<job, pc, byPath, own>>
        /\ idx' = [idx EXCEPT ![r] = @ + 1]
        /\ rows' = [rows EXCEPT ![r] = UpsertRows(@, {NewRow(r)})]
    BY <1>4 DEF WriteSnapshot, Resolved, MoreMarkets
  <2>2. /\ n \in 1 .. Len(job[r].digest)
        /\ n \in Store!Accepted(job[r].digest)
    BY <2>1, NextIsAccepted DEF Resolved
  <2>3. Seen(r)' = Seen(r) \union {n} /\ \A i \in Seen(r) : i \in Nat /\ i < n
    <3>1. \A i \in Store!Accepted(job[r].digest) : i \in Nat
      BY AcceptedMarkets
    <3>2. idx[r] \in Nat /\ idx'[r] = idx[r] + 1 /\ job' = job
      BY <2>1 DEF TypeOK
    <3> QED
      BY <2>2, <3>1, <3>2 DEF Seen
  <2>4. Written(r)
    BY <2>1 DEF Progress
  <2>5. \A i : RowAt(r, i)' = RowAt(r, i)
    BY <2>1 DEF RowAt
  <2>6. RowAt(r, n) = NewRow(r)
    BY DEF RowAt, NewRow, Market
  <2>7. rows'[r] = {row \in rows[r] : Key(RowAt(r, n)) # Key(row)} \union {RowAt(r, n)}
    BY <2>1, <2>6 DEF UpsertRows, TypeOK
  <2>8. rows'[r] = {RowAt(r, i) : i \in {j \in Seen(r) \union {n} :
            \A k \in Seen(r) \union {n} : k > j => Key(RowAt(r, k)) # Key(RowAt(r, j))}}
    <3> DEFINE last(j) == \A k \in Seen(r) : k > j => Key(RowAt(r, k)) # Key(RowAt(r, j))
               all == Seen(r) \union {n}
    <3>1. rows[r] = {RowAt(r, i) : i \in {j \in Seen(r) : last(j)}}
      BY <2>4 DEF Written
    <3>2. ASSUME NEW j \in all
          PROVE  (\A k \in all : k > j => Key(RowAt(r, k)) # Key(RowAt(r, j)))
                 <=> j = n \/ (j \in Seen(r) /\ last(j) /\ Key(RowAt(r, n)) # Key(RowAt(r, j)))
      <4>1. n \in Nat
        BY <2>2
      <4> HIDE DEF n
      <4>2. CASE j = n
        BY <2>3, <4>1, <4>2
      <4>3. CASE j # n
        BY <2>3, <4>1, <4>3
      <4> QED
        BY <4>2, <4>3
    <3> HIDE DEF last, n
    <3>3. {j \in all : \A k \in all : k > j => Key(RowAt(r, k)) # Key(RowAt(r, j))}
          = {j \in Seen(r) : last(j) /\ Key(RowAt(r, n)) # Key(RowAt(r, j))} \union {n}
      BY <3>2
    <3>4. rows'[r] = {RowAt(r, i) : i \in {j \in Seen(r) :
                          last(j) /\ Key(RowAt(r, n)) # Key(RowAt(r, j))} \union {n}}
      BY <2>7, <3>1
    <3> QED
      BY <3>3, <3>4
  <2>9. Written(r)'
    <3>1. idx'[r] <= Len(job'[r].digest)
      BY <2>1, <2>2 DEF TypeOK
    <3>2. \A i \in Seen(r)', k \in {1, 2} : Known(r, job[r].digest[i].pair[k])'
      BY <2>1, <2>3, <2>4 DEF Written, Known, Resolved, Market
    <3>3. rows'[r] = {RowAt(r, i)' : i \in {j \in Seen(r)' :
              \A k \in Seen(r)' : k > j => Key(RowAt(r, k)') # Key(RowAt(r, j)')}}
      BY <2>3, <2>5, <2>8
    <3> QED
      BY <2>1, <2>4, <3>1, <3>2, <3>3 DEF Written, Key
  <2>10. ASSUME NEW s \in Runs, s # r, pc'[s] = "tx" PROVE Written(s)'
    BY <2>1, <2>10, WrittenKept DEF Progress, TypeOK
  <2>11. \A s \in Runs : pc'[s] = "start" => idx'[s] = 0 /\ own'[s] = NoIds
    BY <2>1 DEF Progress, TypeOK
  <2> QED
    BY <2>9, <2>10, <2>11 DEF Progress
<1>5. ASSUME NEW r \in Runs, Commit(r) \/ Fail(r) PROVE Progress'
  <2>1. /\ pc'[r] \in {"done", "failed"} /\ job' = job
        /\ \A s \in Runs : s # r => /\ pc'[s] = pc[s] /\ idx'[s] = idx[s]
                                    /\ own'[s] = own[s] /\ rows'[s] = rows[s]
                                    /\ byPath'[s] = byPath[s]
    BY <1>5 DEF Commit, Fail, EndTx, TypeOK
  <2> QED
    BY <2>1, WrittenKept DEF Progress
<1>6. CASE UNCHANGED <<job, pc, idx, own, rows, byPath>>
  BY <1>6, WrittenKept DEF Progress
<1> QED
  BY <1>1, <1>2, <1>3, <1>4, <1>5, <1>6
     DEF Next, Advance, Finished, Describe, vars, database, locals

-----------------------------------------------------------------------------
(* Ingest implements MarketStore.                                          *)

(* A commit makes the run's own ids public and leaves the others.          *)
LEMMA CommitIds ==
    ASSUME TypeOK, References, UniqueIds, Progress,
           NEW r \in Runs, Commit(r)
    PROVE  /\ Store!Extend(Store!Mentioned(job[r].digest))
           /\ \A p \in Paths : byPath[r][p] # 0 => ids'[p] = byPath[r][p]
<1> DEFINE mentioned == Store!Mentioned(job[r].digest)
<1>1. /\ pc[r] = "tx" /\ ~MoreMarkets(r)
      /\ ids' = [p \in Paths |-> IF own[r][p] # 0 THEN own[r][p] ELSE ids[p]]
  BY DEF Commit, Publish
<1>2. Written(r)
  BY <1>1 DEF Progress
<1>3. ids' \in [Paths -> Nat]
  BY <1>1 DEF TypeOK
<1>4. \A p \in Paths : byPath[r][p] # 0 => ids'[p] = byPath[r][p]
  BY <1>1 DEF References, ByPathValid, OwnLocked
<1>5. ASSUME NEW p \in Paths, p \in mentioned PROVE ids'[p] # 0
  <2>1. PICK i \in Store!Accepted(job[r].digest), k \in {1, 2} : p = job[r].digest[i].pair[k]
    BY <1>5 DEF Store!Mentioned
  <2>2. i \in 1 .. Len(job[r].digest)
    BY AcceptedMarkets
  <2>3. i \in Seen(r)
    <3>1. idx[r] \in Nat /\ Len(job[r].digest) \in Nat /\ ~(idx[r] < Len(job[r].digest))
      BY <1>1, DigestsAssumption DEF MoreMarkets, TypeOK, Jobs
    <3> QED
      BY <2>2, <3>1 DEF Seen
  <2>4. byPath[r][p] # 0
    BY <1>2, <2>1, <2>3 DEF Written, Known
  <2> QED
    BY <1>4, <2>4
<1>6. ASSUME NEW p \in Paths, ~(ids[p] = 0 /\ p \in mentioned) PROVE ids'[p] = ids[p]
  <2>1. own[r][p] = 0
    BY <1>2, <1>6 DEF Written, References, OwnLocked
  <2> QED
    BY <1>1, <2>1
<1>7. \A p, q \in Paths : (ids'[p] = ids'[q] /\ ids'[p] # 0) => p = q
  BY <1>1 DEF UniqueIds
<1>8. \A p \in Paths : IF ids[p] = 0 /\ p \in mentioned
                       THEN ids'[p] # 0 ELSE ids'[p] = ids[p]
  BY <1>5, <1>6
<1> QED
  BY <1>3, <1>4, <1>7, <1>8 DEF Store!Extend

(* What a run commits is what its whole digest leaves behind.              *)
LEMMA CommitRows ==
    ASSUME TypeOK, References, UniqueIds, Progress,
           NEW r \in Runs, Commit(r)
    PROVE  rows[r] = Store!FinalRows(job[r].hour, job[r].digest, ids')
<1> DEFINE accepted == Store!Accepted(job[r].digest)
           row(i) == Store!RowOf(job[r].hour, job[r].digest[i], ids')
<1>1. pc[r] = "tx" /\ ~MoreMarkets(r)
  BY DEF Commit
<1>2. Written(r)
  BY <1>1 DEF Progress
<1>3. Seen(r) = accepted
  <2>1. idx[r] \in Nat /\ Len(job[r].digest) \in Nat /\ ~(idx[r] < Len(job[r].digest))
    BY <1>1, DigestsAssumption DEF MoreMarkets, TypeOK, Jobs
  <2>2. \A i \in accepted : i \in 1 .. Len(job[r].digest)
    BY AcceptedMarkets
  <2> QED
    BY <2>1, <2>2 DEF Seen
<1>4. ASSUME NEW i \in accepted PROVE row(i) = RowAt(r, i)
  <2> DEFINE pair == job[r].digest[i].pair
  <2>1. pair[1] \in Paths /\ pair[2] \in Paths
    BY AcceptedMarkets
  <2>2. byPath[r][pair[1]] # 0 /\ byPath[r][pair[2]] # 0
    BY <1>2, <1>3 DEF Written, Known
  <2>3. ids'[pair[1]] = byPath[r][pair[1]] /\ ids'[pair[2]] = byPath[r][pair[2]]
    BY <2>1, <2>2, CommitIds
  <2>4. row(i) = RowOf(job[r].hour, job[r].digest[i], ids')
    BY SameRow
  <2> QED
    BY <2>3, <2>4 DEF RowAt, RowOf
<1> HIDE DEF accepted, row
<1>5. {j \in accepted : \A k \in accepted : k > j => Key(row(k)) # Key(row(j))}
      = {j \in accepted : \A k \in accepted : k > j => Key(RowAt(r, k)) # Key(RowAt(r, j))}
  BY <1>4
<1>6. rows[r] = {row(i) : i \in {j \in accepted :
                     \A k \in accepted : k > j => Key(row(k)) # Key(row(j))}}
  BY <1>2, <1>3, <1>4, <1>5 DEF Written
<1> QED
  BY <1>6 DEF Store!FinalRows, Store!Key, Key, accepted, row

(* Every step of Ingest is one of MarketStore or changes none of its       *)
(* tables; a commit is the ingest of the run's whole digest.               *)
LEMMA StoreStep ==
    ASSUME TypeOK, References, UniqueIds, Progress, [Next]_vars
    PROVE  [Store!Next]_(Store!vars)
<1> USE DEF Store!vars
<1>1. ASSUME NEW r \in Runs, Commit(r) PROVE Store!Next
  <2>1. job[r].hour \in Hours /\ job[r].digest \in Digests
    BY DEF TypeOK, Jobs
  <2>2. Store!Ingest(job[r].hour, job[r].digest)
    <3>1. placeholder' = placeholder /\ snapshots' = UpsertRows(snapshots, rows[r])
      BY <1>1 DEF Commit, Publish
    <3>2. snapshots' = Store!UpsertRows(snapshots, rows[r])
      BY <3>1 DEF UpsertRows, Store!UpsertRows, Key, Store!Key
    <3> QED
      BY <1>1, <3>1, <3>2, CommitIds, CommitRows DEF Store!Ingest
  <2> QED
    BY <2>1, <2>2 DEF Store!Next
<1>2. ASSUME NEW path \in Paths, Describe(path) PROVE Store!Next
  <2>1. /\ placeholder' = [placeholder EXCEPT ![path] = FALSE]
        /\ UNCHANGED snapshots
    BY <1>2 DEF Describe
  <2>2. nextId \in Nat \ {0} /\ \A p \in Paths : ids[p] < nextId /\ ids[p] \in Nat
    BY DEF TypeOK, Ids, UniqueIds
  <2>3. /\ ids' \in [Paths -> Nat]
        /\ \A p \in Paths : ids'[p] = IF p = path /\ ids[p] = 0 THEN nextId ELSE ids[p]
    BY <1>2, <2>2 DEF Describe, TypeOK
  <2>4. \A p, q \in Paths : (ids'[p] = ids'[q] /\ ids'[p] # 0) => p = q
    BY <2>2, <2>3 DEF UniqueIds
  <2>5. Store!Extend({path})
    BY <2>2, <2>3, <2>4 DEF Store!Extend
  <2> QED
    BY <2>1, <2>5 DEF Store!Next, Store!Describe
<1>3. CASE UNCHANGED <<ids, placeholder, snapshots>>
  BY <1>3
<1> QED
  BY <1>1, <1>2, <1>3
     DEF Next, Advance, Finished, List, Skip, Resolve, WriteSnapshot, Fail,
         vars, database

(* The inductive invariant of what follows.                                *)
LEMMA StoreInvariant == Spec => [](TypeOK /\ References /\ UniqueIds /\ Progress)
<1>1. Init => UniqueIds
  BY DEF Init, UniqueIds, NoIds
<1>2. Init => Progress
  BY DEF Init, Progress
<1>3. TypeOK /\ References /\ UniqueIds /\ [Next]_vars => UniqueIds'
  BY UniqueStep DEF References
<1>4. TypeOK /\ References /\ Progress /\ [Next]_vars => Progress'
  BY ProgressStep
<1> QED
  BY <1>1, <1>2, <1>3, <1>4, TypeCorrect, ReferencesHold, PTL DEF Spec

(* ImplementsStore: readers of the two tables see whole digests, each in   *)
(* one step, whatever runs and admin calls interleave, fail or deadlock.   *)
THEOREM IngestImplementsStore == Spec => ImplementsStore
<1>1. Init => Store!Init
  BY DEF Init, Store!Init, NoIds
<1>2. TypeOK /\ References /\ UniqueIds /\ Progress /\ [Next]_vars
          => [Store!Next]_(Store!vars)
  BY StoreStep
<1> QED
  BY <1>1, <1>2, StoreInvariant, PTL DEF Spec, ImplementsStore, Store!Spec

(* NilMeansStored: a run that returns nil has stored every row of its      *)
(* digest.                                                                 *)
THEOREM NilAlwaysMeansStored == Spec => NilMeansStored
<1> DEFINE stored == \A r \in Runs : (pc[r] = "tx" /\ pc'[r] = "done") =>
                Store!FinalRows(job[r].hour, job[r].digest, ids') \subseteq snapshots'
<1>1. TypeOK /\ References /\ UniqueIds /\ Progress /\ [Next]_vars => [stored]_vars
  <2> SUFFICES ASSUME TypeOK, References, UniqueIds, Progress, [Next]_vars,
                      NEW r \in Runs, pc[r] = "tx", pc'[r] = "done"
               PROVE  Store!FinalRows(job[r].hour, job[r].digest, ids') \subseteq snapshots'
    OBVIOUS
  <2>1. Commit(r)
    BY DEF Next, Advance, Finished, List, Skip, Resolve, WriteSnapshot, Commit, Fail,
           Describe, vars, locals, TypeOK
  <2>2. rows[r] \subseteq snapshots'
    BY <2>1 DEF Commit, Publish, UpsertRows
  <2> QED
    BY <2>1, <2>2, CommitRows
<1> QED
  BY <1>1, StoreInvariant, PTL DEF Spec, NilMeansStored
=============================================================================
