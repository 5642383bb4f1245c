------------------------------- MODULE Ingest -------------------------------
(***************************************************************************)
(* internal/ingest: concurrent runs of ingest.Run on one MySQL database,   *)
(* among them the admin calls that describe currencies.                    *)
(*                                                                         *)
(* A run lists the currencies outside its transaction, then resolves every *)
(* item path of its digest to a currency id (inserting a placeholder when  *)
(* it does not know the path) and writes one snapshot row per market.      *)
(* Nothing it wrote is visible before its commit.                          *)
(*                                                                         *)
(* Of MySQL the model keeps what the code relies on: an INSERT ... ON      *)
(* DUPLICATE KEY UPDATE locks the row with its unique key until the        *)
(* transaction ends, a wait for a lock ends in an error when the lock is   *)
(* never released (deadlock victim, lock wait timeout, the deadline of     *)
(* ctx), a locking read sees the newest committed row and the              *)
(* transaction's own, and an AUTO_INCREMENT value is never given twice.    *)
(***************************************************************************)
EXTENDS MarketTables

CONSTANTS Runs,      \* calls of ingest.Run
          Digests    \* the digests the API can return

ASSUME DigestsAssumption == Digests \subseteq Seq(Markets)

VARIABLES
    ids, placeholder,  \* table currencies, by item_path
    nextId,            \* AUTO_INCREMENT counter of currencies
    snapshots,         \* table market_snapshots
    job,               \* per run: the hour and the digest it was called with
    pc,                \* per run: "start", "tx", "done" (nil) or "failed" (err)
    idx,               \* per run: number of markets seen
    byPath,            \* per run: the map byPath, 0 for a missing path
    own,               \* per run: currency rows its transaction inserted
    held,              \* per run: paths whose currency row it has locked
    rows               \* per run: snapshot rows its transaction wrote

database == <<ids, placeholder, nextId, snapshots>>
locals   == <<pc, idx, byPath, own, held, rows>>
vars     == <<database, job, locals>>

NoIds == [p \in Paths |-> 0]

Jobs == [hour : Hours, digest : Digests]

Init == /\ ids = NoIds
        /\ placeholder = [p \in Paths |-> TRUE]
        /\ nextId = 1
        /\ snapshots = {}
        /\ job \in [Runs -> Jobs]
        /\ pc = [r \in Runs |-> "start"]
        /\ idx = [r \in Runs |-> 0]
        /\ byPath = [r \in Runs |-> NoIds]
        /\ own = [r \in Runs |-> NoIds]
        /\ held = [r \in Runs |-> {}]
        /\ rows = [r \in Runs |-> {}]

-----------------------------------------------------------------------------
(* A read outside any transaction sees what is committed.                  *)
ListCurrencies == ids

(* ListCurrencies, then BeginTx, which reads nothing.                      *)
List(r) ==
    /\ pc[r] = "start"
    /\ byPath' = [byPath EXCEPT ![r] = ListCurrencies]
    /\ pc' = [pc EXCEPT ![r] = "tx"]
    /\ UNCHANGED <<database, job, idx, own, held, rows>>

MoreMarkets(r) == pc[r] = "tx" /\ idx[r] < Len(job[r].digest)

Market(r) == job[r].digest[idx[r] + 1]

(* A market whose pair does not have two entries is skipped.               *)
Skip(r) ==
    /\ MoreMarkets(r)
    /\ ~WellFormed(Market(r))
    /\ idx' = [idx EXCEPT ![r] = @ + 1]
    /\ UNCHANGED <<database, job, pc, byPath, own, held, rows>>

Known(r, path) == byPath[r][path] # 0

(* resolve is called for pair[0] and then for pair[1].                     *)
ToResolve(r) == IF Known(r, Market(r).pair[1]) THEN Market(r).pair[2]
                                               ELSE Market(r).pair[1]

CurrencyUnlocked(r, path) == \A s \in Runs \ {r} : path \notin held[s]

(* The row is inserted unless it exists, and locked in both cases.         *)
UpsertCurrencyPlaceholder(r, path) ==
    LET isNew == ids[path] = 0 /\ own[r][path] = 0
    IN  /\ CurrencyUnlocked(r, path)
        /\ own' = IF isNew THEN [own EXCEPT ![r][path] = nextId] ELSE own
        /\ nextId' = IF isNew THEN nextId + 1 ELSE nextId
        /\ held' = [held EXCEPT ![r] = @ \union {path}]

(* Under that lock: the committed row, or the one r itself inserted.       *)
GetCurrencyByPathForUpdate(r, path) ==
    IF ids[path] # 0 THEN ids[path] ELSE own'[r][path]

Resolve(r) ==
    /\ MoreMarkets(r)
    /\ WellFormed(Market(r))
    /\ LET path == ToResolve(r)
       IN  /\ ~Known(r, path)
           /\ UpsertCurrencyPlaceholder(r, path)
           /\ byPath' = [byPath EXCEPT
                  ![r][path] = GetCurrencyByPathForUpdate(r, path)]
    /\ UNCHANGED <<ids, placeholder, snapshots, job, pc, idx, rows>>

Resolved(r) == /\ MoreMarkets(r)
               /\ WellFormed(Market(r))
               /\ \A k \in {1, 2} : Known(r, Market(r).pair[k])

NewRow(r) == RowOf(job[r].hour, Market(r), byPath[r])

SnapshotUnlocked(r, key) ==
    \A s \in Runs \ {r} : \A row \in rows[s] : Key(row) # key

(* Mutant: the row is inserted through dbase.Q, outside the transaction.   *)
WriteSnapshotOutsideTx(r) ==
    /\ Resolved(r)
    /\ snapshots' = UpsertRows(snapshots, {NewRow(r)})
    /\ idx' = [idx EXCEPT ![r] = @ + 1]
    /\ UNCHANGED <<ids, placeholder, nextId, job, pc, byPath, own, held, rows>>

(* InsertMarketSnapshot, inside the transaction.                           *)
WriteSnapshot(r) ==
    /\ Resolved(r)
    /\ SnapshotUnlocked(r, Key(NewRow(r)))
    /\ rows' = [rows EXCEPT ![r] = UpsertRows(@, {NewRow(r)})]
    /\ idx' = [idx EXCEPT ![r] = @ + 1]
    /\ UNCHANGED <<database, job, pc, byPath, own, held>>

-----------------------------------------------------------------------------
(* The end of a transaction drops what the run kept for it and its locks.  *)
EndTx(r) ==
    /\ own' = [own EXCEPT ![r] = NoIds]
    /\ held' = [held EXCEPT ![r] = {}]
    /\ rows' = [rows EXCEPT ![r] = {}]
    /\ UNCHANGED <<job, idx, byPath>>

(* Mutants of Publish: the transaction is never committed; the upsert of a *)
(* placeholder sets is_placeholder on a row that exists.                   *)
PublishNothing(r) == UNCHANGED database

PublishPlaceholders(r) ==
    /\ ids' = [p \in Paths |-> IF own[r][p] # 0 THEN own[r][p] ELSE ids[p]]
    /\ snapshots' = UpsertRows(snapshots, rows[r])
    /\ placeholder' = [p \in Paths |-> p \in held[r] \/ placeholder[p]]
    /\ UNCHANGED nextId

Publish(r) ==
    /\ ids' = [p \in Paths |-> IF own[r][p] # 0 THEN own[r][p] ELSE ids[p]]
    /\ snapshots' = UpsertRows(snapshots, rows[r])
    /\ UNCHANGED <<placeholder, nextId>>

(* tx.Commit; its acknowledgement may be lost, and Run then returns an     *)
(* error although everything is stored.                                    *)
Commit(r) ==
    /\ pc[r] = "tx"
    /\ ~MoreMarkets(r)
    /\ Publish(r)
    /\ EndTx(r)
    /\ \E result \in {"done", "failed"} : pc' = [pc EXCEPT ![r] = result]

(* Any statement may fail, the deadline of ctx may pass and the process    *)
(* may die: the deferred Rollback, or the server once the connection is    *)
(* gone, undoes the transaction.                                           *)
Fail(r) ==
    /\ pc[r] \in {"start", "tx"}
    /\ pc' = [pc EXCEPT ![r] = "failed"]
    /\ EndTx(r)
    /\ UNCHANGED database

(* A lock another run holds and the next statement of r needs.             *)
Blocked(r) ==
    /\ MoreMarkets(r)
    /\ WellFormed(Market(r))
    /\ IF Resolved(r) THEN ~SnapshotUnlocked(r, Key(NewRow(r)))
                      ELSE ~CurrencyUnlocked(r, ToResolve(r))

(* Mutant: no deadline and no deadlock detection.                          *)
LockWaitForEver(r) == FALSE

(* InnoDB's deadlock detection, innodb_lock_wait_timeout or ctx.           *)
LockWaitEnds(r) == Blocked(r) /\ Fail(r)

(* One autocommitted row of CurateCurrency or SyncCatalogue.               *)
Describe(path) ==
    /\ \A s \in Runs : path \notin held[s]
    /\ IF ids[path] = 0
       THEN /\ ids' = [ids EXCEPT ![path] = nextId]
            /\ nextId' = nextId + 1
       ELSE UNCHANGED <<ids, nextId>>
    /\ placeholder' = [placeholder EXCEPT ![path] = FALSE]
    /\ UNCHANGED <<snapshots, job, locals>>

-----------------------------------------------------------------------------
Advance(r) ==
    List(r) \/ Skip(r) \/ Resolve(r) \/ WriteSnapshot(r) \/ Commit(r)

(* Every run has returned; another hour would start new ones.              *)
Finished == (\A r \in Runs : pc[r] \in {"done", "failed"}) /\ UNCHANGED vars

Next == \/ \E r \in Runs : Advance(r) \/ Fail(r)
        \/ \E path \in Paths : Describe(path)
        \/ Finished

(* A run goes on unless it is blocked, and no lock wait is for ever.       *)
Fairness == \A r \in Runs : WF_vars(Advance(r)) /\ WF_vars(LockWaitEnds(r))

Spec     == Init /\ [][Next]_vars
FairSpec == Spec /\ Fairness

-----------------------------------------------------------------------------
TypeOK ==
    /\ ids \in [Paths -> Nat]
    /\ placeholder \in [Paths -> BOOLEAN]
    /\ nextId \in Ids
    /\ snapshots \subseteq Snapshots
    /\ job \in [Runs -> Jobs]
    /\ pc \in [Runs -> {"start", "tx", "done", "failed"}]
    /\ idx \in [Runs -> Nat]
    /\ byPath \in [Runs -> [Paths -> Nat]]
    /\ own \in [Runs -> [Paths -> Nat]]
    /\ held \in [Runs -> SUBSET Paths]
    /\ rows \in [Runs -> SUBSET Snapshots]

(* CountOrphanSnapshotCurrencies counts these rows.                        *)
OrphanRows == {row \in snapshots : \E id \in {row.itemA, row.itemB} :
                                      \A p \in Paths : ids[p] # id}

(* Both currencies of every stored snapshot have a row, although the       *)
(* schema has no foreign keys and runs fail and roll back placeholders     *)
(* whose ids others have seen: the gauge of the service stays 0.           *)
NoOrphans == OrphanRows = {}

(* An hour has at most one row per league and pair of currencies, however  *)
(* the digests order the pair: readers never add one market up twice.      *)
OneRowPerPair ==
    \A s, t \in snapshots :
        (/\ s.hour = t.hour
         /\ s.league = t.league
         /\ {s.itemA, s.itemB} = {t.itemA, t.itemB}) => s = t

(* The numbers on each side of a stored row are those of the currency the  *)
(* side's id belongs to, whatever order the ids were given in.             *)
SidesMatch ==
    \A row \in snapshots : /\ ids[row.sideA.of] = row.itemA
                           /\ ids[row.sideB.of] = row.itemB

(* A currency keeps its id: snapshots already stored refer to it.  The     *)
(* atomic MarketStore says the same of its steps.                          *)
IdsStable == [][\A p \in Paths : ids[p] # 0 => ids'[p] = ids[p]]_vars

(* No run waits for ever for the locks of the others.                      *)
RunsEnd == \A r \in Runs : <>(pc[r] \in {"done", "failed"})

(* A run's whole digest becomes visible in one step, or none of it.        *)
Store == INSTANCE MarketStore WITH
             ids <- ids, placeholder <- placeholder, snapshots <- snapshots
ImplementsStore == Store!Spec

(* When Run returns nil, every row of its digest is stored: nothing was    *)
(* lost to a rollback, and no other run's row was left in its place.       *)
NilMeansStored ==
    [][\A r \in Runs : (pc[r] = "tx" /\ pc'[r] = "done") =>
          Store!FinalRows(job[r].hour, job[r].digest, ids') \subseteq snapshots']_vars

-----------------------------------------------------------------------------
(* The inductive invariants behind the properties above.                   *)

(* Committed ids and those of open transactions are all different.         *)
UniqueIds ==
    /\ \A p \in Paths : ids[p] < nextId
    /\ \A p, q \in Paths : (ids[p] = ids[q] /\ ids[p] # 0) => p = q
    /\ \A r \in Runs, p \in Paths : own[r][p] < nextId
    /\ \A r \in Runs, p, q \in Paths : own[r][p] # 0 => own[r][p] # ids[q]
    /\ \A r, s \in Runs, p, q \in Paths :
          (own[r][p] # 0 /\ own[r][p] = own[s][q]) => r = s /\ p = q

(* A row inserted by an open transaction is locked by it alone, and no     *)
(* committed row has its path.                                             *)
OwnLocked ==
    /\ \A r \in Runs, p \in Paths :
          own[r][p] # 0 => p \in held[r] /\ ids[p] = 0
    /\ \A r, s \in Runs : r # s => held[r] \intersect held[s] = {}

(* What a run has in byPath is committed or its own.                       *)
ByPathValid ==
    \A r \in Runs, p \in Paths :
        (pc[r] = "tx" /\ byPath[r][p] # 0)
            => byPath[r][p] \in {ids[p], own[r][p]}

(* The rows of an open transaction refer to currencies it has resolved.    *)
RowsResolved ==
    \A r \in Runs : \A row \in rows[r] :
        /\ pc[r] = "tx"
        /\ byPath[r][row.sideA.of] = row.itemA
        /\ byPath[r][row.sideB.of] = row.itemB

References == SidesMatch /\ OwnLocked /\ ByPathValid /\ RowsResolved

(* Rows have their smaller id first and the unique key holds, in the table *)
(* and in what each transaction wrote.                                     *)
Canonical(table) ==
    /\ \A row \in table : row.itemA <= row.itemB
    /\ \A s, t \in table : Key(s) = Key(t) => s = t

CanonicalRows == Canonical(snapshots) /\ \A r \in Runs : Canonical(rows[r])

(* The accepted markets that r has seen, and the row one of them makes.    *)
Seen(r) == {i \in Store!Accepted(job[r].digest) : i <= idx[r]}

RowAt(r, i) == RowOf(job[r].hour, job[r].digest[i], byPath[r])

(* The rows of an open transaction are those of the markets seen so far,   *)
(* the last market of each key, and it has inserted no currency that the   *)
(* digest does not mention.                                                *)
Written(r) ==
    /\ idx[r] <= Len(job[r].digest)
    /\ \A p \in Paths : own[r][p] # 0 => p \in Store!Mentioned(job[r].digest)
    /\ \A i \in Seen(r), k \in {1, 2} : Known(r, job[r].digest[i].pair[k])
    /\ rows[r] = {RowAt(r, i) : i \in {j \in Seen(r) :
                      \A k \in Seen(r) : k > j => Key(RowAt(r, k)) # Key(RowAt(r, j))}}

Progress == \A r \in Runs : /\ pc[r] = "start" => idx[r] = 0 /\ own[r] = NoIds
                            /\ pc[r] = "tx" => Written(r)

Inductive == References /\ CanonicalRows /\ UniqueIds /\ Progress
=============================================================================
