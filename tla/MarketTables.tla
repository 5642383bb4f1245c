---------------------------- MODULE MarketTables ----------------------------
(***************************************************************************)
(* The rows of internal/db: the digest that the exchange API returns       *)
(* (internal/exchange/types.go) and the market_snapshots rows an ingest    *)
(* makes of it (internal/ingest/ingest.go, db/queries/snapshots.sql).      *)
(*                                                                         *)
(* A market names its two currencies by item path and carries, per path,   *)
(* three numbers (volume, lowest and highest ratio) that always move       *)
(* together; they are one "amount" here.  A row's side keeps the path the  *)
(* amount was read for in the field "of", which the database does not      *)
(* store: it is there for the properties.                                  *)
(***************************************************************************)
EXTENDS Integers, Sequences, FiniteSets

CONSTANTS Paths,     \* item paths, the natural key of table currencies
          Leagues,
          Hours,     \* settled hours (hour_utc)
          Amounts    \* values of the triple (volume, lowest, highest)

Ids == Nat \ {0}     \* AUTO_INCREMENT values; 0 stands for "no row"

(* The pair of a market is a JSON array: the API may send any length.      *)
Markets == [league : Leagues, pair : Seq(Paths), amounts : [Paths -> Amounts]]

Sides == [of : Paths, amount : Amounts]

Snapshots == [hour : Hours, league : Leagues, itemA : Ids, itemB : Ids,
              sideA : Sides, sideB : Sides]

WellFormed(m) == Len(m.pair) = 2

Side(m, p) == [of |-> p, amount |-> m.amounts[p]]

(* Mutants of RowOf: the pair as the digest orders it; ids put in order    *)
(* without their numbers.                                                  *)
RowAsGiven(hour, m, id) ==
    [hour |-> hour, league |-> m.league,
     itemA |-> id[m.pair[1]], itemB |-> id[m.pair[2]],
     sideA |-> Side(m, m.pair[1]), sideB |-> Side(m, m.pair[2])]

RowIdsSwapped(hour, m, id) ==
    LET given == RowAsGiven(hour, m, id)
    IN  IF given.itemA > given.itemB
        THEN [given EXCEPT !.itemA = given.itemB, !.itemB = given.itemA]
        ELSE given

(* The row of a well-formed market: the smaller currency id comes first,   *)
(* and each side's numbers follow its id.  id maps paths to currency ids.  *)
RowOf(hour, m, id) ==
    LET pathA == m.pair[1]
        pathB == m.pair[2]
        swap  == id[pathA] > id[pathB]
    IN  [hour   |-> hour,
         league |-> m.league,
         itemA  |-> IF swap THEN id[pathB] ELSE id[pathA],
         itemB  |-> IF swap THEN id[pathA] ELSE id[pathB],
         sideA  |-> IF swap THEN Side(m, pathB) ELSE Side(m, pathA),
         sideB  |-> IF swap THEN Side(m, pathA) ELSE Side(m, pathB)]

(* The unique key uq_snapshot of table market_snapshots.                   *)
Key(row) == <<row.hour, row.league, row.itemA, row.itemB>>

(* INSERT ... ON DUPLICATE KEY UPDATE of every row of new into table.      *)
UpsertRows(table, new) ==
    {row \in table : \A n \in new : Key(n) # Key(row)} \union new
=============================================================================
