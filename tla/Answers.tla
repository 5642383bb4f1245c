------------------------------ MODULE Answers -------------------------------
(***************************************************************************)
(* What QueryServer.GetRates answers and what the bot shows of it: the     *)
(* request of Rates over the tables of MarketStore, with the rows it read, *)
(* ranked as in Ranking.  Every action of Rates is one of Answers with the *)
(* rows added to it.                                                       *)
(*                                                                         *)
(* Every path has its currency row from the start (an ingest of another    *)
(* league made it), so that all orders the ids may have been given in are  *)
(* initial states.  A currency has its trade_id once it is described.      *)
(***************************************************************************)
EXTENDS Rates, Ranking

CONSTANTS Digests,           \* what the API returns: sequences of markets
          IdOrders,          \* ids the paths may have been given
          Tradables,         \* the paths of divine, chaos and exalted
          Base, PairOrders,  \* default_rate_pairs: the base, and the quotes by sort_order
          defaultRatesLimit, \* 10
          HalfRange,         \* 2^63: the values of an int64 that are not negative
          MaxIngests         \* bound: number of ingests

Paths   == DOMAIN Category
League  == "league"
Numbers == 0 .. 2 * HalfRange - 1     \* uint64

Fields  == {"volume", "low", "high"}

ASSUME AnswersAssumption ==
    /\ Paths \subseteq Nat /\ IsFiniteSet(Paths)
    /\ Base \in Paths /\ Tradables \subseteq Paths
    /\ PairOrders \subseteq Seq(Paths)
    /\ IdOrders \subseteq Injection(Paths, Nat \ {0})
    /\ {HalfRange, defaultRatesLimit} \subseteq Nat \ {0}
    /\ Digests \subseteq Seq([league : {League}, pair : Seq(Paths),
                             amounts : [Paths -> [Fields -> Numbers]]])

VARIABLES
    ids, placeholder, table,  \* MarketStore
    quotes,                   \* the quotes of default_rate_pairs
    rowsByHour,               \* the rows of the range, by hour
    olderRows,                \* the rows of the second read, by hour
    ingested,                 \* history: the markets of each hour, as they came
    ingests                   \* how many ingests there were

history     == <<ingested, ingests>>
book        == <<ids, quotes, placeholder, table, history>>
answer      == <<rowsByHour, olderRows>>
answersVars == <<vars, book, answer>>

Store == INSTANCE MarketStore
         WITH Leagues   <- {League},
              Amounts   <- [Fields -> Int],
              Digests   <- Digests,
              ids       <- ids,
              placeholder <- placeholder,
              snapshots <- table

NoRows == [h \in {} |-> {}]

AnswersInit ==
    /\ Init
    /\ ids \in IdOrders /\ quotes \in PairOrders
    /\ placeholder = [p \in Paths |-> TRUE]
    /\ table = {}
    /\ rowsByHour = NoRows /\ olderRows = NoRows
    /\ ingested = [h \in Hours |-> <<>>] /\ ingests = 0

-----------------------------------------------------------------------------
(* int64(x) of a uint64 and uint64(x) of an int64.                         *)
Int64(x)  == IF x < HalfRange THEN x ELSE x - 2 * HalfRange
Uint64(x) == x % (2 * HalfRange)

Converted(amount, Conv(_)) == [f \in DOMAIN amount |-> Conv(amount[f])]

AsStored(digest) ==
    [i \in DOMAIN digest |->
        [digest[i] EXCEPT !.amounts = [p \in Paths |-> Converted(digest[i].amounts[p], Int64)]]]

(* The rows that the query may return, whatever their hour: a placeholder  *)
(* has no trade_id that the query knows.                                   *)
Rateable(rows, isPlaceholder) ==
    {row \in rows : \E p \in Tradables : /\ ~isPlaceholder[p]
                                         /\ ids[p] \in {row.itemA, row.itemB}}

HoursOf(rows) == {row.hour : row \in rows}

(* One row as exchange.SnapshotRow.                                        *)
toSnapshotRow(row) ==
    LET pathOf(id) == CHOOSE p \in Paths : ids[p] = id
    IN  [itemA |-> pathOf(row.itemA), a |-> Converted(row.sideA.amount, Uint64),
         itemB |-> pathOf(row.itemB), b |-> Converted(row.sideB.amount, Uint64)]

toSnapshotRowsByHour(hours) ==
    [h \in hours |-> {toSnapshotRow(row) :
                        row \in {r \in Rateable(table, placeholder) : r.hour = h}}]

-----------------------------------------------------------------------------
IngestHour(h, digest) ==
    /\ ingests < MaxIngests
    /\ UNCHANGED <<ids, quotes>>
    /\ Store!Ingest(h, AsStored(digest))
    /\ Commit(h)
    /\ priced' = HoursOf(Rateable(table', placeholder'))
    /\ ingested' = [ingested EXCEPT ![h] = @ \o digest]
    /\ ingests' = ingests + 1
    /\ UNCHANGED answer

(* A sync or a curation of one currency; those of the others change no     *)
(* answer.                                                                 *)
DescribeCurrency(p) ==
    /\ placeholder[p]
    /\ UNCHANGED <<ids, quotes>>
    /\ Store!Describe(p)
    /\ LET rated == HoursOf(Rateable(table, placeholder'))
       IN  IF rated = priced THEN UNCHANGED vars ELSE Describe /\ priced' = rated
    /\ UNCHANGED <<history, answer>>

(* loadRatePairs: a bootstrap describes the currencies before it stores    *)
(* the pairs; without pairs there is an error.                             *)
LoadRatePairs ==
    /\ Begin
    /\ \A p \in {Base} \union ToSet(quotes) : ~placeholder[p]
    /\ rowsByHour' = NoRows /\ olderRows' = NoRows
    /\ UNCHANGED book

ReadRange ==
    /\ ListSnapshotRates
    /\ rowsByHour' = toSnapshotRowsByHour(byHour')
    /\ UNCHANGED <<book, olderRows>>

ReadOlder ==
    /\ ListOlderRates
    /\ olderRows' = toSnapshotRowsByHour(older')
    /\ UNCHANGED <<book, rowsByHour>>

OtherStep == /\ LatestSnapshotHour \/ PreviousSnapshotHour \/ Respond \/ Fail
             /\ UNCHANGED <<book, answer>>

AnswersNext == \/ LoadRatePairs \/ ReadRange \/ ReadOlder \/ OtherStep
               \/ \E h \in Hours, digest \in Digests : IngestHour(h, digest)
               \/ \E p \in Tradables : DescribeCurrency(p)

AnswersSpec == AnswersInit /\ [][AnswersNext]_answersVars

-----------------------------------------------------------------------------
RowsIn(rowsOf, h) == IF h \in DOMAIN rowsOf THEN rowsOf[h] ELSE {}

Views == {"PRICE", "VOLUME"}

Limit(limit) == IF limit <= 0 THEN defaultRatesLimit ELSE limit

Ranked(view, limit, cats) ==
    LET rows == RowsIn(rowsByHour, hour)
    IN  IF view = "PRICE" THEN RankByPrice(rows, Base, quotes, Limit(limit), cats)
                          ELSE RankByVolume(rows, Base, Limit(limit), cats)

(* The hour before has its rows from the first read or from the second.    *)
previousRates ==
    IF prev = NoHour THEN <<>>
    ELSE RatesByID(IF prev \in DOMAIN rowsByHour THEN rowsByHour[prev]
                                                 ELSE RowsIn(olderRows, prev), Base, quotes)

TrendHours == [i \in 1 .. trendHours |-> hour - (trendHours - i)]

(* toRankedRates: GetRatesResponse.Rates, with the fields that are shown.  *)
RankedRate(rate, previous) ==
    [quote |-> rate.quote, vwap |-> rate.vwap, low |-> rate.low, high |-> rate.high,
     prev  |-> VwapOf(previous, rate.quote),
     trend |-> Trend(rowsByHour, TrendHours, Base, quotes, rate.quote)]

Response(view, limit, cats) ==
    LET ranked == Ranked(view, limit, cats)
    IN  [i \in DOMAIN ranked |-> RankedRate(ranked[i], previousRates)]

CategoryFilters == SUBSET Range(Category)
Limits          == 0 .. 1

-----------------------------------------------------------------------------
(* The markets of p and q in hour h, and the numbers of the last of them.  *)
Trades(h, p, q) ==
    {k \in DOMAIN ingested[h] : ingested[h][k].pair \in {<<p, q>>, <<q, p>>}}

LastTrade(h, p, q) == ingested[h][Max(Trades(h, p, q))].amounts

Traded(h, p, q) ==
    /\ \E t \in {p, q} \intersect Tradables : ~placeholder[t]
    /\ Trades(h, p, q) # {}
    /\ LastTrade(h, p, q)[p].volume > 0 /\ LastTrade(h, p, q)[q].volume > 0

Price(h, p, q) == <<LastTrade(h, p, q)[q].volume, LastTrade(h, p, q)[p].volume>>

(* The currencies that p buys in hour h: by themselves if they are traded  *)
(* against the base, otherwise along the first of quotes.                  *)
Leads(h, i, p) == Traded(h, Base, quotes[i]) /\ Traded(h, quotes[i], p)

DigestRates(h) ==
    LET direct  == {p \in Paths : Traded(h, Base, p)}
        chained == {p \in Paths \ {Base} : \E i \in DOMAIN quotes : Leads(h, i, p)}
        leg(p)  == Min({i \in DOMAIN quotes : Leads(h, i, p)})
    IN  [p \in direct \union chained |->
            IF p \in direct THEN Price(h, Base, p)
            ELSE Times(Price(h, Base, quotes[leg(p)]), Price(h, quotes[leg(p)], p))]

Agree(rates, expected) ==
    /\ DOMAIN rates = DOMAIN expected
    /\ \A p \in DOMAIN rates : Same(rates[p].vwap, expected[p])

(* The rates that GetRates computes of the rows it reads are those of the  *)
(* digests of that hour, last market first, on the right side, whatever    *)
(* order the ids were given in, how large the volumes are and how often    *)
(* the hour was ingested: ingest, upsert, query, conversions and RatesByID *)
(* taken together.                                                         *)
ReadsMatchDigests ==
    [][/\ ReadRange => \A h \in DOMAIN rowsByHour' :
                           Agree(RatesByID(rowsByHour'[h], Base, quotes), DigestRates(h))
       /\ ReadOlder => \A h \in DOMAIN olderRows' :
                           Agree(RatesByID(olderRows'[h], Base, quotes), DigestRates(h))
      ]_answersVars

(* What is in one answer fits together, although it comes from three       *)
(* queries with commits in between: nothing that was left out ranks above  *)
(* what is in it, the trend ends in the rate itself, and the rate of the   *)
(* hour before is the point of the trend at that hour.                     *)
AnswersCoherent ==
    pc = "done" => \A view \in Views, limit \in Limits, cats \in CategoryFilters :
        LET ranked == Ranked(view, limit, cats)
            rates  == Response(view, limit, cats)
            all    == {r \in Range(Ranked(view, Cardinality(Paths), {})) : keep(cats, r.quote)}
            above(x, y) == IF view = "PRICE" THEN Dearer(x, y) ELSE MoreTraded(x, y)
        IN  /\ \A r \in all \ Range(ranked) :
                   /\ Len(ranked) = Limit(limit)
                   /\ \A s \in Range(ranked) : s \in all /\ above(s, r)
            /\ \A r \in Range(rates) :
                   /\ Same(Last(r.trend), r.vwap)
                   /\ \A i \in DOMAIN TrendHours :
                          TrendHours[i] = prev /\ prev \in byHour => Same(r.trend[i], r.prev)

(* The message says the same in words, arrow, range and sparkline: a value *)
(* is at least 1 and within order, and the arrow points where the last two *)
(* blocks of the sparkline go, also for a rate that is shown the other way *)
(* round.                                                                  *)
ShownFaithfully ==
    pc = "done" => \A r \in Range(Response("PRICE", Cardinality(Paths), {})) :
        LET shown == Shown(r)
            n     == Len(shown.spark)
        IN  /\ ~Less(shown.value, <<1, 1>>)
            /\ Positive(r.low) => ~Less(shown.high, shown.low)
            /\ n > 1 /\ prev \in byHour =>
                   /\ shown.change = "up" => shown.spark[n - 1] <= shown.spark[n]
                   /\ shown.change = "down" => shown.spark[n] <= shown.spark[n - 1]
=============================================================================
