------------------------------ MODULE Ranking -------------------------------
(***************************************************************************)
(* internal/exchange (ranking.go, trend.go, computeRate) and the lines of  *)
(* cmd/bot/format.go that put a rate into words: what GetRates makes of    *)
(* the rows it read and what a user then sees.  Pure operators.            *)
(*                                                                         *)
(* A currency is a number: the order of the numbers is that of the item    *)
(* paths.  A float64 is a fraction <<n, d>>, compared by its value; the    *)
(* rounding of float64 is left out.  A row of one hour has the two         *)
(* currencies and, per side, the uint64 numbers volume, low and high.      *)
(***************************************************************************)
EXTENDS Integers, Sequences, SequencesExt, FiniteSets, FiniteSetsExt

CONSTANT Category    \* function from the currencies to their categories

-----------------------------------------------------------------------------
Zero == <<0, 1>>     \* what a missing rate reads as

Less(x, y)  == x[1] * y[2] < y[1] * x[2]
Same(x, y)  == x[1] * y[2] = y[1] * x[2]
Times(x, y) == <<x[1] * y[1], x[2] * y[2]>>
Minus(x, y) == <<x[1] * y[2] - y[1] * x[2], x[2] * y[2]>>
Inverted(x) == <<x[2], x[1]>>
Positive(x) == x[1] > 0

Least(set)    == CHOOSE x \in set : \A y \in set : ~Less(y, x)
Greatest(set) == CHOOSE x \in set : \A y \in set : ~Less(x, y)

-----------------------------------------------------------------------------
(* Nothing is a rate that was not traded on both sides.                    *)
Rated(base, quote) == base.volume # 0 /\ quote.volume # 0

Direct == 0          \* CurrencyRate.Via of a rate that needs none

(* A bound whose base side is 0 does not count.                            *)
computeRate(id, base, quote) ==
    LET vwap   == <<quote.volume, base.volume>>
        bounds == {<<quote[b], base[b]>> : b \in {c \in {"low", "high"} : base[c] # 0}}
        spread == IF bounds = {} THEN {vwap} ELSE bounds
    IN  [quote |-> id, vwap |-> vwap, low |-> Least(spread), high |-> Greatest(spread),
         baseVol |-> base.volume, via |-> Direct]

(* Mutant: the sides are taken as they are stored.                         *)
QuoteOfStored(row, base) ==
    [id |-> IF row.itemA = base THEN row.itemB ELSE row.itemA, base |-> row.a, quote |-> row.b]

(* A row seen from base, which is on one side of it or the other.          *)
QuoteOf(row, base) ==
    IF row.itemA = base
    THEN [id |-> row.itemB, base |-> row.a, quote |-> row.b]
    ELSE [id |-> row.itemA, base |-> row.b, quote |-> row.a]

currencyRatesFrom(rows, base) ==
    LET quotes == {QuoteOf(row, base) : row \in {r \in rows : base \in {r.itemA, r.itemB}}}
        rated  == {q \in quotes : Rated(q.base, q.quote)}
        rowOf(id) == CHOOSE q \in rated : q.id = id
    IN  [id \in {q.id : q \in rated} |-> computeRate(id, rowOf(id).base, rowOf(id).quote)]

(* The rate of what base buys of via and via of the quote.                 *)
Chain(first, second) ==
    [second EXCEPT !.vwap = Times(first.vwap, @), !.low = Times(first.low, @),
                   !.high = Times(first.high, @), !.via = first.quote]

(* Direct rates, and for what has none the first of via that leads there.  *)
RatesByID(rows, base, via) ==
    LET direct   == currencyRatesFrom(rows, base)
        onward   == [i \in {j \in DOMAIN via : via[j] \in DOMAIN direct} |->
                        currencyRatesFrom(rows, via[i])]
        reach(i) == DOMAIN onward[i] \ {base}
        leg(id)  == Min({i \in DOMAIN onward : id \in reach(i)})
    IN  [id \in DOMAIN direct \union UNION {reach(i) : i \in DOMAIN onward} |->
            IF id \in DOMAIN direct THEN direct[id]
            ELSE Chain(direct[via[leg(id)]], onward[leg(id)][id])]

(* A rate looked up in the map: zero if it is not there.                   *)
VwapOf(rates, id) == IF id \in DOMAIN rates THEN rates[id].vwap ELSE Zero

-----------------------------------------------------------------------------
Uncategorized == "uncategorized"

(* No categories stand for all of them.                                    *)
keep(cats, id) == cats = {} \/ Category[id] \in cats

filtered(rated, cats) == {rated[id] : id \in {i \in DOMAIN rated : keep(cats, i)}}

(* sort.Slice by a strict order.                                           *)
Sorted(set, Above(_, _)) ==
    CHOOSE list \in SetToSeqs(set) : \A i, j \in DOMAIN list : i < j => Above(list[i], list[j])

Top(ranked, limit) == SubSeq(ranked, 1, Min({limit, Len(ranked)}))

MoreTraded(x, y) == \/ x.baseVol > y.baseVol
                    \/ x.baseVol = y.baseVol /\ x.quote < y.quote

RankByVolume(rows, base, limit, cats) ==
    Top(Sorted(filtered(currencyRatesFrom(rows, base), cats), MoreTraded), limit)

Dearer(x, y) == \/ Less(x.vwap, y.vwap)
                \/ Same(x.vwap, y.vwap) /\ x.quote < y.quote

RankByPrice(rows, base, via, limit, cats) ==
    Top(Sorted(filtered(RatesByID(rows, base, via), cats), Dearer), limit)

(* Mutant: hours without rows are left out instead of being zero.          *)
TrendOfKnown(rowsByHour, hours, base, via, id) ==
    LET known == SelectSeq(hours, LAMBDA h : h \in DOMAIN rowsByHour)
    IN  [i \in DOMAIN hours |->
            IF i > Len(known) THEN Zero
            ELSE VwapOf(RatesByID(rowsByHour[known[i]], base, via), id)]

(* One point per hour, oldest first.                                       *)
Trend(rowsByHour, hours, base, via, id) ==
    [i \in DOMAIN hours |->
        IF hours[i] \in DOMAIN rowsByHour
        THEN VwapOf(RatesByID(rowsByHour[hours[i]], base, via), id)
        ELSE Zero]

-----------------------------------------------------------------------------
(* The message: 0.05 % up or down are a change worth an arrow.             *)
formatChange(cur, prev) ==
    IF ~Positive(cur) \/ ~Positive(prev) THEN "none"
    ELSE IF ~Less(cur, Times(prev, <<2001, 2000>>)) THEN "up"
    ELSE IF ~Less(Times(prev, <<1999, 2000>>), cur) THEN "down"
    ELSE "flat"

Blocks == 8
Blank  == -1

Block(v, lo, hi) ==
    LET part == Times(<<Blocks - 1, 1>>, Times(Minus(v, lo), Inverted(Minus(hi, lo))))
    IN  (2 * part[1] + part[2]) \div (2 * part[2])

(* A point that is missing shows the value before it; two are needed.      *)
sparkline(trend, flip) ==
    LET points  == {i \in DOMAIN trend : Positive(trend[i])}
        val(i)  == IF flip THEN Inverted(trend[i]) ELSE trend[i]
        last(i) == val(Max({j \in points : j <= i}))
        lo      == Least({val(i) : i \in points})
        hi      == Greatest({val(i) : i \in points})
    IN  IF Cardinality(points) < 2 THEN <<>>
        ELSE [i \in DOMAIN trend |->
                 IF \A j \in points : j > i THEN Blank
                 ELSE IF Same(lo, hi) THEN Blocks \div 2 - 1
                 ELSE Block(last(i), lo, hi)]

(* Mutant: the rate of the hour before is not turned round.                *)
ShownUnturned(rate) ==
    LET flip  == Less(rate.vwap, <<1, 1>>)
        value == IF flip THEN Inverted(rate.vwap) ELSE rate.vwap
    IN  [value  |-> value,
         low    |-> IF flip /\ Positive(rate.high) THEN Inverted(rate.high) ELSE rate.low,
         high   |-> IF flip /\ Positive(rate.low) THEN Inverted(rate.low) ELSE rate.high,
         change |-> formatChange(value, rate.prev),
         spark  |-> sparkline(rate.trend, flip)]

(* formatRanked's loop: a rate below 1 is shown the other way round.       *)
Shown(rate) ==
    LET flip    == Less(rate.vwap, <<1, 1>>)
        turn(x) == IF flip /\ Positive(x) THEN Inverted(x) ELSE x
        value   == turn(rate.vwap)
    IN  [value  |-> value,
         low    |-> IF flip /\ Positive(rate.high) THEN Inverted(rate.high) ELSE rate.low,
         high   |-> IF flip /\ Positive(rate.low) THEN Inverted(rate.low) ELSE rate.high,
         change |-> formatChange(value, turn(rate.prev)),
         spark  |-> sparkline(rate.trend, flip)]
=============================================================================
