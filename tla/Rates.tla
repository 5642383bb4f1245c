------------------------------- MODULE Rates --------------------------------
(***************************************************************************)
(* internal/exchangesvc, QueryServer.GetRates: one answer put together     *)
(* from several queries, each of which sees the tables as they are when it *)
(* runs, while ingests of any hour commit in between.                      *)
(*                                                                         *)
(* Requests share nothing in the server, so one request after the other    *)
(* stands for all of them.  All rows are those of the league asked for.    *)
(* The pairs and LastFetchUtc are read for themselves; no property here    *)
(* relates them to the hours.                                              *)
(***************************************************************************)
EXTENDS Integers, FiniteSets, FiniteSetsExt

CONSTANTS MaxHour,      \* bound: hours 1 .. MaxHour may be ingested
          trendHours    \* how many hours GetRates reads at once (24)

ASSUME RatesAssumption == {MaxHour, trendHours} \subseteq Nat \ {0}

Hours  == 1 .. MaxHour
NoHour == 0             \* COALESCE(MAX(hour_utc), 0) of no rows

VARIABLES
    stored,     \* hours with rows in market_snapshots
    priced,     \* those with a row against divine, chaos or exalted
    pc,         \* the query that the request runs next
    hour,       \* LatestSnapshotHour
    byHour,     \* rowsByHour: the hours it has rows of
    prev,       \* PreviousSnapshotHour
    older,      \* the hours with rows in the second read of previousRates
    before,     \* history: stored when the request began
    pricedThen  \* history: priced when hour, then prev, was chosen

tables  == <<stored, priced>>
request == <<pc, hour, byHour, prev, older, before, pricedThen>>
vars    == <<tables, request>>

Init == /\ stored = {} /\ priced = {}
        /\ pc = "idle" /\ hour = NoHour /\ byHour = {} /\ prev = NoHour
        /\ older = {} /\ before = {} /\ pricedThen = {}

-----------------------------------------------------------------------------
(* An ingest commits: rows are added to an hour, or replaced, never taken  *)
(* away.  Cron goes up the hours, a backfill may fill any of them.         *)
Commit(h) ==
    /\ stored' = stored \union {h}
    /\ priced' \in {priced, priced \union {h}}
    /\ UNCHANGED request

(* A sync or a curation gives currencies their trade ids: rows that were   *)
(* there count as priced.                                                  *)
Describe ==
    /\ priced' \in {hours \in SUBSET stored : priced \subseteq hours} \ {priced}
    /\ UNCHANGED <<stored, request>>

(* loadRatePairs.                                                          *)
Begin ==
    /\ pc = "idle"
    /\ before' = stored
    /\ pc' = "hour"
    /\ hour' = NoHour /\ byHour' = {} /\ prev' = NoHour /\ older' = {}
    /\ pricedThen' = {}
    /\ UNCHANGED tables

(* A query fails, the league has no snapshots or there are no pairs.       *)
Fail ==
    /\ pc \notin {"idle", "done"}
    /\ pc' = "idle"
    /\ UNCHANGED <<tables, hour, byHour, prev, older, before, pricedThen>>

(* SELECT COALESCE(MAX(hour_utc), 0), of all hours and of those before.    *)
Latest(hours) == IF hours = {} THEN NoHour ELSE Max(hours)

LatestBefore(h) == Latest({g \in stored : g < h})

LatestSnapshotHour ==
    /\ pc = "hour"
    /\ hour' = Latest(stored)
    /\ pricedThen' = priced
    /\ pc' = IF hour' = NoHour THEN "idle" ELSE "rows"
    /\ UNCHANGED <<tables, byHour, prev, older, before>>

(* Mutant: the range leaves its last hour out.                             *)
InRangeOpen(after, through) == {h \in priced : after < h /\ h < through}

(* ListSnapshotRatesInRange, grouped by hour: hours without a priced row   *)
(* are not in the map.                                                     *)
InRange(after, through) == {h \in priced : after < h /\ h <= through}

ListSnapshotRates ==
    /\ pc = "rows"
    /\ byHour' = InRange(hour - trendHours, hour)
    /\ pc' = "prev"
    /\ UNCHANGED <<tables, hour, prev, older, before, pricedThen>>

(* Mutant: of the hours already read, which saves the query.               *)
PreviousOfRead ==
    /\ pc = "prev"
    /\ prev' = Latest({h \in byHour : h < hour})
    /\ pricedThen' = priced
    /\ pc' = IF prev' = NoHour \/ prev' \in byHour THEN "done" ELSE "older"
    /\ UNCHANGED <<tables, hour, byHour, older, before>>

(* previousRates: the hour before, and whether its rows are at hand.       *)
PreviousSnapshotHour ==
    /\ pc = "prev"
    /\ prev' = LatestBefore(hour)
    /\ pricedThen' = priced
    /\ pc' = IF prev' = NoHour \/ prev' \in byHour THEN "done" ELSE "older"
    /\ UNCHANGED <<tables, hour, byHour, older, before>>

ListOlderRates ==
    /\ pc = "older"
    /\ older' = InRange(prev - 1, prev)
    /\ pc' = "done"
    /\ UNCHANGED <<tables, hour, byHour, prev, before, pricedThen>>

(* The response is ranked and sent.                                        *)
Respond ==
    /\ pc = "done"
    /\ pc' = "idle"
    /\ UNCHANGED <<tables, hour, byHour, prev, older, before, pricedThen>>

-----------------------------------------------------------------------------
Query == \/ Begin \/ LatestSnapshotHour \/ ListSnapshotRates
         \/ PreviousSnapshotHour \/ ListOlderRates \/ Respond \/ Fail

Next == Query \/ Describe \/ \E h \in Hours : Commit(h)

Spec == Init /\ [][Next]_vars

-----------------------------------------------------------------------------
TypeOK == /\ stored \subseteq Hours /\ priced \subseteq stored
          /\ pc \in {"idle", "hour", "rows", "prev", "older", "done"}
          /\ {hour, prev} \subseteq Hours \union {NoHour}
          /\ byHour \subseteq Hours /\ older \subseteq Hours
          /\ pc \in {"rows", "prev", "older", "done"} => hour # NoHour

(* A response is not older than any hour that was there when the request   *)
(* began, so a user who asks again never goes back in time.                *)
ServesNewest == pc = "done" => \A h \in before : h <= hour

(* The hour it compares with is the one before: no hour that was there     *)
(* when the request began lies between them, priced or not, however far    *)
(* back it is.                                                             *)
PrevIsNext == pc = "done" => /\ prev < hour
                             /\ \A h \in before : ~(prev < h /\ h < hour)

(* The hours of a response are the last two there were, although they are  *)
(* chosen by two queries with commits of any hour around them.             *)
HoursAreCurrent == ServesNewest /\ PrevIsNext

(* The rates of the hour are there if it had any when it was chosen,       *)
(* whatever was committed between the choice and the read.                 *)
RatesOfHour == pc = "prev" /\ hour \in pricedThen => hour \in byHour

(* So are those of the hour before, also when it was committed between the *)
(* read of the range and its choice, or lies outside of the range.         *)
RatesOfPrev == pc = "done" /\ prev \in pricedThen => prev \in byHour \union older

(* A response never lacks the rates of an hour that has rates.             *)
RatesArePresent == RatesOfHour /\ RatesOfPrev
=============================================================================
