------------------------------ MODULE Fetcher -------------------------------
(***************************************************************************)
(* cmd/fetcher: runs that fetch one hour's digest, compare its hash with   *)
(* the one recorded for the hour before, ingest it and record its hash.    *)
(*                                                                         *)
(* The CronJob starts at most one run at a time, for the hour before the   *)
(* current one (and again after a failure); backfills are started by hand  *)
(* for any settled hour and run beside it.  A run may fail or die between  *)
(* any two steps.  What ingest.Run stores is one atomic step here, which   *)
(* is what module Ingest shows of it.                                      *)
(*                                                                         *)
(* A payload is known by its hash.  The hash of hour h's own payload is h; *)
(* the API may serve the one of the hour before instead, or something that *)
(* is not JSON.                                                            *)
(***************************************************************************)
EXTENDS Integers, FiniteSets, FiniteSetsExt

CONSTANTS MaxHour,       \* bound: hours 1 .. MaxHour are fetched
          MaxAttempts,   \* the length of backoff (6 in the code)
          Backfills      \* runs started by hand at the same time as cron's

ASSUME FetcherAssumption ==
    /\ MaxHour \in Nat \ {0}
    /\ MaxAttempts \in Nat \ {0}
    /\ "cron" \notin Backfills

VARIABLES now,      \* the current hour; hours before it are settled
          log,      \* fetch_log: hour -> payload_sha256, NoHash without a row
          store,    \* hour -> hash of the payload whose rows it has
          stored,   \* history: hour -> hashes ever committed for it
          run       \* state of each fetcher process

vars == <<now, log, store, stored, run>>

Runs    == {"cron"} \union Backfills
Hours   == 1 .. MaxHour
Garbage == MaxHour + 1
NoHash  == MaxHour + 2
Hashes  == 0 .. Garbage

(* What the API may answer for an hour.                                    *)
Served(hour) == {hour, hour - 1, Garbage}

Steps == {"idle", "load", "wait", "fetch", "decode", "ingest", "record"}

Exited == [at |-> "idle", hour |-> 1, prevHash |-> NoHash, attempt |-> 0,
           sum |-> NoHash, expired |-> FALSE]

Init == /\ now = 1
        /\ log = [h \in Hours |-> NoHash]
        /\ store = [h \in Hours |-> NoHash]
        /\ stored = [h \in Hours |-> {}]
        /\ run = [r \in Runs |-> Exited]

database == <<log, store, stored>>

Exit(r) == run' = [run EXCEPT ![r] = Exited]

At(r, step) == run[r].at = step

-----------------------------------------------------------------------------
HourPasses == /\ now <= MaxHour
              /\ now' = now + 1
              /\ UNCHANGED <<database, run>>

(* AlignHour(now) less an hour, or the hour given with -hour.  The state   *)
(* "load" begins when db.Open has succeeded and the 60 s deadline is set.  *)
Start(r) ==
    /\ At(r, "idle")
    /\ \E hour \in Hours :
          /\ IF r = "cron" THEN hour = now - 1 ELSE hour < now
          /\ run' = [run EXCEPT ![r] = [Exited EXCEPT !.at = "load", !.hour = hour]]
    /\ UNCHANGED <<now, database>>

Recorded(hour) == {h \in Hours : h < hour /\ log[h] # NoHash}

(* Mutant: hour_utc <= ?.                                                  *)
LatestFetchUpTo(hour) ==
    LET recorded == {h \in Hours : h <= hour /\ log[h] # NoHash}
    IN  IF recorded = {} THEN NoHash ELSE log[Max(recorded)]

(* ORDER BY hour_utc DESC LIMIT 1 of the hours before.                     *)
LatestFetchBefore(hour) ==
    IF Recorded(hour) = {} THEN NoHash ELSE log[Max(Recorded(hour))]

LoadPrevious(r) ==
    /\ At(r, "load")
    /\ ~run[r].expired
    /\ run' = [run EXCEPT ![r].at = "fetch",
                          ![r].prevHash = LatestFetchBefore(run[r].hour)]
    /\ UNCHANGED <<now, database>>

(* Mutant: attempts are not counted.                                       *)
RetryForEver(r) == run' = [run EXCEPT ![r].at = "wait"]

(* After a failed attempt: wait for the next one, or give up.              *)
Retry(r) ==
    LET attempt == run[r].attempt + 1
    IN  IF attempt < MaxAttempts
        THEN run' = [run EXCEPT ![r].at = "wait", ![r].attempt = attempt]
        ELSE Exit(r)

Wait(r) ==
    /\ At(r, "wait")
    /\ IF run[r].expired THEN Exit(r)
                         ELSE run' = [run EXCEPT ![r].at = "fetch"]
    /\ UNCHANGED <<now, database>>

FetchError(r) ==
    /\ At(r, "fetch")
    /\ Retry(r)
    /\ UNCHANGED <<now, database>>

(* "unchanged data since last fetch" counts as a failed attempt.           *)
Unchanged(r, sum) == run[r].prevHash # NoHash /\ sum = run[r].prevHash

Fetch(r) ==
    /\ At(r, "fetch")
    /\ ~run[r].expired
    /\ \E sum \in Served(run[r].hour) :
          IF Unchanged(r, sum)
          THEN Retry(r)
          ELSE run' = [run EXCEPT ![r].at = "decode", ![r].sum = sum]
    /\ UNCHANGED <<now, database>>

Decode(r) ==
    /\ At(r, "decode")
    /\ IF run[r].sum = Garbage THEN Exit(r)
                               ELSE run' = [run EXCEPT ![r].at = "ingest"]
    /\ UNCHANGED <<now, database>>

(* Mutant: an error of ingest.Run is logged and not returned.              *)
IngestIgnoringError(r) ==
    /\ At(r, "ingest")
    /\ run' = [run EXCEPT ![r].at = "record"]
    /\ UNCHANGED <<now, database>>

(* ingest.Run committed; when its acknowledgement is lost the run exits.   *)
Ingest(r) ==
    /\ At(r, "ingest")
    /\ ~run[r].expired
    /\ store' = [store EXCEPT ![run[r].hour] = run[r].sum]
    /\ stored' = [stored EXCEPT ![run[r].hour] = @ \union {run[r].sum}]
    /\ \/ run' = [run EXCEPT ![r].at = "record"]
       \/ Exit(r)
    /\ UNCHANGED <<now, log>>

RecordFetch(hour, sum) == log' = [log EXCEPT ![hour] = sum]

(* A statement of its own, after the commit of the ingest.                 *)
Record(r) ==
    /\ At(r, "record")
    /\ ~run[r].expired
    /\ RecordFetch(run[r].hour, run[r].sum)
    /\ Exit(r)
    /\ UNCHANGED <<now, store, stored>>

(* The deadline of ctx passes.                                             *)
Expire(r) ==
    /\ ~At(r, "idle")
    /\ ~run[r].expired
    /\ run' = [run EXCEPT ![r].expired = TRUE]
    /\ UNCHANGED <<now, database>>

(* A query, the transaction or RecordFetch fails, or the process dies.     *)
Fail(r) ==
    /\ ~At(r, "idle")
    /\ Exit(r)
    /\ UNCHANGED <<now, database>>

(* Database calls with an expired ctx return its error.                    *)
ExpiredCall(r) ==
    /\ run[r].expired
    /\ run[r].at \in {"load", "ingest", "record"}
    /\ Fail(r)

-----------------------------------------------------------------------------
Advance(r) == \/ LoadPrevious(r) \/ Wait(r) \/ FetchError(r) \/ Fetch(r)
              \/ Decode(r) \/ Ingest(r) \/ Record(r) \/ ExpiredCall(r)

Next == \/ HourPasses
        \/ \E r \in Runs : Start(r) \/ Advance(r) \/ Expire(r) \/ Fail(r)

Spec == Init /\ [][Next]_vars

(* A process that has something to do goes on: HTTP calls have a timeout.  *)
FairSpec == Spec /\ \A r \in Runs : WF_vars(Advance(r))

-----------------------------------------------------------------------------
TypeOK ==
    /\ now \in 1 .. MaxHour + 1
    /\ log \in [Hours -> Hashes \union {NoHash}]
    /\ store \in [Hours -> Hashes \union {NoHash}]
    /\ stored \in [Hours -> SUBSET (Hashes \ {Garbage})]
    /\ run \in [Runs -> [at : Steps, hour : Hours,
                         prevHash : Hashes \union {NoHash},
                         attempt : 0 .. MaxAttempts - 1,
                         sum : Hashes \union {NoHash}, expired : BOOLEAN]]

(* fetch_log never runs ahead of the tables: a hash is recorded only for   *)
(* an hour whose rows were committed from that very payload, whatever      *)
(* fails in between.  Otherwise a fetch could be rejected as unchanged     *)
(* although its predecessor was never stored.                              *)
LogFollowsStore ==
    \A h \in Hours : log[h] # NoHash => log[h] \in stored[h]

(* While cron is alone, a payload recorded for the hour before is not      *)
(* stored, whatever came between: retries, failed runs, runs that died     *)
(* before recording, or a second run for an hour already recorded.         *)
RecordedNotStoredAgain ==
    [][\A h \in Hours \ {1} :
          (store'[h] # store[h] /\ log[h - 1] # NoHash)
              => store'[h] # log[h - 1]]_vars

(* While cron is alone, a run that gets to the end leaves the log and the  *)
(* tables agreeing on its hour.                                            *)
RecordMatchesStore ==
    [][\A h \in Hours : log'[h] # log[h] => log'[h] = store'[h]]_vars

(* What README says of stale payloads: a payload that was stored for an    *)
(* hour is not stored for the next one.                                    *)
PreviousPayloadNotStored ==
    [][\A h \in Hours \ {1} :
          \A sum \in stored'[h] \ stored[h] : sum \notin stored[h - 1]]_vars

(* Every run ends: at most MaxAttempts fetches, and no wait is for ever.   *)
RunsEnd == \A r \in Runs : ~At(r, "idle") ~> At(r, "idle")
=============================================================================
