--------------------------- MODULE Fetcher_proofs ---------------------------
(***************************************************************************)
(* Theorems of module Fetcher, for any number of hours, attempts and runs. *)
(***************************************************************************)
EXTENDS Fetcher, TLAPS, WellFoundedInduction

(* A non-empty set of hours has a largest one, so Max is one of them.      *)
LEMMA MaxHourIn ==
    ASSUME NEW S \in SUBSET Hours, S # {}
    PROVE  Max(S) \in S /\ \A h \in S : h <= Max(S)
<1> DEFINE T == {MaxHour - h : h \in S}
<1>1. \A h \in S : h \in Int /\ MaxHour - h \in Nat
  BY FetcherAssumption DEF Hours
<1>2. T \subseteq Nat /\ T # {}
  BY <1>1
<1>3. PICK x \in T : \A y \in T : <<y, x>> \notin OpToRel(<, Nat)
  <2> HIDE DEF T
  <2> QED
    BY <1>2, NatLessThanWellFounded, WFMin
<1>4. \A y \in T : x <= y
  <2> HIDE DEF T
  <2>1. SUFFICES ASSUME NEW y \in T PROVE ~(y < x)
    BY <1>2
  <2>2. x \in Nat /\ y \in Nat
    BY <1>2
  <2>3. <<y, x>> \notin OpToRel(<, Nat)
    BY <1>3
  <2> QED
    BY <2>2, <2>3 DEF OpToRel
<1>5. PICK h \in S : x = MaxHour - h
  OBVIOUS
<1>6. \A g \in S : h >= g
  <2> SUFFICES ASSUME NEW g \in S PROVE h >= g
    OBVIOUS
  <2>1. x <= MaxHour - g
    BY <1>4
  <2> QED
    BY <1>1, <1>5, <2>1, FetcherAssumption
<1>7. Max(S) \in S /\ \A g \in S : Max(S) >= g
  BY <1>6 DEF Max
<1> QED
  BY <1>1, <1>7
(* LatestFetchBefore returns a hash or none.                               *)
LEMMA LatestFetchType ==
    ASSUME NEW hour \in Hours, log \in [Hours -> Hashes \union {NoHash}]
    PROVE  LatestFetchBefore(hour) \in Hashes \union {NoHash}
<1>1. Recorded(hour) \in SUBSET Hours
  BY DEF Recorded
<1>2. CASE Recorded(hour) = {}
  BY <1>2 DEF LatestFetchBefore
<1>3. CASE Recorded(hour) # {}
  <2>1. Max(Recorded(hour)) \in Hours
    BY <1>1, <1>3, MaxHourIn
  <2> QED
    BY <1>3, <2>1 DEF LatestFetchBefore
<1> QED
  BY <1>2, <1>3

(* What the steps that touch only a run's own record do to it.             *)
RunType == [at : Steps, hour : Hours, prevHash : Hashes \union {NoHash},
            attempt : 0 .. MaxAttempts - 1, sum : Hashes \union {NoHash},
            expired : BOOLEAN]

(* The record of a run that is not there is a record of a run.             *)
LEMMA ExitedType == Exited \in RunType
BY FetcherAssumption DEF Exited, RunType, Steps, Hours

(* A run that tries again or gives up keeps its type.                      *)
LEMMA RetryType ==
    ASSUME run \in [Runs -> RunType], NEW r \in Runs, Retry(r)
    PROVE  run' \in [Runs -> RunType]
<1>1. run[r] \in RunType
  OBVIOUS
<1>2. CASE run[r].attempt + 1 < MaxAttempts
  <2>1. run[r].attempt + 1 \in 0 .. MaxAttempts - 1
    BY <1>1, <1>2, FetcherAssumption DEF RunType
  <2>2. [run[r] EXCEPT !.at = "wait", !.attempt = run[r].attempt + 1] \in RunType
    BY <1>1, <2>1 DEF RunType, Steps
  <2> QED
    BY <1>2, <2>2 DEF Retry
<1>3. CASE ~(run[r].attempt + 1 < MaxAttempts)
  BY <1>3, ExitedType DEF Retry, Exit
<1> QED
  BY <1>2, <1>3

(* A run past Fetch has a hash, and Garbage never gets past Decode.        *)
SumFits(state) ==
    /\ state.at = "decode" => state.sum \in Hashes
    /\ state.at \in {"ingest", "record"} => state.sum \in Hashes \ {Garbage}

Decoded == \A r \in Runs : SumFits(run[r])

(* Every variable of Fetcher keeps its type; what does not parse is never  *)
(* stored.                                                                 *)
THEOREM TypeCorrect == Spec => []TypeOK
<1> DEFINE Inv == TypeOK /\ Decoded
<1>1. Init => Inv
  BY ExitedType, FetcherAssumption
     DEF Init, TypeOK, Decoded, SumFits, Exited, RunType
<1>2. Inv /\ [Next]_vars => Inv'
  <2> SUFFICES ASSUME Inv, [Next]_vars PROVE Inv'
    OBVIOUS
  <2> USE DEF At
  <2>0. run \in [Runs -> RunType]
    BY DEF TypeOK, RunType
  <2>1. CASE HourPasses
    BY <2>1, FetcherAssumption DEF HourPasses, TypeOK, Decoded, database
  <2>2. ASSUME NEW r \in Runs, Start(r) PROVE Inv'
    <3>1. PICK hour \in Hours :
             run' = [run EXCEPT ![r] = [Exited EXCEPT !.at = "load", !.hour = hour]]
      BY <2>2 DEF Start
    <3>2. [Exited EXCEPT !.at = "load", !.hour = hour] \in RunType
      BY ExitedType DEF RunType, Steps
    <3>3. run' \in [Runs -> RunType] /\ run'[r].at = "load"
      BY <2>0, <3>1, <3>2 DEF Exited
    <3>4. \A s \in Runs : s # r => run'[s] = run[s]
      BY <2>0, <3>1
    <3>5. UNCHANGED <<now, log, store, stored>>
      BY <2>2 DEF Start, database
    <3> QED
      BY <3>3, <3>4, <3>5 DEF TypeOK, Decoded, SumFits, RunType
  <2> DEFINE OnlyRun(r) == /\ run' \in [Runs -> RunType]
                           /\ \A s \in Runs : s # r => run'[s] = run[s]
                           /\ SumFits(run'[r])
  <2>3. ASSUME NEW r \in Runs, OnlyRun(r), UNCHANGED <<now, log, store, stored>>
        PROVE  Inv'
    BY <2>3 DEF TypeOK, Decoded, RunType
  <2>4. ASSUME NEW r \in Runs, Exit(r) PROVE OnlyRun(r)
    BY <2>0, <2>4, ExitedType DEF Exit, Exited, SumFits
  <2>5. ASSUME NEW r \in Runs, Retry(r) PROVE OnlyRun(r)
    <3>1. run' \in [Runs -> RunType]
      BY <2>0, <2>5, RetryType
    <3>2. CASE run[r].attempt + 1 < MaxAttempts
      <4>1. run'[r].at = "wait"
        BY <2>0, <2>5, <3>2 DEF Retry, RunType
      <4>2. \A s \in Runs : s # r => run'[s] = run[s]
        BY <2>0, <2>5, <3>2 DEF Retry
      <4> QED
        BY <3>1, <4>1, <4>2 DEF SumFits
    <3>3. CASE ~(run[r].attempt + 1 < MaxAttempts)
      BY <2>4, <2>5, <3>3 DEF Retry
    <3> QED
      BY <3>2, <3>3
  <2>6. ASSUME NEW r \in Runs, LoadPrevious(r) PROVE Inv'
    <3>1. LatestFetchBefore(run[r].hour) \in Hashes \union {NoHash}
      BY <2>0, LatestFetchType DEF TypeOK, RunType
    <3>2. OnlyRun(r)
      BY <2>0, <2>6, <3>1 DEF LoadPrevious, RunType, Steps, SumFits
    <3> QED
      BY <2>3, <2>6, <3>2 DEF LoadPrevious, database
  <2>7. ASSUME NEW r \in Runs, Wait(r) PROVE Inv'
    <3>1. CASE run[r].expired
      BY <2>3, <2>4, <2>7, <3>1 DEF Wait, database
    <3>2. CASE ~run[r].expired
      <4>1. OnlyRun(r)
        BY <2>0, <2>7, <3>2 DEF Wait, RunType, Steps, SumFits
      <4> QED
        BY <2>3, <2>7, <4>1 DEF Wait, database
    <3> QED
      BY <3>1, <3>2
  <2>8. ASSUME NEW r \in Runs, FetchError(r) PROVE Inv'
    BY <2>3, <2>5, <2>8 DEF FetchError, database
  <2>9. ASSUME NEW r \in Runs, Fetch(r) PROVE Inv'
    <3>1. PICK sum \in Served(run[r].hour) :
             IF Unchanged(r, sum) THEN Retry(r)
             ELSE run' = [run EXCEPT ![r].at = "decode", ![r].sum = sum]
      BY <2>9 DEF Fetch
    <3>2. sum \in Hashes
      BY <2>0, FetcherAssumption DEF Served, Hashes, Garbage, RunType, Hours
    <3>3. CASE Unchanged(r, sum)
      BY <2>3, <2>5, <2>9, <3>1, <3>3 DEF Fetch, database
    <3>4. CASE ~Unchanged(r, sum)
      <4>1. OnlyRun(r)
        BY <2>0, <3>1, <3>2, <3>4 DEF RunType, Steps, SumFits
      <4> QED
        BY <2>3, <2>9, <4>1 DEF Fetch, database
    <3> QED
      BY <3>3, <3>4
  <2>10. ASSUME NEW r \in Runs, Decode(r) PROVE Inv'
    <3>1. CASE run[r].sum = Garbage
      BY <2>3, <2>4, <2>10, <3>1 DEF Decode, database
    <3>2. CASE run[r].sum # Garbage
      <4>1. run[r].sum \in Hashes \ {Garbage}
        BY <2>10, <3>2 DEF Decode, Decoded, SumFits
      <4>2. OnlyRun(r)
        BY <2>0, <2>10, <3>2, <4>1 DEF Decode, RunType, Steps, SumFits
      <4> QED
        BY <2>3, <2>10, <4>2 DEF Decode, database
    <3> QED
      BY <3>1, <3>2
  <2>11. ASSUME NEW r \in Runs, Ingest(r) PROVE Inv'
    <3>1. run[r].hour \in Hours /\ run[r].sum \in Hashes \ {Garbage}
      BY <2>0, <2>11 DEF Ingest, Decoded, SumFits, RunType
    <3>2. /\ store' \in [Hours -> Hashes \union {NoHash}]
          /\ stored' \in [Hours -> SUBSET (Hashes \ {Garbage})]
      BY <2>11, <3>1 DEF Ingest, TypeOK
    <3>3. OnlyRun(r)
      <4>1. CASE Exit(r)
        BY <2>4, <4>1
      <4>2. CASE run' = [run EXCEPT ![r].at = "record"]
        BY <2>0, <3>1, <4>2 DEF RunType, Steps, SumFits
      <4> QED
        BY <2>11, <4>1, <4>2 DEF Ingest
    <3> QED
      BY <2>11, <3>2, <3>3 DEF Ingest, TypeOK, Decoded, RunType
  <2>12. ASSUME NEW r \in Runs, Record(r) PROVE Inv'
    <3>1. run[r].hour \in Hours /\ run[r].sum \in Hashes
      BY <2>0, <2>12 DEF Record, RecordFetch, Decoded, SumFits, RunType
    <3>2. log' \in [Hours -> Hashes \union {NoHash}]
      BY <2>12, <3>1 DEF Record, RecordFetch, TypeOK
    <3>3. OnlyRun(r)
      BY <2>4, <2>12 DEF Record, RecordFetch
    <3> QED
      BY <2>12, <3>2, <3>3 DEF Record, RecordFetch, TypeOK, Decoded, RunType
  <2>13. ASSUME NEW r \in Runs, Expire(r) PROVE Inv'
    <3>1. OnlyRun(r)
      BY <2>0, <2>13 DEF Expire, RunType, Decoded, SumFits
    <3> QED
      BY <2>3, <2>13, <3>1 DEF Expire, database
  <2>14. ASSUME NEW r \in Runs, Fail(r) PROVE Inv'
    BY <2>3, <2>4, <2>14 DEF Fail, database
  <2>15. CASE UNCHANGED vars
    BY <2>15 DEF vars, TypeOK, Decoded
  <2> QED
    BY <2>1, <2>2, <2>6, <2>7, <2>8, <2>9, <2>10, <2>11, <2>12, <2>13, <2>14,
       <2>15
       DEF Next, Advance, ExpiredCall
<1> QED
  BY <1>1, <1>2, PTL DEF Spec
-----------------------------------------------------------------------------
(* A run that has a hash to record has committed that payload before.      *)
Committed ==
    \A r \in Runs : run[r].at = "record" => run[r].sum \in stored[run[r].hour]

(* Steps that write neither table and bring no run to "record".            *)
LEMMA CommittedKept ==
    ASSUME TypeOK, LogFollowsStore /\ Committed, UNCHANGED <<log, stored>>,
           \A r \in Runs : run'[r].at = "record" =>
               /\ run[r].at = "record"
               /\ run'[r].sum = run[r].sum /\ run'[r].hour = run[r].hour
    PROVE  (LogFollowsStore /\ Committed)'
BY DEF LogFollowsStore, Committed

(* Nothing is recorded that was not stored, with any number of runs at     *)
(* once and any of their steps failing.                                    *)
THEOREM LogAlwaysFollowsStore == Spec => []LogFollowsStore
<1> DEFINE Inv == LogFollowsStore /\ Committed
<1>1. Init => Inv
  BY DEF Init, LogFollowsStore, Committed, Exited
<1>2. TypeOK /\ Inv /\ [Next]_vars => Inv'
  <2> SUFFICES ASSUME TypeOK, Inv, [Next]_vars PROVE Inv'
    OBVIOUS
  <2> USE DEF At
  <2>0. run \in [Runs -> RunType]
    BY DEF TypeOK, RunType
  <2>1. ASSUME NEW r \in Runs, Exit(r)
        PROVE  run'[r].at # "record" /\ \A s \in Runs : s # r => run'[s] = run[s]
    BY <2>0, <2>1 DEF Exit, Exited
  <2>2. ASSUME NEW r \in Runs, Retry(r)
        PROVE  run'[r].at # "record" /\ \A s \in Runs : s # r => run'[s] = run[s]
    <3>1. CASE run[r].attempt + 1 < MaxAttempts
      BY <2>0, <2>2, <3>1 DEF Retry, RunType
    <3>2. CASE ~(run[r].attempt + 1 < MaxAttempts)
      BY <2>1, <2>2, <3>2 DEF Retry
    <3> QED
      BY <3>1, <3>2
  <2>3. ASSUME NEW r \in Runs, Ingest(r) PROVE Inv'
    <3> DEFINE hour == run[r].hour
               sum  == run[r].sum
    <3>1. /\ log' = log
          /\ stored' = [stored EXCEPT ![hour] = @ \union {sum}]
          /\ \A s \in Runs : s # r => run'[s] = run[s]
          /\ run'[r].at = "record" => run'[r].hour = hour /\ run'[r].sum = sum
      <4>1. CASE Exit(r)
        BY <2>1, <2>3, <4>1 DEF Ingest
      <4>2. CASE run' = [run EXCEPT ![r].at = "record"]
        BY <2>0, <2>3, <4>2 DEF Ingest, RunType
      <4> QED
        BY <2>3, <4>1, <4>2 DEF Ingest
    <3>2. \A h \in Hours : stored[h] \subseteq stored'[h]
      BY <3>1 DEF TypeOK
    <3>3. hour \in Hours /\ sum \in stored'[hour]
      BY <2>0, <3>1 DEF RunType, TypeOK
    <3>4. LogFollowsStore'
      BY <3>1, <3>2 DEF LogFollowsStore
    <3>5. Committed'
      <4> SUFFICES ASSUME NEW s \in Runs, run'[s].at = "record"
                   PROVE  run'[s].sum \in stored'[run'[s].hour]
        BY DEF Committed
      <4>1. CASE s = r
        BY <3>1, <3>3, <4>1
      <4>2. CASE s # r
        BY <2>0, <3>1, <3>2, <4>2 DEF Committed, RunType
      <4> QED
        BY <4>1, <4>2
    <3> QED
      BY <3>4, <3>5
  <2>4. ASSUME NEW r \in Runs, Record(r) PROVE Inv'
    <3>1. /\ log' = [log EXCEPT ![run[r].hour] = run[r].sum]
          /\ stored' = stored
          /\ run[r].sum \in stored[run[r].hour]
      BY <2>4 DEF Record, RecordFetch, Committed
    <3>2. LogFollowsStore'
      BY <3>1 DEF LogFollowsStore, TypeOK
    <3>3. run'[r].at # "record" /\ \A s \in Runs : s # r => run'[s] = run[s]
      BY <2>1, <2>4 DEF Record, RecordFetch
    <3> QED
      BY <3>1, <3>2, <3>3 DEF Committed
  <2>5. CASE HourPasses \/ UNCHANGED vars
    BY <2>5, CommittedKept DEF HourPasses, vars, database
  <2>6. ASSUME NEW r \in Runs, Fail(r) PROVE Inv'
    BY <2>1, <2>6, CommittedKept DEF Fail, database
  <2>7. ASSUME NEW r \in Runs, Start(r) PROVE Inv'
    BY <2>0, <2>7, CommittedKept DEF Start, database, Exited
  <2>8. ASSUME NEW r \in Runs, LoadPrevious(r) \/ Expire(r) PROVE Inv'
    BY <2>0, <2>8, CommittedKept DEF LoadPrevious, Expire, database, RunType
  <2>9. ASSUME NEW r \in Runs, Wait(r) \/ Decode(r) PROVE Inv'
    <3>1. CASE Exit(r)
      BY <2>1, <2>9, <3>1, CommittedKept DEF Wait, Decode, database
    <3>2. CASE ~Exit(r)
      BY <2>0, <2>9, <3>2, CommittedKept DEF Wait, Decode, database, RunType
    <3> QED
      BY <3>1, <3>2
  <2>10. ASSUME NEW r \in Runs, FetchError(r) \/ Fetch(r) PROVE Inv'
    <3>1. CASE Retry(r)
      BY <2>2, <2>10, <3>1, CommittedKept DEF FetchError, Fetch, database
    <3>2. CASE ~Retry(r)
      BY <2>0, <2>10, <3>2, CommittedKept
         DEF FetchError, Fetch, database, RunType
    <3> QED
      BY <3>1, <3>2
  <2> QED
    BY <2>3, <2>4, <2>5, <2>6, <2>7, <2>8, <2>9, <2>10
       DEF Next, Advance, ExpiredCall
<1> QED
  BY <1>1, <1>2, TypeCorrect, PTL DEF Spec
-----------------------------------------------------------------------------
(* Cron alone.  What the only run has read of fetch_log is still so, what  *)
(* it is about to store differs from it, and what it is about to record is *)
(* what its hour has.                                                      *)
CronHour == run["cron"].hour

CronUpToDate ==
    LET c == run["cron"]
    IN  /\ c.at \in {"wait", "fetch", "decode", "ingest"}
              => c.prevHash = LatestFetchBefore(CronHour)
        /\ c.at \in {"decode", "ingest"}
              => c.prevHash = NoHash \/ c.sum # c.prevHash
        /\ c.at = "record" => store[CronHour] = c.sum

(* The hash that cron compares with changes only with fetch_log or with    *)
(* its hour.                                                               *)
LEMMA LatestKept ==
    ASSUME log' = log, CronHour' = CronHour
    PROVE  LatestFetchBefore(CronHour)' = LatestFetchBefore(CronHour)
<1>1. Recorded(CronHour)' = Recorded(CronHour)
  BY DEF Recorded
<1> QED
  BY <1>1 DEF LatestFetchBefore

(* While cron is alone, no step makes what it has read out of date.        *)
LEMMA CronStep ==
    ASSUME Backfills = {}, TypeOK, TypeOK', CronUpToDate, [Next]_vars
    PROVE  CronUpToDate'
<1> DEFINE c == run["cron"]
<1>0. /\ Runs = {"cron"}
      /\ c \in RunType
      /\ run \in [Runs -> RunType]
      /\ c' \in RunType
  BY DEF Runs, TypeOK, RunType
<1> USE DEF At
<1>1. CASE Exit("cron")
  BY <1>0, <1>1 DEF Exit, Exited, CronUpToDate, CronHour
<1>2. ASSUME UNCHANGED <<log, store>>, c' = c PROVE CronUpToDate'
  BY <1>2, LatestKept DEF CronUpToDate, CronHour
<1>3. CASE HourPasses \/ UNCHANGED vars
  BY <1>2, <1>3 DEF HourPasses, vars, database
<1>4. CASE Start("cron")
  <2>1. c'.at = "load"
    BY <1>0, <1>4 DEF Start, Exited
  <2> QED
    BY <2>1 DEF CronUpToDate, CronHour
<1>5. CASE LoadPrevious("cron")
  <2>1. /\ c'.at = "fetch"
        /\ c'.hour = c.hour
        /\ c'.prevHash = LatestFetchBefore(CronHour)
    BY <1>0, <1>5 DEF LoadPrevious, RunType, CronHour
  <2>2. LatestFetchBefore(CronHour)' = LatestFetchBefore(CronHour)
    BY <1>5, <2>1, LatestKept DEF LoadPrevious, database, CronHour
  <2> QED
    BY <2>1, <2>2 DEF CronUpToDate, CronHour
<1>6. CASE Retry("cron") /\ UNCHANGED database /\ c.at = "fetch"
  <2>1. CASE c.attempt + 1 < MaxAttempts
    <3>1. c'.at = "wait" /\ c'.hour = c.hour /\ c'.prevHash = c.prevHash
      BY <1>0, <1>6, <2>1 DEF Retry, RunType
    <3>2. LatestFetchBefore(CronHour)' = LatestFetchBefore(CronHour)
      BY <1>6, <3>1, LatestKept DEF database, CronHour
    <3> QED
      BY <1>6, <3>1, <3>2 DEF CronUpToDate, CronHour
  <2>2. CASE ~(c.attempt + 1 < MaxAttempts)
    BY <1>1, <1>6, <2>2 DEF Retry
  <2> QED
    BY <2>1, <2>2
<1>7. CASE Wait("cron") \/ Decode("cron") \/ Expire("cron")
  <2>1. CASE Exit("cron")
    BY <1>1, <2>1
  <2>2. CASE ~Exit("cron")
    <3>1. /\ c'.hour = c.hour /\ c'.prevHash = c.prevHash /\ c'.sum = c.sum
          /\ \/ c'.at = c.at
             \/ c.at = "wait" /\ c'.at = "fetch"
             \/ c.at = "decode" /\ c'.at = "ingest"
          /\ UNCHANGED <<log, store>>
      BY <1>0, <1>7, <2>2 DEF Wait, Decode, Expire, RunType, database
    <3>2. LatestFetchBefore(CronHour)' = LatestFetchBefore(CronHour)
      BY <3>1, LatestKept DEF CronHour
    <3> QED
      BY <3>1, <3>2 DEF CronUpToDate, CronHour
  <2> QED
    BY <2>1, <2>2
<1>8. CASE Fetch("cron")
  <2>1. PICK sum \in Served(c.hour) :
           IF Unchanged("cron", sum) THEN Retry("cron")
           ELSE run' = [run EXCEPT !["cron"].at = "decode", !["cron"].sum = sum]
    BY <1>8 DEF Fetch
  <2>2. CASE Unchanged("cron", sum)
    BY <1>6, <1>8, <2>1, <2>2 DEF Fetch
  <2>3. CASE ~Unchanged("cron", sum)
    <3>1. /\ c'.at = "decode" /\ c'.hour = c.hour
          /\ c'.prevHash = c.prevHash /\ c'.sum = sum
      BY <1>0, <2>1, <2>3 DEF RunType
    <3>2. LatestFetchBefore(CronHour)' = LatestFetchBefore(CronHour)
      BY <1>8, <3>1, LatestKept DEF Fetch, database, CronHour
    <3>3. c'.prevHash = LatestFetchBefore(CronHour)'
      BY <1>8, <3>1, <3>2 DEF Fetch, CronUpToDate, CronHour
    <3>4. c'.prevHash = NoHash \/ c'.sum # c'.prevHash
      BY <2>3, <3>1 DEF Unchanged
    <3> QED
      BY <3>1, <3>3, <3>4 DEF CronUpToDate, CronHour
  <2> QED
    BY <2>2, <2>3
<1>9. CASE Ingest("cron") /\ ~Exit("cron")
  <2>1. /\ c'.at = "record" /\ c'.hour = c.hour /\ c'.sum = c.sum
        /\ store' = [store EXCEPT ![c.hour] = c.sum]
    BY <1>0, <1>9 DEF Ingest, RunType
  <2>2. store'[c'.hour] = c'.sum
    BY <1>0, <2>1 DEF TypeOK, RunType
  <2> QED
    BY <2>1, <2>2 DEF CronUpToDate, CronHour
<1> QED
  BY <1>0, <1>1, <1>3, <1>4, <1>5, <1>6, <1>7, <1>8, <1>9
     DEF Next, Advance, ExpiredCall, FetchError, Record, RecordFetch, Fail

(* While cron is alone, the payload recorded for an hour is not stored for *)
(* the next one.                                                           *)
THEOREM CronNeverStoresRecorded ==
    ASSUME Backfills = {}
    PROVE  Spec => RecordedNotStoredAgain
<1>1. Init => CronUpToDate
  BY DEF Init, CronUpToDate, CronHour, Exited, Runs
<1>2. TypeOK /\ TypeOK' /\ CronUpToDate /\ [Next]_vars => CronUpToDate'
  BY CronStep
<1>3. TypeOK /\ CronUpToDate /\ [Next]_vars =>
        [\A h \in Hours \ {1} :
            (store'[h] # store[h] /\ log[h - 1] # NoHash)
                => store'[h] # log[h - 1]]_vars
  <2> SUFFICES ASSUME TypeOK, CronUpToDate, Next, NEW h \in Hours \ {1},
                      store'[h] # store[h], log[h - 1] # NoHash
               PROVE  store'[h] # log[h - 1]
    OBVIOUS
  <2>1. Ingest("cron")
    BY DEF Next, Runs, Advance, ExpiredCall, HourPasses, Start, LoadPrevious,
           Wait, FetchError, Fetch, Decode, Record, RecordFetch, Expire, Fail, database
  <2> DEFINE c == run["cron"]
  <2>2. /\ c.at = "ingest"
        /\ store' = [store EXCEPT ![c.hour] = c.sum]
    BY <2>1 DEF Ingest, At
  <2>3. c.hour = h /\ store'[h] = c.sum
    BY <2>2 DEF TypeOK
  <2>4. LatestFetchBefore(h) = log[h - 1]
    <3>1. /\ h - 1 \in Recorded(h)
          /\ \A g \in Recorded(h) : g \in Int /\ g <= h - 1
      BY FetcherAssumption DEF Recorded, Hours
    <3>2. Max(Recorded(h)) \in Recorded(h) /\ Max(Recorded(h)) >= h - 1
      <4>1. Recorded(h) \in SUBSET Hours /\ Recorded(h) # {}
        BY <3>1 DEF Recorded
      <4> QED
        BY <3>1, <4>1, MaxHourIn DEF Hours
    <3>3. Max(Recorded(h)) = h - 1
      BY <3>1, <3>2 DEF Hours
    <3> QED
      BY <3>1, <3>3 DEF LatestFetchBefore
  <2> QED
    BY <2>2, <2>3, <2>4 DEF CronUpToDate, CronHour
<1> QED
  BY <1>1, <1>2, <1>3, TypeCorrect, PTL DEF Spec, RecordedNotStoredAgain

(* While cron is alone, fetch_log gets the hash of what the hour has.      *)
THEOREM CronRecordsWhatIsStored ==
    ASSUME Backfills = {}
    PROVE  Spec => RecordMatchesStore
<1>1. Init => CronUpToDate
  BY DEF Init, CronUpToDate, CronHour, Exited, Runs
<1>2. TypeOK /\ TypeOK' /\ CronUpToDate /\ [Next]_vars => CronUpToDate'
  BY CronStep
<1>3. TypeOK /\ CronUpToDate /\ [Next]_vars =>
        [\A h \in Hours : log'[h] # log[h] => log'[h] = store'[h]]_vars
  <2> SUFFICES ASSUME TypeOK, CronUpToDate, Next, NEW h \in Hours,
                      log'[h] # log[h]
               PROVE  log'[h] = store'[h]
    OBVIOUS
  <2>1. Record("cron")
    BY DEF Next, Runs, Advance, ExpiredCall, HourPasses, Start, LoadPrevious,
           Wait, FetchError, Fetch, Decode, Ingest, Expire, Fail, database
  <2> QED
    BY <2>1 DEF Record, RecordFetch, At, TypeOK, CronUpToDate, CronHour
<1> QED
  BY <1>1, <1>2, <1>3, TypeCorrect, PTL DEF Spec, RecordMatchesStore
=============================================================================
