----------------------------- MODULE BotHealth ------------------------------
(***************************************************************************)
(* cmd/bot: the heartbeat of the poll loop against the liveness probe.     *)
(*                                                                         *)
(* The loop beats at its head and before each update.  Between two beats   *)
(* it polls (bounded by the HTTP client's timeout), after a failed poll    *)
(* sleeps, or runs one handler (bounded by its context).  /healthz fails   *)
(* once the last beat is older than Window; the kubelet kills the process  *)
(* after Threshold failures in a row.  A handler or poll that never comes  *)
(* back, the fault the probe is there for, is phase "hung".                *)
(* Time is counted in ticks, of a second or longer.                        *)
(***************************************************************************)
EXTENDS Integers, Sequences

CONSTANTS PollTimeout,     \* Timeout of telegram's http.Client
          HandlerTimeout,  \* context of handleMessage and handleCallback
          MaxBackoff,      \* maxPollBackoff
          Window,          \* livenessWindow
          Period,          \* periodSeconds of the liveness probe
          Threshold,       \* failureThreshold of the liveness probe
          RetryAfters,     \* values of retry_after that Telegram sends, 0: none
          BatchLimit       \* bound: updates in one response

MaxShift == 6
Shifted  == <<1, 2, 4, 8, 16, 32, 64>>    \* 1 << 0 .. 1 << MaxShift

ASSUME HealthAssumption ==
    /\ {PollTimeout, HandlerTimeout, MaxBackoff, Window, BatchLimit} \subseteq Nat
    /\ {Period, Threshold} \subseteq Nat \ {0}
    /\ RetryAfters \subseteq Nat

VARIABLES phase,     \* "poll", "sleep", "handle" or "hung"
          left,      \* ticks after which the phase ends at the latest
          failures,  \* the variable of that name in main
          updates,   \* updates of the batch not yet handled
          loopAge,   \* ticks since h.loopAt
          probeIn,   \* ticks until the kubelet's next probe
          misses     \* consecutive probes of /healthz that failed

loop  == <<phase, left, failures, updates, loopAge>>
probe == <<probeIn, misses>>
vars  == <<loop, probe>>

-----------------------------------------------------------------------------
(* Mutant: nothing caps the wait, which grows with every failure.          *)
UncappedBackoff(f, retryAfter) ==
    IF retryAfter > 10 * f THEN retryAfter ELSE 10 * f

(* How long the loop sleeps after its f-th failure in a row: at least as   *)
(* long as the code's, which doubles from one second.                      *)
pollBackoff(f, retryAfter) ==
    LET shift == IF f - 1 < MaxShift THEN f - 1 ELSE MaxShift
        wait  == IF Shifted[shift + 1] < MaxBackoff
                 THEN Shifted[shift + 1] ELSE MaxBackoff
    IN  IF retryAfter > wait THEN retryAfter ELSE wait

(* The head of the loop: a beat and the next getUpdates.                   *)
Top == /\ loopAge' = 0
       /\ phase' = "poll"
       /\ left' = PollTimeout
       /\ updates' = 0

(* The process starts.                                                     *)
Start == Top /\ failures' = 0

Init == /\ phase = "poll"
        /\ left = PollTimeout
        /\ failures = 0
        /\ updates = 0
        /\ loopAge = 0
        /\ probeIn = Period
        /\ misses = 0

-----------------------------------------------------------------------------
(* A tick passes; no phase but "hung" outlasts its bound.                  *)
Tick == /\ phase = "hung" \/ left > 0
        /\ probeIn > 0
        /\ left' = IF phase = "hung" THEN left ELSE left - 1
        /\ loopAge' = IF loopAge <= Window THEN loopAge + 1 ELSE loopAge
        /\ probeIn' = probeIn - 1
        /\ UNCHANGED <<phase, failures, updates, misses>>

(* The loop over updates with n of them left: a beat and a handler.        *)
Handle(n) == /\ loopAge' = 0
             /\ phase' = "handle"
             /\ left' = HandlerTimeout
             /\ updates' = n - 1

PollOK == /\ phase = "poll"
          /\ failures' = 0
          /\ Top \/ \E n \in 1 .. BatchLimit : Handle(n)
          /\ UNCHANGED probe

(* failures is capped where pollBackoff no longer tells it apart.          *)
PollFails == /\ phase = "poll"
             /\ failures' = IF failures <= MaxShift THEN failures + 1 ELSE failures
             /\ \E retryAfter \in RetryAfters :
                    left' = pollBackoff(failures', retryAfter)
             /\ phase' = "sleep"
             /\ UNCHANGED <<updates, loopAge, probe>>

(* time.After(wait); the loop continues at its head.                       *)
Wake == /\ phase = "sleep"
        /\ left = 0
        /\ Top
        /\ UNCHANGED <<failures, probe>>

Handled == /\ phase = "handle"
           /\ IF updates = 0 THEN Top ELSE Handle(updates)
           /\ UNCHANGED <<failures, probe>>

(* The hung loop's variables are never read again.                         *)
Hang == /\ phase \in {"poll", "handle"}
        /\ phase' = "hung"
        /\ left' = 0
        /\ failures' = 0
        /\ updates' = 0
        /\ UNCHANGED <<loopAge, probe>>

-----------------------------------------------------------------------------
(* Mutant: the answer of the gateway's /healthz, where the process is up.  *)
healthzOfProcess == TRUE

(* GET /healthz.                                                           *)
healthz == loopAge <= Window

(* The probe answers 200, or not; the last of Threshold failures in a row  *)
(* replaces the process.                                                   *)
ProbePasses == /\ probeIn = 0
               /\ healthz
               /\ probeIn' = Period
               /\ misses' = 0
               /\ UNCHANGED loop

ProbeFails == /\ probeIn = 0
              /\ ~healthz
              /\ misses + 1 < Threshold
              /\ probeIn' = Period
              /\ misses' = misses + 1
              /\ UNCHANGED loop

Kill == /\ probeIn = 0
        /\ ~healthz
        /\ misses + 1 = Threshold
        /\ probeIn' = Period
        /\ misses' = 0
        /\ Start

Next == \/ Tick \/ PollOK \/ PollFails \/ Wake \/ Handled \/ Hang
        \/ ProbePasses \/ ProbeFails \/ Kill

Spec == Init /\ [][Next]_vars

(* Time passes and the kubelet probes.                                     *)
FairSpec == Spec /\ WF_vars(Tick) /\ WF_vars(ProbePasses \/ ProbeFails \/ Kill)

-----------------------------------------------------------------------------
Phases == {"poll", "sleep", "handle", "hung"}

TypeOK == /\ phase \in Phases
          /\ left \in Nat
          /\ failures \in 0 .. MaxShift + 1
          /\ updates \in Nat
          /\ loopAge \in 0 .. Window + 1
          /\ probeIn \in 0 .. Period
          /\ misses \in 0 .. Threshold - 1

(* /healthz fails only when a poll or a handler never comes back: polls    *)
(* that time out, backoff, pauses that Telegram asks for and slow handlers *)
(* of a long batch all leave it green.                                     *)
OnlyHungFails == phase # "hung" => healthz

(* The loop that hangs is replaced: the probe is not deceived for ever.    *)
HungIsReplaced == phase = "hung" ~> phase # "hung"

(* README.md:312: an outage of Telegram never restarts the bot.            *)
OutageNeverRestarts == [][Kill => phase = "hung"]_vars
=============================================================================
