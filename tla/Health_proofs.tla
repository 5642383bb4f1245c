--------------------------- MODULE Health_proofs ----------------------------
(***************************************************************************)
(* Theorems about the two reports of health that Kubernetes acts on: the   *)
(* bot's heartbeat (module BotHealth) and the status of the                *)
(* exchange-service (module Serving, alone and as RequestPath's part), for *)
(* every value of the constants.                                           *)
(***************************************************************************)
EXTENDS BotHealth, RequestPath, TLAPS

(* What fits into the liveness window: a poll that times out with the      *)
(* longest pause after it, and a handler.  The values of the code leave    *)
(* 115 of the window's 180 seconds for a retry_after.                      *)
Margin == /\ HandlerTimeout <= Window
          /\ PollTimeout + MaxBackoff <= Window
          /\ \A r \in RetryAfters : PollTimeout + r <= Window

(* The strengthening: the age of the beat when the phase will end.         *)
Bounded == /\ phase = "poll"   => loopAge + left <= PollTimeout
           /\ phase = "sleep"  => loopAge + left <= Window
           /\ phase = "handle" => loopAge + left <= HandlerTimeout

Timers == /\ phase \in Phases
          /\ left \in Nat
          /\ loopAge \in Nat
          /\ failures \in 0 .. MaxShift + 1

(* The pause is the cap's or the one Telegram asked for, at most.          *)
LEMMA BackoffBounded ==
    ASSUME NEW f \in 1 .. MaxShift + 1, NEW r \in RetryAfters
    PROVE  /\ pollBackoff(f, r) \in Nat
           /\ pollBackoff(f, r) <= MaxBackoff \/ pollBackoff(f, r) = r
<1> DEFINE shift == IF f - 1 < MaxShift THEN f - 1 ELSE MaxShift
           wait  == IF Shifted[shift + 1] < MaxBackoff
                    THEN Shifted[shift + 1] ELSE MaxBackoff
<1>1. shift \in 0 .. 6
  BY DEF MaxShift
<1>2. Shifted[shift + 1] \in Nat
  <2> HIDE DEF shift
  <2>1. \A i \in 0 .. 6 : Shifted[i + 1] \in Nat
    BY DEF Shifted
  <2> QED
    BY <1>1, <2>1
<1>3. wait \in Nat /\ wait <= MaxBackoff
  <2> HIDE DEF shift
  <2>1. MaxBackoff \in Nat
    BY HealthAssumption
  <2>2. CASE Shifted[shift + 1] < MaxBackoff
    BY <1>2, <2>1, <2>2
  <2>3. CASE ~(Shifted[shift + 1] < MaxBackoff)
    BY <1>2, <2>1, <2>3
  <2> QED
    BY <2>2, <2>3
<1>4. pollBackoff(f, r) = IF r > wait THEN r ELSE wait
  BY DEF pollBackoff
<1>5. r \in Nat
  BY HealthAssumption
<1> HIDE DEF wait
<1>6. CASE r > wait
  BY <1>3, <1>4, <1>5, <1>6
<1>7. CASE ~(r > wait)
  BY <1>3, <1>4, <1>5, <1>7
<1> QED
  BY <1>6, <1>7

(* Polling begins with the margin intact.                                  *)
LEMMA BoundedInit == Init /\ Margin => Timers /\ Bounded
  BY HealthAssumption DEF Init, Margin, Timers, Bounded, Phases, MaxShift

(* No step spends more time between two beats than the timeouts allow.     *)
LEMMA BoundedStep ==
    ASSUME Margin, Timers, Bounded, [Next]_vars
    PROVE  Timers' /\ Bounded'
<1> USE HealthAssumption DEF Timers, Bounded, Phases, loop, probe
<1>1. ASSUME Top PROVE /\ phase' = "poll" /\ left' \in Nat /\ loopAge' \in Nat
                       /\ loopAge' + left' <= PollTimeout
  BY <1>1 DEF Top
<1>2. ASSUME NEW n, Handle(n)
      PROVE  /\ phase' = "handle" /\ left' \in Nat /\ loopAge' \in Nat
             /\ loopAge' + left' <= HandlerTimeout
  BY <1>2 DEF Handle
<1>3. CASE Tick
  <2>1. loopAge' \in Nat /\ loopAge' <= loopAge + 1
    <3>1. CASE loopAge <= Window
      BY <1>3, <3>1 DEF Tick
    <3>2. CASE ~(loopAge <= Window)
      BY <1>3, <3>2 DEF Tick
    <3> QED
      BY <3>1, <3>2
  <2>2. CASE phase = "hung"
    BY <1>3, <2>1, <2>2 DEF Tick
  <2>3. CASE phase # "hung"
    <3>1. left' = left - 1 /\ left > 0 /\ UNCHANGED <<phase, failures>>
      BY <1>3, <2>3 DEF Tick
    <3> QED
      BY <2>1, <2>3, <3>1
  <2> QED
    BY <2>2, <2>3
<1>4. CASE PollOK
  <2>1. failures' \in 0 .. MaxShift + 1
    BY <1>4 DEF PollOK, MaxShift
  <2> QED
    BY <1>1, <1>2, <1>4, <2>1 DEF PollOK
<1>5. CASE PollFails
  <2>1. failures' \in 1 .. MaxShift + 1
    <3>1. CASE failures <= MaxShift
      BY <1>5, <3>1 DEF PollFails, MaxShift
    <3>2. CASE ~(failures <= MaxShift)
      BY <1>5, <3>2 DEF PollFails, MaxShift
    <3> QED
      BY <3>1, <3>2
  <2>2. PICK r \in RetryAfters : left' = pollBackoff(failures', r)
    BY <1>5 DEF PollFails
  <2>3. left' \in Nat /\ (left' <= MaxBackoff \/ left' = r)
    <3>1. \A f \in 1 .. MaxShift + 1 :
              /\ pollBackoff(f, r) \in Nat
              /\ pollBackoff(f, r) <= MaxBackoff \/ pollBackoff(f, r) = r
      BY BackoffBounded
    <3> QED
      BY <2>1, <2>2, <3>1
  <2>4. loopAge <= PollTimeout /\ UNCHANGED loopAge /\ phase' = "sleep"
    BY <1>5 DEF PollFails
  <2>5. PollTimeout + r <= Window /\ PollTimeout + MaxBackoff <= Window
    BY DEF Margin
  <2> QED
    BY <2>1, <2>3, <2>4, <2>5 DEF MaxShift
<1>6. CASE Wake
  BY <1>1, <1>6 DEF Wake
<1>7. CASE Handled
  <2>1. CASE updates = 0
    BY <1>1, <1>7, <2>1 DEF Handled
  <2>2. CASE updates # 0
    BY <1>2, <1>7, <2>2 DEF Handled
  <2> QED
    BY <2>1, <2>2
<1>8. CASE Hang
  BY <1>8 DEF Hang, MaxShift
<1>9. CASE Kill
  BY <1>1, <1>9 DEF Kill, Start, MaxShift
<1>10. CASE ProbePasses \/ ProbeFails \/ UNCHANGED vars
  BY <1>10 DEF ProbePasses, ProbeFails, vars
<1> QED
  BY <1>3, <1>4, <1>5, <1>6, <1>7, <1>8, <1>9, <1>10 DEF Next

(* OnlyHungFails, for all timeouts that leave the margin: however polls    *)
(* fail and however long batches are, a loop that runs is never killed.    *)
THEOREM RunningLoopIsHealthy == ASSUME Margin PROVE Spec => []OnlyHungFails
<1>1. Init => Timers /\ Bounded
  BY BoundedInit
<1>2. Timers /\ Bounded /\ [Next]_vars => (Timers /\ Bounded)'
  BY BoundedStep
<1>3. Timers /\ Bounded => OnlyHungFails
  BY HealthAssumption
     DEF Timers, Bounded, Phases, OnlyHungFails, healthz, Margin
<1> QED
  BY <1>1, <1>2, <1>3, PTL DEF Spec

(* Every variable of BotHealth keeps its type.                             *)
THEOREM TypeCorrect == Spec => []TypeOK
<1>1. Init => TypeOK
  BY HealthAssumption DEF Init, TypeOK, Phases, MaxShift
<1>2. TypeOK /\ [Next]_vars => TypeOK'
  <2> SUFFICES ASSUME TypeOK, [Next]_vars PROVE TypeOK'
    OBVIOUS
  <2> USE HealthAssumption DEF TypeOK, Phases, loop, probe
  <2>1. ASSUME Top PROVE /\ phase' = "poll" /\ left' \in Nat /\ updates' = 0
                         /\ loopAge' = 0
    BY <2>1 DEF Top
  <2>2. ASSUME NEW n \in Nat \ {0}, Handle(n)
        PROVE  /\ phase' = "handle" /\ left' \in Nat /\ updates' \in Nat
               /\ loopAge' = 0
    BY <2>2 DEF Handle
  <2>3. CASE Tick
    <3>1. UNCHANGED <<phase, failures, updates, misses>> /\ probeIn' \in 0 .. Period
      BY <2>3 DEF Tick
    <3>2. left' \in Nat
      BY <2>3 DEF Tick
    <3>3. loopAge' \in 0 .. Window + 1
      BY <2>3 DEF Tick
    <3> QED
      BY <3>1, <3>2, <3>3
  <2>4. CASE PollOK
    <3>1. failures' = 0 /\ UNCHANGED <<probeIn, misses>>
      BY <2>4 DEF PollOK
    <3>2. \/ Top
          \/ \E n \in Nat \ {0} : Handle(n)
      BY <2>4 DEF PollOK
    <3> QED
      BY <2>1, <2>2, <3>1, <3>2 DEF MaxShift
  <2>5. CASE PollFails
    <3>1. failures' \in 1 .. MaxShift + 1
      <4>1. CASE failures <= MaxShift
        BY <2>5, <4>1 DEF PollFails, MaxShift
      <4>2. CASE ~(failures <= MaxShift)
        BY <2>5, <4>2 DEF PollFails, MaxShift
      <4> QED
        BY <4>1, <4>2
    <3>2. left' \in Nat
      <4>1. PICK r \in RetryAfters : left' = pollBackoff(failures', r)
        BY <2>5 DEF PollFails
      <4>2. \A f \in 1 .. MaxShift + 1 : pollBackoff(f, r) \in Nat
        BY BackoffBounded
      <4> QED
        BY <3>1, <4>1, <4>2
    <3> QED
      BY <2>5, <3>1, <3>2 DEF PollFails, MaxShift
  <2>6. CASE Wake
    BY <2>1, <2>6 DEF Wake
  <2>7. CASE Handled
    <3>1. CASE updates = 0
      BY <2>1, <2>7, <3>1 DEF Handled
    <3>2. CASE updates # 0
      BY <2>2, <2>7, <3>2 DEF Handled
    <3> QED
      BY <3>1, <3>2
  <2>8. CASE Hang
    BY <2>8 DEF Hang, MaxShift
  <2>9. CASE Kill
    BY <2>1, <2>9 DEF Kill, Start, MaxShift
  <2>10. CASE ProbePasses \/ ProbeFails \/ UNCHANGED vars
    BY <2>10 DEF ProbePasses, ProbeFails, vars
  <2> QED
    BY <2>3, <2>4, <2>5, <2>6, <2>7, <2>8, <2>9, <2>10 DEF Next
<1> QED
  BY <1>1, <1>2, PTL DEF Spec

-----------------------------------------------------------------------------
(* The strengthening for the exchange-service: a goroutine stops it only   *)
(* while it runs, after a Shutdown that has shut the health server for     *)
(* good; it has calls only while it serves, and none once it has drained.  *)
Stopping == /\ process \in {"open", "start", "serve", "exited"}
            /\ calls \in Nat
            /\ process \in {"open", "exited"} => stopper = "none"
            /\ process # "serve" => calls = 0
            /\ stopper = "gone" => calls = 0
            /\ stopper \in {"stop", "drain", "gone"} =>
                   health = "shut" /\ status = "NOT_SERVING"

(* No step of the exchange-service breaks Stopping: WatchDB's late status  *)
(* does not get past the closed health server.                             *)
LEMMA StoppingStep ==
    ASSUME Stopping, [ServingNext]_servingVars PROVE Stopping'
<1> USE DEF Stopping, main, watcher
<1>1. CASE DbChanges \/ Signal
  BY <1>1 DEF DbChanges, Signal
<1>2. ASSUME NEW how, Exit(how) PROVE Stopping'
  BY <1>2 DEF Exit
<1>3. CASE Killed
  BY <1>2, <1>3 DEF Killed
<1>4. CASE Restart
  BY <1>4 DEF Restart
<1>5. CASE WatchDB
  BY <1>5 DEF WatchDB, Ping, CheckCtx, Apply, WatchTick,
              WatchEnds, SetServingStatus
<1>6. CASE Stop
  BY <1>6 DEF Stop, Shutdown, GracefulStop, Drained
<1>7. CASE Main
  BY <1>2, <1>7 DEF Main, OpenFails, Open, Serve,
                    ServeReturns
<1>8. CASE Call \/ Answer
  BY <1>8 DEF Call, Answer
<1>9. CASE UNCHANGED servingVars
  BY <1>9 DEF servingVars
<1> QED
  BY <1>1, <1>3, <1>4, <1>5, <1>6, <1>7, <1>8, <1>9 DEF ServingNext

LEMMA StoppingInvariant == ServingSpec => []Stopping
<1>1. ServingInit => Stopping
  BY DEF ServingInit, Stopping
<1>2. Stopping /\ [ServingNext]_servingVars => Stopping'
  BY StoppingStep
<1> QED
  BY <1>1, <1>2, PTL DEF ServingSpec

(* NotServingWhileStopping, for any number of calls.                       *)
THEOREM NeverServingWhileStopping == ServingSpec => []NotServingWhileStopping
<1>1. Stopping => NotServingWhileStopping
  BY DEF Stopping, NotServingWhileStopping
<1> QED
  BY <1>1, StoppingInvariant, PTL

(* CallsDrained, for any number of calls: every exit but a kill finds no   *)
(* call open.                                                              *)
THEOREM CallsAlwaysDrained == ServingSpec => CallsDrained
<1>1. Stopping /\ [ServingNext]_servingVars
      => [process' = "exited" /\ process # "exited" /\ exit' # "killed" =>
             calls = 0]_servingVars
  <2> SUFFICES ASSUME Stopping, ServingNext, process' = "exited",
                      process # "exited", exit' # "killed"
               PROVE  calls = 0
    OBVIOUS
  <2> USE DEF Stopping, main
  <2>1. CASE Killed
    BY <2>1 DEF Killed, Exit
  <2>2. CASE Main
    BY <2>2 DEF Main, OpenFails, Open, Serve,
                ServeReturns
  <2>3. CASE \/ DbChanges \/ Signal \/ Restart
             \/ Call \/ Answer
    BY <2>3 DEF DbChanges, Signal, Restart, Call, Answer
  <2>4. CASE WatchDB \/ Stop
    BY <2>4 DEF WatchDB, Ping, CheckCtx, Apply, WatchTick,
                WatchEnds, Stop, Shutdown, GracefulStop,
                Drained
  <2> QED
    BY <2>1, <2>2, <2>3, <2>4 DEF ServingNext
<1> QED
  BY <1>1, StoppingInvariant, PTL DEF ServingSpec, CallsDrained

-----------------------------------------------------------------------------
(* Whatever the bot, the gateway and gRPC do, the exchange-service behind  *)
(* them is Serving: their steps are calls and answers of it, or leave it   *)
(* alone.                                                                  *)
LEMMA PathStepServes ==
    ASSUME [PathNext]_pathVars PROVE [ServingNext]_servingVars
<1>1. ASSUME NEW step, Within(step) PROVE step
  BY <1>1 DEF Within
<1>2. CASE Within(\/ DbChanges \/ Signal \/ Killed
                       \/ Restart \/ WatchDB \/ Stop
                       \/ Main)
  BY <1>2 DEF Within, ServingNext
<1>3. CASE Invoke \/ Reply \/ CancelledEnds
  BY <1>3 DEF Invoke, Reply, CancelledEnds, ServingNext
<1>4. ASSUME NEW m, Press(m) PROVE UNCHANGED servingVars
  BY <1>4 DEF Press
<1>5. CASE Bot \/ Deadline
  BY <1>5 DEF Bot, Send, Refused, HttpTimeout,
              Deadline, Abandon
<1>6. CASE \/ Unavailable \/ GatewayExit \/ GatewayStarts
           \/ Probe \/ Cancel
  BY <1>6 DEF Unavailable, GatewayExit, GatewayStarts,
              Probe, Cancel
<1>7. CASE UNCHANGED pathVars
  BY <1>7 DEF pathVars
<1> QED
  BY <1>2, <1>3, <1>4, <1>5, <1>6, <1>7 DEF PathNext, Gateway

(* RequestPath implements Serving, with the same variables.                *)
THEOREM PathImplementsServing == PathSpec => ServingSpec
<1>1. PathInit => ServingInit
  BY DEF PathInit
<1>2. [PathNext]_pathVars => [ServingNext]_servingVars
  BY PathStepServes
<1> QED
  BY <1>1, <1>2, PTL DEF PathSpec, ServingSpec

(* So both hold with any number of attempts, retries, timeouts and exits   *)
(* of the gateway in front of the exchange-service.                        *)
THEOREM PathStopsCleanly ==
    PathSpec => []NotServingWhileStopping /\ CallsDrained
  BY PathImplementsServing, NeverServingWhileStopping, CallsAlwaysDrained, PTL

-----------------------------------------------------------------------------
(* The bot, the gateway and the exchange-service agree: a press waits      *)
(* exactly while the gateway has its request, the handlers of that request *)
(* and of those given up are among the calls, and nobody tries more often  *)
(* than it may.                                                            *)
Accounted == /\ press \in {"idle", "send", "await"}
             /\ hop \in {"none", "invoke", "run", "hang"}
             /\ press = "await" <=> hop # "none"
             /\ stray \in Nat
             /\ stray + (IF BeingHandled THEN 1 ELSE 0) <= calls
             /\ attempt \in 0 .. HttpAttempts
             /\ tries \in 0 .. GrpcAttempts

LEMMA AccountedStep ==
    ASSUME Stopping, Accounted,
           [PathNext]_pathVars
    PROVE  Accounted'
<1> DEFINE Steps == \/ DbChanges \/ Signal \/ Killed
                    \/ Restart \/ WatchDB \/ Stop \/ Main
<1> USE RequestPathAssumption DEF Stopping, Accounted, BeingHandled,
            bot, front, proxy, path
<1>1. ASSUME Again
      PROVE  press' \in {"idle", "send"} /\ attempt' \in 0 .. HttpAttempts
  BY <1>1 DEF Again
<1>2. ASSUME CallFails, press = "await"
      PROVE  /\ press' \in {"idle", "send", "await"}
             /\ hop' \in {"none", "invoke"}
             /\ press' = "await" <=> hop' # "none"
             /\ attempt' \in 0 .. HttpAttempts
             /\ tries' \in 0 .. GrpcAttempts
  <2>1. CASE method # "leagues" /\ tries < GrpcAttempts
    BY <1>2, <2>1 DEF CallFails
  <2>2. CASE ~(method # "leagues" /\ tries < GrpcAttempts)
    BY <1>1, <1>2, <2>2 DEF CallFails
  <2> QED
    BY <2>1, <2>2
<1>3. CASE Within(Steps)
  <2>1. CASE process # "exited" /\ process' = "exited"
    <3>1. Lose
      BY <1>3, <2>1 DEF Within
    <3>2. Exit("failed") \/ Exit("killed") \/ Exit("ok")
      BY <1>3, <2>1
         DEF Within, DbChanges, Signal, Killed, Restart,
             WatchDB, Ping, CheckCtx, Apply, WatchTick,
             WatchEnds, Stop, Shutdown, GracefulStop,
             Drained, Main, OpenFails, Open, Serve,
             ServeReturns, main
    <3>3. calls' = 0 /\ stray' = 0
      BY <3>1, <3>2 DEF Exit, Lose
    <3>4. CASE BeingHandled
      BY <1>2, <3>1, <3>3, <3>4 DEF Lose
    <3>5. CASE ~BeingHandled
      BY <3>1, <3>3, <3>5 DEF Lose
    <3> QED
      BY <3>4, <3>5
  <2>2. CASE ~(process # "exited" /\ process' = "exited")
    <3>1. UNCHANGED path
      BY <1>3, <2>2 DEF Within
    <3>2. Steps
      BY <1>3 DEF Within
    <3>3. calls' = calls
      BY <2>2, <3>2
         DEF DbChanges, Signal, Killed, Restart, Exit,
             WatchDB, Ping, CheckCtx, Apply, WatchTick,
             WatchEnds, Stop, Shutdown, GracefulStop,
             Drained, Main, OpenFails, Open, Serve,
             ServeReturns
    <3> QED
      BY <3>1, <3>3
  <2> QED
    BY <2>1, <2>2
<1>4. ASSUME NEW m, Press(m) PROVE Accounted'
  BY <1>4 DEF Press, servingVars
<1>5. ASSUME Abandon
      PROVE  /\ hop' = "none" /\ tries' \in 0 .. GrpcAttempts
             /\ stray' \in Nat /\ stray' <= calls'
  BY <1>5 DEF Abandon, servingVars
<1>6. CASE Bot \/ Deadline
  <2>1. CASE Send
    BY <2>1 DEF Send, servingVars
  <2>2. CASE Refused
    BY <1>1, <2>2 DEF Refused, servingVars
  <2>3. CASE HttpTimeout \/ Deadline
    BY <1>1, <1>5, <2>3 DEF HttpTimeout, Deadline, Finish
  <2> QED
    BY <1>6, <2>1, <2>2, <2>3 DEF Bot
<1>7. CASE Invoke
  BY <1>7 DEF Invoke, Call
<1>8. CASE Unavailable
  BY <1>2, <1>8 DEF Unavailable, servingVars
<1>9. CASE Reply
  <2>1. calls' = calls - 1 /\ stray' = stray /\ hop = "run"
    BY <1>9 DEF Reply, Answer
  <2>2. CASE Finish /\ hop' = "none" /\ tries' = 0
    BY <2>1, <2>2 DEF Finish
  <2>3. CASE CallFails
    BY <1>2, <2>1, <2>3
  <2> QED
    BY <1>9, <2>2, <2>3 DEF Reply
<1>10. CASE GatewayExit
  BY <1>1, <1>10 DEF GatewayExit, servingVars
<1>11. CASE GatewayStarts \/ Probe \/ Cancel
  BY <1>11 DEF GatewayStarts, Probe, Cancel, servingVars
<1>12. CASE CancelledEnds
  BY <1>12 DEF CancelledEnds, Cancelled, Answer
<1>13. CASE UNCHANGED pathVars
  BY <1>13 DEF pathVars, servingVars
<1> QED
  BY <1>3, <1>4, <1>6, <1>7, <1>8, <1>9, <1>10, <1>11, <1>12, <1>13
     DEF PathNext, Gateway

(* The accounts are kept for any bounds on attempts and calls: no request  *)
(* is handled that neither its press waits for nor a timeout gave up.      *)
THEOREM HandlersAccounted ==
    PathSpec => []Accounted
<1>1. PathInit => Accounted
  BY RequestPathAssumption DEF PathInit, ServingInit, Accounted, BeingHandled
<1>2. Stopping /\ Accounted /\ [PathNext]_pathVars => Accounted'
  BY AccountedStep
<1>3. PathSpec => []Stopping
  BY PathImplementsServing, StoppingInvariant, PTL
<1> QED
  BY <1>1, <1>2, <1>3, PTL DEF PathSpec
=============================================================================
