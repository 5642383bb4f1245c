-------------------------------- MODULE Send --------------------------------
(***************************************************************************)
(* internal/telegram's send: one message to Telegram through retry.Do,     *)
(* with the classification of errors by classifySend, under the deadline   *)
(* of the handler's context.                                               *)
(*                                                                         *)
(* A call may be delivered although its response is an error or is lost,   *)
(* so sending it again may duplicate the message.                          *)
(***************************************************************************)
EXTENDS Integers

CONSTANTS Attempts,     \* Policy.Attempts
          Base,         \* Policy.Base
          MaxDelay,     \* Policy.Max
          Deadline,     \* of the handler's context, which starts at 0
          CallTimes,    \* how long one call may take
          RetryAfters   \* values of retry_after in a 429, 0: none

ASSUME SendAssumption == /\ {Attempts, Base} \subseteq Nat \ {0}
                         /\ {MaxDelay, Deadline} \subseteq Nat
                         /\ CallTimes \subseteq Nat
                         /\ RetryAfters \subseteq Nat

VARIABLES pc,         \* "call", "wait" or "done"
          clock,      \* time since the handler began
          attempt,    \* the variable of that name in Do
          wake,       \* when the timer of the wait fires
          outcome,    \* of the last call
          result,     \* what Do returned: "none", "nil" or "error"
          cancelled,  \* "no", or "yes" once the bot was told to stop
          delivered,  \* Telegram: how many messages it sent to the chat
          floodEnd,   \* Telegram: no call before this time, please
          crashes     \* Telegram: how many calls ended in a 5xx

telegram == <<delivered, floodEnd, crashes>>
vars     == <<pc, clock, attempt, wake, outcome, result, cancelled, telegram>>

Outcomes == {"none", "ok", "rejected", "flood", "crash", "garbled", "dial", "dropped"}

Init == /\ pc = "call"
        /\ clock = 0
        /\ attempt = 1
        /\ wake = 0
        /\ outcome = "none"
        /\ result = "none"
        /\ cancelled = "no"
        /\ delivered = 0
        /\ floodEnd = 0
        /\ crashes = 0

-----------------------------------------------------------------------------
(* The calls Telegram acts on, and those it may have acted on: a 5xx, one  *)
(* whose body is not the API's, a response that was lost or came too late. *)
Deliver(o) ==
    delivered' \in CASE o = "ok"                              -> {delivered + 1}
                     [] o \in {"crash", "garbled", "dropped"} -> {delivered, delivered + 1}
                     [] OTHER                                 -> {delivered}

(* Mutant: a lost response is retried like a failed dial.                  *)
retryableOrDropped(o) == o \in {"flood", "crash", "dial", "dropped"}

(* classifySend: 429, the API's own 5xx, and a connection that could not   *)
(* be made.                                                                *)
retryable(o) == o \in {"flood", "crash", "dial"}

delay(n) == IF Base * 2 ^ (n - 1) > MaxDelay THEN MaxDelay ELSE Base * 2 ^ (n - 1)

Delays(n) == {d \in 0 .. MaxDelay : d <= delay(n)}   \* rand.N(delay(n) + 1)

(* Mutant: the error of the last attempt is dropped.                       *)
ReturnNil == pc' = "done" /\ result' = "nil" /\ UNCHANGED <<attempt, wake>>

Return == /\ pc' = "done"
          /\ result' = IF outcome' = "ok" THEN "nil" ELSE "error"
          /\ UNCHANGED <<attempt, wake>>

(* Mutant: the delay of the policy even if Telegram asked for more.       *)
RetryTooSoon(retryAfter) ==
    /\ attempt < Attempts
    /\ \E d \in Delays(attempt) : wake' = clock' + d /\ wake' <= Deadline
    /\ pc' = "wait" /\ UNCHANGED <<attempt, result>>

(* Do waits for max(delay, retry_after), if the deadline allows.           *)
Retry(retryAfter) ==
    /\ attempt < Attempts
    /\ \E d \in Delays(attempt) :
           /\ wake' = clock' + (IF retryAfter > d THEN retryAfter ELSE d)
           /\ wake' <= Deadline
    /\ pc' = "wait"
    /\ UNCHANGED <<attempt, result>>

(* ... and gives up if some delay it may draw does not fit.                *)
GiveUp(retryAfter) ==
    /\ \/ attempt >= Attempts
       \/ clock' + (IF retryAfter > delay(attempt) THEN retryAfter
                    ELSE delay(attempt)) > Deadline
    /\ Return

-----------------------------------------------------------------------------
(* One call of fn that ends in time, and what Do makes of it.              *)
Call(o, retryAfter) ==
    /\ pc = "call"
    /\ cancelled = "no"
    /\ \E t \in CallTimes : clock' = clock + t /\ clock' <= Deadline
    /\ outcome' = o
    /\ Deliver(o)
    /\ crashes' = crashes + (IF o = "crash" THEN 1 ELSE 0)
    /\ floodEnd' = IF o = "flood" THEN clock' + retryAfter ELSE floodEnd
    /\ IF retryable(o) THEN Retry(retryAfter) \/ GiveUp(retryAfter) ELSE Return
    /\ UNCHANGED cancelled

(* A call the context cuts short, at its deadline or when it is cancelled. *)
CallCut ==
    /\ pc = "call"
    /\ clock' \in IF cancelled = "yes" THEN {clock} ELSE {Deadline}
    /\ outcome' = "dropped"
    /\ Deliver("dropped")
    /\ Return
    /\ UNCHANGED <<cancelled, floodEnd, crashes>>

(* Mutant: the attempt is not counted.                                     *)
WakeUncounted == /\ pc = "wait" /\ cancelled = "no"
                 /\ clock' = wake /\ pc' = "call"
                 /\ UNCHANGED <<attempt, wake, outcome, result, cancelled, telegram>>

(* The timer fires; at the deadline itself ctx.Done() may win.             *)
Wake == /\ pc = "wait"
        /\ cancelled = "no"
        /\ clock' = wake
        /\ pc' = "call"
        /\ attempt' = attempt + 1
        /\ UNCHANGED <<wake, outcome, result, cancelled, telegram>>

WaitCut == /\ pc = "wait"
           /\ wake = Deadline \/ cancelled = "yes"
           /\ clock' \in IF cancelled = "yes" THEN {clock} ELSE {Deadline}
           /\ UNCHANGED outcome
           /\ Return
           /\ UNCHANGED <<cancelled, telegram>>

(* SIGTERM, while the call or the wait is under way.                       *)
Cancel == /\ pc \in {"call", "wait"}
          /\ cancelled = "no"
          /\ cancelled' = "yes"
          /\ UNCHANGED <<pc, clock, attempt, wake, outcome, result, telegram>>

Step == \/ \E o \in Outcomes \ {"none", "flood"} : Call(o, 0)
        \/ \E retryAfter \in RetryAfters : Call("flood", retryAfter)
        \/ CallCut \/ Wake \/ WaitCut

(* Do returned.                                                            *)
Done == pc = "done" /\ UNCHANGED vars

Next == Step \/ Cancel \/ Done

Spec == Init /\ [][Next]_vars

FairSpec == Spec /\ WF_vars(Step)

-----------------------------------------------------------------------------
TypeOK == /\ pc \in {"call", "wait", "done"}
          /\ clock \in 0 .. Deadline
          /\ attempt \in 1 .. Attempts
          /\ wake \in 0 .. Deadline
          /\ outcome \in Outcomes
          /\ result \in {"none", "nil", "error"}
          /\ cancelled \in {"no", "yes"}
          /\ {delivered, floodEnd, crashes} \subseteq Nat

(* A message reaches the chat twice only if Telegram answered a delivered  *)
(* one with a 5xx: a dropped connection never causes a duplicate.          *)
DuplicateOnlyAfterCrash == delivered <= 1 + crashes

(* The handler reports success only for a message that was sent.           *)
NilMeansDelivered == result = "nil" => delivered >= 1

(* No call while Telegram's flood wait lasts.                              *)
FloodWaitKept == [][pc = "wait" /\ pc' = "call" => clock' >= floodEnd]_vars

(* Do returns.                                                             *)
Returns == <>(pc = "done")

=============================================================================
