-------------------------------- MODULE Bot ---------------------------------
(***************************************************************************)
(* cmd/bot: the poll loop, against Telegram's getUpdates.                  *)
(*                                                                         *)
(* Telegram keeps every update until a getUpdates with a larger offset     *)
(* confirms it.  The bot keeps its offset in memory only; it advances it   *)
(* when it begins to handle an update and sends it with the next poll.     *)
(* Requests and responses may be lost.  The process may be asked to stop   *)
(* (SIGTERM cancels ctx, and with it the running handler), may die at any  *)
(* time, and is started again; the deployment's strategy is Recreate, so   *)
(* there is one process.                                                   *)
(*                                                                         *)
(* What a handler does is left out here: it ends, having answered or       *)
(* having failed, unless ctx was cancelled while it ran.                   *)
(***************************************************************************)
EXTENDS Integers, Sequences

CONSTANTS MaxUpdate,    \* bound: update ids 1 .. MaxUpdate
          BatchLimit,   \* how many updates one response holds at most
          MaxStops      \* bound: how often the process stops or dies

ASSUME BotAssumption == /\ MaxUpdate \in Nat
                        /\ BatchLimit \in Nat \ {0}
                        /\ MaxStops \in Nat

VARIABLES
    arrived,     \* Telegram: updates 1 .. arrived were sent by users
    confirmed,   \* Telegram: updates 1 .. confirmed are dropped
    pc,          \* "top", "poll", "backoff", "batch", "handle" or "down"
    offset,      \* the variable of that name in main
    next, last,  \* updates next .. last of the response are not begun
    ctx,         \* "live" or "cancelled": ctx.Err() # nil
    served,      \* history: updates whose handler ended with ctx alive
    begun,       \* history: updates this process has begun to handle
    stops        \* history: number of times the process stopped or died

telegram == <<arrived, confirmed>>
history  == <<served, begun, stops>>
vars     == <<telegram, pc, offset, next, last, ctx, history>>

Updates == 1 .. MaxUpdate

Init == /\ arrived = 0
        /\ confirmed = 0
        /\ pc = "top"
        /\ offset = 0
        /\ next = 1
        /\ last = 0
        /\ ctx = "live"
        /\ served = {}
        /\ begun = {}
        /\ stops = 0

-----------------------------------------------------------------------------
Arrive == /\ arrived < MaxUpdate
          /\ arrived' = arrived + 1
          /\ UNCHANGED <<confirmed, pc, offset, next, last, ctx, history>>

(* SIGTERM.                                                                *)
Cancel == /\ pc # "down"
          /\ ctx = "live"
          /\ stops < MaxStops
          /\ ctx' = "cancelled"
          /\ UNCHANGED <<telegram, pc, offset, next, last, history>>

Stop == /\ pc' = "down"
        /\ stops' = stops + 1
        /\ UNCHANGED <<telegram, offset, next, last, ctx, served, begun>>

(* The process dies: killed after its grace period, out of memory, panic.  *)
Die == pc # "down" /\ stops < MaxStops /\ Stop

(* Mutant: a new process begins with the updates after its start.          *)
RestartAtEnd == /\ pc = "down"
                /\ pc' = "top" /\ offset' = arrived + 1
                /\ next' = 1 /\ last' = 0 /\ ctx' = "live" /\ begun' = {}
                /\ UNCHANGED <<telegram, served, stops>>

Restart == /\ pc = "down"
           /\ pc' = "top"
           /\ offset' = 0
           /\ next' = 1
           /\ last' = 0
           /\ ctx' = "live"
           /\ begun' = {}
           /\ UNCHANGED <<telegram, served, stops>>

(* The head of the loop, with the select on ctx.Done().                    *)
Top == /\ pc = "top"
       /\ \/ ctx = "cancelled" /\ Stop
          \/ /\ ctx = "live"
             /\ pc' = "poll"
             /\ UNCHANGED <<telegram, offset, next, last, ctx, history>>

-----------------------------------------------------------------------------
(* Telegram receives a getUpdates.  An offset confirms every update below  *)
(* it; without one (offset 0) nothing is confirmed.  The response holds    *)
(* the updates after the confirmed ones, at most BatchLimit of them.       *)
Confirmed == IF offset - 1 > confirmed THEN offset - 1 ELSE confirmed

EndOfBatch == IF Confirmed + BatchLimit <= arrived
              THEN Confirmed + BatchLimit ELSE arrived

(* getUpdates succeeds, with the updates there are or with none.           *)
PollOK == /\ pc = "poll"
          /\ confirmed' = Confirmed
          /\ pc' = "batch"
          /\ next' = Confirmed + 1
          /\ last' = EndOfBatch
          /\ UNCHANGED <<arrived, offset, ctx, history>>

(* getUpdates fails: Telegram may have received it or not.  A cancelled    *)
(* ctx ends the loop, another error is followed by a pause.                *)
PollError == /\ pc = "poll"
             /\ confirmed' \in {Confirmed, confirmed}
             /\ \/ ctx = "cancelled" /\ pc' = "down" /\ stops' = stops + 1
                \/ ctx = "live" /\ pc' = "backoff" /\ stops' = stops
             /\ UNCHANGED <<arrived, offset, next, last, ctx, served, begun>>

Backoff == /\ pc = "backoff"
           /\ pc' = "top"
           /\ UNCHANGED <<telegram, offset, next, last, ctx, history>>

(* Mutants of Begin: the offset of the update itself; the handler started  *)
(* as a goroutine nobody waits for.                                        *)
BeginWithoutIncrement ==
    /\ pc = "batch" /\ next <= last
    /\ pc' = "handle" /\ offset' = next /\ begun' = begun \union {next}
    /\ UNCHANGED <<telegram, next, last, ctx, served, stops>>

BeginInBackground ==
    /\ pc = "batch" /\ next <= last
    /\ next' = next + 1 /\ offset' = next + 1 /\ begun' = begun \union {next}
    /\ UNCHANGED <<telegram, pc, last, ctx, served, stops>>

(* The loop over updates: the offset moves before the handler runs.        *)
Begin == /\ pc = "batch"
         /\ next <= last
         /\ offset' = next + 1
         /\ begun' = begun \union {next}
         /\ pc' = "handle"
         /\ UNCHANGED <<telegram, next, last, ctx, served, stops>>

BatchDone == /\ pc = "batch"
             /\ next > last
             /\ pc' = "top"
             /\ UNCHANGED <<telegram, offset, next, last, ctx, history>>

(* handleMessage or handleCallback returns.  With ctx cancelled it may     *)
(* have been cut short; the loop goes on to the next update all the same.  *)
Handled == /\ pc = "handle"
           /\ \/ served' = served \union {next}
              \/ ctx = "cancelled" /\ UNCHANGED served
           /\ next' = next + 1
           /\ pc' = "batch"
           /\ UNCHANGED <<telegram, offset, last, ctx, begun, stops>>

-----------------------------------------------------------------------------
Advance == Top \/ PollOK \/ PollError \/ Backoff \/ Begin \/ BatchDone \/ Handled

Next == Arrive \/ Cancel \/ Die \/ Restart \/ Advance

Spec == Init /\ [][Next]_vars

(* The process runs and is restarted; polls do not fail for ever.          *)
FairSpec == /\ Spec
            /\ WF_vars(Advance)
            /\ WF_vars(Restart)
            /\ SF_vars(PollOK)

-----------------------------------------------------------------------------
TypeOK == /\ arrived \in 0 .. MaxUpdate
          /\ confirmed \in 0 .. arrived
          /\ pc \in {"top", "poll", "backoff", "batch", "handle", "down"}
          /\ offset \in 0 .. MaxUpdate + 1
          /\ next \in 1 .. MaxUpdate + 1
          /\ last \in 0 .. arrived
          /\ ctx \in {"live", "cancelled"}
          /\ served \subseteq Updates
          /\ begun \subseteq Updates
          /\ stops \in Nat

(* An update Telegram has dropped has been handled to the end: no crash,   *)
(* shutdown or lost response loses a command.                              *)
NothingLost == \A u \in 1 .. confirmed : u \in served

(* One process handles an update once: a lost response or a failed poll    *)
(* does not make it answer twice.                                          *)
OncePerProcess ==
    [][pc = "batch" /\ pc' = "handle" => next \notin begun]_vars

(* Updates are handled in the order they were sent, with none skipped:     *)
(* when one is begun, every earlier one was served or this process has     *)
(* begun it.                                                               *)
InOrder ==
    [][\A u \in begun' \ begun : \A v \in 1 .. u - 1 : v \in served \union begun]_vars

(* Every update is handled, as long as the process does not stop for ever. *)
EventuallyServed == \A u \in Updates : arrived >= u ~> u \in served

(* Strengthening of NothingLost.  What the offset would confirm has been   *)
(* served, except the update being handled and what was cut short by a     *)
(* shutdown, after which this process polls no more.                       *)
Confirmable ==
    \A u \in 1 .. offset - 1 :
        \/ u \in served
        \/ pc = "handle" /\ u = next
        \/ ctx = "cancelled" /\ pc \notin {"poll", "backoff"}
        \/ pc = "down"
=============================================================================
