------------------------------- MODULE Serving ------------------------------
(***************************************************************************)
(* cmd/exchange-service and internal/exchangesvc/health.go: one process    *)
(* from db.Open to its exit, with the three goroutines that share its      *)
(* health server: main in Serve, WatchDB, and the one that shuts down on   *)
(* SIGTERM.  Kubernetes routes calls to the pod while the status of the    *)
(* service "" is SERVING, and starts a new process after the exit.         *)
(***************************************************************************)
EXTENDS Integers

CONSTANT MaxCalls   \* bound: calls that are handled at the same time

ASSUME ServingAssumption == MaxCalls \in Nat \ {0}

VARIABLES
    db,        \* "up" or "down"
    process,   \* main: "open", "start", "serve" or "exited"
    exit,      \* how the process ended: "none", "ok", "failed" or "killed"
    ctx,       \* "live", or "cancelled" by SIGTERM
    watch,     \* WatchDB: "none", "ping", "pinged", "apply", "wait" or "gone"
    ping,      \* the answer of the last PingContext: "ok" or "error"
    first,     \* WatchDB's argument of check
    serving,   \* WatchDB's variable of that name
    status,    \* the health server's status of ""
    health,    \* the health server: "open", or "shut" after Shutdown
    stopper,   \* the goroutine: "none", "wait", "stop", "drain" or "gone"
    calls      \* calls that have been accepted and not answered

main        == <<process, exit>>
watcher     == <<watch, ping, first, serving>>
servingVars == <<db, main, ctx, watcher, status, health, stopper, calls>>

ServingInit == /\ db \in {"up", "down"}
               /\ process = "open" /\ exit = "none" /\ ctx = "live"
               /\ watch = "none" /\ ping = "error" /\ first = TRUE /\ serving = FALSE
               /\ status = "NOT_SERVING" /\ health = "open"
               /\ stopper = "none" /\ calls = 0

-----------------------------------------------------------------------------
DbChanges == /\ db' = IF db = "up" THEN "down" ELSE "up"
             /\ UNCHANGED <<main, ctx, watcher, status, health, stopper, calls>>

(* SIGTERM or SIGINT, at any time: also while db.Open still retries, which *)
(* does not look at ctx.                                                   *)
Signal == /\ process # "exited" /\ ctx = "live"
          /\ ctx' = "cancelled"
          /\ UNCHANGED <<db, main, watcher, status, health, stopper, calls>>

(* The process is gone with its goroutines and the calls it had.           *)
Exit(how) == /\ process' = "exited" /\ exit' = how
             /\ watch' = "none" /\ stopper' = "none" /\ calls' = 0
             /\ UNCHANGED <<db, ctx, ping, first, serving, status, health>>

(* db.Open or net.Listen gives up: Open retries for 60 s.                  *)
OpenFails == process = "open" /\ Exit("failed")

(* NewHealthServer, and the goroutines start.                              *)
Open == /\ process = "open" /\ db = "up"
        /\ process' = "start"
        /\ watch' = "ping" /\ stopper' = "wait"
        /\ UNCHANGED <<db, exit, ctx, ping, first, serving, status, health, calls>>

(* Serve returns an error at once if GracefulStop has come first.          *)
Serve == /\ process = "start"
         /\ IF stopper \in {"drain", "gone"} THEN Exit("failed")
            ELSE /\ process' = "serve"
                 /\ UNCHANGED <<db, exit, ctx, watcher, status, health, stopper, calls>>

Killed == process # "exited" /\ Exit("killed")

(* A new container.                                                        *)
Restart == /\ process = "exited"
           /\ process' = "open" /\ exit' = "none" /\ ctx' = "live"
           /\ first' = TRUE /\ serving' = FALSE /\ ping' = "error"
           /\ status' = "NOT_SERVING" /\ health' = "open"
           /\ UNCHANGED <<db, watch, stopper, calls>>

-----------------------------------------------------------------------------
(* PingContext, which is cut short when ctx is cancelled.                  *)
Ping == /\ watch = "ping"
        /\ ping' \in {IF db = "up" THEN "ok" ELSE "error"}
                     \union (IF ctx = "cancelled" THEN {"error"} ELSE {})
        /\ watch' = "pinged"
        /\ UNCHANGED <<db, main, ctx, first, serving, status, health, stopper, calls>>

(* if ctx.Err() != nil { return }                                          *)
CheckCtx == /\ watch = "pinged"
            /\ watch' = IF ctx = "cancelled" THEN "wait" ELSE "apply"
            /\ UNCHANGED <<db, main, ctx, ping, first, serving, status, health, stopper, calls>>

(* health.Server takes no status after Shutdown.                           *)
SetServingStatus(s) == status' = IF health = "shut" THEN status ELSE s

(* Mutant: the loss of the database is not remembered.                     *)
ApplyForgetting ==
    /\ watch = "apply"
    /\ \/ ping = "ok" /\ ~serving /\ serving' = TRUE /\ SetServingStatus("SERVING")
       \/ ping = "error" /\ (serving \/ first) /\ UNCHANGED serving
          /\ SetServingStatus("NOT_SERVING")
       \/ (ping = "ok") = serving /\ ~(ping = "error" /\ first)
          /\ UNCHANGED <<serving, status>>
    /\ watch' = "wait"
    /\ UNCHANGED <<db, main, ctx, ping, first, health, stopper, calls>>

(* The switch of check: the status is set when it changes, and after the   *)
(* first ping that fails.                                                  *)
Apply ==
    /\ watch = "apply"
    /\ \/ ping = "ok" /\ ~serving /\ serving' = TRUE /\ SetServingStatus("SERVING")
       \/ ping = "error" /\ (serving \/ first) /\ serving' = FALSE
          /\ SetServingStatus("NOT_SERVING")
       \/ (ping = "ok") = serving /\ ~(ping = "error" /\ first)
          /\ UNCHANGED <<serving, status>>
    /\ watch' = "wait"
    /\ UNCHANGED <<db, main, ctx, ping, first, health, stopper, calls>>

(* The ticker; select takes either case when ctx is cancelled as well.     *)
WatchTick == /\ watch = "wait"
             /\ watch' = "ping" /\ first' = FALSE
             /\ UNCHANGED <<db, main, ctx, ping, serving, status, health, stopper, calls>>

WatchEnds == /\ watch = "wait" /\ ctx = "cancelled"
             /\ watch' = "gone"
             /\ UNCHANGED <<db, main, ctx, ping, first, serving, status, health, stopper, calls>>

-----------------------------------------------------------------------------
(* Mutant: only the status is set.                                         *)
SetNotServing ==
    /\ stopper = "wait" /\ ctx = "cancelled"
    /\ stopper' = "stop"
    /\ SetServingStatus("NOT_SERVING") /\ UNCHANGED health
    /\ UNCHANGED <<db, main, ctx, watcher, calls>>

(* healthSrv.Shutdown: every status is NOT_SERVING for good.               *)
Shutdown == /\ stopper = "wait" /\ ctx = "cancelled"
            /\ stopper' = "stop"
            /\ status' = "NOT_SERVING" /\ health' = "shut"
            /\ UNCHANGED <<db, main, ctx, watcher, calls>>

(* Mutant: the goroutine ends without a GracefulStop.                      *)
StopForgotten ==
    /\ stopper = "stop"
    /\ stopper' = "none"
    /\ UNCHANGED <<db, main, ctx, watcher, status, health, calls>>

(* Mutant: Stop, which cuts off the calls that are there.                  *)
StopAtOnce ==
    /\ stopper = "stop"
    /\ stopper' = "gone"
    /\ UNCHANGED <<db, main, ctx, watcher, status, health, calls>>

(* GracefulStop takes no new calls ...                                     *)
GracefulStop ==
    /\ stopper = "stop"
    /\ stopper' = "drain"
    /\ UNCHANGED <<db, main, ctx, watcher, status, health, calls>>

(* ... and returns when those that are there have been answered.           *)
Drained ==
    /\ stopper = "drain" /\ calls = 0
    /\ stopper' = "gone"
    /\ UNCHANGED <<db, main, ctx, watcher, status, health, calls>>

(* Serve returns nil after GracefulStop; run closes the database.          *)
ServeReturns == process = "serve" /\ stopper = "gone" /\ Exit("ok")

(* A call arrives over a connection that the gateway or the CLI has, ready *)
(* or not.                                                                 *)
Call == /\ process = "serve" /\ stopper \notin {"drain", "gone"}
        /\ calls < MaxCalls
        /\ calls' = calls + 1
        /\ UNCHANGED <<db, main, ctx, watcher, status, health, stopper>>

(* A handler returns, with an error when the database is away.             *)
Answer == /\ process = "serve" /\ calls > 0
          /\ calls' = calls - 1
          /\ UNCHANGED <<db, main, ctx, watcher, status, health, stopper>>

-----------------------------------------------------------------------------
WatchDB == Ping \/ CheckCtx \/ Apply \/ WatchTick \/ WatchEnds
Stop    == Shutdown \/ GracefulStop \/ Drained
Main    == OpenFails \/ Open \/ Serve \/ ServeReturns

ServingNext == DbChanges \/ Signal \/ Killed \/ Restart \/ WatchDB \/ Stop \/ Main \/ Call \/ Answer

ServingSpec == ServingInit /\ [][ServingNext]_servingVars

-----------------------------------------------------------------------------
(* A process that stops taking calls has told so before and does not take  *)
(* it back, although WatchDB may have found the database up just before    *)
(* the signal and set the status after it.                                 *)
NotServingWhileStopping ==
    process # "exited" /\ stopper \in {"stop", "drain", "gone"} => status = "NOT_SERVING"

(* A process that ends by itself has answered every call it accepted.      *)
CallsDrained == [][process' = "exited" /\ process # "exited" /\ exit' # "killed" =>
                      calls = 0]_servingVars

Running(state) == process = "serve" /\ ctx = "live" /\ db = state

(* A process that was told to stop ends, whenever it was told.             *)
ShutdownEnds == ctx = "cancelled" ~> process = "exited"
=============================================================================
