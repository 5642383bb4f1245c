---------------------------- MODULE RequestPath -----------------------------
(***************************************************************************)
(* One press of a button, through the bot's client of the gateway          *)
(* (internal/gatewayclient), the gateway (cmd/gateway, the generated       *)
(* query.pb.gw.go and its gRPC client with the retries of                  *)
(* internal/grpcclient) and the exchange-service of Serving, whose calls   *)
(* are the handlers that run for it.                                       *)
(*                                                                         *)
(* A press waits for its own requests only, so one press after the other   *)
(* stands for all of them.  Times are left out: a timeout may fire at any  *)
(* moment, and does if nothing else happens.                               *)
(***************************************************************************)
EXTENDS Serving

CONSTANTS HttpAttempts,  \* getPolicy of the gateway client (3)
          GrpcAttempts   \* maxAttempts of the service config (4)

ASSUME RequestPathAssumption == {HttpAttempts, GrpcAttempts} \subseteq Nat \ {0}

VARIABLES
    method,   \* "rates" (GetRates, ListCategories) or "leagues" (ListLeagues)
    press,    \* the handler in the bot: "idle", "send" or "await"
    attempt,  \* retry.Do's attempt
    gateway,  \* "up" or "down"
    ready,    \* what its /readyz said last: "yes" or "no"
    hop,      \* the request in the gateway: "none", or before its call
              \* ("invoke"), or the call's handler: "run" or "hang"
    tries,    \* calls that gRPC made for it
    stray     \* handlers that nobody waits for and that do not know it yet

bot      == <<method, press, attempt>>
front    == <<gateway, ready>>
proxy    == <<hop, tries, stray>>
path     == <<bot, front, proxy>>
pathVars == <<servingVars, path>>

PathInit == /\ ServingInit
            /\ method = "rates" /\ press = "idle" /\ attempt = 0
            /\ gateway = "up" /\ ready = "no" /\ hop = "none" /\ tries = 0 /\ stray = 0

-----------------------------------------------------------------------------
(* The bot: retry.Do around fetch.                                         *)
Press(m) == /\ press = "idle"
            /\ method' = m /\ press' = "send" /\ attempt' = 1
            /\ UNCHANGED <<servingVars, front, proxy>>

(* A transport error or 502, 503, 504: another attempt, if there is one    *)
(* left.                                                                   *)
Again == /\ UNCHANGED method
         /\ IF attempt < HttpAttempts
            THEN press' = "send" /\ attempt' = attempt + 1
            ELSE press' = "idle" /\ UNCHANGED attempt

(* The user is told the rates or that there are none.                      *)
Finish == press' = "idle" /\ UNCHANGED <<method, attempt>>

Send == /\ press = "send" /\ gateway = "up"
        /\ press' = "await" /\ hop' = "invoke" /\ tries' = 1
        /\ UNCHANGED <<servingVars, method, attempt, front, stray>>

Refused == /\ press = "send" /\ gateway = "down"
           /\ Again
           /\ UNCHANGED <<servingVars, front, proxy>>

(* The request is gone: its handler goes on for nobody.                    *)
Abandon == /\ hop' = "none" /\ tries' = 0
           /\ stray' = stray + (IF hop \in {"run", "hang"} THEN 1 ELSE 0)
           /\ UNCHANGED <<servingVars, front>>

(* Mutant: an http.Client without a Timeout.                               *)
NoHttpTimeout == FALSE

(* 30 s of the HTTP client.                                                *)
HttpTimeout == press = "await" /\ Again /\ Abandon

(* 60 s of handleMessage and handleCallback, also between two attempts.    *)
Deadline == press \in {"send", "await"} /\ Finish /\ Abandon

-----------------------------------------------------------------------------
(* The gateway.                                                            *)
BeingHandled == hop \in {"run", "hang"}

(* A query hangs when its database is gone without a word, or the exchange *)
(* API does.                                                               *)
Invoke == /\ hop = "invoke"
          /\ Call
          /\ hop' \in {"run"} \union (IF db = "down" \/ method = "leagues" THEN {"hang"} ELSE {})
          /\ UNCHANGED <<bot, front, tries, stray>>

(* After UNAVAILABLE gRPC tries again, except for ListLeagues; in the end  *)
(* the bot gets a 503.                                                     *)
CallFails ==
    IF method # "leagues" /\ tries < GrpcAttempts
    THEN hop' = "invoke" /\ tries' = tries + 1 /\ UNCHANGED bot
    ELSE hop' = "none" /\ tries' = 0 /\ Again

(* Nobody takes the call, or the connection has not been made again yet.   *)
Unavailable == /\ hop = "invoke"
               /\ CallFails
               /\ UNCHANGED <<servingVars, front, stray>>

(* A failed query is codes.Internal, a 500 that is not repeated; a failed  *)
(* download of ListLeagues is codes.Unavailable.                           *)
Reply ==
    /\ hop = "run"
    /\ Answer
    /\ \/ Finish /\ hop' = "none" /\ tries' = 0
       \/ method = "leagues" /\ CallFails
    /\ UNCHANGED <<front, stray>>

(* SIGTERM or a crash: ListenAndServe returns as soon as Shutdown begins,  *)
(* so run returns and cuts off what it was serving.                        *)
GatewayExit == /\ gateway = "up" /\ gateway' = "down"
               /\ IF press = "await" THEN Again ELSE UNCHANGED bot
               /\ hop' = "none" /\ tries' = 0
               /\ stray' = stray + (IF BeingHandled THEN 1 ELSE 0)
               /\ UNCHANGED <<servingVars, ready>>

GatewayStarts == /\ gateway = "down" /\ gateway' = "up"
                 /\ UNCHANGED <<servingVars, bot, ready, proxy>>

(* /readyz asks the health server of the exchange-service.                 *)
Serves == process = "serve" /\ stopper \notin {"drain", "gone"} /\ status = "SERVING"

Probe == /\ ready' = IF gateway = "up" /\ Serves THEN "yes" ELSE "no"
         /\ UNCHANGED <<servingVars, bot, gateway, proxy>>

-----------------------------------------------------------------------------
(* Mutant: the call is made with the context of the process.               *)
NoCancel == FALSE

(* The exchange-service: the context of the call derives from that of the  *)
(* HTTP request, so the end of one is the end of the other.                *)
Cancel == /\ stray > 0 /\ stray' = stray - 1
          /\ UNCHANGED <<servingVars, bot, front, hop, tries>>

Cancelled == calls - stray - (IF BeingHandled THEN 1 ELSE 0)

CancelledEnds == Cancelled > 0 /\ Answer /\ UNCHANGED path

(* The connection breaks with the process: UNAVAILABLE.                    *)
Lose == /\ stray' = 0
        /\ IF BeingHandled THEN CallFails ELSE UNCHANGED <<bot, hop, tries>>
        /\ UNCHANGED front

Within(step) == /\ step
                /\ IF process # "exited" /\ process' = "exited" THEN Lose ELSE UNCHANGED path

-----------------------------------------------------------------------------
Bot     == Send \/ Refused \/ HttpTimeout
Gateway == Unavailable \/ Reply

PathNext == \/ Within(DbChanges \/ Signal \/ Killed \/ Restart \/ WatchDB \/ Stop \/ Main)
            \/ \E m \in {"rates", "leagues"} : Press(m)
            \/ Bot \/ Deadline
            \/ Invoke \/ Gateway \/ GatewayExit \/ GatewayStarts \/ Probe
            \/ Cancel \/ CancelledEnds

(* As in Serving, but nothing says that a handler returns by itself, or    *)
(* that a gateway which is down ever starts: the bot's timeouts fire, and  *)
(* a cancelled handler ends.                                               *)
PathSpec == PathInit /\ [][PathNext]_pathVars
            /\ WF_pathVars(Within(WatchDB)) /\ WF_pathVars(Within(Stop)) /\ WF_pathVars(Within(Main))
            /\ WF_pathVars(Bot) /\ WF_pathVars(Probe) /\ WF_pathVars(Cancel) /\ WF_pathVars(CancelledEnds)

-----------------------------------------------------------------------------
(* README, "Probes and retries": what the gateway says of itself follows   *)
(* the database behind the exchange-service, through any number of outages *)
(* and restarts of both before.                                            *)
ReadyFollowsDb ==
    /\ <>[](Running("up") /\ gateway = "up") => <>[](ready = "yes")
    /\ <>[]Running("down")                   => <>[](ready = "no")

(* Every press comes to an end, with an answer or an error, although no    *)
(* handler of the exchange-service need ever return: also when all of them *)
(* hang, and in the middle of restarts of the gateway and of the service.  *)
PressEnds == press # "idle" ~> press = "idle"

(* Attempts that were given up leave nothing behind: once nobody presses   *)
(* any more, no handler is left running for an answer nobody waits for.    *)
NothingLeft == <>[](press = "idle") => <>[](calls = 0)
=============================================================================
