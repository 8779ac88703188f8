--------------------------- MODULE ServerLifecycle ---------------------------
(***************************************************************************)
(* The life of the server process (index.js start-up, health routes and    *)
(* shutdown; RemoteCredits.connect).  new RemoteCredits(cb) probes the     *)
(* users-api /health, retrying every 5 s on a request error, and its       *)
(* callback calls core.connect(); core's first connection runs            *)
(* startServer, which installs the routes, the health probes and the       *)
(* shutdown.before hook: httpTerminator.terminate(), then 8 s, then the    *)
(* shutdown callback, after which kaleido-api/shutdown ends the process.  *)
(* A SIGTERM before startServer finds no hook.  core's AMQP connection may *)
(* drop and come back at any time (kaleido-api/core).                      *)
(***************************************************************************)
EXTENDS Naturals

CONSTANT MaxAttempts   \* users-api /health requests that may fail in a row

VARIABLES
    credits,    \* RemoteCredits.connect: "connecting", "retrying" or "connected"
    attempts,   \* failed /health requests so far
    core,       \* "idle" until core.connect(), then "connecting", "connected", "disconnected"
    started,    \* startServer ran
    shutdown,   \* "none", "terminating", "waiting" (the 8 s timer) or "done"
    probe       \* the last health answer: [route, status, code], or NoProbe
vars == <<credits, attempts, core, started, shutdown, probe>>

Routes == {"/health", "/health/readiness", "/health/liveness"}

NoProbe == [route |-> "none", status |-> "none", code |-> 0]

TypeOK ==
    /\ credits \in {"connecting", "retrying", "connected"}
    /\ attempts \in 0..MaxAttempts
    /\ core \in {"idle", "connecting", "connected", "disconnected"}
    /\ started \in BOOLEAN
    /\ shutdown \in {"none", "terminating", "waiting", "done"}
    /\ probe \in {NoProbe} \cup [route : Routes, status : STRING, code : {200, 500}]

(* RemoteCredits.hasRecentlyFetched *)
HasRecentlyFetched == TRUE

(* Mutant: the shutdown check first, so that later checks override it. *)
HealthStatusShutdownFirst ==
    IF ~HasRecentlyFetched THEN "no-recent-fetch"
    ELSE IF core # "connected" THEN "no-amqp-connection"
    ELSE IF shutdown # "none" THEN "shutting-down"
    ELSE "ok"

(* getHealthStatus: each later check overrides the earlier ones. *)
HealthStatus ==
    IF shutdown # "none" THEN "shutting-down"
    ELSE IF ~HasRecentlyFetched THEN "no-recent-fetch"
    ELSE IF core # "connected" THEN "no-amqp-connection"
    ELSE "ok"

(* The good states of each health route. *)
GoodStates(route) ==
    IF route = "/health/liveness" THEN {"ok", "shutting-down"} ELSE {"ok"}

Init ==
    /\ credits = "connecting"
    /\ attempts = 0
    /\ core = "idle"
    /\ started = FALSE
    /\ shutdown = "none"
    /\ probe = NoProbe

(* The process runs until the shutdown callback. *)
Alive == shutdown # "done"

(* remote("/health") settles: any HTTP response runs the callback, which   *)
(* calls core.connect(); a request error (5 s timeout included) sets the   *)
(* 5 s retry timer.                                                        *)
ConnectReply ==
    /\ Alive /\ credits = "connecting"
    /\ \/ credits' = "connected" /\ core' = "connecting" /\ UNCHANGED attempts
       \/ attempts < MaxAttempts /\ credits' = "retrying" /\ attempts' = attempts + 1
          /\ UNCHANGED core
    /\ UNCHANGED <<started, shutdown, probe>>

(* Mutant: connect's catch without the retry timer. *)
ConnectRetryMissing == FALSE

(* setTimeout(() => this.connect(callback), 5000) *)
ConnectRetry ==
    /\ Alive /\ credits = "retrying"
    /\ credits' = "connecting"
    /\ UNCHANGED <<attempts, core, started, shutdown, probe>>

(* core connects; the first connection runs startServer (onFirstConnect). *)
CoreConnected ==
    /\ Alive /\ core \in {"connecting", "disconnected"}
    /\ core' = "connected"
    /\ started' = TRUE
    /\ UNCHANGED <<credits, attempts, shutdown, probe>>

CoreDisconnected ==
    /\ Alive /\ core = "connected"
    /\ core' = "disconnected"
    /\ UNCHANGED <<credits, attempts, started, shutdown, probe>>

(* SIGTERM: kaleido-api/shutdown runs the before hook if startServer      *)
(* installed it, and otherwise goes on to end the process.                 *)
Sigterm ==
    /\ shutdown = "none"
    /\ shutdown' = IF started THEN "terminating" ELSE "done"
    /\ UNCHANGED <<credits, attempts, core, started, probe>>

(* httpTerminator.terminate() resolves once open requests end or its 10 s  *)
(* graceful timeout destroys them; then setTimeout(callback, 8000).        *)
TerminateResolved ==
    /\ shutdown = "terminating"
    /\ shutdown' = "waiting"
    /\ UNCHANGED <<credits, attempts, core, started, probe>>

ShutdownCallback ==
    /\ shutdown = "waiting"
    /\ shutdown' = "done"
    /\ UNCHANGED <<credits, attempts, core, started, probe>>

(* healthCheck: a probe on a route of the started server, answered with   *)
(* 500 unless the status is one of the route's good states.  The server    *)
(* answers until terminate() has closed it.                                *)
HealthCheck(route) ==
    /\ started /\ shutdown \in {"none", "terminating"}
    /\ probe' = [route |-> route, status |-> HealthStatus,
                 code |-> IF HealthStatus \in GoodStates(route) THEN 200 ELSE 500]
    /\ UNCHANGED <<credits, attempts, core, started, shutdown>>

Next ==
    \/ ConnectReply \/ ConnectRetry \/ CoreConnected \/ CoreDisconnected
    \/ Sigterm \/ TerminateResolved \/ ShutdownCallback
    \/ \E route \in Routes : HealthCheck(route)

(* The 5 s timer fires, a request with a 5 s timeout settles, and the     *)
(* AMQP broker is reachable.                                               *)
Fairness ==
    /\ WF_vars(ConnectReply) /\ WF_vars(ConnectRetry) /\ WF_vars(CoreConnected)

Spec == Init /\ [][Next]_vars /\ Fairness

-----------------------------------------------------------------------------
(* The probes of index.js's health routes: readiness (and /health) passes  *)
(* exactly while core is connected and no shutdown is in progress, so a    *)
(* draining or disconnected pod gets no traffic; liveness passes while     *)
(* core is connected or a shutdown is in progress, so a draining pod is    *)
(* not restarted even when core's connection is gone.                      *)
ProbesAnswerAsIntended ==
    [][probe' # probe =>
         (probe'.code = 200 <=>
            IF probe'.route = "/health/liveness"
            THEN core = "connected" \/ shutdown # "none"
            ELSE core = "connected" /\ shutdown = "none")]_vars

(* Unless a SIGTERM ends it first, the process starts serving: the        *)
(* /health retries of RemoteCredits.connect lead to core.connect and its  *)
(* first connection to startServer.                                        *)
ServerStarts == <>(started \/ shutdown = "done")
=============================================================================
