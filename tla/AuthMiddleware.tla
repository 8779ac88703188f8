---------------------------- MODULE AuthMiddleware ----------------------------
(***************************************************************************)
(* The authentication middleware of index.js (authenticated, its helpers   *)
(* assignUser and checkIP, and authScope) together with the user lookup it *)
(* calls, RemoteCredits.getUser / getUserOnce / remote (remote_credits.js).*)
(*                                                                         *)
(* A request passes: the header check (exactly one of X-Api-Key and        *)
(* Authorization), the credential resolution of KeyAuth or TokenAuth       *)
(* (modelled in AuthEngine; here its answer is an input), getUser with up  *)
(* to `Tries` retries after a retryable failure, each after a timer of a   *)
(* doubling delay, the IP check, and for tokens the scope check of the     *)
(* route.  Every path ends in next() (the route handler) or next(err).     *)
(* Requests do not share state here: each is its own chain of callbacks.   *)
(***************************************************************************)
EXTENDS Integers, FiniteSets

CONSTANTS
    Requests,      \* concurrent requests
    Scopes,        \* scope names routes require and tokens grant
    Tries,         \* getUser's default tries = 5
    TryDelayMs     \* getUser's default tryDelayMs = 500

VARIABLES req
vars == <<req>>

Headers == {"none", "key", "token", "both"}
Credentials == {"acceptable", "unacceptable", "internal"}  \* the engine's answer
(* What one users-api call returns, as getUserOnce classifies it: 200 with *)
(* a body that parses, 200 with a body that does not, 422, another status, *)
(* or a request error (including the 5000 ms request timeout).             *)
Replies == {"ok", "json_parse_error", "user_not_found", "status_code", "request_error"}
(* The client IP: the blocked address, one in the key's passlist, another. *)
Ips == {"blocked", "listed", "other"}
Responses == {"none", "handler", "auth_failed", "ip_address_unauthorized",
              "internal_auth_error", "scope"}  \* "scope": 403 naming the missing scopes

Req == [stage    : {"idle", "auth", "user", "retry", "done"},
        hdr      : Headers,
        required : SUBSET Scopes,   \* authScope(...) of the route
        granted  : SUBSET Scopes,   \* token.scopes
        cred     : Credentials \cup {"none"},
        tries    : 0..Tries,
        delay    : {TryDelayMs * 2^k : k \in 0..Tries},
        attempts : 0..Tries + 1,
        waited   : 0..TryDelayMs * 2^Tries,
        last     : Replies \cup {"none"},
        user     : [enterprise : BOOLEAN, passlist : BOOLEAN, ip : Ips \cup {"unknown"}],
        resp     : Responses,
        sent     : 0..2]

TypeOK == req \in [Requests -> Req]

Init ==
    req = [r \in Requests |->
             [stage |-> "idle", hdr |-> "none", required |-> {}, granted |-> {},
              cred |-> "none", tries |-> Tries, delay |-> TryDelayMs,
              attempts |-> 0, waited |-> 0, last |-> "none",
              user |-> [enterprise |-> FALSE, passlist |-> FALSE, ip |-> "unknown"],
              resp |-> "none", sent |-> 0]]

(* authenticated: both headers or neither is a 403 auth_failed; otherwise  *)
(* the credential is resolved by key_auth.fromApiKeyHeader or              *)
(* token_auth.fromAuthorizationHeader.                                     *)
Authenticated(r) ==
    /\ req[r].stage = "idle"
    /\ \E h \in Headers, need \in SUBSET Scopes, g \in SUBSET Scopes :
         LET r1 == [req[r] EXCEPT !.hdr = h, !.required = need,
                                  !.granted = IF h = "token" THEN g ELSE {}]
         IN IF h \in {"both", "none"}
            THEN req' = [req EXCEPT ![r] = [r1 EXCEPT !.stage = "done",
                                              !.resp = "auth_failed", !.sent = 1]]
            ELSE req' = [req EXCEPT ![r] = [r1 EXCEPT !.stage = "auth"]]

(* The credential promise settles: a rejection is passed to next(error)    *)
(* (403 auth_failed for an unacceptable credential, 500 for internalError);*)
(* an acceptable one sets res.locals.user_id and calls assignUser, whose   *)
(* getUser sends the first getUserOnce request.                            *)
CredentialResolved(r) ==
    /\ req[r].stage = "auth"
    /\ \E c \in Credentials :
         CASE c = "unacceptable" ->
                req' = [req EXCEPT ![r].cred = c, ![r].stage = "done",
                                   ![r].resp = "auth_failed", ![r].sent = @ + 1]
           [] c = "internal" ->
                req' = [req EXCEPT ![r].cred = c, ![r].stage = "done",
                                   ![r].resp = "internal_auth_error", ![r].sent = @ + 1]
           [] c = "acceptable" ->
                req' = [req EXCEPT ![r].cred = c, ![r].stage = "user",
                                   ![r].attempts = 1]

(* getUserOnce: which replies reject with retryable: true. *)
Retryable(reply) == reply \in {"json_parse_error", "status_code", "request_error"}

(* Mutant: the blocked address tested after the enterprise early return. *)
CheckIPEnterpriseFirst(user) ==
    IF ~user.enterprise THEN TRUE
    ELSE IF user.ip = "blocked" THEN FALSE
    ELSE IF ~user.passlist THEN TRUE
    ELSE user.ip = "listed"

(* checkIP(user, ip_passlist): the blocked address is refused; non-        *)
(* enterprise users, and keys without a passlist (tokens have none), are   *)
(* permitted; otherwise ipRangeCheck against the passlist.                 *)
CheckIP(user) ==
    IF user.ip = "blocked" THEN FALSE
    ELSE IF ~user.enterprise THEN TRUE
    ELSE IF ~user.passlist THEN TRUE
    ELSE user.ip = "listed"

(* Token.requireScopes: the scopes string split on spaces, resolved when   *)
(* no required scope is missing from it.                                   *)
RequireScopes(granted, required) == {s \in required : s \notin granted} = {}

(* authScope(...required): requireScopes for a token; API keys pass.      *)
AuthScope(rq) == rq.hdr = "token" => RequireScopes(rq.granted, rq.required)

(* Mutant: every failure retried while tries remain. *)
RetryAlways(reply, tries) == reply # "ok" /\ tries > 0

(* Mutant: retry while tries >= 0. *)
RetryOffByOne(reply, tries) == Retryable(reply) /\ tries >= 0

(* getUser's catch: retry when e.retryable && tries > 0. *)
Retry(reply, tries) == Retryable(reply) /\ tries > 0

(* The users-api answers one getUserOnce request (the request has a 5000 ms *)
(* timeout, so it always answers).  On a user: assignUser's checkIP, then  *)
(* next() into authScope, whose requireScopes runs for tokens only.  On a  *)
(* retryable failure with tries left: setTimeout(tryDelayMs).  Otherwise   *)
(* the rejection reaches assignUser's catch: user_not_found is a 403,      *)
(* anything else a 500 internal_auth_error.                                *)
UserReply(r) ==
    /\ req[r].stage = "user"
    /\ \E reply \in Replies :
         LET r1 == [req[r] EXCEPT !.last = reply] IN
         IF reply = "ok" THEN
           \E u \in [enterprise : BOOLEAN, passlist : BOOLEAN, ip : Ips] :
             LET u1 == [u EXCEPT !.passlist = u.passlist /\ req[r].hdr = "key"]
                 code == IF ~CheckIP(u1) THEN "ip_address_unauthorized"
                         ELSE IF ~AuthScope(req[r]) THEN "scope"
                         ELSE "handler"
             IN req' = [req EXCEPT ![r] = [r1 EXCEPT !.user = u1, !.stage = "done",
                                                   !.resp = code, !.sent = @ + 1]]
         ELSE IF Retry(reply, req[r].tries) THEN
           req' = [req EXCEPT ![r] = [r1 EXCEPT !.stage = "retry"]]
         ELSE
           req' = [req EXCEPT ![r] = [r1 EXCEPT !.stage = "done", !.sent = @ + 1,
                     !.resp = IF reply = "user_not_found" THEN "auth_failed"
                              ELSE "internal_auth_error"]]

(* The retry timer fires: getUser(user_id, tries - 1, tryDelayMs * 2)      *)
(* sends the next getUserOnce request.                                     *)
RetryTimer(r) ==
    /\ req[r].stage = "retry"
    /\ req' = [req EXCEPT ![r].stage = "user", ![r].tries = @ - 1,
                          ![r].waited = @ + req[r].delay, ![r].delay = @ * 2,
                          ![r].attempts = @ + 1]

Next == \E r \in Requests :
          Authenticated(r) \/ CredentialResolved(r) \/ UserReply(r) \/ RetryTimer(r)

(* The credential resolution answers (AuthEngine's EveryRequestAnswered),  *)
(* every users-api request ends within its 5000 ms timeout, and a pending  *)
(* setTimeout fires.                                                       *)
Fairness == \A r \in Requests :
    WF_vars(CredentialResolved(r)) /\ WF_vars(UserReply(r)) /\ WF_vars(RetryTimer(r))

Spec == Init /\ [][Next]_vars /\ Fairness

-----------------------------------------------------------------------------
(* The rule the comments of checkIP state: the blocked address never, any  *)
(* other address for non-enterprise users or keys without a passlist, and  *)
(* otherwise only an address in the passlist.                              *)
IpPermitted(u) ==
    /\ u.ip # "blocked"
    /\ u.enterprise /\ u.passlist => u.ip = "listed"

(* A request reaches the route handler only when it carried exactly one    *)
(* credential header, the credential was acceptable, getUser found the     *)
(* user, the client IP is permitted for that user and key, and a token     *)
(* grants every scope the route requires (authenticated, assignUser,       *)
(* checkIP, authScope).                                                    *)
HandlerOnlyIfAuthorized ==
    \A r \in Requests : req[r].resp = "handler" =>
        /\ req[r].hdr \in {"key", "token"}
        /\ req[r].cred = "acceptable"
        /\ req[r].last = "ok"
        /\ IpPermitted(req[r].user)
        /\ req[r].hdr = "token" => req[r].required \subseteq req[r].granted

(* getUser(tries = 5, tryDelayMs = 500) makes at most Tries + 1 requests,  *)
(* and before the n-th it has waited 500 * (2^(n-1) - 1) ms in timers:     *)
(* the retry count and the doubling backoff are never off by one.          *)
RetriesBounded ==
    \A r \in Requests :
        /\ req[r].attempts <= Tries + 1
        /\ req[r].attempts > 0 =>
             req[r].waited = TryDelayMs * (2^(req[r].attempts - 1) - 1)

(* A failure getUserOnce marks non-retryable (user not found) is never     *)
(* retried: the request ends with 403 auth_failed at once.                 *)
NotFoundNeverRetried ==
    [][\A r \in Requests :
         req'[r].last = "user_not_found" /\ req[r].stage = "user"
           => req'[r].stage = "done" /\ req'[r].resp = "auth_failed"]_vars
=============================================================================
