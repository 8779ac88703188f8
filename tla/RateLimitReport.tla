--------------------------- MODULE RateLimitReport ---------------------------
(***************************************************************************)
(* RateLimitHitReporter.report (reporting/rate_limit.js): when a user hits *)
(* the rate limit, publish one message about it, remembered by the Redis   *)
(* key rlh:<user> set with EX ttl (one day) so that further hits within    *)
(* the day are not published again.  report awaits redis.get, then, if the *)
(* key is absent, issues redis.set and pubSub.publish without awaiting     *)
(* them.  All commands of the reporter go through its one ioredis          *)
(* connection, so Redis executes them in the order they were issued.       *)
(* Concurrent reports are concurrent async calls for one user.             *)
(***************************************************************************)
EXTENDS Integers, Sequences

CONSTANTS
    Reports,     \* concurrent report(user) calls for one user
    TTL,         \* the key's EX ttl, in ticks
    RedisFails,  \* whether a Redis command may fail
    MaxTime      \* bound on clock ticks

VARIABLES
    now,
    key,         \* remaining TTL of rlh:<user>; 0 when absent
    redisQ,      \* commands issued on the connection, not yet executed
    rep,         \* rep[r]: "idle", "get" (awaiting redis.get), "done"
    published    \* messages published in the current TTL window
vars == <<now, key, redisQ, rep, published>>

Init ==
    /\ now = 0
    /\ key = 0
    /\ redisQ = <<>>
    /\ rep = [r \in Reports |-> "idle"]
    /\ published = 0

(* report(user): const result = await this.redis.get(key). *)
Report(r) ==
    /\ rep[r] = "idle"
    /\ rep' = [rep EXCEPT ![r] = "get"]
    /\ redisQ' = Append(redisQ, [op |-> "get", by |-> r])
    /\ UNCHANGED <<now, key, published>>

(* Redis executes the GET at the head of the queue and the await resumes:  *)
(* an error goes to the catch (logged); null issues SET and publishes;     *)
(* a value ends the call.                                                  *)
GetReply ==
    /\ redisQ # <<>> /\ Head(redisQ).op = "get"
    /\ LET r == Head(redisQ).by IN
       \/ /\ RedisFails
          /\ rep' = [rep EXCEPT ![r] = "done"]
          /\ redisQ' = Tail(redisQ)
          /\ UNCHANGED published
       \/ /\ key = 0
          /\ rep' = [rep EXCEPT ![r] = "done"]
          /\ redisQ' = Append(Tail(redisQ), [op |-> "set", by |-> r])
          /\ published' = published + 1
       \/ /\ key > 0
          /\ rep' = [rep EXCEPT ![r] = "done"]
          /\ redisQ' = Tail(redisQ)
          /\ UNCHANGED published
    /\ UNCHANGED <<now, key>>

(* Redis executes a SET key true EX ttl (or fails; nobody awaits it). *)
SetExecuted ==
    /\ redisQ # <<>> /\ Head(redisQ).op = "set"
    /\ redisQ' = Tail(redisQ)
    /\ \/ key' = TTL
       \/ RedisFails /\ UNCHANGED key
    /\ UNCHANGED <<now, rep, published>>

(* Time passes; the key expires and a new window begins. *)
Tick ==
    /\ now < MaxTime
    /\ now' = now + 1
    /\ key' = IF key > 0 THEN key - 1 ELSE 0
    /\ published' = IF key = 1 THEN 0 ELSE published
    /\ UNCHANGED <<redisQ, rep>>

Next == (\E r \in Reports : Report(r)) \/ GetReply \/ SetExecuted \/ Tick
Spec == Init /\ [][Next]_vars

-----------------------------------------------------------------------------
(* The rlh:<user> key with its one-day EX ttl makes report publish a       *)
(* user's rate-limit hit at most once per TTL window.  Bites when two      *)
(* reports' GETs both execute before the first report's SET.               *)
OnePublishPerWindow == published <= 1
=============================================================================
