----------------------------- MODULE AuthEngine -----------------------------
(***************************************************************************)
(* The credential resolution engine shared by TokenAuth (token_auth.js)    *)
(* and KeyAuth (key_auth.js): a Redis cache-aside read, the in-flight      *)
(* lookup map of TokenAuth, the pendingDbFetches queue flushed by a        *)
(* setInterval timer into one SQL query, and the SETEX that writes each    *)
(* result back with an asymmetric TTL.  The two classes are copies of one  *)
(* another; the constant Kind selects the places where they differ.        *)
(*                                                                         *)
(* Scheduling is the Node.js event loop.  One action is one macrotask: a   *)
(* Redis reply callback, a timer tick, a SQL query settling, a request     *)
(* arriving, together with the microtasks (promise continuations) it       *)
(* triggers, which run before any other macrotask.  All Redis commands go  *)
(* through the single ioredis connection, so Redis executes and answers    *)
(* them in the order they were issued (redisQ).  SQL queries run on a      *)
(* connection pool: several may be in flight and settle in any order.      *)
(***************************************************************************)
EXTENDS Integers, Sequences, SequencesExt, FiniteSets

CONSTANTS
    Kind,          \* "token" (TokenAuth) or "key" (KeyAuth)
    Callers,       \* concurrent requests; each presents one header
    Values,        \* credential values that pass the header regexp
    Malformed,     \* a header the regexp rejects
    HitTTL,        \* hitTTL, in ticks of the clock
    MissTTL,       \* missTTL, in ticks of the clock
    RedisFails,    \* whether a Redis command may return an error
    MaxTime,       \* bound on clock ticks
    MaxDbChanges,  \* bound on changes to credential rows
    NoJob, NoEntry, NoRows, NoRec  \* sentinels

ASSUME Kind \in {"token", "key"}
ASSUME HitTTL \in Nat \ {0} /\ MissTTL \in Nat \ {0}
ASSUME MaxTime \in Nat /\ MaxDbChanges \in Nat

VARIABLES
    now,        \* the clock, in TTL units
    db,         \* db[v]: the credential row for v (status and version)
    dbChanges,  \* number of row changes so far (bounded)
    cache,      \* cache[v]: the Redis entry cacheKey(v) and its remaining TTL
    redisQ,     \* commands issued on the ioredis connection, not yet answered
    lookups,    \* this.lookups (TokenAuth): value -> the fetch it shares
    fetch,      \* fetch[j]: stage of the fetchToken/fetchKey chain started by j
    pending,    \* this.pendingDbFetches
    batches,    \* SQL queries issued by fetchFromDb, not yet settled
    callers     \* callers[c]: the request of c and its outcome

vars == <<now, db, dbChanges, cache, redisQ, lookups, fetch, pending,
          batches, callers>>

(***************************************************************************)
(* A row, and the record Token.fromSql / Key.fromSql / fromNotFound build  *)
(* from it, is abstracted to its status and the version of the row it was *)
(* read from.  "none" is no row (exists = false); "revoked" is a token     *)
(* row that is revoked or expired.  The version is the row's history: it   *)
(* lets properties tell an older snapshot from a newer one.                *)
(***************************************************************************)
Statuses == IF Kind = "token" THEN {"none", "ok", "revoked"} ELSE {"none", "ok"}
Rec == [status : Statuses, ver : 0..MaxDbChanges]
Exists(rec) == rec.status # "none"

\* Token.isAcceptable: exists && !isRevoked() && !isExpired();
\* Key.isAcceptable: exists.  Both are "ok" in this abstraction.
IsAcceptable(rec) == rec.status = "ok"

\* The range ttlThreshold = Math.round(f * hitTTL) takes for f drawn in
\* [refreshAheadHitTTLFactorMin, refreshAheadHitTTLFactorMax] = [0.1, 0.3].
RefreshThresholds == ((HitTTL + 5) \div 10) .. ((3 * HitTTL + 5) \div 10)

Errors == {"error_cache", "error_db"}   \* internalError(), by its cause
CallerStates == {"idle", "wait", "accepted", "denied"} \cup Errors
Jobs == Callers   \* a fetch chain is named by the caller that started it

Cmd == [op : {"get", "ttl", "setex"}, val : Values, job : Jobs \cup {NoJob},
        rec : Rec \cup {NoRec}, ttl : 0..MissTTL]
Get(v, j) == [op |-> "get", val |-> v, job |-> j, rec |-> NoRec, ttl |-> 0]
Ttl(v) == [op |-> "ttl", val |-> v, job |-> NoJob, rec |-> NoRec, ttl |-> 0]
Setex(v, j, rec, ttl) == [op |-> "setex", val |-> v, job |-> j, rec |-> rec, ttl |-> ttl]

\* An entry of pendingDbFetches: job = NoJob for a refresh-ahead fetch.
Entry == [val : Values, job : Jobs \cup {NoJob}]

TypeOK ==
    /\ now \in 0..MaxTime
    /\ db \in [Values -> Rec]
    /\ dbChanges \in 0..MaxDbChanges
    /\ cache \in [Values -> {NoEntry} \cup [rec : Rec, ttl : 1..MissTTL]]
    /\ redisQ \in Seq(Cmd)
    /\ lookups \in [Values -> Jobs \cup {NoJob}]
    /\ fetch \in [Jobs -> {"none", "get", "db", "setex"}]
    /\ pending \in Seq(Entry)
    /\ batches \in Seq([fetches : Seq(Entry), rows : [Values -> Rec] \cup {NoRows}])
    /\ callers \in [Callers -> [st : CallerStates, val : Values \cup {Malformed},
                                on : Jobs \cup {NoJob}, rec : Rec \cup {NoRec}]]

Init ==
    /\ now = 0
    /\ db \in [Values -> [status : Statuses, ver : {0}]]
    /\ dbChanges = 0
    /\ cache = [v \in Values |-> NoEntry]
    /\ redisQ = <<>>
    /\ lookups = [v \in Values |-> NoJob]
    /\ fetch = [j \in Jobs |-> "none"]
    /\ pending = <<>>
    /\ batches = <<>>
    /\ callers = [c \in Callers |-> [st |-> "idle", val |-> Malformed,
                                     on |-> NoJob, rec |-> NoRec]]

(***************************************************************************)
(* Settling fetch chains.  out maps each settling chain to a record or to  *)
(* a Failure.  The promise continuations run at once: fromToken/fromKey answer *)
(* every caller waiting on the chain (isAcceptable, or reject), and the    *)
(* finally of fetchTokenOnce deletes this.lookups[token].                  *)
(***************************************************************************)
Failure(cause) == [status |-> cause, ver |-> 0]

Answer(cl, o) ==
    IF o.status \in Errors THEN [cl EXCEPT !.st = o.status]
    ELSE [cl EXCEPT !.st = IF IsAcceptable(o) THEN "accepted" ELSE "denied",
                    !.rec = o]

\* Mutant: fetchTokenOnce clears lookups in .then rather than .finally,
\* so a chain that fails stays registered.
SettleThenOnly(out) ==
    /\ callers' = [c \in Callers |->
                    IF callers[c].st = "wait" /\ callers[c].on \in DOMAIN out
                    THEN Answer(callers[c], out[callers[c].on]) ELSE callers[c]]
    /\ fetch' = [j \in Jobs |-> IF j \in DOMAIN out THEN "none" ELSE fetch[j]]
    /\ lookups' = IF Kind = "token"
                  THEN [v \in Values |->
                          IF \E j \in DOMAIN out : callers[j].val = v /\ out[j].status \notin Errors
                          THEN NoJob ELSE lookups[v]]
                  ELSE lookups

Settle(out) ==
    /\ callers' = [c \in Callers |->
                    IF callers[c].st = "wait" /\ callers[c].on \in DOMAIN out
                    THEN Answer(callers[c], out[callers[c].on]) ELSE callers[c]]
    /\ fetch' = [j \in Jobs |-> IF j \in DOMAIN out THEN "none" ELSE fetch[j]]
    /\ lookups' = IF Kind = "token"
                  THEN [v \in Values |->
                          IF \E j \in DOMAIN out : callers[j].val = v
                          THEN NoJob ELSE lookups[v]]
                  ELSE lookups

(***************************************************************************)
(* Requests.                                                               *)
(***************************************************************************)

\* fromAuthorizationHeader / fromApiKeyHeader: a header that does not match
\* the regexp is rejected at once, before any cache or SQL work.
RejectHeader(c) ==
    /\ callers[c].st = "idle"
    /\ callers' = [callers EXCEPT ![c].st = "denied"]
    /\ UNCHANGED <<now, db, dbChanges, cache, redisQ, lookups, fetch, pending, batches>>

\* fromToken(token) -> fetchTokenOnce(token): join the lookup in flight for
\* the value, or start fetchToken (redis.get) and register it in lookups.
\* Mutant: fromToken calls fetchToken directly, bypassing fetchTokenOnce.
FromTokenNoOnce(c, v) ==
    /\ callers[c].st = "idle"
    /\ fetch' = [fetch EXCEPT ![c] = "get"]
    /\ redisQ' = Append(redisQ, Get(v, c))
    /\ callers' = [callers EXCEPT ![c] = [st |-> "wait", val |-> v, on |-> c, rec |-> NoRec]]
    /\ UNCHANGED <<now, db, dbChanges, cache, lookups, pending, batches>>

FromToken(c, v) ==
    /\ callers[c].st = "idle"
    /\ IF lookups[v] = NoJob
       THEN /\ lookups' = [lookups EXCEPT ![v] = c]
            /\ fetch' = [fetch EXCEPT ![c] = "get"]
            /\ redisQ' = Append(redisQ, Get(v, c))
            /\ callers' = [callers EXCEPT ![c] = [st |-> "wait", val |-> v, on |-> c, rec |-> NoRec]]
       ELSE /\ callers' = [callers EXCEPT ![c] = [st |-> "wait", val |-> v, on |-> lookups[v], rec |-> NoRec]]
            /\ UNCHANGED <<lookups, fetch, redisQ>>
    /\ UNCHANGED <<now, db, dbChanges, cache, pending, batches>>

\* fromKey(key) calls this.fetchKey(key) directly: every request starts its
\* own redis.get, whatever is in flight (fetchKeyOnce is never called).
FromKey(c, v) ==
    /\ callers[c].st = "idle"
    /\ fetch' = [fetch EXCEPT ![c] = "get"]
    /\ redisQ' = Append(redisQ, Get(v, c))
    /\ callers' = [callers EXCEPT ![c] = [st |-> "wait", val |-> v, on |-> c, rec |-> NoRec]]
    /\ UNCHANGED <<now, db, dbChanges, cache, lookups, pending, batches>>

(***************************************************************************)
(* Redis replies, in the order the commands were issued.                   *)
(***************************************************************************)
Cmd0 == Head(redisQ)

\* The redis.get callback of fetchToken/fetchKey.  An error rejects with
\* internalError(); a miss goes to handleCacheMiss, whose requestDbFetch
\* pushes onto pendingDbFetches; a hit resolves the chain with the
\* deserialized record and then checkRefreshAhead issues redis.ttl.
FetchReply ==
    /\ redisQ # <<>> /\ Cmd0.op = "get"
    /\ LET v == Cmd0.val
           j == Cmd0.job
       IN \/ /\ RedisFails
             /\ Settle(j :> Failure("error_cache"))
             /\ redisQ' = Tail(redisQ)
             /\ UNCHANGED pending
          \/ /\ cache[v] = NoEntry
             /\ fetch' = [fetch EXCEPT ![j] = "db"]
             /\ pending' = Append(pending, [val |-> v, job |-> j])
             /\ redisQ' = Tail(redisQ)
             /\ UNCHANGED <<callers, lookups>>
          \/ /\ cache[v] # NoEntry
             /\ Settle(j :> cache[v].rec)
             /\ redisQ' = Append(Tail(redisQ), Ttl(v))
             /\ UNCHANGED pending
    /\ UNCHANGED <<now, db, dbChanges, cache, batches>>

\* The redis.ttl callback of checkRefreshAhead: on error return; otherwise
\* draw ttlThreshold and, when 0 <= remaining <= ttlThreshold, run
\* handleCacheMiss in the background (its outcome is ignored).  A missing
\* key answers -2.
CheckRefreshAhead ==
    /\ redisQ # <<>> /\ Cmd0.op = "ttl"
    /\ redisQ' = Tail(redisQ)
    /\ LET v == Cmd0.val
           remaining == IF cache[v] = NoEntry THEN -2 ELSE cache[v].ttl
       IN \/ /\ RedisFails
             /\ UNCHANGED pending
          \/ \E ttlThreshold \in RefreshThresholds :
                IF 0 <= remaining /\ remaining <= ttlThreshold
                THEN pending' = Append(pending, [val |-> v, job |-> NoJob])
                ELSE UNCHANGED pending
    /\ UNCHANGED <<now, db, dbChanges, cache, lookups, fetch, batches, callers>>

\* The redis.setex issued by handleCacheMiss completes: the entry is
\* written unless Redis errors (the error is only logged); in both cases
\* finally resolves handleCacheMiss, and so the fetch chain, with the record.
CacheWritten ==
    /\ redisQ # <<>> /\ Cmd0.op = "setex"
    /\ redisQ' = Tail(redisQ)
    /\ \/ cache' = [cache EXCEPT ![Cmd0.val] = [rec |-> Cmd0.rec, ttl |-> Cmd0.ttl]]
       \/ RedisFails /\ UNCHANGED cache
    /\ IF Cmd0.job = NoJob
       THEN UNCHANGED <<callers, fetch, lookups>>
       ELSE Settle(Cmd0.job :> Cmd0.rec)
    /\ UNCHANGED <<now, db, dbChanges, pending, batches>>

(***************************************************************************)
(* The batched SQL fetch.                                                  *)
(***************************************************************************)

\* The setInterval tick: fetchFromDb returns when the queue is empty;
\* otherwise it swaps the queue for an empty one and issues one query for
\* all of its values.
\* Mutant: the queue is read but not swapped for an empty one.
FetchFromDbNoSwap ==
    /\ pending # <<>>
    /\ batches' = Append(batches, [fetches |-> pending, rows |-> NoRows])
    /\ UNCHANGED pending
    /\ UNCHANGED <<now, db, dbChanges, cache, redisQ, lookups, fetch, callers>>

\* Mutant: an off-by-one early return, `if(length <= 1) return`.
FetchFromDbOffByOne ==
    /\ Len(pending) > 1
    /\ batches' = Append(batches, [fetches |-> pending, rows |-> NoRows])
    /\ pending' = <<>>
    /\ UNCHANGED <<now, db, dbChanges, cache, redisQ, lookups, fetch, callers>>

FetchFromDb ==
    /\ pending # <<>>
    /\ batches' = Append(batches, [fetches |-> pending, rows |-> NoRows])
    /\ pending' = <<>>
    /\ UNCHANGED <<now, db, dbChanges, cache, redisQ, lookups, fetch, callers>>

\* The query executes on the database and reads the current rows.
DbQueryRead(i) ==
    /\ batches[i].rows = NoRows
    /\ batches' = [batches EXCEPT ![i].rows = db]
    /\ UNCHANGED <<now, db, dbChanges, cache, redisQ, lookups, fetch, pending, callers>>

\* The query's then-callback: each fetch resolves with fromSql(row) or
\* fromNotFound(); handleCacheMiss then issues redis.setex with hitTTL for
\* an existing credential and missTTL otherwise, in the order of fetches.
\* Mutant: the TTL is passed in milliseconds (as sqlFetchInterval is).
DbQueryResolveMs(i) ==
    /\ batches[i].rows # NoRows
    /\ LET b == batches[i]
           SetexOf(e) == Setex(e.val, e.job, b.rows[e.val],
                                1000 * (IF Exists(b.rows[e.val]) THEN HitTTL ELSE MissTTL))
           waiting == {b.fetches[k].job : k \in DOMAIN b.fetches} \ {NoJob}
       IN /\ redisQ' = redisQ \o [k \in DOMAIN b.fetches |-> SetexOf(b.fetches[k])]
          /\ fetch' = [j \in Jobs |-> IF j \in waiting THEN "setex" ELSE fetch[j]]
    /\ batches' = RemoveAt(batches, i)
    /\ UNCHANGED <<now, db, dbChanges, cache, lookups, pending, callers>>

DbQueryResolve(i) ==
    /\ batches[i].rows # NoRows
    /\ LET b == batches[i]
           SetexOf(e) == Setex(e.val, e.job, b.rows[e.val],
                                IF Exists(b.rows[e.val]) THEN HitTTL ELSE MissTTL)
           waiting == {b.fetches[k].job : k \in DOMAIN b.fetches} \ {NoJob}
       IN /\ redisQ' = redisQ \o [k \in DOMAIN b.fetches |-> SetexOf(b.fetches[k])]
          /\ fetch' = [j \in Jobs |-> IF j \in waiting THEN "setex" ELSE fetch[j]]
    /\ batches' = RemoveAt(batches, i)
    /\ UNCHANGED <<now, db, dbChanges, cache, lookups, pending, callers>>

\* The query's catch-callback: every fetch of the batch is rejected, and
\* handleCacheMiss turns that into internalError(); nothing is retried.
DbQueryReject(i) ==
    /\ LET waiting == {batches[i].fetches[k].job : k \in DOMAIN batches[i].fetches} \ {NoJob}
       IN Settle([j \in waiting |-> Failure("error_db")])
    /\ batches' = RemoveAt(batches, i)
    /\ UNCHANGED <<now, db, dbChanges, cache, redisQ, pending>>

(***************************************************************************)
(* The environment: time passes and credential rows change.                *)
(***************************************************************************)

\* One tick: every Redis TTL decreases; an entry at its last tick expires.
Tick ==
    /\ now < MaxTime
    /\ now' = now + 1
    /\ cache' = [v \in Values |->
                   IF cache[v] = NoEntry \/ cache[v].ttl = 1 THEN NoEntry
                   ELSE [cache[v] EXCEPT !.ttl = @ - 1]]
    /\ UNCHANGED <<db, dbChanges, redisQ, lookups, fetch, pending, batches, callers>>

\* Tokens are issued and revoked (or expire); keys are created and deleted
\* (or rotated out of both key and old_key).
RowChanges == IF Kind = "token" THEN {<<"none", "ok">>, <<"ok", "revoked">>}
                                ELSE {<<"none", "ok">>, <<"ok", "none">>}

ChangeRow(v) ==
    /\ dbChanges < MaxDbChanges
    /\ \E ch \in RowChanges :
          /\ ch[1] = db[v].status
          /\ db' = [db EXCEPT ![v] = [status |-> ch[2], ver |-> dbChanges + 1]]
    /\ dbChanges' = dbChanges + 1
    /\ UNCHANGED <<now, cache, redisQ, lookups, fetch, pending, batches, callers>>

Request(c) ==
    \/ RejectHeader(c)
    \/ \E v \in Values : IF Kind = "token" THEN FromToken(c, v) ELSE FromKey(c, v)

Next ==
    \/ \E c \in Callers : Request(c)
    \/ FetchReply
    \/ CheckRefreshAhead
    \/ CacheWritten
    \/ FetchFromDb
    \/ \E i \in DOMAIN batches : DbQueryRead(i) \/ DbQueryResolve(i) \/ DbQueryReject(i)
    \/ Tick
    \/ \E v \in Values : ChangeRow(v)

\* Redis answers every command, the interval timer keeps firing, and every
\* SQL query eventually settles (these stores are assumed to answer: the
\* code sets no timeout on either).
Fairness ==
    /\ WF_vars(FetchReply \/ CheckRefreshAhead \/ CacheWritten)
    /\ WF_vars(FetchFromDb)
    /\ WF_vars(\E i \in DOMAIN batches : DbQueryRead(i))
    /\ WF_vars(\E i \in DOMAIN batches : DbQueryResolve(i))

Spec == Init /\ [][Next]_vars /\ Fairness

(***************************************************************************)
(* Properties.                                                             *)
(***************************************************************************)

\* The fetches waiting on SQL: the queue, then every query in flight.
DbEntries == FlattenSeq(<<pending>> \o [k \in DOMAIN batches |-> batches[k].fetches])
EntriesFor(v, fromMiss) ==
    Len(SelectSeq(DbEntries, LAMBDA e : e.val = v /\ (fromMiss => e.job # NoJob)))

\* Spec section 8: concurrent requests for a value that misses the cache put
\* at most one entry for it into the SQL queries (queued or in flight).
\* Checks the lookups map of fetchTokenOnce against fromToken/fromKey.
SingleflightMiss == \A v \in Values : EntriesFor(v, TRUE) <= 1

\* Spec section 2: at most one resolution of a value is in flight at any
\* time, counting the background refresh that checkRefreshAhead starts.
OneResolutionInFlight == \A v \in Values : EntriesFor(v, FALSE) <= 1

\* The queue swap of fetchFromDb and the settling of a query neither lose
\* nor duplicate a waiting fetch: a chain waits on SQL exactly when exactly
\* one entry for it is queued or in flight.
DbWaitersTracked ==
    \A j \in Jobs :
        Len(SelectSeq(DbEntries, LAMBDA e : e.job = j)) = IF fetch[j] = "db" THEN 1 ELSE 0

\* No request waits on a chain that has already settled: settling answers
\* every waiter, and (TokenAuth) this.lookups names exactly the chains in
\* flight, so a later request never joins a settled one.
NoOrphanWaiter ==
    /\ \A c \in Callers : callers[c].st = "wait" => fetch[callers[c].on] # "none"
    /\ Kind = "token" =>
         \A v \in Values, j \in Jobs :
            lookups[v] = j <=> (fetch[j] # "none" /\ callers[j].val = v)

\* Every request is eventually answered (accepted, denied or an error).
EveryRequestAnswered == \A c \in Callers : callers[c].st = "wait" ~> callers[c].st # "wait"

\* Spec section 1: revoked credentials are never returned past the trust
\* window.  Stated as: once a request for a value was answered from a row
\* version, no request for it answered later gets an older version (so a
\* token seen revoked, or a key seen deleted, is not accepted afterwards).
\* Bites where two SQL queries for one value settle out of order and the
\* older snapshot's redis.setex overwrites the newer (handleCacheMiss).
MonotonicOutcomes ==
    [][\A c, d \in Callers :
         (/\ callers[c].st = "wait" /\ callers'[c].rec # NoRec
          /\ callers[d].rec # NoRec /\ callers[d].val = callers[c].val)
         => callers'[c].rec.ver >= callers[d].rec.ver]_callers

\* Spec sections 4.1 and 7: a Redis error on read is a cache miss and is
\* never surfaced to the caller (fetchToken/fetchKey's redis.get callback).
CacheErrorNotSurfaced == \A c \in Callers : callers[c].st # "error_cache"

\* Spec section 8: a cached "not found" entry is not re-queried against the
\* database until its missTTL elapses: no step puts a new SQL entry for a
\* value while Redis holds a not-found record for it.  Bites where a hit
\* on a not-found entry runs checkRefreshAhead, which compares the
\* remaining TTL with a threshold drawn from hitTTL whatever the record.
NegativeEntryNotRequeried ==
    [][\A v \in Values :
         (cache[v] # NoEntry /\ ~Exists(cache[v].rec))
         => EntriesFor(v, FALSE)' <= EntriesFor(v, FALSE)]_vars

=============================================================================
