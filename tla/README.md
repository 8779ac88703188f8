# TLA+ models of the remove.bg API server (`src/api`)

This directory holds TLA+ models of the API server's credential resolution
engine, the TLC configurations that check them, and `PROJECT.json`. That file
lists the components, runs, mutants, source map, findings and hazards.
Everything is checked by `tlc -workers 2 -config <cfg> MC_<Module>`.

## 1. Inventory

### Components, their state and operations

| Component | Source | State | Operations |
|---|---|---|---|
| **TokenAuth** (OAuth2 bearer tokens) | `token_auth.js` | `lookups` (value → in-flight promise), `pendingDbFetches` (queue), Redis entries `oauth2_token:<t>` with TTL | `fromAuthorizationHeader`, `fromToken`, `fetchTokenOnce`, `fetchToken` (redis.get), `checkRefreshAhead` (redis.ttl), `handleCacheMiss` (→ queue, then redis.setex), `requestDbFetch`, `fetchFromDb` (a `setInterval` tick every 100 ms) |
| **KeyAuth** (API keys) | `key_auth.js` | the same, with Redis keys `api_key:<k>` | the same. `fromKey` calls `fetchKey` directly, so `fetchKeyOnce` is dead code. `fetchFromDb` maps both `key` and `old_key` to the row. |
| **Token / Key records** | `token.js`, `key.js` | an immutable snapshot of a row | `isAcceptable` (token: exists, not revoked, not expired; boundary `<= now` counts as revoked/expired), `toError`, `requireScopes`, `serialize`/`deserialize` (JSON), `fromSql`, `fromNotFound` |
| **Auth middleware** | `index.js` 638–769 | `res.locals` per request | `authenticated` (exactly one of the two headers, then key or token auth, then `assignUser` and `checkIP`), `authScope` |
| **RemoteCredits** | `remote_credits.js`, `api_call.js` | HTTP pool | `getUser` (retries up to 5 times with doubling delay), `check` (free call or enough credits), `charge` (`updateForResolution`, `distributeCharge`, `report`) |
| **RateLimitHitReporter** | `reporting/rate_limit.js` | Redis `rlh:<user>` with TTL | `report`: GET, then SET and publish if absent |
| **Request handling** | `index.js` (`prepare`, `validate`, `processImage`, parameter parsers), `validation.js`, `send_error.js`, `improve.js`, `design.js` | per request | parse and validate parameters, download, send to core, map the result |
| **Server process** | `index.js` start-up, `startServer`, health routes; `RemoteCredits.connect` | the users-api connection attempt, core's AMQP connection, the shutdown phase | `connect` (retry every 5 s), `core.connect` and `onFirstConnect: startServer`, `getHealthStatus`/`healthCheck` on `/health`, `/health/readiness`, `/health/liveness`, the `shutdown.before` hook |
| **Mocks, CI** | `mock/*.js`, `mock_credits.js`, `dangerfile.ts` | — | test doubles and a PR-lint script |

### How they interact

A request passes through `authenticated`. That calls
`key_auth.fromApiKeyHeader` or `token_auth.fromAuthorizationHeader`, then
`credits.getUser`, then `authScope` and the route handler. The route handler
calls `applyRateLimit` and `credits.check`, and `auth.charge` when the result
arrives.

All of this runs on one Node.js event loop. The suspension points are:
- the Redis commands, which go over one ioredis connection and so are answered in issue order;
- the SQL queries, which go through a connection pool, so several can be in flight and settle in any order;
- the 100 ms batch timer;
- the HTTP calls to the users API.

### What is hard

- **Interleaving of requests.** Concurrent requests for one value share a fetch, but only through `lookups`, and only in TokenAuth. Refresh-ahead bypasses `lookups`.
- **Ordering.** The timer issues a new SQL query every 100 ms whether or not the previous one has settled. Queries settle out of order, and each settling query writes its snapshot to Redis. The last write wins, not the newest snapshot.
- **Partial failure.**
  - A Redis GET error fails the request.
  - A Redis SETEX error is swallowed.
  - A SQL error rejects every fetch of the batch.
  - Every path must still settle the shared promise and clear `lookups`.
- **Time.**
  - Entries expire with an asymmetric TTL.
  - Refresh-ahead fires on a hit whose remaining TTL is at or below a randomly drawn threshold.
  - Revocations made in the database reach callers only through the cache.
- **Liveness.** Every request must eventually be answered. Nothing in the code times out a Redis command or a SQL query.

### Properties that make each component correct

- **Resolution engine (TokenAuth and KeyAuth):**
  - at most one SQL lookup per value among concurrent misses (spec §8), and at most one resolution of a value in flight (spec §2);
  - the queue swap loses and duplicates no waiting fetch;
  - no request waits on, or joins, a settled fetch;
  - every request is answered;
  - a Redis read error is treated as a miss (spec §4.1, §7);
  - a revocation, once observed, is never undone (spec §1);
  - a negative entry is not re-queried before its miss TTL ends (spec §8).
- **Records:** acceptability at the boundary instants; the scope check; the JSON round trip.
- **Middleware:** a request reaches a handler only with exactly one valid credential, an existing user and a permitted IP; every request gets exactly one response.
- **RemoteCredits:**
  - `distributeCharge` charges exactly the amount it may and never more than each balance;
  - `getUser` makes at most 6 attempts and retries only retryable errors;
  - the credit check and the charge agree.
- **RateLimitHitReporter:** at most one publish per user per TTL window.

## 2. Plan

Modules, in the order they were built:

| Module | Status | What it covers |
|---|---|---|
| `AuthEngine` + `MC_AuthEngine` | done | The cache, the lookups map, the batch queue and concurrent SQL queries, with Redis and SQL failures, TTL time and row changes. One module serves TokenAuth and KeyAuth, switched by `Kind`. |
| `Credentials` | done | `Token.fromSql`, `isRevoked`, `isExpired`, `isAcceptable` and `toError`, checked against the acceptability rule at every instant. |
| `KeyLookup` | done | KeyAuth's `byKey` resolution with `old_key`, and `Key.fromSql`/`fromNotFound`, over every small table. |
| `RequestParams` | done | prepare's geometry parsers `getCropMargin`, `getScale` and `getPosition` as operators, checked against the documented parameter values. |
| `ServerLifecycle` | done | Start-up through `RemoteCredits.connect` and core's first connection, the health probes, and the shutdown hook. |
| `MC_Records` | done | Checks `Credentials`, `KeyLookup`, `RequestParams` and `ServerLifecycle` in one run: a behaviour is a behaviour of one of them. |
| `AuthMiddleware` | done | `authenticated`, `assignUser`, `checkIP` and `authScope`, with `getUser`'s retries. |
| `ApiRoutes` + `MC_ApiRoutes` | done | Every authenticated route composed with `AuthMiddleware`. For removebg: `checkBalance`, `prepare`, the downloads, `validate`, `applyRateLimit`, `processImage` and core's result callback with the charge. Also `/account`, `/designs`, `/designs/:id` (`design.js`) and `/improve` (`improve.js`). |
| `Credits` + `MC_Credits` | done | `getSize`, `checkBalance`, `check`, the charge closure, `updateForResolution` and `distributeCharge`. |
| `RateLimitReport` | done | Concurrent `report` calls. |

Next:
- Compose `AuthMiddleware` with an `AuthEngine` instance instead of taking the credential outcome as an input. This is only worth doing if the state space allows it.
- Use `Credits` itself for the balance check and the charge in `ApiRoutes`, instead of their outcomes. This needs a smaller user domain than the `credits` run.
- Concurrent requests of one user against the users-api balance. This needs a model of the external users-api.

## 3. What is modelled: `AuthEngine`

### State

| Variable | Code |
|---|---|
| `lookups` | `this.lookups` |
| `pending` | `this.pendingDbFetches`. An entry with `job = NoJob` is a refresh-ahead fetch. |
| `batches` | `db.query` calls issued by `fetchFromDb` and not yet settled. `rows` is the snapshot the query read. |
| `redisQ` | commands issued on the ioredis connection and not yet answered |
| `cache` | the Redis entries and their remaining TTL |
| `fetch[j]` | the stage of the `fetchToken`/`fetchKey` promise chain started by request `j`: `get`, then `db` (requestDbFetch), then `setex` |
| `callers[c]` | request `c` and its outcome |
| `db` | the rows, each with a version |
| `now` | the clock |

### Actions

Each action is one macrotask together with the promise continuations it
triggers:

| Action | Code |
|---|---|
| `RejectHeader` | the regexp gate |
| `FromToken` | `fromToken` + `fetchTokenOnce` |
| `FromKey` | `fromKey` → `fetchKey` |
| `FetchReply` | the redis.get callback: error, miss (`handleCacheMiss` → `requestDbFetch`) or hit (resolve, then issue redis.ttl) |
| `CheckRefreshAhead` | the redis.ttl callback with the random threshold |
| `CacheWritten` | redis.setex settles, then `handleCacheMiss` resolves |
| `FetchFromDb` | the interval tick: swap the queue, issue the query |
| `DbQueryRead` / `DbQueryResolve` / `DbQueryReject` | the query reads rows; its then-callback (`fromSql`/`fromNotFound`, `setex` with `hitTTL`/`missTTL`); its catch-callback |

`Settle` holds what happens whenever a chain settles:
- every waiter is answered with `isAcceptable` or the error;
- `lookups` is cleared (the `finally`).

Environment actions:
- `Tick`: Redis TTLs decrease and entries expire.
- `ChangeRow`: a token is issued or revoked, or a key is created or deleted.

### Abstractions

- **Records.** A record is the row's status (`none`, `ok`, `revoked`) and its version. Expiry of a token is folded into `revoked`. `isAcceptable` is computed from the record at use, as in the code, so an expired cached token behaves exactly like a revoked one.
- **JSON round trip.** It is the identity on these records: `fromSql` builds only numbers, strings and null, and `deserialize` copies every key back.
- **Deserialization failure.** It cannot happen for entries this code writes, and is left out.
- **`old_key`.** The aliasing is abstracted to the value level: a value resolves to a row or to none.
- **Threshold.** `Math.random` becomes a nondeterministic choice from `RefreshThresholds`, which is `round(0.1·hitTTL) .. round(0.3·hitTTL)` (18..54 for the real 180 s).

### Bounds (`MC_AuthEngine`)

- `HitTTL = 5` and `MissTTL = 7` ticks. This gives thresholds 1..2 ticks, so a cached entry can cross the refresh threshold and expire within the 6 ticks of `MaxTime`.
- At most one row change. It is enough to see a revocation or a deletion race a fetch.
- Two credential values, so that batches mix values.
- Two requests in `token_liveness`, which checks safety and liveness together. Two requests are enough to share a lookup, to race a refresh against a miss, and to split one value over two batches. The `Revoke` run needs four requests, so that a fourth can observe the overwrite.
- In `AuthTokenNegative.cfg`, one value with no row and 7 ticks. The not-found entry written at tick 0 (TTL 7) is hit when it has 1 or 2 ticks left.
- `CHECK_DEADLOCK FALSE`: each request is made once, and after the last answer the server idles.

### Fairness

`Fairness` assumes the following:
- Redis answers every command;
- the `setInterval` timer keeps firing;
- every SQL query is eventually read and resolved.

The code sets no timeout on Redis or SQL, so liveness holds only under this assumption about the two stores. Failures are allowed but are not assumed to happen.

## 4. The other modules

### `Credentials`

Time is counted in half seconds, so that a row time or "now" can fall between two whole seconds. `Init` takes every row over:
- `created_at` and `revoked_at` in {1, 1.5, 2, 2.5 s} or null;
- `expires_in` in {null, 1, 2} s;
- every start instant up to 5 s.

`Tick` advances the clock.

The run `records` (`MC_Records`) checks this module, `KeyLookup`, `RequestParams` and `ServerLifecycle`. They share no state, so `Init` picks one of them (`part`) and holds the others' variables at one of their initial states. A product would multiply their state spaces with no new behaviour.

The acceptability rule, `RefAcceptable`, is spec §4.4 applied to the real row times. `fromSql` floors to seconds, and `isRevoked`/`isExpired` use JavaScript truthiness. Both only make the code stricter, so `AcceptedOnlyIfValid` holds. A mutant that rounds instead of flooring accepts revoked tokens.

With `expires_in = 0` added to the domain, TLC finds `AcceptedOnlyIfValid` violated in an initial state: `!this.expires_in` treats 0 as "never expires". This is recorded as a hazard. There is no run for it, because real tokens are issued with a positive `expires_in` or none.

### `KeyLookup`

`Init` takes:
- every table of up to two `api_keys` rows over three key values, with pairwise distinct identifiers (keys are random 24-character strings);
- every batch of one or two fetched values;
- every order in which the database may return the selected rows.

Each row also has a `user_id`, one of two users, so that two rows can give different keys. `Resolve` runs the then-callback of `fetchFromDb`, which turns a row into `Key.fromSql(row)` (`exists` and the row's `user_id`; `ip_passlist` is copied the same way and left out) and a value with no row into `Key.fromNotFound()`. `BothIdentifiersResolve` says that a fetched value resolves to an acceptable key of the user of the live row carrying it as `key` or `old_key`, or to a key that is not acceptable (spec §4.3). Dropping the `old_key` line breaks it.

### `RequestParams`

`getCropMargin`, `getScale` and `getPosition` (`index.js` 919–1009) as operators. `prepare` answers their `null` with `invalid_crop_margin`, `invalid_scale` or `invalid_position`; these are the verdicts `ApiRoutes` takes as inputs.

A body value is one of:
- `undefined`, a boolean, or the number 0 or 1 (JSON bodies);
- a word: `""`, `"original"`, `"center"` or any other text;
- a string the regular expressions can read, kept as its tokens. Each token is a number and its unit (`""`, `%` or `px`). The separators and leading zeros are left out.

The parse follows the code step by step:
- JavaScript falsiness first;
- then `typeof`;
- then the match, with the digit limits of each regular expression and the units it allows;
- then each value's bound, 50 for `%` and 500 otherwise;
- then the switch on the number of values.

`ParsedAsDocumented` compares the result with a reference written without the regular expressions (`DocCropMargin`, `DocScale`, `DocPosition`):
- a margin is one, two or four values, applied as CSS margin shorthand, each at most 50% or 500 px;
- a scale is 10%–100%;
- a position is one or two percentages, 0–100%, or `center`.

The inputs are every string of one or two tokens over values at each bound (0, 9, 10, 50, 51, 100, 101, 500, 501, and 1000 and 100000, which have too many digits). They also include every string of three or four tokens over 50, 51 and 501 in every unit, and five equal tokens. That is 8,430 values, each parsed by all three parsers. Spreading two margin values as top/right and bottom/left breaks the property.

### `AuthMiddleware`

Each request is a record with:
- its stage: idle, auth, user, retry or done;
- its inputs: headers, the route's required scopes, the token's scopes, the credential outcome, each users-api reply, and the user and client IP;
- the getUser counters (`tries`, `delay`, `attempts`, `waited`) and its response.

The actions are `Authenticated`, `CredentialResolved`, `UserReply` (one `getUserOnce` answer together with `assignUser`/`checkIP`/`authScope`) and `RetryTimer` (the `setTimeout` of `getUser`).

The credential outcome is an input; `AuthEngine` covers it. Requests share no state in this part of the code. `AuthMiddleware` has no run of its own: `ApiRoutes` instantiates it, and the `api_request` run checks its properties with one request, getUser's real `tries = 5` and `tryDelayMs = 500`.

Fairness is justified by the code:
- every users-api request has a 5000 ms timeout, so it always answers;
- timers fire;
- the credential promise settles (`EveryRequestAnswered` of `AuthEngine`).

### `ApiRoutes`: the routes, composed with the middleware

`ApiRoutes` instantiates `AuthMiddleware` (`Auth == INSTANCE AuthMiddleware`) over the same `req` variable. It adds `pipe[r]`, the route's state for each request:
- its stage: idle, then the stages of its route (removebg: dl_image, dl_bg, ratelimit, core; the others: a limiter stage per route, the design queries, improve's download and submission), then done;
- the background source;
- the image size and the roi in pixels, once validate has run;
- the response, the number of responses sent, whether the rate limiter passed, the number of core calls and the number of charges;
- whether a design id names a preset (`<id>-tc-<config>`), and whether a rejected promise went uncaught.

The route starts when the middleware ends in next() (`req[r].resp = "handler"`). Each asynchronous step is one action, and everything synchronous between two of them belongs to that action:
- `Prepare`: checkBalance, then in its success callback the early returns in the code's order. These are the image sources, `image_url`, the parameter parsers, the background sources and `bg_image_url`. The action ends in the image download or in `afterOriginalFetched`. `afterOriginalFetched` either starts the background download or runs `validate`.
- `DownloadImage` and `DownloadBg`: the download callbacks.
- `Validate`: `validateImageData` of the image and then of the background, followed by `CheckRoi`, the rest of validate:
  - each roi point is converted (`Math.round(v/100·(side−1))`, halves up) or bounds-checked;
  - the empty-region check;
  - `core.isConnected()`;
  - `applyRateLimit`, which issues the limiter call.
- `RateLimitReply`: the limiter settles. On success `processImage` sends the message to core. On rejection applyRateLimit sends the 429, and validate's catch does nothing.
- `CoreResult`: core's callback. For "ok" it charges the closure and sends the image; otherwise it sends the error.

Several things are inputs, drawn only when the code reads them:
- the balance outcome (`Credits` models the decision);
- the parameter parsers' verdicts;
- the downloaded buffers, as `validateImageData`'s outcomes;
- the limiter's and core's answers.

The other routes start at the same point. Each handler is an action of its own, and the route a request was sent to is the one that runs:
- `AccountHandler`: `/account` answers with the balance at once.
- `RateLimitedHandler`: `/designs`, `/designs/:id` and `/improve` call `applyRateLimit` (one megapixel) or `applyImproveRateLimit` (per day). The route's work runs in the promise's then-callback, and neither chain has a catch.
- `RouteLimitReply`: the limiter settles. On rejection the limiter sends the 429 and calls `reject()`, which nothing catches. On success the route's work runs:
  - `Design.index` and `Design.show` run `getFieldConfig` over `fieldmap` (a 400 for an unknown field). `Design.show` also splits the id on `-tc-`.
  - `Improve.process` runs `validateImageInput`'s early returns, then `fetchImage`. An `image_url` is downloaded; base64 data or a file goes straight to `imageFetched`.
- `AllTemplatesSettled`, `AllConfigsSettled`, `FindTemplateSettled` and `FindConfigSettled` are the design queries' callbacks. An error is a 500. A template or preset that is not exactly one row is a 404. After the preset 404, `configureIfRequired`'s promise never settles.
- `ImproveDownload` and `DanniSubmitted`: improve's download callbacks, then `imageFetched` (`validateImageData`, `danni.submit`) and the submission's outcome.

`MC_ApiRoutes` uses:
- sides of 2 or 3 pixels, with a pixel limit of 6, so 3×3 is too large;
- roi coordinates at 0%, 50%, 100% (getRoi refuses more than 100%) or at pixel 2, which lies past the last column of a 2-pixel image.

These bounds reach:
- rounding of 50% to 1 on a 2-pixel side;
- 100% mapping to the last pixel;
- an absolute coordinate out of bounds;
- a region that becomes empty only after conversion.

Fairness is weak fairness of each request's next step. A request is one chain of callbacks, so only the step at its head is enabled. At the handler, that step has one alternative per route. The middleware steps are justified as in `AuthMiddleware`. `prepare` runs inside next(). The liveness property additionally assumes that:
- `download` calls one of its callbacks;
- the limiters' promises, the design queries and `danni.submit` settle;
- core calls its result callback.

These three collaborators live in `kaleido-api`.

### `Credits`

`Init` takes every user snapshot with:
- balances in {-250, 0, 250, 500, 1000} mcredits, an overdraft of 0 or 250;
- 0 or 1 free calls, and enterprise or not;
- every size parameter, including `auto` and an invalid one.

The action table comes from the external `kaleido-api/removebg_actions`, so it is a constant. `MC_Credits` gives an acyclic table of that shape: full, then hd, then medium, then preview, by min_resolution, with only the preview free. The actions are:
- `CheckBalance`: a 400 for an invalid size or channels;
- `Check`: approved or a 402;
- `Charge`: the closure, called with any resolution of 1..4 MP.

### `ServerLifecycle`

The process, from `new RemoteCredits` to the shutdown callback. Its state:
- `credits`: `connect`'s `/health` request in flight, its 5 s retry timer, or its callback run;
- `attempts`: failed requests, at most `MaxAttempts` = 2;
- `core`: idle until the callback calls `core.connect()`, then connecting, connected or disconnected;
- `started`: `startServer` has run, from core's `onFirstConnect`;
- `shutdown`: none, terminating (`httpTerminator.terminate()`), waiting (the 8 s timer) or done;
- `probe`: the last health answer.

Its actions:
- `ConnectReply`: any HTTP response runs the callback, and a request error sets the retry timer.
- `ConnectRetry`: the retry timer fires.
- `CoreConnected` and `CoreDisconnected`: core's AMQP connection comes and goes. Its first connection runs `startServer`.
- `Sigterm`: the shutdown begins. It goes through the hook if `startServer` installed it, and otherwise the process ends.
- `TerminateResolved` and `ShutdownCallback`: the hook's chain.
- `HealthCheck(route)`: `healthCheck` with `getHealthStatus`. `hasRecentlyFetched` is constantly true, so `no-recent-fetch` never occurs.

Fairness is weak:
- the timers fire;
- a `/health` request settles within its 5 s timeout;
- the AMQP broker accepts a connection.

After `MaxAttempts` failures, only a successful reply is possible. This stands for the users-api coming back.

The run checks two properties:
- `ProbesAnswerAsIntended`: readiness passes exactly while core is connected and no shutdown is in progress. Liveness passes while core is connected or a shutdown is in progress. It depends on `getHealthStatus` checking the shutdown last.
- `ServerStarts`: the server starts, unless a SIGTERM ends the process first.

What the process does after the callback, and what `terminate()` does to open requests, belong to `kaleido-api/shutdown` and `http-terminator`.

### `RateLimitReport`

Two concurrent `report` calls for one user go over one FIFO Redis connection, with a key TTL of 3 ticks and 4 ticks of time. After a GET that finds the key absent, the SET executes later. A second GET queued before that SET also finds the key absent.

## 5. Runs

| Run | cfg | Result | What it shows |
|---|---|---|---|
| `token_liveness` | `AuthTokenLive.cfg` | pass, 116,302 states, about 90 s | For two concurrent TokenAuth requests: concurrent misses put at most one SQL entry per token into flight (spec §8); the queue swap neither loses nor duplicates a waiter; no request waits on, or joins, a settled fetch; and every request is answered under Redis errors, SQL errors and out-of-order queries. |
| `key_engine` | `AuthKey.cfg` | pass, 84,078 states | Every API-key request is answered under KeyAuth's batch queue, Redis and SQL failures and out-of-order queries. |
| `records` | `Records.cfg` | pass, 22,507 states | `isAcceptable` never accepts what the rule rejects, at every instant including the boundaries, and a rejection is never undone by time. A key and its rotated `old_key` resolve to an acceptable key of their row's user, in every small table. The crop_margin, scale and position parsers accept exactly the documented values, and give each one its documented meaning. The health probes pass exactly when their route should, so a draining pod stays live. The server starts serving unless it is stopped first. |
| `api_request` | `ApiRoutes.cfg` | pass, 115,211 states, about 2 min 15 s | See below. |
| `credits` | `Credits.cfg` | pass, 21,332 states | The reported split adds up to `credits_charged`, each part from a positive balance. |
| `key_singleflight` | `AuthKeySingleflight.cfg` | violation | Two concurrent requests for one unseen key put two entries into the SQL lookup (`fetchKeyOnce` is never called). |
| `token_refresh_dup` | `AuthTokenRefresh.cfg` | violation | Two hits in the refresh window each queue a refresh, so two resolutions of one token are in flight, against spec §2. |
| `token_revocation` | `AuthTokenRevoke.cfg` | violation | A revoked token is denied, then accepted again for a full `hitTTL` (see below). |
| `token_cache_error` | `AuthTokenCacheError.cfg` | violation | A Redis GET error reaches the caller as `internal_auth_error`; spec §4.1 and §7 say it is a miss. |
| `token_negative_refresh` | `AuthTokenNegative.cfg` | violation | A hit on a cached not-found token entry in its last 18–54 s starts checkRefreshAhead's background fetch, so the value is re-queried before its missTTL ends, against spec §8. `key_auth.js` has the same check. |
| `unhandled_rejection` | `ApiRoutesUnhandled.cfg` | violation | A rate-limited request to `/designs`, `/designs/:id` or `/improve` gets its 429, and then the limiter's `reject()` is an unhandled rejection. The routes' `.then` chains have no catch, unlike validate's. From Node 15 on, the default is to end the process. |
| `rate_limit_race` | `RateLimitRace.cfg` | violation | Two concurrent reports both GET before the first SET, so a user's rate-limit hit is published twice in one window. |

`api_request` checks that:
- the route is reached only through every gate of the middleware;
- `getUser` makes at most 6 attempts, with 500·(2^(n−1)−1) ms waited before the n-th;
- a missing user is never retried;
- each request gets at most one response, and eventually gets one, on every path through the middleware and every route. For removebg, that covers the early returns, the download callbacks, the rate limiter's 429 (whose rejection validate's catch swallows) and core's result. For the others, it covers the limiters, the design queries including the preset 404 whose promise never settles, and improve's download and submission;
- the credit closure is charged at most once, and exactly when the image is sent;
- the region of interest sent to core lies inside the image and is not empty.

`token_revocation` traces the following sequence:
1. A refresh-ahead query reads the row.
2. The token is revoked.
3. The entry expires, and a miss query reads the revoked row and settles first.
4. The refresh query settles last, and its `SETEX` overwrites the revoked entry.

Each property of a passing run has a mutant in `PROJECT.json`, a plausible bug that TLC catches:
- `fetchTokenOnce` bypassed;
- the queue not swapped;
- an off-by-one early return in `fetchFromDb`;
- lookups cleared only on success;
- the TTL in milliseconds;
- rounding instead of flooring in `fromSql`;
- `<=` written as `===` in `isRevoked`;
- the blocked-IP test after the enterprise early return;
- the retry test `tries >= 0`, or retrying every error;
- validate's catch also answering a rejected rate limit;
- the charge taken before core's status is checked;
- a relative roi coordinate scaled by the side instead of side − 1;
- the background download's error callback only logging;
- the enterprise share left out of `distributeCharge`;
- the `old_key` line of `byKey` dropped;
- two crop_margin values spread as top/right and bottom/left;
- `getHealthStatus` checking the shutdown first, so that later checks override it;
- `connect`'s catch without the retry timer.

## 6. Not modelled, and why

- **An abstract specification of the resolver.** What the code keeps of the promise of spec §2 is that a request is answered with some version its row once held, accepted exactly when that version is acceptable. Stated as a refinement, its safety half only restates `isAcceptable` and its liveness half is `EveryRequestAnswered`. The stronger promise, that no older record is served after a newer one, is what the code breaks (`token_revocation`), so it is checked as `MonotonicOutcomes` in a violation run rather than as a refinement.
- **The shutdown's completion.** `terminate()` and the process exit belong to `http-terminator` and `kaleido-api/shutdown`; the hook's own chain is two steps with no branch, so its completion would restate the fairness assumed of those libraries.
- **The billed action's fit to the resolution.** It is the exit condition of `updateForResolution`'s recursion; with the cheaper alternatives of the action table, a single fallback step also fits, so a property of it says nothing more than the recursion.
- **The other parameter parsers** (`getType`, `getTypeLevel`, `getCrop`, `getAddShadow`, `getChannels`, `getFormat`, `getSemitransparency`, `getBgColor`). Each one is a switch or a match on one value. Its only effect on control is the `null` that `ApiRoutes` takes as an input; the rest is the option passed on to core. The geometry parsers, which have bounds and a shorthand, are modelled in `RequestParams`.
- **The `/apps` version check** (`index.js` 114–152). It is unauthenticated and synchronous, and answers from the query string alone.
- **The bodies of the design responses** (`designToJson`, `configureDesign`). They are formatting of the rows; the model keeps only which response is sent.
- **The exception path of core's result callback.** An exception after `auth.charge` would send a 500 to a client who has been charged. It needs a malformed "ok" result from core, whose format is defined outside the repository. It is recorded as a hazard.
- **A core connection lost between validate's check and `core.process`.** That behaviour belongs to `kaleido-api/core`.
- **`report`**'s HTTP POST. The POST is fire-and-forget and its failures are only logged; the users-api that receives it is outside the repository. (`RemoteCredits.connect` is modelled in `ServerLifecycle`.)
- **An exception thrown by `core.connect()` inside `connect`'s callback.** The catch would take it for a failed request and call `core.connect()` again. Whether it can throw is defined by `kaleido-api/core`. It is recorded as a hazard.
- **The `kaleido-api` rate limiter** that `applyRateLimit` calls. Its verdict is an input to `RateLimitReply`, and the limit selection, a single expression, is abstracted with it.
- **Mocks and `dangerfile.ts`.** Test doubles and CI tooling, not part of the server. `MockCredits` does replace `RemoteCredits` when `SKIP_AUTH=1` turns authentication off. It holds no state, and its answer (success, with a zero charge) is one of the balance outcomes `ApiRoutes` already takes.
