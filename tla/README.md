# Verification of FirstPrinciples

FirstPrinciples is a monorepo of eight TypeScript packages for building web services. This
directory holds TLA+ models of them, the TLC configurations that check the models on small
instances, and TLAPS proofs of what holds for instances of any size.

Run from this directory:

    tlc -workers 2 -config refresh_safety.cfg MCRefreshTokens
    tlapm RefreshTokensProofs.tla

## The system

There is one process per service and one event loop per process. Concurrency comes from `await`:
every call gives up the loop there, and whatever else is ready runs in between. No package calls
another across a network; what they share is the stores behind them (a refresh-token store, a
cache backend, an attempt store), which other processes may share too.

| Component (package) | State it keeps | Operations | What is hard about it | What makes it correct |
|---|---|---|---|---|
| Refresh-token rotation (`auth-utils/src/refresh.ts`, `internal/refresh-state.ts`) | one record per token family in a store, written by compare-and-set | `issue`, `rotate`, `revoke`, `revokeFamily` | two calls with one token; retries after a lost write; a logout racing a rotation; a store that fails after writing | a token is exchanged once; a replay ends the session and raises one alert; an ended session stays ended |
| In-process refresh store (`auth-utils/src/stores.ts`) | a Map of family and revision | `read`, `create`, `compareAndSet`, `delete` | lazy eviction between a read and a write | compare-and-set is atomic, and never brings an evicted family back |
| Attempt limiter (`auth-utils/src/rate-limit.ts`, `stores.ts`) | a counter and a window per key | `check`, `recordFailure`, `recordSuccess` | check and count are two calls; window boundaries; a store that is down | the maximum is exceeded by overlap and by nothing else; a counter is what its window holds |
| Passwords (`auth-utils/src/password.ts`, `internal/phc.ts`) | none | hash, verify, decoy, rehash | a derivation costs time, and may fail | how long an answer takes does not tell whether an account exists |
| JWT (`auth-utils/src/jwt.ts`, `internal/jwt-*.ts`) | none | sign, verify | which key, which algorithm, two clocks | what was signed is believed for its time, and nothing else is |
| Cache client (`cache-kit/src/client.ts`) | the fetch in flight for each key | `get`, `set`, `invalidate`, `invalidateTag`, `wrap` | simultaneous misses; a backend that answers late or fails; an invalidation during a fetch | one fetch per key at a time, every caller settles, no dead fetch stays registered |
| Memory backend (`cache-kit/src/backends/memory.ts`) | entries in recency order, an index of tags | `get`, `set`, `delete`, `invalidateTag` | long mixes of re-tagging, expiry and eviction | index and entries agree; a bounded number of entries; nothing lost without a cause |
| Redis backend (`cache-kit/src/backends/redis.ts`) | value, tags of a key, keys of a tag, as three kinds of Redis key | the same four | pipelines are no transactions, and Redis expires keys by itself | the same contract |
| Service lifecycle (`bootstrap/src/service.ts`) | a state, the resources and what became of them, one shutdown promise | `addResource`, `addCheck`, `start`, `shutdown`, signals, `checkLiveness`, `checkReadiness` | a shutdown at any moment of a start; stops that throw or hang; one deadline for all; probes that straddle a shutdown | everything that was started is stopped, in order, or is reported; the deadline holds; readiness tells the truth |
| HTTP server resource, health handler (`bootstrap/src/http.ts`) | the server, its connections, what is promised to each | start, stop | requests that arrive, or end, while the server stops | a stopped server drains without waiting for the deadline |
| Environment (`bootstrap/src/env.ts`) | none | `loadEnv`, `requireEnv` | several defects at once | all that is wrong is reported, and nothing else |
| Decision engine (`access-control/src/engine.ts`, `internal/`) | compiled policies, an immutable role graph | `decide`, `can`, `filter` | three-valued conditions, role cycles, rules that disagree | deny overrides, and what is unknown never grants |
| Policy validation (`access-control/src/policy.ts`, `internal/validate.ts`) | none | `definePolicy`, `parsePolicy` | untrusted JSON with several defects | all that is wrong is reported where it is, and nothing else |
| Framework guards (`access-control/src/express.ts`, ..., `internal/guard-core.ts`) | none | authorize | three loaders awaited in turn | a guard grants what the engine grants |
| HTTP client (`http-client/src`) | a timer and listeners per attempt | `get`, `post`, ..., `endpoint` | timeout, caller abort and response racing; retries | one outcome per call, a bounded number of sends, no timer left behind |
| API kit (`api-kit/src`), errors (`core/src/errors.ts`) | none | validate a request, answer a value or an error, revive an error | chains of causes, cycles in them, foreign errors | an error is the same after the wire; what is not meant for the client is not shown |
| Results, branded types (`core/src`) | none | constructors, combinators | nothing | stateless |
| Logger (`logger/src`) | the fields of a child logger | logging | secrets deep in shared or cyclic values | no secret reaches a transport |
| Correlation ids (`logger/src/internal/correlation-*.ts`) | in browsers, one current identifier | `runWithCorrelationId` | overlapping asynchronous runs | the identifier is the innermost run's |

A service composes them in this way. `bootstrap` starts and stops the resources that hold the
stores; a request passes a guard of `access-control` or the token functions of `auth-utils`, reads
through `cache-kit` and calls other services through `http-client`; what it answers, logs and throws
is shaped by `api-kit`, `logger` and `core`. The interfaces between them are promises, which is why
each can be modelled with its neighbours reduced to what they may answer.

## Modules

| Module | What it models |
|---|---|
| `TokenFamily` | `refresh-state.ts`: a family record and the pure functions on it |
| `RefreshTokens` | `refresh.ts` over the store of `stores.ts`: calls suspended at their awaits |
| `SessionChain` | what rotation promises, as one atomic chain per session |
| `RefreshTokensProps`, `RefreshTokensInv`, `MCRefreshTokens` | properties and refinement mapping; inductive invariants; instances |
| `RefreshTokensProofs` | proofs: the chain and its refinement; what the records contain; who is served |
| `MemoryBackend` | `backends/memory.ts`: the Map, its order and the tag index |
| `CacheClient` | `client.ts` over that backend; extends `MemoryBackend` |
| `TaggedCache` | what a `CacheBackend` promises, with no word of capacity or expiry |
| `CacheClientProps`, `CacheClientProofs`, `MCCacheClient` | properties, inductive invariant and refinement mapping; proofs; instances |
| `RedisBackend` | `backends/redis.ts`: callers and pipelines over one Redis, command by command |
| `RedisBackendProps`, `RedisBackendProofs`, `MCRedisBackend` | properties and inductive invariant; proofs; instances |
| `Conditions` | access-control's `internal/truth.ts`, `resolve.ts` and `evaluate.ts`: three-valued conditions |
| `AccessDecision` | `engine.ts`, `internal/roles.ts`, `internal/guard-core.ts`: closures, scans, the guard |
| `AccessDecisionProps`, `AccessDecisionProofs`, `MCAccessDecision` | properties and inductive invariant; proofs; instance |
| `HttpClient` | `client.ts` with `internal/signal.ts` and `internal/retry.ts`: attempts, signals, retries |
| `HttpClientProps`, `HttpClientProofs` | properties and inductive invariant, which the configurations run as they are; proofs |
| `ServiceLifecycle` | `service.ts`: start, stopAll, shutdown, signals, probes |
| `ServiceLifecycleProps`, `ServiceLifecycleProofs`, `MCServiceLifecycle` | properties; proofs; instances |
| `HttpServer` | `bootstrap/src/http.ts`: the server resource, its connections and how it drains |
| `Errors` | `core/src/errors.ts` and what auth-utils and bootstrap build from it: chains of causes, JSON and back |
| `Passwords` | `password.ts`, `phc.ts`: hashing, verification, decoy, rehash |
| `Logins` | `rate-limit.ts` and the attempt store, around a password check; extends `Passwords` |
| `LoginsProps` | properties |
| `Jwt` | `jwt.ts`, `jwt-algorithms.ts`, `jwt-header.ts`, `jwt-errors.ts` |
| `EnvConfig` | `bootstrap/src/env.ts` |
| `Policies` | `conditions.ts` and the types of `policy.ts`: what a definition, a condition and a policy are |
| `PolicyValidation` | `policy.ts`, `validate.ts`: how a document is looked through |
| `Redaction` | `logger/src/internal/core.ts`, `redact.ts`, `levels.ts`, the transports |
| `ApiKit` | `api-kit/src`, and how `http-client` reads what it answers |
| `Exchanges` | tokens and answers that go from one service to another, and log entries, with `Jwt`, `ApiKit` and `Redaction`, and the properties of all three |
| `Calls` | what else a service does in one go, with `EnvConfig` and `PolicyValidation`: it reads its environment and its policy, and sends the policy over JSON; and the property; extends `Exchanges` |
| `Correlation` | `correlation-browser.ts`, with its property |
| `ServiceProofs` | proofs about `Logins`, `Correlation`, `Exchanges` and `Calls` |
| `SetInduction` | induction over the natural numbers, in the form the proofs use it |
| `MCService` | one service: lifecycle, server, logins, one-step calls and correlation, instantiated |

A definition marked `Faulty` is no part of a model. It is a plausible mistake in the definition
after it; `PROJECT.json` pairs each with a property, and with the mistake in place TLC finds that
property violated. They show that the properties are about the code.

### Refresh tokens

`RefreshTokens` has one action for each stretch of a call between two awaits. `pc` names the await
the call is suspended at: `read`, `decide` (the read has been answered), `cas`, and the same for
`revokeById`. A call keeps the family and the revision it read in `snap` and the family it wants to
write in `next`, so everything the code reads before an await and uses after it is stale in the
model exactly when it is in the code. The store's four methods each finish before their promise
is returned, so each is one atomic step (`Put`, `Evict`, `Matches`). A family that is past its
absolute deadline is deleted when it is read, as `live` does it. The model and the code differ in
these points:

- A token stands for its digest. `mintToken` draws 256 random bits, so a drawn token is new
  (`Unminted`); `newFamilyId` draws 128, so `create` never meets a family that exists and the refusal
  of `store.create` cannot be reached.
- `id` and `subject` never change and are left out; `revokedAt` is set with `revokedReason` and is
  merged with it. `revokeFamily` is modelled with its default reason.
- `StoreFails` is a store operation that throws without effect, `AnswerLost` one that takes effect
  and then throws. The in-process store does neither; a networked one does both.

`issued` is history: per family the tokens stored for it, in order, with the token each was
exchanged for. It is what the abstract `SessionChain` calls `chain`.

### Cache

`MemoryBackend` writes the Map as a function together with the relation `older` between its keys,
which is the Map's insertion order and which the code uses as recency. Each method runs without an
await and is one step. `CacheClient` adds `wrap`: for every call the await it is suspended at
(`pc`), the fetch it joined (`flight`) and how far the fetch it started has come (`stage`). `wrap`
is written for any backend, so a read or a write-back takes effect at one moment between call and
answer, and may fail. A call is also the value its fetch would produce, so one sees whose value is
returned. `SyncThrows` says whether a fetcher may throw before it returns a promise: its type
forbids nothing of the kind, and the one property this breaks is checked on its own.

`latest` and `since` are history: the last write of each key that has not been invalidated, and the
other keys used since its last use.

### Redis

A call of `RedisBackend` asks Redis what its keys carry (`SMEMBERS`), and then sends a pipeline. Redis
executes one command at a time, so each command is a step (`Execute`), and a pipeline is no
transaction: between two of its commands those of other callers, in this process or another, may
run. Redis expires keys by itself (`Tick`). A read that fails, a connection that is lost with the
rest of a pipeline, and a command that is refused while the others run are the faults. The order in
which `SMEMBERS` lists a set is fixed, since nothing depends on it. `get` is one `GET` and changes
nothing.

`Overlapping` says which operations run while others do. It is there because the contract does not hold
for all of them: an invalidation that overlaps a `set` can delete the tag's set after the other caller
has added to it, and `NothingStale` is violated as soon as `Overlapping` has `invalidateTag`. No
document of the package promises otherwise, so the runs keep invalidations apart, and let `set` overlap
with `set`. `intact`, `undoes` and `undone` are history: whether a fault has torn a pipeline on the
call's key, which stored values an operation has to put an end to, and which it has.

### Decision engine

`AccessDecision` compiles one policy and answers one request; nothing a request does changes what
another sees. The loops of the code take a step per turn, which changes nothing as they run without
an await, and which makes what a loop has established so far a predicate one can prove things about.
The stack of `buildRoleClosures` is a set: what is on it twice is visited once. The index of rules
by subject and effect is left out, a scan passes over the rules of other buckets. The loaders of the
guard return any of a set of roots or none, or throw.

In `Conditions` an attribute stands for a whole path beneath its root. It is a value, `None` (what
`normalize` folds into "absent"), or `Throws`, and a root is an object or `None` (not supplied).
Values have a type, a place in the order of their type and members, which is all the operators look
at. A condition is a record, and `EvaluateCondition` a function on the conditions that a policy has
and the depth that is left, as `MAX_CONDITION_DEPTH` bounds it.

### HTTP client

`HttpClient` has an action for each promise an attempt waits for: the `onRequest` hook, `fetch`, the
`onResponse` hook, the body, the delay before the next attempt. `timer` is what is left of the
timeout or the delay, `listening` who has a listener on the caller's signal, which is one for all
calls and may be aborted at any moment, once. `aborted` is the signal of the attempt. `Urgent` is
what happens before time goes on: a timer that is due, and the rejection an aborted signal causes.
The network may answer, fail, or never answer. `HooksThrow` says whether hooks may throw. URLs,
headers, what is in bodies and the texts of errors are left out; a response is of a kind
(`Statuses`).

An `onResponse` hook may put another response in place, as the package's README does after a 401. Its
body is not bound to the signal of the attempt, so neither the timeout nor the caller ends it.
`replaced` has the calls that read such a body, and `Bound` is what the signal does end: `fetch`, and the
body of the response that `fetch` returned. A request that a hook issues itself is the hook's, and is
not counted in `sent`. An `onRequest` hook is assumed to keep the signal that is in its request.

### Lifecycle

A resource is the number of its registration. `start` and `stop` of a resource are the environment:
a start resolves or throws, a stop resolves, throws or never settles. A stretch of code without an
await is one step, together with the microtasks that run before the next event. Timers count down by
`Tick`; time does not pass while a timer is due, which is to say that the event loop is responsive.
`elapsed` stops counting at `LongEnough`, one more than any comparison needs. The exit hook is the
default, `process.exit`, after which nothing happens. `Reentrant` allows a resource's `start` to call
`shutdown` synchronously. A check's own time limit is folded into its outcome, `runChecks` always
answers; `addCheck` and the texts of reports are left out.

### HTTP server

`HttpServer` has the server and its connections. Node is external: a connection carries one request
at a time and is kept alive after the response unless that said `Connection: close`, `close` calls
back when every connection is closed, and whether closing idle connections takes one that has never
sent a request is left open, since versions of Node differ. `willClose` is what the response to the
request in hand has said, or will say; `stop` can still change it for responses whose headers have
not been sent. `sweepDue` is the `setImmediate` after a response's `close`. Clients connect, send
and leave as they like.

### Logins

`Logins` puts the limiter where the package's README and example put it: `check`; `verifyPassword`,
or `verifyPasswordDecoy` if there is no such account; `recordFailure`, or `recordSuccess` and a
rehash at the target cost. Each await is a step, so logins of one key overlap at every point. The
store may throw, before or after it has changed the counter, and a derivation may fail (memory).
`recorded` is history: when the failures since the last reset were counted. `peak` is the most
logins that were under way at once. A PHC string is what can be read off it (`Passwords`), and the
work of a call is the parameters it derives with.

### One-step calls

What a service does without an await is a function of its input, and `Exchanges` and `Calls` have an
action for each: it picks an input and keeps it, with the answer, in `call`. The functions are
translated in full control: every check and the order of checks, what is thrown, what wraps it.
`Calls` has two of the actions, for what a service is configured with, and extends `Exchanges`, which has
those for what comes in and goes out.

- `EnvConfig`: a raw value is a text and what parsers can read in it; the parsers, defaults, optional
  variables and the collecting of issues are the code's.
- `PolicyValidation`: any JSON value; an issue is the path it is reported at. A condition is checked by
  a function on the levels that are left, as `MAX_CONDITION_DEPTH` bounds them. What it is judged by is
  in `Policies`, which is translated from the types and says nothing of how a document is looked
  through. `Misplaced` has the exact place of every name, entry, field and rule that does not fit its
  type, of fields too many and of ids that are used again; `BrokenConditions` the place, within a `when`,
  of each node that is no condition by itself. What the code reports must have all of `Misplaced` in it, and for each
  broken condition something at it or at one of its fields (`At`), and nothing else. So two kinds of defect may go
  unreported, as they do in the code: any but the first of one condition, which is abandoned there, and an id that is
  used again, if one of the two rules is wrong otherwise. `MCService` gives with each edit of
  a document the place at which it is to be reported, and an assumption there, which TLC evaluates,
  has the readers report it.
- `OnTheWire`, in `Calls`: a policy that was returned is sent as `JSON.parse(JSON.stringify(policy))`, and
  given to `parsePolicy` (`again`). JSON copies lists and records and makes `null` of `NaN`; `Depth` is as
  deep as a condition of a returned policy can be.
- `Jwt`: options are judged when a signer or verifier is made; a token is what its three segments
  decode to; `jose` is external, and a signature verifies exactly with the material and the algorithm it
  was made with. The clock has `Ticks` in a second, as `iat` and `exp` are whole seconds.
- `Redaction`: arrays and objects have identities in a heap, so that one may be in several places, or
  inside of itself; a text carries the secret shapes that can be found in it. The copy is computed for
  every value of the heap, level by level, with the ancestors it is reached by.
- `ApiKit` and `Errors`: a thrown value is the chain of its causes, and whether that goes round in a
  circle. A failure is normalised, serialised, sent, and read by the client at the other end; a
  request is validated by each of the three adapters.

### Correlation

A run stands for its identifier. A run's function is on the call stack until it returns a value or a
promise, and a promise settles in a callback of its own. `nest` is history: the runs that have not
ended, in the order they began.

### The composition

`MCService` is one service with five parts: lifecycle, server, logins, one-step calls and correlation.
In the code these share no state, so the interleavings of two parts show nothing that either does
not show alone: `part` says which of the five moves, and the others wait where they begin.

## Runs

| Run | Instance | States | What it shows |
|---|---|---|---|
| `refresh_safety` | five calls on one family, five tokens, ttl 1 and absolute ttl 2 with the clock going to 2, a chain of one, two attempts | 356,093 | `NoFork`, `DetectionWindow`, `AlertsAreReal`, `GuessEndsNoSession`; the service implements `SessionChain` |
| `refresh_faults` | three calls, two store faults, ttl 2 and absolute ttl 3 with the clock going to 3, with fairness | 60,720 | every call returns; contention alone is absorbed; a sliding token stays under the ceiling (`SessionCeiling`) |
| `cache_backend` | three keys, two tags, room for two entries, six direct operations and one `wrap` | 58,890 | `IndexExact`, `LossHasCause`; the backend implements `TaggedCache` |
| `cache_wrap` | three `wrap` calls on two keys, room for one entry, one backend fault, with fairness | 89,682 | `SingleFlight`, `NoStuckFlight`, `WrapSettles` |
| `cache_doc_stuck` | two `wrap` calls, fetchers that throw at once | violation | the dead fetch stays registered |
| `redis` | three calls, two keys, two tags, `set` overlapping `set`, one tick, one fault | 1,302,545 | `NothingStale`, `IndexComplete`: what is invalidated is gone, and every tagged value can be found by its tags |
| `redis_doc_retag` | two calls, two keys, two tags, no overlap and no fault | violation | a key that expired is still reached by a tag it no longer has |
| `access` | the graphs over three roles; every order of one or two of six rules, and of three of them; principals, resources and environments of all kinds | 422,920 | closures are least, the order of rules decides nothing, ignorance never grants |
| `http` | two calls, one with the caller's signal, of one or two attempts, timeout 2, backoff 1, hooks that throw or put another response in place, with fairness | 171,476 | timeout and abort bind what `fetch` returned, retries are the ones meant, nothing is left behind; every call settles, unless it reads a response of `onResponse`'s own that never ends |
| `http_doc_rejects` | one call of two attempts, hooks that do not throw | violation | a body that fails rejects the promise |
| `service` | up to three resources, one with a stop order of its own, deadline 3, drain 1; three connections; three logins with limits of one and two, window 2, clock to 3, one fault; the enumerated inputs of the calls; four runs; with fairness for lifecycle and server | 517,474 | stop order, report, deadline, probes, and every shutdown ends; a stopped server drains; the limiter is overrun by overlap only, its counter is the window's and two windows are the most; equal work for known and unknown accounts; tokens, logs, defects and errors; the innermost run's identifier |
| `lifecycle_doc_reentrant` | the lifecycle alone, `Reentrant` | violation | a shutdown from inside the first start answers `ok` and stops nothing |

Why the bounds are enough. Five calls allow issue, two rotations (so that the chain of one is
pruned), a replay of a pruned or a retained token and a logout, all overlapping. Two attempts are
the fewest for which a retry exists. Two entries for three keys make eviction, and the choice of
whom to evict, happen; six operations suffice to store, re-tag, evict, store again and invalidate.
Three `wrap` calls are a fetch, one who joins it and one who comes too late. Three Redis calls are
two writers whose pipelines interleave and one invalidation that has to find what they left; one
tick is enough for an expiry between any two commands. Two attempts have one that is
retried and one that is the last; a timeout of 2 leaves a moment before it at which a response or an abort may come. Three roles
have cycles, chains and two ways to one role; two rules are a pair of any effects in either order,
and three are two denies and an allow. Three resources with one out of order make stop order differ
from its reverse; a deadline of 3 leaves time to drain, to stop one resource and to run out while
the next is stopping. Three connections are one that is idle, one that is busy and one that has
never sent anything, when `stop` is called. Three logins exceed a limit of two, overlap in pairs and
threes, and have one that comes after the others are counted; a window of 2 on a clock that goes to 3
has a boundary with failures on both sides. Four runs cross, and nest to any depth that matters.

The inputs of the one-step calls are chosen so that every branch of the functions is taken: raw
values that are valid for one parser and not for the next, two variables set at a time; a good policy
with one or two edits, of every kind of defect and at every place, and with edits that are harmless;
signers and verifiers of both families, refused and accepted, with seven kinds of tampering, at
moments before, in and after a token's time on both clocks; values of depth three with secrets by
shape and by key, in lists, maps and objects, shared, inside of themselves and of the fields, logged
at a level below and above the threshold; an error and a regular expression that say a secret; every class of error with no
cause, a foreign one, a deep and a circular one; stored hashes of every variant, of an id like `argon2x`,
truncated ones and texts that are no hash. Any two edits of a policy that are not one inside of the other are made together,
also within one condition, and also an id that is used again and a defect of the rule that has it, where the code reports
one defect for two.

Reductions. Calls (or keys) are interchangeable where a run says `SYMMETRY` (in `redis` the calls
only). Such a run checks no liveness, except `service`, where the callers of logins are
interchangeable and no liveness property and no fairness is about a login. `DrawsSmallest` makes the
smallest unused token the one drawn: tokens are random and only ever compared, so any other choice
gives the same behaviour with other names. In `service` the rarer stored hashes are tried with the
limit of one only.

Type invariants are proved (below) rather than run.

Fairness. The event loop resumes what can go on, so a call that is not waiting for the outside
proceeds. What is assumed of the outside is named in each module: a store or a backend settles its
promise one way or the other; a fetcher settles; a loader of a guard settles; a resource's start
settles; a request handler of the server answers; timers fire, hooks settle and `fetch` rejects when
its signal is aborted, but nothing is assumed of the network. Nothing is assumed of a stop, of
signals, of callers, of clients or of probes. The assumption on starts matters: with a start that
hangs, a shutdown called during it never ends, and the code has no deadline for that case.

### Findings

Four runs state a sentence of the documentation or of a test and are violated; `PROJECT.json` quotes
the sentences. In short: a fetcher that throws synchronously leaves a key in flight for ever
(`cache_doc_stuck`); a key that expired in Redis and was set again with other tags is deleted by an
invalidation of its old ones (`redis_doc_retag`); a timeout or a broken connection while a body is
read rejects the promise that should have been a result (`http_doc_rejects`); and a shutdown called by
the first resource's start reports a clean stop of a service that goes on to run
(`lifecycle_doc_reentrant`).

While the code was translated, more disagreements of smaller weight came up. The models follow the
code, and no run is spent on them:

- `auth-utils/README.md` bounds failures around a window's boundary by 2 × `maxAttempts`; logins that
  overlap exceed that, by as much as `TwiceAtMost` says.
- `rate-limit.ts:222-227` calls a store that fails while a counter is cleared survivable, and a refusal
  there a refused login that had succeeded; under `deny` the code throws, and refuses it.
- `verifyPassword` answers a derivation that could not run as a wrong password
  (`password.ts:245-255`); `errors.ts:157-160` has it throw. A password that is empty or too long is an
  `AuthConfigurationError`, which `errors.ts:129-132` says is only raised at construction time.
- `too_old` is also the reason given for a token from the future or with no `iat`
  (`jwt-errors.ts:70-71`); `auth-utils/src/errors.ts:37` has it for an `iat` that is too old.
- The name and message of a logged error are not searched for secrets (`redact.ts:103`), nor is what a regular
  expression says (`redact.ts:102`), although `redact.ts:28-33` speaks of every string leaf, and the
  README of `logger` of an output that never contains a secret, however deeply nested.
  `LogsHoldNoSecret` excepts them, and bigints (`redact.ts:93`), where a way to them is open.
- A stored hash whose id starts with `argon2` and is no variant of it, or which `argon2` cannot use, is answered without
  a derivation (`password.ts:240-255`); `password.ts:196-197` has an unusable hash cost a full one.
- Neither the timeout nor the caller's abort ends the body of a response that `onResponse` put in place
  (`client.ts:98-108`), as the README of `http-client` has it do after a 401. `types.ts:178-180` says that
  whichever of the two fires first aborts the request.
- A body that is no JSON is a 400 behind the Hono adapter and a 500 behind Express and Fastify.
  `http-client` does not parse `application/problem+json`.
- A condition with two defects has one reported, and an id that is used again is not reported if one of the
  rules that have it is wrong otherwise. `validate.ts:18-20` says that every issue is collected, and
  `policy.ts:225-227` that the error carries every problem.
- `in: [NaN]` is accepted, where `validate.ts:284-289` refuses `NaN` by itself. JSON makes `null` of it, so a
  policy that `definePolicy` returned is refused by `parsePolicy` once it has been sent, although
  `policy.ts:84-85` says to send it so and `conditions.ts:7-8` that all of a condition survives
  `JSON.stringify`. It is the exception `IsPortable` in
  `DefectsAreReported`.
- In browsers, runs that cross leave a stale identifier behind for good; `CurrentIsInnermost` ends at the
  crossing.
- A `rotate` whose attempts are exhausted answers `reused` if one of them saw a replay, although it was
  another call's write that revoked the family, so two calls may report one replay.
- Past the maximum, what the limiter counts exceeds it by overlap only (`OverrunIsOverlap`). A failure that the store
  does not count, because the increment was lost, lets in another login, one after another.

## Proofs

### Refresh tokens

`RefreshTokensProofs` proves, for any sets of calls, families and tokens, any lifetimes, any chain
length and any number of attempts and faults:

- `Inductive`: `Spec => []IInv`;
- `TypeCorrect`: `Spec => []TypeOK`;
- `SessionNeverForks`: `Spec => []NoFork`;
- `RevocationHolds`: `Spec => RevocationIsFinal`;
- `ServiceImplementsSession`: `Spec => ImplementsSession`.

They rest on the named assumptions of `TokenFamily` and `RefreshTokens` only: lifetimes and bounds are
positive, an absolute ttl is at least a ttl, `None` and `Forged` are no tokens. TLC evaluates them on
every instance.

None of the properties is inductive, because none says what a suspended call holds, and a call's next
write is made of that. `IInv` (in `RefreshTokensInv`) adds it in layers. `CallShape` ties a call's pc to
what it was asked and what it holds. `OneIssue` says a family id is drawn once. `SnapshotTruth` is the
heart: if the revision has not moved since a call read the family, the family is the one it read. It
makes the compare-and-set mean what it should, because revisions only grow while a family exists and
an evicted family is never created again. `WriteFollowsRead` says what a call may be about to write,
given what it read. With these, a write that lands is one of three abstract steps (`WriteCases`): it
opens a session, exchanges its live token, or revokes it. `ChainLinked` and `TokensDistinct` then
carry `NoFork`: the history is one line whose links are distinct, and a rotation extends it at the end.
The refinement theorem reads the same three cases as steps of `SessionChain`; eviction is `Expire`.

The properties of what a record contains have a second invariant on top of the first
(`RecordInv`):

- `CeilingHolds`: `Spec => []SessionCeiling`;
- `GuessesAreHarmless`: `Spec => GuessEndsNoSession`, an action property: the very call whose write revokes a
  family may do so (`MayEnd`), after whatever rotations;
- `NoFalseAlarm`: `Spec => []AlertsAreReal`;
- `WindowHolds`: `Spec => []DetectionWindow`.

`Computed` says that what a call writes is what the pure functions make of the record it read, so that
one can follow `usedHashes` from write to write. `Remembers` then gives that list exactly: it is a
stretch of the history, in order, that ends before the token in use and is as long as the chain length
allows (one longer when revoked, as revoking appends without pruning). `DetectionWindow` is arithmetic
from there. `KnowsUsed` is its shadow in the calls: however stale a snapshot is, a used hash in it was
exchanged, and since the history only grows it stays so (`Superseded`). Hence a call that suspects a
replay has seen one (`Suspects`), and whoever is about to revoke was asked to (`Mandated`).

`EveryCallIsServed` proves `ContentionIsAbsorbed` where the calls are finitely many and no more than
`MaxRetries + 1`, as in `refresh_faults`, where three calls have two attempts each. It cannot hold of
any number: a call that loses each of its attempts to another gives up, which is what a bound on
attempts is for. The argument (`RetryInv`) is a count. While the store does not fail, a compare-and-set
that fails was overtaken by one that succeeded, and the call that made it is done. So a call has lost
at most as many attempts as there are other calls that are done and are no `issue`, one more if what
it holds is already stale; and one of the calls that are done issued the session.

### Cache

`CacheClientProofs` proves, for any number of keys, tags and calls, any capacity and any lifetimes:
`TypeCorrect`, `IndexIsExact` (`IndexExact`), `CapacityHolds` (`MemoryBounded`), `FetchesOnceAtATime`
(`SingleFlight`), `NoDeadFlight` (`NoStuckFlight`, if fetchers do not throw synchronously),
`BackendKeepsContract` (the refinement of `TaggedCache`) and `NothingLostForNothing` (`LossHasCause`).
Three layers carry them. `older` well-orders the keys of the Map, so that a full Map always has an
oldest entry and eviction makes room (`MapOK`). What is held is the latest write of its key
(`HeldIsLatest`), which is the refinement mapping. And a fetch is registered for a key exactly while its
call is between starting it and releasing it (`Registered`), which makes a second one impossible.
`NothingLostForNothing` adds `UsedSince`: whatever is more recent than a key has been used since the key
was. The oldest of more than `MaxEntries` keys then has at least `MaxEntries` others used since.

### Redis

`RedisBackendProofs` proves, for any number of callers, keys, tags, ticks and faults, and however the
commands of their pipelines interleave: `TypeCorrect`, `NothingStaleServed` (`NothingStale`) and
`IndexStaysComplete` (`IndexComplete`). Keys and tags are finite (`KeysAndTagsAreFinite`), and all three
are proved of callers of which only `set` overlaps with others, `Overlapping \subseteq {"set"}`, as in the
run. That hypothesis is the contract's own limit and no convenience: an `invalidateTag` or a `delete` that
overlaps a `set` can take away what the other has just added to the index.

A pipeline is a sequence made by folds over sets of keys and tags, so the invariant never says what it
is; it says which commands are still in it (`Pending`) and which stand before which (`Ordered`), and a
command that is executed is the head of it. `Piped` has what matters of the order: a `set` leaves its
key's old tags before it stores, and adds the new ones after. `Listed` follows a value from there: it is
listed under each of its tags, or its writer will still list it, or someone is about to replace or
remove it. `MembersRead` says that nobody adds to a tag between an invalidation's `SMEMBERS` and its
last command, and needs the hypothesis (`Apart`); `Removing` that it removes the value of a key before
anything else of it; and `Doomed` that a value which a call has to put an end to is found by it: its tag is
one of the value's while the members are being read, its key is among the members then, and a command
that ends it is in the pipeline after that. What is in `undone` is thereby gone.

### Decision engine, HTTP client

`AccessDecisionProofs` proves, for any roles, graphs, rules, conditions and loaders: `TypeCorrect`,
`ClosuresAreRight` (`ClosuresAreLeast`), `RulesAreASet` (`DecisionIsOfTheSet`) and `NothingUnknownGrants`
(`IgnoranceNeverGrants`). `Worklist` is the
loop invariant of the closure: what is reached or pending is within every hereditary set, and what a
reached role inherits is reached or pending. `DeniesSeen` and `AllowsSeen` are those of the scans:
which rules behind the position cannot matter any more. The lemma `ScanSeesWhatConcerns` joins the
two: once closures are least, the rules a scan looks at are those whose roles the principal's stand
for. For the first three, what a condition evaluates to is left open, so they hold for any language
of conditions.

`NothingUnknownGrants` goes into the conditions. Its core is that to know more never changes a definite
verdict: if a condition is true, or false, without the resource or the environment, it is so with any of
them. That is shown for leaves operator by operator, and for `all`, `any` and `not` from the parts. The
depth a condition may have left is a number, so the induction is one over numbers, by `SetInduction`:
the set of depths at which it holds for every condition contains 0 and with each its successor.
`FormsHaveTheirParts` names what is assumed of conditions: the parts of one are among them.

`HttpClientProofs` proves, for any calls, timeout, backoff and retry limits: `TypeCorrect`,
`NothingIsLeft` (`NothingLeftBehind`), `TimeoutHolds` (`TimeoutBinds`), `AbortHolds`
(`AbortSilences`) and `RetriesHold` (`RetriesAreMeant`). `TimerCounts` says that until an attempt is
aborted its timer is what is left of `timeoutMs`; `CallerHeard` that an attempt of a call with a
signal is still listening or knows of the abort; `Counted` that no more was sent than was tried.
`TimeoutBinds` is about what the signal reaches (`Bound`), not about a response of `onResponse`'s own.

### Lifecycle

`ServiceLifecycleProofs` proves, for any number of resources, any stop orders, deadline and drain:
`TypeCorrect`, `OkIsDown` (`OkMeansDown`), `ReportHolds` (`ReportIsExact`), `DeadlineHolds`
(`DeadlineKept`), `OrderHolds` (`StopsInOrder`) and `ReadinessHolds` (`ReadyOnlyWhileRunning`). Four of
them, all but types and readiness, assume `~Reentrant`: a start that calls `shutdown` before it returns
falsifies them, as `lifecycle_doc_reentrant` shows. `WhereItStands` says what has become of each
resource by where the service is: on the way up all before the one that starts are up and all after it
untouched (`GoingUp`); a service that runs has all of them up (`AllUp`); while `stopAll` unwinds, its
queue is what is still up and the first of it is being stopped (`Unwinding`, `Accounted`); and when it
is over, the report and the resources agree (`Reported`). The deadline rests on one sum: what has gone
by and what is left of drain or budget never exceed it (`Within`).

### Logins and correlation

`ServiceProofs` proves four properties of the limiter, for any number of logins, any limits, windows
and faults, and any rows and passwords:

- `NoOtherOverrun`: `LoginsSpec => []OverrunIsOverlap`. Whatever sum of counter and logins under way is
  reached, the ones let in last were let in on a count below the maximum, and no more of them were
  under way than `peak`. It bounds what is counted: an increment that the store loses is not.
- `CountsFixedWindows`: `LoginsSpec => []CounterIsTheWindow`. `Opener` says of each failure which one opened
  its window. It is given by a property (`Opens`) and shown to exist, and to be one, by induction over
  the length; a failure that is appended does not change what went before (`OpenerOfLonger`). The
  invariant `WindowInv` then ties the live counter to the last window, for as long as it is live.
- `NoMoreThanTwice`: `LoginsSpec => []TwiceAtMost`. Windows begin at least a window apart, so what falls
  within one window's length is in two of them, and each has been worth at most `maxAttempts - 1 + peak`
  (`Worth`).
- `TakesTheSameWork`: `LoginsSpec => []SameWork`. `WorkInv` says that a login that has answered did the work
  of some answer to its row and its password, without a derivation only if a fault is on record. The rest
  is about `verifyPassword` and the decoy. It speaks of runs without a fault, and not of the rows that the code does
  not equalise: an id that starts with `argon2` and is no variant, a digest that `argon2` cannot use, one at
  other costs.

`InnermostIsCurrent` proves `CurrentIsInnermost` for any runs: each run's `previous` is the one before it
in `nest`, so ending the last one puts the right identifier back.

### Tokens, answers and the log

These are about what a single call answers, so their invariant is the property itself; all of the
proof is in the functions. They range over any sets of inputs that satisfy the assumptions of
`Exchanges`.

`NothingElseIsBelieved` proves `TokensAreBelieved`. A genuine token is followed through header, signature
and claims (`GenuineIsJudged`), in the order in which the code and `jose` look at them; every other one
is refused (`ForgeryIsRefused`), and never as expired. `KeysAssumption` is what the proof needs of keys
that share material: they serve the same algorithms, and a public key that is given as a secret is
recognised as PEM. A verifier of HMAC tokens that is given the bytes of a public key in another form is
beyond what `jwt-algorithms.ts` can see, and beyond this theorem. `OptionsAssumption` and
`NoneIsNothingElse` are about the encoding.

`AnswersAreTrue` proves `ErrorsSurviveTheWire`, for chains of any length and any `MaxCauseDepth`. What is
sent and what is revived are given link by link and not by recursion, so a link at a time is enough
(`LinkIsRevived`), with the ends of the chain by arithmetic (`ChainIsRevived`). `FailuresAssumption` has the
shape of a chain, and one restriction: the status of an `AppError` is none from 200 to 299. The
constructor does not check it, and an error that says 204 is answered as a success.

`NoSecretIsLogged` proves `LogsHoldNoSecret`, for any heap and any `maxDepth`. `LogAssumption` says what a
secret can be known by: there is a set of containers, the fields' among them, in which every part is
under a key that is redacted, or is in the set, or is a leaf, and if it is a text, one that is no secret or has the
shape of one. What those containers and leaves become, at every level and by every way (`Shown`), then holds
whatever is in one of them, and no secret (`ShownIsHarmless`); so has the entry with its correlation
identifier (`EntryIsHarmless`), and `TextsIn` finds nothing else in it (`NoSecretIsSeen`). What an error, a bigint
or a regular expression says may be anything, a secret included. The code hands it on unread, and the property
lets a secret through that is said by one of those (`UnreadOf`) with a way to it that is open, and no other.

### Policies and the environment

`DefectsAreFound` proves `DefectsAreReported`, for any set of documents, any environment, any depth of
conditions and any way of splitting a path. The property compares two things that were written apart:
the code of `validate.ts`, as a function from documents to issues, and the grammar of `Policies`. The
proof goes up through a document and relates the two at each height.

- Conditions. Both are recursive functions on the levels that are left, and both are first shown to
  exist (`CheckExists`, `GrammarExists`, from `LevelsExist`). At one level, what the code reports of a
  node is nothing exactly if the node is in the grammar, given the same of its parts (`LeafIsChecked`,
  `NodeIsChecked`). By `SetInduction` that holds at every level (`LevelsAgree`). In the same way, what it
  reports is at the nodes that are broken by themselves, and at each of them (`NodeIsLocated`, `LevelsAreLocated`,
  `ConditionIsLocated`).
- Names, roles and rules. `NamesAreRead`, `RolesAreRead`, `SelectorIsRead` and `RuleRolesAreRead` say what
  each reader keeps and what it reports, `FieldIsChecked` and `RuleIsJudged` put them together for one
  rule, and `RulesAreChecked` for all of them, with the ids that repeat an earlier one. What is declared
  does not depend on what is wrong with the declaration, so a rule is judged by the same names in
  both.
- The document. `DocumentIsSearched` says that there are issues exactly where something does not fit. Field by field,
  the issues of names, roles and rules are at the very places of `Misplaced` (`RolesAreExact`, `PolicyFieldIsExact`,
  `RuleFieldIsExact`, `RuleIsExact`), and with `ConditionsAreLocated` that makes
  `DocumentIsReported`, the part of the property about defects. `ReturnedIsPolicy` is the part about
  what is returned: every name in a rule is a declared one, so is every role that another inherits, and
  ids are distinct.
- The wire. A list of names is sent in some order (`SequenceListsSet`) and read as the same set
  (`NamesAreReadAgain`). A condition without `NaN` is its own copy, by induction over `Depth`
  (`CopyIsSame`). So each rule is read as it was, and the whole policy with them (`PolicyIsReadAgain`).
- The environment. `EnvironmentIsRead` follows a variable through its parser, its default and its being
  optional.

It needs that the documents have all their parts among the values considered and are encoded as
`Policies` says (`JsonAssumption`, `DocumentsAssumption`), that conditions may have a level at least, and
that a variable which is in the environment has a value (`SourcesAssumption`).

Every theorem rests on the assumptions named in the modules, and on no others, but for the
hypotheses that are named above: `~SyncThrows` for `NoDeadFlight`, `~Reentrant` in the lifecycle, no more
calls than attempts and one for `EveryCallIsServed`, and only `set` overlapping in Redis. `TypeCorrect`, `CapacityHolds` and `RevocationHolds` are proved and need no run.

### Only model-checked

Liveness: `EveryCallReturns`, `WrapSettles`, `CallSettles`, `ShutdownEnds`, `ServerDrains`. Liveness under
fairness, and `ENABLED`, are out of the prover's reach. Every other property of a passing run is stated
by a theorem.

Induction over data, for which the library's theorems take an operator that no prover here can
instantiate, is done over sets of numbers: the lengths of sequences, the depths of conditions, of copies and of
logged values. Only `MCService` declares a `RECURSIVE` operator, for the edits of its documents.

## What is not modelled

- Text: the wording of messages and reports, the building of URLs and query strings, content types,
  PHC and JWT encodings. What they decode to is modelled, the characters are not.
- Cryptography and Node: `argon2`, `jose`, `node:http` and `AsyncLocalStorage` are external. A signature is
  that of a perfect scheme.
- The combinators of `Result` and the branded types of `core`: one-line functions without state.
- The framework adapters of `access-control` and its React bindings only call the guard or the engine;
  the health handler only maps a probe's answer to a status code; `addCheck` only adds to a list.
- `delete` of the refresh-token store, which the service never calls.
- Which of a principal's claimed roles are unknown, which is reported and decides nothing.
- Examples, lint and build configuration.

## Plan

What is left, in this order:

1. The refresh store's `delete`, as an administrator's tool would call it among the service's calls.
2. The guards of the frameworks, composed with the engine and with `ApiKit`'s answers to a refusal.
