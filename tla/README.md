# gvray-admin in TLA+

TLA+ modules of the parts of gvray-admin whose correctness depends on the order
in which things happen, the TLC runs that check them on small instances, and
proofs that TLAPS checks for every instance. Paths are relative to `src/src/`
unless they say otherwise.

gvray-admin is an administration back end: NestJS, MySQL through Prisma, Redis
as a cache. Every HTTP request runs as a chain of awaited calls; between any two
of them other requests run, Redis can go away or come back, and the process can
die. No handler of the modelled services opens a database transaction and
nothing calls the lock service, so the only atomic step is one SQL statement or
one Redis command.

## 1. Inventory

| Component | State | Operations | Interacts with | What makes it correct |
|---|---|---|---|---|
| Refresh-token sessions (`modules/auth/token.service.ts`, `auth.service.ts`) | `refresh_tokens` rows; Redis hash, index, jti map, session set | login, refresh, logout, revokeSession, logoutAllDevices, getSessions, heartbeat | users (status), Redis client, online users | a dead token is not accepted; Redis never knows more than MySQL; a usable token can be refreshed with or without Redis |
| Login attempts (`auth.service.ts`, `redis/rate-limiter.service.ts`) | a counter per account with a TTL; `login_logs` | check, validateUser, reset, recordLoginLog | Redis client, sessions | at most maxAttempts per window; a locked account reopens; one truthful log row per attempt |
| Lock (`redis/lock.service.ts`) | one key with a token and a TTL | acquire, release, withLock | Redis client; no caller | exclusion up to the TTL; nobody frees another's lock; no call hangs |
| Users, roles, permission cache (`modules/system/users`, `roles`, `redis/permission-cache.service.ts`, `core/guards/permissions.guard.ts`) | `users`, `roles`, `user_roles`, `role_permissions`; `perm:user:*` in Redis | assign and remove roles, permissions and users; delete; guard; warm; kick | sessions (kick, warm), Redis client | the cache agrees with MySQL; two super admins remain; the super role is fixed; no dangling rows |
| Redis client (`redis/redis.service.ts`) | the flag `_isAvailable` | safeRun, connection events | everything above | callers degrade when it is down |
| Declarative cache (`redis/cacheable.explorer.ts`, `cache.service.ts`) | values with a TTL under templated keys | `@Cacheable`, `@CacheEvict` by key and pattern | dictionaries, configs, flags | a cached value is the table's value, or was within its TTL |
| Departments, data scope (`modules/system/departments`, `roles/services/data-scope.service.ts`) | a tree by `parentId`; `role_departments` | create, update, remove, removeMany, tree, child ids | users, roles | the tree stays a forest, no parent is missing |
| Menus (`modules/system/menu`) | a typed tree | create, update, remove, tree | permissions | types of parents; no cycle |
| Dictionaries, configs, feature flags | tables behind the declarative cache | CRUD, cached reads | declarative cache, feature-flag guard | the cache follows the table |
| Permission points (`modules/system/permissions`, `prisma/seeds/permissions.ts` of the repository) | `permissions`, `role_permissions` | scan at start-up and on request, seed, role edits | roles, guards | the codes routes ask for are live and no others; sensitive ones stay with those they were given to |
| Controllers, guards and interceptors (`modules/*/*.controller.ts`, `core/`) | the request | feature flag, JWT, guest write, roles, permissions; operation log; heartbeat (disabled) | access control, configs | the order of refusals |
| Notices, profile, positions, logs, monitoring, dashboard | single tables, metrics | CRUD, read marks | – | mostly one statement each |

The hard behaviours: requests that interleave at every `await`; two stores (MySQL
and Redis) written one after the other with no transaction; Redis unavailable for
a while and back with its old data; a Redis command that fails although the flag
was up; keys that expire or are evicted early; a process that dies between two
commands. `PROJECT.json` lists each as a hazard at its line.

## 2. Modules

| Module | Models | Extends or refines |
|---|---|---|
| `Sessions` | refresh tokens in MySQL and Redis, and every request that touches them | – |
| `SessionsHistory` | `Sessions` with a history variable, for requests one after the other | extends `Sessions`, refines `RefreshTokens` |
| `RefreshTokens` | what refresh tokens promise: one store, no cache | – |
| `Login` | one account's attempts, counter and log rows | – |
| `RedisLock` | one lock key and the withLock calls that compete for it | refines `Leases` |
| `Leases` | what a lock with a time limit promises: who holds it, who works under it, who has outlived it | – |
| `AccessControl` | users, roles, permissions, their requests, the permission cache and the guard | – |
| `Cached` | `@Cacheable` and `@CacheEvict` around the dictionaries, the configs and the feature flags | – |
| `Routes` | the routes of every controller and the permission codes of the constants file | – |
| `Permissions` | the permission table, the scan, the seed, role edits and the guards that decide over a route | extends `Routes` |
| `Departments` | the department tree, its requests one statement at a time, and the department of a user | – |
| `Menus` | the typed tree of menus, its requests and its three readers | – |
| `SessionsProofs`, `LoginProofs`, `RedisLockProofs`, `AccessControlProofs`, `DepartmentsProofs`, `PermissionsProofs`, `MenusProofs`, `CachedProofs` | theorems | extend the module and TLAPS; where a property is stated of the instance TLC runs, its MC module (`AccessControlProofs`, `RedisLockProofs`, `MenusProofs`) |
| `MCSessions`, `MCSessionsHistory`, `MCLogin`, `MCAccessControl`, `MCCached`, `MCPermissions` | an instance for TLC | extend the module |
| `MCRedis` | `RedisLock` and `Login` side by side | extends both |
| `MCTrees` | `Departments` and `Menus` side by side | extends both |

`MCRedis` and `MCTrees` compose two components that share no table and no key: one
moves while the other rests in its initial state, so a run has the states of both
and none of their product. `MCAccessControl` splits one instance into parts with a
variable `part`, `MCCached` keeps the calls of a behaviour to the dictionaries or
to the configs.

Conventions. A request in flight is a record with a program counter `pc`, the
name of its next awaited command; one action is one command. `up` is
`RedisService._isAvailable`: while it is FALSE a command throws
`RedisUnavailableError` and the action that handles it (`...Skipped`,
`...Unavailable`) is the catch block. A command that fails while `up` is TRUE
throws its own error and lowers the flag (`safeRun`), which only a `connect` event
raises again. `Ops` and `Faults` choose which requests and which faults an
instance has. Definitions whose comment says "Mutant of" are deliberate bugs that
show each property can fail; no specification uses them.

### Sessions

`owner`, `revoked`, `expired` are the columns of `refresh_tokens`; `hash`,
`jtiField`, `rtIndex`, `atJti`, `sset` the four kinds of Redis key (the hash and
its field `accessTokenJti`). A token stands for its hash and for the jti of the
access token issued with it, since the code generates the three together.
`given` are the tokens clients hold, `out` those whose revocation was confirmed.

`SessionsHistory` adds `lost`: the tokens that were listed in a session set when the set went
and have not been listed again. The set can go before its members: a backfill sets its
TTL to what is left of the token it writes back (`token.service.ts:241-244`), which may be
less than a member has, and `clearCache` deletes it. revokeAllUserTokens deletes only the
hashes the set lists, so it then marks the row of such a token and leaves its hash, and
the fast path goes on accepting it until its TTL: a defect of the code that needs no
overlap, crash or failure. The run and the proofs include it (`EvictSet`), and the
properties except the tokens of `lost` and no others.

Abstractions: the hSet commands that fill one hash and its expire are one
action, and so are hGet and del of the jti map in a revocation: only that hash is
concerned and a failure between them equals a failure before or after. A command
that was applied but whose answer was lost is a success followed by a fault at
the next command. The checks of a token's age in `Expire` assume that a request
is short beside the lifetime of a refresh token (7 days): no request in flight
holds the token that expires. Redis keeps its data through an outage, because the
compose file gives it a volume; losing it is the eviction of its keys. The
heartbeat (`touch`) is modelled although `app.module.ts` has its interceptor
commented out; `SessionsSerial` and `SessionsDegraded` have it among their requests,
together with `revoke`, whose caller may name another user (of which only
`SessionsSerial` has one).

### Login

`count` and `ttl` are the counter key, bounded at `Max + 1` (any larger value is
refused in the same way). `counted`, `allowed`, `unlimited` and `orphaned` are history:
which attempts hit the present counter, how many attempts were let through while it
existed, how many of those because the limiter found Redis unavailable (even one whose
INCR had answered a refused number), and whether an attempt was cut off between its
INCR and its EXPIRE. No attempt begins once `MaxUnlimited` have been let through unlimited
on one counter; that bound is the model's, and the proofs hold for any. The key is per
spelling of the account: a user's name, e-mail and phone are three counters.

### RedisLock

`key` holds the caller whose UUID it stores, `Lost` when no running call knows the
UUID (the answer of its SET was lost, or its call ended without deleting it).
`lapsed` are the calls whose key was taken away while they ran. `Endless` are
calls with `ttlSeconds` 0, for which `RedisService.set` leaves EX out.

`Leases` is the abstract lock: `holder` is `key`, `working` are the calls in their callback
or about to release, `overdue` those of them that have lapsed. The acquisition loop, its
waits and outages are stutters; a SET whose answer is lost grants the lease to nobody's
knowledge (`GrantUnheard`); release, its failure and a crash are all `End`, which may free
the lease or leave it to run out, but only if it is the call's own.

### AccessControl

The reads and checks of a handler are one action, on arrival; its writes follow
one by one, so the window between a check and the write it guards is there.
Requests that a check refuses change nothing and are left out. `had` is history:
all permissions a user has had. A row of `user_roles` whose role is gone makes
the queries that include it throw (`Readable`), because the relation is required.
The seed creates one super user; the initial states have several, as after
`assignRoles`. `UsersService.create` is not modelled.

### Cached

`types`, `items` and `config` are rows of MySQL, `entry` what Redis holds under each
key. A read is GET, then on a miss the method (`Load`), then SET; a write checks on
arrival, commits (`TypeCreate` to `ConfigWrite`) and evicts: DEL for the key of one
dictionary (`createItem`), SCAN and DEL for a pattern. `Answer` is what a method returns from
the tables, `Found` whether it returns rather than throws; an empty list is an
answer and is cached with a shorter TTL. `updateDictionaryItem` accepts a `typeCode`
nobody has checked, and the model lets it. `disturbed` is history: calls have
overlapped or an eviction was lost since the cache was last empty with no call in
flight. An outage during a SCAN loses the eviction without an error, during a
command of any other kind it is skipped by the wrapper; a failing command fails the
request although its row is written. The
entries `sys:feature:*` are evicted by nothing, so they follow the table by their
TTL only. Of `configs` one row is kept, `feature.register`; one key stands for the
cached lists that contain it.

### Routes and Permissions

`Routes` lists what the decorators of each controller say: method, path (`Root` where a
decorator names none),
`@RequirePermissions`, `@Public`, `@AllowGuestWrite`, and the tables the service behind the route may
change. `Catalogue` and `SensitiveCodes` are `permissions.constant.ts`. A `build` is a set of
routes with its catalogue; `Deploy` replaces it and keeps the tables.

A scan reads the live codes when it starts, upserts what the routes ask for one
code at a time, then soft-deletes what it had found without a route. The seed
upserts the catalogue, reads the live codes back and grants them to the roles super
admin, admin (without the sensitive ones) and guest. Scans, the seed and role edits
interleave statement by statement; each may fail in the middle. `Admitted` is the
chain of guards of `app.module.ts` without FeatureFlagGuard, which is in `Cached`.
A caller (`Callers`) has three views of what he is, and none need agree with another: the role
keys of his token (`claims`), which are out of date until the next refresh, his roles in MySQL
(`roles`), any number of them, and codes Redis still caches for him (`cached`). GuestWriteGuard
reads the first, `validatePermissionAssignment` and `checkOwnRole` the second, PermissionsGuard
the last two. That is why `GuestChangesNothing` speaks of what the token claims, and why
`Exempt` names two kinds of users whose edits may hand out a sensitive code: super admins,
and users made guest since their token was issued. The seed gives the role guest every code,
GuestWriteGuard does not stop them yet, and `validatePermissionAssignment` lets them assign what
their roles hold. PermissionsGuard does not look at `deletedAt` and knows no exception for
super admins, and JwtStrategy never looks a user up, and so it is here.

### Departments

`parent` and `userDept` are the columns `parentId` and `departmentId`. `enabled` is the
column `status`; a request may carry a status to write or to search by. Each statement
of create, update, remove, removeMany, getTree (with a condition) and of giving a
user a department is an action; `cur` and `seen` are the variables of the two walks
up the tree. An id stands for a UUID and is used again once nobody refers to it.
A search collects the match and its ancestors, then reads these rows back with the condition on
status applied once more (`Rows`, `departments.service.ts:360`), although the comments at 344 and 356
mean all of them to be included: a search by status loses the ancestors of another status, and a row
below one of those hangs as a root.
The rows, children and users that `remove` reads are read at once. Removing a
department sets the `departmentId` of its users to NULL and leaves its children
alone, which is what Prisma does under `relationMode = "prisma"` with the relations of the schema.
`overlapped` is history: it becomes TRUE for good when a request arrives while
another is in flight.

### Menus

A request reads and checks in one action and writes its row in the next. `show` says
what the readers tell apart: disabled, enabled, enabled with a permission code.
`update` checks that the new parent is a catalogue and not where it stands: a
catalogue can be moved below itself. Nothing in the model prevents it, and
`NoLoop` is the condition under which the readers are said to work. `GetMenuTree`, `GetOptions`
and `GetMenus` compute the nodes each reader returns, from their definition in the
code: downwards from the roots, upwards from each menu, and both with the empty
catalogues taken out.

## 3. Runs

| Run | Instance | Shows |
|---|---|---|
| `SessionsSerial` | 2 users, 2 tokens, 1 request at a time, of all eight kinds; evictions of keys and of whole session sets, expiry | at rest, the fast path accepts only what MySQL accepts (`QuiescentAgreement`), every accepted session is listed (`LiveSessionsAreListed`), and `SessionsHistory` implements `RefreshTokens` (`TruthSpec`); each except for tokens whose session set went (`lost`) |
| `SessionsConcurrent` | 2 users, enabled or not, 2 tokens, 2 requests; crashes, failing commands, evictions | `RedisFollowsMySQL`, `MintsForOwner`, `GivenTokensHaveRows`, `RevocationIsFinal` |
| `SessionsDegraded` | 1 user, 2 tokens, 1 request; outages, evictions, expiry; fairness | `RefreshSucceeds` |
| `Redis` | the lock: 2 calls, one of them waiting; outages, lost answers, crashes, cleared keys. The counter: 2 attempts at a time, limit 2, at most 1 let through unlimited before the next begins; outages, failing commands, crashes. Fairness | `MutualExclusion`, `LeaseSpec`, `KeyIsFreed`, `CallsReturn`; `WindowAdmitsMax`, `OneRowPerAttempt`, `CounterHasExpiry`, `LockedAccountReopens` |
| `AccessControl` | 3 users (2 admins), 3 roles (one to be created), 2 permissions. Parts `cache` and `supers`: 1 request at a time; part `overlap`: 2 requests, outages, failing MySQL | `SerialCacheAgrees`, `SerialRowsRefer`, `SerialSupersRemain`; in every part `SuperRoleIsFixed`, `CacheWithinHistory` |
| `Cached` | 2 types, 2 codes, 1 item, the flag; 2 calls, 2 writes; outages, failing commands, crashes; fairness | `CacheTellsTruth`, `CacheConverges` |
| `Permissions` | nine callers: one of each role, and five whose token, cache and roles disagree or who have several. Two samples of the routes, the second deployed over the first: 1 scan, the seed, 1 role edit anywhere between; and the whole table as a seed and a scan leave it, with chains of 3 role edits | `ScannedIsLive`, `SettledIsExact`, `SystemRolesWork`, `AdminStaysOrdinary`, `GuestChangesNothing` |
| `Trees` | 3 departments, enabled or not, and 1 user, 3 menus; 2 requests | departments, until requests overlap: `SoloForest`, `SoloNoDangling`, `SearchShowsMatch`; always: `WalkProgresses`. Menus: `MenuHierarchy`, `MenusAreShown` |
| `SessionsLogout` | 1 user, 2 tokens | violated: `RevokedNeverAccepted` |
| `LoginLog` | 1 attempt | violated: `LogTellsTruth` |
| `AclUsers` | 3 users, 2 roles | violated: `CacheAgrees` |
| `PublicRoute` | as `Permissions`, no role edit | violated: `RuntimeConfigIsPublic` |

Each run of a module with state also checks its types (`TypeOK`, `TypesOK`, `CachedTypeOK`).

Bounds. Two tokens are a token and its successor, or two sessions of one user or
of two; two refreshes of one token that both mint would need a third, and
`MintsForOwner` is proved for any number. Two requests are enough for every race between a read
and a write of one request, since no action looks at more than one other
request. Two users tell the owner of a token from somebody else. Two attempts
that repeat without end reach every value of a counter with limit 2 and every
overlap of INCR, EXPIRE and reset. Two lock calls, which repeat, give a holder, a
waiter and a successor in turn. Two super admins and a user who can become one give
a super admin to remove and one too many removed. Two codes let a type be renamed
and an item be moved under a cached list; two writes are a change and one that
makes it stale. A third node is what a cycle of two and the way
to it need, and what an ancestor between a match and its root needs. The samples
of routes differ in a route that comes and one that goes, with a code no route
uses in both; the whole table, with its 73 codes, is too large to be scanned code
by code and moves by role edits only, of which three are enough to carry a code from
an author's role through two others. In `Trees`, departments that two requests may have
changed at once are all enabled: what status decides is claimed until they overlap. There, menus that two requests edit at
once are all open: what a user is shown is a function of the rows, and the rows
themselves are reached with one request at a time.

Fairness. `FairSpec` of `Sessions` and of `Login` assumes that Node runs the next
continuation of a request that has arrived, `Login` also that a TTL that has been
set elapses; `RedisLock` assumes in addition that callbacks end and that time passes.
`CachedFairness` assumes that Node runs the continuations and that TTLs elapse.
Nothing is assumed of clients, and nowhere that Redis comes back.

Deadlock is checked in the passing runs except `Permissions`, where the whole table
stands still after three edits.

### What the violations say

* `SessionsLogout`: logout removes the Redis keys only, so the next refresh finds
  the row in MySQL and accepts the token. The same property is lost when
  revokeAllUserTokens runs while Redis is unavailable (the keys survive the outage)
  and when a refresh backfills or stores a token while it runs.
* `LoginLog`: a successful login is recorded as FAILURE, because 1 is not within 200..299.
* `AclUsers`: `RolesService.assignUsers` and `removeUsers` evict no permission cache.

Where a property holds only under a restriction, the restriction is a fact of the code:

* `QuiescentAgreement`, `LiveSessionsAreListed` and `TruthSpec` are for one request at
  a time: revokeAllUserTokens races with stores and backfills. They exclude crashes and
  failing commands, which can leave a hash and an index without the entry of the set, and
  outages, through which keys survive a revocation. They except, token by token, those that
  were listed in a session set when it went, by the TTL a backfill gave it or by `clearCache`,
  and have not been listed since (`lost`): revokeAllUserTokens leaves their hashes.
  `TruthSpec` lets such a token live as long as its hash.
* `WindowAdmitsMax` counts apart what the limiter let through because it found Redis
  unavailable (`rate-limiter.service.ts:45-53`): those attempts have no limit.
* `RefreshSucceeds` excludes failing commands: `safeRun` rethrows the error as it is,
  and the callers degrade on `RedisUnavailableError` only.
* `CounterHasExpiry` and `LockedAccountReopens` except `orphaned` counters: a process
  that dies, or a connection that breaks, between INCR and EXPIRE leaves a counter
  without a TTL, and an account over the limit then stays locked.
* `KeyIsFreed` is for keys with a TTL (`Endless` is empty).
* `SerialCacheAgrees` is for one request at a time: a guard can write back what it read
  before an eviction. It excludes `assignUsers` and `removeUsers` (see `AclUsers`); its
  part leaves out `updateUser`, `kick` and `warm` too, to stay small.
* `SerialSupersRemain` is for one request at a time and no failures: two `removeUsers`
  can each count three, and `assignUsers` deletes before it inserts.
* `SerialRowsRefer` is for one request at a time: a role can be deleted between the check
  and the insert of `assignRoles`.
* `CacheTellsTruth` holds until calls overlap or an eviction is lost, and again once the
  cache is empty: a method can put back what it read before a commit, and an item can be
  created while its type is removed. It leaves out the flags, which are stale for up to
  300 s after each switch; that they come round is `CacheConverges`.
* `SettledIsExact` is claimed after a scan that no seed ran into, until the next seed: the
  seed makes the codes `user:import`, `user:export`, `log:view` and `monitor:server:view`
  live again, which no route uses, and grants anew what had been taken from a role.
* `SystemRolesWork` speaks of admin and guest until a role is edited.
* `AdminStaysOrdinary` excepts what a super admin hands out himself, and what is handed out
  by a user made guest since his token was issued: the role guest holds every code and the
  token does not say guest yet.
* `GuestChangesNothing` is about what the token claims: a user made guest changes what he
  could until his token is renewed.
* `SearchShowsMatch` claims all ancestors only of a search without a condition on status, and of
  the others those of that status.
* `MenusAreShown` is claimed while menus form no cycle, `MenuHierarchy` of missing
  parents until two requests overlap.
* `SoloForest`, `SoloNoDangling` and `SearchShowsMatch` hold until two requests overlap. Without the condition TLC finds two updates whose walks
  both miss the other's write and that close a cycle, on which a search never ends.
  An update without `parentId` can also write back a parent it read before a move, and a
  child can be created below a department between the check of `remove` and its delete.

## 4. Proofs

Every invariant and every action property of the passing runs is a theorem, and so are the
refinements of `RefreshTokens` and `Leases`; only the liveness properties are not. For any number of users,
tokens, requests, attempts, callers, roles, permissions, departments, menus and routes and any
choice of requests and faults:

| Theorem | States | Argument |
|---|---|---|
| `SessionsProofs!TypeCorrect`, `RedisFollows`, `GivenVerifiable`, `MintsForTheOwner`, `RevocationFinal` | `TypeOK`, `RedisFollowsMySQL`, `GivenTokensHaveRows`, `MintsForOwner`, `RevocationIsFinal` | The inductive invariant `IInv` adds to these what a request in flight knows: from `st_hash` on its new token has a row of its user; from the lookup on its token belongs to its user; no two requests hold the same new token. Without the last, two stores could fight for one row. `RevocationFinal` follows because only `StoreRow` writes `owner`, on a token without a row. |
| `RedisLockProofs!OwnersHold`, `LockExcludes`, `ReleaseIsSafe` | `OwnerHoldsKey`, `MutualExclusion`, `ReleaseTakesOwn` | `OwnerHoldsKey` is inductive with the types and `NoneOverdue` (a call still to take the key has not lapsed). Exclusion follows from it: two callbacks that have not lapsed would both be the value of `key`. |
| `RedisLockProofs!LockImplementsLease` | `LeaseSpec` | For every interleaving and every fault, from the same invariant: the successful SET maps to `Grant`, one whose answer is lost to `GrantUnheard` or a stutter, the four ways a call ends to `End` (or a stutter, if a crash comes before the key is set: `OwnerHoldsKey` says that the call then has none), the TTL and `clearCache` to `RunOut`. |
| `SessionsProofs!QuiescentTruth`, `LiveListed`, `SessionsImplementTruth` | `QuiescentAgreement`, `LiveSessionsAreListed`, `TruthSpec` | Under `Serial`: one request at a time, only evictions, of session sets too, and expiry, but every operation and any number of users and tokens. `SerialInv` says that Redis has no hash of a dead token except a lost one (`HashLives`), that every hash is listed, about to be, or lost (`HashListed`), and what the request in flight knows (`Knows`): a token being stored was never seen, one about to be written back is alive, one past its deletion has no hash, and revokeAllUserTokens still has every hash of its user before it but the lost ones. The refinement then maps `StoreRow` to `Issue` or `Rotate`, a hit of the lookup to `Accept`, `CheckUser`'s refusal to `GiveUp`, `RevokeRow`, `RevokeAllRows` and `Expire` to `Kill`; every other step stutters. |
| `LoginProofs!LoginTypes`, `CounterExpires` | `TypeOK`, `CounterHasExpiry` | Inductive with `RowsLate`: an attempt has no row before it ends. Only the INCR that answers 1 makes a key without a TTL, and that attempt stays at `expire` until it sets one or leaves, which `orphaned` records. |
| `LoginProofs!WindowLimits`, `RowWrittenOnce` | `WindowAdmitsMax`, `OneRowPerAttempt` | `WInv`: the attempts let through and those still to be (counted in this window, their answer within the limit) together exceed neither the counter nor `Max`, beyond those let through unlimited, which leave the second group as they join the first; no INCR adds to them beyond `Max`, and `DEL` and the end of a window empty both. `RowWrittenOnce` assumes that the insert itself does not fail (`"mysql" \notin Faults`). |
| `AccessControlProofs!CacheIsHistoric`, `SuperRoleFixed`, `AccessTypes` | `CacheWithinHistory`, `SuperRoleIsFixed`, `TypeOK` | `AInv` adds that the tables are within the history and that a guard that has loaded permissions carries only what its user has had; and that no request in flight that deletes roles or their permissions carries the super role. |
| `AccessControlProofs!SoloRowsRefer`, `SoloSupersRemain`, `SoloCacheAgrees` | `NoDanglingRows`, `TwoSupersRemain`, `CacheAgrees` | For any number of processes, as long as steps are taken with one request in flight: the hypothesis `[][OneAtATime]_vars` is about steps and leaves open who sends the next request. `SoloInv` says that a request still finds what its checks found: the users and roles it refers to (`Supported`), no row in the way of those it creates (`Cleared`), nobody with a role it deletes or has just made (`Unheld`), the super admins as counted (`Counted`), the permissions as loaded (`Loaded`). `SoloRowsRefer` allows every failure. `SoloSupersRemain` excludes one between two statements and starts with two super admins among finitely many users (`SupersStart`): `SupersInv` has fewer than two only between the delete and the insert of `assignUsers`. `SoloCacheAgrees` excludes failures and the two operations that evict nothing, and covers `updateUser`, `kick` and `warm`, which the run leaves out: `CacheInv` says that an entry that is false is `Pending`, about to be evicted by the request that made it so. |
| `AccessControlProofs!SerialRows`, `SerialSupers`, `SerialCache` | `SerialRowsRefer`, `SerialSupersRemain`, `SerialCacheAgrees` | The same of the instance the run takes, for any constants: `MCSpec` admits in each part but `overlap` only steps that satisfy `OneAtATime`, and starts, in the part of the cache and in the others, from states that satisfy the invariants of the row above (`MCInitStart`). |
| `DepartmentsProofs!DepartmentsStayForest`, `ReferencesExist`, `SearchEnds` | `SoloForest`, `SoloNoDangling`, `SearchNeverRevisits` | A forest is a tree in which no set of departments has all its parents within itself. `SInv` says of the only request in flight that what its walk has seen is a chain of ancestors without the department being moved (`Harmless`); a set closed under the new parents would meet that chain in a set closed under the old ones. |
| `DepartmentsProofs!SearchFindsMatch` | `SearchShowsMatch` | `SInv` also says of a search that what it has collected contains the match and, up to the department it looks at next, every parent. `Shown`, the tree built downwards from the departments without a parent in the set, is the least set with those that contains every child of its members (`IteratesSettle`, below); what it left out would have all its parents within itself, which a forest excludes (`ShownClosed`). That holds of any set of departments, so of the rows the condition on status leaves (`AllShown`). |
| `DepartmentsProofs!NeverOwnParent`, `CircularCheckEnds`, `DepartmentTypes` | `NoSelfParent`, `WalkProgresses`, `TypeOK` | For any interleaving: an update whose target is its own department finds it on the first step of the walk, or the row is gone and its id is never made again (`Own`). A step that goes on walking has not met the id before. |
| `MenusProofs!MenusKeepHierarchy` | `MenuHierarchy` | For any interleaving. `MenusInv` says that every parent a row has, and every parent a row in flight carries, is a catalogue if it exists, that an update writes back the type it read, and that an id about to be created is mentioned by nobody. While requests do not overlap, the one in flight carries an existing parent, and nobody else removes it. |
| `MenusProofs!ReadersAgree` | `MenusAreShown` | The walk upwards from a menu is the least set with it and the parents of its rows (`ClimbIsLeast`), the tree downwards the least with its roots and their children (`HungIsLeast`). Without a cycle no set of menus has all its parents within itself (`LoopFree`: a smallest such set would be what each of its menus sees above itself), so the administrator's tree misses none. For a user the proof goes through the menus whose whole way up is enabled: what `MenuHierarchy` adds is that nothing hangs below a page, so a page is shown for its own sake, and every catalogue shown for a page below it. |
| `RedisLockProofs!RedisTypes`, `MenusProofs!TreesTypes` | `TypesOK` of `MCRedis` and `MCTrees` | A behaviour of the composition is a behaviour of each of the two components (lemmas `SideBySide`), so every theorem about either holds of the run. |
| `CachedProofs!CachedTypes`, `CacheIsTrue` | `CachedTypeOK`, `CacheTellsTruth` | `CachedInv` says what a call carries to its commit (`Fitting`) and, undisturbed, that there is one call at a time, that a key that disagrees with the tables is among those it is about to evict, and that what it is about to put is what the tables say. A commit makes keys disagree only if its eviction covers them; the weight of the proof is that each of the seven does. |
| `PermissionsProofs!PermissionsType`, `RequiredCodesStayLive`, `RegistryIsExact` | `TypeOK`, `ScannedIsLive`, `SettledIsExact` | For any builds, number of scans, edits and failures. `RegistryInv` (theorem `RegistryInvariant`) says that a scan never means to delete a required code, that a required code that is not live is still to be written by every scan under way, and that a scan no seed has run into still has to delete every code that is live and not required. |
| `PermissionsProofs!SensitiveCodesStayAway`, `SeededRolesWork` | `AdminStaysOrdinary`, `SystemRolesWork` | `AdminStaysOrdinary` is inductive, because an author who is not `Exempt` and passes GuestWriteGuard has no role but admin and user (`OrdinaryAuthor`) and assigns only what these hold, whatever his token and his cache say; `Callers` is any set of users. `SeedInv` says what the seed has granted by each of its steps. |
| `PermissionsProofs!GuestsChangeNothing` | `GuestChangesNothing` | Group of routes by group of routes, for all nineteen (`ControllersSafe`): a route that writes by its method is refused to a guest unless it is marked `@AllowGuestWrite`, and then changes only sessions; one that does not write by its method changes nothing. The hypothesis is that what is deployed is a set of these routes, which the three builds of the run are. |

Assumptions are the named ASSUMEs of the modules (the constants are what their
names say, no null value is a member); TLC evaluates them in every run.

Four of these state properties no run checks any more, since stronger ones took their
place: `OwnerHoldsKey` (theorem `OwnersHold`), on which `MutualExclusion` rests,
`ReleaseTakesOwn` (theorem `ReleaseIsSafe`), which `LeaseSpec` contains, and
`NoSelfParent` and `SearchNeverRevisits` of `Departments`, the part of `SoloForest` that survives
overlaps and what ends the recursion of a search.

Where the code walks a tree the answer is a function defined recursively over the number of
steps (`Climb`, `Hung`, `Shown`), and its value needs induction over a number nobody bounds. The
first section of `DepartmentsProofs` supplies it without an induction rule over predicates:
`SetInduction` takes a set in place of a predicate and follows from the well-foundedness of <
(`WFMin`). From it: the first `n` iterates of a set under a function exist and are unique
(`IterateExists`, `IterateUnique`); growing iterates within a finite set come to rest after at most as
many steps as it has members, since each that does not rest adds one (`StrictlyMore`); and where they rest is the
least set that contains the first and is closed (`IteratesSettle`). The code bounds no walk; `Depth`
in `Menus` and the number of departments bound the recursion in the model, and these lemmas
show that the bound cuts nothing off.

Model-checked only: what is stated under fairness (`RefreshSucceeds`, `KeyIsFreed`,
`CallsReturn`, `LockedAccountReopens`, `CacheConverges`), since TLAPS proves no liveness here, and
of course the four properties the code violates.

## 5. Not modelled

* Data scope: `buildDataScopeQuery`, which would turn a scope into a filter, has no caller.
  The three statements of `assignDataScopeToRole` write columns nobody reads.
* Notices, profile, positions: one row read or written per request, behind checks of a
  unique name. Their routes are in `Routes`.
* `UsersService.create` and `register`: a new user with roles and an empty cache. The fields of users,
  roles, menus, departments and dictionaries that no decision reads (names, order, colours).
  Of a search of departments, every condition but the match itself and the status.
* The operation log, the heartbeat interceptor (commented out in `app.module.ts`; the call it would make is in
  `Sessions`), queries, exports and clean-up of logs, monitoring and the dashboard: they read, or delete by date.
* The cut of `getOptions` of menus at 500 rows. The part of the seed that creates menus by
  path and may turn a catalogue with children into a page.
* DTO validation and formatting, Swagger, configuration, connection set-up, the seeds of
  users, departments, positions and notices, and the text of configs: data and wiring.
