# Verification of the accounting-saas-auth API

TLA+ models of the authentication service under `src/src`, the TLC runs that check them on small
instances, and TLAPS proofs of their main safety properties for every instance. The service has no
tests (`src/src/tests/auth.int.test.ts` is empty); what is checked here is mostly what a test would
hardly reach: overlapping requests, answers that arrive late, a process that ends between two steps,
commands that fail.

Paths below are relative to `src/src` unless they say otherwise.

## 1. The system

One Node process serves HTTP (Express), keeps its data in PostgreSQL through Prisma, and caches in
an in-process map (L1) over Redis (L2). The event loop runs one callback at a time: another request
can run at every `await` and nowhere else. Several requests are therefore interleaved at their
queries, hashes and cache commands, and that is the grain of every model here.

| component | state | operations | hard because |
|---|---|---|---|
| Refresh tokens (`api/auth/services/auth.refresh-token.service.ts`) | table `refresh_tokens` | `createToken`, `rotate`, `revoke` | read and update are apart; row locks; rollback; timeout |
| Two-factor sign-in (`auth.service.ts` `signin`, `adminSignin`, `optStore`, `otpVerify`, `verify2fa`) | table `auth_otp`, temporary tokens | store and mail a code, compare a guess, open a session | a record is used after an await of a slow hash; a wrong guess writes `consumed_at: null` |
| Account (`auth.service.ts` `signup`, `verifyEmail`, `signin`; `auth.controller.ts`) | table `users` | sign up, verify, sign in, resend | check, then act; mail nobody waits for |
| Mailer, event bus, Slack (`core/mail`, `core/events`, `core/services`) | none that lasts | publish, post, send | one failure loses the mail; no retry |
| Cache (`core/cache`) | L1 map, Redis | `get`, `set`, `del`, `clear` | two levels, one of them remote; late answers; eviction |
| Authentication and sign-out (`core/middlewares/authenticate.ts`, `auth.service.ts` `signout`) | two cache keys per user | admit or refuse a request, revoke | decisions on cached data |
| Trusted devices (`auth.trusted-device.service.ts`) | one cache key per device, and the token of the device | mark, revoke, ask | a yes that is on its way when the device is revoked; a key and a token that end at different times |
| Authorization (`core/middlewares/authorize.ts`, `shared/permissions.ts`) | none | flatten the permissions of roles, look one up | several roles, several shapes of the same list |
| User queries (`api/user`) | none | `me`, `getAllUsers` | page and count are two queries, the pages of a walk several requests |
| Seed script (`src/prisma/seed.ts`, `seeds`) | tables `permissions`, `roles`, their joins, `users` | upsert, batch by batch | ends half-way, is run again, overlaps with another run and with signups |
| Lifecycle (`bootstrap`, `main.ts`) | the process, its connections | start, drain, exit | kept-alive connections, mails nobody awaits, a second signal, a rejected disconnect |
| Request plumbing (`core/base`, `core/errors`, `validate-request.ts`, `app/middlewares.ts`) | rate-limit counters of a library | validate, map errors, answer | no |
| Service clients (`getToken`, `registerService`), RBAC administration (`api/rbac`) | - | - | not routed; empty files |

Interactions: `authenticate` and sign-out call the cache; sign-in, `verify2fa` and `refresh` call the
refresh-token service; signup and sign-in publish events the mailer handles; sign-out revokes the
refresh token, then the device, then marks the access token, and its controller deletes the cached
user record. `authorize` reads what
`authenticate` flattened from the rows the seed script wrote; `getAllUsers` lists the rows of signup and
of the script.

What makes each component correct is stated by the properties of section 3; `PROJECT.json` lists the
hazards they are for, at their lines.

## 2. Modules

| module | models | variables and what they stand for |
|---|---|---|
| `Sessions` | what the refresh-token service promises: a token is opened, exchanged or ended in one step | `live`, `ended`, `origin`, `issued`; `owed`: exchanges of a dead token still to be expected |
| `RefreshTokens` | the three operations on `refresh_tokens` | `issued`, `revoked`, `expires`: the committed rows. `pc`, `tok`, `began`: where each request is in `rotate`, the row its transaction read, its start. `clock`: `Date.now()` |
| `TwoFactor` | 2FA of one user | `last`, `expires`, `attempts`, `consumed`: the rows of `auth_otp`. `pc`, `code`, `guess`: each request; a verification waits for its hash comparison (`compare`) and then for its update (`update`). `tokenUntil`: when the user's last token signed with the access secret, temporary or access token, runs out. `published`, `sessions`. `lost`: history, guesses compared whose update never happened |
| `TieredCache` | `CacheService` / `MultiCacheProvider` / both providers | `mem`: the L1 map; `order`: the place of each of its keys in the order a `Map` iterates them, 1 for the key that is evicted first. `redis`. `ask`: gets that wait for Redis. `scan`: what a `clear` has still to delete |
| `TrustedDevices` | `markTrusted`, `revoke`, `isTrusted`; EXTENDS `TieredCache`, whose actions are conjuncts of its own | `marked`: when each device's token was signed |
| `AccessControl` | `authenticate` and sign-out for one access token; EXTENDS `TieredCache`, whose actions are conjuncts of its own | `pc`, `began`, `user`, `readAt`: each request. `status`: the database. `content`: what each `set` stored |
| `Account` | signup, mail, verification, status check, resend | the columns of `users`, `mail`, `pc`, `want`, `who` |
| `Seeding` | the seed script and signup on the tables of users, roles and permissions | the tables as sets and functions: `permissions`, `roles`, `grants`, `email`, `username`, `created`, `userRoles`. `batch`, `todo`: the batch each run of the script is at, the upserts it still waits for |
| `Permissions` | flattening (`authenticate`, `me`) and `authorize`, as operators | none |
| `Directory` | `me` and `getAllUsers` over the tables; EXTENDS `Seeding` and `Permissions` | `stage`, `page`, `got`: each client's walk through the pages. `seen`, `expect`: history |
| `Lifecycle` | one life of the process: boot, requests, mails, signals, exits | `exit`, `ready`, `listening`, `database`: the process. `conn`, `working`, `mail`: each connection, whether the handler of its last request has ended, the mail it left behind. `signals`, `closes`, `disconnects`: the shutdowns asked for and the callbacks they wait for |
| `MC...` | the symmetry sets for TLC | |
| `...Proof` | theorems and proofs about the module of that name; those about `Seeding` and `Permissions` are in `DirectoryProof`, which needs them | |

Variables marked "history" are read by properties only.

Conventions. A request is at a place `pc[r]`; each query, hash or cache command of a handler is one
action, from one await to the next. A refusal that changes nothing is not an action. An action that
fails leaves what was written before it (`Fail`, `Answer`, `Leave`, `RotateAbort`); `Crash` and
`Restart` end every request where it is. Definitions commented "Mutant" are variants of an operation
with a plausible mistake in it; no specification uses them, and each shows that a property is not
true of every program.

Abstractions.
- Tokens, links and codes are named by the row they belong to: 256 random bits do not repeat. A guess
  at a six-digit code is "right" or "wrong".
- `rotate` runs at READ COMMITTED, the default of PostgreSQL. Its read takes no lock, its update takes
  the row's lock until the end of the transaction, an update that waited goes ahead because its WHERE
  names only the id, and nothing written is seen before the commit.
- Redis commands of the process share one connection and take effect in the order they were sent;
  only an answer is late, by at most `MaxLag` (`maxRetriesPerRequest` bounds it in the code). A command
  may fail. What is in L1 and in Redis is named by the number of the `set` that stored it.
- `verifyTempToken` checks a token's signature and expiry, not its type, and the secret is that of the access
  tokens: `TwoFactor` lets a verification begin while any such token of the user holds (`tokenUntil`). A session's
  refresh token does not run out within the clock of the run.
- `PENDING` in `Account` is `PENDING_VERIFICATION`; the other statuses that no code distinguishes are
  left out. In `AccessControl` the cached record is cut down to its status.
- A status changes to SUSPENDED by an operator at the database: no code does it, the model marks it
  external.
- An upsert of the seed script is one statement (`INSERT ... ON CONFLICT`). Where the query engine makes
  it a read and an insert instead, an overlapping run can make the insert fail, which is a `SeedFail`.
- The upsert of an account has `update: {}`: a row with its email is left as it is, whoever created it, and the
  role goes to that row. Its password, status and type (`src/prisma/seeds/user.seed.ts:31-43`) are not
  modelled, so `SeedComplete` says of an account that a row with its email is there and has its role, and
  nothing of the row's other columns.
- An account of the seed script, its email and its username are named by the role it is given. Other
  emails and usernames need no name of their own: `Other` never collides.
- The database may return users of one `created_at` in any order, and in another for the next page.
- `Directory` starts from a seeded database: the run of the script is over, and nobody has signed up.
- A device of `TrustedDevices` is one token and one key: a token carries a random device id and is never
  made twice, and it lives as long as its key (`TRUSTED_DEVICE_TTL`). The cache's other keys are read,
  set and deleted by anybody.
- `Lifecycle` begins when `main.ts` waits for the database, and a connection begins with its first
  request: one that never sends a request is not there. `server.close()` stops listening and closes the
  connections without a request in progress, as Node does since version 19; a connection that is kept
  alive is dropped after `keepAliveTimeout`. One mail per connection is in progress at most.
- `sendEmail` tells Slack a second time without waiting for it (`core/mail/mailer.ts:65`); `Lifecycle` counts the
  mail as in progress until that ends. Its rejection is handled by nobody and logged.
- A set of the user record is awaited before `authenticate` decides; the model decides in the same step,
  since nothing is read in between.

## 3. Runs

| run | bounds | shows |
|---|---|---|
| `refresh_safety` | 3 requests, 3 tokens, lifetime 1, transaction timeout 1, clock to 3 | `RotationIsAtomic`, `SuccessorBound`, `OneTokenPerSession`, `SessionLifetime`, `ImplementsSessions`; `RotationEnds`, under fairness |
| `refresh_signout` | 2 requests, 3 tokens | finding 1 |
| `two_factor` | 3 requests, 2 codes, 2 attempts, code life 1, access token life 2, 1 update lost after its compare, clock to 2 | `GuessBound`, `OneSessionPerCode`, `SessionsEarned`, `MailedIsStored` |
| `cache_safety` (`TrustedDevices`) | a device and another key, L1 of 1 entry, 2 sets, lifetimes 1 and 3, 2 waiting gets, lag 1, clock to 5 | `SizeBound`, `AgeBound`, `DeletedGoesAway`, `TrustEnds` |
| `access_safety` | 2 requests, both cache keys in an L1 of 1 entry, 3 sets, clock to 5, any Redis command may fail | `SuspensionTakesEffect`, `SignoutRefuses` |
| `access_signout` | the same, clock to 6 | finding 2 |
| `account_safety` | 2 requests, 2 emails, 1 asked and 1 generated username, 2 rows, clock to 1 | `UniqueIdentity`, `SuspensionHolds`, `LateSignins` |
| `account_username` | the same | finding 3 |
| `seeding` | 2 runs of the script, 2 permissions (one that ADMIN gets, one it does not), signups that claim the email or username of the last seeded account, 4 users, clock to 1 | `SeedComplete` |
| `directory` | 1 client, pages of 2, up to 5 users, clock to 3 | `WalkMissesNobody`, `FlattenIsUnion` |
| `directory_profile` | the same | finding 4 |
| `lifecycle` | 3 connections, 2 signals | `GracefulExit`; `AnswersDontWait`, `Drains`, under fairness |

Each passing run checks its module's type invariant too (once per module), and, where a proof needs a
stronger invariant that says something by itself (`LinksSpent`, `SeedProgress`, `MissingIsAhead`), that invariant.

Why the bounds are enough to be interesting. Every race in this code is between two requests (a third
in `RefreshTokens` and `TwoFactor` lets one come between the other two). Lifetimes of one tick
with a clock of two or three let everything expire before, during and after an operation. An L1 of one
entry evicts at every second set, so that every entry is at some time only in Redis. `LinkLife = 0` in
`Account` makes a tick as long as the life of a link: a link is good in its own tick and expired in
the next. In `Directory` the three seeded users fill two pages of two, and two more signups, which
may come before, between and after the queries, make a third. In `Seeding` four users leave room for
the three seeded ones and a signup before, between or instead of them. In `AccessControl` the clock
goes as far as the earliest step that could break the bound. In `TrustedDevices` the device has the
longer of the two lifetimes, and the clock passes the end of its token, of a copy in L1 and of a late
answer. In `Lifecycle` three connections let one be answered, one be kept and one still be waiting when
the second of two signals comes.
In `TwoFactor` a comparison and its update are two steps, and `MaxLost` bounds how many updates are lost
in between: without it a code could be compared for ever, since such a guess is not counted.
`MaxClock`, `MaxSets`, `MaxCodes`, `MaxLost`, `MaxUsers` and the number of tokens bound the runs only; `TokensLeft`
keeps a token back for every rotation in progress, so that a bound never blocks a commit.

`CHECK_DEADLOCK FALSE` everywhere: at their bounds the models stop, which the server does not.

Fairness. `FairSpec` of `RefreshTokens` says that a transaction that can go on does: the database
grants a row's lock in the order it was asked for, so an update that is possible again and again
happens (strong fairness of `RotateUpdate`); a commit that is possible happens (weak); a transaction
over its time is rolled back (weak). Nothing makes a client call, a tick or a crash happen.
`Spec` of `Lifecycle` says that queries and hashes are answered or fail (`Answer`), that the timers
of the server fire (`KeepAliveTimeout`), and that the event loop runs the callbacks of a close and of
a disconnect. Nothing is assumed of clients, of signals, of Slack or of the mail server: a request to
either may hang for ever, and `AnswersDontWait` and `Drains` hold all the same. `Drains` says in its
premise what it needs of clients: that they stop, at some time, sending requests on connections that
were kept. The other specifications state no fairness and no liveness.

### An abstract specification

`Sessions` says what the callers of the refresh-token service may think it does: `Open`, `Exchange`,
`End`, each one step, with no transaction, no lock and no crash. It is weaker than "a token is exchanged
once", which the code does not keep: rotations that read the row before it was revoked may still succeed.
How many they are (`owed`) is settled in the step that takes the token out of use, and only falls
(`ExchangeLate`, `Lapse`). `Promise` in `RefreshTokens` instantiates it: a token is `Live` while its row
is committed and not revoked, and `Owed` counts the rotations in progress that have read a row revoked
since. `ImplementsSessions` is a PROPERTY of `refresh_safety` and a theorem.

`AccessControl` and `TrustedDevices` use `TieredCache` by conjoining its actions. `UsesTheCache` and
`TrustUsesTheCache` prove that every behaviour of either is one of `TieredCache`, and `AccessCacheHolds`
and `TrustedCacheHolds` take over what is proved of the cache: its size, its ages, its deletions.

### Findings

1. `refresh_signout`: a sign-out between the read and the update of a refresh leaves the successor
   usable (`auth.refresh-token.service.ts:35`).
2. `access_signout`: the revocation mark of an access token lives for the default of 60 s, because
   the remaining time is passed as the value (`auth.service.ts:398`); the token is accepted again afterwards.
3. `account_username`: a signup without a username is refused as soon as there is a user: an
   undefined condition matches everybody (`auth.service.ts:52`).
4. `directory_profile`: signup gives a user no role, and `me` reads the first role's name: the profile of
   everyone who signed up fails (`api/user/user.service.ts:53`).

Met while modelling, and stated by no property:
- resend-verification runs `refresh` on the body as it was sent (`auth.controller.ts:45`): without a refresh token
  in it the request fails, with one that token is rotated, and no link is made or sent either way. That is
  `Resend` in `Account`, of which no column changes;
- `verify2fa` (`auth.service.ts:329-360`) and `refresh` open or extend a session without reading the user's
  status: one suspended after signin stored the code still gets in. `LateSignins` is about signin itself;
- a guess whose update fails after the comparison is never counted (`auth.service.ts:590-598`): `GuessBound` has
  these beside its limit;
- an access token is taken for a temporary one (`core/utils/temp-token.utils.ts:15`);
- whoever signed up with the email of an account that is not seeded yet is given its role by the script, and
  keeps the row's other columns (`src/prisma/seeds/user.seed.ts:32-33`);
- an expired link is answered with "Please register again" (`auth.service.ts:430`), but the row stays and
  signup refuses its email (`auth.service.ts:48`), which is `SignupEmail` after `VerifyRead`;
- someone who signs up with the username of an account not yet seeded makes the seed script fail at
  every later run (`src/prisma/seeds/user.seed.ts:92`);
- users of one `created_at` can be missed by a walk (`user.service.ts:108`);
- a clean exit drops the mails in progress, although signup has answered that one was sent
  (`auth.service.ts:86`);
- a rejected `$disconnect` is outside the try of `shutdown` (`shutdown.bootstrap.ts:10`): the process stays,
  without a server and without a database, which is `DisconnectFails` in `Lifecycle`;
- a client that keeps sending on a kept connection holds the shutdown up, without a limit
  (`shutdown.bootstrap.ts:9`);
- `errorHandler` answers errors of a token with 401 (`core/errors/errorHandler.ts:52-62`), but
  `asyncHandler` has turned those of a handler into a 500 before (`core/base/base.controller.ts:56-65`).

## 4. Proofs

All for any constants that satisfy the named ASSUMEs: finite sets of requests, tokens and permissions,
natural lifetimes, and names that are apart (`NoneApart`: the value for "nothing" is no entry, no
time and no get in progress). Every invariant and every action property of a passing run is stated by one of these
theorems; only the three liveness properties are not.

| theorem | says | argument |
|---|---|---|
| `RefreshTokensProof!TypeCorrect` | `TypeOK` | by actions |
| `RotationAtomic` | `RotationIsAtomic` | inductive with `ParentsOfIssued`: a fresh token has no parent |
| `LifetimeBounded` | `SessionLifetime` | with `ReadWasUsable`: what a rotation holds had not expired when it began, and it began at most a timeout ago |
| `SuccessorsBounded` | `SuccessorBound` | `SuccessorBudget`: successors plus rotations in progress never exceed `overlap`; a commit turns one into the other; a read needs an unrevoked row |
| `BudgetHolds` | `IndInv` | the three parts above together, each kept by every action |
| `SessionsAreChains` | `OneTokenPerSession`: finding 1's counterpart, when a session has one usable token and when a sign-out ends it | `SessionsKnown`: each token has a sign-in it goes back to, and a session whose tokens have one successor each has one end (`Chained`); a commit moves the end or makes the session a chain no longer. A usable token is an end, and so is one that was signed out alone (`OneSuccessor`) |
| `SessionsImplemented` | `ImplementsSessions` | a commit of a token that is live in `Sessions` is an `Exchange`, of one that is dead an `ExchangeLate`, a revoke an `End`; everything else is a stutter or a `Lapse`. `SuccessorBudget`'s counting of rotations in progress gives `Owed` |
| `TwoFactorProof!TypeCorrect`, `GuessesBounded`, `CodesOpenOneSession` | `TypeOK`, `GuessBound`, `OneSessionPerCode` | `AttemptBudget`: a guess compared is an attempt, an update to come or a lost one, and attempts plus verifications in progress are bounded because a read needs attempts left; `ConsumedAlone`: after a right guess with nobody beside it no verification can un-consume the code |
| `SessionsAreEarned`, `MailsAreStored` | `SessionsEarned`, `MailedIsStored` | kept with `AttemptBudget`; `HoldsStoredCode`: a request past its first query holds a stored code; `StoredSessions`: so was every session opened with one |
| `TieredCacheProof!AgeBounded`, `DeletesTakeEffect` | `AgeBound`, `DeletedGoesAway` | `RedisFresh` and `AnswersRecent`: Redis holds only what has not run out and was set after the last delete, an answer is at most one lag old; a copy then adds one stay |
| `SizeBounded`, `CacheTypeCorrect` | `SizeBound`, `TypeOK` of the cache | `Ordered`: the places of L1's keys are exactly 1 to their number, so there is a first key to evict when L1 is full (`FirstExists`) and one key less after it (`EvictionMakesRoom`), and the places of what is kept are counted anew (`PlacesNumber`) |
| `AccessControlProof!UsesTheCache` | `AccessSpec => Spec` of `TieredCache` | by actions: a step is one of the cache or leaves its variables alone |
| `SuspensionBounded`, `SignoutHolds` | `SuspensionTakesEffect`, `SignoutRefuses` | `AccessInv`: how old the record is that a level, an answer on its way or a request holds, and what of the mark of a sign-out is still in Redis; the bounds on age come from `TieredCacheProof` |
| `AccessTypeCorrect`, `AccessCacheHolds` | `AccessTypeOK`; the cache's invariants inside `AccessSpec` | `AskedWhere`: a request waits for the key its place in `authenticate` asks for, and for none elsewhere; the rest by `UsesTheCache` |
| `TrustedDevicesProof!TrustUsesTheCache`, `TrustedCacheHolds` | `TrustSpec => Spec` of `TieredCache`, and its invariants | by actions |
| `TrustExpires`, `TrustTypeCorrect` | `TrustEnds`, `TrustTypeOK` | `TrustInv`: a device never marked is known nowhere (`UnmarkedUnknown`); Redis holds a device no longer than its token verifies, and an answer that knows it was asked for while it did (`MarkBounds`); after a revoke an answer was asked for before it, and a copy in L1 ends one lag and one stay after it (`DropBounds`) |
| `AccountProof!TypeCorrect`, `IdentitiesUnique`, `SuspensionsHold`, `LinksStaySpent` | `TypeOK`, `UniqueIdentity`, `SuspensionHolds`, `LinksSpent` | the unique indexes (`Free`) at the create; `LinksSpent`: a verified row has no link, so no verification of it can begin |
| `LateSigninsBounded` | `LateSignins` | inductive: a session opened late is a comparison fewer, and a suspended user begins none |
| `LifecycleProof!TypeCorrect`, `ClosedStaysClosed`, `ExitIsGraceful` | `LifecycleTypeOK`, `ClosedForGood`, `GracefulExit` | `ClosedForGood`: the callback of the close runs when nobody is connected, and from then on nobody can be; both exits with 0 come after it |
| `DirectoryProof!TypeCorrect`, `SeedsComplete`, `SeedsProgress` | `TableTypeOK`, `SeedComplete`, `SeedProgress` | `SeedProgress`: what a run no longer waits for is stored, and nothing is ever deleted (`TablesGrow`); a run that is past the roles has stored what grants and user roles refer to |
| `DirectoryTypeCorrect`, `MissingStaysAhead`, `WalksMissNobody` | `DirectoryTypeOK`, `MissingIsAhead`, `WalkMissesNobody` | a user who is missing has at least a page of newer users for every page read (`PageMisses`, by counting); the newer ones only grow (`NewerGrows`); a walk ends when the pages read cover all users, who are more than the newer ones |
| `FlattenAdds`, `FlattensToUnion` | flattening any lists of permissions loses none, invents none and lists none twice; `FlattenIsUnion` | the two folds are unfolded into runs, one accumulator per element (`FoldRuns`); along a run the accumulator allows what it did plus the elements passed, with no repetition (`PermissionAdds`, `RoleAdds`); the count goes up by `CountingUp` |
| `ListingByGrants` | a user may list users exactly when a role of theirs is granted `user`/`READ` in the tables | `FlattenAdds` over the lists the queries return, in any order |

`SuccessorBound`, `GuessBound`, `OneSessionPerCode`, `AgeBound`, `TrustEnds`, `SuspensionHolds`, `SeedComplete` and
`WalkMissesNobody` are not inductive:
each says something of a result and nothing of the requests that are about to change it. The
strengthenings add those requests, or what is already stored or read. TLC checks `LinksSpent`,
`SeedProgress` and `MissingIsAhead` in the runs; the others are in the proofs only.

The library's induction theorems take an operator as a parameter, which the provers here cannot
instantiate. `CountingUp` is the instance `FlattenAdds` needs, stated of a set of numbers
instead: a set with 0, and with n + 1 whenever with n, has every natural number, because otherwise a least
number would be outside it.

Only model-checked: `RotationEnds`, `AnswersDontWait` and `Drains`. Liveness is out of the prover's reach.
No module here needs ENABLED.

## 5. Not modelled

More than three quarters of the code under `src` is the Prisma client that `prisma generate` wrote
(`src/generated`), which is a library here: what its queries do is part of each action. Of what was
written by hand:
- service clients (`getToken`, `registerService`) are routed nowhere, and `api/rbac` is empty;
- validation, the mapping of errors to status codes, rate limiting, CORS, hashing and signing are stateless
  or a library's; a failure of any of them is the end of a request;
- `CacheService.remember` and the bulk operations have no caller; neither have unsubscribing, `once`, the
  wildcard, `connect` and `disconnect` of the event bus, so that its subscriptions never change after boot;
- the texts of the API documentation, configuration and templates;
- what is left of a sign-out when a later step of it fails: `Leave` in `AccessControl`, of which nothing
  is promised;
- the status of a user beside a second factor: `TwoFactor` has no status and `Account` no second factor, so
  a suspension between signin and `verify2fa`, or between two refreshes, is in no model;
- the columns of a seeded account other than its email, username and role;
- connections that never send a request, which delay a shutdown until a timeout of the server.
`adminSignin` takes the steps of `signin` for other users, and is mapped with it.

## 6. Plan

1. Done: `RefreshTokens`, `TwoFactor`, `TieredCache`, `AccessControl`, `Account`, `Seeding`,
   `Permissions` and `Directory`, with their proofs.
2. Done: `Sessions` and its refinement; `Lifecycle`; `TrustedDevices` over the cache; the proofs
   of `AccessControl`, and of what was model-checked only in `TwoFactor`, `Account` and `Seeding`.
3. Done: the proofs of what eviction does to L1 (`SizeBound`), of `TrustEnds`, of the types of the two
   users of the cache, and of flattening for lists of any length.
4. Next: sign-in and `verify2fa` opening the sessions of `Sessions`, so that one theorem goes from a right
   guess to the chain of refresh tokens.
5. When `isTrusted` gets a caller: skipping the second factor, as a disjunct of `TwoFactor`.
