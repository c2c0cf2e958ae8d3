# Verification of nest-prisma-admin

TLA+ models, TLC configurations and TLAPS proofs for the back end in `src/` (NestJS, PostgreSQL
through Prisma, Redis, RabbitMQ, WebSockets). Paths below are relative to the repository.

## 1. The system

Every HTTP request is handled by an `async` method of a service. Node runs a method without
interruption between two `await`s; at each `await` (a database query, a Redis command, a publish)
other requests, consumers and other instances of the program run. The services use no locks of their own, and
transactions only where a method writes several tables; the usual shape is *read, check, write
unconditionally*. That is where the program can go wrong, and it is the grain of the models: one
action per stretch of code between two awaits.

| Component | State | Operations | Interacts with | Hard behaviour | What makes it correct |
|---|---|---|---|---|---|
| Notice (`modules/notice`) | table `notices`; messages in the delayed exchange and the dead-letter queue | create, update, remove, removeBatch, publish, revoke, retry; consumer `handle`, `handleFailure`, `handleDead` | RabbitMQ, WebSocket gateway | consumers and requests interleave; failed pushes, sends that fail or fail though they arrived; redelivery; delays; expiry | a pending notice is carried by somebody; sent means pushed; not early; every message settles its notice |
| My notices (`my-notice.service.ts`) | read records | detail, readAll, unreadCount | Notice | upserts of several devices | one record per notice and user |
| Sessions and tokens (`modules/auth`) | Redis `session:*`, `user:sessions:*`, `rt:*` | login, refresh (rotation), logout, logout of all devices | OAuth, JWT strategy, gateway | keys written one by one, each with its own expiry; concurrent rotation and revocation | ended sessions stay ended; reuse ends a session; the set lists the active sessions |
| RSA keys (`rsa.service.ts`) | Redis `rsa:cur`, `rsa:pub`, `rsa:old` | rotate (timer, on demand), getPublicKey, decrypt | login | rotations of several instances | what a fetched key encrypts can be decrypted while the key is due |
| Password and lock (`password.service.ts`, `local.strategy.ts`) | `failedAttempts`, `lockedUntil` | validate, recordFailure, recordSuccess | login, OAuth link | concurrent failures | the threshold locks, again after each lock |
| Captcha | Redis `captcha:*` | generate, verify (GETDEL) | login | none: one atomic command | used once |
| OAuth (`modules/auth/oauth`) | Redis state, pending and exchange codes; `user_identities` | callback, exchange, register, link, bind, unbind | sessions, password | codes used twice; check-then-write on identities | codes used once; a user keeps a way to log in; removed users get no tokens |
| User context, data scope (`user-context.service.ts`, `data-scope.service.ts`) | Redis `user:*`, `dept:flat-tree` | cache-aside reads, invalidate | user, role, department services | fills racing invalidations | an entry is behind only in ways that are known, until it expires |
| Departments, menus (`modules/iam`) | trees by `parentId` | create, update (move), remove, tree | data scope | cycle and child checks before the write | no cycle, no orphan |
| Users, roles, permissions (`modules/iam`) | tables and join tables without foreign keys | CRUD, assign* | caches | removal racing assignment | no assignment to removed rows |
| Dictionaries (`modules/dict`) | types, items | CRUD | bootstrap | the default flag moves in a transaction with row locks; counts before removals | one default per type; items have a type |
| Configuration (`modules/config`) | rows, Redis `config:value:*` | CRUD, getValueByKey, refreshCache | - | cache-aside | as above |
| Files (`modules/file`, `shared/s3`) | rows, S3 objects | upload, download, remove | S3, users' avatars | two stores, each of which may fail; no foreign keys | a row has its object, an object its row, an avatar its file |
| Logs (`modules/log`) | log tables, queues | record, consume, fallback | RabbitMQ | the broker, the database and both processes fail | every request is logged in the end |
| WebSocket gateway | sockets, rooms | connect, broadcast, sendToUsers | sessions, Notice | sockets outlive sessions | - |
| Bootstrap and seed (`global/bootstrap`, `prisma/seed.ts`) | the system's own rows | onApplicationBootstrap of every instance, the seed script | menus, permissions, roles, dictionaries | instances that start together; crashes; edits in between | all of the seed or nothing; edits are kept |
| Prisma with soft delete, Redis, RabbitMQ, S3 wrappers, HTTP layer | - | - | all | - | - |

`PROJECT.json` lists the same components with their sources and, under `hazards`, every place that
a test would hardly reach, at its line.

## 2. Modules

| Module | What it is |
|---|---|
| `Notice` | the notice module: requests, consumer, broker slots, clock |
| `NoticeDelivery` | what it promises: the abstract specification `Notice` implements |
| `Session` | sessions and refresh tokens: one action per Redis command |
| `Rsa` | rotation of the key pair by several instances: one action per Redis command |
| `Accounts` | ways into an account: captcha, password and lock, OAuth codes and identities |
| `Access` | users, roles, permissions and menus with their link tables, configuration, and the copies of all of these in Redis |
| `DataScope` | pure: trees, `buildTree`, the data scope and the where clauses made from it |
| `DeptTree` | departments and users' references to them: one action per query |
| `Dictionary` | dictionary types and items, with the transactions and row locks of the default item |
| `Bootstrap` | extends `Dictionary`: the seeding transactions of instances and script on shared tables |
| `Logs` | login and operation logs from the answered request to the row |
| `Files` | files as a row and an object, and the avatars that refer to them |
| `MC*` | instances for TLC: what a behaviour may request, symmetry; `MCStores` runs `Files` and `Logs`, one in each behaviour |
| `NoticeProofs`, `SessionProofs`, `RsaProofs`, `AccountsProofs`, `AccessProofs`, `DeptTreeProofs`, `BootstrapProofs`, `StoreProofs` | theorems for every value of the constants; `StoreProofs` is about `Files` and, as an instance of its own with its variables, `Logs` |

`Bootstrap` composes two components that write the same tables; `DeptTree` takes its trees from
`DataScope`. The others meet in one fact each, which the module that needs it states: `Accounts`
ends where tokens are issued and `Session` begins there, `Access` sees a department tree as one
value, `DeptTree` shows what the value is.

In each module the definitions that come before a definition and carry the name of a mistake
(`ResendForgets`, `WriteKeepsOldKey`, `CommitAdminFirst`, ...) are variants of it; `PROJECT.json`
(`mutants`) names, for each checked property, the variant under which TLC finds it violated.

Conventions. A request that its checks refuse at once changes nothing and is not a step. A request
remembers what its method's local variables hold. Queries add `deletedId: 0`
(`soft-delete.extension.ts`), so removed rows are not found. Variables called `raced`, `late`,
`excused`, `abandoned`, `stray`, `unanswered`, `overlapped`, `lost`, `guess` are observations: no guard reads
them. A `mix` is the set of operations one behaviour may request; it keeps operations that touch
different rows from being multiplied with each other, while all that share rows share a mix.

### Notice

State: `row` is the table (its status, mode and date columns), `api` the administrator requests in
progress with what each remembers of the row it read, `mq` the message slots, `now` the clock.
`shown`, `lastEvent` and `abandoned` observe what was emitted over the WebSocket, and which notices
were made pending by a request that then died.

| Actions | Code |
|---|---|
| `Create`, `UpdateRead/Write`, `RemoveRead`, `RemoveBatchRead`, `RemoveWrite` | `notice.service.ts` create, update, remove, removeBatch |
| `PublishRead/Write/Send/SendFails/Done/Fail` | publish: check, unconditional update, send; direct push if the send throws and the notice is immediate |
| `RevokeRead/Write/Push`, `RetryRead/Write/Send/SendFails/Fail` | revoke, retry |
| `Handle`, `Expire`, `Promote`, `Push`, `Mark` | consumer `handle` |
| `Catch`, `Resend`, `ResendFails`, `GiveUp`, `HandleDead` | `handleFailure`, `handleDead` |
| `Settle`, `Redeliver`, `Abort` | the broker, and crashes |
| `Tick` | time |

`update` may omit any field of the DTO (`dto.sendMode ?? notice.sendMode`). Revoked notices may be
edited and deleted, as the code allows. Time is in ticks; a delay or expiry in days is a small
number of ticks. The broker delivers a message when its delay is over and in any order. When
`producer.send` throws, the broker may have the message all the same (a connection that is lost
before the answer), for every caller: `SendFails` for `publish` and `retry`, `ResendFails` for
`handleFailure`. Such an arrival counts as a fault (`"arrive"` in the mix, bounded by `MaxFaults`); a
send that fails without arriving is neither counted nor bounded. A database
error inside the consumer's `try` is `Catch`; outside it, the library rejects the message, which is
`Redeliver`.

The abstract `NoticeDelivery` knows one outcome per notice, the set of notices shown and the last
event sent about each; the refinement mapping makes `sendStatus` the outcome of every notice that
is not a draft. It does not know `retry`, the broker or the fallback; that all of these only *owe*,
*show*, *withdraw*, *confirm* or *give up* is what `ImplementsDelivery` says: clients see, and are
told to forget, only what was published.

### Session

State: `sess`, `index`, `rt` are the Redis keys `session:*`, `user:sessions:*`, `rt:*`, each with an
expiry time (a key is there while `exp > now`); `req` the requests in progress; `held` the tokens
clients got. `multiDevice` is the configuration value, either way. `EXPIRE` renews only a key that
exists, `SADD` on a missing key makes one without expiry, `SREM` of the last member deletes the set:
`Renewed`, `Added` and `Removed`.

| Actions | Code |
|---|---|
| `LoginBegin`, `RevokeUser*`, `Create*`, `Sign`, `LoginDone` | `AuthService.login`, `OAuthService.issueTokens`, `SessionService.create`, `revokeByUser`, `RedisService.sAdd`, `TokenService.signRefresh` |
| `RefreshRead`, `RefreshCheck`, `RotateOld`, `RotateNew`, `RenewSession`, `RenewIndex` | `TokenService.rotateRefresh`, `SessionService.renew` |
| `LogoutBegin`, `RevokeGet`, `RevokeDel`, `RevokeRem`, `RevokeUser*` | `JwtStrategy.validate`, `SessionService.revoke`, `revokeByUser` |
| `Crash`, `Tick` | a request dies, time passes |

Session ids and tokens are drawn in a fixed order (`CHOOSE` among the unused): `nanoid` and
`randomBytes` never repeat, and nothing depends on their values.

### Rsa

State: `store` is the three keys `rsa:cur`, `rsa:pub`, `rsa:old` with their expiry; `timer` when
each instance rotates next; `rot` the rotations in progress; `client` one client that asked for the
public key, until when it is due, and how often the pair was replaced since.

| Actions | Code |
|---|---|
| `Boot`, `Timer`, `Stop` | onModuleInit, performRotation and scheduleNextRotation, onModuleDestroy |
| `Fetch` | getPublicKey: answers, or rotates when there is no public key; nothing joins two such calls |
| `Get`, `SetCur`, `SetPub`, `SetOld`, `Fail` | rotateKeyPair, command by command |

A key pair is one value for both halves; `Decryptable` is decrypt, which tries the current and the
old private key. The clock stands while a rotation is in progress: four commands against minutes.
Pairs are drawn in a fixed order and bound the rotations of a behaviour.

### Accounts

State: `user` (removed, enabled, has a password, failed attempts, locked until), `identity` the
owner of each external account, `code` the one-time keys in Redis, each of which may expire at any
time, `req` the requests in progress.

| Actions | Code |
|---|---|
| `Create`, `SetStatus`, `Remove` | `user.service.ts`; a removal leaves identities and credential |
| `GenerateCaptcha`, `CaptchaWrong`, `LoginBegin` | `CaptchaService`, `LocalAuthGuard` |
| `Find`, `CheckLock`, `Compare`, `FailRead/Write`, `Success` | `LocalStrategy.validate`, `PasswordService` |
| `Touch`, `GiveCode`, `Exchange` | `issueTokens` and `AuthService.login`, `exchangeCode` |
| `GenerateAuthUrl`, `CallbackBegin`, `DelState`, `FindIdentity`, `StorePending` | `oauth.service.ts` handleCallback |
| `RegisterBegin`, `Register`, `LinkBegin` | registerNewAccount, linkExistingAccount |
| `BindBegin`, `BindBeginPlain`, `FindOwner`, `CheckSelf`, `CreateIdentity` | bindIdentity, with and without PKCE |
| `UnbindBegin`, `CountOthers`, `UnbindWrite` | unbindIdentity |
| `Expire`, `Abort`, `Tick` | a code expires; a query, Redis or the provider fails; time |

A password is right or wrong. The unique indexes of `user_identities` decide in the step that
writes (`MayCreate`). The failed count is not reset when a lock runs out, so one more wrong password locks
again; `GuessesAreCounted` says exactly that. A failure is not counted when the request ends before it
is written or another attempt overlaps; `guess[u].excused` observes both.

### Access

State: `row` (removed, status) of users, roles, permissions and menus; `parent` of menus; `link` the
three join tables; `configKey` and `data` of configuration rows, users and the department tree;
`cache` the Redis entries `user:*` (row, role codes, permission codes), `config:value:*` and
`dept:flat-tree`; `req` the requests in progress.

| Actions | Code |
|---|---|
| `CreateRow`, `SetStatus` | create and update of users, roles, permissions, menus |
| `AssignBegin`, `CountRows`, `Assign` | assignRoles, assignPermissions, assignMenus: count, then one transaction |
| `RemoveBegin`, `CountUsers`, `CountChildren`, `Remove` | the four remove methods |
| `CreateBegin`, `Create`, `MoveBegin`, `CheckParent`, `AssertNoCycle`, `Move` | `menu.service.ts` create and update with its cycle check |
| `WriteBegin`, `Write`, `ConfigCreate`, `RefreshCache` | `user.service.ts` update and assignDataScope, the writes of `dept.service.ts`, `config.service.ts` |
| `Del`, `DelFails` | `UserContextService.invalidate` (one DEL of three keys), invalidateDeptTree, the two DELs of a configuration row's old and new key |
| `FillBegin`, `FillQuery`, `FillLinks`, `FillRows`, `FillSet`, `FillFails`, `Expire` | getUser, getRoleCodes, getPermissionCodes, getValueByKey, getFlatDeptTree |

`Source` is what a fill would store if it read everything at once, `Track` the bookkeeping for
`FreshUnlessExcused`. An entry is the set of the one value it holds. `Tree` is the department tree
as a single value: what `DeptTree` calls its table.

### DeptTree and DataScope

State: `dept` is the table (parent, and whether the row is removed), `user` each user's department
and custom scope, `req` the requests in progress (`at` and `visited` are those of `assertNoCycle`).
`raced` observes whether two moves have overlapped, and whether a remove has overlapped another
writing request.

| Actions | Code |
|---|---|
| `CreateRead/Write` | `dept.service.ts` create: parent found, insert |
| `UpdateRead`, `CheckParent`, `AssertNoCycle`, `UpdateWrite` | update with a `parentId`; `assertNoCycle` is one action per turn of its loop, that is per query |
| `RemoveRead`, `CountChildren`, `CountUsers`, `RemoveWrite` | remove; the last is its transaction |
| `UserRead`, `CheckDept`, `UserWrite` | `user.service.ts` update with a `deptId` (create checks the same) |
| `ScopeCount`, `ScopeWrite` | assignDataScope: the count inside the transaction takes no lock on departments |
| `Abort` | a failing query, a taken code, a crash |
| `DeptAndChildren`, `Turn` | getDeptAndChildren and one turn of its `while` loop |
| `Resolve`, `DeptWhere`, `LogWhere` | resolve, buildDeptWhere, buildLogWhere |
| `UserList`, `LoginLogList`, `OperationLogList`, `DeptList` | the lists made with them |
| `Roots`, `Shown` | `build-tree.ts` |

An update without `parentId` does not touch the tree, and one that makes a department its own
parent is refused at once. The parent of a removed row is never seen and not kept. A user's
`dataScope` is left out, the properties of the lists quantify over all levels instead. Where clauses
are the sets of `deptId` they admit; `Subtree` and `Allowed` are the reference definitions, by
closure and by the meaning of the five levels (`user.dto.ts:208`).

### Dictionary and Bootstrap

State of `Dictionary`: `type` and `item`, and the requests with the ids of the items whose row
locks a transaction holds. State of `Bootstrap` besides: `admin`, `password`, `row` (menus,
permissions and role ADMIN: missing, as seeded or edited), `granted` (the role's links), `boot` (the
seeding processes).

| Actions | Code |
|---|---|
| `CreateType`, `UpdateTypeBegin`, `UpdateType`, `RemoveTypeBegin`, `CountItems`, `RemoveType` | `dict-type.service.ts` |
| `CreateItemBegin`, `UpdateItemBegin`, `ClearDefaults`, `LockDefaults`, `CreateItem`, `UpdateItem`, `Abort` | `dict-item.service.ts`: `updateMany` selects committed rows, waits for their locks, changes those that still match; the row's own write and the commit are the last step |
| `RemoveItemBegin`, `RemoveItem` | remove |
| `Start`, `Check`, `Select`, `InsertAdmin`, `Plan`, `Commit`, `Crash` | `bootstrap.service.ts` onApplicationBootstrap |
| `Main`, then the same from `Select` on with `Keep` choosing what is set back | `prisma/seed.ts` |
| `Edit`, `Unlink`, `ChangePassword` | what administrators do to the seed's rows |

PostgreSQL runs these transactions at its default level, read committed. `Select` and `InsertAdmin`
are the upsert of the user `admin`, whose unique index makes a second transaction wait; `Plan` reads
which of the other rows are missing and `Commit` writes them, or fails if another transaction has
inserted one of them.

### Logs

State: `entry` where each entry is in the process that logs it, `msg` its message, `rows` the two
tables, `now` the day. `Finish` is the end of a handler or the event `auth.login`; `GetUser`,
`Publish`, `PublishFails` and `RecordNow` are `OperationLogInterceptor` and `LoginLogListener` with
`LoginLogProducer` (a failed publish, which may have arrived, falls back to a direct insert); `Deliver`, `Consume`, `Ack` and
`ConsumerDies` are broker and consumers; `Insert` and `Swallow` are the services' `record`, `Clean`
their `clean`. Rows of one entry are distinct (`nth`), also when they are written on one day. Because `record` swallows database errors, a consumer acknowledges every message and
the dead-letter queue of logs never receives one: that is why there is no such action.

### Files

State: `object` the objects in S3, `bucket` whether it exists, `file` the rows, `avatar` the users'
`avatarFileId`. `UploadBegin`, `Put`, `Create` and their failures with the compensating
`DeleteObject` are `upload`; `DeleteBegin`, `DeleteRow`, `DeleteCommit`, `DeleteObject` are `delete`;
`ProxyBegin` and `GetObject` are `getStreamById`; `AvatarBegin` and `SetAvatar` are users' create and
update: the file is looked for, then the user is written unconditionally; `OnModuleInit` is
`S3Service`'s. The database has no foreign keys (`relationMode = "prisma"`, `schema.prisma:8`): that
an avatar is set to null when its file is deleted (`onDelete: SetNull`, `schema.prisma:52`) is done by
Prisma, which in the transaction of the deletion reads the users that have the file (`DeleteRow`),
then clears the avatar of these and deletes the row (`DeleteCommit`). `overlapped` observes the files
of which a deletion and a user's update were in progress at the same time. A call that fails may have taken effect
(`arrived`), and a request may die anywhere (`Crash`).

## 3. What the runs check

| Run | Instance | Properties |
|---|---|---|
| `notice_serial` | 1 notice, 1 request at a time, 2 slots, 2 faults; 4 mixes: failed sends arrive while pushes fail, or while notices are revoked; pushes fail; all operations with redelivery and requests that die | `TypeOK`, `OneCarrierPerFault`, `NotBeforeDue`, `NoPushAfterDone`, `Settles` |
| `notice_concurrent` | 2 concurrent requests (create, publish, revoke, retry), all kinds of faults, 1 counted fault | `PendingHasCarrier`, `DoneWasPushed`, `ImplementsDelivery` |
| `notice_revoked` | create, publish, revoke, 1 request at a time, no fault | violates `RevokedStaysRevoked` |
| `notice_twice` | create, publish, 2 concurrent requests, no fault | violates `NeverPushedTwice` |
| `session_serial` | 1 user, 1 request at a time, 3 sessions, 4 tokens, both configurations | `TypeOK`, `ActiveSessionsListed` |
| `session_concurrent` | 2 concurrent requests that may be slow, 1 session, 3 tokens, 1 crash | `DeadStaysDead`, `ReuseEndsSession` |
| `dept_tree` | 3 departments in any sound tree, 1 user, 2 concurrent requests | `TypeOK`, `AcyclicUnlessUpdatesRace`, `NothingDanglesUnlessRemoveRaces`, `EveryNodeShown`, `ScopeIsSubtree`, `ListsRespectScope`, `WalkProgresses` |
| `rsa` | 1 or 2 instances, 2 rotations at once, 3 pairs; rotation every 2, TTL 4, buffer 1, clock to 7 | `TypeOK`, `FetchedKeyWorks`, `OneInstanceRotatesOnce` |
| `accounts` | 2 users, 3 external accounts of a PKCE and a plain provider, 2 codes, 2 requests, threshold 2, lock 2, clock to 5; 5 mixes | `TypeOK`, `AlwaysAWayIn`, `CodesUsedOnce`, `RemovedGetNoTokens`, `GuessesAreCounted` |
| `access` | 1 user, 2 roles, 1 permission, 3 menus, 1 configuration row with 2 keys, 2 requests; 8 mixes | `TypeOK`, `NothingRefersToRemoved`, `MenusAreAForest`, `FreshUnlessExcused` |
| `bootstrap` | 2 instances and the script, 2 types, 3 items, 2 values, 2 requests; 5 mixes | `TypeOK`, `OneDefault`, `ItemsHaveTypes`, `SystemDataStays`, `BootstrapKeepsEdits` |
| `stores` | `Files`: 2 files, 1 user, 3 requests, 1 fault; `Logs`: 2 entries, 2 days, 3 faults | `TypeOK`, `ObjectsMatchRows`, `WrittenOncePerFault`, `EveryRequestIsLogged` |

Bounds. Requests interfere pairwise: every check that can be overtaken is overtaken by one other
request, so two at once are enough except in `Files`, where an upload, a deletion and an avatar meet.

* *Notice*: notices do not interact except in `removeBatch`, whose handling of one id is that of
  `remove`, so one notice is enough; two slots hold a message and the retry it sends (one would make
  `Resend` impossible); send time 2 on a clock up to 3 puts a tick before, at and after it;
  `MaxRetry = 1` has an attempt that is retried and one that gives up (the code's is 3). The mixes keep
  kinds of faults apart that need not meet; two faults are two extra carriers, or an arrival and one
  of what follows from it.
* *Session*: TTL 2 and the clocks used let a key be renewed and let one expire; three sessions and
  four tokens allow two kicks and two rotations, and a login blocks when ids run out.
  `session_concurrent` has one session: sessions share nothing but the user's set, and
  `DeadStaysDead` is proved for any number.
* *DeptTree*: three departments are the fewest in which the cycle check must look past the
  grandparent, and in which it can enter a cycle that does not contain the department it moves. The
  same holds of the three menus of *Access*.
* *Rsa*: a TTL of two rotation periods is the least for which `validateConfig` does not warn; three pairs allow the
  two replacements after which a client's pair is gone; the clock to 7 has three turns of the timer.
* *Accounts*: three external accounts are two of one provider (the unique index per user and
  provider) and one of another; a threshold of 2 has a failure that does not lock, one that does and
  one after the lock ran out.
* *Access*: two roles let an assignment replace one by the other; one configuration row with two
  keys covers a change of key, and the key's return.
* *Bootstrap*: one menu, one permission and one role stand for the rows that are upserted in the
  same way; three items are two defaults and one that is being made the default.
* *Logs*, *Files*: entries and files do not interact but for requests about the same one. The two
  components share nothing, so `MCStores` lets one of them move in each behaviour (`part`). One
  fault of `Files` is any one failing step of three requests; two faults were checked without
  `Logs` (1.3 million states), and the theorems are for any number. The three faults of `Logs` are a
  failure, one of what is done about it and one more.

`CHECK_DEADLOCK FALSE` everywhere: clocks and ids are bounded and nobody is obliged to send a
request, so the system may come to rest.

Fairness. `Notice` has weak fairness of `Tick`, of each request in progress and of each message's
consumer: Node resumes a method whose promise is settled, RabbitMQ delivers to a connected
consumer, and connections are re-established (`reconnectTimeInSeconds`). `Logs` has the same for
the process that logs an entry and for its message. `Session` has weak fairness of requests.
Nothing obliges anyone to issue a request, and faults are never fair; `Settles` holds although
pushes may fail whenever they are tried, because the number of attempts is bounded. The other
modules state safety only and have no fairness.

### What the violations say

`notice_revoked`: the consumer reads a scheduled notice, an administrator revokes it, the
consumer's unconditional update publishes it and the push goes out; a comment says revoked
notices are skipped.

`notice_twice`: two publications read the draft, both pass the check, both update and send. One
consumer reads the notice (`sendStatus` 0), the other pushes and marks it, then the first pushes it
too. `README.md:420` and the comment at `notice.consumer.ts:87` say that the conditional update
avoids duplicate pushes under concurrency; it comes after the push, and its count decides nothing
any more.

### What the properties had to except

Most properties say what holds *unless* requests overlap, because that is what the code does: the
checks are made before the write. Each exception is a behaviour of the code:

* `AcyclicUnlessUpdatesRace`, `MenusAreAForest`: two overlapping moves can make a cycle (each walks before the
  other has written). It stays: its nodes hang from no root, so the tree of the response omits them,
  while the search for the data scope and later cycle checks still end (`ScopeIsSubtree`,
  `WalkProgresses`).
* `NothingDanglesUnlessRemoveRaces`, `NothingRefersToRemoved`, `ItemsHaveTypes`: a remove that
  overlaps a creation, a move or an assignment leaves a reference to the removed row.
* `OneCarrierPerFault`: a send that fails though its message arrived leaves the message beside the
  fallback push, or beside a notice that is marked as failed and may be retried; a redelivery or a
  request that dies may leave a message beside what a retry sends. Each costs one carrier more. Two
  overlapping requests may add a carrier without a fault.
* `NoPushAfterDone`: with a second message the first consumer's mark does not keep the second from
  pushing, if that has read the notice before. It is therefore stated of the behaviours in which one
  carrier cannot become two messages: no failing push (the handler that fails after its push resends),
  no failed send that arrives, no overlapping requests. Redelivery, failing sends with their direct
  push, and requests that die are in.
* `PendingHasCarrier`: a request that dies between making a notice pending and sending the message
  leaves it pending for ever, since `retry` demands `sendStatus` -1 (`abandoned`).
* `ActiveSessionsListed` needs that the requests about a user do not overlap: `revokeByUser` deletes the whole set after
  deleting the sessions it read from it, and a session created in between stays active outside of
  the set (`session.service.ts:49-53`). Two refreshes that both read an active token both rotate it
  (`token.service.ts:61-85`).
* `FetchedKeyWorks`: rotations that overlap or break off can leave public and private key of
  different pairs until the next rotation that runs alone. `OneInstanceRotatesOnce`: clients that
  find no public key at the same moment each rotate.
* `GuessesAreCounted`: concurrent failures are counted as one, and one whose write fails is not counted. `AlwaysAWayIn`: two overlapping
  unbinds can remove the last two identities. `CodesUsedOnce`: two callbacks can pass with one
  state between its GET and its DEL.
* `FreshUnlessExcused` lists how an entry can be behind its rows: its DEL is on the way or failed,
  a fill stored what it had read before, or the change was one that deletes nothing: status of roles
  and permissions, `assignPermissions`, and every removal. Such an entry lives until its TTL.
* `OneDefault`: overlapping transactions, each of which sees only committed rows, leave two default items;
  so does the seed when it comes on top of an administrator's default.
* `BootstrapKeepsEdits` is about rows; the links of ADMIN that an administrator removed are created
  again by an instance that commits late (`bootstrap.service.ts:111`). `seed.ts` sets rows back by
  design.
* `EveryRequestIsLogged`: an insert that fails loses the entry, since `record` swallows the error.
  `WrittenOncePerFault`: the broker may have a message whose publish failed, and delivers again what a
  dead consumer has written already; each costs one row more. `ObjectsMatchRows`: a
  failed removal or a request that dies leaves a stray object; an insert that was committed but not
  acknowledged leaves a row without one; a user's create or update that has found the file while it
  is being deleted leaves an avatar that refers to no file (`overlapped`), although the schema says
  `onDelete: SetNull`.
* `ListsRespectScope` bounds what lists show from above. That what a viewer asks for narrows the
  list is stated in no property, and for one level it does not (below).

Seen while modelling and in no property: revoking tells clients according to the status it read, so
a notice promoted in between is not withdrawn (`notice.service.ts:255-256`); `buildDeptWhere`
ignores the requested department of a viewer who may see everybody, although its comment says they
are intersected (`data-scope.service.ts:78-84`; `buildLogWhere` beside it intersects them); deleting a file leaves the `avatarFileId` in cached users.

## 4. What is proved

Every invariant and every action property that a passing run checks is proved. The theorems hold for
every value of the constants that satisfies the module's named
assumption (`NoticeAssumption`, `SessionAssumption`, `RsaAssumption`, `AccountsAssumption`,
`AccessAssumption`, `DeptAssumption` and `DeptTreeAssumption`, `DictionaryAssumption` and
`BootstrapAssumption`, `FilesAssumption`): types of the constants, distinct names and null values, and
what is finite where something is counted or searched (departments, the requests of `Accounts`, the
instances and rotations of `Rsa`). `RsaAssumption` demands of the configuration what
`validateConfig` demands. Otherwise any number of requests, messages, sessions, users, roles, menus,
files, items, instances, codes and faults. The theorems about `Logs` are stated of `Logs!Spec`, the
specification of `Logs` with other variables than those of `Files`, and take what they assume of the constants
as a hypothesis (`LogBounds`).

Some theorems are about the behaviours in which certain requests do not overlap. What they exclude is
a temporal hypothesis, a state predicate that holds throughout, and it excludes as little as the code
allows: with the overlap the properties do not hold of it (section 3).

| Theorem | Throughout | Besides |
|---|---|---|
| `CarriersArePaidFor`, `NeverEarly`, `NeverPushedAgain` | `OnePerNotice`: no two requests in progress are about one notice | the faults that the properties name |
| `SetIsComplete` | `OnePerUser`: no two requests in progress are about one user | `Faults = {}`: none dies or outlasts a tick |
| `OneSuccessor` | `OnePerToken`: no two refreshes between reading a token and marking it have one token | nothing: slow and dying requests included |

Any number of other requests and of consumers may be in progress at the same time. The serial
runs check the properties where one request at a time makes the hypotheses true. With the hypothesis
as a constraint, TLC also found no error in instances with two users and two requests (all states,
the inductive invariants included) and with two notices and two requests (some millions of states).

Types. Each `TypeCorrect` is inductive only with what a request knows at its steps (`Aimed`,
`Addressed`, `Knows`): a step that uses an id has one. `NoticeProofs` adds that a message to be resent
has attempts left (`RetryBudget`), `AccountsProofs` that a code is about what its kind says, `AccessProofs`
that an entry holds at most one value.

Notice.

* `PendingIsCarried`: no step of a request or a consumer drops the last carrier of a pending notice.
  One step per action, each showing which carrier remains or takes over.
* `SentWasShown`: with "a message at `mark` and a request at `publishDone` belong to a notice that
  was shown".
* `DeliveryImplemented`: a step maps to `Owe`, `Show`, `Withdraw`, `Confirm`, `GiveUp` or a stutter.
  It needs that a notice with a carrier, or a request past its write, is not a draft any more, which
  holds because nothing returns a notice to draft.
* `CarriersArePaidFor`: the bound is not inductive: a notice that has no carrier may get one, by a
  publish while it is a draft, by a retry while it is marked as failed. `PaidFor` counts that
  in: the messages of a notice, one if a request has it in hand (`Handling`), and one if it may get a
  carrier (`Open`: it is a draft, is marked as failed, or a publish or retry has checked it and not
  written yet) are together at most one more than the faults. A publish or a retry spends the
  openness, a fallback or a dead letter turns a carrier into openness, and only a redelivery, a dead
  request or an arrival adds to the sum. It is said of each notice by itself, and a step leaves every notice alone
  but the one its request or message is about (`ProceedFrame`), so that requests about different
  notices may overlap.
* `NeverEarly`: every message of a timed notice is due no earlier than the notice's send time
  (`Dated`), and a request that is about to send has read the schedule that the row still has
  (`Snapshot`). Only drafts and revoked notices are edited; a draft has no message yet, and
  `revokeTime` is never cleared.
* `NeverPushedAgain`: redelivery adds no message, so while pushes succeed and failed sends do not
  arrive every notice has one message (`Lone`), and one at `promote` or `push` belongs to a notice that
  is not marked.

Sessions and keys.

* `EndedForGood`: the only command that moves a session's expiry forward is `EXPIRE` on a live key;
  `SETEX` is used for fresh ids only.
* `SetIsComplete`: an active session is in its user's set and the set outlives it, but for the moment
  between the two commands that make or renew both (`IndexInv`); no key expires later than one set now
  would (`ExpiryInv`); a revocation of all sessions has read all the active ones (`OngoingInv`).
  A request is about one user, its own or its session's owner (`UserOf`), and touches no key of another
  (`Frame`).
* `OneSuccessor`: a refresh that has not marked its token yet finds it as it read it (`StillActive`),
  since only refreshes with the same token write it.
* `RevocationIsKept`: the safety half of `ReuseEndsSession`. A request that has begun to end a session
  stops only when the session is dead or with its own death; `EndedForGood` keeps the session dead.
* `FetchedKeysWork`: while no rotation overlaps, `rsa:pub` and `rsa:cur` agree outside of the
  middle of a rotation, the current one living longer (`StoreInv`); a client's pair is the current
  one with an expiry after the client's deadline, or, after one replacement, the previous one
  likewise (`ClientInv`). The client's time is cut to that of `rsa:pub` and to a period, which is
  less than the time to live.
* `OneInstanceOnce`: an instance has one turn at a time and no timer meanwhile (`TurnInv`); the timer
  that ends before a client's deadline has not replaced the pair yet, and the next one ends after
  it (`OnceInv`). A restart does not rotate while there is a key.

Accounts.

* `UsersKeepAWayIn`: what an unbind has counted must still be there when it removes its row. An
  unbind that is not stale is about its own user's identity; two unbinds of one user are noticed
  (`raced`); what the count found holds until the write. Only an unbind takes an identity from a user,
  and nothing takes a password.
* `NothingForTheRemoved`: a callback that found a removed user is at the update of its row, and the
  user is still removed.
* `CodesWorkOnce`: the property is inductive. A callback that goes on with a state joins those
  that will delete it; a deletion, or a callback that dies before it, takes the count with it.
* `GuessesCounted`: unless excused, one request at a time tries a password, what the row counts
  is what was missed but for the one failure on its way, and who compares has seen no lock (`CountOf`).

Links, trees and copies.

* `NoCycleUnlessUpdatesRace` and `NoMenuCycle`: acyclicity alone is not inductive, since the write
  trusts a walk made earlier. While only one move is in progress, the rows it has visited are a
  certificate: each has its parent among them or is where the walk stands, the moved row is not
  one of them, and creations and removals cannot invalidate this (a created row has no children, a
  removed one ends the walk). At the write the walk has ended at a root, so a cycle through the new
  edge would have to pass through the visited rows and never leave them.
* `WalkIsFinite`: a turn that continues adds a department that was not visited; it needs that the
  walk never stands at a visited one.
* `NothingDangles`: without overlap a remove is the only writer, so its two counts still hold when it
  writes; every other writer's checks hold until it writes because no remove runs. `NothingRefers` is
  the same for links (`LinkInv`) and for parents of menus (`ChildInv`), each with its own kind of overlap.
* `CopiesAreFresh`: a fill that is not `late` holds what the tables say now, also half-way, between
  the ids of the links and the rows of the second query; a write that is not late holds the keys of
  all entries it changes, which needs that no two configuration rows share a key (`CopyInv`). Every
  write then either leaves the source of an entry, or deletes the entry afterwards, or excuses it.
* `ScopeIsComputed`, `ScopeHolds`: induction over the turns of a loop. The library's induction
  theorems take an operator, which the provers cannot instantiate, but that every set has a minimal
  element of a well-founded relation (`WFMin`) is a fact about sets, and so is that finite sets are
  well-founded under inclusion. From these follow induction over the naturals for a set
  (`NatSetInduction`), that the recursive function of `DeptAndChildren` is defined (`Iterates`,
  `SearchIsDefined`), and the invariant of the search: what was visited lies below the root, a visited
  department that is no longer queued has its children visited, and each turn with a queue finishes one
  department, so that as many turns as there are departments empty the queue. `ScopeHolds` follows
  by cases of the five levels.
* `TreeIsComplete`: departments that are not shown would have their parents among themselves, which is
  a cycle; `NoCycleUnlessUpdatesRace` excludes it.

Dictionaries, seed and files.

* `SeedIsComplete`: with "the type that has the seed's code is a system type", which requests neither
  rename nor remove, and "a row that a transaction found is there when it commits", because nothing
  removes rows of the seed. Requests are served only while an instance runs, and then there is an
  administrator.
* `NoItemWithoutType`: with "an item that is being created has its type, and a type about to be removed
  has no item and gets none, unless the two overlapped". Each side checks before it writes; the
  invariant says that what it has found still holds, or that the other side was noticed.
* `DefaultIsUnique`: while no two transactions that set a type's default have overlapped, at most one is
  under way, and the defaults are among the items whose locks it waits for, or its own (`SetAlone`); an
  update stays with the type its item has (`UpdatesOwn`).
* `EditsStay`: a property of the commit alone, given types: it writes what was missing and fails if a
  row appeared meanwhile.
* `RowsAndObjectsMatch`: with what a request knows of its file at each step: an upload's file has no
  row and belongs to nobody else until its row is written, its object is stored when the row is about to
  be, a deletion that removes an object has removed the row before, and an upload that is undone has no
  row but an unacknowledged one. Unless the two overlapped, a user is given a file that is there and that
  nobody deletes (`Given`), and a deletion about to commit has read every user whose avatar the file is
  (`Listed`).

Logs.

* `LogsTypes`, and `LogsDropNothing`, the safety half of `EveryRequestIsLogged`: an entry that is in
  its process or in the queue gets out of there only by being written or lost.
* `LogsWriteOnce`: that there are at most as many rows as faults, and one, is not inductive: a row may
  still be to come. The rows of an entry, and the writes that its process and the queue still owe, are
  together at most one more than the faults (`PaidFor`); a write turns an owed row into a row, and only
  a failed publish that arrived, or a consumer that died after its write, owes one again.

Only model-checked: liveness (`Settles`, `ReuseEndsSession`, `EveryRequestIsLogged`), which is out of
the prover's reach, and the two violations. What these need of each single step is proved: a pending notice
has a carrier (`PendingIsCarried`), a revocation is not left half-way (`RevocationIsKept`), an entry
is not dropped (`LogsDropNothing`); that the steps are taken is left to TLC. `RotatedOnce`,
`EndsWhatItRevokes` and `NoEntryIsDropped` are proved and belong to no run of their own. All inductive
invariants of the serial theorems of `Notice` were also checked by TLC on the instance of
`notice_serial`.

## 5. Not modelled, and the plan

Not modelled: read records of notices (`my-notice.service.ts`: one upsert per notice and user that
nothing else reads); WebSocket connections and the count of who is online (no stored state depends
on them); the captcha's image and the configuration that disables it; presigned URLs (computed
from a row); what seed rows hold; lists and details without a scope; HTTP layer, health, i18n,
logging, configuration values, DTO validation: no state, or no steps to interleave.

External code is modelled from how `src/` uses it: Redis commands are atomic, PostgreSQL is at
read committed with unique indexes and row locks, RabbitMQ delivers at least once, S3 calls may
fail before or after they took effect.

What is left: nothing of the plan for the modules above. Should one of the overlaps that the properties
except be closed in the code (a lock, a conditional update), its exception goes from the property, its
hypothesis from the theorem, and the proof says whether the change suffices.
