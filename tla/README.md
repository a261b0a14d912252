# Sovran: TLA+ models, checks and proofs

Sovran is a chat service: an HTTP API, a WebSocket gateway and a worker, over
PostgreSQL, Redis, NATS, MinIO and ClamAV. This directory models its core as
TLA+ modules, checks them with TLC on small instances and proves theorems about
them with TLAPS. Paths below are relative to the repository; `PROJECT.json`
maps every definition to the lines it stands for and lists the runs, mutants,
findings, hazards and theorems.

## Running it

    tlc -workers 2 -config RefreshTokens.cfg MCRefreshTokens
    tlapm RefreshTokensProofs.tla

The module of each configuration is named under "Runs" below. The violation
runs are meant to end with a counterexample.

## Inventory

The processes share one PostgreSQL database through
`packages/db/src/client.ts`: `withTransaction` takes a pooled connection, sends
BEGIN, runs a callback, sends COMMIT, and on any exception ROLLBACK. The
isolation level is PostgreSQL's default, READ COMMITTED: each statement sees
what was committed when it began, and an UPDATE that meets a row another
transaction has updated waits for that transaction and tests its WHERE clause
again on the row's new version. Almost no read takes a lock. **A check made on
a row that was read earlier in the transaction can therefore be stale when the
write that depends on it happens**; this, and failures between the systems
that no transaction spans, is what makes the program hard.

| Component | State | Operations | What makes it correct |
| --- | --- | --- | --- |
| Refresh-token sessions (`domain/src/auth-service.ts`, `db/.../refresh-token-repository.ts`) | `refresh_tokens`: user, family, expiry, `revoked_at` | login, refresh (rotation, reuse detection), logout, revocation on deletion, sweep | a superseded or revoked token is never usable again; a session stays with its user; a revocation misses nothing it saw |
| Registration, invite codes (`domain/src/auth-service.ts`, `db/.../invite-code-repository.ts`, `user-repository.ts`) | `users`, `invite_codes.use_count` | register | an invite is not used more often than it allows; no two accounts have the same username |
| Users, account erasure (`worker/src/jobs/deletion.ts`) | `users.deleted_at`, `username` | claim, revoke tokens, anonymise, `USER_DELETED` | a deleted account is anonymised, announced, and signed out for good |
| Servers, members, server invites (`domain/src/server-service.ts`) | `servers`, `members`, `server_invites` | create, join, leave, delete, owner transfer, invite | one owner who is a member; invites are not overused |
| Channels (`domain/src/channel-service.ts`) | `channels` | create, rename, delete | the limit and unique names hold under concurrency |
| Messages (`domain/src/message-service.ts`) | `messages`, `message_attachments` | send, list, delete | paging misses and repeats nothing; each deletion is announced; an attachment is linked only once scanned |
| Attachments (`domain/src/attachment-service.ts`, `worker/src/jobs/attachment-scan.ts`, `server-deletion-purge.ts`) | `attachments` rows, objects in MinIO | init, PUT, complete, link, scan, stuck-scan recovery, purge | what can be downloaded passed the scan; every upload is judged; a deleted server's objects go |
| Outbox and publisher (`db/src/outbox.ts`, `worker/src/outbox-publisher.ts`) | `outbox_events`, the NATS client's buffer | append, claim, publish, mark, sweep | only committed events are published; none is lost; order is kept |
| Gateway (`apps/gateway`) | sockets, their topic subscriptions, NATS subscriptions | upgrade, open, message, close, fan-out | a member receives the events of the server in order, all but those that pass while its gateway is away or it is slow; nobody else does |
| Presence, typing | Redis keys with a TTL | setOnline, setStatus, setOffline, typing | a user is online while one session lives |
| Rate limiters (`shared/src/rate-limiter.ts`, gateway, API plugin) | counters | check | no more than the limit in a window |
| Snowflake ids (`shared/src/id.ts`) | last timestamp, sequence | generate | unique and increasing ids |
| Tokens (`shared/src/auth`) | JWT keys | sign, verify, rotate | a rotated key still verifies what it signed |
| Retention job | none | delete old tokens and published events | nothing still needed is swept |
| HTTP API, protocol schemas, configuration, logging, tracing, migrator | none that another part depends on | parse, authenticate, delegate | (pure I/O) |

How they interact: the API calls the domain services. Each changes its tables
and appends an outbox row in one transaction. The worker's loop hands those rows
to NATS; each gateway subscribes to NATS and sends to the sockets of a topic.
The worker also starts the scan, purge, deletion and retention jobs from
timers which do not wait for the last run to end. Those jobs work on
the tables the API writes, while it writes them.

What is hard, and where (each is a hazard in `PROJECT.json`, with its line):

- stale reads: refresh reads its token, completeUpload its status, sendMessage
  its attachments, register its invite, createChannel its count, all unlocked;
- row locks taken in different orders by family-wide and user-wide UPDATEs;
- the outbox is one transaction with the domain change, but not with NATS;
- object storage is not part of any transaction: presigned PUTs arrive at any
  time, deletions of objects fail and are ignored;
- a scan can outlive its timeout, be taken back, claimed again, and still write;
- jobs that die between two steps, and overlap themselves;
- queries with a LIMIT and no ORDER BY, on rows that go on matching (scan, purge, deletion job);
- NATS and sockets deliver at most once, uWS passes over clients that read too
  slowly; sessions of one user share one key;
- a socket's topics are decided once, from a query that is answered after other
  things have happened;
- clocks are set back and processes forget their counters when they restart.

## Modules

| Module | Role |
| --- | --- |
| `RefreshTokens` | login, refresh, logout, erasure's revocation and the sweep, statement by statement |
| `RefreshTokensProofs` | its inductive invariant and theorems |
| `EventDelivery` | abstract specification: what the outbox promises the rest of the system |
| `OutboxPublisher` | the outbox table, the workers' loops, their NATS clients, faults; implements `EventDelivery` |
| `OutboxPublisherProofs` | its inductive invariant, theorems and the refinement |
| `AttachmentPipeline` | upload, link, scan and purge, composed of the API, the scan job and the purge job over the shared rows and objects |
| `AttachmentPipelineProofs` | its inductive invariant and theorems |
| `Presence` | the sockets of a user at several gateways, the Redis key they share, what members are told |
| `PresenceProofs` | its inductive invariant and theorems |
| `Communities` | servers, members, invites and channels under concurrent calls |
| `CommunitiesProofs` | its inductive invariant and theorems |
| `Accounts` | registration with its invite and username, erasure, and the calls about an account, composed with `RefreshTokens` (an instance of it) |
| `AccountsProofs` | its inductive invariant, theorems and the refinement of `RefreshTokens` |
| `SnowflakeIds` | the id generator of each process, its clock and its restarts |
| `Messages` | sending with rate limit and ids, deleting, paging back; an instance of `SnowflakeIds` in it |
| `MessagesProofs` | its inductive invariant, theorems and the refinement of `SnowflakeIds` |
| `Gateway` | subjects, NATS, the bridge of each gateway, connections, their topics and whether they keep up |
| `GatewayProofs` | its inductive invariant and theorems |
| `MC...` | symmetry sets for TLC |

### RefreshTokens

`status`, `owner`, `family` and `deleted` are the committed database; `txn[r]`
is an open transaction: the statement it is at, the row it read, what its
UPDATE has matched and locked, the row it has inserted and not committed.

| Action | Code |
| --- | --- |
| `Login`, `Insert`, `Commit` | `AuthService.login`: find, verify, INSERT, COMMIT |
| `Refresh`, `UpdateStart`, `UpdateRow`, `UpdateEnd`, `Insert`, `Commit` | `AuthService.refresh` of a live token: SELECT by hash, `revokeFamily`, INSERT, COMMIT |
| `RefreshReused`, `UpdateStart`, ..., `UpdateEnd` | the branch for a revoked token: `revokeFamily`, then `throw`, which rolls back |
| `Logout`, `UpdateStart`, ..., `Commit` | `revokeAllForUser` |
| `Erase`, `UpdateStart`, ..., `Commit` | the deletion job: `SELECT ... FOR UPDATE SKIP LOCKED` of a batch of users, the revocation for one after the other (`AfterUpdate`), one COMMIT |
| `DeleteAccount` | `deleted_at` is set |
| `Abort`, `DeadlockVictim` | any statement fails; PostgreSQL breaks a circle of waiters |
| `Expire`, `Retention` | `expires_at` passes; `deleteExpired` |

An UPDATE is not atomic: it takes its snapshot (`UpdateStart`), visits the rows
one at a time and waits for locked ones (`UpdateRow`), and skips those that no
longer match (`Pending`). What it has changed is not visible before `Commit`.
The foreign key of the INSERT takes a share lock on the user's row, which
excludes the deletion job's FOR UPDATE; both directions are guards.

Abstracted: passwords, hashes and the signing of access tokens; expiry is an
event that may happen at any time; the sweep's thirty days likewise (any
revoked or expired row may be old enough); how many users a batch of the deletion
job may have (any; `Accounts` has its LIMIT). `register` ends in the same INSERT as `login`;
`Accounts` has it.
A read-only transaction (refresh of an unknown or expired token) is no step.

### EventDelivery and OutboxPublisher

`EventDelivery` has three sets. An event is `recorded` when the transaction of
its change commits, `delivered` when NATS has received it at least once, `lost`
when no one will ever deliver it. Only recorded events are delivered, a lost
one never turns up, and each recorded event ends up delivered or lost.

`OutboxPublisher` has the table (`status`, `createdAt`, `clock`), and for each
worker its loop (`step`, `batch`) and the outgoing `buffer` of its NATS client;
`sent` is what the server has received, in order.

| Action | Code |
| --- | --- |
| `AppendEvent`, `CommitEvent`, `AbortEvent` | `appendOutboxEvent` in a domain transaction; `created_at` is the time that transaction began |
| `Poll` | `fetchUnpublishedEvents`: ORDER BY created_at, LIMIT, FOR UPDATE SKIP LOCKED |
| `HandOver` | the `for` loop of `publish` calls, which only append to the client's buffer |
| `MarkAndCommit` | `markPublished`, COMMIT |
| `Flush` | the NATS client writes its buffer out, on its own time |
| `Fail` | an exception anywhere in the batch: ROLLBACK; what was handed over stays in the buffer |
| `Crash`, `Disconnect` | a process dies; a connection to NATS breaks |
| `Retention` | published rows older than seven days are deleted |

The refinement maps `recorded` to the committed rows, `delivered` to the events
in `sent`, and `lost` to rows marked published of which no copy is left in
`sent` or a buffer. `Crash` and `Disconnect` map to `Lose`, `Flush` to
`Deliver`, `CommitEvent` to `Record`; everything else stutters.

Abstracted: subjects, payloads, the sleep between polls, the age limit. The
graceful shutdown stops polling and drains; it is a run in which `Poll` ends.

### AttachmentPipeline

`status`, `home`, `linked`, `announced` and `deleted` are rows, `object[a]` the
version in MinIO (the number of the client's PUT; 0: none). `call[r]` is an API
call between its read and its write; `scan[j]` and `purge[p]` are runs of the
jobs, between their transactions. From the first write of a transaction to its
COMMIT the row is locked, so this stretch is a single step.

| Action | Code |
| --- | --- |
| `InitUpload`, `CompleteRead`, `CompleteWrite` | `AttachmentService.initUpload`, `completeUpload` |
| `SendRead`, `SendWrite` | `MessageService.sendMessage`, as far as it concerns an attachment |
| `Put` | the client uses the presigned URL, again or late |
| `DeleteServer` | `ServerService.deleteServer` |
| `ScanTick` | `revertStuckScanning` and `claimForScanning` in one transaction |
| `ScanObject`, `DeleteBlocked`, `Settle` | the loop of `runAttachmentScanJob` over its rows |
| `SettleFails`, `ScanDies` | its catch block; a crash, or a failure in that block |
| `PurgeTick`, `PurgeList`, `PurgeObject`, `PurgeRows`, `PurgeDies` | `runServerDeletionPurgeJob` |

Abstracted: filenames, sizes and types; the ten-minute timeout of a scan (any
row that is "scanning" may be taken back, in particular one still being
scanned); clamd, which is a nondeterministic verdict on the version it is given.
A message has one attachment: each is checked by itself, and
the links of a message are inserted in the transaction that inserts it.
History variables record what the properties need: the versions a scan found
clean, rows taken back, PUTs that came late, objects a job failed to delete.

### Presence

One user: no two users share a key. `socket`, `gateway` and `fetch` describe the
sessions, `pipe[g]` the commands a gateway has sent to Redis and `answers[g]` the
answers it has yet to handle, both in order; `key` is the status in Redis, `seen`
the one in the last `PRESENCE_UPDATE` members received.

| Action | Code |
| --- | --- |
| `Open` | `upgrade` and `open` up to `fetchUserServers` |
| `Ready`, `ReadyLate`, `FetchFails` | its `then` (topics, READY, `setOnline`), the same on a socket closed since, its `catch` |
| `Heartbeat` | `GATEWAY_HEARTBEAT`: `setOnline`, whose result nobody awaits |
| `ChangeStatus` | `CLIENT_PRESENCE_STATUS`: the GET of `setStatus` |
| `Close` | `close`: `setOffline` |
| `Execute`, `CommandFails` | Redis executes a command, or it fails and the handler's `catch` swallows that |
| `Handle` | the continuation: the SETEX of `setStatus`, or `publishPresence` |
| `Expire` | the TTL of 60 s |
| `Lost` | a gateway dies or gets SIGTERM: its sockets close without their handler |

Abstracted: time (a heartbeat may always be later than the TTL), the TTL command
in `setStatus`, which reads only what `Expire` abstracts, the list of servers (a
session knows it or not), and the way of an update through NATS and the gateways,
which `Gateway` has. The rate limit is one more reason to close. A
heartbeat restores a deleted key and publishes nothing: members who were told
"offline" when another session closed go on believing it. No document says
otherwise, so this is no finding; it is why `ConnectedIsPresent` speaks of the
key only.

### Communities

`server`, `ownerId`, `role` (the rows of `members`), `home` and `uses` (those of
`server_invites`) and `channel` are the committed database. `txn[r]` is a call
between its reads and its writes: what it has read is in its guard, what it will
write in its fields. `knownMembers` and `knownName` are what a client makes of the
events, in the order of the commits. Two more are history: `disputed` remembers the
servers where a leave and an owner transfer were open at the same time, `contested`
the members whose row was inserted or deleted before a call that had found nothing to
write was committed (`Settle`).

| Action | Code |
| --- | --- |
| `CreateServer` | `ServerService.createServer`: four INSERTs nobody sees before the COMMIT |
| `JoinRead`, `JoinCheck`, `JoinWrite`, `JoinCommit` | `joinServer`: the invite; the server and the membership; `incrementUses` and INSERT ... ON CONFLICT DO NOTHING; the event and COMMIT |
| `LeaveRead`, `LeaveWrite`, `LeaveCommit` | `leaveServer`: the membership; the DELETE; the event and COMMIT |
| `DeleteRead`, `DeleteWrite` | `deleteServer` |
| `TransferRead`, `TransferWrite` | `handleOwnerDeletion` with `resolveOwnerTransfer` |
| `InviteRead`, `InviteWrite` | `createInvite` |
| `CreateRead`, `CreateCheck`, `CreateWrite` | `ChannelService.createChannel`: member and count; the name; the INSERT, if the unique index admits it |
| `RenameRead`, `RenameWrite` | `renameChannel` |
| `RemoveRead`, `RemoveWrite` | `deleteChannel` |
| `Abort` | a refusal, a unique violation or a failing statement |

A join and a leave have a step for their write and one for their COMMIT: an INSERT
ON CONFLICT DO NOTHING that meets a member row, and a DELETE that meets none,
write nothing and lock nothing (`wrote` is FALSE), so that any call about that
member may commit before they do. One that did write holds the row, and others
about it wait (`Wrote`); the invite's row is always held. Of the other calls the
first write locks a row that decides their outcome, or finds a row that is deleted
and stays so: from there to the COMMIT they are one step. Reads that follow each
other without a limit or name to race for are one step too: what another call
commits between them makes a check stale, which the write that comes later meets
anyway. Both services are in one module because they read each other's rows: a
member who is no longer the owner may still have a channel to create.

Abstracted: who of the members is oldest (any may be the heir, the model has no
`created_at`); the expiry of an invite (nobody uses it any more); `revoke` of an
invite, which nothing calls; the role ADMIN, which nothing assigns. In `src`
nothing calls `handleOwnerDeletion` either: it is modelled as the account erasure
it is written for would call it, at any time. The calls do not look at whether the
server is deleted, except for `joinServer`: channels and invites are still made in
a deleted server, and it can be deleted, and announced, again. No document says
otherwise, so these are no findings.

### Accounts

The variables of `RefreshTokens`, and `username` (`NoName`: no such row yet),
`uses` (of an invite), and `reg[r]`, a registration that has not reached its session
part, or is in it. `invitedBy` and `crowd` are history: the invite a user came with, and
the most registrations with an invite that were open at a time. `Sessions` is the
instance of `RefreshTokens` on the shared variables: register inserts its user
and then does what login does after its checks, so `CreateUser` puts the
transaction into the state in which `Sessions!Insert` comes next.

| Action | Code |
| --- | --- |
| `Register` | `AuthService.register`: reads the username and the invite, without a lock |
| `IncrementUseCount` | `incrementUseCount`, which waits for the invite's row |
| `CreateUser`, `CreateUserRefused` | `userRepo.create`; the partial unique index admits the name or does not |
| `CommitRegistration` | COMMIT of the user, the use and the token row |
| `Login`, `Refresh`, `Logout`, `CommitCall` | the calls of `RefreshTokens`, about a user who exists |
| `Claim`, `CommitErasure` | a run of the deletion job: all rows that match and nobody has locked, or any `DeletionLimit` of them; `softDelete` of each, and one COMMIT |
| `Statement` | the statements of `RefreshTokens` between |
| `Abort`, `DeadlockVictim` | a statement fails; PostgreSQL breaks a circle of waiters |
| `DeleteAccount`, `Expire` | `deleted_at` is set (nothing under `src` does it but `softDelete`); `expires_at` passes |

Abstracted: which name is reserved or malformed, an expired or unknown invite (a
call that reads one changes nothing), the profile columns, the outbox rows
(`USER_REGISTERED`, `USER_DELETED`: appended in these transactions, and read by nobody but
the publisher, so `OutboxPublisher` has their way). A row of the retention
sweep is of no use to anybody and stays in `RefreshTokens`. Token rows are bounded, so a
call starts only when a row is left for what it will insert (`RowLeft`): otherwise
the bound, not the code, would let a call wait for ever.

### SnowflakeIds and Messages

`SnowflakeIds` has, per process, the clock it reads (`clock`, which may be set
back), `lastTimestamp` and `sequence`, which a restart resets, and what it
issued. `Generate` is `generate()` when it returns an id; `Throws` is the refusal
when the clock has moved backwards; `Spins` the loop that waits for the next
millisecond. An id is the number timestamp·node·sequence, with the widths of the
two lower fields as constants.

`Messages` is one author in one channel. `window[p]` is the process's
`InMemoryMessageRateLimiter` entry; `rows`, `deleted` and `events` are committed;
`walk` is a client that pages back with `before`.

| Action | Code |
| --- | --- |
| `Send`, `SendForbidden` | `sendMessage`: the limiter counts, then the transaction's reads pass, or refuse |
| `NewId`, `NewEventId` | `generateId` with the INSERT of the message, and of the outbox row |
| `Delete`, `SoftDelete` | `deleteMessage`: its reads; the UPDATE, which waits for the row and leaves a deleted one alone |
| `Commit`, `GenerateThrows`, `Abort` | COMMIT; the generator or a statement throws and it is rolled back |
| `StartWalk`, `NextPage` | `listMessages` with `listByChannel` |
| `Tick`, `StepBack`, `Restart` | the machine's clock and the process |

Ids are VARCHAR columns, compared as text: `TextLess` compares decimal numbers
digit by digit from the left, and the run's ids go from one to two digits.
Abstracted: content, attachments (in `AttachmentPipeline`), the checks on members and
channels (in `Communities`).

### Gateway

`bus` is what NATS has carried, in order, `position[g]` how far gateway `g` has come.
A connection has its socket, the answer to `fetchUserServers`, its
`ConnectionState` (`serverIds`, `messageCount`), the uWS `topics` of its socket, the
`frames` it was sent, and whether it is `slow`: more than `maxBackpressure` is buffered
for it. `member` is the database; of its history since the client connected `known`
has the servers its user was in at some time, `steady` those it was in all the time.
`skipped` are the messages that passed while the gateway was away or the client slow.

| Action | Code |
| --- | --- |
| `PublishEvent`, `PublishPresence`, `PublishTyping` | the worker with `resolveOutboxSubject`; `publishPresence`; the continuation of `setTyping` |
| `Upgrade`, `Rejected`, `Accept` | `upgrade` while the token is verified, and how it ends |
| `ListByUserId`, `FetchFails`, `Ready` | `fetchUserServers` is answered with what is committed then, or fails; its `then`: topics and READY |
| `Typing`, `RateLimited`, `Close` | `message` with `checkRateLimit`; `close` |
| `Bridge`, with `Publish` | an iteration of `bridgeNatsToWs`: `app.publish` to who has that very topic; uWS passes over those that are slow |
| `FallsBehind`, `Drain` | a client gets slow (`server.ts:70`), and catches up: the `drain` handler (`server.ts:223`) only logs |
| `Reconnect`, `Restart` | what was published while the gateway was away is gone; the process starts again |
| `Join`, `Leave` | `ServerService`, as the gateway sees it |

Abstracted: frames and payloads (a frame is the number of its message in `bus`),
Redis (in `Presence`), time (a second may have passed before any message of a
client), the number of bytes buffered (a client may get slow whenever it is ready).
A user who leaves a server hears on until the connection closes, and
one who joins hears nothing before the next connection. So `OnlyMembersHear` says "has
been a member since it connected", and `ServerEventsArrive` speaks of the servers in READY
and of those the user never left, which READY could have missed: it owes nothing about a
server that was joined on the way.

## Runs

| Run | Configuration, module | What it shows |
| --- | --- | --- |
| `refresh_tokens` | `RefreshTokens.cfg`, `MCRefreshTokens` | 2 users, 3 rows, 2 open transactions; one user's client serialises its refreshes. Superseded tokens are revoked, sessions keep their user, a serial session has one token, a committed revocation skipped nothing it saw, no revoked token comes back |
| `outbox_publisher` | `OutboxPublisher.cfg`, `OutboxPublisher` | 2 events, 2 workers, batches of 2, 2 faults, fairness: copies are bounded by the faults, losing an event takes a crash or lost connection, a single worker keeps the order of events that committed in time; implements `EventDelivery`, liveness included |
| `attachment_pipeline` | `AttachmentPipeline.cfg`, `MCAttachmentPipeline` | 2 attachments, 2 calls, 2 overlapping scan runs: what is shared passed a scan, what can be downloaded is there, an upload is announced once, a verdict stands |
| `attachment_purge` | `AttachmentPurge.cfg`, `AttachmentPipeline` | 1 attachment PUT up to twice, 2 scan runs, the purge, 1 fault, fairness: the scanned version is the downloadable one, purged rows stay purged and leave no object, every upload is judged, deletion propagates while the LIMIT suffices |
| `communities` | `Communities.cfg`, `MCCommunities` | 1 server, 3 users, 3 channels and names, 1 invite, 2 open transactions, limits of 1: invite and channel limits are exceeded by racing calls only and by no more than one, names stay unique, the owner is a member, events tell all of channels and of members nobody contested, deletion is final (888,849 states) |
| `presence` | `Presence.cfg`, `Presence` | 2 sessions, 2 gateways, one status a client chooses, 1 fault, fairness: a user whose last socket closed is offline in Redis and for the members, a user with a socket is never offline for good, every key of an absent user goes |
| `accounts` | `Accounts.cfg`, `Accounts` | 2 users, 2 token rows, 2 open transactions, an invite for one use, one name, a LIMIT of 2, 1 fault, fairness: an invite is overused by no more than the registrations that were open with it at once, less one, and its counter counts them, a name belongs to one account, every call returns though it waits for rows, names and tokens, a deleted account is signed out for good while the LIMIT suffices (99,414 states) |
| `messages` | `Messages.cfg`, `MCMessages` | 1 process, 2 open transactions, 2 sends per window, pages of one, ids of one and two digits, 2 faults: ids increase unless a clock set back is forgotten by a restart, the limiter bounds any stretch of a window's length, paging misses and repeats nothing, deletions are announced |
| `gateway` | `Gateway.cfg`, `Gateway` | 1 connection, 1 gateway, 2 servers, 2 messages, 1 fault, fairness: after READY the events of the server arrive in order and all but those the gateway was away or the client slow for, no outsider hears of a server, what is published is received with the same exceptions (889,464 states) |
| `reuse_revokes_family` | `ReuseRevokesFamily.cfg`, `RefreshTokens` | violation, finding 1 |
| `erasure_anonymises` | `ErasureAnonymises.cfg`, `Accounts` | violation, finding 2 |
| `channel_events_arrive` | `ChannelEventsArrive.cfg`, `Gateway` | violation, finding 3 |

All runs say `CHECK_DEADLOCK FALSE`: the rows, events, PUTs, ids, messages and
faults of an instance are finite, and when they are used up the system rests. (In
`Presence`, when all sockets have been opened and closed and the key is gone.) That
no call waits for ever is said by the liveness properties instead.

### Bounds, and why they are enough

- *Refresh tokens.* A row id is never reused, so `Tokens` bounds the logins and
  refreshes of a behaviour. Three rows give a session with two refreshes, or two
  sessions of one user, or sessions of two users. The races are between two
  transactions, and `Requests` bounds only how many are open at once, not how
  many run. Two suffice for circular waiting. The theorems lift both bounds.
- *Outbox.* Two events can commit in the order opposite to `created_at`, share a
  batch or be claimed by two loops; two workers compete for rows; two faults let a
  retry fail again. The theorems lift the bounds.
- *Communities.* A limit of one and two transactions are the smallest race past a
  limit. Three users are an owner, an heir and one who joins; three channels let one
  be deleted, and two race for a name. No two servers share a row but the invite,
  which names its server, so one server is enough. Two transactions are also the smallest
  instance of a join that found nothing to write and a leave that commits before it. The
  theorems lift all bounds.
- *Attachments.* Two scan runs are what it takes for one to be taken for stuck and
  replaced while it still works; two calls race on completeUpload. The second
  run has a second PUT, so versions differ.
- *Presence.* Two sessions at one or two gateways are what it takes for the end of
  one to undo the other's key. `MaxPending` lets two commands or answers of a
  gateway be underway, so that a DEL can fall between the GET and the SETEX of a
  status change of the same gateway or of the other.
- *Accounts.* Two registrations race for one name and the last use of an invite; or
  a login, a refresh or a logout races with the deletion job of the same user. With
  two token rows a user can refresh once, or two users can be signed in, or both be erased
  in one batch. With two users a LIMIT of 2 is one that suffices; with a LIMIT of 1 TLC finds
  that the job may take the same account for ever, which is why `DeletedIsSignedOut` has a
  condition. Two registrations that are never open together register one user:
  with `MaxUses` of 1 the check of `use_count` is what forbids the second, and without it
  (its mutant) the bound is broken. `Abort` and
  a job picked as deadlock victim share one fault: without a bound, strong fairness
  would be met by a job that fails for ever. The theorems lift the bounds.
- *Messages.* `Nodes`, `Sequence` and `MaxTime` make the ids 2 to 11: they cross from
  one digit to two, the sequence wraps within a millisecond, and two windows of the
  limiter follow each other. Two faults are what a clock set back and a restart that
  forgets it take. One process writes; that ids of different processes differ is
  proved, not checked.
- *Gateway.* Each client reads what NATS sent, the answer of its own query and its own
  socket, nothing of another connection: one connection suffices. Two servers tell
  "member" from "member of another"; two messages make an order. `MaxPerSecond` of 1
  lets the second message of a second close the socket. `MaxTyping` of 1 leaves one `setTyping`
  of a gateway underway; more of them only wait in order. The theorems lift the bounds.

### Fairness, and why the code justifies it

- An open transaction goes on: the event loop runs its continuation (weak
  fairness). Statements that wait for rows have strong fairness:
  PostgreSQL queues the waiters of a lock in order, so one who waits is not
  passed over for ever although the lock is taken and released meanwhile. A
  deadlock is broken by PostgreSQL's detector.
- The publishing loop polls again after each sleep, and the NATS client writes out
  its buffer: weak fairness. A crashed worker is assumed to be started again and
  a NATS connection to come back. `docker-compose.yml` has no restart policy and
  the client gives up reconnecting after its default number of attempts: then
  nothing is owed.
- The scan timer fires for ever. A tick claims every `uploaded` row up to
  `ATTACHMENT_SCAN_CONCURRENCY` and takes back every row older than the timeout,
  so a row that is claimable again and again is claimed (strong fairness),
  provided the rows waiting do not exceed that limit for ever. For the purge only
  that its timer fires and its runs go on is assumed, since which servers its
  query returns is not determined.
- Redis executes what it is sent, the gateway handles the answers and a TTL runs
  out (weak fairness). A client that stays connected sends heartbeats, as HELLO
  tells it to: strong fairness, because the bound on a gateway's commands,
  which the code has not, disables them for a while. A client that ignores HELLO is
  offline although its socket is open.
- The deletion job runs every minute: whenever rows that match are free again and again,
  a run claims some (strong fairness, of `Claim` for any batch: `SKIP LOCKED`
  passes over a row a login holds). Which ones is PostgreSQL's choice: `deletion.ts:22` has
  LIMIT 50 and no ORDER BY, and no account ever stops matching (finding 2). Only where
  all that match fit into the LIMIT is an account sure to be claimed again.
- A gateway handles what NATS delivers and the answers of PostgreSQL and Redis (weak
  fairness): they are continuations of its event loop. That a slow client catches up is not
  assumed.
- Other clients, domain calls, faults, clocks and the retention sweep owe nothing.

`RefreshTokens`, `Communities`, `AttachmentPipeline.cfg` and `Messages` are run without
fairness: they check safety. That their calls return is shown with `Accounts`.

## Findings

1. **Reuse detection revokes nothing.** `refresh` of a revoked token calls
   `revokeFamily` and then throws inside the same `withTransaction`, which rolls
   the revocation back; the family stays usable.
2. **Erasure anonymises nobody.** The job claims accounts with `deleted_at` set;
   `softDelete` updates rows `WHERE deleted_at IS NULL`. The account keeps its username
   and password hash, matches again in the next run, and is announced again every minute.
   (`DeletedIsSignedOut` is the good side of it: the tokens are revoked again, too.)
3. **Events of channels reach no client.** They are published under
   `srv.<id>.chan.<id>.events`; connections subscribe to the uWS topic
   `srv.<id>.chan.*.events`. uWS, as used here, compares topics as they are: `*` is no
   wildcard to it. The same holds for typing.

Where a document and the code disagree otherwise, the models have what the code does,
and their properties say what is left of the promise:

- *A logout can leave a session* (`auth-service.ts`, `logout`): its UPDATE does not see the
  token a concurrent refresh has inserted and not committed. `CommitRevokesMatched`
  speaks of what it saw.
- *A published event may not have been delivered* (`docs/architecture.md`, at-least-once):
  rows are committed as published while their messages are in the NATS client's buffer, no
  flush is awaited. `LossNeedsCut` says when an event is lost.
- *A deletion may not propagate*: the purge takes 50 deleted servers in no defined order,
  and purged ones go on matching. `DeletionPropagates` is checked where the LIMIT suffices.
- *A deleted account may keep its sessions*: the deletion job takes 50 accounts in no
  defined order (`deletion.ts:22`) of those that match, which by finding 2 never get fewer.
  Beyond 50 an account need never be claimed, its tokens never be revoked.
  `DeletedIsSignedOut` is checked where the LIMIT suffices.
- *Invites can be overused*, where `docs/architecture.md:82` calls invite codes "hashed, TTL,
  single-use" and `docs/architecture.md:115` has a join validate "TTL, max uses". `use_count`
  and `uses` are read without a lock and incremented without a guard, so registrations, or
  joins, that are open at the same time all pass the check. `InviteUseIsBounded` and
  `OveruseIsBounded` say by how many. (A code with the default
  `max_uses`, 1, is what the document means by single-use.)
- *Clients may be told of a member there is not*, or of a leave of one there is: of two joins of
  one user the second inserts nothing (`member-repository.ts:13`) and holds no lock, the user
  leaves, then the second join commits its event. The same with a DELETE of no
  row (`member-repository.ts:20`). The next call that does write the row and meets no such
  call sets it right. `EventsTellAll` excludes these members (`contested`), and no others.
- *Events for other servers, and none for some*: "clients receive only events for servers they
  belong to" (`docs/architecture.md:109`), but topics are decided on connect. Who leaves hears
  on until the connection closes, who joins hears nothing until the next one.
- *A slow client misses events silently*: with more than `maxBackpressure` (`server.ts:70`, 1 MB)
  buffered, uWS passes over its socket and leaves it open; `drain` (`server.ts:223`) only
  logs, and nothing is sent again. The client is not told. `ServerEventsArrive` and
  `PublishedIsReceived` except such messages, and those that NATS did not keep for a
  gateway that was away.
- *A heartbeat resets the status*: it calls `setOnline`, which stores "online" over the
  "idle" or "dnd" the user has set.
- *The send limit is a fixed window*, where `docs/architecture.md:156` says sliding window:
  around the end of a window nearly twice the limit passes. `SendRateIsBounded` has the exact bound.
- *Ids are compared as text*, where `010_messages.sql:16` calls them time-ordered: from the
  epoch in `id.ts` on, ids grow from 18 to 19 digits in the middle of 2031, and messages
  from before that sort after later ones. Pages stay complete (`WalkIsComplete`).
- *`NODE_ID` defaults to 0* for every process, where `docs/architecture.md:201` has each
  instance with its own; with the default, two processes issue the same ids in the same
  millisecond. `NodesAreDistinct` is the assumption.

Besides these, the models make explicit what the passing properties assume
about clients: without a serial client two refreshes of one token both succeed
(`OneTokenPerSerialSession`), two completeUpload calls at once announce an upload
twice and can reset a verdict (`AnnouncedOnce`, `VerdictStands`), and a PUT after
completeUpload replaces what was scanned (`DownloadedIsVetted`). A key deleted
within a status change is written back and outlives the user's sockets until its
TTL (`GoneIsOffline`, `GoneExpires`).

## Proofs

The provers work for any sets of users, tokens, events and workers, any batch
size and any bound on faults, from the assumptions named `ConstantsAssumption`
in each module (null values are not elements; bounds are naturals; events are
finitely many).

**RefreshTokensProofs.** The properties are not inductive: whether a commit
revokes what it must depends on what the UPDATE has locked, and that nobody else
has locked it. `IInv` adds: what the columns of a row that exists hold
(`RowsOK`), that a superseded token is revoked or swept (`ParentsOK`), what the
fields of an open transaction can be at each step (`TxnShape`), that row locks
and uncommitted ids are exclusive (`Exclusive`), that a refresh whose UPDATE has
started has matched the token it was given or somebody has revoked it
(`StoredMatched`), that a transaction past its UPDATE leaves nothing it matched
unrevoked (`NothingPending`), and that a serial session has one refresh in flight,
whose UPDATE matches every unrevoked row of the session (`SerialRefresh`). `Invariance` proves
`Spec => []IInv`, one step per action; each of the six properties of the run
`refresh_tokens` is a theorem that follows from it.

**OutboxPublisherProofs.** `IInv` adds to the types: claimed rows are unpublished
and distinct, batches of two workers disjoint, everything in a buffer or received
is committed, and a batch that was handed over is in its worker's buffer or
received, unless there was a cut (`BatchesUnpublished`, `BatchesDisjoint`,
`ReachedCommitted`, `HandedReached`). It gives `LossNeedsCut`, and `RefinesDelivery`:
`Spec => Delivery!Safety`, each action being a step or a stutter of
`EventDelivery`. The lemmas on `Append`, `\o`, `Tail` and `SubSeq` say which
elements remain.

`CopiesAreBounded` needs more than a count of what there is: an event that a loop may
still hand over (`Pending`) counts once more. `CountInv` bounds that sum by one and the
faults so far; handing over moves an event from one part of the sum to the other,
marking only takes away, and only a fault makes an event pending again. That a buffer
holds an event once needs that a batch has no row twice (`BatchesDistinct`), and
what a flush or a cut takes from a buffer is counted along an injection
(`HeldShrinks`). `OrderIsKept` sees what NATS has received, what the client holds and
what the loop has claimed as one line (`LinesInOrder`), with all rows nobody has claimed
behind it (`RestIsBehind`). The SELECT's ORDER BY and LIMIT keep the second part true
when rows are claimed (`BatchIsAhead`), and `late` is what a commit needs to keep it.
`IdleHoldsNothing` says that a worker which has never polled has nothing to send, so with
one that has, the head of its buffer is the next of the line.

**AttachmentPipelineProofs.** What a row says is not enough: each property also
depends on what the calls and runs that have read the row are about to write. `IInv`
adds what their fields hold at each step (`CallShape`, `ScanShape`, `PurgeShape`),
that a scan run works only on completed uploads (`WorkCompleted`), and next to
each property its counterpart for those on their way: who is about to let an
attachment through knows of a clean scan (`VettedOK`), of the version there is
(`VersionOK`), with its object there (`ObjectOK`); a purge run has dealt with the
objects it has ticked off (`PurgedOK`); of a serial upload, one call at most is
completing it, before it was announced (`AnnouncedOK`), and one run at most has
it, while it is "scanning" or purged, until it is taken for stuck
(`ScanExclusive`). Each safety property of the two runs is a theorem: the
invariants follow from `IInv` at once, the action properties `PurgedForGood` and
`VerdictStands` from `IInv` and a look at each action.

**CommunitiesProofs.** A count that was read says nothing of the count at the write.
What does not grow is the count together with the calls that have passed the check:
`UsesCounted` and `ChannelsCounted` add the transactions under way (`Joining`,
`Creating`) to the uses or channels there are, and bound the sum. A call that passes
the check sees at least one place free and finds itself among no more than `Requests`.
`OwnersOK` adds to the owner's membership that, unless disputed, leaves and transfers
of a server exclude each other, who leaves is not the owner, and the heir is still a
member. `LocksOK` says that of the calls between write and COMMIT at most one holds
the row of a member, and that a call which writes finds the row as it needs it;
`MembersOK`, that for a member who is not contested clients know what the table has,
and a call that found nothing to write would still find nothing. `Shape` says what
rows and transactions refer to. All seven properties of the run are theorems, for any
finite number of transactions and any limits.

**AccountsProofs.** `ImplementsSessions` shows that every step is a step of
`RefreshTokens` or leaves its variables alone. So what is proved of sessions holds with
registrations and anonymisation around them: `SessionsAreSafe`, `RevokedForGood` and the
types of the tokens (`TypeCorrect`) come from the theorems of `RefreshTokensProofs`,
instantiated, action by action the same (`SameNext`). The rest of `IInv` ties `reg` to `txn`: a
registration in its session part is a login transaction for the user it inserts, who
does not exist yet (`TxnInv`, `RegInv`); the name it holds is nobody's. As in
`Communities`, uses are counted together with the registrations on their way: the sum is at most
`MaxUses - 1 + crowd`, for who passes the check sees a use left, and what is open is in
`crowd` (`InviteInv`). Token rows are counted with those a call will insert (`RowsLeft`).
`NamesAreUnique` and `InvitesAreBounded` follow.

**MessagesProofs.** `ImplementsIds` refines `SnowflakeIds`; `IdsAreUnique` holds for any
number of processes with distinct nodes, from the fact that an id determines its
timestamp, node and sequence number, and that what a process has issued is below what
comes next (`IdsInv`). `RateIsBounded` rests on how sends since the window's start
split into this window's and the last one's (`LimiterInv`); `DeletionsAreTold` counts the
deletions of a message that are under way together with those announced (`DeletionInv`).

`WalksAreComplete` rests on `TextLess` being a strict total order of the natural numbers
(`TextLessIrreflexive`, `TextLessTransitive`, `TextLessTotal`). For that, ids are
padded with zeros to one length (`TextLessPadded`), which takes the law
`TenTo[a + b] = TenTo[a] * TenTo[b]` of the recursive function `TenTo`, and that every
number has a number of digits (`DigitsType`). These are inductions: every set of
natural numbers has a least element (`LeastElement`, from the library's
`NatLessThanWellFounded`), so one that holds 0 and with each number its successor
holds them all (`Induction`); the function itself is put together from its beginnings
(`TenToExists`). What a page leaves is older than all of it, and it leaves nothing
unless it is full (`PageIsNewest`). `WalkInv` then says that the cursor is the oldest
message seen, and that what is wanted and not seen is older than the cursor.

`IdsAreNeverTaken` says what unique ids are for: no INSERT of a message or an outbox row
is refused. `StoredInv` traces the ids of rows, events and open transactions to the
generators (`Used`), and an id that is issued now is none of those (`GenerateIssues`).
TLC refutes it without the exception for a process that has forgotten its clock.

**GatewayProofs.** `IInv` has one part per question about a connection: what its socket and
query can be together (`ConnectionOK`), that it subscribed only where its user was a
member, in no fewer servers than its user never left (`KnownOK`), that its frames increase and
lie after its READY (`HeardOK`), and that nothing due is missing up to where its gateway
has come but what was skipped (`DueOK`). `HeardOK` also says that
no frame is about a channel, since no message is published under a literal `*`
(`SubjectOK`): `NoChannelIsHeard` is finding 3 for every state, not for one.

**PresenceProofs.** What is underway decides, not what is stored. `IInv` says that whatever
a closed socket has set in motion has that socket's DEL behind it on the same connection
(`CommandsFollowed`, `AnswersFollowed`), except for a write that a status change has yet to
make, which is why a key deleted within a status change is excluded; and that a key, or a
status other than offline that members saw, is owed to a socket that is open or whose DEL is
yet to come (`KeyAccounted`, `SeenAccounted`). With nothing underway, `GoneAreOffline` follows.

Only model-checked: the liveness properties (`CallsReturn`, `DeletedIsSignedOut`, the
`Settled` part of `EventDelivery`, `UploadIsJudged`, `DeletionPropagates`,
`ConnectedIsPresent`, `GoneExpires`, `PublishedIsReceived`), which are out of reach of the
proof system. Every safety invariant and action property of the passing runs is a theorem.

## Plan

In order of what matters most to users of the system:

1. Done: `RefreshTokens`, with proofs.
2. Done: `EventDelivery`, `OutboxPublisher` with the refinement proved.
3. Done: `AttachmentPipeline`, with proofs, and `Presence`, with proofs.
4. Done: `Communities`, with proofs; `Accounts`, which composes registration and erasure with
   `RefreshTokens`, with the refinement proved.
5. Done: `Gateway`, with proofs: topics subscribed once when a socket opens, at-most-once
   delivery, answers that come late.
6. Done: `SnowflakeIds` and `Messages`: ids, the fixed window, pages of ids compared as text;
   with proofs.
7. Done: the order and number of copies of published events, and complete walks over
   ids of any length, as theorems.
8. Done: the theorems about sessions carried over to `Accounts`, ids that are never taken
   from the generators to the primary keys, and types of all components.

## Not modelled

Password hashing, JWT signatures, presigning, TLS, NATS and Redis themselves,
clamd's verdicts and the HTTP and WebSocket framing are libraries or services,
modelled where needed by how the code uses them. The HTTP API keeps no state but the
per-address and per-user counters of `plugins/rate-limit.ts`, fixed windows like the one
in `Messages`, kept in one process and read by nothing else. Signing keys are configuration,
replaced by a restart. The size of the connection pool is not a limit any
property depends on: a transaction takes one connection and never asks for a second
while it holds one. The schema migrator runs once, alone. The dedupe store has no
implementation and the DSAR export is a skeleton. Typing keys are one SETEX each;
nothing reads them back.
