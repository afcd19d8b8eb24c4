# A TLA+ verification of home_server

home_server is a Go service for a family or a small team: accounts with
sessions, invitations and administrators, OAuth-like applications with access
tokens, hosting of uploaded web pages, manuals, file sharing, comments, visit
statistics, a library, WebDAV and a dynamic site configuration.  State is kept in
MySQL and on disk; Redis is a disposable accelerator.  This directory holds TLA+
models of the parts whose behaviour depends on the order in which requests,
background jobs, failures and crashes happen, the TLC configurations that check
them and TLAPS proofs of their main invariants.

`PROJECT.json` lists the components, the runs, what each definition translates,
the hazards of the code and the theorems.

## 1. Inventory

| component | state | operations | hard behaviour | what makes it correct |
|---|---|---|---|---|
| read cache (`utils/cache`, `domain/dal/read_cache.go`) | Redis entries, the map of flights, 16 loader slots | `MGet`, `loadBatch`, `runLoader`, `Delete` | merging of concurrent loads, cancelled requests, hanging, failing and panicking loaders, Redis timeouts, invalidation racing a load | nobody waits on a flight that nobody completes; slots neither leak nor multiply; no key is left out without an error, and no row that is there is called absent; every request returns |
| web project hosting (`app/webprojects`, `domain/service/webprojects`, `domain/repository/webprojects`) | project and release rows, release directories | create, update, disable, delete, restore, upload, publish, prune, hourly maintenance | files and rows change in different steps; unlocked read followed by compare-and-swap with a revision of the client's; retries; crashes; a cleaner racing an uploader and a restore | what is published has its files; no file outlives its row; quotas; purge is final; one release per idempotency key; retired releases are removed eventually |
| moderation (`app/adminweb`) | moderation columns of a project | block, unblock, delete, restore | races with the owner's changes | nothing but publishing makes a page visible |
| accounts and sessions (`domain/service/accounts`) | user rows (status, role, password, `auth_version`, revision), sessions, invitations, password attempts, audit rows | login, logout, session list and revocation, profile, password, avatar, administration, invitations, registration | password is verified outside the transaction that uses it; session limit under concurrent logins; two administrators acting on each other; rate limits in two phases | a revoked session never works again; session limit; always a usable administrator; an invitation is used once |
| applications and tokens (`domain/service/applications`, `domain/repository/applications`) | applications (status, revision, scopes, secret), tokens | create, update, rotate, revoke, issue, authenticate | a token read from the cache is compared with an application that moves on; scopes versus permissions of the owner | a usable token belongs to an enabled application of the same revision, with no more scopes than its owner |
| site configuration (`app/siteconfig`) | current rows, history, generation, registration epoch, the in-memory snapshot | publish, rollback, refresh, `EnabledTx` | concurrent publications, retries, a refresh that fails after the commit, a restart with a smaller hard limit | the snapshot is one generation and catches up; what is stored can be loaded; an answer says how far the revision is in force |
| invitations and administrators (`accounts/invitations.go`, `accounts/mutations.go`) | invitations, the monthly budget, the administrators | invite, preview, register, revoke, ban, promote, demote, delete, reset | two administrators acting on each other; registration closed and opened between preview and registration | always a usable administrator; an invitation is used once, by an inviter in good standing, while registration stayed open |
| web analytics (`domain/service/webanalytics`) | queue, Redis counters, SQL totals, gap marks | record, process, flush, acknowledge, restore, retention | a queue and gap tables shared by all projects, evicted keys, good keys that cannot be read, an older Redis image, a crash between persist and acknowledge, unknown outcome of a write, midnight | SQL totals never go back; a loss is marked, with the exceptions of section 6; no visit counts twice unasked |
| manuals (`app/manuals`, `domain/service/manuals`) | manual and item rows, directories, disk reservations | create, update, reorder, delete, add text or file, preview | retries, uncertain commits, quotas, a disk that fills up, crashes between rename and commit | committed items keep their files; one item per request id; positions dense; the disk's floor holds |
| file sharing (`app/fileshare`, `domain/service/fileshare`) | file and share rows, bytes on disk, attempts, grants in cookies | upload, delete, share, revoke, unlock, download | counting downloads, revocation, expiry or suspension between opening the bytes and answering; guessing | a download is admitted by the state at its commit; at most as many as allowed; guesses bounded |
| web comments (`domain/service/webcomments`) | threads, events | comment, reply, resolve, reopen, delete, reanchor | retries with request ids, revisions, releases pruned meanwhile | every thread is the summary of an append-only log without duplicates |
| resource passwords (`domain/service/resourcepasswords`) | password and version, attempt limiter, grants in cookies | set, unlock, authorize | the password changes while an unlock compares it; the limiter at its limit; a restart | a grant is good for one version and one process; guesses bounded |
| lists (every `List*` of the site) | rows, cursors | first page, next page | rows come and go between pages; a library page made of three queries | what stays is listed exactly once; secrets of protected manuals are not shown; a walk ends |
| middleware, legacy passport, library, WebDAV, DDNS, lookups, tools, front end | | | | no protocol state of their own; see `PROJECT.json` |

Components interact by direct calls inside one process; everything that must be
atomic is a MySQL transaction that takes row locks in one global order (runtime
state, users by id, resource).  The background actors are the maintenance
goroutine of web projects, the refresh ticker of the site configuration, the
analytics worker, and the loaders of the cache.

## 2. Plan

Done, in the order of importance:

1. `CacheFlight`: the cache with its flights, runs and slots; proofs.
2. `WebReleases`: hosting, moderation and cleanup; proofs.
3. `Accounts`: one account, its sessions, applications and access tokens; proofs.
4. `SiteConfig` and, extending it, `Registration`: publications, the administrators
   who make them and change accounts, invitations; proofs.
5. `Analytics`: queue, Redis and SQL with faults; proofs.
6. `Manuals`, `FileShare`; proofs.
7. `ResourcePasswords` and, extending it, `WebComments`, which implements the
   abstract `CommentLog`; proofs, the refinement included.
8. `CursorLists`: walking any of the site's lists while it changes; proofs.

Next:

9. `LockOrder`: the row locks that the transactions of all components take, and
   the absence of deadlock.
10. `PasswordAttempts`: the two-phase attempt limits of login.
11. The composition of `Accounts` with hosting and sharing (a ban ends all access),
    where the models now have an account that is active or not.

## 3. The modules

### CacheFlight

A *caller* is a request goroutine inside `MGet`; its `pc` follows the code:
`batch` (the loop of `MGet`), `join` (first critical section of `loadBatch`),
`queue` (the select on `c.limit`), `register` (second critical section), `await`
(`awaitFlights`), `returned`.  A *run* is what `go runLoader` starts: the
supervisor (`sup`) and its worker (`worker`).  `flights`, `limit` and `store` are
`Client.flights`, the number of tokens in `Client.limit` and Redis.

| action | code |
|---|---|
| `Request`, `Return`, `Deliver` | entry, loop test and return of `MGet` |
| `ReadBatch` | `readBatch` with any answer or failure of Redis |
| `Join`, `Acquire`, `QueueTimeout`, `AbandonSlot`, `Register`, `JoinLate` | `loadBatch` |
| `AwaitAll`, `AwaitCancelled` | `awaitFlights` |
| `LoaderReturns` | `callLoader`: success, partial success with an error, panic |
| `Receive`, `Deadline`, `WriteStore`, `Publish`, `Release` | `runLoader` |
| `CommitWrite`, `Invalidate`, `Expire` | a transaction on a cached row, `invalidateReadCache`, the TTL |

Abstractions.  A value is the version of the row it was read from.  Entries that
do not decode, are too large or are past their own deadline are read as missing
or not written, which the nondeterministic choice of hits and writes covers.  A
DTO that cannot be encoded is one more way of a per-key error and is left out.
A flight that is closed hands its value to the callers that joined it; only they
can see it.  The identity of a run that has ended is reused.  `awaitFlights`
collects in key order; the model lets a cancelled request keep any closed subset,
a superset of the code's prefixes.  A result that arrives together with the
deadline behaves as `Deadline`.

### WebReleases

One owner, its projects, the rows and directories of their releases.  A database
transaction is one action, because every transaction locks the owner's row, then
the project's.  What happens outside transactions has its own actions: the
unlocked read of `ChangeProjectStatus` and `UpdateProject` (`EditBegin`) before
their compare-and-swap (`EditCommit`).  The revision compared is the client's `If-Match`:
it is not compared with the row read, so `EditBegin` takes the row's revision or one up
to `MaxGuess` ahead of it, which a later change may bring about before the commit (an older
one only adds refusals, `EditRefused`).  The other steps outside a
transaction are storing an upload (`StoreUpload`) before it is committed (`CommitUpload`), and
removing files (`RemoveFiles`) after marking and before deleting the row (`DeleteRow`).  Uploads and maintenance share
`RemoveRetiredReleases`, hence the *workers*.

| actions | code |
|---|---|
| `CreateProject`, `EditBegin`, `EditCommit`, `EditRefused`, `Publish` | `app/webprojects/projects.go` |
| `Block`, `Unblock`, `AdminDelete`, `AdminRestore` | `adminweb.Change` |
| `UploadBegin`, `StoreUpload`, `StoreFails`, `DirectoryUnusable`, `CommitUpload`, `UploadRefused`, `UploadRetried`, `Discard`, `UploadDone` | `UploadRelease` |
| `RemovalOff`, `SkipRelease`, `FindRemovable`, `RemoveFiles`, `RemoveFilesFails`, `DeleteRow`, `DeleteRowFails` | `RemoveRetiredReleases` |
| `StartRun`, `Prepare`, `SkipProject`, `RetryDeleting`, `EndRun` | `CleanupExpiredProjects`, `StartMaintenance` |
| `Crash`, `SwitchCleanup`, `RevokeCredentials`, `Tick` | environment |

Abstractions.  A release is its number, its size and its idempotency key; the
content of a directory is none, partial or full.  Equal sizes stand for equal
hashes in the comparison a retry makes.  `auth_version` stands for all of
`requireWritePolicy`'s credential checks.  `deleted_at` is set and cleared with
`purge_after`.  `ahead` is history: the projects that were changed under a revision newer
than the row the handler read, for which the recycle bin promises less (section 6).
`LostAcks` lets the database commit a transaction and report an
error.  Bounds (`MaxRelease`, `MaxRevision`, `MaxTime`, `MaxVersion`, `MaxCrash`,
`MaxSwitch`) appear in the guards of the actions that use them up.

### Accounts

One account in database identity mode and everything that authenticates as it.
Every write locks the account's row first (`RequireUserTx`, `actingSessionTx`,
`LockApplicationOwnerTx`, `AdminChange`), so a transaction is one action.  What a
request reads before its transaction is an action of its own that leaves what it
read in `rver`, `proof`, `cred` or `work`; a request may end at any point
(`Finish`).  `vouched` and the fields `pw` and `valid` are history: no guard reads
them.

| actions | code |
|---|---|
| `Authenticate`, `IssueSession` | `Login`, `IssueVerifiedSession`: the password check, then the transaction with `issueSessionTx` |
| `ReadSession`, `CheckSession` | `CheckSession` behind `RequireAccount`: the session's row, then the account |
| `Logout`, `LogoutAll`, `RevokeSessions`, `RevokeOtherSessions` | the functions of the same names |
| `VerifyCurrent`, `ChangePassword` | `ChangePassword` before and inside its transaction |
| `Ban`, `Unban`, `ChangeRole`, `SetPermission`, `AdminLogoutAll`, `ResetPassword` | `adminTransition` with `suspendApplicationsTx` and `removeScopesTx` |
| `CreateApplication` | `Service.Create`, `Repository.Create`, `allocateApplicationSlot` |
| `ReadApplication`, `UpdateOwned` | `Update`, `Rotate`, `Revoke`: the unlocked read, then the compare-and-swap |
| `ReadCredential`, `StoreIssuedToken` | `IssueToken`, `StoreIssuedToken`, `CleanupExpiredTokens` |
| `ReadToken`, `AuthenticateToken`, `LibraryWrite` | `AuthenticateToken`, `RequireLibraryWriteTx` with `RequireApplicationSnapshotTx` |
| `SetLimit`, `Tick` | environment: the published session limit, time |

Abstractions.  A password, a hash and a secret are numbers that change when the
code stores a new one; wrong passwords and secrets only refuse and are left out.
Sessions are numbered in the order of issue, which is the order `create_time ASC,
id ASC` because both are drawn under the row lock.  Scopes that no permission
gates are one scope.  The administrator is another account whose own checks always
succeed, with the current `revision` of the target: refusing more changes nothing
for the target.  `reset-profile`, profiles and avatars touch none of this state.
A write by an application is represented by the library's; the other gated
writes call `RequireApplicationSnapshotTx` in the same way.  The maximum number of
applications is fixed.  Duplicate deliveries of a request are further requests.

### Manuals

The manuals of one owner.  Row changes are transactions under the owner's mutex and
the locked manual, hence one action each.  An upload (`req`) is followed through its
steps: owner check, disk reservation, staging directory, preview, rename, commit.

| actions | code |
|---|---|
| `Create`, `AddInline`, `Update`, `Delete`, `DeleteItem` | the writing operations of `app/manuals` (`create.go`, `items.go`, `update.go`), with `checkItemQuota`, `PatchItems` and the compaction of positions |
| `CheckUploadOwner`, `AcquireUpload` | the upload handler's checks and `reservedBytes` |
| `WriteOriginal`, `Inspect` (`EnterGate`, `Thumbnail`, `RenderPDFPreview`, `ReadPlainText`), `Rename`, `AbandonUpload` | `StoreFile`, `inspectStoredFile` |
| `Commit`, `ReplayOrRefuse`, `LoseCommit`, `resolveFileCommit` | `appendItem` and what follows each of its outcomes |
| `Crash` | the process stops; staging directories stay |

Abstractions.  A body is its kind and its size.  A patch that changes no status,
cover or order is a patch of nothing but the revision.  A preview takes at most its
output limit.  A commit whose answer was lost is settled, one way or the other,
before `resolveFileCommit` looks for it.

### FileShare

Users are active or not; a file is an upload (`up`), a row and bytes on disk; a
client is one browser with its cookies (`jar`) and attempts.

| actions | code |
|---|---|
| `AcquireUpload`, `Stage`, `StoreUpload`, `Incomplete`, `CommitUpload`, `resolveUploadCommit` | the upload handler and its storage |
| `Delete`, `DeleteBytes` | the row first, the bytes afterwards |
| `CreateShare`, `RevokeShare` | share transactions, with `NormalizeShareInput` and `requireWritePolicy` |
| `UnlockBegin`, `UnlockAttempt`, `UnlockFinish` | the unlocked read, `allowSecretAttempt` and the bcrypt gate, the comparison and the signed cookie |
| `DownloadOpen`, `DownloadCommit` | `PrepareDownload`: the bytes are opened, then everything is checked again and counted under locks |
| `SetActive`, `Tick`, `Restart` | environment; a restart draws a new signing key and forgets attempts |

Abstractions.  A right or wrong secret is a choice of the request.  Several ranges of
one download, streaming and HEAD requests are left out.  `served`, `knows` and
`tries` are history; `tries` is, for each share and client, the log of the moments at
which a secret was tried since the last right one, so that guessing is bounded over
any window of time and not only over those the code happens to count in.

### ResourcePasswords, WebComments, CommentLog

`ResourcePasswords` has the password of one resource: `SetTx`, the three steps of
`Unlock` (`UnlockRead`, `Acquire` with the attempt limiter, `Compare`), `validGrant`
and `Authorize`.  `WebComments` extends it with one web project: `Upload`, `Publish`,
`Prune` and `ChangeProject` of the owner, and a handler that checks access and grant (`Begin`)
before its transaction (`Comment`, `Mutate`), which checks access but not the grant
again, finds a repeated request, and writes thread and event.  The release a request
names may be any row of the project, published or not (`knownProjectRelease`); `ever`
and `published` are history.  `tries` is the log of a client's
attempts, as in `FileShare`.  `CommentLog` is what the discussions
promise: one log per thread, a request in it once, nobody closes or moves a
discussion without having seen all of it, and the stored summary is the summary of
the log.  `Promise == INSTANCE CommentLog WITH log <- events, summary <- ...` maps
each thread's row to its status and revision; `KeepsPromise` is the abstract
specification.

Abstractions.  Texts, anchors and pages only matter as parts of a request's digest.
Users other than the owner are readers or not, whatever access mode or membership
makes them so.

### Analytics

One project among others.  `Record` puts a visit in the queue or notes a gap; the worker (`job`)
takes one visit or runs a flush, step by step between its calls to Redis and MySQL.

| actions | code |
|---|---|
| `Record`, `Close` | `Record`, `Close` |
| `TakeEvent`, `ProcessEnsure`, `VisitReserve`, `VisitWrite`, `ProcessFails`, `ExpireVisit` | `process` with `ensure`, the counting transaction and its uncertain outcomes |
| `BeginFlush`, `SwapGaps`, `MarkEnsure`, `MarkReserve`, `MarkWrite`, `MarkFails`, `Scan` | `flush`, `flushGaps` |
| `PersistEnsure`, `ReadSnapshot`, `Commit`, `Acknowledge`, `Cleanup` | `persist`, `PersistWebProjectStats`, `Acknowledge`, retention |
| `Misread` in the three steps that call `ensure` | `ensure` when `readRedis` fails although the keys are good, and the commands after it succeed: MySQL's state replaces them |
| `Crowd` | other projects fill the queue or one of the two gap tables |
| `Midnight`, `LoseKeys`, `SaveImage`, `Rewind`, `Crash` | environment: eviction, an older image, a restart |

Abstractions.  A HyperLogLog is the set of its visitors.  Of the other projects the model
keeps `crowd`, where they leave this one no room: a crowded queue may or may not take a
visit, a crowded table takes no new gap, and its overflow may be theirs alone.  `offered`, `seen`, `covered`, `mishaps`
and `anew` are history: what was offered, what was settled, what the committed snapshot
should cover, which faults happened, and which days a write began again in Redis although
MySQL has their row (`BeginsAnew`).  No guard reads them.

### SiteConfig and Registration

`SiteConfig` has the accounts as administrators see them, the history of two
namespaces, the runtime snapshot and the one refresh that `refreshMu` admits.

| actions | code |
|---|---|
| `BeginPublish`, `Save`, `Replay`, `Refuse`, `Answer` | publication and rollback in `app/siteconfig/publish.go`: the password is verified first, everything is checked again in the transaction, the handler refreshes and answers |
| `RefreshState`, `RefreshStore`, `RefreshFail` | `Refresh`: state, rows, snapshot |
| `BeginChange`, `AdminChange`, `ChangePassword` | `AdminChange` in `accounts/mutations.go`, the user's own change |
| `CreateInvitation`, `ValidateInvitation`, `Register`, `GiveUp` | `accounts/invitations.go` |
| `RevokeInvitation`, `BeginRevoke`, `AdminRevokeInvitation`, `ChangeUser`, `AdminCreate` | the same on behalf of the inviter or an administrator; a ban revokes what the banned gave |
| `Restart`, `Forget`, `Tick`, `Expire` | environment; a restart may change the deployment's hard limit |

Abstractions.  A namespace is a document out of two.  Months are counted for the
budget; an invitation expires at a time of its own.  What a change of an account does
to sessions and applications is in `Accounts`.

### CursorLists

One table stands for whichever list is walked; a list is which rows it shows, by what
it is ordered and whether it refuses when its parent is gone (`ListManuals`,
`ListOwnedProjects`, `ListSessions`, ...).  `Start`, `ReadPage`, `Refuse`, `ReadStates`
and `Decorate` are the steps of a page (the last two for the library, whose passwords
and covers are queries of their own); `Insert`, `SetStatus`, `SetAccess`,
`SetResourcePassword`, `Write`, `SetOpen` and `Fail` happen between them.  A text is
the number of the change that wrote it behind a password, and 0 if it is nobody's
secret, so that `DescriptionsHidden` can tell whether the text a page shows is one that
its row still hides.  Search terms and optional filters pick a part of the table and are
left out.

## 4. Runs

| run | instance | shows |
|---|---|---|
| `cache_reads` | 2 callers, 2 keys (1 written), 2 runs, 2 slots, negative caching | `FlightsServed`, `SlotsAccounted`, `MissesExplained` |
| `cache_liveness` | 2 callers, 1 key, 1 slot | `EveryRequestReturns` |
| `web_recycle` | 2 projects, 2 uploads, 2 editors, a revision at most 1 ahead, 2 sizes, 3 releases, 1 crash, 2 flips of the switch | `FilesMatchRows`, `RecycleBinSound`, `WithinQuota`, `OnlyPublishReveals` |
| `web_liveness` | 1 project, 2 uploads, 1 key, lost acknowledgements, revoked credentials, 1 crash | `OneReleasePerKey`, `NoLateUpload`, `RetiredAreRemoved` |
| `web_replies` | 1 project, 1 upload with a key | expected violation, see section 6 |
| `acct_access` | 2 requests, 3 sessions, limits 1 and 2, 3 applications for 2 slots, 1 token | `CredentialsSound`, `ApplicationsSound`, `CredentialsNeverRevive`, `LoginKeepsNewest`, `WritesAuthorised` |
| `manual_uploads` | 1 manual, 2 items, 2 uploads, 2 request ids, 3 bodies, 1 crash | `RowsConsistent`, `FilesMatchRows`, `WithinLimits`, `RevisionNamesContent` |
| `file_shares` | 2 users, 2 files, 1 share of either of two kinds, 2 clients, 2 requests, 3 moments, 1 restart | `FilesMatchRows`, `WithinLimits`, `AttemptsBounded`, `DownloadsAdmitted` |
| `discussions` | owner and reader, 1 client, 2 unlocks, 2 passwords, 3 versions, 1 thread, 3 events, 2 releases (published or not), 1 restart | `PasswordsProved`, `GuessesBounded`, `KeepsPromise`, `WritesAllowed` |
| `visit_statistics` | 2 visits, 3 days, queue of 1, 2 hot days, 1 fault of any of 8 kinds, 2 while other projects crowd the queue | `CountsSound`, `HonestReports`, `NeverDecreases`, `Converges` |
| `site_and_invitations` | 2 administrators, 2 newcomers, 3 generations, 1 fault, 1 restart, 1 invitation a month | `ConfigurationSound`, `AdminRemains`, `InvitationsSound`, `ActsOnlyAsAdmin`, `Applies` |
| `cursor_walks` | 3 ids, pages of 1, 5 changes | `WalksComplete`, `DescriptionsHidden`, `Ends` |

Several properties are conjunctions of named parts that belong to one question:
`FilesMatchRows`, for instance, is what a file owes to its row and a row to its file.
The parts keep their definitions and comments, and the proofs are about the parts.

The bounds are the smallest at which the races exist: two requests suffice for
every race between requests, since a race in this code is between the holder of
a lock or a slot and one other; a second key makes a request both leader and
follower; two releases make one current and one prunable; revisions up to 4 let a
project be created, published, deleted and restored or purged, and two moments
let a deadline pass.  A revision one ahead, with a second editor whose change makes it
true, is what a guess needs.  For accounts, one request that stops between its steps is
enough where the other party is an administrator, whose actions are always
enabled.  Two versions allow a ban and an unban between any two steps, and a second
session the return of the owner; three sessions let a lowered limit end two at once.
A third day is needed for what midnight does to a retention of two.  Other projects in
the queue and one fault besides let the first gap of a project overflow a table and Redis
or MySQL fail before Flush has moved the overflow.  Three events
make a comment, a reply and an action on what was or was not seen.  The proofs do not
depend on these bounds.

Most MC modules bound the search further with a constraint, `Focus`: a disjunction
of cases, one kind of trouble each, that share their first states, so that one run
examines for instance the life of one project and the race of two uploads into two
projects, without their product.  The comments there say what each case is.  States
at the boundary are checked and not continued; in the liveness runs, behaviours that
leave the constraint are not examined.  Symmetry is used over requests, clients and
similar identities in runs without liveness properties.  Deadlock is not checked
where everything may have been used up: a deleted account takes no requests, a list
comes to its end.

Fairness.  Cache: weak fairness of every caller and every supervisor, because Go
schedules runnable goroutines and timers fire; none for loaders.  Hosting: weak
fairness of the maintenance goroutine; strong fairness of its three steps that may
fail, i.e. a disk or database error does not repeat for ever; none for requests.
`RetiredAreRemoved` further supposes that the switch stays on in the end, and
the instance keeps the retry batch at least as large as the backlog.  Analytics: weak
fairness of the worker goroutine and of the flush ticker.  Configuration: weak
fairness of the ticker's refresh, of a refresh that has begun and of the handlers'
refresh; faults are bounded.  Lists: weak fairness of serving a page; the number of
changes is bounded, so rows that keep coming for ever on a list that is walked upwards are
not covered by `Ends`.

## 5. Proofs

`ReadsProof` holds the proofs about the three parts that answer readers: `CacheFlight`,
`Analytics` and `CursorLists`.  They share no variable, and no theorem is about two of
them; what they share are the lemmas about sequences, finite sets and sums.

Of the cache it proves, for any sets of callers, keys and runs and any limit,
`TypeOK`, `FlightsMatchRuns`, `WaitersHaveSupervisor` and `SlotsAccounted`.  The
inductive invariant `IInv` adds `Joined` (a caller past `join` has, for each of its
keys, a closed answer or a flight that is registered and unfinished) to the three
others: without `FlightsMatchRuns` the unconditional delete in `runLoader` could
remove somebody else's flight, and without `Joined` a waiter's flight could be
unknown.  The slot count is proved with the cardinality theorems for finite sets.

For `MissesExplained`, `IInv` is not enough: it says who works for whom, not what they
found.  `MissInv` adds what the values mean.
`AbsenceInv`: neither the store nor a run, an answer or a request holds "absent" for a
key that is never written.  `ValueInv`: a loader, a run or an answer that reports no error
has a value for every key it was asked for.  `AnswerInv`: a key that was asked for is
still to do, or has a value, or there is an error to report.

Of the lists it proves `WalksComplete` and `DescriptionsHidden` for any table, page size
and number of changes.  `ListInv` adds to the types: every steady row is still listed
(`SteadyListed`); what has been listed lies before the cursor and every steady row before
it has been listed once (`Position`); between reading and answering a page, its keys
ascend in the order of the list, it starts after the cursor, and no steady row is skipped
within it (`PageFollows`).  Both rest on the keys: a row never changes its key and the
keys of two rows differ, which is why the list of sessions needs the id next to the time.
For the descriptions, `TextsKnown` says of each manual of a page that had no password
when the passwords were read that its row hides no text, or one written later than the
text of the page.  That the answer of `Query` is sorted and complete is a lemma about
`SetToSeqs`.

Of the statistics it proves `CountsSound`, `NeverDecreases` and `HonestReports`.  `Typed`
says, for each place of the worker, what it holds.  `Counts` bounds every copy of the total
(Redis, its image, the snapshot in hand, the row) by the visits that are neither queued
nor in hand, unless a transaction was repeated.  `Within` bounds the sum over the days by the
total, where each day counts with the larger of Redis and its row, because a merge may
take either.  For the reports, `TotalsInv` says when a total is exact (`Exact`): in Redis
and in a snapshot, as long as it is not degraded and everything is `Settled`, that is no
gap is in the table or in the hands of Flush and none may be behind an overflow; in the row, or
else the gap is pending and its mark is in Redis and in any snapshot on its way.  That
mark cannot be passed over because Redis is ahead of the row (`Ahead`, strictly so
once a number is reserved) and a degraded total that MySQL does not know has a number still to
be committed (`Degrading`).  `DaysInv` adds the same for each day of the window
(`ExactDays`), and that Redis, while nothing is lost, has every day that is not cold with at
least the count of its row (`KeepsKeys`).  `Exact` and `ExactDays` need their clauses
about the snapshot in hand, because a commit writes what was read before the latest
faults.

`WebReleasesProof` uses four invariants.  `StorageInv` (release numbers are
fresh, an upload owns the number it stores under, removals are of retired releases,
`current` is ready, ready releases have files, gone ones have none) gives
`ReadyHasFiles`, `PublishedIntact` and `NoFilesWithoutRow`, all under
`LostAcks = FALSE`: with a lost acknowledgement the request removes the directory
of a committed release.  `LifeInv` (a pending change whose revision still matches
was computed from the row as it is, unless it was guessed ahead; tombstones are
consistent and purged projects expired for good, but for those in `ahead`) gives `TombstoneConsistent` and `PurgeIsFinal`.  `KeyInv` gives
`OneReleasePerKey`, also with lost acknowledgements.  `WithinQuota` is inductive
next to `KeyInv`, which tells that a commit adds a row that was not there before; it,
too, holds with lost acknowledgements.  `OnlyPublishReveals` and `NoLateUpload` are
action properties proved from the type invariant.

`AccountsProof` rests on one observation per layer: a number that only grows.
`SessionInv` states what a session or a login in flight owes to `auth_version`:
sessions are numbered in order, a session that carries the current version, or a
login whose version is still current, was vouched for by the password of today, and
a session presented to `CheckSession` either was usable when it was read or can no
longer match.  `AppInv` states that an edit in flight whose revision still matches
fits the row as it is, in its slot or as a revocation that leaves the scopes alone
(`EditsFresh`), next to `SuspendedWithOwner`, `ScopesWithinPermissions` and
`SlotsExact`; without `EditsFresh` a committed edit could bring a revoked application
back or take a slot that was given away.  `TokenInv` states that a token's revision is
not in the future, that a request's copy of an application with the current revision
is the current row, and that a token in hand was valid when it was read and is still
stored unless it has expired.  From these follow `SessionsVouched`, `SessionCheckSound`,
`SessionsNeverRevive`, `TokenCheckSound`, `TokensNeverRevive` and
`WritesAuthorised`, for any number of requests, sessions, applications and tokens.

`LoginKeepsNewest` needs a fact about numbers (`OldestCount`): in a finite set exactly
k elements have one of the first k ranks.  The rank is an injection into as many
numbers as there are elements, hence onto, so that no induction is needed.

`RegistrationProof` is about `SiteConfig` and `Registration` together.  `AccountInv` (an
account's version moves whenever its password does) makes the administrator who acts
usable at his commit, which gives `AdminRemains`.  `ConfigInv` follows a publication:
every stored revision was published over the one before; the runtime snapshot, and the
rows a refresh has read, belong to one stored generation; a publication on its way knows
a revision that holds what was asked, and the refresh it waits for read rows at least
as new.  `InvitationInv` says what an unused invitation can rely on: one of the present
epoch has seen registration open all the time, and its giver has not been banned since it was given; no
slot of a month is given twice.  Without the part about the epoch, closing and opening
registration between preview and registration would go unnoticed.

`FileShareProof` combines eight invariants.  `StoreInv` says, per file, which of
upload, row, bytes and debris occur together at each step of an upload or a delete.
`QuotaInv` bounds an owner's files.  `DiskInv` charges every file from the
moment its upload has a slot: the full limit while the body is not known yet, its size
afterwards, debris included; without the charge of the waiting uploads two of
them could each find enough space.  `ShareInv` and `ReqInv` relate shares and
requests under way to files, and counters to what was handed out; `JarInv` ties a
cookie to the secret that was right when it was given and to the key of the process.
`AttemptInv` explains the limiter's entry by the log of attempts: those it does not
count were made before its window began, and all but the last `MaxAttempts` of these
a whole window earlier.  This is what makes twice `MaxAttempts` in any window the right bound, the
code's windows being fixed.  `GateInv` counts comparisons and entries.

`WebCommentsProof` proves the same of the password limiter, whose window starts with
the first attempt, and adds: an unlock under way read a version no later than the
one in force (`UnlockInv`); a grant was earned with the right password of its version
under the secret of this process (`GrantInv`); a call past its check was let in by a
password no later than the one in force (`CallInv`); a row is the summary of its log
(`ThreadInv`).  The refinement is then one step per action: each write appends the
event that `CommentLog` allows, with the summary that `CommentLog` computes, and every
other action leaves logs and summaries alone.  Between check and transaction
everything may have changed.  `WritesAllowed` holds because the transaction checks all of
it again except the password; of that, only `ChecksProved` tells that it was right for
this process when the handler looked.  A release that is known is one that was uploaded
here, and the one a discussion stands on was published (`ProjectInv`, `ThreadInv`).

`ManualsProof` has five. `RowInv`: rows are typed, one per request, the positions of a
manual's items are exactly 1 to their number, and the cover is one of the items.
`FilesInv`: what an upload relies on at each of its steps, no two uploads with one id,
a directory for every row, an explanation for every directory without one.
`ReserveInv`: the reserved bytes are one unit per admitted upload. `DiskInv`: debris,
one unit per upload that is still writing, the directories and the floor fit the disk
together; the free space the code reads knows nothing of what admitted uploads are
going to write, the reservation nothing of what they have written, and only this sum is
invariant. `QuotaInv`: counts and sums of items. From these follow `RowsConsistent`,
`FilesMatchRows`, `WithinLimits` and `RevisionNamesContent`.

`SumLemmas` has what the quota and disk arguments of hosting, sharing, manuals and
comments need of sums and counts over finite sets.  The models add with
`MapThenSumSet` of the community modules, a recursive function over
subsets.  That its equation has a solution is shown by taking the least cardinality at
which there would be none; that two solutions agree by induction over cardinality
(`SubsetInduction`, stated for a set of subsets instead of a predicate).  The others are
lemmas of the usual kind: the sum of the empty set, of one element more or less, of a
larger set, of a union, of larger summands.

The inductive invariants were first checked by TLC on the instance of the component's
run.  The properties the runs check are mostly conjunctions of parts that are proved by
themselves; the listed theorem that names the property puts them together.  The
theorems `FilesAgree`, `FilesComplete`, `PublishedSafe` and `NoOrphanFiles` of hosting
assume `LostAcks = FALSE`; all others hold for every value of the constants.

Assumptions are those of the ASSUME statements, evaluated by TLC in every run.  The
ones that say that sets of users, files, items, requests and the like are finite are
there for sums and cardinalities: a database and a process hold finitely many of each.

Every safety invariant and every safety property of a step that a run checks is thus also
a theorem.  Only model-checked are `EveryRequestReturns`, `RetiredAreRemoved`,
`Converges`, `Applies` and `Ends`: liveness under fairness is out of the prover's reach.

## 6. What the runs found

* A retried upload is answered with the release found under its idempotency key
  even when that release is being deleted (`web_replies`), while the repository's
  README says that a successful upload means that the release is ready.

Noted without a run:

* hosting: the handler never compares `If-Match` with the row it reads
  (`app/webprojects/projects.go:150-231`), only the update does
  (`domain/dal/webproject.go:104`).  A client that sends the revision after the one it was
  shown, which `src/README.md:190` does not tell it to, can thus change a row its handler
  has not read: a disable that read the live project and commits after its deletion leaves
  it disabled with `purge_after` set, and a restore that read the project before its purge
  began revives it.  `RecycleBinSound` leaves projects out to which that happened
  (`ahead`);
* comments: the transaction of a comment does not check the reading password again, so a
  comment may be written under a password that was changed since its handler looked, and
  an event may name a release that was uploaded and never published
  (`domain/service/webcomments/service.go:421`);
* two logins that both upgrade an outdated password hash exclude each other, and the
  second is refused although its password is right;
* the test table of the account centre's design
  (`docs/specs/account-center/design.md:378`) says that a login of an account with the
  full number of sessions keeps the existing ones, while the code, like the text of
  the same document (lines 99 and 101), replaces the oldest, which is what
  `LoginKeepsNewest` states;
* a lost commit acknowledgement makes `UploadRelease` remove the directory of a
  release that exists;
* a hundred releases that can never be removed would hide all later ones from the
  retry query;
* administrators: the count of usable administrators (`accounts/mutations.go:332`)
  protects nothing that the rule against acting on oneself does not already protect;
  it refuses to ban or demote an administrator who has to change his password when
  the actor is the only usable one.  Resetting a password also takes an
  administrator out of use and is not counted.  `AdminRemains` holds because the
  actor himself is usable at his commit;
* statistics: when Redis comes back with an older image while the worker is ready,
  later visits may catch up with the committed sequence and the result is persisted as
  "ok", contrary to `domain/service/webanalytics/README.md:31` and
  `docs/redis-cache-analytics.md:42`; `HonestReports` therefore excepts that fault.
  After such an image a snapshot may also be refused, yet acknowledged, and wait for
  the next visit, so `Converges` excepts it too;
* statistics: any error of `readRedis`, that of a connection too, makes `ensure` go on to
  restore MySQL's state if the commands after it succeed
  (`domain/service/webanalytics/snapshot.go:36-57`), over keys that were complete and newer,
  which the comment above `ensure` says it preserves.  The total is degraded, but only the
  days since the last snapshot are: a late visit of an earlier day is lost and that day
  stays "ok".  `HonestTotals` covers it, `HonestDays` excepts it;
* statistics: the queue and the gap tables are shared by all projects.  A gap that finds its
  table full is only remembered as an overflow, which `flushGaps` turns into a gap of every
  project it knows, on the day of the flush.  The loss of a project it does not know is never
  marked, and a day before that of the flush is not marked at all.  `HonestTotals` excepts
  the first and an overflow not yet moved, `HonestDays` any gap that did not find room;
* statistics: with `hot_days` = 1, which the configuration admits
  (`config/infrastructure.go:105`), a day that ended before its last flush can be
  reported as "ok" with visits missing; the run uses 2.  In the moment in which
  `flushGaps` holds the gaps, `Stats` may say "ok" as well.  A transaction the Redis
  client repeats counts twice unnoticed, which the documentation says;
* statistics: a gap that is marked, or a late visit that is counted, for a day that has
  already left Redis as cold begins that day in Redis again without its visits
  (`domain/service/webanalytics/redis.go:248` and `:270`).  Redis then counts less than
  the row, the next `ensure` restores it from MySQL, and the visit or the mark is lost
  again while the day may be reported as "ok".  It came up in the proof of
  `HonestDays`, which therefore supposes that no day began again (`anew = {}`);
* lists: a manual that gets its password and then a cover between the queries for the
  password and for the covers is listed once with that cover, contrary to
  `docs/specs/file-sharing/design.md`; `DescriptionsHidden` is about descriptions.
  The legacy library pages by offset, and its `Order` after `Find`
  (`dal/book_storage.go:69`) has no effect;
* file sharing: a body may pass the disk's floor by one byte before it is refused,
  as `DiskFloor` says; a staging file left by a crash is never removed; the fixed
  attempt window admits twice the attempts around its boundary.

## 7. Not modelled

The components with status `not_modelled` in `PROJECT.json`: the legacy passport and
library, WebDAV, DDNS and remote lookups (calls to other services, or one
statement per request), the migration and storage tools (run once, by hand, with the
service stopped), the acceleration runtime, the goroutine helpers and the front end.

Of the modelled components: metrics, logging, JSON layout, path validation and
archive formats, upload concurrency slots of hosting, page serving and its headers,
range requests, the YAML identity mode, CSRF and origin checks.  Known and left out:
an administrator's restore ignores the owner's project limit
(`app/adminweb/adminweb.go:270`); two logins that upgrade one hash
(`accounts/service.go:171`); expired tokens are removed only by the next issue
(`applications/service.go:345`).
