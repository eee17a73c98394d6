# A verification of simple-storage-service

TLA+ models of a self-hosted S3 store, the TLC runs that check them on small
instances, and the proofs that TLAPS checks for instances of any size.

## 1. The system

Two NestJS processes serve one Postgres database, one Valkey and one directory
of blobs: `apps/s3` speaks the S3 protocol, `apps/api` is the management API and
also runs the garbage collector. All state changes live in the services of
`libs/domains/src`, which both processes call. Nothing is shared in memory
between requests but the collector's `running` flag and the rate limiter's
`available`. A React console (`web/apps/storage`) is a client of `apps/api`.

| part | state it keeps | operations | made correct by | modelled in |
|---|---|---|---|---|
| objects (`objects.service.ts`) | rows of `object`, `object_version` | put, copy, delete, deleteVersion, deleteMany, deleteByPrefix, createFolder, copyKeys, getVersion | a key points at its newest version; a version's blob exists; a plain delete purges only in an unversioned bucket; a move loses nothing | `ObjectStore`, `VersionTx`, `Workspace` |
| listings (same file, `s3.response.service.ts`) | none: a client carries the cursor | list, ListObjects' markers, listAllVersions, listMultipartUploads, listParts | a walk through the pages gives what was there all the time, once | `Listings` |
| multipart uploads (same file) | `multipart_upload`, `multipart_part` | create, uploadPart, uploadPartCopy, complete, abort | a part's blob exists while its row does; an upload ends once | `ObjectStore`, `Workspace` |
| storage (`storage.service.ts`, `storage.cipher.ts`) | files under the data path | write, read a range, concat, delete, listBlobs | a blob is removed only when nobody names it; a range decrypts to the bytes asked for | `ObjectStore`, `Payload` |
| gc (`gc.service.ts`) | `running` | abort abandoned uploads, sweep orphans | collects every orphan in the end, and never a blob in flight | `ObjectStore` |
| usage (`usage.service.ts`) | none: sums over rows | assertQuota | usage passes a quota only when the sums were stale | `Workspace` |
| buckets (`buckets.service.ts`) | `bucket`, `bucket_access` | create, delete, setVersioning, setQuota, setAcl, setCors, grants | only empty buckets go | `Workspace`, `Requests` |
| users (`users.service.ts`) | `user` | create, update, setStatus, setPassword, delete, bootstrapAdmin | an administrator is always left | `Accounts` |
| sessions (`auth.service.ts`, `AuthProvider.tsx`) | `user_session`; localStorage | login, refresh, logout, revoke | sessions end with their password; a refused page goes on with its refresh token | `Accounts` |
| access keys (`access-keys.service.ts`) | `access_key` | setStatus, delete, getSigningCredentials | a link opens until it runs out or its key is changed | `Requests` |
| policies, S3 authorization (`policies/*`, `s3.authorization.service.ts`) | `bucket_policy` | evaluate, validate, put, delete | an explicit Deny wins over everything | `Policy`, `Requests` |
| rate limit (`rate-limit.service.ts` and two guards) | counters in Valkey, `available` | consume | a window lets no more through than its budget | `Requests` |
| S3 protocol (`s3.signature.service.ts`, `s3.chunked.stream.ts`, `s3.request.service.ts`) | a parser per body | verify, presign, chunked bodies, ranges, preconditions | what is stored is what was meant; what is served is what was asked for | `Payload`, `Requests` |
| controllers and guards of both apps | none | what each call needs to be allowed, in which order it does things | nobody is let in but by what the rows say | `Requests` |
| audit (`audit.interceptor.ts`) | `audit_log` | record | every management call is in the log | `Accounts` |
| console (`web/apps/storage`) | what a screen shows, what is under way | browse, upload, rename, delete, the tables, the policy editor | the screen tells what the API has; every file of a drop is sent | `Console`, `Accounts` |
| schema, config, migrations | - | - | - | as far as the services use them |

A request is authorized on the bucket row (`resolveBucket`), keeps that row as
its *bucket context*, and then runs a service method: a sequence of awaits, each
one statement, one transaction or one file operation. Everything hard follows
from that: what a call read before an await is used after it, other calls and the
collector run in between, the process may die at any await, and files do not
take part in transactions. Transactions are READ COMMITTED, Postgres' default.
The console repeats the pattern in the browser: a handler runs to its first await
and goes on with the folder, token and page of the render it was made in.

`PROJECT.json` lists every component with its status, and under `hazards` the
places where this bites, each with the properties that are about it.

## 2. The modules

| module | what it is |
|---|---|
| `BlobLedger` | abstract: the life of one payload (unborn, staged, claimed, released, gone) |
| `ObjectStore` | the core: rows, blobs, calls and the collector, interleaved at every await |
| `ObjectStore_proofs` | type correctness, blob safety and the refinement of `BlobLedger`, for every instance |
| `VersionTx` | the transactions of one key, statement by statement with their locks |
| `VersionTx_proofs` | its type correctness and five safety properties, for every set of calls |
| `Listings` | the five listings, page by page, and the clients that walk through them |
| `Listings_proofs` | the type correctness and completeness of walks, whoever changes the tables and however |
| `Workspace` | composes `Listings` with the calls that change buckets: quotas, copies, moves, folders, bucket deletion |
| `Workspace_proofs` | its type correctness, its listings, bucket and folder deletions, quotas and moves, for any calls, buckets and keys |
| `Accounts` | users, sessions, management calls, the audit log, and the tabs of the console that hold tokens |
| `Accounts_proofs` | its type correctness and three safety properties, for every set of users, tabs and calls |
| `Policy` | who may do what, as pure operators: policies, conditions, ACLs, CORS |
| `Payload` | bytes, as pure operators: chunked framing and its signatures, ranges, the counter mode |
| `Payload_proofs` | the counter mode: `advanceIv` against the cipher's arithmetic, and what a read of a range hands out; the framing: `S3ChunkedStream` against what clients send |
| `Requests` | composes `Policy` and `Payload`: the way of a request through both applications |
| `Requests_proofs` | its type correctness, ranges, links, denials, decisions, budgets and bodies, for any number of callers |
| `Console` | the screens: file browser, upload panel, tables, policy editor |
| `Console_proofs` | that they tell the truth, for any clicks and any order of answers |
| `MC...` | which situations there are in each instance |

They overlap where two parts meet, and each takes for one step what another takes
apart: `Workspace` commits a version in one step and knows no blobs, which
`ObjectStore` takes apart; `ObjectStore` does a transaction in one step, which
`VersionTx` takes apart; `Requests` has one object per bucket and its payload
byte by byte, and leaves everything else about objects to the others.

### ObjectStore

*State.* The tables `object`, `object_version`, `multipart_upload` and
`multipart_part` are functions from guids to rows; `versioning` is the bucket's
setting. `disk` is the set of files, `age` what their modification times say.
Every call `r` has a program counter `pc[r]` naming the statement it executes
next, its arguments (`op`, `uploadId`, `number`) and what it holds in memory
(`local`, and `doomed`: the paths handed to `deleteBlobs`). The collector is one
more process, `Gc`, with its sweep (`stale`, `refs`, `old`).

A call draws its random ids once, so one name serves for all of them: the blob,
the version row, the object row and the upload that call `r` makes are all called
`r`.

*Actions*, and the code each one is (`objects.service.ts` unless said otherwise):

| action | code |
|---|---|
| `StartPut`, `StartDelete`, `StartUploadCall` | a handler, with the bucket row it was authorized on |
| `CreateMultipartUpload` | `createMultipartUpload` |
| `Write`, `Reject` | `StorageService.write`, and the refusals after it that delete the blob again |
| `CommitVersion` | `commitVersion`, for put, complete and delete markers |
| `FindObject`, `PurgeObject`, `SelectVersion`, `DropVersion` | `delete`, `purgeObject`, `deleteVersion` |
| `RequireUpload`, `SelectPreviousPart`, `UpsertPart` | `uploadPart` |
| `ReadPartsToComplete`, `ConcatPart`, `CommitVersion`, `Retire`, `DropParts` | `completeMultipartUpload` |
| `ReadPartsToAbort`, `DropParts`, `Retire` | `abortMultipartUpload` |
| `Reap` | one turn of `deleteBlobs` |
| `StartSweep` ... `FinishSweep` | `GcService.collect` and what it calls |
| `Fail`, `FailAbort`, `FailDelete`, `FailSweep` | a throw, or the death of the process, at any await |
| `SetVersioning`, `Tick` | an administrator, the clock |

`copy` and `uploadPartCopy` are a put and an uploadPart whose payload comes from
a blob. A payload's bytes, sizes, ETags and metadata are left out: nothing here
depends on them but the refusals, which may happen or not.

*Abstractions.* A transaction is one step; `VersionTx` takes it apart.
`latestVersionGuid` is left to `VersionTx` for the same reason. Writing a payload
is one step, from which its age counts: the collector goes by the modification
time, which each chunk renews, so what matters is the gap between two chunks and
the delay between the last one and the commit (`CommitDelay`).

*Assumptions.* `TimeAssumption` says `CommitDelay + ReadDelay < BlobMinAge`: the
safety margin (`GC_BLOB_MIN_AGE_HOURS`, 24 by default) is longer than the commit
of a row takes after the last byte, plus the time in which the collector reads
the references. Nothing in `config.provider.ts` enforces it; with a margin of 0
the collector may delete a payload whose row is about to be committed. This is
the only assumption on time, and the proof uses it at one place (`Cutoff`).

### VersionTx

The same transactions, for one key, as the database executes them. A statement
sees what is committed plus what its own transaction wrote; `holder` is the
transaction that has written the object row (or has inserted it, which makes
others wait on the unique key), `draft` what the row will be; `eraser[g]` is the
transaction that has deleted version row `g`. A statement that needs a locked row
is simply not enabled until the lock is released, and then works on what is
there, as Postgres does when it re-evaluates a row. `Deadlocked` and
`BreakDeadlock` are Postgres' deadlock detector. `CheckRefs` is the foreign key
of `object_version`: the deletion of an object row fails on a version that still
names it, and waits for one that is being deleted. `createdAt` is the time at
which a transaction began, hence `born`.

What it contributes to `ObjectStore`: the paths a transaction reports are those
of rows that are gone (`ReportedRowsAreGone`), and no removed row goes
unreported (`RemovedRowsAreReported`), so that for the blobs a transaction might
as well be one step. What `ObjectStore` does not show and `VersionTx` does: an
object row may be left behind without versions (run `lastVersion`). Blobs are
not affected by that, as no row names one.

### Listings and Workspace

*State.* `table[b][k]` is the sequence of versions of a key, newest first;
`uploads` and `parts` are the multipart tables as far as they are listed. A walker
`w` is a client that asks for page after page: `walk[w]` is what it carries from
one to the next (`cursor`, `exclude`, `marker`) and what a page has come to.
History variables hold what it was given (`listed`), what it was given twice
(`repeated`), and what has been there all the time since it began (`steady`);
every statement that changes a table goes through `Becomes`, which keeps `steady`
true.

Names are numbers in byte order, the order that the queries force with the "C"
collation. What the strings look like is given by three functions: `Under[p]`,
the keys that start with `p`, `CommonPrefix[p][k]`, the folder of `k` below `p`,
and in `Workspace` `Rekey`. `NamesAssumption` says what every set of strings in
byte order satisfies: prefixes come before what they begin, and what lies between
two keys of a folder is in it.

| action | code |
|---|---|
| `ListObjects`, `Peek`, `NextPage` | `list` batch by batch, its look for one more key, the token or the marker the client sends back |
| `ListWindow` | `listAllVersions`, `listMultipartUploads`: one window of 2 * limit + 1 rows, collapsed afterwards |
| `ListParts` | `listParts` |
| `Resolve` | `getByName`, and `requireUpload` for calls on an upload |
| `CheckBucket`, `CheckBucketParts`, `ReadOwnersVersions`, `CheckOwnersParts` | `assertQuota`, a query each; it runs before the payload is written and again after |
| `Commit` | `commitVersion`, of put, createFolder, copies and complete |
| `ListKeys`, `CopyNext`, `DeleteNext` | `copyKeys`, `deleteMany`, `deleteByPrefix`, the bulk `DeleteObjects`, key by key |
| `FindFolder` | the look of `createFolder` for its marker |
| `StorePart`, `JoinParts`, `RetireUpload`, `DropParts` | the calls on an upload, as far as quotas and listings see them |
| `CreateBucket`, `CountObjects`, `DropBucket`, `Set` | `BucketsService` |
| `Fail` | a statement fails; only `deleteMany` goes on with the next key and reports it |

A copy carries the row of the source bucket (`source`) and of the target (`ctx`),
as the code does: deletions go by the versioning setting of the former, commits
and quotas by the latter.

What is true of the listings was not obvious, so the properties say it with its
exceptions, and each exception is real: ListObjects may repeat a folder, because
it resumes after its last *object*, and stays on a folder for ever when it gives
one item a page (`s3.response.service.ts` 50: the marker of a page without objects
is the folder, which the keys in it come after; the comment in 41, that it differs
from version 2 only in how the cursor is named, is a little optimistic); a version listing ends
early when its marked row has been deleted, when its marked row is the null version
and was written anew since (in a bucket whose versioning is suspended it is then the
newest of its key, and the older ones are taken for done), when the window ends
before the page does, or when a page consists of folders (`astray`).

A move copies the *latest* version of each key and deletes the key with all of its
versions, or puts a delete marker on it; older versions are not moved, by the code's
design, so `lost` is about latest versions only. `WellAsked` is what the controllers
let through, `LeadsAway` the moves of which no key is written over another that is
yet to be moved. Two kinds of moves do not lead away: that of a folder onto its own
name without the slash (run `folderMove`), and that of a folder into the folder around
it when the latter holds another folder of its name: moving `a/a/` to `a/` copies
`a/a/a/x` onto `a/a/x`, which is a source of the same move and has not been read yet.
The check of `copyKeys` (`objects.service.ts` 442) only looks for a target inside the
source.

### Accounts

*State.* The table of users; the refresh tokens that can be exchanged (`sessions`:
a row and its token share a name, and a session that was revoked or has expired is
gone, as every query leaves it out); `store`, localStorage, which the tabs of a
browser share. Each tab and each management call has a program counter. A call
holds the row it has read and the administrators it has counted; a tab holds the
refresh token it presents and what the API has answered.

| action | code |
|---|---|
| `Start`, `Get`, `Count`, `Create`, `Write`, `RevokeSessions` | `UsersService`, one statement each, outside any transaction |
| `StartBootstrap`, `CountUsers` | `bootstrapAdmin`, which several processes may run at once |
| `FailCall`, `Record` | a statement that fails; `AuditInterceptor`, whose own write may fail |
| `Load`, `Me`, `LoseMe`, `Welcome`, `Unauthorized` | `AuthProvider.restore` and `/me`; a 401 clears the store before the caller hears of it, a `/me` that fails otherwise does not: `restore` goes on to the refresh, gives up what a refresh has just granted, and a login leaves its tokens behind |
| `FindSession`, `FindUser`, `Exchange`, `IssueTokens`, `Granted`, `Refused`, `Lose` | `refresh`, statement by statement, and what the tab does with its answer, or without one |
| `SignIn`, `Logout`, `EndSession`, `Work` | login, logout, and any other request with a token that is no good |
| `Lapse`, `Expire` | tokens run out |

The access token is believed until it runs out (`fresh`), role included: that is
what `AuthGuard` does, and `PowerLapses` says what is left of a role that was
taken away. `SignedOutWithoutASession` is about the token a page starts from:
once that is exchanged the page has nothing to fall back on, and a `/me` that is
refused or lost then gives up the session that the refresh has granted. Two processes that bootstrap at the same time both count no users;
the unique e-mail stops the second.

### Policy, Payload and Requests

*State.* The rows that decide (`key`, `bucket`, `policy`, `grants`), one object
per bucket, Valkey's counters (`counter`, `up`) and what the process believes
about them (`available`), the clock. `scenario` says who asks for what and never
changes: each caller sends one request by one of two doors, the S3 endpoint or
the management API. `stage` is where a request is, `got` what it has read and
decided so far, `io` the body it streams.

A request goes through `Guard` (credentials and signature), `Increment` / `Arm` /
`PassUncounted` (the rate limit, with the outage of Valkey: `LoseStore`,
`RestoreStore`, `Notice`), then for each of its needs `ReadRow`,
`EvaluatePolicy`, `ReadOwner`, `ReadGrant`, and at last its handler. The order is
the code's: the bucket row, the policy, the row again and the grant are four
reads at four moments, and other requests replace policies, ACLs, grants and keys
in between. `ActionOf` and `PermissionOf` are the decorators and calls of the
controllers; a copy has two needs, which the two doors look at in opposite order.
The handlers that change something are actions of their own; those that only
answer share `Read`.

A pattern in a policy, a CORS rule or a condition is the set of the values it
matches: which strings these are is not modelled. A condition key holds a set of
candidate values, empty when the request lacks it, which is where the operators
differ (`Holds`).

Bodies come in through `Receive`, which takes a piece of any length off the wire,
and `Parse`, one turn of the loop of `S3ChunkedStream`; a signature is the
sequence of chunks it covers, so it matches exactly when the chain does. What a client
makes of its chunks is `Framed`, after the two helpers in `s3.chunked.stream.spec.ts`
that play the client; what the network may make of that is `WellSent`. A body arrives
whole (the last line end may be missing, which the parser does not mind), or is cut
off, or goes wrong at a place where the parser looks (`BrokenAt`); a signed one may be
altered in any way, with the signatures of its chunks in any order, except that
nobody but the client can sign. The API takes no framing off, whatever the headers
say (`WellAsked`): there every body is plain. An unsigned body that was altered may become any other,
and nothing is promised of it. Bodies go
out through `Open` and `SendPiece`. A stored byte carries the counter of its block
and its place in it; it comes out right only under the same two, so a range that
starts in the middle of a block, a carry across the digits of the counter and a
wrap around its end are all visible. `AdvanceIv` is the code's digit-by-digit
addition, `KeystreamBlock` the cipher's arithmetic on one number: that the two agree is part of what
`RangesReadTheirSlice` checks, and `AdvancedKeystream` proves it for every counter.

Two things the model shows that are behaviours and no disagreement with any
document: an upload with framing whose client hangs up waits for ever (`HangUp`
to `"hung"`: nothing ends the stream that takes the framing off, and
`RequestsEnd` excepts it), and a body with a trailer is refused as malformed
(`s3.chunked.stream.ts` expects a line end after the last chunk).

### Console

*State.* `server` is what the API keeps, reduced to what a screen is about: keys,
the rows of a table (a function from those there are to their columns), the names of
rows that were deleted, a policy text. `place` is the URL with the tokens and the
page index of the file browser, `shown` what the screen shows, `panel` the queue of uploads, `tasks` the
handlers that wait, each with the folder, token and mount of its render.

A click (`SelectTab`, `GoBack`, `NavigateTo`, `NextPage`, `PreviousPage`,
`RemoveRow`, `MakeFolder`, `Rename`, `Drop`, `Press`, `Type`, `SaveText`,
`RemoveText`) runs a handler to its first await. `Serve` is a request that arrives,
`LoseRequest` one that does not or whose answer does not, and `ShowAnswer`,
`AfterCall`, `AfterUpload` are the rest of the handler. Requests are served and
answers come back in any order. `Press` stands for the tables: which calls each
of them makes is in `AccessCalls`, `UsersCalls`, `KeysCalls`, `BucketsCalls`,
`SettingsCalls` and `VersionsCalls`. A tab asks for what it shows when it is opened,
but for the settings: their row is asked for by `BucketDetail`, with the page and
after each change, so a tour opens the settings with the page and does not come back
to them from another tab (`ConsoleAssumption`). A click makes one call, but for the dialog of
`Users`, whose `saveEdit` makes two, one after the other.

History variables say what the clicks were to come to (`meant`), whether one was about
something that was still under way (`rash`), and whether the screen was left to the
order of answers (`lost`).

The property has exceptions here too, each a behaviour of the code: the last
answer wins even when it is to an older question (no request is ever cancelled);
a screen that is left while a change is under way refreshes with its old place;
the browser's back button changes the folder but not the tokens (`Arrive`). And
what is dropped while an upload is under way is put in the queue, where nobody
sends it (`UploadPanel.tsx` 39-41), which is why `DropsSettle` is about the files
that `send` took.

## 3. The runs

| run | instance | checks | result |
|---|---|---|---|
| `versions` | 3 calls of any of put, delete, deleteVersion on one key, versioning switched at will, one failure, sweeps without end | `TypeOK`, `RowsHaveBlobs`, `LedgerSpec` | holds (584,000 states) |
| `multipart` | createUpload, two uploadParts for one part, one complete or abort; one failure, sweeps | `RowsHaveBlobs`, `LedgerSpec` | holds (665,000 states) |
| `liveness` | put or createUpload, put or uploadPart, delete, complete or abort; one failure, fair | `OrphansCollected`, `UploadsConclude` | holds |
| `leakedParts` | createUpload, uploadPart, abort | `RetiredUploadsHoldNoParts` | violated |
| `staleSetting` | two puts and a delete | `VersionsGoByName` | violated |
| `transactions` | two puts, a delete of either kind, a call of any kind; rollbacks and deadlocks | the seven properties of `VersionTx` | holds (137,000 states) |
| `lastVersion` | two puts, two deletes by id | `KeyGoesWithItsLastVersion` | violated |
| `readDuringPut` | three overwrites and a read | `ReadsServeTheKey` | violated |
| `accounts` | two administrators, two management calls in 22 situations, one or two tabs of one browser, three sessions, one failure | `TypeOK`, `SessionsFollowThePassword`, `AdminsGoByStaleReads`, `SignedOutWithoutASession`, `TabsSettle`, `CallsAreAudited`, `PowerLapses` | holds (196,000 states) |
| `workspace` | two calls of any kind on two buckets with seven keys, one client that lists, one failure; 147 situations | `TypeOK`, `ObjectWalksAreComplete`, `VersionWalksAreComplete`, `MovesLoseNothing`, `DeletedFoldersAreEmpty`, `DeletedBucketsHoldLateWrites`, `OvershootsGoByStaleSums`, `WalksEnd`, `CallsFinish` | holds (13,600 states) |
| `folderMove` | a folder moved onto its own name | `MovesLoseNothing` | violated |
| `requests` | up to three requests in one of 119 scenarios, or a user on one of 13 tours of the console | `TypeOK`, `DeniesHold`, `UndisturbedDecisions`, `BudgetsHold`, `PayloadsSurviveFraming`, `RangesReadTheirSlice`, `ConsoleTellsTheTruth`, `LinksOpen`, `RequestsEnd`, `DropsSettle` | holds (220,000 states) |

*Why the bounds are enough to be interesting.*

- `ObjectStore`, `VersionTx`: every hazard in question is one of two or three calls
  on one key, one upload or one part number, so that is what the instances have;
  calls on different keys share no row and no blob. Ages are counted in ticks, of
  which a margin of three, a commit delay of one and a read delay of one are enough
  for a blob to be young when the references are read and older when the walk comes
  to it. One failure per run is enough to leave each kind of orphan; the collector's
  sweeps are unlimited. Calls with the same operations are interchangeable, so their
  permutations are a symmetry; no liveness run uses one.
- `accounts`: losing the last administrator takes two of them and two calls; a
  session that survives its password takes one change and one sign-in; what two
  tabs do to each other takes two tabs and one store. Three sessions are enough
  because a name is used again once no store, tab or answer holds its token. The
  situations (`Situations`) put the calls together that meet: two removals, a
  removal and a promotion, two bootstraps, two password changes, and two tabs while
  their user loses the role. Requests and statements fail in the situations with a
  change of password or a bootstrap, where one tab is open.
- `workspace`: the keys are `a`, `a/`, `a/x`, `a/y`, `b/`, `b/x`, `b/y`: a key that
  is the name of a folder, markers of folders, a folder with two keys, two folders.
  Pages of one and two items make every walk take several pages, and windows of 3 and
  5 rows end before a page does. Quotas are in units, with room for exactly one more
  payload. A situation names two calls or one call and a walk, because every property
  here is about a call and one other.
- `requests`: two users, three keys, two buckets and three callers: one who is
  decided about, and two who change what decides. `Budget` 2 and `Window` 2 let a
  budget run out and a window end, `Skew` 1 and `maxTime` up to 3 let a signature, a
  key and a link run out. Blocks of two bytes, counters of two binary digits and
  a payload of seven bytes make every range with a start in, at and behind a block, the
  carry and the wrap of the counter. Bodies of up to three chunks arrive in every
  division into pieces; `MaxBytes` and `MaxHeader` are each passed by a body.
- the console: five keys, three of them in a folder, pages of two rows, two to four
  clicks, at most three handlers at once, one loss on the tours where that matters.

The console shares no state with the requests (they meet in the API, of which each
has its own abstraction), so a behaviour of `requests` is one or the other.

*Fairness.* `ObjectStore`: the event loop and the database serve every call in
flight (WF per call); the cron job starts sweep after sweep and each goes on (WF
of the collector); time passes although it has to wait whenever a commit is due
or the references are being read (SF of `Tick`; under WF, sweeps in a row could
stop the clock). No call has to be made, no failure has to happen.
`VersionTx`: each statement that need not wait is executed, and a deadlock is
broken. `Accounts`: a call that was made goes on (WF of `CallStep` per call), a
request of a tab is answered or fails (WF of `Answer` per tab), a page that was
opened runs its effects (WF of `Load` from there only), and access tokens run out
(WF of `Lapse`). Nobody has to sign in, click, log out or come back. `Workspace`:
some statement that can go on does (WF of `Run`), which is all that one Node
process promises and enough because every call is finite. `Requests`: the same for
what the applications do by themselves; clients, the clock and Valkey owe nothing.
`Console`: the API answers and handlers go on (WF of `ConsoleRun`); the user
owes nothing.

*Deadlock.* `ObjectStore` never stops: the collector and the clock go on. Nor does
`Accounts`: a tab can always be loaded again. In `VersionTx`, `Workspace` and
`requests` all calls end and the system stops, so these configurations do not check
for deadlock; `CallsEnd`, `CallsFinish`, `WalksEnd`, `RequestsEnd` and `DropsSettle` say that
nothing stops earlier.

### What the violations show

- `leakedParts`: `abortMultipartUpload` reads the parts, deletes the rows and sets
  the status in three statements. A part that `uploadPart` upserts in between, or
  later, since it looks at the upload only once, stays in the table under an
  aborted upload. Nothing removes it afterwards: sweeps look at uploads in
  progress, and its row keeps its blob referenced.
- `staleSetting`: `delete` acts on the versioning setting that was read with the
  bucket when the request was authorized, so a delete that overlaps the switch to
  `enabled` purges versions written under it.
- `lastVersion`: two `deleteVersion` transactions each see the row that the other
  removes, and each points the key at it. The key stays, points at nothing, and
  the bucket still counts as not empty.
- `readDuringPut`: `getVersion` reads the object row and then the version row. An
  overwrite in an unversioned bucket that commits in between gives the version a
  new guid, and the read answers that there is no such key.
- `folderMove`: `copyKeys` refuses a target that begins with the folder's name, and
  only then appends the slash that is missing from it. Moving `a/` to `a` passes, each
  key is copied onto itself, and then deleted as the source of the move.

### What the properties of the passing runs allow

Some guarantees one would like do not hold, and the properties say how far they go.

- The last administrator goes (`AdminsGoByStaleReads`) when two calls each count the
  other's, or when a row that was read as no administrator's has been promoted
  since. One call alone never takes the last.
- A session survives a change of its password (`SessionsFollowThePassword`) when a
  sign-in or a refresh read the row before and wrote its session after the change,
  or when the change failed before it revoked.
- A quota is passed (`OvershootsGoByStaleSums`) by whoever commits after others have
  stored bytes, or the limit was lowered; or when an upload was completed between
  the two sums, as its bytes are then counted twice or not at all.
- A bucket is deleted with versions in it (`DeletedBucketsHoldLateWrites`) only if they
  were committed after it was counted.
- A move loses a payload (`MovesLoseNothing`) that somebody put over the source or the
  destination while it was under way.
- A version listing loses what comes after a marker that names nothing any more, or
  names a null version that has been written anew (`VersionWalksAreComplete`).

## 4. The proofs

`ObjectStore_proofs` holds for any finite or infinite set of calls, keys and part
numbers, any assignment of operations to calls and any ages that satisfy the
assumptions of `ObjectStore`.

- `TypeCorrect`: `Spec => []TypeOK`. The domains of the variables (`Domains`) are not
  inductive alone: a call must be at a control point that suits its operation
  (`OpFits`) and an upload call must know an upload that exists (`KnowsTarget`).
  `TypeInv` is the three together. `TypeOK` says more: what is a file, or handed to
  `deleteBlobs`, is the path of a payload (`Paths`), where the path of a delete marker
  is null. That takes what calls remember of the rows they have removed
  (`Remembered`), so it comes after `SafetyInv`.
- `SafetyInvariant`: `Spec => []SafetyInv`, the inductive invariant.
- `BlobSafety`: `Spec => []RowsHaveBlobs`.
- `ImplementsLedger`: `Spec => LedgerSpec`, the refinement of `BlobLedger`.

*The argument.* A blob is *open* while its call has not yet committed the row
that names it, and *dead* when it is not open and no row names it. Dead blobs
stay dead (`DeadStable`), because each blob has one place to be named from,
settled by the call that wrote it (`PlacesAreOwn`). A blob leaves the disk in
three ways (`DiskFrame`): by the call that wrote it before that names it; by
`Reap`, where it must be shown that what is doomed is dead (`DoomedAreDead`,
which needs what calls remember of the rows they have read, `Remembered`); and by
the collector, where it must be shown that what has not been seen referenced and
is old is dead (`CollectorIsSafe`). For the last one, a blob that is not dead
when the references are read is open, hence on the disk for at most
`CommitDelay` (`OpenBlobsOnDisk`), and `Young` counts from there while the
references are being read. Part paths are read after version paths: a part blob
never becomes a version's, so no reference slips through between the two reads.

`ImplementsLedger` adds that only calls that write have a file
(`FilesAreWritten`), that one step moves one open call or removes one dead blob
(`OneMover`), and the phases a blob may go through in a step (`PhaseStep`).

The inductive invariant was checked with TLC on the instances above before it was
proved.

`VersionTx_proofs` holds for any finite number of overlapping calls on a key, each
of any operation. `Invariance` is `Spec => []TxInv`; from it follow

- `TypeCorrect`: `TypeOK`. The domains (`Domains`) follow step by step; that a committed
  object row points at a version (`Pointed`), although it is inserted with a null
  pointer, follows from the order of the statements that the holder of its lock runs.
- `ReportsAreTrue`: `ReportedRowsAreGone`.
- `NothingIsForgotten`: `RemovedRowsAreReported`.
- `NullIsUnique`: `NullVersionIsOne`.
- `VersionsAreReachable`: `VersionsHaveTheirKey`.
- `PointerIsSound`: `PointerHolds`.

*The argument.* A put holds the object row from its upsert to its end, and so does
a purge from its DELETE of that row (`LockIsHeld`); what the holder is going to
commit is either a row that names the version it has written, or no row, and then
it has erased every committed version (`DraftIsSound`, which needs that all of
them have the key's object row, hence `VersionsHaveTheirKey` is part of it). What
a transaction has erased it reports, and what it reports is erased or erased
already (`ErasedRows`, `ReportedRows`): rows do not come back, and what is rolled
back is not reported. Null versions take turns because only the holder writes
one, and it has erased the others before (`NullsTakeTurns`). A purge that finds
the object row gone has erased nothing (`PurgeTakesAll`): else a row would be
left that the pointer does not know of.

The theorems are about `Spec`, so they assume nothing of the scheduling; they say
nothing of `deleteVersion` and the pointer, where the runs find a violation.

`Accounts_proofs` holds for any finite set of users, any sets of tabs, browsers,
calls and sessions, and any table to start from. It assumes that `None` is no
member of these (`UsersAssumption`) and that what `Starts` contains is well-formed
(`CallsAssumption`).

- `Types`: `Spec => []TypeOK`.
- `LastAdmin`: `Spec => AdminsGoByStaleReads`.
- `PasswordEndsSessions`: `Spec => []SessionsFollowThePassword`.
- `SignedOut`: `Spec => SignedOutWithoutASession`.

*The argument.* `TypeInv` adds to `TypeOK` what calls and tabs know where they are:
a call that writes for a removal has read the row, and if that said administrator it
has counted at least two (`CallsKnow`); a tab that exchanges a token has found its
session and user, one that was granted tokens has them (`TabsKnow`). `LastAdmin`
follows from it in one step: one UPDATE takes one administrator, so if none is left
there was one, the row is now an administrator's, and either the call read
otherwise or it counted two. For passwords, `PasswordInv` adds that users are never
removed (`UsersStay`): then a session's user has a row, the only step that changes a
password leaves its call about to revoke, the only step away from there revokes
or leaves it `"halfway"`, and what is written for an old password is marked `late`.
`SignOutInv` adds that a tab that was refused had reason to be
(`RefusedForAReason`): its session is gone and does not come back, as a new session
takes a name that no tab presents (`Unused`), or its user could not sign in.

`Payload_proofs` and `Requests_proofs` hold for any block size, radix and number of
digits of the counter, any finite sets of callers and keys, any sets of users and
buckets, any budget, window and skew, and any scenario with rows that the code could
have written. They assume `PayloadAssumption`, `RequestsAssumption`, `RowsAssumption`
(sizes are positive, a chunk's header, which is four symbols here, fits the limit on
headers, the sets are finite and apart) and `StartsAssumption`: callers ask
for what the controllers let through (`WellAsked`), and the rows there are at first
passed the validation that every later one passes.

- `AdvancedKeystream`: `KeystreamBlock(AdvanceIv(iv, blocks), n)` is
  `KeystreamBlock(iv, blocks + n)`. The carry after each digit is bounded, and what
  the digits and the carry are worth together stays the same (`Carries`); the
  induction runs over the digits, as the search for the least digit where this fails
  (`LeastNatural`).
- `InvariantOfTypes`, `RequestsTypes`: `Spec => []TypeInv`, and `TypeOK` with it. Each
  call knows what it must (`Identified`: whose key, which link; `Decided`: how many of
  its needs are behind it; `Holding`: what its handler has in its hands).
- `RangesAreExact`: `Spec => []RangesReadTheirSlice`. A read that has dropped what comes
  before its range has handed out a prefix of it (`Reading`), which is kept through
  every piece that `SendPiece` reads.
- `SharedLinksOpen`: `Spec => LinksOpen`.
- `ExplicitDenyEnds`: `Spec => []DeniesHold`. What is denied has been denied by the
  policy ever since, so the look at the policy (`EvaluatePolicy`) meets a document that
  denies it; a call that is past that look has no such need in hand (`Denials`).
- `FourLooksAreOne`: `Spec => []UndisturbedDecisions`. While a call is steady, what it
  has read is what there is (`Undisturbed`).
- `BudgetsAreKept`: `Spec => []BudgetsHold`. Whoever was let through on the count of a
  window is among its hits, which only grow (`Counted`).
- `BodiesSurvive`: `Spec => []PayloadsSurviveFraming`, for any chunks, of any number and
  size, and any pieces.

*The argument for bodies.* Two invariants of the parser, for two kinds of bodies. Of a
signed body that anything may have happened to, `Verified` says that what was passed
on are the first chunks the client signed, and the one in hand (`Chained`): a signature
covers all chunks before it, so it fits only in its place, and the parser is done only
behind the empty chunk, which the client signs last. Of a body that nobody altered,
`Follows` says where in which frame the parser is, how much of that frame it has passed
on, and what is left of the wire (`Placed`, `At`); each turn of the loop gets on or waits
for a place that has not arrived (`GetsOn`), hence a body that arrived whole is read
to its end and not refused, and one that was cut off or broken never reaches the last
chunk. That the frames lie one behind the other, each where the sum of the sizes before
it says, is what an unfolding of `FlattenSeq` gives (`Laid`, `Framing`). Those facts about
a fold are derived from its definition as a function on the naturals (`Recurs`), by
the search for the least number where they fail. The first version of the property
compared each body with one that the instance wrote down next to it; to prove it
for all of them the model had to say what a client sends.

`Listings_proofs` is about `ListingsSpec`, whose other actor is *any* change of the
tables whatever, so its theorems hold beside every program that writes. They assume
`NamesAssumption`, `PartsAssumption` (parts and uploads are ordered, of which the code
keeps finitely many) and `QueriesAssumption`.

- `InvariantOfWalks`, `ListingsTypes`: `ListingsSpec => []WalksInv`, `[]ListingsTypeOK`.
- `ObjectPagesAreComplete`: `ListingsSpec => []ObjectWalksAreComplete`.
- `VersionPagesAreComplete`: `ListingsSpec => []VersionWalksAreComplete`.

*The argument.* What was there all the time and has not been given lies ahead
(`Ahead`: behind the cursor in the order, and not in the folder given last); what was
given does not. A query finds the first of what is ahead (`Finds`), the page takes a
prefix of it, and the cursor moves to where the prefix ends. Folders are intervals of
the order (`NamesAssumption`), so excluding the last one excludes nothing else. A
client of ListObjects loses that exclusion from page to page, hence `Passes`: a page
goes beyond its marker, but for one item that may be the folder of the marker. For
versions the rows of a key are ordered by age, and `Beyond` says which are left:
those older than the marked one, as long as the marked one stays what it is
(`Kept`) and unless the client has been led `astray`. That a rewritten null version
leads it astray came out of this proof: the first `Kept` did not say so, and was not
inductive.

`Workspace_proofs` holds for any set of calls, users and walkers, any finite set of
buckets, any names that satisfy `NamesAssumption`, any sizes, any situations to start
from. It assumes `SpaceAssumption` and `StartsAssumption`: calls are asked for what the
controllers let through (`WellAsked`), version ids are not given twice, and a bucket
that is marked as deleted at the start is empty.

- `InvariantOfSpace`, `SpaceTypes`: `Spec => [](SpaceInv /\ Found)`, and `TypeOK`.
- `ObjectPagesSurviveWrites`, `VersionPagesSurviveWrites`: the walks of `Listings` are
  complete beside the calls of this module, each of whose writes is a change as
  `Listings` allows it.
- `DeletedBucketsAreEmpty`: `Spec => []DeletedBucketsHoldLateWrites`.
- `DeletedFoldersLeaveNothing`: `Spec => []DeletedFoldersAreEmpty`.
- `OvershootsNeedStaleSums`: `Spec => OvershootsGoByStaleSums`.
- `MovesAreWhole`: `Spec => []MovesLoseNothing`, under the hypothesis that every move
  of the situations leads away (`LeadsAway`). Without it the theorem is false, as run
  `folderMove` shows.

*The argument.* `SpaceInv` says where each call stands (`Placed`): which calls are at
which step, with a key to write, with buckets that were read, with copies left to
make; and that no id is still to be given that a version has (`Fresh`), so that
`WithVersion` leaves ids that differ: the null version is taken out before it is put
in front. For buckets, `Emptied`: what is in a bucket that goes was written since it
was found empty, for `countObjects` looks at every version. For folders, `Accounted`:
what a deletion aims at and is visible is doomed, or written by others since, or
reported. For quotas, `Admitted`: at its commit a call has been let in by its sums
and limits; the sums of a bucket are sums over its versions, and `commitVersion` adds
one payload at most (`OneVersionMore`, by `SumsGrow` and an injection of the versions
that were there), so a bucket that grows past a limit did not have the sum the call
has read. For moves, `Moving`: each key that was read and not disturbed is at its
destination with the payload that is latest at its source, or in the hands of the
call; that no copy is written over it again needs destinations apart, and that no
copy is written over a source needs sources and destinations apart: `LeadsAway`.

`Console_proofs` holds for any number of keys, any folder that is an interval of them,
any page size, any rows and policy texts, any number of clicks, lost requests and
handlers that wait. It assumes `ConsoleAssumption`: a folder is an interval, which names
in byte order make it, and tours start at a URL.

- `ConsoleKeepsInv`: `ConsoleSpec => []ConsoleInv`, the inductive invariant.
- `ScreensTellTheTruth`: `ConsoleSpec => []ConsoleTellsTheTruth`.

*The argument.* The property is about the moment when nothing is under way and says
nothing of how one gets there, so it is far from inductive. `ConsoleInv` is made of
what leads to it.

- `ConsoleTypes`: what waits is a load, the handler of one click, or a loop of uploads,
  with the folder, token and mount of its render. `ConsoleLoops`: at most one loop of a
  panel, and none unless it says `uploading`.
- `ConsoleAwaits`: a screen that is loading has a load that waits, so it does not stay
  so. `ConsoleOks`: without losses every load and every upload is answered.
- `ConsoleKeeps`: what the API has, followed by the calls that are still to be made,
  comes to what was clicked. It is said without an order of those calls: as long as no
  click was `rash`, two calls that wait are about different things (`Apart`); whatever
  no waiting call is about is already as it was meant (`SameFor`), and for what one is
  about, its outcome is (`Comes`). So each may be served at any time. The two calls of
  one click are about the same row, which has to be there for the second
  as well (`Second`).
- `ConsoleFresh`: unless the screen is `lost`, the last load that was sent for this
  mount asks for what the URL says, and if no handler owes a refresh any more
  (`Settled`: those that have changed something do), its answer is what the API has;
  when no load waits, that answer is on the screen (`Fresh`). Since a later load is
  never overtaken while the screen is not lost, it is the one that stays. Every handler
  that changes something was made in the render that is shown (`Writers`), so its
  refresh asks for the right place.
- `ConsoleQuiet`: on tours that only walk no key changes, so the tokens lead from page
  to page (`Leads`).

When no handler waits, all of them together say `ConsoleTellsTheTruth`.

These invariants were checked with TLC on all states of the runs before they were
proved.

Every invariant, action property and refinement that a passing run checks is stated
by one of these theorems. *Only model-checked* are the liveness properties
(`OrphansCollected`, `UploadsConclude`, `CallsEnd`, `CallsFinish`, `WalksEnd`, `RequestsEnd`,
`DropsSettle`, `TabsSettle`, `CallsAreAudited`, `PowerLapses`), since fairness and
ENABLED are beyond the prover; and of course the five properties that runs show to be
violated.

## 5. What is not modelled

- *Files.* `StorageService.concat` without encryption does not wait for its target to
  be flushed after `sink.end()` (`storage.service.ts` 164), so a version row may be
  committed before its last bytes are on the disk; the model is kinder. A blob that
  is deleted between a read's row and its `open` answers an error; `Requests` reads the
  file as it was.
- *Cryptography*: hashes, HMACs, key wrapping and password hashing are what they
  promise to be: a signature fits what it was made over, a password is who knows it.
- *Text*: canonical requests, XML, JSON, URLs, headers, wildcards, dates and IP
  ranges. The models have the sets they stand for.
- *Infrastructure*: the connection pool, migrations, parsing of the configuration,
  health checks, logging, container images.
- *Access keys*: their creation and the time of last use, on which nothing depends.
- *Console*: layout, sorting, translations, dialogs' texts; toasts, which are shown by
  handlers but decide nothing.
- *Audit log*: reading it is a query.

Bodies, ETags and metadata of objects are left out wherever no property is about
them: `ObjectStore` has refusals that may happen or not, `Requests` has one object
per bucket.

## 6. What could come next

The models cover the program's own logic, and what can be proved of the properties that
the runs check is proved. What is left would say new things:

1. An abstract specification of what a bucket promises to one client, and `Workspace`
   as an implementation of it for calls that do not overlap.
2. Clock skew between the two applications, and a `Workspace` with several uploads.
3. A buffer between the process and the file, for the flush that `concat` does not wait
   for (hazard at `storage.service.ts` 164).
