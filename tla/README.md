# The shoveler registry, modelled and checked

The program (`src/portal/`) is a small FastAPI service that registers XRootD
shovelers, authenticates them by signed client assertions, mints RabbitMQ access
tokens for them and collects their health reports. Its state is one SQLite
database, a directory of signing keys and a few counters in memory. This
directory holds TLA+ models of it, the TLC runs that check them and the TLAPS
proofs about them.

## Inventory

| Component | State | Operations | Interacts with |
|---|---|---|---|
| registration (`registration.py`) | rows of `clients`, `registration_tokens` | `POST /register`, with a registration token (active at once) or without (pending) | database; rate limiter |
| database (`db.py`) | `clients`, `registration_tokens`, `used_assertions`, `client_reports` | one function per statement; autocommit, one transaction (`register_client`) | everything below |
| token endpoint (`tokens.py`) | `used_assertions`, `last_used_at` | `POST /token`: verify, record, mint, touch | database, signing keys, rate limiter |
| rate limiter (`tokens.py`) | a deque of times per key, in memory | `check` | the three machine endpoints |
| report endpoint (`main.py`, `db.py`) | `client_reports` | `POST /report`: verify, await the body, store, trim | database, rate limiter, signing keys |
| admin handlers (`main.py`) | `clients`, `registration_tokens` | approve, reject, delete, create and revoke tokens, disable, enable | database, in threads beside the event loop |
| expire job (`expire.py`) | local list of idle clients | disable idle, purge stale registrations, purge old reports | database, from another process |
| signing keys (`keys.py`) | `manifest.json`, one file per key, `session.secret` | first start, rotation command, load at start | portal start, CLI |
| health (`health.py`, `db.py`) | none; reads `client_reports` | status and its onset, tracker, chart and hourly table of one client | database, dashboard |
| dashboard views (`main.py`, templates, `charts.js`) | none | the pages, drawn from several SELECTs | database, health |
| login, sessions, CSRF (`auth.py`, `authz.py`) | signed cookie | OIDC through Authlib | admin handlers |
| configuration (`config.py`), deployment (`k8s/`) | none | read once at start | everything |

### What is hard about it

*Two kinds of concurrency.* `/register`, `/token` and `/report` are `async def`
and run on the event loop of a single process (`k8s/base/deployment.yaml`:
`replicas: 1`, `Recreate`). They use the database synchronously, so between two
`await`s nothing else runs on the loop. The admin handlers are plain `def`, so
they run on a thread pool, with connections of their own, and the expire job is
another process. Every connection is in autocommit mode
(`isolation_level=None`), so each statement commits alone: whatever a handler
reads in one statement can be stale in the next.

*Failures.* A process is replaced or killed, the job has a deadline
(`activeDeadlineSeconds`), and a statement that finds the database locked for
five seconds raises. All three end a handler between two statements.

*Clocks.* Expiry of tokens and assertions, idle time, retention and the purge of
used assertions all compare a stored time with the clock, at boundaries where
one unit decides.

### What makes each component correct

- registration: the pending queue never exceeds its limit; a key is not queued
  twice; a registration token makes one client, for its own site, and every
  retry gets that client or nothing.
- admin handlers and expire job: a row's columns tell one story; a decision is
  undone only by the operation made for it; a working client is never deleted;
  whoever is cut off as idle was so when the job looked; the job's work is done in
  the end although it may be killed.
- token endpoint: an assertion is accepted once, also around its purge; clients
  do not block each other; the table stays bounded.
- reports: the latest one survives; what is within retention is kept; what is
  past it goes; a deleted client leaves nothing behind.
- signing keys: whatever was rotated, restarted or killed, a start finds keys it can
  load, tokens signed before still verify, and sessions keep their secret.
- rate limiter: no window sees more than the limit, and nobody is refused below
  it.
- access tokens: an unexpired token of an enabled client is accepted whatever was
  rotated, restarted and removed since; a disabled client is out after one token
  lifetime.
- health: an alarm rests on enough evidence, "since" is the exact time or says that
  it is not, a silent shoveler is flagged, the tracker and the chart claim nothing
  that the reports do not show, whatever a report says or leaves out.

The hazards, each at its line with the properties that cover it, are listed
under `hazards` in `PROJECT.json`.

## Modules

| Module | Models | Checked by |
|---|---|---|
| `Enrollment` | the contract: what happens to a registration, a label and an invitation, without clock, request or table | `registry_live` (as `Lifecycle`) |
| `Registry` | `clients` and `registration_tokens` and all that writes them, composed: event loop, admin threads, expire job, failures | `registry`, `registry_live`, `job_races` |
| `TokenEndpoint` | `/token`'s verification, purge and single-use record | `token_endpoint` |
| `ReportEndpoint` | `/report`, the trim, the cascade and the retention purge | `report_endpoint` |
| `RateLimiter` | the sliding window | `rate_limiter` |
| `KeyRing` | the contract of the key directory: rotate, load, unload, remove, without files | `signing_keys` (as `ImplementsRing`), `access` |
| `SigningKeys` | the key directory: `generate_key` in a rotation command and in a first start, loading at start, the session secret, kills | `signing_keys`, `rotation_overlap`, `first_start_killed` |
| `Access` | the life of access tokens: `/token`'s mint and touch, `/report`'s check, the key ring, disabling, the dashboard's hint | `access` |
| `Health` | what a page says of a shoveler, from its reports as they come in | `health`, `packets_arrived` |
| `RegistryProofs`, `TokenEndpointProofs`, `ReportEndpointProofs`, `RateLimiterProofs`, `SigningKeysProofs`, `AccessProofs`, `HealthProofs` | proofs about the module they are named after | TLAPS |
| `RegistryRefinement` | the proof that `Registry` implements `Enrollment` | TLAPS |

`KeyRing` joins two of them: `SigningKeys` implements it file by file, and `Access`
takes its actions as they are and adds requests, admins and the removal of retired
keys around them.

Mutated forms of definitions stand beside them (`BelowLimitOffByOne` beside
`BelowLimit`, ...). They are plausible bugs of the line the original models, and
the mutation check substitutes them one at a time: every property is shown to
fail under at least one.

### Registry

`clients` and `tokens` are the tables, a row or `Null` per id. `loop` is the
`/register` or `/token` request between two awaits; its `pc` names the statement
that comes next:

    /register without token   RegisterPending -> CountPending -> InsertPending -> FetchClient
    /register with token      RegisterWithToken -> SpendToken -> FetchClient
                              RegisterWithToken -> SpendRefused -> Recheck -> FetchClient
    /token                    IssueToken -> TouchLastUsed

`admin` holds the disable and enable requests between their read and their write
(the other handlers are one statement and one action). `job` is the expire job:
`JobStart` lists the idle clients (used last, or created if never used, no later
than the cut-off it keeps in `before`), `JobDisable` disables one of them, `JobCutoff`
and `JobPurge` delete stale registrations. `LoopAbort`, `AdminAbort` and
`JobAbort` end any of them after any statement. `via` and `told` are history: the
token a client was made with, and who was answered what.

Abstractions: a key is its thumbprint, a valid request is its key and token, and
a request that changes nothing (bad metadata, bad token, known key, limit
reached) ends where the code refuses it. The body of `/register` is awaited
before any statement, so it plays no part. Client ids and token values are random
and never generated twice (`issued`, and `CreateToken`'s guard). Once all ids of
the model are used, a request about to insert can only end by `LoopAbort`; that
is an artefact of the bound and disables nothing else.

### TokenEndpoint

One request is in progress at a time, and its statements are separate steps:
`Verify` (against the first reading of the clock), `ComputeCutoff` (the second
reading), `Purge`, `Record`, `Answer`. `Stall` bounds how many seconds may begin
between the two readings; it is the one assumption the single-use property needs.
A purged-and-recorded table is `used`; `uses` counts acceptances per assertion.
`Registry` models the same request as far as it concerns the client's row.

### ReportEndpoint

Several requests can be waiting for their bodies; `Store` and `Trim` are the two
statements of `insert_report`, with no await in between (`LoopFree`). The job's
`purge_reports` and the admins run beside them.

### RateLimiter

`check` is one step. `admitted` is history: per key, the times at which requests
were let through since the start. The properties count windows in it,
independently of the deque. A restart forgets both.

### SigningKeys

`manifest` and `tmp` are the contents of `manifest.json` and of its temporary
file, `pems` the keys whose file is complete, `secret` is `session.secret`. `gen`
holds each process that is in `generate_key`, one step per file operation:

    CreatePem -> WritePem -> ReadManifest -> OpenTmp -> FlushTmp -> Replace

and `portal` the start of the portal, which may call it:

    EnsureKeys [-> generate_key] -> LoadKeys -> OpenSecret [-> WriteSecret] -> up

All writers use one temporary name, so `fd` says where a file that was opened
under that name is by now: a rename takes it along. `KillStart` and
`KillCommand` end a process after any step; a kill of the process loses nothing
that was written, a power failure is not modelled. `signed` and `sessions` are
history. `Serialized` says whether operators rotate one at a time and after the
first start, which no code enforces. Keys are numbered in the order of their
generation; `MaxKeys` and `MaxKills` bound rotations and kills.

`Ring` maps a directory to a key ring: the manifest's keys are the published ones,
its active key the active one, and the portal's memory is what is loaded.
`ImplementsRing` says that no file operation and no kill shows in any other way.

### Access

Actions of the ring are `KeyRing`'s; `Remove` is the README's "after the previous
tokens' TTL has elapsed, the retired key may be removed", with `signedLast` for the
last moment a key could sign: the end of the last process that had it loaded. A
`/token` request is `ReadClient -> Mint -> Touch -> Answer`, and `Lose` ends it
anywhere. `Verifies` is `verify_access_token` at `/report`. A page takes its time at
`OpenPage` and reads the row at `ShowPage`. `tokens` are the tokens the shoveler
received, kept for as long as a page can be about them.

Abstractions: the assertion that asks for the token is valid (`TokenEndpoint` is
about that); one shoveler, since nothing of one client's row or tokens concerns
another's; in the mode with an operator's own key (`SIGNING_KEY_FILE`) there is no
ring and nothing to rotate.

### Health

`reports` is everything ever received and the properties' measure of truth; the
`Table` is what is left of it: all reports from `cutoff` on, and the latest. Each
report moves the cut-off (the trim after an insert), and so does the nightly job
(`PurgeReports`). A shoveler's reports differ in `received_at`, so a list of rows is
a set ordered by `at`, and `rows[k - 1]` is `Prev(rows, rows[k])`. `Report` and `Restart`
are the shoveler. A report says of the two counters anything in `Metrics`, as
`parse_report` lets through: either may be missing (`Null`), and either may be
lower than before under the same `started_at`, which the tests of `health.py`
report. A restarted process may run with another interval; a shoveler that is late
or gone is `Tick` without `Report`. A page of the dashboard (an hour of rows) or of
one shoveler (all of retention) is drawn by

    OpenPage -> ReadRows -> ReadBuckets -> Draw -> ClosePage

one step per SELECT, so that reports, trims, purges and restarts fall in between; `Draw`
reads again when the dashboard's hour does not reach back to the onset. What is
computed from the rows are operators with the source's names: `FlatSince`,
`Baseline`, `Traffic` and `Assess` for the status, `Steps`, `SumIsZero` and `Blocks`
for the SQL with its buckets, `Runs` and `PinOnset` for the tracker, `Series` for the
chart and `Hourly` for the table under it. Where `assess` subtracts a missing counter
and raises, the verdict is `"error"` and the page a 500.

Time is exact, as `received_at` is, and `Second` units of it make a second. Two
conversions round: the chart's `int(at.timestamp())` is `Whole`, so points of two
reports can share a second, and the `ROUND` in the bucket SQL makes a block begin half
a second early (`AtLeast`, `BlockRows`).

Three exceptions are part of what the properties say:

- `OnsetExact`: a counter that is back at 0 may be dated from the start of the
  process although it had grown, if no report kept shows it; and the dashboard
  may say "since before" of something the reports still show, if its oldest row
  lacks the counter, since it then looks no further back.
- `AlarmHasEvidence`: nothing is said of an alarm if the counter fell within the
  window, nor of the packets if `received` fell since the onset. `packets_arrived`
  shows what becomes of that.
- `BlocksHonest`: blocks may say "no reports yet" after a report that was trimmed
  while the page was drawn.

Abstractions: `started_at` and `received_at` are of one clock; of the four counters
only `received` and `published` are kept, since the status depends on no other;
wording, totals and the current figures are left out, and so is a metadata change
within a process. After a page is drawn nothing happens before it is closed, which
loses no behaviour because a page, once drawn, does not change.

## Runs

| Run | Instance | Shows |
|---|---|---|
| `registry` | 2 ids, 2 keys, 2 sites, 1 registration token, 1 admin request, limit 1, idle after 2, clock 0..2 | the safety invariants under all interleavings and failures; whoever is cut off as idle was so when listed |
| `registry_live` | 1 key, 1 site, idle after 1, clock 0..1, otherwise the same | refinement of `Enrollment`, and liveness |
| `token_endpoint` | 2 clients sharing a jti, leeway 1, lifetime 1, clock 0..4, `Stall = 1` | single use, around the purge and after a crash; bounded records |
| `report_endpoint` | 2 clients, 2 requests, retention 1, clock 0..2 | reports kept and dropped as promised |
| `rate_limiter` | 2 keys, limit 2, window 2, clock 0..5 | the window's edges |
| `signing_keys` | 1 rotation at a time, 3 keys and more after kills, 2 kills | the directory stays loadable, old tokens verify, one session secret, a start gets through; refinement of `KeyRing` |
| `access` | 3 keys, lifetime 2, leeway 1, requests and pages of up to 1 tick, clock 0..4 | unexpired tokens verify, a disabled client is out in time, the token hint is true |
| `health` | 2 ticks a second, interval 2, window 5, evidence 1, the dashboard's first rows 5, retention 6 (3 hours of 1 block of 2); 3 reports, 1 restart, clock 0..7, a page of up to 1 tick; `received` may be missing, both counters may fall | status, onset, tracker and chart agree with what was reported; silence is flagged |
| `job_races` | 1 id | expected violation: the job disables what it should not |
| `rotation_overlap` | 2 rotations at any time, no kill | expected violation: a key that signed tokens is no longer published |
| `first_start_killed` | as `signing_keys`, 1 kill | expected violation: the portal does not come up without help |
| `packets_arrived` | 3 reports of one process, the dashboard's first rows longer than the window, clock 0..4 | expected violation: a negative number of packets arrived, or the page is a 500 |

*Why the bounds are enough.* The races are between a request on the loop, an
admin and the job, and all three are in every instance. Two ids and two keys let
a key be registered twice, compete for one token and compete for one place in the
queue. Time limits are one tick, so a clock of two values has "before" and
"after" of each; idleness is two ticks with a clock of three in `registry`, for a
use that falls between the cut-off and the listing. `PENDING_CLIENT_TTL_SECONDS` is
zero so that, in `registry_live`, a registration is stale at the second value while an
approved client is idle at it too. The token
run needs five values: an assertion is accepted, expires, outlives its leeway and
is purged while another request stalls. The limiter run goes over two and a half
windows. An access token is minted, rotated away from, retired, expired and past its
leeway within five times, and three keys make two retired ones. In `health` the clock runs past retention, so rows are trimmed and purged from under a
page; three reports let a counter grow, stand still and be trimmed of its growth,
fall and grow again, be cut by a restart, or be missing in between; the interval, 2,
is at most half of `Window - EvidenceMin`, beyond which `SilentFlagged` promises
nothing; and two ticks a second separate exact from rounded times, and the half second
from both. More reports, any lengths, and reports without `published` are the
theorems'. Time is coarse there: every
constant is a few ticks, in the order the source has them
(`EVIDENCE_MIN <= WINDOW <= hour <= retention`), and a comparison that is off by one
shows at a tick. Larger numbers of ids, keys and tokens add independent copies; the
theorems below cover them.

Deadlock is checked in every run: at the bound of the clock every system can
still stutter through its requests.

*Fairness.* `FairSpec` of `Registry` assumes only that the cron job's steps are
taken (`WF` of `JobStep`), that time passes, and that from some point on the job
is not killed any more (`JobAbort` leaves `pc` at `"killed"`, from which the next
night's `JobStart` goes on, so a killed job is told apart from a finished one): it is started every night, its steps wait for nobody but
the database lock, and a deadline of an hour for a handful of statements is not
missed forever. Nothing is assumed of shovelers, admins or the event loop.
`ReportEndpoint` assumes the same of the purge. `FairSpec` of `SigningKeys` assumes
only that Kubernetes starts the portal again after it went down (`WF` of `Start`);
its kills are finitely many by `MaxKills`.

## Proofs

TLAPS proves the following for every value of the constants, from
`ConstantsAssumption` of the module and what the statement itself assumes.

| Theorem | Says | Argument |
|---|---|---|
| `TokenEndpointProofs!TypeCorrect` | `TypeOK` | inductive once a request in progress is known to hold an assertion (`HoldsAssertion`) |
| `...!SingleUse` | `AcceptedOnce`, if `Stall <= 1` | `RecordInv`: an accepted assertion is on record or expired; the request in progress, if its assertion was accepted before, still finds it on record; and its cut-off is at most the assertion's own `exp`, which is where the stall matters |
| `...!PurgeIsSafe` | `ReplayableOnRecord`, if `Stall <= 1` | the same invariant |
| `...!ReplaysAreOwn` | `RecordsAreOwn` | `RowsUsed`: every row was written for an assertion of that client that was accepted |
| `...!RowsAreBounded` | `RecordsBounded` | `RowsTimely`: a row's `exp` is one the clock allowed when it was accepted, and after a request's purge none is below its cut-off; no bound on the stall |
| `RegistryProofs!TypeCorrect` | `TypeOK` | inductive with what a handler holds at each `pc` (`LoopTyped`, `AdminTyped`) |
| `...!ConsistentRows` | `RowsConsistent` | `RowsInv`: whatever id a handler or the job still holds, its row is approved or gone |
| `...!CapHolds` | `PendingCap` | `CapInv`: a request about to insert still finds a place; only the loop itself adds to the queue |
| `...!NoDuplicates` | `OnePendingPerKey` | `KeyInv`: a request about to count or insert still has a key no row has |
| `...!OneClientPerToken` | `TokenSpentOnce` | inductive once ids are known to be fresh (`IdsIssued`) and rows with a token approved (`RowsInv`), so that no approval changes the site the token gave |
| `...!OneAnswerPerToken` | `TokenAnswersAgree` | `AnswerInv`: what was answered is what the token says, and the client, while it exists, has that key |
| `...!ListedWereIdle` | `IdleWhenListed` | `TimeInv`: whatever is listed was created, and last used if ever, no later than the list's cut-off, or was used only after the list was made |
| `RegistryRefinement!RegistryImplementsEnrollment` | `Lifecycle` | from `RegistryInv`, step by step: an insert is a `Submit` because the request about to insert still finds a place (`CapInv`) and its id is fresh (`IdsIssued`); a write by an id read before finds an approved client or none (`RowsInv`), so it suspends, resumes or stutters; the purge lapses only what waits |
| `ReportEndpointProofs!TypeCorrect` | `TypeOK` | inductive |
| `...!ReportsHaveClients` | `NoOrphans` | `Working`: nothing is awaited between the two statements of an insert, so at its trim the request's client is what it was |
| `...!RetentionHonoured` | `KeptForRetention` | `CutoffsPassed`: every cut-off that is held is at least the retention ago |
| `...!LatestStays` | `LatestNeverLost` | `Spared`, and `LatestKept`: a client's reports have a latest one, by well-foundedness of the naturals, and no purge removes that |
| `SigningKeysProofs!TypeCorrect` | `TypeOK` | inductive, whatever runs at the same time |
| `...!KillsAreHarmless` | `ManifestUsable`, if `Serialized` | `OneAtATime`: one process at most is in `generate_key`, so the temporary file it renames is its own and complete (`Directory`) |
| `...!TokensVerify` | `OldTokensVerify`, if `Serialized` | `Served`: what signed is in the manifest, and stays, as every new manifest was made from the one it replaces |
| `...!SecretIsKept` | `OneSecret`, if `Serialized` | `Cookies`: cookies have the secret of the file, which is written once |
| `...!FilesImplementRing` | `ImplementsRing`, if `Serialized` | step by step: the rename is the ring's rotation (keys are numbered upwards, `Numbers`), the end of a start its load, a kill of a portal that is up its unload, everything else a stutter |
| `AccessProofs!TypeCorrect` | `TypeOK` | inductive with `Serving`: a request is served only by a portal that is up |
| `...!TokensVerify` | `OutstandingVerifies` | `KeysKept` and `SignedInTime`: the key of an unexpired token is published and, while the portal is up, loaded; the tokens of a retired key expire one lifetime after it could last sign |
| `...!DisabledIsOut` | `CutOff` | `BegunBefore`: a request in progress when its client was disabled was begun before that |
| `...!HintIsTrue` | `HintTrue` | `TouchedAfter`: a token's row was touched no earlier than the token was minted, so `last_used_at` bounds every expiry from above |
| `RateLimiterProofs!TypeCorrect` | `TypeOK` | a deque is shorter than the limit before a time is added, and dropping old ones never lengthens it (`KeptIsShorter`) |
| `...!WindowsHoldTheLimit` | `NeverMoreThanLimit` | `Remembers` and `Spaced`: a deque is the end of its key's history and what was dropped from it is out of the window, so a hit is added only when the hit `Limit` before it is a window ago; a window with more than `Limit` hits would hold two such |
| `...!RefusalsAreDue` | `RefusedOnlyAtLimit` | the same invariant: a full deque is `Limit` hits, all of them within the window |
| `HealthProofs!TypeCorrect` | `TypeOK` | verdicts and blocks are well formed because every "newest", "oldest" and baseline they are made from exists |
| `...!OnsetsAreExact` | `OnsetExact` | `FlatIs`: the rows have no gap up to the latest report, so a growth among them is one of the process and one of the process is among them if its predecessor is (`GrownIsGained`), and the newest of one is the newest of the other; `Covers`: rows reach back as far as the table did, so what is missing of them is not kept any more |
| `...!AlarmsHaveEvidence` | `AlarmHasEvidence` | the baseline is a report of the same process in the window, or its start, at least `EvidenceMin` old; a counter that is equal at both ends and did not fall between them stood still; and if neither counter fell, the row of the onset has no more packets than the baseline, to which some were added |
| `...!SilenceIsFlagged` | `SilentFlagged` | however the reports lie, one is near enough to each end of the window for the two to be `EvidenceMin` apart, and the page still finds the first of them (`Covers`) |
| `...!BlocksAreHonest` | `BlocksHonest` | `BlockIs`: the block with the newest report before a block's end is the one whose state it keeps (`NewestBlock`); `BucketRows`: the latest report is among the rows the blocks are made from, unless it is one of the window's first and a newer one trimmed it |
| `...!RunsCoverTheDay` | `RunsCover` | `RunsAre`: every run but the last ends where the next begins; `PinnedIs`: the onset moves one edge by at most a block, past no other edge, and lies in the past |
| `...!ChartIsTrue` | `ChartTrue` | `WholeIs`: rounding keeps the order, and times a second apart stay apart; `DrawnApart`: a break lies at least a second after its report and before the next; `RatedIs` and `HoursAre`: a report counts in the hour it falls in, and with the same predecessor as in the chart |

The five safety properties of `Registry` and its action property `IdleWhenListed`
are proved together, from one invariant `RegistryInv`, the conjunction of the parts named above, one lemma per part and
one step per action in each. None of them is inductive alone:
handlers act on what they read some statements ago, so each needs to know how
what is held relates to the rows of now. All but the queue's limit need
`IdsIssued`: a generated id is new to the rows, to the tokens and to every
request and list that holds an id, so nobody writes to a new row by an old id.
`AccessInv`, `ReportInv` and `KeysInv` are the like conjunctions of the other
modules.

`Health` needs more than its properties say, since each of its claims is about
reports received over a day, and about SELECTs that ran while more came in.
`HealthInv` has the history in order (`HistoryInv`: times differ, processes do not
overlap; of the counters it says nothing), and what a page holds related to it.
`Opened` is about the latest report, which is never trimmed, though it may no longer be
the latest. `RowsRead` says of the rows that nothing is missing between the oldest of
them and the latest report (`Reading`) and that they reach as far back as the table did
(`Covers`); newer reports may be among them. `Judged` keeps that the verdict was
made from rows of all the retention, or from the dashboard's hour where that was
enough, and `BlocksRead` what the blocks were made from (`BucketRows`). The properties follow from
`HealthInv` in any state, by lemmas on what each operator computes. Sums and
folds are avoided on purpose: a sum of steps of a counter is compared with zero
only, and which rows it has is all a table's agreement with its chart needs, so
no proof is an induction over a list. Newest, oldest and next exist by the
well-foundedness of the naturals (`Smallest`).

*Assumptions.* `Stall <= 1` (`TokenEndpoint`): less than two seconds begin between
the two clock readings of one `/token` request. With two, a purge can drop a record
that the assertion just verified still needs, and it is accepted again. There is
no await in between, so it takes a process stopped for that long at that place.
`Serialized` (`SigningKeys`): operators rotate one at a time; `rotation_overlap`
shows what happens otherwise. `MaxOpen + Window <= Retention` (`Health`): a page is
drawn in less time than retention exceeds the window, which is 23 hours and 45
minutes by the defaults. `Missed >= 2` (`MISSED_REPORTS` is 3), and no interval is
shorter than `Second` (`MIN_INTERVAL_SECONDS`). Of intervals, buckets and hours
nothing else is assumed but that they are positive, and that `EVIDENCE_MIN <= WINDOW
<= hour <= retention`; of the counters nothing at all.

*Only model-checked:* the liveness properties (`StaleGoes`, `IdleStops`,
`OldReportsGo`, `StartsUnlessEmpty`), which rest on fairness, and the expected
violations, which are counterexamples. Every safety property, action property
and refinement that a passing run checks is also proved.

## Findings

Four things the repository says do not hold of the code; each has a run that shows
it and an entry under `findings`:

- the expire job affects clients that are no longer idle or enabled (`job_races`);
- two rotations at once lose a key whose tokens then no longer verify
  (`rotation_overlap`);
- a first start killed at the wrong step leaves a portal that does not start again
  without somebody's help (`first_start_killed`);
- `health.py:354` subtracts the packets of the row by which messages last grew from
  those of the latest, although a counter may have gone down since, or that row
  may have no `packets_received` (`packets_arrived`). In the first case the page
  says, for instance, "though -80 packets arrived"; in the second `assess` raises,
  and the shoveler's page and the dashboard are a 500 until something is
  published again.

Remarks of less weight, without a run: `/report` stores a report of a client disabled
while the body arrives, since it checks the client before (`main.py:601`, where
`README.md:342-344` promises a 401 to all but enabled clients); the last report of a
shoveler that was silent for a day can be trimmed by its next one while the page is
read, and all blocks then say "no reports yet" beside the status "Not reporting"
(`health.py:416`, where line 43 says "before any report"; this is the exception in
`BlocksHonest`); a stall of two seconds between the
clock readings allows an assertion to be used again (above); a rejected key comes
back if an admin gives its owner a registration token, since that path looks no key
up; and a shoveler that reports less often than every `(WINDOW - EVIDENCE_MIN) / 2`
(five minutes) may have too few reports in the window to be judged at all, so
silence of its sources is not flagged, though `README.md:351-362` names no such
limit; and a client that was never used is idle by its creation
(`expire.py:44-50`), so one approved after waiting longer than the idle time is cut
off by the next run of the job.

## What is not modelled

- Signatures, JWTs, hashing, CSRF, sessions, OIDC: taken to do what they promise.
- The clock is taken never to run backwards. If it does after a purge, an assertion
  whose record was dropped is accepted again.
- The dashboard's lists of clients and tokens, the templates and the scripts beyond
  what `Health` and `Access` read: they change no state. Login and configuration
  keep nothing on the server between requests. Deployment appears as the number
  of processes.
- A shoveler's clock that differs from the registry's: `started_at` is taken to be
  of the same clock as `received_at`.
- An operator's own key (`SIGNING_KEY_FILE`): no key is ever written in that mode.
  `session.secret` still is, in the steps `SigningKeys` has for it.
- The error of the float arithmetic inside SQLite (`julianday`) that buckets reports;
  its rounding to the second is modelled.
- The number of buckets of the rate limiter, which only grows; each is bounded.

## Plan

Done: all modules above, their runs, and the proofs listed. What is left:

1. Lemmas about `Health`'s operators apart from its state: `Blocks` of two
   adjacent windows agree where they overlap, `Traffic` never turns to an alarm
   by a report that grew.
2. The dashboard's three lists of clients, if the code ever promises that they
   are of one moment.
