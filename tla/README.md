# Verification of sysnode-backend

TLA+ models of the stateful parts of this service, model-checked with TLC and,
for the properties that matter most, proved with TLAPS for every value of the
parameters. The source is the reference: every definition is translated from the
lines that `PROJECT.json` ("map") names for it.

## 1. Inventory

The service is one Node.js process over one SQLite file (better-sqlite3, so a
statement or a `db.transaction` is atomic and nothing runs during it), with
Syscoin Core and Blockbook behind HTTP. Concurrency comes from `await`: any
other request, timer or loop may run there. `privacy-server.js` is a second
process without shared state.

| component | state | operations | hard part | modelled |
|---|---|---|---|---|
| proposal pipeline (`routes/govProposals.js`, `lib/proposalSubmissions.js`, `lib/proposalDispatcher.js`) | `proposal_drafts`, `proposal_submissions` with three unique indexes | drafts, prepare, PSBT, attach, delete, clone, dispatcher tick | awaits between reading and writing; lost answers of `gobject_submit`; crashes around the compare-and-swaps; the timeout of a collateral tx | `Proposals` |
| votes (`routes/gov.js`, `lib/gov.js`, `lib/voteReceipts.js`) | `vote_receipts`, the cache of current votes | relay a batch, list and reconcile receipts | decisions taken before the batch; completion order; a deadline with calls in flight; stale cached observations | `Votes` |
| sentry operations (`lib/sentryManagement.js`, `lib/sentryAdapter.js`) | `sentry_operations` | prepare, submit, retry, reconcile | one publication per operation although several signed transactions, retries and restarts race | `SentryOperations` |
| accounts (`routes/auth.js`, `routes/vault.js`, `lib/{users,sessions,totp,vaults,verifications,pendingRegistrations}.js`) | users, sessions, MFA challenges, recovery codes, vaults, tokens | register, verify, login, second factor, change password, vault write, delete | a vault must stay openable with the current password; single-use links; attempts of a challenge; stale clients | `Accounts` |
| recovery alerts (`lib/recoveryMonitor.js`, `lib/recoveryRepository.js`, `lib/recoveryRpc.js`, `routes/recovery.js`) | subscriptions with generations, operations, outbox | monitor tick, deliver, challenge, subscribe, disable | awaits between writes, guarded by generations; a reorganised chain; a send and its mark | `Recovery` |
| statistics loop (`services/sysMain.js`, `lib/statsSnapshot.js`) | the published data with their health, generations, timers | tick, watchdog, start, stop | late results of abandoned ticks; sources that never answer | `StatsLoop` |
| privacy indexer (`lib/privacyIndex.js`, `lib/privacyStore.js`, `lib/privacyRpc.js`) | snapshot and checkpoint, in memory and in two files | activate, restore, refresh, close | reorganisations during a read; crashes between two files | `PrivacyIndex` |
| deployment (`deploy/automation/host-deploy.cjs`) | job files, locks, live and set-aside directories, PM2 processes, the schema | request, supervise, verify, cut over, roll back | every process can be killed anywhere; a command that fails may have taken effect | `Deployment` |
| reminders (`lib/reminderDispatcher.js`) | log of sent reminders | hourly run | crash between send and log | listed only |

Not modelled, because they hold no protocol state: RPC transport and cookie
authentication (what callers see of them is in every module), the masternode
count history, PSBT construction and payload validation (pure), read-only
routes, middleware, mailer, key derivation, scripts. `PROJECT.json` lists every
file with its reason, and every hazard at its line.

What makes the components correct, in one line each. *Proposals*: a user's 150
SYS collateral is never orphaned: the hash it commits to is the row's, one tx backs one row, a row ends in
one true outcome and says so once. *Votes*: a receipt never claims a delivery
that did not happen and never falls back to an older intent. *Sentry*: one
operation publishes one transaction. *Accounts*: the vault opens with the
current password; nothing single-use is used twice. *Recovery*: a recovery under
way is announced, nothing is sent after the farewell, and what was read for a
replaced enrolment is not written. *Statistics*: one loop, which goes on whatever
hangs; newer data are never replaced by older. *Privacy*: what is published is
one fork, seen canonical. *Deployment*: what runs is one whole commit, never
older than the schema, and every verdict is true.

## 2. Modules

| module | models |
|---|---|
| `Proposals` | tables, routes, dispatchers, Core and chain as far as they observe it; properties; the inductive invariants `MailInv`, `RowsInv` and `LiveInv` |
| `SubmissionLifecycle` | what the pipeline promises: the state diagram in the header of `proposalSubmissions.js`, and one notification per terminal transition |
| `ProposalsImplements` | the refinement mapping from the first to the second |
| `ProposalsProofs` | theorems about the pipeline, and that it implements the life cycle |
| `Votes` | vote batches, receipts, cache and reconciliation of one user on one proposal; the inductive invariant `VotesInv` |
| `VotesProofs` | theorems about receipts |
| `SentryOperations` | the journal row of one operation, its handlers, Core |
| `SentryProofs` | theorems about the journal |
| `Accounts` | one account with its vault, sessions, links and challenges, used from several devices; the inductive invariant `VaultInv` |
| `AccountsProofs` | theorems about the account and its vault |
| `Recovery` | alerts for one wallet: enrolment, monitor, outbox, chain; the inductive invariant `RecoveryInv` |
| `RecoveryProofs` | theorems about alerts |
| `StatsLoop` | the scheduler of the statistics and the health it publishes; the inductive invariant `StatsInv` |
| `StatsProofs` | theorems about the scheduler |
| `PrivacyIndex` | the index of one pool, its files, the chain; the inductive invariants `IndexInv` and `ForkInv` |
| `PrivacyProofs` | theorems about the index |
| `Deployment` | requesters, supervisors and workers of the deployments of both applications; the inductive invariant `DeployInv` |
| `DeploymentProofs` | theorems about deployments |
| `MC*` | symmetry and values for TLC |

The parts of the service share nothing but the process, the database file and Core, so
each module carries its own share of the environment (the event loop, Core, the
chain, restarts). The one composition is `ProposalsImplements`.

### Proposals

`rows` is the table, indexed by AUTOINCREMENT id (`NoRow`: no such row);
`drafts` keeps the number of a user's drafts; `req` holds what a handler carries
across its await (`check`: gobject_check, `psbt`: the PSBT builder, `attach`:
between attachCollateral's reads and its UPDATE) and, as `envelope` or
`signable`, the last reply. `pc/todo/cur/why` are a dispatcher: the rows of this
tick, the row as it was listed, and the outcome about to be recorded. `core` maps
a hash to the collateral of the object Core holds; `chain` gives confirmations.

- One SQLite statement or transaction is a step and an `await` ends one. The
  repository's "read, then `UPDATE ... WHERE status = ...`" pairs are two steps:
  the compare-and-swap is there for several processes over one file. The deployment
  has a single self-scheduling loop (`server.js:514-524`); runs that need the code's
  own single dispatcher say so.
- `proposal_hash` is determined by, and determines, the pair of payload and
  `time_unix` (parent and revision are fixed): `Hash(row) == <<payload, time>>`.
- One clock `now` serves `time_unix` and `updated_at` with the timeout. A
  transaction is final after `Required` confirmations.
- Core, as `proposalDispatcher.js:24-28` and `294-300` assume, answers a re-submission
  with its hash or with "already exists", and never rejects an object it has
  accepted with the same collateral. Any answer may be lost.
- A failure's reason is kept as a class; its detail is not.

### Votes

A vote is its time and outcome; `receipts` is one user's table for one
proposal; `req` a POST /gov/vote with the state of each entry and, in `good`, which
receipts its up-front read found delivered; `late` the calls the service gave
up on. `read`, `entry` and `rec` are the calls of `gobject_getcurrentvotes`, the
cache's entry and the reconcile handlers.

- Promise continuations run before the next event of the loop: `Next` prefers
  `Continuation`. Without this, orders would be explored that Node cannot run.
- A receipt write may fail silently (`persistReceipt` logs and goes on).
- `GraceAssumption`: a cached observation is never older than the grace period
  (2 min TTL + 10 s timeout against 10 min).
- Left out: `last_error`, signals other than funding, the deletion of the account,
  the sweep of expired cache entries (unobservable). The lookup of the user's
  masternodes only narrows the set of entries, which is arbitrary here.

### SentryOperations

`op` is the row; `call` a request with what it read before its await; `chain`
and `superseded` are Core; `hist` remembers what was sent and what Core ever
held. Two signed transactions of one operation spend the same inputs. `Arrives`
covers a late delivery and a broadcast from the user's own wallet; `Restart`
drops every handler and keeps the row; account deletion removes it.
Authorisation, watches, capabilities and `error_code` are left out.

### Accounts

`account` is the users row with its user_totp row, `vault` the vault row (its
blob by the password that opens it and the keys inside), `links` the pending
registrations of the address, `challenge` the user's MFA challenge, `session`
the session a device's cookie names, and `client` what the page keeps: the typed
password, whether `/verify-password` accepted it, and the blob it fetched and
could open. The client is not part of this repository; it does what the comments
of `vaults.js:5-17` and `auth.js:936-956` say of it.

- Every handler is synchronous, or does its writes in one transaction and awaits
  only the mailer afterwards: one request is one step.
- A device is a cookie jar with one tab. Tabs that share a jar are not modelled:
  whether another tab's new session carries an old tab through depends on how
  the client reads the CSRF cookie (`middleware/csrf.js:8` and
  `middleware/session.js:65-68` describe it differently).
- An etag is a counter: it is the hash of a blob with random IVs, which never
  repeats.
- `Register` of an existing address changes nothing, and rows are always created
  verified, so the promotion of unverified rows is unreachable.
- A response that is lost (the client then keeps the old etag or password)
  leaves the device as after a rejected request; it is not a separate action.
- Left out: recovery codes (an alternative to a right code), notification
  preferences, the sweeps of expired rows, rows of sessions no cookie names.

### Recovery

`sub` is the row of the subscription, `op` that of the operation, `outbox` the
notices by id; `mon` is the tick under way (`pc` names the RPC it awaits, `gen`
and the rest what it carries across), `call` a POST /recovery/subscriptions
between its reads and its transaction, `issued` and `spent` the challenges.
`branch` and `live` are the chain: two branches that share their first block, so
that a losing branch can win again. What a block shows of the operation
(`ViewAt`) is determined by the events on its branch.

- One subscription and one operation. Time on chain is counted in blocks;
  `next_attempt_at` and `attempts` only delay a delivery and are left out, so a
  pending notice may be tried at any time.
- A failed check of the provider (chain id, block age, confirmations) is a failed
  call. The challenge's reads and its signature are one step, because the
  transaction that consumes it checks everything again.
- Delivery validates up to `Parallel` notices at a time: `doing` is the await a
  notice is in, `mailed` that the mailer took it. `mailed` is kept only for
  notices that some property asks about.
- `Restart` keeps the tables and drops the tick, the handlers and what was being sent.
- `spent` holds the challenges that were consumed or have expired; one may expire at
  any time after it was issued (`ChallengeExpires`), also while a handler carries it.
- Left out: the deletion of the user, e-mail verification, other users' wallets.

### StatsLoop

`run[g]` is the call of `runAndReschedule` with generation `g`; `token`,
`tickGen`, `completed`, `done` and `marketStarted` are the fences of the code
under shorter names; `pub` is what /mnstats serves, by the generation that read
it; `retired` remembers the generation of the last `stop()`.

- The unit of time is the base pace (20 s). A timer that is due, a call with a
  shorter deadline (the projected budgets, 5 s) and a prompt answer are over
  before time passes (`Advance`).
- Core's reads are head (chain and governance), budgets, count; the market is one call.
  A tick finds Core `prompt` or not. Every call that is not prompt may answer,
  fail or hang for ever, also after its tick was given up.
- Left out: the values read, `lastGoodAt` and the 120 s downgrade by age when it
  is read, counters for diagnosis, direct calls of `tick()`. `stop()` is
  exported, and the tests call it; the server does not.

### PrivacyIndex

`disk` is the snapshot, the checkpoint and the marker of activation; `mem` the
pool's state with what is served (`snapshot`) and what is yet to be verified
(`candidate`); `job` the sync under way, with `pc` the read or the write it
awaits; `proc` and `armed` the process and its timer. A deposit is known by its
block and its index. Two histories: `met` are the branches this process could have
seen, `owed` says that it found the pool on disk when it started, or has answered a
GET of it otherwise than by 503.

- One pool, so the queue holds one job at most. A GET awaits its two files and the
  marker before it asks for a job, a restore also the list of the directory. The
  pool has no job and no timer of its own meanwhile and concurrent requests share
  these awaits, so each is one step with all its outcomes (`NotActivated` has the
  failures).
- The provider may miss any logs, fail any call, or shrink a range to any length;
  a crash or a failed write may come before, between and after the two files.
  None of these is bounded.
- `save` renames the file and then syncs the directory. So a write may fail and
  leave the previous file, or fail with the new one in place: a snapshot, a
  checkpoint (`StoreFails`) or a marker (`Read`, `Restore`) of which memory knows
  nothing. A pool whose only GET answered 503 may therefore be listed on disk
  without a job or a timer until the next GET or restart. `NeverForgotten` does not
  promise otherwise: it is about pools that are `owed`.
- `state()`'s reads with its `assertBlock`, and the consecutive checks of a
  resume, are one step. This is exact when a branch that lost does not return.
- Left out: withdrawals (the root does not authenticate them), the phase and error
  shown in answers, the relayer directory.

### Deployment

A commit is its place on the default branch. `head` is the checkout, `live` what
node_modules and build were built for, `run` the commit a PM2 process was
started with; `before` what a worker captured and `backup` the directories it
set aside. `requester`, `supervisor` and `worker` are the three processes of a
job; `status` and `active` its files. `worker[j]` names the next command of the
cutover or the rollback.

- Every command may fail before or after taking effect; a process may be killed
  between any two steps. A crash of the host is the death of each process.
- CI, configuration and health checks are outcomes. Staging up to the last check
  before the stop is one step (it touches nothing live), and so is the health
  check with its comparison of the schema. The two directories of the frontend
  move one at a time in the cutover and together in the rollback.
- `Repair` is the operator, who rebuilds at the checkout while no worker holds
  the lock. `flock` dying alone is left out: the worker inherits the descriptor.
- Requests that find their job existing only watch it and are left out, as are the
  removal of old jobs, the comparison of PM2's environment and pid, and the
  worker's progress reports: `status` is written many times before the verdict, and
  only the verdict decides what another process does.

## 3. Runs

| run | shows | bounds |
|---|---|---|
| ProposalsRequests | idempotent /prepare, envelopes that match rows, no live object given up, no illegal row change, no shared collateral | 2 requests, 2 payloads, 2 rows, 1 dispatcher, 2 times |
| ProposalsDispatch | one truthful mail per outcome, refinement of the life cycle | 2 dispatchers, 2 rows of one payload, 2 txids |
| ProposalsLive | confirmed collateral settles, unknown collateral times out | 1 row, fairness |
| VotesRelay | a receipt never falls back to an earlier intent | 2 batches, 1 masternode, 4 votes |
| VotesReconcile | delivery claimed only of counted votes, unresolved votes settle forward, stale on evidence only | 1 batch, 1 reconciliation, 2 reads, 4 units of time |
| VotesAnswered | every batch and reconciliation ends | 1 of each, fairness |
| Sentry | one publication, spaced attempts, observed statuses | 2 handlers, 2 signed transactions, 2 times |
| Accounts | the vault opens with the account's password, saved keys stay, one link wins | 2 devices, 2 passwords, 2 keys, 2 accounts in a row, 2 blobs, 3 times |
| Recovery | a recovery under way stays announced, nothing follows the farewell, an overtaken update writes nothing | 2 enrolments or 1 and a reorganisation, 1 handler, branches of 2 blocks, schedule and cancel |
| Stats | one loop that goes on, newer data only, a current health, Core refreshed whatever else hangs | 3 ticks, 1 stop, pace 1 to 2, watchdog 1, fairness |
| Privacy | one fork, served only if seen canonical, never backwards, no owed pool forgotten | branches of 2 blocks, 1 reorganisation |
| Deploy | whole commits, no code older than the schema, true verdicts, no stranded job | 2 jobs among 2 applications and 2 attempts, 2 commits, 2 kills |

Why the bounds are enough. Every race in this code is between two handlers, or a
handler and a dispatcher, over one row, or over two rows that compete for one
unique value; two of each produce every pair. Where a bound is 1 (masternodes in
VotesRelay: receipts of different masternodes never interact), the dimension is
independent. Times distinguish only before, at and after a limit. In `Recovery`,
`MaxChanges` bounds challenges and reorganisations together: a run sees the user
enrol again, or the chain reorganise under an enrolment, over every interleaving of
reads, deliveries and restarts. Two blocks are one shared and one that differs,
which is what a fork is to a reader; one reorganisation is also what `OneFork` needs
(section 5). Three ticks are an abandoned one, its successor and one that
is started in between by stop and start. With two of a job's three
processes killed, one is left to notice.
`RetryWait`, `Timeout`, `Ttl` and `Grace` keep the order of the code's
defaults; `Expiry` is 0 in the run `Sentry`, so that its two times are one inside
and one past the window. The theorems hold for every
value. Invariants the proofs cover do not depend on the bounds.

`Deploy` does not check for deadlock: the number of jobs is bounded, so the host
may come to rest.

`NoLiveFailure` holds for one dispatcher only, which is what is deployed: with
two, one may time a row out while the other has just submitted it. It is
therefore checked in ProposalsRequests.

Fairness. *Proposals*: the loop re-arms itself in a `finally` and a restarted
process starts it again (weak fairness of its local steps); an RPC that is
retried every tick does not fail, and the process does not crash, at the same step every
time (strong fairness of answers). Users, miners and the mempool owe nothing. *Votes*:
continuations run (weak); a timer that is due and an RPC
that has a timeout fire although other events keep coming, because the event
loop's queues are first-in first-out (strong). *Statistics*: timers fire, time
passes, and the continuations of a Core that the tick found prompt run (weak);
no other call is promised an answer. `Recovery`, `PrivacyIndex` and `Deployment`
state no liveness: their providers may fail for ever. `NeverForgotten` and
`NoneStranded` are the safe part of it, that somebody is left to go on.

## 4. Proofs

Every safety invariant and action property that the runs check is also a theorem,
for every value of the parameters; each is proved from an inductive invariant
that is written beside the properties of its module. What is left to TLC alone is
liveness (end of this section).

`ProposalsProofs`, first part: `TypeCorrect`, `MailInvariant`, `EmitOnceAlways`,
`MailTruthfulAlways`, for any number of users, rows, requests and dispatchers.
EmitOnce alone is not inductive: a dispatcher about to mail must know that
nothing was mailed before and that nobody else is about to. `MailInv` adds that
slots not yet used are untouched, that a row in a non-terminal status has
nobody at its hook (`QuietOK`), and that whoever is at the hook is alone there, found
the row untold, and carries the outcome the row shows (`HookOK`). Every step is
first classified (`WorkerKinds`, `StepKinds`) as settling a row, mailing, recording
confirmations, a request's change of a row, or neither; each conjunct is then
preserved by each class.

Second part: `RowsInvariant`, `PreparedOnceAlways`, `EnvelopeMatchesRowAlways`,
`FrozenAndTerminalAlways`. `UnpaidOK` says that a prepared row has no collateral
yet, `QuotedOK` that what a handler was given to answer with is the row
as long as the row exists. Third part, under `OneDispatcher`: `LiveInvariant` and
`NoLiveFailureAlways`. Core accepts a collateral only from a dispatcher that has
its row in hand, so with one dispatcher whatever was listed is still what it was
(`ListedOK`, with the unique index `TxidOnce`), and a row is given up only when Core has
not accepted its own collateral (`GivenUpOK`). With two dispatchers the
statement is false (section 3), so the hypothesis is not one of convenience.

Fourth part: `ImplementsLife`, that `Proposals` implements
`SubmissionLifecycle` under the mapping of `ProposalsImplements`. Each class of step
maps to one abstract action (`MapTable`, `MapMove`, `MapSettling`,
`MapEmission`): an insert prepares, an attachment pays, a deletion or cascade
removes, the winning compare-and-swap settles, a mail tells, and a crash or a
swallowed error at the hook forgets. `MailInv` makes the dispatcher at a hook unique,
and `BegunOK` (`BegunAlways`) excludes the one transition the UPDATE of markFailed
would allow outside the diagram, from prepared to failed. `ToldOutcomeHolds`: in the
pipeline read as that life cycle, one outcome is told, the recorded one.

`VotesProofs`: `VotesInvariant`, `TypeCorrect`, `DeliveredWasCountedAlways`,
`NewerIntentKeptAlways`, `UnknownSettledForwardAlways`, `StaleOnEvidenceAlways`, for
any number of batches, masternodes, votes and reconciliations. `CountedOK` says that
whatever Core showed, shows or accepted was counted, which is all a receipt can
learn from. `ReadsOK` bounds the age of an observation by `RpcTimeout` and `Ttl`, and
`RecsOK` says that a reconciliation is done before its observation
expires (the continuations of the loop come first) and that a forced one
looked after it asked; with `GraceAssumption` this makes a cached absence evidence.

`SentryProofs`: `JournalInvariant`, `OnePublicationAlways`,
`StatusWasObservedAlways`, `AttemptsSpacedAlways`, for any number of requests and
signed transactions. The invariant says that the row names a transaction exactly
from its claim on, that handlers past the claim hold that transaction
(`CallsOK`), that what they are about to report was once the case (`ObservedOK`), and
that nothing was sent after the row was last touched (`ClockOK`), which is what
makes `updated_at` in `claimRetry` a sufficient guard.

`AccountsProofs`: `VaultInvariant`, `TypeCorrect`, `VaultOpensAlways`,
`KeysKeptAlways`, `LinksDieAlways`, for any number of devices, passwords and keys.
That the vault opens is not inductive: a write is safe only because of what its
writer proved or saw earlier. `ProvedOK` says that a password that was verified
is still right while the device's session is open (a password change closes every other
session), `SeenOK` that a client with the stored etag has the blob's password and
keys, `CascadeOK` that nothing but links outlives an account. `WriterKnows` and
`WriteKeeps` are the two lemmas every write goes through.

`StatsProofs`: `StatsInvariant`, `TypeCorrect`, `OneLoopAlways`,
`NewerOnlyAlways`, `ReadyIsCurrentAlways`, for any number of ticks and stops, any
pace and any watchdog. `LoopOK` says that the last run started is the one
whose token is valid, and that it has either set the timer or still will; a stalled
run of before a stop has no token and so cannot. `CoreOK` says that a complete tick
settled Core, or the loop was stopped over it; `MarketOK` that a market call
still out was given up, or belongs to the current run and no later tick has
begun. `SourceStep` classifies what any step does to one source: nothing, the
result of a later tick, or giving that tick up.

`DeploymentProofs`: `DeployInvariant`, `TypeCorrect`, `OneWorkerAlways`,
`RunningWholeAlways`, `SchemaServedAlways`, `NoneStrandedAlways`,
`VerdictTrueAlways`, for any number of jobs, commits and kills. That what runs is
whole says nothing while nothing runs, which is when the files are touched:
`Stopped` says that the cutover only works on a stopped application, `SetAside`
that every directory of the previous commit is in its place or set aside, whatever
failed, and `Placed` and `PutBack` that the directories swapped so far are those
of the commit checked out. `Captured` and `SameSchema` carry the comparison of the
schema from the capture to the relaunch. `OneWorker`, the lock, is what keeps the
other jobs out of all of it; `WatchedOK` says who is left to end a job.

`RecoveryProofs`: `RecoveryInvariant`, `TypeCorrect`, `AlertNotLostAlways`,
`FarewellIsLastAlways`, `StaleUpdateWritesNothingAlways`, for any number of
handlers, enrolments, blocks and reorganisations. That an alert stands after an update is
a fact about the queries of `recordSnapshot`, whatever the outbox holds before them:
they only add notices of the current enrolment and re-arm superseded ones
(`Grown`), what is pending or sent stays so (`GrownKeeps`), a transition's key is
always new because it names the newest notice (`TransitionFacts`, from the
keys in `NoticesOK`), and in each case of the row before, one of the six queries
leaves the notice of the initiation pending or sent (`NoticedFacts`). It takes
`AnnouncedOK`, that an enrolment without a recorded operation has announced
nothing, and of `NoticesOK` that a sent alert was handed over. `FarewellOK` says that
an enrolment has one farewell at most and none while it is enabled; `EnrolledOK`
counts enrolments by the challenges they used up. An update is first reduced to what
it does to the tables (`TablesMove`).

`PrivacyProofs`: `IndexInvariant`, `TypeCorrect`, `SeenSinceStartAlways`,
`NeverForgottenAlways`, `NeverBackwardsAlways`, for branches of any length and any
number of reorganisations. `JobOK` says what the job holds at each read and
that it never aims below what is served, `TimerOK` when the timer is set and that a pool
whose restore failed is still on disk for the next one, `SeenOK`
that the target about to be published is of a branch this process met. Under
`NoReturn` (`MaxSwitches` is at most 1): `ForkInvariant` and `OneForkAlways`. `ForkOK` says
that everything read so far is of the branch of the job's target, unless that branch
has lost; then the check at the end of the range fails and the work is dropped. A branch
that wins again would pass the check with what was read meanwhile: section 5 has
that behaviour, so the hypothesis cannot be dropped.

The assumptions are those of the modules (`BoundsAssumption`, `NoneAssumption` of
`Proposals` and of `PrivacyIndex`, `VotesAssumption`, `GraceAssumption`, `NoneIsNoVote`,
`SentryAssumption`, `AccountsAssumption`, `RecoveryAssumption`, `StatsAssumption`,
`PrivacyAssumption`, `DeploymentAssumption`); TLC evaluates them on every run.
`OneDispatcher` and `NoReturn` are hypotheses of the theorems named with them, and
hold in the runs that check the property. The inductive invariants were checked with
TLC, on the bounds of the runs, before they were proved and are not part of the
runs. Only model-checked: the liveness properties `ConfirmedSettles`,
`UnknownGivenUp`, `Answered`, `LoopGoesOn` and `CoreRefreshed`, because fairness and
ENABLED are beyond the prover.

## 5. Where code and comments disagree

Each of these is stated as a property beside the module it is about. TLC found it violated;
the runs are not kept. `PROJECT.json` quotes both sides.

| property | what happens | found with |
|---|---|---|
| `MempoolGivenUp` (Proposals) | a collateral tx stuck in the mempool is never given up | 1 row, fairness |
| `PsbtForPreparedRow` (Proposals) | a PSBT is returned for a row that was attached meanwhile | 2 requests |
| `DuplicateKeepsGood` (Votes) | a duplicate answer replaces a delivered receipt by a failed one | 2 batches |
| `OldVoteNotReconfirmed` (Votes) | a reconciliation during a batch re-confirms the replaced outcome | 1 batch, 1 reconciliation |
| `ConfirmedNotFailed` (SentryOperations) | a slow reconcile turns a confirmed operation into state_changed | 2 handlers, `Expiry` 1 |
| `OutcomeNotLost` (Recovery) | an operation re-mined and canceled between two polls ends unannounced | `MaxHeight` 3, `MaxSwitches` 2, `MaxChanges` 3 |
| `LastWordAgrees` (Recovery) | the newest mail says that the operation ended, it is under way, and nothing more comes | 2, 4, 4 |
| `EndConfirmed` (Recovery) | a crash leaves an end of the losing branch on record for good | 3, 2, 3 |
| `OneFork` (PrivacyIndex) | a chain that switches away and back leaves a range of the other branch in the view | `MaxHeight` 3, `MaxSwitches` 2 |
| `OneActivePerApp` (Deployment) | the requester ends the job of a killed supervisor while its worker lives | `MaxKills` 1 |

Three more comments that the models contradict (`ReplayIsPrepared`,
`DuplicateNotBacking`, `UnknownNotRelayed`) are stated beside these.

The claim of `deploy/automation/README.md` that no uncertain cutover is silently
repeated holds because the capture refuses an application that is not
online, which a cutover that died in the middle leaves behind.

## 6. Not modelled, and what could follow

Reminders: the order of send and log is visible in a few lines. The RPC client's
replay of a call after a 401, read-only routes, middleware, mailer,
validation and PSBT construction keep no protocol state; the models contain what
their callers see. Within the modelled components, `PROJECT.json` names what is left
out of each.

Worth adding: the abstract promise of the votes and of the outbox as modules of
their own, with their refinements; several pools in the queue of the indexer;
recovery codes in `Accounts`.
