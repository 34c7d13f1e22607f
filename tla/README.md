# A TLA+ development of the on-premises runtime monitor

The repository is a monitoring system for locally hosted language-model
runtimes. A *collector* runs beside the runtimes, observes them, keeps what it
saw in a bounded disk spool and sends it to a *hub*. The hub admits frames
into one SQLite database, evaluates alert rules over them and sends
notifications through a transactional outbox. Both are Go programs under
`src/internal`, started by one command under `src/cmd`.

The modules here model the parts of that system in which order, failure and
time decide whether it is right: the spool with its crashes and its approved
recovery, the two kinds of message between collector and hub, enrollment, the
rollups and the retention of what was admitted, the evaluation of alerts, the
delivery of notifications, incidents and their evidence under the byte quotas,
request comparisons, and backup and restore. TLC checks them on small
instances; TLAPS proves the safety of the spool, of the alert evaluation, of the
hour rollups, of the messages that tell the losses, of the delivery of the
observations, of the recovery of a retained spool, of probes and comparisons, and
of incidents, their evidence and the account of bytes, for every value of their
constants.

`PROJECT.json` lists, for every definition, the source lines it stands for
(`map`), and for every hazard the properties about it (`hazards`). Paths below
are relative to `src/internal` unless they begin with `docs/`.

## 1. Inventory

| Component | State | Operations | What is hard | What makes it correct | Modelled in |
|---|---|---|---|---|---|
| Spool, `collector/spool` | segment files, `offsets.json`, `losses.json`; in memory the active segment and a sticky fault | Open/recover, Append, ReadPending, Ack, Quarantine, Losses, AckLosses(Prefix), prune | each operation makes several durable writes and a crash may fall between any two; eviction has two journals and an unlink; cursors go stale; the wall clock is stepped | a record is retained, acknowledged or counted lost, once; offsets cover only what the hub stored; every directory it leaves can be opened | `Spool` |
| Spool recovery, `collector/spool/recovery.go`, `lifecycle/collector_recovery_cli.go`, `store/recovery.go` | previews, apply receipts and their files; on the hub grants, receipts, reserved bytes | preview, grant, revoke, apply in rounds | either command killed anywhere and run again with its key; a grant that lapses, a session taken in between | the cursor follows the hub; a report counts each run once; reservations are given back once; an interrupted command can be finished | `Replay` |
| Scheduler, `collector/scheduler/runner.go` | session, sequence numbers, pending status, last configuration | bootstrap, cycle: observe, append, status, two data lanes | one failure ends a cycle; retries reuse numbers; two lanes share a call budget | losses are told once and in the end; both lanes progress | `ControlLane`, `Delivery` |
| Byte budget, `collector/scheduler/budget.go` | token buckets per lane | refill, admit | refill arithmetic at its limits | no lane is refused for ever | a choice in `Delivery` |
| Pairing state, `collector/pairing` | `pairing.json`: previous session, pending activation, target revisions | PrepareActivation, CompleteActivation | a crash around the hub's commit | one identity per observation; an activation is never fenced by its own retry | `Delivery`, `Enrollment` |
| Transport, local socket, remote listener | none of their own | one request, one answer; renewal of the certificate | answers lost, late, refused | which errors are retried and which set frames aside | the calls of `ControlLane`, `Delivery`; trust in `Enrollment` |
| Hub ingest, `store/ingest.go` | sessions, batches, frames, configuration events, source status | IngestCollectorBatch, IngestSourceStatus | duplicates, superseded sessions, order, replay after current | exactly-once rows, live data forward only, exact configuration changes | `ControlLane`, `Delivery` |
| Collector sessions, inventory, `store/collector_session.go`, `store/inventory.go` | session history, inventory revisions | ActivateCollectorSession, inventories | activation races with late batches | one current session | `Delivery`, `Replay` (sessions) |
| Enrollment, `store/enrollment.go`, `lifecycle/remote_setup.go` | tokens, reserved hosts, certificates, receipts; on the Mac six identity files and a journal | issue, redeem, renew, revoke, set up, re-enrol | an answer lost after a one-use token is spent; a set-up killed between two files; a hub restored meanwhile | one identity per collector; overlap ends when it was promised to; an interrupted set-up finishes | `Enrollment` |
| Alert reducer, `alerts` | none: a function of the previous state and one evaluation | Reduce | dwell, hysteresis, unknown evidence, restarts | only observed time counts | `AlertEpisode` |
| Alert runtime, `alertruntime`, `store/alerts_*.go` | rules and versions, alert instances, incidents, the runner's continuity | a pass: plan, decide, apply one transaction per rule; revise, disable | a rule revised inside a pass; failed and late passes; restarts | one open incident per raised alert; none orphaned or reopened | `AlertEpisode` |
| Notification outbox, `store/outbox*.go`, `notify` | outbox rows, leases, destinations, mutes, test jobs | enqueue, claim, send, complete, retry, mute, supersede, expire | a receiver that accepted what the dispatcher gave up; edits while a message is in flight | an uncertain outcome is always declared; every row ends | `Outbox` |
| Rollups and retention, `store/maintenance.go`, `rollup*.go`, `retention.go` | minute and hour rows, watermark, late-frame cursor | one bounded pass every ten seconds | frames admitted inside a pass, late frames, a pass cut short, rowids used again | no evidence deleted that no row holds; hours agree with minutes; every frame is rolled up | `History` |
| Capacity guard, `store/capacity.go` | the last measurement, bytes charged since, reservations | measure, admit by class, charge, release | a measurement between a release and the write it was for | every byte written is measured or charged | `Capacity` in `Incidents` |
| Incidents, `store/incidents.go` | incidents, capsules, receipts, counters of lost evidence | create, list, close, reopen, retitle; retention by age and quota | a retry beside its first request; evidence evicted for a request that is then refused | evidence leaves by rule and is counted; one incident per key | `Incidents` |
| Comparisons, `store/comparisons.go`; direct probe, `httpapi/direct_probe.go` | runs, receipts, saved comparisons, attachments; the probe's lock | import, probe, compare, save, attach, purge | requests with one key that overlap; a hub that stops between the runtime and the record | one run per key; a saved claim is true of its runs | `DirectProbe`, `Comparisons` |
| Backup and restore, `lifecycle/restore.go`, `store/restore.go` | the live files, published backups, a journal and a recovery area | back up, restore, resume, commit, start | stopped between any two replaced files; a -wal left beside another database; trust that comes back with old rows | one generation in front of a hub; the replacement is one step; a journalled restore finishes | `Restore`, `Installation` |
| Authentication, API tokens, `auth`, `store/api_tokens.go` | sessions, tokens | login, rotate, revoke | revocation against requests in flight | none after revocation | not modelled |
| Installation lifecycle, `lifecycle/manager.go` | plists, the state of launchd | install, upgrade, start, stop | the operating system | — | not modelled |
| HTTP API, read queries, wire protocol, runtime observation, web assets | none, or outside the program | parsing, rendering, selections | — | — | left out: stateless |

How they interact. The runner is one goroutine: `cycle` appends the frames of
an observation to the spool, sends at most one status message (with the spool's
losses), then one batch of the *current* lane and one of the *replay* lane.
Each is a call that may be lost, handled late or refused. On the hub every
request is one SQLite transaction, so requests are atomic there and interleave
only as wholes. The alert runner is one goroutine of the hub that reads a plan
and commits one transaction per rule; operators change rules, mutes and
destinations in transactions of their own in between. The dispatcher is one
goroutine that claims, sends and completes, each step committed before the
next. Maintenance is a goroutine with a ticker: its pass is several
transactions, and ingest goes on between them. Incidents, comparisons and
probes are requests of the HTTP API, each with an idempotency receipt; what they
read before their transaction may be old when they commit. The commands that
recover a spool, set up a Mac, back up and restore are processes of their own,
excluded from each other by file locks and able to die anywhere.

## 2. Modules

```
EvidenceLedger <--refined by-- Spool <-- SpoolInv <-- MCSpool
                                             ^-- SpoolProofs
Replay <-- ReplayProofs   (retained spool, recovery commands, grants and receipts of the hub)
ControlLane        (spool's loss journal, status message, hub)
Delivery <-- DeliveryProofs   (pairing state, data lanes, ingest, configuration changes)
Enrollment         (hub's trust, identity files, set-up and renewing collector)
ControlLane, Enrollment <-- CollectorProofs
IncidentLedger <--refined by-- AlertEpisode <-- MCAlertEpisode
Outbox <-- MCOutbox
AlertEpisode, Outbox <-- AlertProofs
History <-- StoreProofs
Capacity <-- Incidents <-- MCIncidents, IncidentsProofs
DirectProbe <-- Comparisons <-- MCComparisons, ComparisonsProofs
Installation <--refined by-- Restore <-- StoreProofs
```

An arrow `A <-- B` reads "B extends A".

### EvidenceLedger, Spool, SpoolInv

`EvidenceLedger` is the promise: an observation goes from `unborn` to
`retained` and from there, once, to `delivered` or `lost`.

`Spool` is `spool.go`. Records are numbered in the order of their Appends; a
segment is named by the record that created it, so names are fresh and sorted
as the zero-padded serials are; a byte offset is the number of the last record
before it. `segs`, `recs` and `torn` are the directory, `offsets` and
`quarantined` are `offsets.json`, `revision`, `pending` and `discarded` are
`losses.json`, `active`, `fault`, `boot` are the process's memory. The mutex
makes operations exclude each other, so one `pc` is enough; an operation is
split at every durable write and `Crash` may fall between any two:

* `Append` → `Prune…` (before) → `ReuseSegment` or `CreateSegment` →
  `WriteRecord` (or `WriteFails`, which leaves a torn tail and the fault) →
  `Prune…` (after);
* prune removes drained segments (`PruneDrained`), those too old
  (`PruneExpired`) and, over the byte or the segment limit, the oldest
  (`PruneOldest`): journal the loss, unlink (`RemoveSegment`, `RemoveFails`),
  write the offsets (`PruneOffsets`), write the losses (`PruneLosses`);
* `Open`, `FinishDiscard`, `FinishedDiscard`, `RecoverOffsets`,
  `RecoverLosses` are `recover`, which repairs a torn tail of the last segment,
  refuses one elsewhere (`pc = "corrupt"`) and finishes journaled evictions;
* `ReadPending`, `ReadBatch`, `HubStores`, `AnswerLost`, `Ack`, `Quarantine`,
  `SettleFails` are the runner's use of a batch, `ReadLosses`,
  `HubLearnsLosses`, `StatusLost`, `AckLossesPrefix` its use of the losses.

What is in memory of the two journals equals the file unless the spool has
faulted, and a faulted spool only waits for a restart; so one copy is kept.

`Failing` names the operations that may fail; "clock" in it lets `Tick` go
back. Left out: `OpenReadOnly` and `Close`, a `CreateSegment` that fails, the
recovery replay (`Replay`), and the splitting of losses by reason (they are merged by
source, which is enough to tell a merged interval from a new one).

`SpoolInv` holds the inductive invariant (section 4).

### ControlLane

How the hub learns what the spool lost: `runner.go`'s `sendStatus` against
`IngestSourceStatus`. `queue` is the list of merged intervals in `losses.json`,
`pendingStatus`, `pendingLossRev` and `pendingLosses` are the runner's fields
of those names, `stored` is `source_status`. `BuildStatus`/`RetryStatus`/
`SkipStatus` begin a call, `HubAnswers` and `HubAnswersLate` are the
transaction, `Settle`, `SettleStale`, `Expired`, `Refused` and `CallFails` what
the collector makes of the outcome, `RecordLoss` the spool evicting at any
time the runner appends, `Restart` a new process and session. The two machines
have a clock each.

Assumed: neither clock runs backwards (Spool's clock does). Only five seconds
between control messages are not counted out: a tick may send or skip, and
fairness says it does not skip for ever. One recorded loss is one key.

### Delivery

From an observation to its row. `previous`, `pending` and `boots` are
`pairing.json`; `segs` is the spool as its list of segments with the ids each
holds, how many are acknowledged and whether it is quarantined; `stored` is
`source_frames` in order of admission; `events` are the configuration changes
derived by `verifiedConfigPredecessor` and
`verifiedCrossBootConfigPredecessor`. `Start` is `bootstrap` with
`PrepareActivation`, `HubActivates` is `ActivateCollectorSession`,
`CompleteActivation` writes `pairing.json`; `Cycle` observes and appends;
`Send("current")`, `Send("replay")`, `SkipLane` are the lanes with the byte
budget as a choice; `HubIngests` and `HubHandlesLate` are
`IngestCollectorBatch` with its fencing, duplicate and order checks, `HubIsBusy`
and `HubRejects` the errors `localAdmissionError` tells apart (503, on which the
batch is kept, and 422, on which it is set aside); `Settle`, `Quarantine`, `Refused`, `CallFails` are what the
runner makes of the answer.

Abstractions: one target and only the frames that carry its configuration (the
others travel in the same batches); a boot id and its activation request are
drawn together and are one number; time passes between two observations and
during calls; eviction and torn tails are Spool's; the first hash is fixed,
since hashes only matter up to equality; `LIMIT`s of 16 and 32 candidate rows
exceed every instance; the checks of ownership and capacity are left out.
`Exit` on a refused activation is in the code and in the model, and
`BootstrapIsGranted` says it is never reached.

### IncidentLedger, AlertEpisode

`IncidentLedger` is the promise about incidents: at most one open per rule,
none reopened. `AlertEpisode` is the runner (`BeginPass`,
`PassSucceeds`, `PassFails`, `HubRestarts`), `Reduce` of `reducer.go` on every decision an evaluator may
take (`match`, `clear`, each also "at once", the hysteresis band `hold`,
`unknown`), the transaction `ApplyAlertEvaluation` with its version fence, and
`mutateRule` (`UpdateRule`), which ends a live alert and its incident. `observed` is history:
since when consecutive, successful, timely passes of one process saw the same
predicate. A pass begins at most once per unit of time. Thresholds, cursors,
evidence and the capacity ledger are left out; what they do to a write (refuse
it) is a choice at every write.

### Outbox

Rows of `outbox` about one alert and tests of destinations. `Transition` writes
rows when an evaluation changes the alert; `Claim` is
`ClaimNotificationDelivery` with the rows it expires, recovers and supersedes
on the way; `Complete` is `CompleteNotificationDelivery` with its lease check,
`GiveUp` the timeout of a send, `Crash` the dispatcher's end;
`MuteAlertIncident`, `UnmuteAlertIncident`, `ReviseDestination`,
`EnqueueDestinationTest`, `RetryNotificationDelivery`, `ReviseRule` and
`ParentChanges` are the operator and the suppressing parent. `net` holds
requests that may still reach a receiver, `accepted` those one took.

Abstractions: a unit of time is ten seconds; payloads are reduced to what could
mislead a receiver (state, transition number, `summary_kind`,
`accepted_unknown`); ids are random, so rows due at once are taken in any
order; PENDING is never told; there are no maintenance windows, since nothing
in the sources opens one; destinations exist from the start; a receiver that
answers otherwise than 2xx has not accepted; a deferred row waits one lease; a
superseded row's `next_attempt_ms` is shown as NULL although one path
(`store/alerts_control.go:84`) leaves a value that no claim reads. Secrets,
receipts and restore are left out.

### Replay

`recover-spool preview` and `apply` of `collector_recovery_cli.go`, with the
spool's `PreviewRecovery`, `ReadRecovery` and `AckRecovery` and the hub's
grants. A run of one source in one file counts as one frame. `preview` and
`applies` are the receipts on disk, `cli` is the command that holds the spool
lock; `outputs` says of the preview's manifest and of each apply's report
whether the file is absent, created and not yet written ("torn"), or whole;
`acked` and `aged` divide the spool, `grants`, `receipts`, `stored`,
`uses` and `reserved` are the hub's tables. `BeginPreview` → `OpenOutput` →
`FillOutput` → `CompactPreview`, and `BeginApply`/`ResumeApply` →
`PrepareActivation` → `Activate` → `CompleteActivation` → rounds of
`ReadRecovery`, `AskHub`, `AckRecovery`, `CountACK` → `Report`, which saves the
receipt, → `OpenOutput` → `FillOutput`, with `KillCommand` between any two, also
after the hub has committed. `OpenOutput` is the exclusive creation of the final
name by `writeExactPrivateRecoveryFile`, or its comparison with a file that is
there already; a retry of an apply that has its report only writes the file. A
key is bound to its path, by the scope of a preview and the receipt of an apply,
so each has one file. The administrator's grant file is also written in place,
but the grant is at the hub and a retry may write it elsewhere, so it is not
followed. `CreateRecoveryGrant`, `RevokeRecoveryGrant` are
the administrator; `OrdinaryRun` is a collector started in between, which
prunes and takes or leaves a session. Left out: the contents of frames, the
evidence list of a preview, signatures and file formats.

### Enrollment

The hub's `store/enrollment.go` (`Issue`, `IssueAgain`, `Redeem`, `Renew`,
`Revoke`, `RegisterLocalHost`, `ReEnrollLocalHost`, `TrustReset`) against the
Mac's `remote_setup.go`: `BeginSetup`, `SaveAttempt`, `StageKey`,
`BeginReEnroll`, `SaveJournal`, `Exchange` with its lost and refused answers,
`InstallFile` one file at a time, `PairingRefused`, `RemoveJournal`; and the running collector:
`StartCollector`, `PrepareRenewal`, `RenewCredential`, `InstallRenewed`,
`RecordRenewed`, `ReloadTransport`. `OtherMac` presents the same token with a
key of its own. Each file is renamed into place and so one step, except a new
`pairing.json`, which `CreateEnrolled` creates under its final name and then
writes: `InstallFile` has a step for each, and a set-up that finds a torn one is
refused (`PairingRefused`). A certificate is its serial number, a key or a request a
number. Left out: X.509 and TLS, pairing codes shown to a person, the limits of
requests per host.

### History

One source's frames through `RunMaintenance`. A pass is split at its
transactions: `BeginPass` (state and late frames), `ReadLate`/`PutLate` per
dirty minute, `StartRoll`, `ReadMinute`/`PutMinute` per minute behind the
watermark, `RollHours`, `WriteMaintenanceState`, `PruneObservationRetention`;
`StopPass` ends it anywhere. `Ingest` admits a frame between any two steps,
with SQLite's rule for a new rowid (the highest plus one). A minute row is the
set of frames it was built from; counts, coverage and increases are operators
on that set, so that they can be compared with their definition. Left out:
sources other than one, gauges' minima and maxima, events and batches that
retention removes by the same cutoffs.

### Capacity, Incidents

`Capacity` is the guard: `written` is what each class of bytes really holds,
`current` the last measurement, `charges` the envelopes charged since by each
writer, `grant` a recovery reservation. Each writer adds the charges of the
writers it knows of (`Known`), as the code's admission functions do.
`Incidents` extends it: an alert opens and resolves incidents, requests create
them (`BeginCreate` looks the key up, `CreateManualIncident` is the transaction
after the evidence was read, `CreateAnswered` the refusal or the answer of a
receipt), an operator reads one and closes, reopens or retitles it against the
revision read. Retention is part of the transactions that run it
(`pruneResolvedIncidentCapsulesTx`), as `Pruned`. A write grows a class by its
whole envelope. Left out: annotations, lists, the cards inside a capsule.

### DirectProbe, Comparisons

`DirectProbe` is `POST /api/v1/probes/run`: the process's lock, the preflight,
the request to the runtime, and the receipt looked up only when the run is
recorded; a client that leaves or a hub that restarts loses what is under way.
`Comparisons` adds imports, the comparison of two runs (populations, declared
change, medians), saved results with their purge and limit, and attachments.
Left out: jobs as rows of their own, the two numeric summaries beside the
median, lists.

### Installation, Restore

`Installation` is the promise: a running hub sees one generation and its rows,
rows are only added while it runs, and a restore replaces both in one step
while it does not. `Restore` has the files (`db`, `wal`, `conf`; the -wal is
replayed over whatever database lies beside it), the directory of notification
secrets, the lease a running hub and a backup share and a restore takes alone,
and the journal. `BeginRestore` copies the live files, `PrepareRestore` resets
the trust of the restored image and writes the journal, `InstallFile` and
`MoveVaultAway`/`MoveVaultIn` replace the files one by one, `CommitRestore`
ends it; `InterruptRestore` falls between any two and `ResumeRestore` begins
again. A backup is `SnapshotDatabase`, `CollectFiles`, `PublishBackup` beside
the running hub. Left out: the archive format and its keys, hashes, checks of
disk space, removal of old recovery directories.

## 3. What the runs check

| Run | Configuration | Distinct states | Shows |
|---|---|---|---|
| `spool` | two records of two sources, three processes (the last in a new security generation), a spool of two records, eviction by size and by age; writes, journals and unlinks that fail | 205 K | no record lost uncounted; every directory opens; quarantine holds; `EvidenceLedger` is refined; every durable record leaves the backlog |
| `control` | two losses, one interval per message, two processes, drifting clocks, one fault of four kinds | 1.4 M | what leaves the journal is stored, and told once by a process; a reused sequence number never conflicts; losses are told and leave the journal |
| `delivery` | three observations, two processes, hub time known or not, any one fault of eight kinds | 784 K | unique identities, granted activation, acknowledged is stored; live data forward only; exact changes within a process; every observation arrives |
| `replay` | two files of two runs, two applies, two grants, one fault | 488 K | the cursor follows the hub; reports and reservations are exact; an interrupted command that is run again ends, unless the kill tore the file it was creating |
| `enrollment` | two tokens, a set-up, a restore of the hub, a re-enrolment, renewals, one fault | 1.3 M | a collector the hub listens to has one identity on its disk; the overlap of a renewal ends as promised; an interrupted set-up finishes, unless the kill tore `pairing.json` |
| `alert_pair` | two rules, one firing at once, a revision each, two instances each, four ticks | 1.4 M | dwell counts observed time only; `IncidentLedger` is refined |
| `outbox` | one alert, one destination, two transitions, two operations of an operator, one fault of seven kinds | 558 K | an uncertain outcome is marked and summaries are true; overtaking is declared; every row ends; news arrives |
| `history` | three frames of two minutes, passes of one late frame, one minute and one hour, one pass cut short, all ages reached | 400 K | no evidence is deleted that no row holds, rows stay selectable and only grow; hours agree with their minutes; every frame is rolled up and counted once |
| `incidents` | three incidents, a quota of two, two requests with one key, one operator, every writer of the guard | 1.5 M | every byte is measured or charged; lost evidence is counted and leaves by rule; one incident per key; a change is of what was read |
| `comparisons` | two imports, two probes, one key, a table of one result, a declared change | 236 K | one run per key; a saved claim is true of its runs; receipts, results and attachments hold together |
| `restore` | two restores, two backups, two secrets, one interruption or lost database | 852 K | a running hub is of one generation, in files and in trust; reported loss is the real one; a journalled restore finishes; `Installation` is refined |
| `history_delta` | two minutes, two readings in the predecessor window | violated | see the finding below |

### Why the bounds are enough

*Spool.* Two records of two sources in one segment and the next are enough for
partial acknowledgement, growth behind a batch and eviction of the segment that
is read; three processes give a crash, a recovery that itself crashes and a new
generation. The run steps no clock back, because its liveness and the failing
unlink need that; the theorems hold for every number and size of records, every
clock, and a working unlink. What lies outside of both is in section 4.

*ControlLane.* A cap of one with two keys makes the prefix of a message shorter
than the journal. A window of one and a drift of two let a message be too old
for the hub when it is sent or retried; `LossesAreSettled` supposes that the
drift stays inside the window, since a collector whose clock is wrong for ever
is refused for ever.

*Delivery.* Three observations are the least that have a middle one that can be
missing, and two processes the least with a predecessor in another boot. One
fault at a time is enough for each listed hazard; faults end, as they are
bounded, and the clock's bound is large enough for a segment to leave the
current lane.

*Replay.* Two files of two runs are the least in which a file can be half
approved, half sent and half acknowledged; two grants let one lapse while the
other is asked for. Two sessions suffice for one taken in between.

*Enrollment.* Two tokens and three certificates are a set-up, its renewal and a
re-enrolment; the lifetimes keep the order of those in the code (ten minutes, a
day, seven days, thirty days).

*AlertEpisode.* Dwells of two ticks and a gap of two allow a late tick inside
and outside the cadence; a second instance of each rule shows that closed
incidents stay closed. The theorems cover every bound.

*Outbox.* The lease of two units outlasts the first retry delay, as thirty
seconds outlast ten; the lifetime of four lets a row expire in every state. Two
transitions are fire and recover, or recover and fire again.

*History.* A minute of two sampling intervals and a freshness of three give a
minute two readings of its own and one before it; three frames in any order
make a late one, a fall of the counter and a missing value. The first is five
units older than the others: it can age out before a pass has saved a watermark,
and come so late that its row is built after its identity has gone. Each limit of
a pass is smaller than the work. Hours, ages and the clock are scaled so that
frames, rows and identities all age out.

*Incidents, Comparisons.* The quotas are one below the number of incidents or
results, so that every limit is met from both sides. Requests with one key, two
at a time, are the hazard; a receipt shorter than the clock lets it run out.
Titles change only at the third revision (`TitledAt`), that of an incident that
was reopened or that lost its evidence after it was closed: retention is then
what an operator's copy can be too old for. Only manual incidents are read for a
change, since that of an alert's is refused.

*Restore.* Three generations are two restores, of which the second may be from
a backup older than the first; one row each is enough for rowids that restart.

### Fairness

* `Spool`: an operation that holds the mutex runs to its end; the runner offers
  both lanes in every cycle (`collector/scheduler/runner.go:852-859`), hence
  strong fairness of both reads although appends come between; a batch that is
  sent again and again is in the end stored and answered. `BacklogDrains` also
  assumes, in its statement, that in the end the process stays up without a
  fault, the clock is not stepped back and unlink succeeds.
* `ControlLane`: the ticker runs cycles; a call ends by its answer or its
  timeout; a status is not skipped for ever, because a third tick is always at
  least five seconds after the last control message.
* `Delivery`: launchd restarts a process that exits; cycles and calls as above;
  strong fairness of both lanes because the byte budget refills and refuses
  none for ever; strong fairness of the clock, which passes only between cycles
  and during calls.
* `Replay`, `Enrollment`, `Restore`: a command that runs takes its steps, and
  the operator runs an interrupted one again, as its journal or receipt asks.
  Where that cannot help (the grant has run out, another process took a
  session, the token is spent by another Mac, the kill tore a file that is
  created and then written) the property names the excuse (`Excused`).
* `Outbox`: the dispatcher polls every half second for as long as the hub runs,
  a send ends after its five- or ten-second timeout, a receiver that is not at
  fault answers, time passes. A unit of time is twenty polls, so time passes
  while the dispatcher has work only as the fault "late". `NewsArrives` supposes,
  in its statement, that no operator or suppressing alert interferes and no
  receiver refuses; late, dying dispatchers and lost requests remain.
* `History`: the ticker starts a pass every ten seconds, and time passes.
* `AlertEpisode`, `Incidents` and `Comparisons` have no liveness property: no
  text promises progress to one rule when another's write is refused, and the
  code does not give it; the other two only answer requests.

Deadlock is not checked where `CHECK_DEADLOCK FALSE` is given: the bounded
clocks, records and faults run out there, and the system waits for input.

### Finding

`history_delta`, `DeltaIsOfItsMinute`: the predecessor window "supplies the
first interval value/counter delta" (`store/rollup_build.go:39`). It holds every
frame whose reading is still valid at the start of the minute, three of the
host's, and `aggregateRollupSeries` (`store/rollup.go:209`) adds the difference
of every consecutive pair, also of the pairs before the minute, which the row of
the minute before has counted already.

### Behaviour the properties had to except

While stating the properties the following behaviours of the code were met.
None is hidden by the model; where a property excludes one, its comment says so.

* *Status retry.* A status with losses is retried with the journal revision it
  was built from (`runner.go:926-936`). If its first request is lost and the
  spool records another loss before the retry, the hub stores it,
  `AckLossesPrefix` answers `ErrCursor` (`spool.go:491`), and the same duplicate
  is sent in every later cycle, with no data lane behind it, while the process
  lives. `LossesAreSettled` supposes no fault.
* *Change across a gap.* The current lane delivers the first observation of a
  new process before the last ones of its predecessor are replayed; the hub
  reports a change across them (`store/ingest.go:323-359`), although the comment
  at line 267 speaks of losing a claim "rather than inventing one across an
  unknown restart". `TransitionIsExact` is stated within one process.
* *Unclassified store errors* are answered 422, on which the collector sets a
  healthy segment aside (`lifecycle/collector_socket.go:199`);
  `EveryFrameArrives` excepts such segments.
* *Unlink* that fails, followed by a clock stepped back or a smaller record:
  section 4.
* *Replay.* An apply whose frames were sent under an earlier session of the same
  grant, or whose session was activated for another boot, cannot finish
  (`Excused`). A preview or apply that is killed between creating its manifest or
  report and having written it leaves a file that differs, and every retry with
  the key, which the message asks for, is refused with "existing recovery output
  differs from exact retry" (`collector_recovery_cli.go:770-776`); the key is
  bound to the path, so the file has to be removed by hand. `RecoveryFinishes`
  excepts it (`Torn`). An apply killed after its receipt has the report
  (`collector_recovery_cli.go:443-444`) and before the file is created is not
  excepted: a retry writes the file.
* *Enrollment.* A set-up that is interrupted after the token ran out, and a
  collector whose identity was re-enrolled while it was down, need an
  administrator (`Excused`). So does a first set-up killed between the creation
  and the writing of `pairing.json` (`pairing/state.go:126-134`): every rerun,
  whatever its token, finds the file (`pairing/state.go:112`), and `Open` refuses
  it with "explicit recovery required" (line 173); no command replaces it.
  `SetupFinishes` excepts it (`TornPairing`). `Create` writes the pairing of the
  local host in the same way (`pairing/state.go:73`); that set-up is not
  modelled.
* *Outbox.* A mute clears `next_attempt_ms` (`store/alerts_control.go:56`) and
  nothing restores it when the mute runs out, so the row only ends with its
  lifetime. Editing a destination supersedes its waiting test and leaves the
  test's job queued; later tests of it are refused as running
  (`httpapi/destinations.go:272`). The last failed attempt before a row's expiry
  ends it without `accepted_unknown` (`store/outbox.go:337`); rows that expired
  are excepted. Superseding by an alert that flaps can leave only the resolution
  to be told. Notification secrets are never removed (`notify/secrets.go:88`).
* *Capacity.* `live_total` is checked by ingest without the charges of alerts and
  incidents (`store/capacity.go:288`, `519-521`), so the sum of the admissions
  can pass the limit until the next measurement; `EveryByteIsCharged` says that
  none leaves the account. Comparisons, rollups, annotations and jobs are not
  charged. The read-only state of a full disk is never entered.
* *Incidents.* Capsules of alerts leave only when a manual incident is created
  or closed. Closing is refused when the open ones alone exceed the quota.
* *Direct probe.* A retry that meets the lock writes a blocked receipt under the
  key of the request that holds it (`httpapi/direct_probe.go:115`); that request
  then submits its sample, finds the receipt and drops its run, against the
  comment at lines 40-41.
* *Comparisons.* A run imported as "active" is never finalized later; reading a
  job ignores its expiry.
* *History.* A late frame is merged into its own minute; the increase of the
  minute after it keeps its old predecessor. A pass that does not end in two
  seconds starts again from the state saved last. When that is the very first
  pass, nothing is saved, and the next one begins at the oldest frame there is then
  (`store/maintenance.go:85`). If an older one has come meanwhile, the watermark it
  saves may lie below rows the first pass wrote; retention takes their frames once
  they are older than 72 hours, and a later pass writes the rows again without
  them. It needs frames of that age before the first watermark, as of a host whose
  clock is far behind. `late` holds them, and `EvidenceStaysUsable` excepts them.
  A row that is built after its process has aged out cannot be selected; it has
  aged out itself by then.

## 4. What is proved

All proofs are of the specification with its constants left open, under the
named assumptions of the module (`SpoolAssumption`, `AlertAssumption`,
`OutboxAssumption`, `HistoryAssumption`, `ReplayAssumption`, `ProbeAssumption`,
`CapacityAssumption`, `IncidentsAssumption`, `ComparisonsAssumption`,
`ControlLaneAssumption`, `DeliveryAssumption`, `RestoreAssumption`, `Lifetimes`
of `Enrollment`). They give the constants their types, and state the few
relations between constants that the code fixes: a receipt lives no longer than
a result, resolved evidence is kept for some time, identities drawn at random
are not chosen by an import, a deployment has finitely many destinations
(`alertDestinationLimit`), a receipt of an enrolment ends before an overlap and
an overlap before its renewal is due, no reading is valid for more than the hour by
which a process outlives its rows (the longest of `rollupMetricSpecs` is 45 s).

**SpoolProofs**: `TypeCorrect`, `Spec => []TypeOK`. One lemma per group of
actions; the strengthening `OperationOK` says that an Append under way has a
record and a segment to write it to.

Under `"remove" \notin Failing`, `Inductive`
(`Spec => []IInv`) and from it `Retention`, `Accounting`, `Acknowledgement`,
`LossReporting`, `Recovery`, `QuarantineIsFinal`, `Refinement`
(`Spec => Ledger!Spec`). `IInv` of `SpoolInv` is the conjunction of

* `Directory`, `Numbering`: a record is in one segment, a segment is of one
  process, and a number not yet written occurs nowhere. Without them a new
  segment could inherit an offset or a loss of an old one;
* `Prefixes`: an offset separates exactly the acknowledged records of its
  segment; without it counting the suffix of a victim as lost would not be
  known to spare what was acknowledged;
* `CursorOK`: a batch is still the records between its offsets, so
  acknowledging it covers what the hub stored;
* `Evictions`: what the two journals hold at each step of an eviction. This is
  what a crash in the middle relies on: a segment marked discarded is counted
  and not finished, one not marked is not counted;
* `TornTail`: a torn record is last in the directory and nothing is written
  behind it; `SnapshotOK`: a status of the current revision carries all that
  its acknowledgement drops; `FateOK`: the properties themselves.

The proofs go action by action, grouped by the part of the state an action
changes. The refinement maps a record to `lost`, `delivered`, `retained` or
`unborn` in that order; every step of the spool moves one set of records or
stutters.

The assumption about unlink is needed: a failed unlink leaves a segment that
is counted, listed and possibly still active, without a fault. Where the next
prune does not choose it again, the next Append writes behind what was counted,
and that record is later removed uncounted. It is not chosen again when it was
evicted for its age and the clock has been stepped back, or when it was evicted
for a large record, a smaller one follows, and the byte limit is below the size
of a segment and one record. The run `spool` has the remaining case: failing
unlinks, a clock that is not stepped back and records of one size, where the
next prune always repeats the unlink.

**AlertProofs** is about alerts and about the messages that tell of them.

Of `AlertEpisode`: `AlertsAreConsistent` (`Spec => []IInv`), `TypeCorrect`,
`IncidentFollowsAlert`, `AlertsAreCurrent`, `FiringRestsOnObservation`,
`ResolutionRestsOnObservation`, `ImplementsIncidentLedger`. Here `IInv` adds
`Clocks`, `Instances` (instances are numbered upwards and a closed incident
belongs to an earlier or ended one), `DecisionIsObserved` (what a pass decided
is what its history says) and `DwellIsObserved`, for both dwells: the dwell an
alert has accumulated, together with the time this pass will add, does not
exceed the time its condition was observed. The last holds in three forms: between passes, for a
rule this pass has still to write, and for one it has written.

Of `Outbox`: `ReceiversAreAlwaysKnown` (`OutboxSpec => []ReceiversAreKnown`) and
`OvertakingIsDeclared` (`OutboxSpec => OvertakenIsDeclared`), for any number of
destinations, rows and faults. `OutboxInv` relates the rows to the requests that
are under way or were accepted:

* `RequestsAreOfRows`, `OneByAttempt`: a request is of one attempt to send one
  row, and says what the row said;
* `SenderKnows`: a request that was answered with a refusal is gone, and one that
  was answered with success is not under way, so what `Complete` writes is true;
* `Marked`: the row of every other request says that it may have arrived, or has
  expired. The lemma `KnowledgeStays` carries it over every step that only
  updates rows in the way `IsLater` names: a row keeps its receiver and its
  message, and does not stop saying unknown. Each of the program's updates is
  shown to be one (`SupersededIsLater`, `ReconciledIsLater`, `PassedOverIsLater`,
  `WokenIsLater`, ...);
* `Declared`, `Summaries`: what a message under way or accepted says about the
  older ones to its receiver;
* `RowsFollow`, `AloneIsLast`: a row that says the alert fires is of an earlier
  transition once the alert is resolved, and only a resolved alert is told as one
  that occurred and recovered; nothing follows it.

The step that needs them all is the claim (`MessageIsSent`): no older message to
the receiver is leased, since the row would have been deferred (`Contended`); so
by `Marked` every older one still under way is unknown or expired, and the payload
built at that moment declares the unknown ones.

**StoreProofs** is about the two components that rewrite the hub's database,
`History` and `Restore`; they share the module only.

`HoursAreCurrent` (`Spec => []HourIsCurrent`), for every
limit, retention and interleaving of ingest with a pass. `HistoryInv` adds
`PassIsOfThePast`: a pass prunes by the time at which it began, so a minute it
takes from under an hour that stays has aged out by now. One lemma per kind of
write: a minute is put and its hour goes, hours are merged, rows are pruned,
nothing of them changes.

`EvidenceIsUsable` (`Spec => EvidenceStaysUsable`: evidence is kept, rows stay
selectable and only grow) from `EvidenceInv`. The claim is about frames that are no
longer there, so the invariant says why each could go:

* `CursorIsBehind`: a frame below the watermark whose rowid the cursor has passed
  is in its row, late, or too old. This is what lets retention take it, and it needs
  `FramesAreApart`: the highest rowid is never pruned, so a new frame is above the
  cursor and above what a pass under way has taken;
* `PassSettles`: the same for the marks a pass will save, but for the minutes it
  still has to write, so that the pass may be dropped anywhere before it saves them;
* `RowsAreBacked`: a frame in its row is still a raw frame, or lies where no pass
  computes a row again: below the watermark and older than the frames a late
  minute may be of;
* `RowIsOfFrames`: the row a pass has read and not yet written holds every frame
  of its minute the pass has taken, and all that the row it replaces is backed by.
  Frames may be admitted between the two; they are above what it has taken;
* `IdentitiesStay`: a process is known an hour longer than the rows, and the
  readings in a row reach no further back than their validity.

That what `Taken` takes is a prefix of the rowids is a lemma about cardinalities
(`TakenIsFirst`).

`HubIsAlwaysOfOneGeneration` (`RestoreSpec => []HubIsOfOneGeneration`),
`EvidenceIsAlwaysComplete` and the refinement `RestoreIsAtomic`
(`RestoreSpec => AtomicReplacement`) from `RestoreInv`. Its parts follow the journal.
While it is not prepared, the live files, the -wal and the vault are of one
generation, and the database holds every row its generation ever admitted, owes
only rows nobody was told of, and is a later state of every image taken of it
(`LiveOK`). Once it is prepared, the prepared files are those of a generation
nobody has used (`PreparedOK`), and what a restore or its resumption says it has
installed is there or has been lost by the disk (`InstallsOK`); whoever holds the
lease has a database in front of it and no restore beside it (`Leases`). That an
image is older than the database, and not merely of the same generation, is what
makes the comparison by rowid complete (`LaterIsAbove`): the rows above the mark of
the image are exactly those it lacks. For the refinement, `PrepareRestore` is the
abstract `Replace`, a loss of the database is `Lose` unless a journal is prepared,
and every other step of a restore stutters.

**ReplayProofs**: `CursorIsBehindTheHub` (`Spec => []CursorFollowsHub`).
`ReplayInv` adds `ReceiptsAreBacked` (an acknowledgement kept in the receipt of
an apply is of runs the hub has stored, although the command that asked for it
may have died long ago) and `CommandHasItsReceipt` (a command moves the cursor
only with the acknowledgement of its own apply). A retry with the same key reads
the receipt and not the hub, so without the first nothing would tie what it
compacts to what was stored.

`BooksAreRight` (`Spec => []BooksAreTrue`), from `BooksInv`. Every grant is of the
one manifest, which does not change once it is written (`OneManifest`); at most
one grant is open, and a grant with a receipt of every run is done (`GrantsOK`).
For each apply there is a set of runs that it has counted: the two numbers are
those of the hub's receipts of these runs, none of them is still in the spool, and
none is in the acknowledgement the apply keeps (`Counts`). That acknowledgement is
of the head of the spool or of runs that have left it (`OnHead`), which is how a
process decides whether the one before it has counted them; files age as a whole,
so a head stays a head or goes (`AgingKeepsTheHead`). Sums are counted as
cardinalities, and that the head of the spool exists uses induction, derived as
for `Delivery` below.

**ComparisonsProofs**: `KeysAreUsedOnce` (`Spec => []OneRunPerKey`). The
invariant is that a run's key has a receipt that ends no earlier than the run's
own did (`KeyIsHeld`); other operations may replace a receipt, but only one
that is no longer alive, and the new one ends later.

`ClaimsAreEarned` (`Spec => []ClaimIsEarned`) and `AnswersAlwaysHold`
(`Spec => AnswersHold`) rest on `EvidenceInv`. What a saved result claims follows
from the reasons for which a comparison is blocked (`PreviewIsEarned`) and stays
true because runs only grow: the request that holds the lock has an identity no
run has (`LockIsOfOne`), and the assumption says that an identity drawn at random
for it is none that an import chooses. A live receipt ends no later than the
result it names (`AnswerIsThere`), since receipts live no longer than results.
The medians are not looked into: status and claim are about the same ones.

**IncidentsProofs**: `KeyCreatesOnce` (`Spec => []RetryCreatesOnce`),
`EveryLossIsTold` (`Spec => []LossIsTold`), `NoByteEscapes`
(`Spec => []EveryByteIsCharged`, of `Capacity` as `Incidents` composes it),
`EvidenceLeavesOnlyByRule` and `ChangesAreOfWhatWasRead`, all from
`IncidentsAreConsistent` (`Spec => []IncidentInv`). The three parts of the
invariant are about requests, evidence and bytes. `RequestInv`: the key of an
incident has a receipt that ends no earlier than the incident's own did
(`KeyIsHeld`), and what an operator has read is the incident as it was at the
revision they hold (`ReadIsOld`), so a change that finds the same revision finds
the same incident. Evidence: the incidents a prune takes are disjoint from those
that lost theirs before, so both counters grow by exactly the incidents they
gain; this is about cardinalities and holds for any number of evictions.
`Account`: a class holds at most its measurement, the grant and the charges. A
release drops a charge only where the measurement that set it free was taken
after the write, and a prune charges what it frees before it can be reused. The
proof uses that the time resolved evidence is kept is not zero, which the code's
constant `incidentResolvedRetention` gives.

**CollectorProofs** is about the two components in which a hub and a collector
agree on numbers and names, `ControlLane` and `Enrollment`; they share the module
only.

`LossesAreCounted` (`Spec => []LossesAreToldOnce`) and
`NumbersAreSafe` (`Spec => []SequenceAgrees`). `Lane` relates the message under
way to three things. To the journal: while the revision has not moved on, the
message carries exactly the prefix that its acknowledgement drops
(`CarriesItsPrefix`), and intervals have no loss in common. To the hub: every
number below the one in use is taken (`SettledAreStored`), and what this process
has told is in no interval and no other message (`ToldIsGone`). To the copies
still on their way: each is of the message under way, or its number is taken, or
it is too old to be admitted (`LateIsHarmless`); this is why the number of an
expired message can be given to the next. `AdmittedIsUnderWay` draws the
conclusion: whatever the hub admits is the message under way. The proof uses that
the hub's clock does not run backwards.

`OverlapIsAlwaysExact` (`EnrollSpec => []OverlapIsExact`) and
`CollectorsAreOneIdentity` (`EnrollSpec => []OneIdentity`), from `EnrollInv`.
Its half about the hub, `HubInv`: a host is known by one row (`OneRow`), a
certificate of this generation is of a host the hub knows (`CertsAreOfHosts`),
a certificate dies by the end of the overlap with each of its successors and
not earlier unless it was revoked (`Overlaps`), and a receipt of a renewal names
a certificate of the identity it renewed (`RenewalsAreOfOne`). The half about the
Mac, `MacInv`: every certificate that was signed for a key of this Mac names a
host which the hub knows by this Mac's installation (`CertsAreOurs`), whoever
presented the token and however often the answer was lost; the files agree
except for those a set-up has still to write, and what a set-up has reached says
which these are (`FilesAgree`, `SetupKnows`); no collector runs while they are
written, and each certificate it deals with is one of its files (`RunIsSafe`). The hub forgets no
token, certificate or host (`HubGrows`), which is why a set-up or a renewal may
rest on an answer that is many steps old.

**DeliveryProofs**: `SidesAlwaysAgree` (`Spec => []SidesAgree`),
`CurrentNeverRunsBack` (`Spec => []CurrentNeverRegresses`), `TransitionsAreExact`
(`Spec => []TransitionIsExact`) and `TypeCorrectness`, all from `Invariance`
(`Spec => []IInv`). `IInv` follows a frame from the process that observed it to
its row: `Bootstrap` (the n-th boot expects session n - 1 and becomes session n;
at most the last activation is not at the hub, and it is the pending one, so a
bootstrap that is sent again is never fenced by its first request), `Process`
(nothing is observed before the activation is complete), `Chronology`
(observations are ordered in boot, sequence and time, and each claims to have
been compared with the one before it), `Spooled` (segments are of one boot, an
observation is in one of them, a batch is the piece between the offset and its
length) and `AdmittedRows` (what lies behind an offset is stored, current rows
grow). `Found` says of each reported change that its predecessor is the one the
frame claims. Batches inserted row by row are a recursive function (`Rows`); what
every prefix of a batch satisfies is proved by induction on its length, which the
lemma `SetInduction` derives from the pigeonhole principle of the library's
theorems about finite sets.

**Model-checked only.** Liveness, which the prover does not reach; what a
row of `History` says of its frames (`CoverageIsExact`, part of
`FramesAreCounted`), since coverage is a fold, which needs induction over data; and
the behaviour of the spool when unlink fails.

## 5. What is not modelled, and why

Parsing, rendering, selections and platform calls keep no state in the program
and are left out for good: the HTTP API and the read queries over the store, the
wire protocol's encoding, the observation of host and runtimes, launchd, web
assets. Cryptography and formats (certificates, archives, signatures) are
modelled by what they decide. Authentication (the bootstrap token, the login
limiter, sessions, API tokens) keeps state of its own that no modelled part
reads, and is not modelled here. Within the modelled parts, besides what the sections of
each module name:

* the byte budget's arithmetic is a choice in `Delivery`;
* a loss told by one process and not yet dropped is told again by the next: the
  hub keeps losses per boot and nothing promises otherwise;
* acknowledging an alert only stamps its row and is left out;
* inventories of models and the retirement of targets.

## 6. What could follow

1. The token buckets of `collector/scheduler/budget.go` as functions, checked
   against their closed form, in place of the choice in `Delivery`.
2. Inventories and target revisions across `Delivery` and `Enrollment`.
3. `Access`: sessions and tokens against requests in flight.
4. A proof of `CoverageIsExact` of `History`, with its fold written as a recursive
   function over the readings in their order.

## 7. Running the checks

```
tlc -workers 2 -config Spool.cfg MCSpool.tla
tlapm SpoolProofs.tla
```

`PROJECT.json` names the module and configuration of every run, and for every
property a mutated definition under which it fails.
