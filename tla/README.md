# Verification of anker-solix-exporter

The exporter is one Go process. It polls the Anker cloud at an interval, writes
what is new to PostgreSQL/TimescaleDB, and remembers in a JSON file how far each
device has been exported. This directory holds TLA+ models of it, the TLC
configurations that check them, and proofs of their main invariants.

## 1. Inventory

| Component | Source (under `src/`) | State it keeps | Operations |
|---|---|---|---|
| Poll loop | `cmd/exporter/main.go` | ticker, context, client, writer, state | `main`, `Run`, `poll`, `processDevice` |
| Resume state | `internal/resume/state.go` | map device key -> `DeviceState`; the file and `<file>.tmp` | `NewState`, `Load`, `Save`, `GetDeviceState`, `UpdateDeviceState`, `GetResumeTime` |
| Anker session | `internal/anker/auth.go`, `client.go`, `request_handler.go` | auth token, user id, key pair | `Login`, `IsAuthenticated`, `execute`, `doRequest` |
| Site discovery | `internal/anker/sites.go` | none | `GetSites`, `getSceneInfo` |
| Energy history | `internal/anker/energy.go` | none | `GetEnergyData` |
| Live measurements | `internal/anker/measurements.go` | none | `GetCurrentMeasurements` |
| Rate limiter | `internal/anker/ratelimit.go` | request history, last request, limit, delay | `Wait`, `SetEndpointLimit`, `SetRequestDelay`, `GetStats` |
| Password encryption | `internal/anker/crypto.go` | none | ECDH keys, AES-CBC |
| Database writer | `internal/database/writer.go` | connection pool; tables `sites`, `devices`, `measurements` | `WriteMeasurements`, `ensureSitesAndDevices`, `GetLastTimestamp` |
| Migrations | `internal/database/migrations.go`, `migrations/*.sql` | `schema_migrations` (version, dirty), the tables | `RunMigrations`, `verifyTablesExist` |
| Configuration | `internal/config/config.go` | none after the start | load, environment, validate |
| Deployment | `Dockerfile`, `deployments/helm` | volume of the state file | one replica, strategy `Recreate` |

How they interact. `main` loads the configuration, the resume state, the
database (with its migrations) and the client, and calls `Run`. `Run` polls once
at once and then at every tick until the context is cancelled by the signal
goroutine. A poll logs in if there is no token, asks for the sites (once more
after a new login if that fails), and for every device that was not exported
within the last interval asks for the energy of the days from the device's
watermark to now, drops what is not after the watermark, writes the rest in one
batch and moves the watermark to the latest day written. The state file is saved
at the end of a poll and on the way out, and nowhere else.

What is hard in it:

- the database and the state file are two stores without a common transaction:
  crashes, lost commit answers, failed saves and power losses fall between them;
- the watermark decides alone what is asked for and what is filtered out, so an
  error in it loses data without a trace or imports it twice;
- the context is cancelled in the middle of a poll; HTTP calls ignore it, database
  writes do not, and a COMMIT may be in flight when that happens;
- `select` chooses between the ticker and the shutdown, and after a slow poll both
  are ready;
- the upserts look a key up and then write it, each in a transaction of its own, and
  leave blank fields out of conditions and assignments;
- migrations are tried by starts that may die or overlap; the ledger can be ahead of
  the tables, and a dead process can leave a transaction behind;
- the connection string is put together without quoting;
- failures are local by design (a device, a site, a save): none may stop the rest;
- the rate limiter sleeps with its lock held and uses an instant it read before.

What makes each component correct:

- poll loop: no day lost or jumped over; no day imported twice without a cause;
  shutdown ends the process and keeps progress; one device cannot starve another;
- resume state: a save is all or nothing, and never takes the last good state away;
- rate limiter: no window with more requests than the limit, no wait without need;
- writer: a measurement never refers to a device that is missing, and a failed
  call can be repeated;
- migrations: no process polls on tables that are not there, no row is lost, and a
  start that failed can be repeated until one succeeds (a version counted as applied
  need *not* have been applied: `Force` sees to that);
- configuration: which of the accepted settings reach the database as they were configured.

## 2. Modules

| Module | What it is |
|---|---|
| `DurableState` | abstract specification of the resume state: a map with atomic checkpoints |
| `ResumeState` | `state.go`, with `Save` as its steps; implements `DurableState` |
| `MCResumeState` | its instance for TLC |
| `ResumeStateProofs` | theorems about `ResumeState` |
| `Exporter` | `main.go` around `ResumeState` (an instance of it), the cloud, the database and the host |
| `MCExporter` | its instances for TLC |
| `ExporterProofs` | theorems about `Exporter`: types, how often a day is imported, and what a shutdown leaves in the state file |
| `ExporterSafetyProofs` | theorems about `Exporter`: what a watermark stands for, its progress, and its use of `ResumeState` |
| `SlidingWindow` | abstract specification of a rate limiter that remembers every request |
| `RateLimiter`, `MCRateLimiter` | `ratelimit.go`, implementing it, and its instances for TLC |
| `RateLimiterProofs` | theorems about `RateLimiter` |
| `AtomicWrites` | abstract specification of `WriteMeasurements`: all rows of a batch in one step, or none |
| `Measurements` | operators: the batches `measurements.go` and `processDevice` make of the cloud's answers |
| `Writer`, `MCWriter` | `writer.go` and `models.go` statement by statement, implementing `AtomicWrites`; its instances for TLC |
| `WriterProofs` | theorems about `Writer` |
| `Configuration` | operators: `config.go`, and how the driver reads the connection string |
| `Startup`, `MCStartup` | `main` up to the first poll, `NewWriter`, `RunMigrations` and the migrations, using `Configuration`; its instance for TLC |
| `StartupProofs`, `StartupHintProofs` | theorems about `Startup`: the tables, and the operator's hint |
| `ConfigurationProofs` | the theorem about the connection string |

### ResumeState and DurableState

`devices` is `State.Devices`; `file` and `tmp` are what a reader of the two files
would see: a snapshot of the map, nothing (`NoFile`), or content that
`json.Unmarshal` rejects (`Torn`). `disk` is what a power loss would leave of
`file`; nothing in the code calls `fsync`, so it can lag behind until the kernel
flushes, and a power loss in between may even leave a renamed but empty file.
`Save` is `BeginSave` (open and truncate the temp file), `WriteTmp`, `Rename`, or
`SaveFails` at any of them. `NewState` starts from the file if it is a complete
snapshot and from an empty map otherwise; `NewStateUnreadable` is an error of
`ReadFile` on a file that is there. `LastPollTime` is only logged and left out,
and so is the mutex: one goroutine uses the state. (`GetLastPollTime` has no
caller.)

`ImplementsDurableState` maps `live` to `devices`, `saved` to what a start would
load from `file`, and `kept` to what it would load from `disk`: whatever happens
inside `Save`, its user sees a map that is replaced as a whole or not at all.

### Exporter

`pc` follows the main goroutine:

| `pc` | Where the code is |
|---|---|
| `down` | no process |
| `login`, `sites`, `relogin`, `retry` | main.go:203, 216, 220, 225 |
| `site`, `device` | the loops of main.go:250 and 289 |
| `fetch`, `write`, `update` | main.go:409, 533, 555 |
| `commit` | inside main.go:533 (writer.go:88): the COMMIT has been sent, the answer is not there yet |
| `save` | main.go:336 |
| `select` | main.go:164 |
| `exit`, `ended` | main.go:171, 176 |

Every action is one call or one decision of that goroutine, with its success and
its failures as separate actions; the step of `ResumeState` the code makes there is
conjoined (`RS!UpdateDeviceState` in `Update`, `RS!Rename` in `SaveOk`). Around it:
`Cancel` (the signal goroutine), `Crash`, `PowerFails` and `Flush` (the host),
`Advance` (the clock and the ticker, whose channel holds one tick and drops the
next), `TokenExpires` and `Move` (the cloud).

Time is an integer clock and a day has `DayLen` units. A daily value of day `d` has
the timestamp `d * DayLen`, since its date is parsed to midnight; `Complete` are the
days that were over when the cloud answered, so their value is the day's total.
Rows are counted per key and day (`rows`): the table has no unique key on device
and timestamp, so a second insert is a second row.

A start that ends before the loop (bad configuration, no database, failed
migration) reads the state file and nothing more, so it is a stutter. The devices
of a site are a set, taken in any order; the two-second pause after a device is
the time `Advance` lets pass. HTTP calls do not see the context; the database
driver does: under a cancelled context no COMMIT is sent any more (`SendCommit`), and one that is in
flight is answered all the same (`WriteOk`), refused (`WriteFails`) or given up (`CommitAbandoned`, as when the
connection breaks). What was given up, or was in flight when the process died, stays in `adrift` until the
server applies it (`CommitLands`) or drops it (`CommitDropped`), at any time, also after the day has been
written by a later poll. Live measurements are left out: a failure to fetch or
write them is logged and changes nothing the loop goes by.

### RateLimiter and SlidingWindow

`Wait` is three actions under the mutex `mu`: `Lock` (reads the clock into `seen`,
cleans the history), `Throttle` (counts as of `seen`, computes the sleep by a second
reading, `asked`), `Record` (the sleep is over; the request is recorded at a third
reading). Time passes anywhere between them. The list of requests is a set of
numbered records, since only its counts and its oldest element are used; `granted` is
a history of all of them. `Configure` is what `main` does with `endpoint_limit` and
`request_delay`. The program has one caller; the type has a mutex and its tests use it as
a shared object, so any number of callers is modelled. `GetStats` only reads.

`ImplementsSlidingWindow` maps a `Record` to one atomic `Grant`, which counts over
every request ever granted at the instant of the grant.

### Measurements, Writer and AtomicWrites

A batch is a sequence of measurements, and a measurement is its labels: site and its
name, device and its name and type, each of which may be blank. `LiveBatch` and
`EnergyBatch` build the batches of a poll from a scene answer and from the site
list; the first takes the site's name from the scene answer and the type from
the list a device stands in, the second from `GetSites`. Values and timestamps
are not read back and left out.

`pc` of a caller is the statement it is about to send:

| `pc` | Where the code is |
|---|---|
| `sites`, `site` | writer.go:124, the SELECT of `FirstOrCreate` and its INSERT or UPDATE |
| `devices`, `device` | the same at writer.go:139 |
| `insert`, `commit` | the chunks of writer.go:88 and their COMMIT |
| `ok`, `failed` | what `WriteMeasurements` returned |

The tables are functions from keys to rows. GORM is modelled from its use: a condition
given as a struct skips blank fields (`Matches`: a blank key matches any row, the model
allows each where the database takes the oldest), so does an assignment (`Assigned`), every statement outside `CreateInBatches` is a
transaction of its own, and an INSERT of a key that has come to exist fails (`SiteAdmitted`, `DeviceAdmitted`).
Constraints are those of models.go and migration 2. `Rejected` is a
statement the database refuses, `StatementFails` one that does not get through or runs
under a cancelled context, `AnswerLost` a commit whose answer is lost. Such a commit takes effect
before the error is returned; that it may also take effect later, and what this does to the next
poll, is `adrift` of `Exporter` (for sites and devices, later makes no difference: the upserts that
follow write the same row or are refused and tried again).

`ImplementsAtomicWrites` maps every `pc` in between to `called`. `Commit`, `Refuse` and
`CommitUnseen` of `AtomicWrites` are what `Exporter` takes a write to be (`WriteOk`, `WriteFails`,
`CommitAbandoned` with `CommitLands`): `Exporter` relies on this promise and `Writer` keeps it.

### Configuration and Startup

`Config(dep)` resolves each setting (environment, file, default; an empty variable counts as
absent, an empty value in the file does not), `Validate` is config.go:208, `GetDSN` the
sequence of the fields of the connection string. `Reading` and `ReadAsMeant` say what the parser of pgx
makes of it. A value is one of six kinds: plain, empty, with a space, with a leading quote, with a doubled
backslash, with a trailing backslash. Values are not quoted by `GetDSN`, so an empty one and one with a
trailing backslash swallow the next field, a space leaves characters before the next key, a leading quote
swallows everything to the next quote, and a doubled backslash is read as one. `Reading` is how the
parser comes to each field, `After` how a value of each kind leaves it; `Unreadable` are the lines it
refuses. A space at either end of a value, or a quote that is closed within it, is misread without harm to
the neighbours and is not told apart. Only settings that decide how far a start gets are kept.

`pc` of a process:

| `pc` | Where the code is |
|---|---|
| `down`, `hint` | no process; the second: its last message was the hint of migrations.go:106 |
| `connect` | main.go:66 |
| `table`, `version`, `force`, `up` | migrations.go:28, 45, 52, 60 |
| `next`, `run`, `clean` | inside `Up`: enter the next version as dirty, run its file, enter it as clean |
| `verify`, `ticker`, `running` | migrations.go:77, main.go:145, the loop (which is `Exporter`) |

`measurements` is the table of migration 1 (`wide`), of migration 2 (`narrow`) or none,
`catalog` whether `sites` and `devices` exist. A file runs as one transaction. Run
again, migration 1 changes nothing on a wide table and fails on a narrow one (its index
needs `site_id`), migration 2 fails on anything but a wide one. `Dies` is a kill, a crash or a
failing statement; at `run` it may leave an orphan (`lock = Orphan`, `left`)
that commits or aborts later. `FollowHint` is the operator. In `Exporter` all of this is one stutter before `Start`.

## 3. Runs

| Run | Instance | Shows |
|---|---|---|
| `resume_state` | one key, two instants (five values of the map), power losses | every order of updates, failed saves, deaths, flushes and restarts: `ImplementsDurableState`; `TornOnlyByPowerLoss`; `FlushedStateSurvives` |
| `faults` | one device, two days of two units, interval 2, one event of any kind that loses progress | `DuplicatesBounded`, its inductive form `ImportsAccounted`, `WatermarkBacked`, `NoDaySkipped`, `ShutdownRemembers`, `ProgressKept`, `ExportsSpaced` |
| `sites` | two sites, one device that moves there and back, answers with days left out, short lookback | `WatermarkBacked`, `ProgressKept`, `DuplicatesBounded` with two keys for one device |
| `live` | two devices, of which one may fail for ever, one day, no loss; all calls may fail, tokens expire, the process is shut down and started again | `ShutdownCompletes`; `EveryDayExported` for the other device |
| `reimport` | one crash | `NeverReimported` violated (finding 1) |
| `moved` | one move | `OneRowPerDeviceAndDay` violated (finding 2) |
| `totals` | no fault | `PastDaysHaveTotals` violated (finding 3) |
| `rate_limiter` | two callers, two endpoints, a window of three units, limits one and two, delays one and two | `ImplementsSlidingWindow`, `WindowRespected`, its inductive form `Admission`, `HistoryBounded`, `NoNeedlessWait`, `EveryWaitEnds` |
| `zero_limit` | one caller, `endpoint_limit: 0` | `ZeroDisables` violated (finding 4) |
| `writer` | two callers, three calls, one fault, chunks of two rows, six batches: empty, live, energy (three rows, the device at its other site), blank name, blank serial number, blank site | `ImplementsAtomicWrites`, `ParentsExist`, `LabelsAsReported`, `KnownNamesKept`, `RetrySucceeds` |
| `parallel_writers` | three callers, one new device, no fault | `NoWriterFails` violated (finding 5) |
| `startup` | two processes, a fresh or older database, 163 deployments (three sound, two with an interval that is not positive, 139 that the driver misreads, 19 rejected), two faults | `RunsOnSchema`, its inductive form `SchemaAccounted`, `HintNeedsFault`, `NothingLost`, `ReadBack`, `StartsInTheEnd` |

Bounds, and why they are enough. Keys do not interact except through the order of a
poll and the one file, so one key shows the life of a watermark, two keys the sharing of a
device (`sites`) and of a poll (`live`). Two days are the least for which a watermark can jump
over a day; two units a day the least for which a day can be exported while it goes
on and again after it, and `PollInterval = 2` the least for which an export can be
too soon. `MaxLosses` bounds the events that lose progress: each adds at most one
import of a day, so one event shows each kind and the proof covers any number.
The clock stops at `Horizon`, one interval past the last day; the ticker goes on, so
that the loop does, and `Advance` does not pass the last day while a device taken
up before it is in work (without that, the end of time would make the device
"too recent" for ever). In the liveness runs a day is one unit, since only whether a day is
stored is asked. `live` has no loss, since with one beside the second device its checks pass what TLC does in
minutes; that a loss leaves no watermark beyond a day without a row, so that the day is asked for
again, is a question of safety and `faults` asks it (`NoDaySkipped`, `WatermarkBacked`). Deadlock is checked in every run of `Exporter` and `ResumeState`.
In `RateLimiter` no call begins after `LastCall`, and from then on time passes only for a
caller that sleeps; two windows' worth of calls fit before it, which is what it takes to
fill a window, wait, and fill it again. When all callers are done nothing
is left to do, so deadlock is not checked there (`EveryWaitEnds` is).

In `Writer` two callers are what a race takes, and a third call shows what a caller meets after one;
one fault shows each statement failing once while another call runs; chunks of two and a batch of
three give a failure between chunks. In `Startup` one fault makes the ledger dirty and the
second strikes the start that repairs it; two processes give the overlapping starts and
the stale version. In both the bounded calls and rows run out, so deadlock is not checked
(`RetrySucceeds` and `StartsInTheEnd` are).

Fairness. `WF(Main)`: every call returns, HTTP calls by the client's timeout of ten
seconds. `SF(SelectDone)`: Go's `select` picks one of the ready cases at random, so a
shutdown that is ready again and again is taken in the end; weak fairness would
not do, since the poll in between disables it. `WF(Advance)`: time goes on. `Services(healthy)`:
a call for a healthy device that is made again and again succeeds in the end
(`SF` on the success action). `EveryDayStored` asks in addition that shutdowns stop
and that a live token is not found expired for ever; without the first, a host that stops the
process in every poll keeps it from ever storing anything, and without the second a token that expires
between `GetSites` and `GetEnergyData` of every poll does. A token that *has* expired must be replaced by the
code: a poll that did not log in again would violate the property. It speaks of the days the lookback
reaches back to, which in the run are all days; that older ones are never asked for is by design
(main.go:357). In `RateLimiter`, `SF(Lock(c))`: a
Go mutex is handed over in turn once a waiter starves; `WF` of the rest: goroutines are
scheduled and sleeps end. In `Writer`, `WF` per caller: statements are answered, by a failure if need be, and
what failed is tried again (by the next poll). In `Startup`, `WF` per process: it runs and is started again when
it has ended, as the container's restart policy does; `WF` of the orphan: a transaction ends;
`SF(FollowHint)`: automatic restarts leave the hint again and again, and the operator sees to it in the end.

## 4. Proofs

Every safety property of a passing run, invariant, action property or refinement, is a theorem that TLAPS
checks to the last leaf. All of them hold for every value of the constants that meets the modules'
assumptions; two have a hypothesis of their own, named below. The invariants that strengthen a
property were checked by TLC on the runs' instances before they were proved.

### The resume state

`ResumeStateProofs` proves `TypeCorrect` (`Spec => [](TypeOk /\ Staged)`), `SavesNeverTear`
(`TornOnlyByPowerLoss`), `FlushedSurvives` (`FlushedStateSurvives`) and `Implementation`
(`ImplementsDurableState`). The invariant they need is `Staged`: between the write of the temp file and
the rename, the temp file holds what memory holds. Without it a rename could bring anything into
the state file. In the refinement an `UpdateDeviceState` is a `Set`, `Rename` a `Checkpoint`, `Flush` a `Keep`, a new
process a `Start`, and every other step of `Save` stutters (`DurableStep`).

### The poll loop

`ExporterProofs` proves, for every value of the
constants that meets the assumptions of `Exporter` (any sets of sites and devices,
any day length, interval, lookback, set of faults and bounds):

- `TypeCorrect`: `Spec => []TypeOk`;
- `Inductive`: `Spec => [](TypeOk /\ ImportsAccounted)`;
- `ImportsBounded`: `Spec => []DuplicatesBounded`, that is, no day of a device has
  more rows than one plus the number of events that lost progress;
- `ShutdownKeepsAccounts`: `Spec => []ShutdownRemembers`, that is, when a process ends by itself, a day with
  more rows than there were losses is reached by the state file.

`DuplicatesBounded` is not inductive: it does not say why a write cannot find the
day stored. `ImportsAccounted` adds that. `Phases` ties the stage of a save to `pc`, so
that what is renamed over the file is the map in memory. `Device` says that the start of
the range is no earlier than the watermark, hence the batch lies strictly beyond it. `Credit` is
the account: a day beyond the watermark has at most `losses` copies, a day that the watermark reaches, or that
`Update` is about to make it reach, one more. Copies are its rows and the COMMITs adrift that would add one
(`Copies`, `Pending`), so that a COMMIT given up is booked when it is given up and may land at any time. Both
bounds on rows follow, and `ShutdownRemembers` with it: at `ended`, the watermark meant is the file's. The watermark meant is `Known`: the map in memory
while the loop runs, what the next start will load once it has ended. A write spends
the credit of a day beyond the watermark; a crash, power loss, COMMIT given up, failed final save or unreadable file may take
the watermark back, and adds one to `losses`. The proof has one lemma per group of actions that
treat these parts alike (`IdleStep`, `PollingStep`, `LossStep`, and the steps of a
device and of a save in `ImportsStep`). It rests on `LatestDay` (the latest day of a
batch exists, by well-founded induction on the days) and on arithmetic over `Ts`.

`ExporterSafetyProofs` rests on `Inductive` and proves:

- `ProgressBacked`: `Spec => []WatermarkBacked`. Added are `BatchStored` (at `update` every day of the
  batch has a row) and `Backed`, which is the property of one map, since memory, both
  files and the disk copy from each other. Two days have two timestamps (`TsInjective`), so the day
  `Update` moves the watermark to is one of the batch.
- `NoGaps`: `Spec => []NoDaySkipped`, under `LookbackCovers` (the lookback reaches behind the first day at
  any time) and with no `"partial"` in `Faults`. Both are needed and both are what the property is about: a
  device without progress is asked for the lookback only, and a day the cloud leaves out of an
  answer that has a later one is never asked for again. The run `faults` meets both. `Contiguous` is the
  strengthening: the days up to the start of the range have rows, and a day before one in the batch
  has a row or is in the batch.
- `ProgressOnlyLost`: `Spec => ProgressKept`. A step keeps `Known` or counts a loss; `Update` raises the
  watermark, because the batch lies beyond it (`Device`).
- `ExportsKeepDistance`: `Spec => ExportsSpaced`. `Spaced` carries the check at main.go:368 to the
  update, across the calls in between: the clock does not run backwards (`ClockStep`).
- `UsesResumeState`: `Spec => RS!Spec`. Every step of the loop is a step of `ResumeState` or leaves its
  variables alone, so that the theorems about `ResumeState` hold of the exporter's files.

### The rate limiter

`RateLimiterProofs` proves, for any callers, endpoints, window, limits and delays:

- `Admitted`: `Spec => [](TypeOk /\ Admission)`;
- `LimitKept`: `Spec => []WindowRespected`;
- `Implementation`: `Spec => ImplementsSlidingWindow`, each step to a step or a stutter;
- `TypeCorrect`: `Spec => []TypeOk`;
- `HistoryIsShort`: `Spec => []HistoryBounded`;
- `SleepIsNeeded`: `Spec => []NoNeedlessWait`.

That the limit holds when a request is granted follows from three things `Admission` adds.
`Kept`: the cleaned history still holds every request that counts, now or at `seen`. `Full`: no window
that ended so far has more than the limit, so when the limit is reached it is reached
exactly, and waiting for the one oldest request is enough (`ThrottleWaitsForRoom`; it would not be
if the limit could be lowered later, which `main` never does). `Slept`: there is room at `WakeAt`, and
since nobody else is granted anything while the mutex is held, still when the sleep
ends. The lemmas rest on the library's facts about cardinalities of finite sets.
`HistoryBounded` is not inductive, since a history of one more than the limit could grow by one
more: `Short` adds that it is at most the limit while the mutex is held. `NoNeedlessWait` follows at the
`Throttle` that begins a sleep from `Full`: when the limit is reached, it is reached exactly, and before the
oldest request leaves the window there is no room (`FullBefore`). While the caller sleeps nobody else
changes the history (`Mutex`).

### The writer

`WriterProofs` proves, for any keys, names, batches, chunk size, callers, calls and faults:

- `TypeCorrect`: `Spec => []TypeOk`;
- `ForeignKeysHold`: `Spec => []ParentsExist`;
- `DevicesAreReported`: `Spec => []LabelsAsReported`;
- `NamesStay`: `Spec => KnownNamesKept` (names and types of devices, names of sites, and that rows stay);
- `Implementation`: `Spec => ImplementsAtomicWrites`.

The invariant is `Consistent`: with the types, per caller, `Busy` (a call under way has something to write,
and a transaction is open only in `insert` and `commit`) and `Loops` (the keys to come
are keys of the batch; the row a SELECT found is still there when the UPDATE is sent, and it
matches). The last part is where callers could hurt each other: it holds because no statement
removes a row (`NamesStay` is the same fact for names). `ParentsExist` looks at the moment a foreign
key is needed; `Parents` says of every state of the two loops which keys have rows by then. For `LabelsAsReported`, `Reported` says the same of labels: while a call without blank
keys is alone, the devices its loop is done with show what it was given, and a later
UPDATE is about another row. In the refinement every statement
before the COMMIT stutters, the COMMIT stores the whole batch (`Commit`, or `CommitUnseen` if its answer
is lost), and a failure stores nothing (`Refuse`). How many rows of a device a batch has is counted with
finite cardinalities (`FiniteSetTheorems`).

### The start

`StartupProofs` proves, for any processes, deployments, numbers of rows and of faults:

- `TypeCorrect`: `Spec => []TypeOk`;
- `SchemaSound`: `Spec => []SchemaAccounted`;
- `RunsWithTables`: `Spec => []RunsOnSchema`;
- `StartsLoseNothing`: `Spec => NothingLost`.

`RunsOnSchema` is not inductive: a process that verifies looks for `measurements` and the
catalog, of either shape, and another process or an orphan may run a migration while it
polls. `SchemaAccounted` says that the catalog exists exactly when the table is narrow, so
that the tables looked for are those of the last migration, and that whoever is about to
run a migration runs 1 or 2, neither of which applies to a narrow table (`Migrated`): it is
rolled back. The lock is not needed for this; what it prevents is `HintNeedsFault`.
`QuietGoto` covers the actions that leave the tables alone, `ApplyKeeps` a commit by a process or an
orphan, `LiveKeeps` the way into the loop. The assumptions are `StartupBounds` and `StartupNames`.

`StartupHintProofs` proves `HintsNeedFaults`: `Spec => []HintNeedsFault`, for any number of processes. A
hint is given by a process that finds a table missing although the ledger says that all is applied, so the
proof has to tie ledger and tables together while nothing fails, in spite of a read without the lock.
`Orderly` adds to the invariant above `LockHeld` (the lock is held exactly by the process that migrates) and,
while `faults = 0`, `Smooth`: the ledger, and the version a process has read in order to force it, is *promised* (`Promised`:
the tables are at it, or the holder of the lock is running a migration that brings them there), and a
process that migrates or verifies knows no more than the tables have (`Behind`). A forced version is thereby
one that the tables had reached when the lock was free, however stale it is: versions promised stay
promised, since tables only go forward.

`ConfigurationProofs` proves `ReadAsConfigured`: `Spec => []ReadBack`, for any deployments, under
`PortsAreNumbers` (the port is an `int`, config.go:31, and is written as a number; the deployments of the runs
meet it). The theorem is an equivalence. `ReadingIs`: what reads each field as its predecessor
says is *the* reading (by well-founded induction on the place of the first difference). `ReadAsMeantPlain` applies it to
lines without special values and without two empty fields in a row: what is misread there is what is
empty and what comes next. For one direction, `FieldsOfDSN` says that the elements of the string are exactly
the configured fields. For the other, `ShapeOfDSN` says which field stands where and that no key comes twice, and `AcceptedHas`
that `Validate` leaves nothing but the user and the SSL mode to be empty: then the field that comes next is missing, and
for the SSL mode there is one, since a password or a certificate is required (`EmptyMisleads`).

### Only model-checked

Liveness is out of the prover's reach: `ShutdownCompletes`, `EveryDayExported`, `EveryWaitEnds`,
`RetrySucceeds` and `StartsInTheEnd` stay with TLC. So do the violation runs (they are counterexamples) and the
operators of `Measurements`, which no theorem speaks of: `WriterProofs` takes any batches, theirs
included.

## 5. Findings

1. `reimport`: README.md:26 says the state file tracks progress "so restarts do not
   re-import data". The file is saved once, at the end of a poll (main.go:336); a
   crash after a commit imports the days again.
2. `moved`: README.md:30 says the resume state serves "to avoid duplicate imports". The state
   is per site and device (main.go:346), the rows are per device: after a move
   the days of the lookback are imported again.
3. `totals`: main.go:481 calls the value the "energy for the day". The running day is
   exported with what it has so far and filtered out from then on (main.go:455), so
   its total is never stored. The model assumes that the cloud answers for a
   running day with its value so far.
4. `zero_limit`: config.yaml.example:24 says of `endpoint_limit` "(0 to disable)", and so
   does the comment of `SetEndpointLimit` (client.go:198). `main` calls it only for a
   positive value (main.go:92), so 0 leaves the default of 10.
5. `parallel_writers`: `TestConcurrentWrites` (examples_integration_test.go:207) has three
   goroutines write the same new device and allows none of them to fail. `FirstOrCreate`
   looks a key up and then inserts it (writer.go:129, 146), so two that find it
   missing collide on the unique key; a retry succeeds (`RetrySucceeds`). The exporter
   itself has one writer.

Three observations without a run of their own:

- `Validate` accepts a client certificate without a user ("may be derived from the certificate",
  config.go:218; the Helm chart has `DB_USER` only where a user is given for that case), but `GetDSN` still
  writes `user=` (config.go:279), and the driver takes the next field for its value: such a
  deployment never connects as it was meant. `ReadBack` says which others do not.
- A blank serial number is skipped by the condition of the upsert (writer.go:147): with any device in the
  table it finds that one, gives it the labels of the measurement and creates none, and the insert
  is then refused by its foreign key. `ParentsExist` and `LabelsAsReported` therefore ask for batches without
  blank keys; the second says that the next call that names the relabelled device mends its row.
- A poll interval of zero or less is accepted (config.go:265), and every start panics after its migrations;
  `StartsInTheEnd` asks for a positive one.

## 6. Not modelled, and the plan

Not modelled: cryptography (no state), endpoints, live measurements as actions
of `Exporter` (a failure to fetch or write them changes nothing the loop goes by; their batches
are in `Writer`), logging, the search for default paths and other settings that do not
decide how far a start gets, a migrations directory that is missing or hidden by a mount,
`GetStats`, `GetLastTimestamp` and `GetTLSConfig` (no caller in the program), the contents of values other
than whether they are totals, row ids, the down migrations (no caller), retention and compression (done by
TimescaleDB), the test helpers. Clock jumps and time zones are not modelled: the image runs in UTC.
A migration that fails for a reason of its own on a wide table (TimescaleDB refuses some
changes of compressed data) is covered as a fault.

The plan that is left:

1. `NoGaps` for a cloud that leaves days out: that a day without a row before a watermark is always one that
   an answer has left out.
2. Lemmas about `Measurements`: the batches the exporter makes of answers without blank keys are
   `WellFormed`, so that `ParentsExist` applies to them.
3. The two hazards of PROJECT.json that no property covers: the sequence of the new table (ids are not read),
   and poll intervals that are not positive.
