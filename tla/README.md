# TLA+ verification of the SES telemetry system

The repository collects telemetry of solar and battery plants, stores it in a
TimescaleDB, computes economics and plans from it, and runs an *edge* device per
plant that for now decides in shadow what it would command. This directory
holds TLA+ models of the parts of it that keep state and race, fail or restart,
TLC runs on small instances of them, and TLAPS proofs for every instance.

| module | what it is |
| --- | --- |
| `EdgeUplink`, `EdgeUplinkProofs` | black box, uplink goroutine, maintenance, cloud ingest |
| `EdgeDelivery` | what they promise together (abstract specification) |
| `EdgeControl`, `EdgeControlProofs` | manifest fetcher and cache, override, ticks, event journal |
| `EdgeTick`, `EdgeDecide`, `EdgeDecisionProofs` | one tick: merge of readings, quality, parameters, command, clamps |
| `EdgeHealth` | the health snapshot of the edge, against what the engine decided. Proved in `EdgeDecisionProofs` |
| `EdgePoller`, `EdgeInverters`, `EdgePolls` | polling one SmartLogger; the sweep of its inverters; both. Proved in `EdgeControlProofs` |
| `DispatchPublish`, `DispatchPublishProofs` | confirming plan versions and publishing manifests |
| `DispatchDesk` | the desk's linear programme, its replay, limits and confirmations over the hours |
| `ManifestWindow` | how long a published manifest lasts on the edge. Proved in `EdgeDecisionProofs` |
| `AlertWatchdog`, `CounterAlerts`, `AlertWatchdogProofs` | connectivity alerts: passes, mails, state rows; mails about counter episodes |
| `CounterStitch` | falls, returns and jumps of an energy counter, pass after pass. Proved in `ServicePartsProofs` |
| `UserSessions`, `ServicePartsProofs` | sessions, their cache, account changes |
| `Assistant` | the chat assistant: its settings and their cache, turns, limit and log. Proved in `ServicePartsProofs` |
| `EconomicsDays` | which days are computed when, and when they are final. Proved in `DataPartsProofs` |
| `DayLedger`, `DayPlans` | the economics of one day; the plan of today. `DayPlans` is proved in part in `DataPartsProofs` |
| `PeriodTotals`, `OptimumDay` | months and periods; the best the battery could have earned. `OptimumDay` is proved in `ComputationProofs` |
| `EnergyFlows` | where the energy of an interval came from and went to. Proved in `ComputationProofs` |
| `FxRates`, `ComputationProofs` | exchange rates of days |
| `PvPlan`, `DataPartsProofs` | the station's passport and its forecast plans |
| `Collector`, `PlantInventory` | one device's polling session; the plant passport. Proved in `ComputationProofs` |
| `DamPrices`, `WeatherRows`, `Feeds` | day-ahead prices and weather forecasts; both. Proved in `DataPartsProofs` |
| `SheetStrings` | the string table of a legacy workbook |
| `ArchiveImport` | uploads of metered sheets, pulls of the vendor's history, live rows. Proved in `ComputationProofs` |
| `Optional` | the missing value |
| `MC*` | constants and symmetry for TLC; `MCEdgeBox`, `MCServiceParts` and `MCDataParts` are suites |

`tlc -config EdgeUplink_safety.cfg EdgeUplink`, or the MC module where there is
one, runs a check; `tlapm EdgeUplinkProofs.tla` checks proofs. `PROJECT.json`
lists the runs, maps every definition to the lines it models, gives for every
property a plausible bug of the code that violates it (the definitions commented
*Mutant of ...*, or standing before the one they mutate), and lists the hazards
the properties are for.

## 1. Inventory

What each part keeps, what it does, what makes it hard and what makes it right.

**Edge device** (`cmd/edge`, `internal/edge`), one process per plant.

- *Black box* (`blackbox.go`). A SQLite file of three tables, events, decisions
  and ticks, with an `uploaded` flag per row; one connection, so statements are
  atomic and goroutines interleave between them. Insert, oldest pending rows,
  flag by id, retention by age, and a disk guard that deletes uploaded rows
  first. Right: nothing young is deleted that the cloud lacks.
- *Uplink* (`service.go: runUplink`, `uplink.go`). Sends up to a batch of rows,
  events before decisions before ticks, waits for an answer, flags, and climbs a
  retry ladder on failure. Hard: lost answers, late or repeated requests,
  maintenance between read and flag, a crash between two flags. Right: delivered
  at least once, in order, and in the end.
- *Manifest fetcher* (`service.go: runManifestFetcher`, `manifest.go`). Polls
  the cloud, checks the MVP gate, writes the cache file, stores the pointer. Hard:
  the file may fail, the process may stop in between, and ids are content
  hashes, so an id can come back. Right: never back to an older plan, never one
  that the gate refuses.
- *Console* (`localui.go`). Stores the override pointer and hands over an event.
  Shares the pointer with the core loop without a lock.
- *Core loop* (`service.go: Run, onTick`). Serves the tick, the sample results
  and the events channel; chooses override, manifest, fallback preset or
  configuration; journals transitions, at most one of a kind per five minutes.
- *Tick builder, shadow decision* (`tick.go`, `shadow.go`). Age and quality of
  readings, parameters from override, manifest, preset and configuration, a
  command, and the chain of clamps. Right: all limits hold together, whichever
  clamp came last, and nothing is commanded on dead data.
- *Health snapshot* (`health.go`). A table of checks over the last tick and decision,
  manifest and poll times, put together by the console and the heartbeat without a
  lock. Right: it is red whenever the engine blocks the battery, and quiet when the
  plant is sound.
- *Pollers* (`poller.go`, `inverters.go`). A goroutine per device:
  failure counters, soft groups of registers, held values, offline and online
  events; a sweep of the inverters behind a logger with one deadline. Right: an
  outage is one event and one recovery, a held value is the newest, a dead unit
  takes no other down.

**Cloud API** (`cmd/api`, `internal/api`, `internal/storage`).

- *Edge ingest*: a batch is one transaction, keyed by `batch_id`.
- *Dispatch desk* (`dispatch_handlers.go`): operators confirm a new plan version
  against the version they loaded. *Publishing* (`dispatch_publish.go`) turns
  the newest version into a manifest and a run; the planner loop
  (`edge_planner.go`) does so every 15 minutes, and a confirmation and a button
  too. Hard: no lock and no transaction around the reads and writes of a
  publication. Right: no confirmation undone unseen, the newest plan published
  in the end, and a manifest always renewed before it runs out.
- *The desk's programme* (`internal/dispatch`): loads, commands and limits become
  a linear programme solved in stages (import limit, commands in order, money),
  replayed hour by hour to tell what it misses. Confirmed once, solved again every
  hour. Right: what was attainable at the confirmation stays attainable.
- *Sessions and users* (`auth*.go`): session rows, a cache in front of them, roles,
  a last-administrator check. Right: the cache follows the accounts.
- *Imports* (`askoe`, `fusionsolar`, their handlers): day by day, or window by
  window, look, delete, insert, without a transaction around the three and next to
  live collection. Right: one source per slot, and counters whose differences are
  the energy that flowed.
- *Chat, queries, reports*: request-scoped or read-only.

**Alert watchdog** (`cmd/alert-watchdog`, `internal/alerts`). Every interval: the
age of each device's newest sample, a verdict against `device_alert_state`, one
mail per recipient list, one transaction. Hard: mails fail or arrive although
they fail, the pass stops anywhere, settings change. Right: no outage unreported,
no mail repeated without cause. It also mails counter episodes, spaced per counter.

**Collectors** (`cmd/collector`, `dam-collector`, `weather-collector`, `fxrates`).
Sessions with devices and timers around a fetch and an idempotent upsert. Hard:
late answers, partial sheets, roll-over of days, restarts. Right: a sample is the
reading of its own register, a day's rows are whole in time, and what has elapsed
keeps the forecast made before it.

**Batch jobs** (`counterstitch`, `economics`, `energyflow`, `pvplan`). They compute
the same days again and again from telemetry that is late or corrected, next to
requests that do so too. Right: a repair ends where one pass over everything would
have, days settle, totals are the sums of their parts, plans follow the passport.

**Interactions.** Edge to cloud: batches, heartbeats, manifest polls over HTTP.
Within the edge: atomic pointers, the events channel, SQLite. Cloud: PostgreSQL
at read committed, and nothing else, between requests, planner and daemons.

Components, with their files and whether they are modelled, are in
`PROJECT.json`; so are the hazards, each at its line.

## 2. What is modelled

### EdgeUplink and EdgeDelivery

The state is the box (`box`, `marked`, `nextId`), the uplink goroutine (`pc`,
`batch`, `attempts`, retry ladder), the maintenance goroutine, the events
channel, the network (`net`, `answer`) and the cloud (`ledger`, `stored`). Each
SQL statement of the edge, and each cloud transaction, is one action. `ReadEvents`,
`ReadDecisions`, `ReadTicks`, `SendBatch`, `ReceiveAck` and the three marks are
`sendOneBatch` line by line; `AttemptFails` is its error return; `CallFails` lets
any call fail, `RequestLost`, `AnswerLost` and a copy kept by `CloudReceives` are
the network; a request the edge has given up on may still arrive much later.
`Restart` keeps the file and nothing else. Row contents are left out; a row is
its table, id and time. Time is ordinal: a row's `ts` is its position in the
order of writing, and the retention horizon moves at any pace.

`EdgeDelivery` has four variables and says: an accepted row is held until it is
delivered or expired. `Promise` maps it: accepted is `written`, held is `box`,
delivered is what the cloud's transactions have stored.

### EdgeControl

Actions of the fetcher are separated where the code reads or writes shared state
(ask, answer, save file, store pointer), so that a restart, a tick or a console
request falls between any two. A tick is three steps: it loads the manifest and
journals (`TickManifest`), loads the override (`TickOverride`), and clears one
that has run out (`TickClear`). `eventLastWritten` is the five-minute rule.
`pub` numbers publications, since ids repeat. History variables: `followed` (the
newest publication a tick acted on), `unsaved` (those the file could not take),
`ordered` (what the operator asked for), `reached`.

One timing assumption is built in: `FetchStart` waits until a tick has seen the
stored manifest, since polls are a minute apart and ticks a second.

### DispatchPublish and ManifestWindow

`DispatchPublish` gives every query of `dispatchConfirm` and `publishDispatch` a
step, for any number of operators and the planner loop. What the LP reads (hour,
prices, forecast, state of charge, limits) is one value, `inputs`; a manifest id
is the pair of model and inputs it was computed from. `noted` is the version the
newest manifest was built from, which the code writes into the manifest's note.

`ManifestWindow` takes the times out of the same code. Neither the cloud nor the
edge replaces a manifest by one with the same id, `valid_until` is not part of
the id, and only its UTC date is: so an unchanged plan keeps the `valid_until` of
its first publication until the date rolls over. The module has minutes, the
hour-aligned start, the horizon and the grace hour, and asks whether the edge
ever holds a manifest that has run out. A plan without load has no intervals
and is the same every hour, which is the dangerous case.

### AlertWatchdog

A pass is a freshness query per device, `Evaluate`, a mail per list, and the
saving transaction; samples, settings and time move between them. Times are ages
with caps, so the model is finite while time goes on for ever. A failing mail may
have arrived: `smtp.go` counts an error of QUIT as one of the mail.

### The edge's decision and its pollers

`EdgeDecide` is one tick: the newest readings of two loggers are merged
(`BuildTick`, with age and quality), parameters are resolved from override,
manifest, fallback preset and configuration, the preset or the plan names a
command, and `clampSteps` cut it one after the other. Powers are integers of 50 W.
Readings arrive, fail and age; the manifest expires, its plan moves on, an operator
overrides it. `CommandJustified` asks of the result that all limits hold together,
that the battery trades only under a plan, and that nothing is commanded while a
device is silent. `EdgePoller` has an action for each outcome of a dial, a poll
and a soft group; `PollerTruthful` says that outages are journalled once and that
held values and refused keys follow from the newest attempt alone.
`EdgeInverters` reads unit after unit under one deadline. `EdgePolls` puts the two side
by side (`OutagesTold`).

### The health snapshot

`EdgeHealth` takes `EdgeDecide` as an instance (`D`) and keeps what the core loop and
the pollers store: readings, the tick, then the decision, and a manifest and an
override that change between any two stores. `Checks` is the table of `buildHealth`
over the state of the moment, by severities. The engine and the snapshot derive the
same troubles from different fields: `RedWhenBlocked` says that a decision which
blocked the battery for dead data, an alarm word or a shutdown finds its check on
alarm; `QuietWhenSound` that a plant which works, by night and with its modules idle
too, reddens nothing but a cut plan, an import over the limit, the charge and idle
modules. `Sound` lists what a healthy plant may answer, and `SoundAssumption` says what
makes an answer healthy.

### DispatchDesk

What `DispatchPublish` treats as a value: the programme. Power is in whole units for
whole hours and the round trip efficiency is one; the constraints then form a
network flow and each stage of `Optimize` has an optimum in whole units, which the
model finds by enumerating `FeasiblePlans` and minimising stage by stage
(`PreserveMinimum`: overflow of the import limit, the goals in the order of their
hours, the money with the energy left at its shadow price). `Reasons` is the replay
that tells what a plan misses, `DayEffect` the saving shown, `Sanitized` and
`Shifted` what happens to a stored model when it is planned hours later. `DeskAnswers`:
goals that the confirmation found attainable stay attainable, a later command does
not trade away an earlier goal, a missed goal is reported, the effect is the saving,
and there is always a plan.

### Sessions, counters, mails, days

`UserSessions`: a lookup reads row, account and grants, then caches; sign-in, sign-out
and administration run between its queries. A version of the account stands for
what the principal was built from. The property is the cache's: an outdated entry
is served for the cache's life at most, and a lookup does not put back what a change
has cleared.

`Assistant` is the chat without its texts: a request takes the settings from the
cache or reads them, a user's turn is counted, runs its rounds with the model and is
logged, each a step of its own, while settings are saved and forgotten, clients hang
up, the date changes or the process stops. `AssistantKeepsBooks`: the cache is the
saved row but between a save and its forgetting; a turn runs only while the day's
rows leave room for it; and every turn that asked the model is logged, under way, or
lost to a failed insert or a crash. Where the database's answer to a save is lost,
the cache may lag until it expires or the next save (`unseen`).

`CounterStitch` has the stitcher (`onFall`, `onReturn`, `onJump`, spikes, ramps) as
operators on a state record and the runner's pass as actions: read the request and
the state, read samples, save, clear. Energy is scaled by `Scale` so that partial
returns divide. Samples come in an order of ticks; an import writes into the past
and asks for a rebuild. `OffsetsRepair`: however history was cut into passes, the
offsets are those of one pass over it, and the corrected counter does not fall.
`SpansCoverChanges`: what an ordinary pass changes, it announces.

`CounterAlerts` reads episodes once, decides one by one, mails list by list, marks.
`EconomicsDays` has four goroutines computing the same days (refresh, nightly run,
healer, requests); a day's data is a level (some, all, all corrected). `PastDaysSettle`:
days that leave the nightly window are whole, and final answers are priced.

### Money, plans and flows

`DayLedger` takes a day through the passes of `AssembleDay` (flows, reconciliation,
prices, residual, ledger, daily load, totals), in sixtieths of a kWh so that the
code's ratios divide. `PeriodTotals` folds stored days into months and months into
periods. `BooksAddUp` joins the two: splits add up to registers, no hour has more
solar charge than sun, stored energy costs no more than its dearest hour, and a
period is the sum of its days. `OptimumDay` is the dynamic programme of the best day,
hour by hour over levels of charge for three freedoms of charging, compared with every
trajectory. `DayPlans` interleaves the reads of a forecast with the recompute that
rewrites the same rows, and contains the recommended load. `PvPlan` has one run at
a time, the claim and the rerun flag, two plans per day and the passport.
`EnergyFlows` allocates intervals between samples of two loggers that answer apart.
`FxRates` is the sync and the views.

### What comes in

`Collector` is one Modbus session: a request that timed out may be answered late, on
the session that carries the next one; a register answers with its own address and
time. `PlantInventory` merges partial passports and derives histories. `DamPrices` has
the daily run, its retries, the backfill and refreshes by hand while the market
publishes late or in part. `WeatherRows` tells a forecast by the hour it was made;
`Feeds` puts the two side by side.
`SheetStrings` writes a string table with cuts where a workbook's writer may place
them and reads it with `fragReader` (the same code is in `oree/parser.go` and
`askoe/biff.go`). `ArchiveImport` puts the two importers and live collection on one
row of slots; each query is an action.

### The suites

`MCEdgeBox`, `MCServiceParts` and `MCDataParts` extend modules that share no state.
`part` or `moving` names the part of a behaviour that moves; the others keep their initial state.
Every reachable state of every part is visited, none of their products, and each
invariant is checked in all of them.

## 3. Runs

| run | instance and bounds | properties |
| --- | --- | --- |
| `uplink` | two rows in any tables, batches of two, one maintenance pass, one fault (2.4M states) | type and queue bounds; each batch id applied once; oldest first; flagged means delivered; nothing young lost; implements `EdgeDelivery` |
| `uplink_live` | one row of any table and the events the uplink raises itself, through a channel of one that fills up (two of them become rows); two faults of any kind | every row reaches the cloud |
| `uplink_resend` | one row, one fault | **violated**: each row stored once |
| `control` | two plans, symmetric, and one the gate refuses, three publications, one restart, file writes may fail, five minutes (3.7M); *health*: 2 devices, 6 scenes, 1 manifest, 1 planned power, ages to faulty (0.2M); *poller*: 3 soft groups, threshold 3; *inverters*: 3 units, 2 timeouts (0.4M) | never an older plan; gated plans never touched; expiry announced; the snapshot is red when the battery is blocked, quiet when the plant is sound (`HealthTellsTruth`); `OutagesTold` |
| `control_live` | two plans and one the gate refuses, three publications, one order of the console, one restart, a channel of one event (0.65M) | newest plan followed; overrides end |
| `publish` | two operators and the loop, two versions, one change of inputs, one fault (1.6M) | versions form a chain; runs tell published manifests; confirmed for ever; newest published in the end |
| `publish_stale` | one confirmation against the loop | **violated**: never an older version |
| `alerts` | two devices on two lists, unlimited failures (0.65M) | recorded as notified was, failed mails retried, announced once (`RecordsMatchMails`); a lasting outage reported |
| `service_parts` | *window*: 1515 minutes from 23:05 UTC in steps of 15; *decide*: 2 devices, 12 answers, 3 manifests, 3 plan powers; *sessions*: 2 users, 1 token, 1 administrator; *assistant*: 2 requests of a user, 2 turns, 2 dates, 1 save, 1 crash; *stitch*: 4 ticks, 2 imports, 1 failure; *counterAlerts*: 1 counter, 2 episodes, 5 ticks, 1 fault; *days*: days 0 to 3, window of 2, 2 computations at once | one or two properties per part, section 2 |
| `data_parts` | *collector*: 2 groups of optional registers, 1 fault; *inventory*: 2 loggers, 3 snapshots; *flows*: 5 polls over 2 days, 1 mishap; *rates*: 10 ticks; *prices*: 5 ticks of days of 3, 1 fault; *sheets*: two strings, every cut; *weather*: 8 hours of days of 3, 1 fault; *archive*: 2 days of 4 slots, 1 fault; *ledger*: 2 hours; *period*: 2 months of 2 days; *optimum*: 3 hours, 3 levels; *today*: 3 hours; *solar*: 2 passports, 1 rebuild, 1 fault; *desk*: 3 hours ahead over 2 hours, 3 battery levels, 2 envelopes (1.2M) | the same |
| `pv_lost_rerun` | the solar part | **violated**: a saved passport is planned |
| `table_continued` | the sheets part | **violated**: a table continued between strings is read as written |

Some invariants are conjunctions of named parts, because they answer one question:
`CommandJustified`, `HealthTellsTruth`, `OutagesTold` (`PollerTruthful` and `BadUnitsAlone`), `PlantRecorded`
(`SampleIsItsReading` and `HistoryEndsAtPassport`), `AssistantKeepsBooks`, `OffsetsRepair`, `BooksAddUp`,
`FeedsOnTime`, `DeskAnswers`, `ArchivesHold`. The parts can be given to TLC alone.

**Why the bounds are enough for the cases.** Two rows are the fewest of which one
can overtake the other, and a batch of two the smallest that mixes tables or is
cut by the limit; the proofs cover the rest. Every single fault can fall between
any two statements. In `uplink` the uplink raises no event (three failures in a row
do not fit in one fault); in `uplink_live` each failure after a success and each
backlog raises one, so that the uplink waits on a full channel while its own event
is still undelivered. Events beyond `MaxEvents` count as repeats, which the
five-minute rule drops. Three publications let a plan be replaced and return. Two
operators are the fewest that collide, and with two versions one of them
acts on an old page. `MaxPass = 0` in `alerts` means that a pass takes no time;
samples and settings still change inside it. A day and an hour and a quarter contain
every offset of hour, date and loop at the repository's interval of 15 minutes; the
theorem covers other intervals, and with `Steps` of a minute the run has been made
too (3.9M states). Four ticks of a counter hold a fall, a partial return, a second
fall or a jump, and an import between any of them; the chosen deltas are a fall, a
standstill and a step that needs a second reading. Two hours of a ledger let one be
priced and the other not, with registers that lag from one into the other. The desk's
three hours hold two commands that compete for the same energy and a third hour that
comes into view later. Slots of the archive are two to an hour and four to a day: an
hour's energy is spread, and a closing row replaces a step.

CHECK_DEADLOCK is off in the two suites, where clocks stop at their bounds, and on
elsewhere.

**Fairness.** Only what a running process does by itself is fair: goroutines whose
select serves a ready channel, tickers, the daemon's next pass, the clock, and in
`uplink_live` the arrival of a request that is neither lost nor abandoned. In
`EdgeControl` strong fairness of `FetchAnswer` says that of the polls that go on
for ever some are answered; those of `TickManifest` and `ConsumeEvent` that Go's
select, which picks at random among ready cases, serves neither only events nor only
ticks; and that of `Reject` that a goroutine blocked on a full channel is served in its
turn. The fetcher hands over `MANIFEST_REJECTED` before it polls again, so without the
last two a device could wait with a refused plan while newer ones are published.
Operators, writers, faults, retention and maintenance have none. `alerts` makes
no promise while the relay or database is down: its property speaks of a device
that stays silent, mailable and without faults from some point on.

## 4. Where code and documentation disagree

Four runs are counterexamples; the findings in `PROJECT.json` quote the lines.

- *StoredOnce*: each attempt draws a new batch id, so the ledger that is
  meant to recognise a repeated delivery never sees one, and rows whose answer
  was lost are stored twice.
- *NeverOlderVersion*: a publication that read the version before a confirmation
  may overwrite the manifest of that confirmation, until the loop comes round.
- *PassportPlanned*: a passport saved between a run's last look for a rerun and the
  release of its claim is noted as a rerun nobody reads, and dropped.
- *ContinuedTablesRead*: `advanceIfEmpty` marks an edge whenever a record's end is
  crossed, also in front of a string; the first byte of its characters is then taken
  for a repeated encoding flag.

Others were met and have no run of their own. Each can be reproduced by giving the
named definition to TLC; the first line says where the code says otherwise.

- `OverrideHolds` of `EdgeControl` (`Modes = {"fallback_safe"}`): the tick stores nil
  over whatever the override pointer holds by then; an override set meanwhile is
  dropped. With a restart it is lost anyway, being kept in memory only.
- `AppliedIsConfirmed` of `EdgeControl`: the console looks for the earliest
  confirmation of an id; a plan that returns is shown as applied at once.
- `FallbackOnlyAfterExpiry` of `EdgeControl`, with `Lead = 1`: a fresh manifest
  is not yet active by the edge's clock, and the device falls back meanwhile.
- `PlanComparedWhileActive` of `EdgeHealth`: the comparison of plan and command is
  "only meaningful while a plan interval is active" (`health.go:210`), but under the
  monitor override no decision is stored, and the last one keeps its plan after the
  interval has ended; a cut plan stays a warning until the override ends.
- `BlockedAsTold` of `EdgeHealth`: a battery whose logger has not been heard for a
  while shows "dispatch blocked" (`health.go:276`), while a tick that is only stale
  still commands power.
- `ExpiryAnnouncedAnew` of `EdgeControl`: "within 5 minutes the repeats are dropped"
  (`service.go:300-301`), and so is the expiry of a second plan that runs out within
  five minutes of the first: it is another plan's, and is not journalled at all.
- `OverrideKeepsLimits` of `EdgeDecide`: under an override the synthetic manifest has
  none of the manifest's own limits, where `shadow.go:134-137` and
  `service.go:277-280` say limits stay (the configuration's do).
- `NeverReannounced` of `AlertWatchdog`: a pass that stops between mail and
  transaction mails again. With `NotifyRecovery = TRUE`, `AnnouncedReached` and
  `FailedMailRetried` fail as well: the time of a recovery mail is restored into the
  next outage, and a failed recovery mail is not tried again.
- `QuietFollowsMail` of `CounterAlerts`: an opening that was silenced is marked in the
  column the quiet period is measured from, so it prolongs the silence.
- `OnHasKey` of `Assistant` (two savers): a save checks that the assistant has a key and
  stores it in two statements, so one save can switch on what another leaves without.
- `AdministratorRemains` of `UserSessions`: the last-administrator check and the
  update are two statements; two administrators can remove each other.
- `RebuildChangesFromItsBound` of `CounterStitch`: an import can change intervals before
  its own first row (`storage/counters.go:519-520` against `runner.go:111`).
- `SeamsBooked` of `EnergyFlows`: the interval over midnight is in no day's flows
  (`energyflow_hourly.go:28` against `queries.go:1365`).
- `LookbackSeedsLedger` of `DayLedger`: hours of the lookback have no KPI allocation
  and `buildHistoryRecords` gives them no grid share (`service.go:144-148`).
- `FinalIsNoonRate` of `FxRates`: a day asked for just before noon and answered after
  it counts as final (`storage/fxrates.go:36-37`).
- `ClosedHoursAreWhole` of `DayPlans`: an hour counts as measured by the time of the
  summary, though its row may have been read before (`dayplan.go:513-515`).
- `ConfirmedCapHolds` of `DispatchDesk`: `sanitizeConstraints` reads a confirmed import
  limit of 0 as none (`dispatch_model.go:90`) and publishes with the site's limit, though
  `ValidateConstraints` accepts 0 and the comment speaks of fitting into the envelope.

Smaller observations from reading: a day of exchange rates that keeps failing blocks
the days after it (`sync.go:47-48`); with `finalize_days = 1`, which the configuration accepts
(`config.go:516`; the default is 3), a computation begun before midnight can store a
part of the day after the only nightly run that would have mended it (TLC shows
`PastDaysSettle` violated); where the cloud's clock leads, a plan's expiry is flagged before
its `valid_from`, the flag is not taken back when the plan becomes active, and its real
expiry is then not announced (`ExpiryAnnounced` with `Lead = 1`); a sheet of prices with some rows counts as a success and is
completed only by the next day's backfill, a catch-up that is still running at the
run time skips that day's run, and days of 23 hours are fetched again by every
backfill; `CURRENT_DATE` is the database's, so yesterday's local row of weather is
still replaced in the first local hours; an upload that starts in the middle of what
was uploaded before begins again at zero, so its first midnight is not continuous;
where a discount makes selling dearer than buying, which `validateOrgTariffs` lets through, the
ladder's "full" freedom, which takes PV before the grid, earns less than the one without PV,
against `monthly.go:732-734` ("the values are monotonic"; TLC shows `LadderDescends` violated
without `ImportDearer`); two imports at once can write the same day, and live rows that arrive between look and
insert share slots with it; a stop between deletion and insert leaves a window empty
until the next import.

## 5. What is proved

For all values of the constants, from the assumption named in each module.

**EdgeUplink** (`UplinkAssumption`: sizes are positive). `UplinkTypeOK` is
inductive by itself and carries the bound of the events channel.
`UplinkMarkedDelivered`, `UplinkNoUndeliveredLoss`, `UplinkBatchAppliedOnce` and
`UplinkOldestFirst` follow from one invariant, `IInv`, their conjunction with
`Strengthening`. What has to be added is what the code relies on silently: ids
and times of rows come from counters that have moved on (`RowsUnique`), so a flag
by id hits the row that was sent; a batch id names one set of rows for ever
(`IdsNameRequests`), so the ledger may skip a payload by id; an answer is believed
only while the cloud has the rows (`AnswerMeansStored`); every request, also one
long abandoned, carries a prefix of what the cloud lacks (`InOrder`); and the
cutoff of a pass is never ahead of the horizon. `UplinkImplementsDelivery` is
the refinement of `EdgeDelivery`: `IInv` makes each deletion a `Forget`.

**EdgeControl** (`ControlAssumption`). `ControlTypeOK` needs the room of the events
channel and what the fetcher has in hand at each of its steps. `ControlGatedNeverFollowed`
needs that what waits to be stored has passed the gate. `ControlNoOlderPlan` orders the
copies of a manifest (cloud, fetcher, file, pointer) at each moment between the fetcher's
writes, `PlanInv`; the file is what a restart brings back, so it must be as new
as what ticks have seen or that publication is one it could not take.
`ControlExpiryAnnounced` holds where the cloud's clock does not lead (`Lead = 0`, see
section 4): every copy of a manifest has begun (`BegunInv`), so it is inactive only once it
is over; the flag then stands for an announcement of the manifest in force (`FlagInv`),
what a tick has loaded is announced if it has run out (`LoadedInv`), and so is what the
last decision fell back from (`FellBackInv`).

**The pollers** (`PollerAssumption`: the chunks of a device's soft groups are disjoint).
`PollerTellsTruth`: the failure counter tells how far an outage is along, so its event is
written on one failure only (`CountInv`), and held values and refused keys follow from the
newest answer (`AnswersInv`). `InvertersBlameAlone`: a
sweep blames a unit for the link only after the link was seen down, be it by a session
that broke before the sweep (`SweepInv`). `PollsTellOutages` joins the two.

**The edge's decision** (`DecideAssumption`: limits and readings are integers or missing).
`EdgeCommandJustified` is proved from the types of tick and parameters: whichever
command is named, each clamp only cuts towards zero and none turns the power around, so a
limit applied once is kept by every later clamp; rounding adds one unit.

**EdgeHealth** (`HealthAssumption`: readings are typed; `SoundAssumption`: what a healthy plant
answers). `HealthToldTruly`: `HealthInv` says that the stored tick is one the engine
computes from the values stored with it (`TickOfValues`), and that a decision marked as paired
was taken on that tick (`DecidedOnTick`), whatever was polled, fetched or switched between
the two stores; then each reason that blocks the battery is the alarm of its own check. That
a sound plant is quiet holds in any state: `SoundSays` reduces what the checks read of a
tick to what one healthy answer says.

**DispatchPublish** (`PublishAssumption`). `PublishBuiltOnPredecessor` needs that a
confirmation past the check inserts the version after its page (`Insertable`),
with the primary key deciding between two of them; `PublishRunsPublished` that a
publication about to store its run has been issued (`RunIssued`), although other
publishers have overwritten the newest row since; `PublishConfirmedForEver` is an
action property from the same invariant.

**ManifestWindow** (`WindowAssumption`: loop and poll interval fit together in the
grace hour; the clock moves by any positive `Steps`). `WindowNeverLapses` holds for every time of day: the date in the id
published last begins more than an hour minus the time since the last publication
ahead (`LatestFresh`), the edge is one loop and one poll behind (`EdgeFresh`),
and a `valid_until` lies on an hour of its id's date, whichever publication of
that id it came from (`UntilOnDate`).

**AlertWatchdog** (`WatchdogAssumption`). `AlertTypeCorrect` and `AlertAnnouncedOnce` hold with
and without recovery mails, `AlertRecordsMatchMails` without (`~NotifyRecovery`: with them
it is false, section 4). What has to be added says what a pass has concluded of a device
against the row it started from (`PassInv`), that a mail about an outage is known to its row,
or to the pass that sent it, or excused (`OnceInv`), and that a mail that failed leaves in the
row, and in what will replace it, something that makes the next pass send it again
(`ReachInv`). **CounterAlerts** (`CounterAlertsAssumption`): `CountersMailsSpacedInOrder` needs
that an episode has one row (`EpisodesInv`), that a fault the pass has picked for a mail keeps its
distance from the mails of earlier passes (`PassesInv`), and that what was mailed or kept
quiet is marked unless its mark was lost (`MailsInv`).

**UserSessions** (`SessionsAssumption`). `SessionsCacheFollowsAccounts`: the cache is filled
from a request's locals, so the invariant says of every copy on its way what the property
says of the entry: it is as old as the account's last change at least, and a copy that no
removal has raced is of an account the cache has yet to be cleared of.

**Assistant** (`AssistantAssumption`). `AssistantBooksKept`: what a read of the settings holds
is what is saved now, unless a save has raced it or its forgetting is pending
(`SettingsInv`: `KeyRead`, `AllRead`); a user has one turn at a time (`OneTurnEach`), so no
row is added under a turn that was let in; and the row of a running turn is not there yet
(`RowsInv`), so recording counts it once.

**CounterStitch** (`StitchAssumption`: tolerances and bounds are natural numbers, `Scale` divides by
every ramp's length). `StitchRepairs` and `StitchSpansCover` rest on `StitchInv` (`StitchInvariant`).
Of the stitcher alone: a step is nothing or a switch (`StepOutcome`), and which of the two does not
depend on where a pass begins, because the scan reads one held reading back (`WindowSuffices`); so
a run over a history is a run over its first part, carried on (`PassGoesOn`). The segments
form a chain, each ending where another begins, the open one last, none falling
(`RunChain`), and their offsets make up for every fall but a resync (`WholeFits`).
Of the passes: the table stays a chain that ends in the open segment carried over (`SavedChain`);
what a pass holds was read at its begin (`PassStarts`); and what is stored (`SavedRight`), or about to be
(`PassRight`), is right unless an import has changed the past since (`Unchanged`) or its
request waits, one this pass does not serve (`ServedAll`). A new request is younger than any a pass has
taken, so a pass clears none it did not see. The spans need only the chain: what changes an
interval is a segment that begins at it or a ramp over it (`ChangesSpanned`).

**EconomicsDays** (`EconomicsAssumption`). `EconomicsFinalAnswersPriced` is `PricesInv`: prices
do not go away, and a stored day that lacks them is recomputed by the request.
`EconomicsPastDaysSettle` is for windows of two days or more: a computation begun before
midnight may store a part of the day after that day's nightly run, but not after the next one.
`JobInv` bounds what a goroutine still carries by the day it began on, `NightInv` counts what
tonight's run has been through, `SettledInv` says it of the days out of reach.

**PvPlan** (`PvAssumption`). `PvPlanFollowsPassport`: no stored plan is of newer weather than the
run under way, or the clock (`FreshInv`), so a run may replace what it finds, and one that has
stored its newest plans carries them to control's. `PvPlanFrozenOnceBegun` is an action
property: a run that stores for a day that has begun read the clock before midnight, or finds
none but an archived plan there (`FrozenInv`).

**Feeds** (`DamAssumption`, `WxAssumption`: the backfill reaches one day back at least, a retry
fits in a day). `PricesFetchedInTime`: a fetch in progress is one
of the run time's or a catch-up's (`FetchInv`), a recent day that is owed is stored before the
collector sleeps (`HealedInv`), and a day that was attended to is stored unless its sheet came
late, something failed, or the collector is still at it (`MidnightInv`). The search for this
invariant found the model wrong: a stop while waiting for the next run does not keep the
attendance of the day it stops in. `WeatherFrozen`: a body in flight was asked for in the hour it
carries (`BodyInv`), so what it stores for an hour that has begun is not later than that
hour (`KeptInv`). `FeedsInTime` joins the two.

**DayPlans** (`DayPlanAssumption`). `OpenHoursStayYesterdays`, half of `PlanWithinRecords`: a
request takes for closed only what had ended at its own time, also when the recompute stored a
later time between its two reads (`ClosedHaveEnded`). The recommended load is a fold and stays
with TLC.

**OptimumDay** (`OptimumAssumption`: prices are integers, energies whole levels, and a
discharge draws no less than it gives). `OptimumIsTheBest` is correctness of the
dynamic programme for every number of hours and levels. `TablesInv` is what the tables of
the freedoms hold for the hours done, `BestInv` that a value is earned by the run
of levels its parents lead through and that no run of levels the day allows earns more
there, `LadderInv` compares the tables of two freedoms, and `TraceInv` follows the
parents back, so the schedule drawn earns what the table says. That more freedom never
earns less needs importing to be dearer than selling (section 4).

**FxRates** (`FxAssumption`). `RatesAreOfTheirDays`: `RatesInv` says what is stored of a day,
`PassInv` which days the pass under way has dealt with, so one that goes on has skipped none
(`StatusInv`); the rate of a span is a quotient of running sums, whose bounds are those of
its days because each term's are.

**ArchiveImport** (`ArchiveAssumption`: an hour has two steps at least, and energies divide by
them). `ArchivesAreWhole` rests on five parts. `ApartInv`: from the look to the insert, what
went live in the day or window in hand is overtaken; an insert between the other
importer's clearing and its insert makes the day raced, and any other is cleared. `MeteredInv`: the rows of a metered day are those built of one
uploaded day, whatever has been imported beside it, and `DayAddsUp` is induction over their
steps: equal parts of an hour add up to it (`StepsAddUp`), and a load that is never zero was
never clamped, the step before the closing row included, which is not stored but has the
hour of the last one. `ChainInv`: the seed is where the last day written closed. `PullInv`
and `PureHolds`: the largest reading so far never falls. The search changed the model:
pairs of days joined at midnight are kept as such, since a pull that clears the middle one of
three days leaves the outer two unjoined.

**EnergyFlows** (`FlowsAssumption`). `FlowsAreBooked` is for any polls and upsets. The
samples of a day are ordered by their buckets (`SamplesOrdered`), so each interval begins
where the one before it ended and a sum over intervals telescopes: `ChainSum` and `DayChain`
are that induction, over ticks, used for the solar charge, the charge booked and
the intervals skipped. `RowsInv` says how the registers of stored rows rise; `SpoilInv` keeps
the history of upsets: between two readings of the charge register with as many upsets before
the one as before the other it rises slowly and never falls, and a row without it has cost two.
`StoredInv` is of the days kept: a final day is over, so no later tick changes what a live run
gives for it. That a complete day books every kWh has a hypothesis,
`BucketLen <= EssPower`: the registers of a sample may have been read a bucket apart, so the
energy of an interval may be a bucket's more than its length accounts for, and the power guard
must leave room for it. `DefaultMaxEssPowerKw` is five times what a real battery moves
(`energyflow/types.go:85-94`). The solar and the summary parts hold without it.

**Collector** and **PlantInventory** (`CollectorAssumption`: the catalogue is finite, every
register has a word; `PlantInventoryAssumption`: nameplates and modes are natural numbers).
`SamplesAreTheirReadings` is `ColInv`: a session polls go on with has no late reply on it, since a
timeout redials; so every reply in hand is the answer to its own chunk, measured during the
poll, and a poll has lasted no longer than its chunks' timeouts allow. It rests on what
`PlanChunks` yields for any registers (`PlansTyped`, by induction over the
entries merged). `PlantIsRecorded` adds the passport: `DriftBounded` is induction over the
snapshots, values of which none differs from the one reported before it.

**Only model-checked**: every liveness property (the prover has no fairness or
ENABLED), and the properties of modules no `Proofs` module extends. The library's induction
theorems cannot be instantiated with a predicate;
`ComputationProofs` and `ServicePartsProofs` induct over sets of numbers instead (`Inductive`, from the
well-founded order of the naturals), which reaches recursive functions on `0 .. n`: a run of the stitcher
is one over the ticks, and so is a sum of flows. What folds over sequences and sets
(`DayLedger`, `PeriodTotals`, `SheetStrings`, `DispatchDesk`) stays
with TLC. Joint theorems (`PollsTellOutages`,
`FeedsInTime`, `PlantIsRecorded`) are about components that share no variable.

## 6. What is not modelled

- In modelled parts: token checks, JSON and its errors, heartbeats, the read-only
  pages; several sites (nothing is shared between them but the loop, which takes
  them in turn); recipients within a list; the panic of a ticker with interval 0 when
  the first settings query of the watchdog fails; the order of dispatch runs; frozen
  counters; account creation and permission tables; plausibility ranges of single
  registers; ratings, taxes and schedules of tariffs beyond the all-in prices.
- Arithmetic: powers, energies and prices are integers in units fine enough for the
  divisions of the code; rounding is modelled where a property depends on it.
  `DispatchDesk` has a round trip efficiency of one and hours as whole units.
- `ManifestWindow` has one clock. A manifest whose note or limits change has
  another id and only shortens the time an id lives.
- Time zones: days have equal lengths; the hours of daylight-saving changes are left
  out (`EnergyFlows`, `DamPrices`, `DayLedger`).
- Not at all: the tools and texts of the AI chat, register decoding, the forecast formulas of
  the solar plan, SMTP dialogue, the SQL of reports, schema and compression policies,
  configuration parsing, the replay tool, the web pages.

## 7. Plan

1. Theorems about the modules that fold, with `Inductive` (`PeriodTotals` and the base and
   headroom of `RecommendLoad` first).
2. A composition of `DispatchPublish`, `ManifestWindow` and `EdgeControl` behind an
   abstract specification *the edge follows one published plan at a time*.
3. The order of dispatch runs (`plansInForce`).

No module has a RECURSIVE operator.
