# 4DA in TLA+

TLA+ specifications of 4DA (the desktop app's Rust core, its dependency engine
and its team-sync relay), the TLC runs that model-check them on small
instances, and theorems that TLAPS proves for every instance. Paths below are
relative to the repository (`src-tauri/...`, `crates/...`, `relay/...`).

Run a model with `tlc -config <run>.cfg <MC module>.tla`, check the proofs of a
module with `tlapm <module>.tla`.

## 1. Inventory

What the system is made of, what each part keeps and does, where its behaviour
is hard, and what makes it correct. Status: **M** modelled, P partly, – not yet.

| Component | State | Operations | Hard behaviour | Correct when | |
|---|---|---|---|---|---|
| Preemption feed cache (`preemption_feed_cache.rs`) | one slot, generation, in-flight and again flags, pass start, Notify | read, seed from snapshot, refresh run, warm, engine-cycle hook | every access is separate; runs panic; warms join runs; entitlement flips mid-call | one refresh at a time, answers in the caller's tier, current means current data, warms neither hang nor return early | **M** |
| Dependency engine, windows and targets (`fourda-depengine`: `range`, `fix_target`, `registry`) | pure | `check_version_affected`, `walk_target_kinds`, `installable_fix` | withdrawn and unlisted releases, several advisories whose windows overlap, undecided bounds | a target is clean, installable, lowest, and brings nothing in | P |
| Licence clock floor (`settings/license/clock.rs`) | highest trusted time, its MAC, the settings file | observe, rebase, effective now | clock turned back, file lost, concurrent writers | effective time never runs back | – |
| Relay server (`relay/src`) | teams, clients, invites, entries in SQLite | create/join/leave team, roles, push, pull, cleanup | handlers check, then write, in separate statements | a team always has an admin, an invite admits one client, a log has no gaps | – |
| Team sync client (`team_sync*.rs`) | outbound queue, inbound store, cursor, applied state | queue, push, ack, pull, apply | lost answers, crash between store and apply, reordered operations | members converge, nothing acked is lost | – |
| Restart snapshots (`restart_snapshot.rs`) | one JSON file per result, latch per process | save (temp + rename), restore once | two writers share a staging name | a restored value was written whole | P |
| Database integrity gate (`db/integrity_gate.rs`, recovery in `db/migrations.rs`, `get_database` in `state.rs`) | the file, its newest backup, the marker of the last check, a session file per opener | preflight, scan, quarantine, restore, announce, open, last resort, clean exit | two processes without a lock, kills at any step, PIDs reused, clocks set back | no unclean exit goes unchecked, corruption is found, nothing sound is moved away | P |
| Analysis run (`analysis_status.rs`, `analysis_fast_path.rs`, scheduled path of `app_setup.rs`) | running, completed, error, feed and judged flag; abort flag; in-flight gate | start, cancel, watchdog, score, publish, scheduled cycle, source refresh, turn a source off | runs given up by the watchdog go on, cycles overlap runs and each other, panics | the status tells what the tasks do, the feed and its flag belong together, the gate is always released | P |
| Scheduler (`monitoring*.rs`, `scheduler_gate.rs`, `contention.rs`) | last-run times, policy | tick, run job | overlap, sleep and wake, contention | due jobs run, none twice at once | – |
| Judge gate, verdicts and drain (`db/verdicts*.rs`, `analysis_verdicts.rs`, `judge_gate.rs`, `llm_judgments.rs`, `llm_judge_drain.rs`) | per row: verdict, reason, source, version, pending marker, judgment cards; daily counters | persist, sweep (a dozen statements), ingest judge, drain, re-score, switch a source or the judge | lanes read, await, then write; restarts, a new version, failed calls, two copies of a story | no flip on one opinion, verdict, reason and marker agree, nothing waits for ever | P |
| Notification queue (`presence/queue.rs`) | held briefing and toasts, first-held time | hold, flush, coalesce | the user returns while something is being held | nothing shown twice, nothing dropped early | – |
| OSV mirror (`osv/*`) | advisories, sync times, readiness | sync, refresh, readiness check | partial sync, concurrent refresh | "clear" only from a fresh mirror | – |
| Source fetching (`source_fetching/*`, `sources/rate_limiter.rs`) | per-source health, tokens | fetch, process, back off | timeouts, many sources at once | limits hold, a failing source recovers | – |
| Settings and keystore (`settings/*`) | settings.json, keychain entries | load, save, migrate secrets | failure half way | no secret lost or left in the file | – |
| Webhooks (`webhooks/*`) | subscriptions, failure counts | dispatch, deliver, retry | retries, disable | delivered or counted as failed | – |
| Other caches (Knowledge Gaps, Blind Spots, search warm) | as the feed cache | as the feed cache | as the feed cache | as the feed cache | – |
| LLM clients, embeddings, model store | files, HTTP | download, swap, re-embed | interrupted download, two models | vectors of one space only | – |
| Frontend stores (`src/store`) | slices | commands, events | late answers | the view shows the latest request | – |
| Lockfile readers, source adapters, scoring, briefing text, evidence queries | none or rows | parsing, ranking, wording | – | data, no protocol | not modelled |
| MCP memory server, app shell, build tooling, site | – | – | – | – | not modelled |

How they interact. The engine cycle (`analysis_cycle.rs`) ends by calling the
cache hooks (`refresh_preemption_cache_after_cycle`); the OSV sync and the
startup chain call the warms. A tab open is an IPC command on the blocking pool
that reads the entitlement (`settings::is_signal`) and then the cache. Caches
persist through `restart_snapshot`. A refresh asks the OSV matcher, which asks
`fourda-depengine` which copies are affected and what fixes them. Team sync
talks to the relay over HTTP from a scheduler of its own. Everything shares one
SQLite database, whose integrity gate runs before it opens.

## 2. Modules

| Module | Models | Form |
|---|---|---|
| `FeedCache` | `preemption_feed_cache.rs`, and the part of `restart_snapshot.rs` it uses | state machine, a program counter per thread |
| `MCFeedCache` | finite instances and symmetry for TLC | |
| `FeedCacheProofs` | TLAPS proofs about `FeedCache` | |
| `FixTarget` | `fourda-depengine`: `fix_target.rs`, and what it uses of `range.rs`, `registry.rs`, `version_order.rs` | operators for the pure parts, a state machine for the walk |
| `MCFixTarget` | the shapes of advisories and registry answers TLC tries | |
| `FixTargetProofs` | TLAPS proofs about `FixTarget` | |
| `AnalysisRun` | `analysis_status.rs`, `analysis_fast_path.rs`, the scheduled path of `app_setup.rs`, `source_enable_commands.rs` | state machine, a stage per run |
| `MCAnalysisRun` | symmetry for TLC | |
| `AnalysisRunProofs` | TLAPS proofs about `AnalysisRun` | |
| `DampedFeed` | what the verdict boundary promises to a reader of the feed | abstract specification |
| `FeedVerdicts` | every lane that writes `feed_verdict_*` | state machine, a variable per lane; implements `DampedFeed` |
| `MCFeedVerdicts` | the corpora and histories TLC starts from | |
| `FeedVerdictsProofs` | TLAPS proofs about `FeedVerdicts`, the refinement among them | |
| `IntegrityGate` | `db/integrity_gate.rs`, `recover_corrupt_db_if_needed`, `get_database` | state machine, a record per opener |
| `MCIntegrityGate` | the files earlier runs may have left | |
| `IntegrityGateProofs` | TLAPS proofs about `IntegrityGate` | |

### FeedCache

Processes are the threads the code runs on: *readers* (blocking-pool threads in
`current_tier_feed`), *cyclers* (engine-cycle hooks), *warmers* (callers of
`warm`) and *tasks* (what `refresh_in_background` spawns). A step is the code
between two accesses to shared state, so `refresh_in_flight.swap`,
`refresh_again.store`, the slot lock, the three stores of `InFlightGuard::drop`
and the two halves of `wait_for_refresh` are all separate actions, named after
what they do and in the order of the source.

| Variable | Code |
|---|---|
| `slot`, `generation`, `inFlight`, `refreshAgain`, `passStarted` | the fields of `FeedCache` |
| `restoreAttempted`, `snapshot` | the latch of each `SnapshotFile`, and which files are on disk |
| `entitled` | `settings::is_signal()` |
| `pc`, `loc`, `answer`, `woken` | where each thread is, its locals, what it returns, whether its `Notified` fired |
| `clock` | instants, counted in finished data syncs: the only instants the code compares |
| `covered`, `passGen` | history: the start of the latest computation that ended, the generation of the latest pass |

A feed's content is its tier scope and `seen`, the engine cycles whose data its
computation is sure to have read. Age is one bit, `expired`. A snapshot file
that exists may still be refused on restore (stamp, age, unreadable), and
writing one may fail. A computation may succeed, fail, or panic.

| Run | Instance | Shows |
|---|---|---|
| `feed_tiers` | 2 readers, 1 cycle hook, 1 entitlement flip, 2 opens, panics | `SingleFlight`, `TierSafe`, `FreshMeansCurrent`, `RestoredWhileRebuilding`, `TypeOK` |
| `feed_live` | 2 warms, 2 syncs, 1 flip, 1 restart, panics, fairness | `RefreshEnds`, `WarmReturns`, `WarmCovered` |
| `feed_lost` | 1 reader, 1 cycle hook, no panics | **violated**: `EveryCycleGetsAPass` (below) |

Bounds. Two readers suffice for one to seed while another reads, with a flip
between; two tasks for one run to be in its last step while the next starts;
one cycle already makes an entry stale and a pass miss it; `MaxClock` 2 puts a
sync on each side of a pass's start. `MaxU64` stands for the largest `u64` and
only has to exceed `MaxCycles`. The runs do not check deadlock: with bounded
opens, cycles and syncs the instance is meant to come to rest.

Fairness (`FairSpec`). Weak fairness of each thread's own steps: the executors
run every task that can move. Opening tabs, cycles, syncs, expiry, flips and
restarts are the environment's and get none. A computation is one step here
(`ComputeOk`, `ComputeErr` or `ComputePanics`), so fairness assumes that it
ends, which the code leaves to the request timeouts below it.

What the runs show. The documented guarantees of the cache hold with one
exception. **Finding** (`feed_lost`): `run_refresh` makes its last
`refresh_again.swap(false)` at line 310 and clears `refresh_in_flight` only in
the guard's drop. A request that swaps the flag in that window finds a run in
flight, leaves `refresh_again` set and goes away; the run ends without looking
again. The engine cycle's pre-warm is lost (the next open recomputes on the
request path) and the left-over flag gives some later run a pass nobody asked
for, while lines 131-132 say a request "is never silently dropped". `warm` is
not affected: its loop comes back and claims the flag itself, which is what
`WarmCovered` shows. How far the loss goes is proved: `RequestsAreKept`, the
request is late but stays in `refresh_again` until some pass takes it.

### FixTarget

The walk from an installed version to the version an advisory-laden package
should be upgraded to. A version is its rank among the versions of a package
(the code's order is total within one ecosystem), 0 a text no scheme reads. An
advisory is what its ranges say: windows, enumerated lists, or nothing readable.
`Holds`, `Verdict`, `NextAbove`, `LeaveWindow`, `Exits` and the rest are the
functions of the same purpose, on sets instead of lists, because the order of
advisories, windows and releases never reaches the result (ties between two
spellings of one version aside). The walk's loop is the state machine: `Hop`
takes a step, `Stay`, `Land` and `Block` are the ways it ends where nothing
with a way out affects the version reached, `GiveUp` the ways it has no answer.
`PassedAbove` and `withheld` keep the side list of withdrawn releases.

| Variable | Code |
|---|---|
| `installed`, `advisory`, `kind`, `registry` | the arguments of `walk_target_kinds`, constant |
| `current`, `hops`, `withheld` | the locals of `walk` |
| `outcome` | the `WalkOutcome`, or that the walk still runs |

| Run | Instance | Shows |
|---|---|---|
| `fix_walk` | 5 versions (one a pre-release), 3 advisories, 10 shapes, 3 kinds, 7 registry answers, at most 3 hops | nine properties, below |
| `fix_stable` | the same | **violated**: `TargetIsStable` |

`CleanTarget`, `BringsNothingIn` and `TargetIsInstallable` say where a walk may
end, `NothingCleanIsSkipped` that it does not overshoot, `EveryHopLeaves` that a
step leaves everything it can, `NoFixMeansNoFix` when "no fix" may be said,
`BlockIsExplained` that a refusal has a reason, and `LineFixAgrees` that the
target computed from all advisories is never below the line fix computed from
one of them. The shapes include two windows with a gap, two nested ones, an open
one, an unknown ("-NA") and an unreadable bound, and lists with gaps; the
registry answers include none at all, withdrawn fixes, bounds it does not list
and bounds above everything it lists. Chains of four hops exist in the instance,
so the bound of three (16 in the code) is reached. Deadlock is checked: a walk
that has not ended can always go on.

**Finding** (`fix_stable`): a `fixed` bound that is a pre-release becomes the
target, and `clears_all` may be said of it: `exit` passes the bound to
`fixed_step`, which tests only the registry. Pre-releases are left out of the
list of known releases alone, while `fix_target.rs:171-173` and
`registry.rs:25-26` say no step lands on one. For the same reason
`BlockIsExplained` excepts a walk blocked on a pre-release: the malicious
records are looked up among the known releases, which leave it out. That this is
the only way is proved: `TargetIsStableOrNamed`, a pre-release that is a target
is the fix an advisory names.

### AnalysisRun

Everything that shares `AnalysisState`, the abort flag and
`MonitoringState::is_checking`: *foreground runs* (the task `run_cached_analysis`
spawns), *scheduled cycles* (what the `scheduled-analysis` listener spawns),
*cancels* (calls of `cancel_analysis`, five seconds long), the watchdog in
`get_analysis_status`, the source refresh after a foreground run, and
`set_source_enabled`. The state's lock is released between any two actions; what
the code does under one lock, or on atomics that nothing can observe in between,
is one action.

| Variable | Code |
|---|---|
| `running`, `completed`, `error`, `results`, `judged` | the fields of `AnalysisState`; an error is its cause, not its text |
| `abort` | `get_analysis_abort()` |
| `checking` | `MonitoringState::is_checking` |
| `latched` | history: what was to release the gate was lost since it was claimed |
| `off` | sources whose row says `enabled = 0` |
| `task` | per run: its stage, and of its `CycleResults` whether they are complete (`full_display`), judged, and which sources they show |
| `fill` | the task of `spawn_post_foreground_cache_fill`, per run |
| `cancel` | where each `cancel_analysis` is |

A run goes `ready` (`StartRun`, or `Tick`, `Listen`, `Defer`, `FetchEnds`), `scoring`
(`Begin`: notes the pass counter, takes the previous feed, selects items),
`scored` and `ranked` (`Score`, `Rank`), `judged`, `published` (`Publish` or
`Store`), and ends (`Republish`, `HooksPanic`, `Complete`). `RunFails` and
`CycleFails` are the error, panic and cancel arms at every stage between.
`EndCycle` is the release of the gate, which every end of a cycle contains.

Abstractions. A feed is its run and the interest sources it shows: the order,
number and scores of rows never reach these properties. Which items dedup and
the news window will drop is chosen when the run begins. The elapsed time of the
watchdog is the environment's. The counter of applied reranks is, per cycle,
whether it has risen since the cycle began. Rate limits only drop a request
before anything changes, and a regular tick whose `emit` fails gives the gate
back at once (the moment between is not modelled); a failing `emit` of the
morning briefing does not, and is an action (`BriefingEmitFails`). `near_misses`
goes with the feed and `last_completed_at` is read by the briefing only; both
are left out. A panic after a cycle's last release (it would release the gate
once more) is left out too.

| Run | Instance | Shows |
|---|---|---|
| `analysis_status` | 2 foreground runs, 1 cycle, 1 cancel, 1 source | `TypeOK`, `RunningHasTask`, `StatusTold`, `FlagMatchesFeed`, `FeedIsComplete`, `GateHeldByWork` |
| `analysis_cancel` | 1 run, 1 cycle, 1 cancel, 1 source | **violated**: `CancelHitsItsRun` |

Bounds. Two foreground runs are what the watchdog or a cancel lets overlap; a
cycle overlaps both. A task identity is used once, so the sizes of the sets bound
the runs. Two cycles, which an event without the gate lets overlap, are beyond a
run of minutes together with two foreground runs: the theorems of section 3 cover
them and every other number. Deadlock is checked.

`RunningHasTask` and `StatusTold` say that the status, which a run's start and
end, every cancel and the watchdog write, never shows work nobody does and never
forgets how a run came out, although a run the watchdog gave up goes on and later
writes over its successor's status. `RunningHasTask` says of the abort flag, too,
that it does not outlive what it was raised for as far as foreground runs go: the
history field `asked` of a run notes that a cancel was asked for while it was
under way, and while the flag is up that is so of every one.
`FlagMatchesFeed` is about the three places that write the feed with its judged
flag, `FeedIsComplete` about differential cycles that find no feed to merge
into, `GateHeldByWork` about the in-flight gate, which is claimed in three
places and released in eight, also by cycles that never claimed it. The code
loses the release of a claimed gate in three places: a panic of the source
refresh (`FillPanics`), a panic while a cycle asks whether to defer
(`app_setup.rs:1086-1098`, before the containment: `DeferPanics`), and a morning
briefing whose emit fails (`monitoring.rs:1346-1349`: `BriefingEmitFails`). Such
a gate stays claimed until a cycle that did not claim it (the stale-data event)
ends; `latched` marks it, and the property says that there is no fourth way.

**Finding** (`analysis_cancel`): nothing lowers the abort flag but the next
foreground run, so after a cancel every scheduled cycle ends "Analysis
cancelled" until the user starts a run by hand. It goes no further than cycles:
`CancelHitsForeground` (proved) says that a foreground run ends as cancelled only
if a cancel was asked for while it was under way. Three things the model shows on
its face, so that no property restates them: every run takes the feed out of the
state when it begins and a failed one never puts it back, against the comment in
`run_cached_analysis` (`analysis_status.rs:54-59`) that the previous feed stays
visible; a run that holds its items while a source is turned off stores them
unfiltered, so the source's rows come back; and the three lost releases above stop
background refresh, which `run_scheduled_cycle_contained` is there to prevent.

### FeedVerdicts

A row of `source_items` carries a durable verdict: whether it is in the feed, who
said so (`feed_verdict_source`), why not (`feed_verdict_reason`), under which
pipeline version, and, in `feed_verdict_pending`, a change of side one run has
asked for and no second one confirmed. Every lane that writes it is in the
module, and between any two statements or transactions of one lane every other
may run:

| Variable | Code |
|---|---|
| `corpus` | the columns nobody changes: which rows are of a gated source, a registry release of a dependency, of a source cut from the feed, an archive page at ingest; which tell one story; which release supersedes which |
| `row` | `feed_relevant`, `feed_verdict_*`, the marker with its visits and age |
| `score` | `relevance_score` against the feed line and the sunk line, `scored_pipeline_version` |
| `card` | `llm_judgments` of both lanes, which came last, and whether it is newer than the score |
| `judgeOn`, `off` | `judge_gate::active` and `drain_provider`; rows of sources with `enabled = 0` |
| `cycle` | `persist_cycle_results`: scores, twin checks, persist |
| `sweep` | `sweep_verdicts` and `rejudge_stale_verdicts`, one point per statement, with what the last read found |
| `drain` | `run_post_cycle_with` and `run_drain_with`: the backlog as read, the readings, what is left to write |

`Persisted` is one row's write at `persist_feed_verdicts_with_reasons`: source
off, facts about the row (`Ruling`), the judge's gate, then flip, confirm or
defer. The names of the sweep's steps are those of its statements; a `...Put` or
`...Free` point is a write whose read was an earlier step.

Abstractions. A score is on one of three sides of two lines, a reading is a
reject, a shrug or a clear yes. The 7 and 14 day windows of the ingest judge's
selection and its cap and confidence are a free choice of rows; so is which
ingest reading B1 finds newer than the marker. One drain call answers any part
of the slice at once (the code asks in chunks). A run may turn a pick down
whether or not a judge is configured at that moment: a rerank replays stored
judgments, and one may have been made earlier. Corrupt markers, prompt versions,
scan limits and the risen sweep's budget are left out. "Oldest first" is the
order of ids. The gate is read just before the transaction, here with it. The
convergence of the in-memory display on the swept verdicts
(`analysis_verdicts.rs:440-548`) is not modelled.

| Run | Instance | Shows |
|---|---|---|
| `verdict_lanes` | 2 rows: one story twice (the second copy gated), a release line, a cut row beside an archive page; three histories; one event | `TypeOK`, `MarkerOpposes`, `ReasonsExplain`, `AdmissionHolds`, `FeedIsDamped` |
| `verdict_settle` | the two copies, first in and second out of the feed, fairness | `OrphansReturn`, `MarkersResolve`, `NothingWaitsForNobody`, `FeedSettles` |
| `verdict_off` | the same | **violated**: `TurnedOffIsKept` |

`MarkerOpposes` says that a pending flip is against the side that stands, and
that no row that may never come in waits to; `ReasonsExplain` that a reason is
one of a rejection and true of its row (`Holds`), however old the reading it was
written from: a duplicate has an earlier copy, an `llm_reject` a judgment before
it. `FeedIsDamped` is the refinement: through `FeedBar`, every step of every
lane is a step of `DampedFeed`, in which an unreasoned change of side takes an
intent recorded earlier. Anti-bubble picks are the exception, in the damped feed
as in the code: they are injected before the rerank, which may turn one down and
leaves it a pick, and the boundary applies a pick's verdict at once, on either
side and without a reason (`Pick("no")`). So one run may bring an item in or
take it out as a pick, and `ReasonsExplain` asks that a reason be true, not that
every rejection have one. `AdmissionHolds` is about the seven writes that
promote, on decisions that may be a model call old: none brings in a row whose
source has been turned off or cut since, nor a gated one against the latest
judgment. The four liveness properties are what the lanes owe each other: a copy
held for another comes back when that one has left, a deferred flip is resolved
while a judge can be asked, a missing judge strands nothing, and promotions and
demotions do not alternate for ever.

Bounds. Two rows make a pair of copies or a release line; `DrainSlice` 1 makes the
second row wait, `MaxAttempts` 2 (8 in the code) has a marker escalate and run
out. `MaxEvents` 1 counts runs, ingest judgments, switches, pin changes, restarts
and failed writes together, so a run meets each of them once but no two; what
needs more (a second run that confirms) starts from a history an older version
left, and the drain and the sweep confirm as well. The safety properties are
proved for every bound.

Fairness (`FairSpec`). The lanes are scheduled while the process lives (weak
fairness of each), the score drain takes every row below the current version, and
time passes. Strong fairness of `DrainAsks` and `DrainIsTold`: a judge that is
asked again and again is within its budget and answers for the whole slice again
and again. Without that a marker nobody ever reads stays, since only a reading
counts as a visit. Runs, switches, exits and failures get no fairness.

**Finding** (`verdict_off`): only the persist boundary and the queries that select
rows ask whether a source is on. The sweep's demotions and withdrawals and the
drain's marker updates do not, so a source that is turned off and on again comes
back with other verdicts than it left with, against `db/verdicts.rs:455-457` and
`source_enable_commands.rs:10-11`. What is left of the promise is proved
(`TurnedOffOnlyLeaves`): such a row keeps its verdict, is withdrawn, or goes out
for a written reason; it never comes in, and no new flip is begun on it. Two comments the model contradicts without a
property of its own: a pick does become pending when a later run disagrees
(`llm_judge_drain.rs:41-45` says its verdict never carries a marker), and the
drain does write `llm_reject` on a dependency release whose pending side is "no"
(`db/llm_judgments.rs:363` says no lane does); the next sweep takes it off again.

### IntegrityGate

The window and the headless engine open the same database. Each first decides
whether to scan it whole (`preflight`): not if the last scan that said ok is
recent, of this very file, and no session file names a process that is gone.
Every opener leaves such a file before it opens and takes it away when it exits
cleanly. Nothing keeps two openers apart.

| Variable | Code |
|---|---|
| `disk`, `backup` | what is at the path and in the newest `*.db.backup.vN`: nothing, or a file by what `quick_check` would say of it |
| `marker` | `<db>.quick_check_ok`, by what `decide` makes of it |
| `sessions` | the PIDs with a `<db>.session.<pid>` file |
| `proc` | per opener: where it stands in `get_database`, the verdict it holds, the session files it counted |
| `strangers` | live processes that are none of ours |
| `dirty` | history: announced openers that were killed and not scanned for since |

A start goes `up`, `scan`, `settle` (marker), `tidy` (session files), `announce`,
`open`, `using`; a corrupt file takes it through `corrupt` and `restore`, a failed
open through `judge` to a refusal, the late scan or the last resort. Between any
two the other opener may do anything, and either may be killed, which while the
file is open may corrupt it. Rename, removal of -wal and -shm and of the marker in
the last resort are one step, and a backup is written whole; the content of
migrations and the notice shown to the user are left out.

| Run | Instance | Shows |
|---|---|---|
| `gate_start` | 2 openers, 2 PIDs (one also a stranger's), 1 fault, 3 starts, fairness | `TypeOK`, `CrashIsSeen`, `CorruptionIsFound` |
| `gate_evidence` | the same from a sound corpus whose check is due | **violated**: `DestructionNeedsEvidence` |

Bounds. Two openers are what the code has; with two PIDs a killed one's is soon
given to the other or to a stranger. One fault (a kill, an interrupted start, rot,
a clock set back, a failed file operation, an odd error) on top of three starts
that already have one in their past: a corpus that rotted since its check, one
without a backup checked by a clock ahead of this one, a sound one. The fault
bound does not bound starts, exits or days. Deadlock is checked.

Fairness: the system starts an opener again and again (the scheduled task, the
user), it works on and quits some day, days pass, and of ever more starts some
reach their decision and some scans are not locked out (`SF` of `Preflight` and
`ScanTells`). Nothing is assumed of a crash, a stranger or a mishap.

Two limits of `CrashIsSeen`, both the code's: a crash whose PID somebody else has
been given by the next start is not seen, and neither is one of an opener whose
session file could not be written; `dirty` leaves both out. `Free` assumes that
the PID of a dead opener is not handed out again while a scan that counted its
file still runs. And one of `CorruptionIsFound`: it says that a corrupt file is
moved away each time, not that the backup put in its place is sound.

**Finding** (`gate_evidence`): a scan that the other process locks out returns
`RecoveryFailed`, and `db_verified_intact` takes everything but `Healthy` and
`NoExistingDb` for corruption that was observed. An open that then fails with an
error outside the allow-list renames a sound corpus to `*.db.corrupt` and starts
empty, against `state.rs:429` and `:544-546`. (On Windows the rename itself may
fail while the other process holds the file.) A lone opener can do it as well: what
the pre-flight has just restored counts as not intact, so an open that fails oddly
renames it. `LastResortKnowsNoBetter` (proved) is what the code does keep: a check
that found the file whole, and a check that was skipped, never lead to the rename. Also on the face of the model: a
copy that fails, or a crash, between quarantine and restore leaves no file at the
path, and the next open creates an empty one though a backup exists, while
`migrations.rs:93-95` calls the original untouched; and the quarantine renames
whatever stands at the path by then, also what the other process has just
restored.
## 3. Proofs

Every safety property that a passing run checks is a theorem for every value of
the constants. Besides those there are two kinds of theorem that no run repeats
(TLC confirmed each statement on an instance of its component before it was
proved):

* *The extent of a finding.* Each of the five runs that find a promise broken has
  a theorem that says what the code does keep of it.

  | Finding | Broken | Kept, and proved |
  |---|---|---|
  | `feed_lost` | `EveryCycleGetsAPass` | `RequestsAreKept`: late, not lost |
  | `fix_stable` | `TargetIsStable` | `TargetIsStableOrNamed`: only as the fix an advisory names |
  | `analysis_cancel` | `CancelHitsItsRun` | `CancelHitsForeground`: cycles suffer, foreground runs do not |
  | `verdict_off` | `TurnedOffIsKept` | `TurnedOffOnlyLeaves`: rows only leave, with a reason |
  | `gate_evidence` | `DestructionNeedsEvidence` | `LastResortKnowsNoBetter`: never after a check that found the file whole or was skipped |

* *The safety half of a liveness property.* Fairness is out of the prover's reach,
  but what the progress rests on is not: that no notification is lost
  (`SleepersAreWoken`), that a refresh run goes on only for a request
  (`RunsAdvance`), that a pending flip's attempts and age never start over
  (`MarkersCount`), that a call of `get_database` never goes round
  (`CallsAdvance`).

`FeedCacheProofs` proves, for every number of readers, hooks, warms and tasks
and every bound, each of the five safety properties, the action property
`RestoredWhileRebuilding` and `TypeOK`. Assumptions: the process sets are
disjoint and the bounds are naturals with `MaxCycles < MaxU64`. The argument:

* `TypeCorrect` alone, by cases on the action.
* `SingleFlightHolds` is inductive relative to `TypeOK`: the flag is taken only
  by a swap that finds it clear, and only `ReleaseFlag`, by the one runner
  between `begin` and `release`, clears it.
* `FreshMeansCurrentHolds` needs `FreshInv`: a local or cached generation never
  exceeds the current one, a pass's `gen` is at most its `seen`, and a restored
  entry sits at `Prev(g)`, which no later generation equals.
* `TierSafeHolds` adds what each reader holds between asking and answering.
* `RestoredWhileRebuildingHolds` follows from the generation of restored
  entries: they are servable only through the in-flight disjunct.
* `WarmCoveredHolds` needs `WarmInv`, which counts the runs a waiting warm has
  outlived: the second run it joins began after its data was in place.
* `RequestsAreKeptHolds` is inductive as it stands: `SwapAgain` empties
  `refresh_again` only into another pass, and a pass notes the generation it reads.
* `NoNotificationIsLost` rests on `SingleFlight`: who tests the flag and finds it
  set has a run that is still to notify, and a notify reaches everyone who sleeps.
* `RunsComeToAnEnd` counts the steps a run has left (`StepsLeft`): its own steps
  lower the count or use up `refresh_again`, and nobody else's raises it.

`FixTargetProofs` proves all nine properties of `fix_walk`, for any versions,
advisories, contents, registry answers and bound on the hops; it assumes only
that versions are positive naturals and that a bounded window has a version for
a bound. The inductive invariant `Inv` adds to the types that the walk stands on
a version one may install (`Reached`), that everything installable behind it is
affected (`Skipped`), and what was true where it ended (`Landed`, `Stayed`,
`Blocked`). Its step rests on `WindowExit` and `ListExit`: an exit lies outside
its window or list, and every installable release before it inside. `NoFix`
needs that a nonempty set of releases has a lowest one (`LowestExists`), which
follows from the well-foundedness of the naturals. On top of `Inv`, `Extent` says
how far the walk goes: what is withheld is withheld (`WithheldIsTrue`), each hop
passes a version (`HopsClimb`), so that the hop limit cuts off no short walk
(`LimitIsFar`), and a pre-release it stands on is a named fix (`StableUnlessNamed`,
by `MoveIsNamed`: the other exits are drawn from the known releases).

`AnalysisRunProofs` proves the six invariants of `analysis_status`
for any sets of runs, cancels and sources, from one assumption
(`DisjointRuns`: a run is a foreground run or a cycle, and "no feed" is no
feed). A step of one run leaves what the invariants read of every other run as
it is (`OthersStay`), and every other step leaves all runs (`RunsStay`), so each
invariant is a matter of the step's own run. `RunningHasTask`, `StatusTold` and
`FlagMatchesFeed` are inductive relative to `TypeOK`; the first is proved in two
parts, `RunHasTask` and `AbortIsMeant` (the flag is raised only together with a
mark on every live run, and a new run, which has no mark, starts by lowering it).
`FeedIsComplete` is not inductive: a
foreground run publishes without looking, so `ForegroundIsFull` carries from
`Begin` that its feed is complete. `GateHeldByWork` needs `FillAfterRun`:
publishing spawns a refresh, and must not do so over one that holds the gate.
`CancelIsForTheRun` is `AbortIsMeant` at the moment a run gives in to the flag.

`FeedVerdictsProofs` proves the five safety properties of `verdict_lanes`, the
refinement among them, for any number of rows, any corpora, histories and bounds.
Assumptions: rows are a finite set of naturals, the bounds naturals. The key is
that all the actions together know few ways to write a row: it stays, is persisted, demoted,
withdrawn, re-judged, or its marker is cleared, escalated or aged (`Edited`).
`SweepStepEdits`, `DrainStepEdits` and `CycleStepEdits` show, action by action,
that every lane writes rows only so and keeps what it holds in type (`StepEdits`);
each property then needs one lemma about the edits (`OpposesStep`, `ReasonsStep`,
`AdmissionStep`, `EditMoves`). `MarkerOpposes` is inductive relative to `TypeOK`,
since a marker is set only against the side that stands. `ReasonsExplain` is not:
a lane writes a reason it found several steps ago, so the invariant has to say
that what each lane still holds is true of its row (`LanesSound`: `SoundPut` of the
three batches, no card without a reading, no drain reading it was not told of).
It stays true because the facts a reason is about last: the columns never change
and a judgment is never withdrawn (`Lasting`). `LanesStaySound` is that invariant.
The refinement needs types only: `EditMoves` maps each kind of edit to a move of
`DampedFeed`. `MarkersNeverRestart` and `TurnedOffRowsOnlyLeave` go through the
edits again, one case per kind.

`IntegrityGateProofs` proves `TypeOK` and `CrashIsSeen` for any openers, PIDs,
leftovers and number of faults; it assumes only that 0 is no PID. `CrashIsSeen` is
about one step, and the invariant is about everything before it: `CrashInv` says
that a killed opener's session file is still there and its PID nobody's, that
running openers have PIDs of their own and files if they announced themselves,
that what a scan counted is its own or a dead process's, and that the killed ones
among them are those it knew of when it was decided. Steps that leave session
files, strangers and PIDs alone keep it by one lemma (`QuietKeeps`).
`SessionFilesStay` states the part of it that says whose files are never deleted.
What the last resort may know needs a second invariant, `AllInformed`: the verdict
an opener holds by the point it stands at, above all that nothing is judged on a
skipped check before the late one has been made. It is local to an opener
(`OthersStand`: a step of one leaves the record of every other), and one lemma
over the steps of a call (`CallSteps`) gives both it and `CallsAdvance`, whose
measure `ToGo` counts the points left.

Only model-checked: liveness under fairness (`RefreshEnds`, `WarmReturns`, the four
properties of `verdict_settle`, `CorruptionIsFound`), which the prover does not do,
and the five violations.

## 4. Plan

In order of what matters most to a user of 4DA:

1. `FeedCache` (done).
2. `FixTarget` (done).
3. `AnalysisRun` (done; next: the run receipts the differential watermark is read
   from, and the scheduler's other jobs).
4. `LicenseClock`: the time floor across restarts and concurrent observers.
5. `Relay`: membership handlers as interleaved statements, then `RelayLog`; the
   client (`TeamSync`, shown to implement a replicated map with last-writer-wins
   merge) once its feature is finished (section 5).
6. `RestartSnapshot`: staging file and rename with concurrent writers, shown to
   implement an atomic register that may lose a write.
7. `FeedVerdicts` over `DampedFeed` and `IntegrityGate` (done; next: the daily
   limits of the judge); then `PresenceQueue` and `OsvMirror`.
8. `RangeCheck` and `Held` on top of `FixTarget`; `Needs`, the engine's round
   trip with its host.
9. Theorems: type and safety invariants of `LicenseClock`, `Relay`, `TeamSync`
   and the refinements of 5 and 6.

## 5. What is not modelled

Of the dependency engine's walk: the order on version texts, two spellings of
one version, the per-thread memo of verdicts (its key holds every input). Of the
analysis run: a second click that clears the abort flag just raised
(`analysis_status.rs:44`) is modelled but no text promises more; the briefing's
freshness check, which parses `last_completed_at` as RFC 3339 although it is
written as `%Y-%m-%d %H:%M:%S` (`monitoring.rs:1331`), is a matter of text
formats. Parsing and text (lockfile formats, version syntax, feeds, briefings), scoring
arithmetic, HTTP adapters, SQL beyond the statements of a modelled protocol,
cryptography, the frontend's views. `PROJECT.json` lists every component with
its status and reason. Team sync is behind a cargo feature that no default build
has and is unfinished (members never receive the team key, and what is pushed is
not what `decrypt` parses), so a model of it would be of a protocol that does not
run yet.
