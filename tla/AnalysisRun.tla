---------------------------- MODULE AnalysisRun ----------------------------
(***************************************************************************)
(* The analysis runs of one process and the state they share               *)
(* (src-tauri/src/analysis_status.rs and the scheduled path of             *)
(* app_setup.rs): foreground runs started by a click, scheduled cycles     *)
(* started by an event, the source refresh after a foreground run, the     *)
(* cancel command, the watchdog inside get_analysis_status, and a source   *)
(* being turned off.  They meet in AnalysisState (one lock, released       *)
(* between any two steps below), in the abort flag and in the scheduler's  *)
(* in-flight gate is_checking.                                             *)
(*                                                                         *)
(* A feed is the run that produced it and the interest sources whose rows  *)
(* it shows; rows of the stack's own sources, which cannot be turned off,  *)
(* are left out.  A task identity is used for one run, so the sizes of     *)
(* the constants bound the number of runs and of cancels.                  *)
(***************************************************************************)
CONSTANTS
  Foreground,  \* tasks spawned by run_cached_analysis
  Cycles,      \* tasks spawned by the scheduled-analysis listener
  Cancels,     \* calls of cancel_analysis
  Interests,   \* sources the user may turn off
  NoFeed       \* AnalysisState::results = None

Runs == Foreground \cup Cycles

ASSUME DisjointRuns ==
  /\ Foreground \cap Cycles = {}
  /\ NoFeed \notin [by: Runs, rows: SUBSET Interests]

Feeds == [by: Runs, rows: SUBSET Interests]

VARIABLES
  running,    \* AnalysisState::running
  completed,  \* AnalysisState::completed
  error,      \* AnalysisState::error, by its cause
  results,    \* AnalysisState::results
  judged,     \* AnalysisState::judged
  abort,      \* the abort flag
  checking,   \* MonitoringState::is_checking
  latched,    \* history: what was to release the gate was lost since it was claimed
  off,        \* sources whose row says enabled = 0
  task,       \* the local state of every run
  fill,       \* the refresh spawned by every finished foreground run
  cancel      \* where every cancel_analysis call is

status == <<running, completed, error>>
gate   == <<checking, latched>>
vars   == <<status, results, judged, abort, gate, off, task, fill, cancel>>

(* Where a run is.                                                         *)
(*   emitted    the event is out, the listener has not looked yet          *)
(*   deferring  a scheduled cycle looks whether the machine is busy        *)
(*   filling    it fetches; from here on its panics are contained          *)
(*   ready      about to take the previous feed                            *)
(*   scoring    in the scoring loop, which polls the abort flag            *)
(*   scored     scored, the rerank ahead                                   *)
(*   ranked     the cycle is made, the judged flag not yet computed        *)
(*   judged     persisting, converging; the shared state not yet written   *)
(*   published  shared state written, hooks or receipts still to come      *)
Live == {"deferring", "filling", "ready", "scoring", "scored", "ranked", "judged"}
Stages == Live \cup {"idle", "emitted", "published", "done", "failed", "cancelled"}

Alive(r) == task[r].stage \in Live

FillStages == {"none", "spawned", "filling", "done"}

(* full: safe to replace the shared feed; deep: a deep scan; passed: a      *)
(* rerank pass applied since the cycle began; judged: the run's verdict;   *)
(* asked (history): a cancel was asked for while the run was under way.    *)
Tasks == [stage: Stages, rows: SUBSET Interests, full: BOOLEAN, deep: BOOLEAN,
          passed: BOOLEAN, judged: BOOLEAN, asked: BOOLEAN]

TypeOK ==
  /\ running \in BOOLEAN /\ completed \in BOOLEAN /\ judged \in BOOLEAN
  /\ abort \in BOOLEAN /\ checking \in BOOLEAN /\ latched \in BOOLEAN
  /\ error \in {"none", "failed", "cancelled", "timeout"}
  /\ results \in Feeds \cup {NoFeed}
  /\ off \subseteq Interests
  /\ task \in [Runs -> Tasks]
  /\ fill \in [Foreground -> FillStages]
  /\ cancel \in [Cancels -> {"idle", "waiting", "done"}]
  /\ \A f \in Foreground :
       /\ task[f].stage \notin {"emitted", "deferring", "filling", "ranked"}
       /\ ~task[f].passed /\ ~task[f].judged

Fresh == [stage |-> "idle", rows |-> {}, full |-> FALSE, deep |-> FALSE,
          passed |-> FALSE, judged |-> FALSE, asked |-> FALSE]

Init ==
  /\ running = FALSE /\ completed = FALSE /\ error = "none"
  /\ results = NoFeed /\ judged = FALSE
  /\ abort = FALSE /\ checking = FALSE /\ latched = FALSE
  /\ off \in SUBSET Interests
  /\ task = [r \in Runs |-> Fresh]
  /\ fill = [f \in Foreground |-> "none"]
  /\ cancel = [k \in Cancels |-> "idle"]

Move(r, from, to) ==
  /\ task[r].stage = from
  /\ task' = [task EXCEPT ![r].stage = to]

\* The gate is given up, or claimed by what finds it free.
Release == checking' = FALSE /\ latched' = FALSE
Claim   == checking' = TRUE /\ UNCHANGED latched

FeedOf(r) == [by |-> r, rows |-> task[r].rows]

\* A run that ended drops its feed; what the shared feed is checked against
\* stays.
Ended(r, to) ==
  [task EXCEPT ![r] = [task[r] EXCEPT !.stage = to, !.rows = {}, !.deep = FALSE,
                                      !.passed = FALSE, !.asked = FALSE]]

----------------------------------------------------------------------------
(* Commands of the frontend.                                               *)

\* run_cached_analysis: the abort flag is cleared before the running flag is
\* looked at, and a second request while one runs changes nothing else.
DuplicateRequest ==
  /\ running
  /\ abort' = FALSE
  /\ UNCHANGED <<status, results, judged, gate, off, task, fill, cancel>>

StartRun(f) ==
  /\ ~running
  /\ Move(f, "idle", "ready")
  /\ abort' = FALSE
  /\ running' = TRUE /\ completed' = FALSE /\ error' = "none"
  /\ UNCHANGED <<results, judged, gate, off, fill, cancel>>

\* cancel_analysis: raise the flag, wait five seconds, then clear whatever
\* run the state then shows as running.
CancelRequest(k) ==
  /\ cancel[k] = "idle"
  /\ cancel' = [cancel EXCEPT ![k] = "waiting"]
  /\ abort' = TRUE
  /\ task' = [r \in Runs |->
                [task[r] EXCEPT
                   !.asked = @ \/ task[r].stage \in Live \cup {"emitted"}]]
  /\ UNCHANGED <<status, results, judged, gate, off, fill>>

CancelForceSilent(k) ==  \* mutant: the forced cleanup leaves no error
  /\ cancel[k] = "waiting"
  /\ cancel' = [cancel EXCEPT ![k] = "done"]
  /\ running' = FALSE
  /\ UNCHANGED <<completed, error, results, judged, abort, gate, off, task,
                 fill>>

CancelForce(k) ==
  /\ cancel[k] = "waiting"
  /\ cancel' = [cancel EXCEPT ![k] = "done"]
  /\ running' = FALSE
  /\ error' = IF running THEN "cancelled" ELSE error
  /\ UNCHANGED <<completed, results, judged, abort, gate, off,
                 task, fill>>

\* get_analysis_status resets a run that started longer ago than
\* ANALYSIS_TIMEOUT_SECS (how long is up to the environment); the task goes
\* on.
Watchdog ==
  /\ running
  /\ running' = FALSE /\ error' = "timeout"
  /\ UNCHANGED <<completed, results, judged, abort, gate, off, task, fill,
                 cancel>>

\* set_source_enabled: turning a source off also drops its rows from the
\* shared feed.
TurnOff(s) ==
  /\ s \notin off
  /\ off' = off \cup {s}
  /\ results' = IF results = NoFeed THEN NoFeed
                ELSE [results EXCEPT !.rows = @ \ {s}]
  /\ UNCHANGED <<status, judged, abort, gate, task, fill, cancel>>

TurnOn(s) ==
  /\ s \in off
  /\ off' = off \ {s}
  /\ UNCHANGED <<status, results, judged, abort, gate, task, fill, cancel>>

----------------------------------------------------------------------------
(* What a foreground run and a scheduled cycle share                       *)
(* (analyze_cached_content_inner).                                         *)

\* Mutant: every run may.
MayAlwaysBeDifferential(r) == r \in Runs

\* Only a run that is delivered by merging may score differentially without
\* a previous feed (differential_since).
MayBeDifferential(r) == r \in Cycles \/ results # NoFeed

\* The run notes the rerank passes so far, takes the previous feed out of
\* the shared state and selects its items among the sources that are on.  A
\* differential run merges them into the feed it took; what dedup and the
\* news window will drop is chosen here.  The watermark, and whether the
\* window is empty, are free.
Begin(r) ==
  /\ task[r].stage = "ready"
  /\ \E differential, deep \in BOOLEAN :
       LET taken == IF differential /\ results # NoFeed THEN results.rows ELSE {}
       IN /\ differential => MayBeDifferential(r) /\ ~deep
          /\ \E rows \in SUBSET (taken \cup (Interests \ off)) :
               task' = [task EXCEPT ![r] =
                 [@ EXCEPT !.stage = "scoring", !.rows = rows, !.deep = deep,
                           !.full = differential => results # NoFeed]]
  /\ results' = NoFeed
  /\ UNCHANGED <<status, judged, abort, gate, off, fill, cancel>>

\* The loop polls the abort flag before every item; only a deep scan may
\* have none.  A foreground run asks for no rerank and is never judged
\* (judged_for_run); a deep scan reranks whoever runs it.
Score(r) ==
  /\ task[r].stage = "scoring"
  /\ abort => task[r].deep /\ task[r].rows = {}
  /\ task' = [task EXCEPT ![r].stage =
                IF r \in Cycles \/ task[r].deep THEN "scored" ELSE "judged"]
  /\ UNCHANGED <<status, results, judged, abort, gate, off, fill, cancel>>

RankMarksAll(r) ==  \* mutant: a foreground run counts passes too
  /\ task[r].stage = "scored"
  /\ \E applied \in BOOLEAN :
       task' = [q \in Runs |->
         [task[q] EXCEPT
            !.stage  = IF q # r THEN @ ELSE IF q \in Cycles THEN "ranked" ELSE "judged",
            !.deep   = @ /\ q # r,
            !.passed = @ \/ (applied /\ task[q].stage \in {"scoring", "scored", "ranked"})]]
  /\ UNCHANGED <<status, results, judged, abort, gate, off, fill, cancel>>

\* A rerank that applies raises the process-wide pass counter, which every
\* cycle past its start will see as risen.
Rank(r) ==
  /\ task[r].stage = "scored"
  /\ \E applied \in BOOLEAN :
       task' = [q \in Runs |->
         [task[q] EXCEPT
            !.stage  = IF q # r THEN @ ELSE IF q \in Cycles THEN "ranked" ELSE "judged",
            !.deep   = @ /\ q # r,
            !.passed = @ \/ (applied /\ q \in Cycles
                              /\ task[q].stage \in {"scoring", "scored", "ranked"})]]
  /\ UNCHANGED <<status, results, judged, abort, gate, off, fill, cancel>>

\* judged_for_run: a pass applied since the cycle began.
Judge(c) ==
  /\ task[c].stage = "ranked"
  /\ task' = [task EXCEPT ![c] =
       [@ EXCEPT !.stage = "judged", !.judged = task[c].passed, !.passed = FALSE]]
  /\ UNCHANGED <<status, results, judged, abort, gate, off, fill, cancel>>

CanFail(r)   == Alive(r) /\ task[r].stage # "filling"
IsCancelled(r) == task[r].stage = "scoring" /\ abort

----------------------------------------------------------------------------
(* How a foreground run ends.                                              *)

\* The feed, its flag and the status are written under one lock; the task
\* then spawns the source refresh.
Publish(f) ==
  /\ Move(f, "judged", "published")
  /\ running' = FALSE /\ completed' = TRUE /\ error' = "none"
  /\ results' = FeedOf(f)
  /\ judged' = task[f].judged
  /\ fill' = [fill EXCEPT ![f] = "spawned"]
  /\ UNCHANGED <<abort, gate, off, cancel>>

RepublishFeedOnly(f) ==  \* mutant: the second write forgets the flag
  /\ task[f].stage = "published"
  /\ task' = Ended(f, "done")
  /\ results' = FeedOf(f)
  /\ UNCHANGED <<status, judged, abort, gate, off, fill, cancel>>

\* When the hooks are done the feed is written a second time.
Republish(f) ==
  /\ task[f].stage = "published"
  /\ task' = Ended(f, "done")
  /\ results' = FeedOf(f)
  /\ judged' = task[f].judged
  /\ UNCHANGED <<status, abort, gate, off, fill, cancel>>

\* A panic in a hook ends the task: only the analysis is contained.
HooksPanic(f) ==
  /\ task[f].stage = "published"
  /\ task' = Ended(f, "done")
  /\ UNCHANGED <<status, results, judged, abort, gate, off, fill, cancel>>

RunFailsQuietly(f) ==  \* mutant: a failed task leaves the flag up
  /\ \/ /\ CanFail(f)
        /\ task' = Ended(f, "failed")
        /\ error' = "failed"
     \/ /\ IsCancelled(f)
        /\ task' = Ended(f, "cancelled")
        /\ error' = "cancelled"
  /\ UNCHANGED <<running, completed, results, judged, abort, gate, off,
                 fill, cancel>>

\* An error, a panic or a cancel ends the run in the status.
RunFails(f) ==
  /\ \/ /\ CanFail(f)
        /\ task' = Ended(f, "failed")
        /\ error' = "failed"
     \/ /\ IsCancelled(f)
        /\ task' = Ended(f, "cancelled")
        /\ error' = "cancelled"
  /\ running' = FALSE
  /\ UNCHANGED <<completed, results, judged, abort, gate, off,
                 fill, cancel>>

\* spawn_post_foreground_cache_fill: skipped while the gate is held.
FillStarts(f) ==
  /\ fill[f] = "spawned"
  /\ Claim
  /\ fill' = [fill EXCEPT ![f] = IF checking THEN "done" ELSE "filling"]
  /\ UNCHANGED <<status, results, judged, abort, off, task, cancel>>

FillEnds(f) ==
  /\ fill[f] = "filling"
  /\ Release
  /\ fill' = [fill EXCEPT ![f] = "done"]
  /\ UNCHANGED <<status, results, judged, abort, off, task, cancel>>

\* Nothing contains a panic of the refresh: its gate stays claimed.
FillPanics(f) ==
  /\ fill[f] = "filling"
  /\ fill' = [fill EXCEPT ![f] = "done"]
  /\ latched' = checking
  /\ UNCHANGED <<status, results, judged, abort, checking, off, task, cancel>>

----------------------------------------------------------------------------
(* Scheduled cycles.                                                       *)

\* The scheduler, or a morning briefing due on old results, claims the gate
\* and then emits.  A regular tick whose emit fails gives the gate back ...
Tick(c) ==
  /\ ~checking
  /\ Claim
  /\ Move(c, "idle", "emitted")
  /\ UNCHANGED <<status, results, judged, abort, off, fill, cancel>>

\* ... while the result of the briefing's emit is not looked at.
BriefingEmitFails ==
  /\ ~checking
  /\ checking' = TRUE /\ latched' = TRUE
  /\ UNCHANGED <<status, results, judged, abort, off, task, fill, cancel>>

\* process_anomalies emits the same event without claiming the gate.
StaleData(c) ==
  /\ Move(c, "idle", "emitted")
  /\ UNCHANGED <<status, results, judged, abort, gate, off, fill, cancel>>

\* The gate is released wherever a cycle ends, whoever claimed it.
EndCycle(c, to) ==
  /\ task' = Ended(c, to)
  /\ Release
  /\ UNCHANGED <<status, abort, off, fill, cancel>>

\* The listener spawns the cycle unless a foreground run is marked running.
Listen(c) ==
  \/ /\ task[c].stage = "emitted" /\ running
     /\ EndCycle(c, "done")
     /\ UNCHANGED <<results, judged>>
  \/ /\ Move(c, "emitted", "deferring") /\ ~running
     /\ UNCHANGED <<status, results, judged, abort, gate, off, fill, cancel>>

\* Is the machine busy?  Then the tick is given back.
Defer(c) ==
  \/ /\ task[c].stage = "deferring"
     /\ EndCycle(c, "done")
     /\ UNCHANGED <<results, judged>>
  \/ /\ Move(c, "deferring", "filling")
     /\ UNCHANGED <<status, results, judged, abort, gate, off, fill, cancel>>

\* The look itself runs outside the containment: a panic in it skips every
\* release.
DeferPanics(c) ==
  /\ task[c].stage = "deferring"
  /\ task' = Ended(c, "failed")
  /\ latched' = checking
  /\ UNCHANGED <<status, results, judged, abort, checking, off, fill, cancel>>

\* After the fetch, the second look at the running flag.
FetchEnds(c) ==
  \/ /\ task[c].stage = "filling" /\ running
     /\ EndCycle(c, "done")
     /\ UNCHANGED <<results, judged>>
  \/ /\ Move(c, "filling", "ready") /\ ~running
     /\ UNCHANGED <<status, results, judged, abort, gate, off, fill, cancel>>

\* analyze_cached_content_silent: a complete feed replaces the shared one
\* unless a foreground run is under way.
Store(c) ==
  /\ Move(c, "judged", "published")
  /\ IF task[c].full /\ ~running
     THEN results' = FeedOf(c) /\ judged' = task[c].judged
     ELSE UNCHANGED <<results, judged>>
  /\ UNCHANGED <<status, abort, gate, off, fill, cancel>>

Complete(c) ==
  /\ task[c].stage = "published"
  /\ EndCycle(c, "done")
  /\ UNCHANGED <<results, judged>>

CycleFailsLatched(c) ==  \* mutant: a panic skips the release of the gate
  /\ \/ /\ Alive(c) /\ task[c].stage # "deferring"
        /\ task' = Ended(c, "failed")
        /\ UNCHANGED <<status, abort, gate, off, fill, cancel>>
     \/ IsCancelled(c) /\ EndCycle(c, "cancelled")
  /\ UNCHANGED <<results, judged>>

\* The error arm of run_scheduled_analysis and the recovery arm of
\* run_scheduled_cycle_contained.
CycleFails(c) ==
  /\ \/ Alive(c) /\ task[c].stage # "deferring" /\ EndCycle(c, "failed")
     \/ IsCancelled(c) /\ EndCycle(c, "cancelled")
  /\ UNCHANGED <<results, judged>>

----------------------------------------------------------------------------
RunStep(r) == Begin(r) \/ Score(r) \/ Rank(r)

ForegroundStep(f) ==
  \/ StartRun(f) \/ RunStep(f) \/ Publish(f) \/ Republish(f) \/ HooksPanic(f)
  \/ RunFails(f) \/ FillStarts(f) \/ FillEnds(f) \/ FillPanics(f)

CycleStep(c) ==
  \/ Tick(c) \/ StaleData(c) \/ Listen(c) \/ Defer(c) \/ DeferPanics(c)
  \/ FetchEnds(c) \/ RunStep(c) \/ Judge(c) \/ Store(c) \/ Complete(c) \/ CycleFails(c)

CancelStep(k) == CancelRequest(k) \/ CancelForce(k)

Next ==
  \/ \E f \in Foreground : ForegroundStep(f)
  \/ \E c \in Cycles : CycleStep(c)
  \/ \E k \in Cancels : CancelStep(k)
  \/ \E s \in Interests : TurnOff(s) \/ TurnOn(s)
  \/ DuplicateRequest \/ Watchdog \/ BriefingEmitFails

Spec == Init /\ [][Next]_vars

----------------------------------------------------------------------------
(* Properties.                                                             *)

\* Neither flag outlives what it was raised for: while the status says an
\* analysis runs, some foreground task is on its way to clear it, whatever
\* the watchdog, cancels and panics did to other runs in between; and while
\* the abort flag is up, a cancel was asked for during every foreground run
\* under way, whichever run it was meant for.
RunningHasTask ==
  /\ running => \E f \in Foreground : Alive(f)
  /\ abort => \A f \in Foreground : Alive(f) => task[f].asked

\* The status tells one story: a run shown as running is neither finished
\* nor in error, and once any run was started and none is running, the
\* status says how it came out (completed, or an error), also when a run
\* given up by the watchdog or by a cancel ends during a later one.
StatusTold ==
  /\ running => ~completed /\ error = "none"
  /\ ~running /\ (\E f \in Foreground : task[f].stage # "idle")
       => completed \/ error # "none"

\* The "unjudged" badge belongs to the feed it is shown on: the flag is the
\* one computed for the run whose feed is in the shared state, across the
\* three places that write the pair, and a foreground feed is never judged.
FlagMatchesFeed ==
  results # NoFeed =>
    /\ judged = task[results.by].judged
    /\ judged => results.by \in Cycles
    /\ task[results.by].stage \in {"published", "done"}

\* A partial differential set (a cycle that found no previous feed to merge
\* into) never becomes the shared feed, neither directly nor because another
\* run took the previous feed first.
FeedIsComplete == results # NoFeed => task[results.by].full

\* The scheduler's gate is never claimed without work that will release it,
\* however the cycles end, collide, defer or panic while contained, and also
\* when an event that claimed nothing released somebody else's gate.  The code
\* loses a release in three places and no other, and such a gate stays claimed
\* until a cycle that did not claim it ends: a panic of the source refresh, a
\* panic while a cycle asks whether to defer, and a briefing's emit that fails.
GateHeldByWork ==
  checking =>
    \/ latched
    \/ \E c \in Cycles : task[c].stage \in Live \cup {"emitted", "published"}
    \/ \E f \in Foreground : fill[f] = "filling"

\* Does not hold: cancel_analysis is to "Cancel a running analysis", and the
\* abort flag is to "be cleared at analysis start".  A scheduled cycle ends
\* as cancelled only if a cancel was asked for while it was under way, or is
\* still waiting for a run to stop.
CancelHitsItsRun ==
  [][\A c \in Cycles :
       task[c].stage # "cancelled" /\ task'[c].stage = "cancelled" =>
         task[c].asked \/ \E k \in Cancels : cancel[k] = "waiting"]_vars
=============================================================================
