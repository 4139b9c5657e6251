------------------------------ MODULE FeedCache ------------------------------
(***************************************************************************)
(* The Preemption feed cache (src-tauri/src/preemption_feed_cache.rs): one *)
(* in-process slot served stale-while-revalidate, one refresh in flight    *)
(* at a time, the last feed of each tier scope on disk across restarts.    *)
(*                                                                         *)
(* Every thread is a process with a program counter; a step is the code    *)
(* between two accesses to shared state (an atomic, a lock, a file), so    *)
(* that every interleaving of a tab opening, a refresh run, a startup warm *)
(* and an engine cycle is a behaviour.                                     *)
(*                                                                         *)
(* Instants are compared only with the moment a data sync finished, so     *)
(* clock counts those moments; ages are compared only with MAX_AGE, so an  *)
(* entry is expired or not.  The content of a feed is its tier scope and   *)
(* "seen", the engine cycles whose data its computation is sure to have    *)
(* read.                                                                   *)
(***************************************************************************)
EXTENDS Naturals

CONSTANTS
  Readers,      \* blocking-pool threads answering a tab (current_tier_feed)
  Cyclers,      \* engine-cycle hooks that may run at the same time
  Warmers,      \* callers of warm (startup, OSV sync, readiness refresh)
  Tasks,        \* async tasks that refresh_in_background may spawn
  MaxU64,       \* the largest generation: what wrapping_sub gives below 0
  Panics,       \* whether a computation may panic or be cancelled
  MaxCycles,    \* bound: engine cycles in one process
  MaxClock,     \* bound: data syncs
  MaxFlips,     \* bound: entitlement changes
  MaxOpens,     \* bound: reads of the feed
  MaxRestarts   \* bound: process restarts

Runners == Warmers \cup Tasks
Procs   == Readers \cup Cyclers \cup Runners

ASSUME DisjointProcs ==
  /\ Readers \cap (Cyclers \cup Runners) = {}
  /\ Cyclers \cap Runners = {}
  /\ Warmers \cap Tasks = {}

ASSUME BoundsAssumption ==
  /\ MaxCycles \in Nat /\ MaxClock \in Nat /\ MaxFlips \in Nat
  /\ MaxOpens \in Nat /\ MaxRestarts \in Nat
  /\ MaxU64 \in Nat /\ MaxCycles < MaxU64
  /\ Panics \in BOOLEAN

Scopes  == {"Full", "FreeFloor"}
Origins == {"Computed", "Provisional", "Restored"}

\* Mutant: a single join, then give up.
JoinOnce == 1

\* warm joins the refresh it finds at most this often (the 0..3 loop).
WarmTries == 3

VARIABLES
  entitled,         \* settings::is_signal(), which a licence change flips
  clock,            \* instants, counted in finished data syncs
  slot,             \* the cached entry
  generation,       \* engine cycles recorded by this process
  inFlight,         \* refresh_in_flight
  refreshAgain,     \* refresh_again
  passStarted,      \* pass_started: an instant, or NoInstant
  restoreAttempted, \* scopes whose snapshot latch is set
  snapshot,         \* scopes with a restorable file on disk
  pc,               \* the next step of each process
  loc,              \* its local variables
  woken,            \* warms whose registered Notified has fired
  answer,           \* what each reader is returning
  covered,          \* history: the latest start of a computation that ended
  passGen,          \* history: the generation of the latest pass to begin
  flips, opens, restarts

cacheVars == <<slot, generation, inFlight, refreshAgain, passStarted>>
diskVars  == <<restoreAttempted, snapshot>>
procVars  == <<pc, loc, woken, answer>>
histVars  == <<covered, passGen>>
envVars   == <<entitled, clock, flips, opens, restarts>>
worldVars == <<histVars, envVars>>
vars == <<cacheVars, diskVars, procVars, worldVars>>

NoInstant == 0
Empty     == [origin |-> "None", scope |-> "FreeFloor", generation |-> 0,
              started |-> NoInstant, seen |-> 0, expired |-> FALSE]
NoLocals  == [scope |-> "FreeFloor", gen |-> 0, started |-> NoInstant,
              seen |-> 0, ready |-> NoInstant, tries |-> 0]
NoAnswer  == [origin |-> "None", asked |-> "FreeFloor", feed |-> "FreeFloor",
              view |-> "FreeFloor"]

\* The steps of a refresh run between claiming the flag and releasing it.
RunSteps == {"begin", "stamp", "publish", "compute", "computing", "store",
             "swap", "drop", "release"}
Steps == RunSteps \cup
  {"idle", "generation", "serve", "restore", "seed", "ride", "rebuild",
   "computeMiss", "persist", "answered", "kick", "queue", "scope", "check", "claim",
   "peek", "queuePass", "register", "test", "asleep", "notify", "returned"}

ScopeFor(e) == IF e THEN "Full" ELSE "FreeFloor"

\* Mutants: a plain subtraction; a seed filed under the current generation.
PrevUnwrapped(g) == g - 1
PrevForgotten(g) == g

\* u64 wrapping_sub(1).
Prev(g) == IF g = 0 THEN MaxU64 ELSE g - 1

Later(a, b) == IF a >= b THEN a ELSE b

Entry(origin, scope, gen, started, seen) ==
  [origin |-> origin, scope |-> scope, generation |-> gen,
   started |-> started, seen |-> seen, expired |-> FALSE]

Goto(p, step) == pc' = [pc EXCEPT ![p] = step]

\* free_floor_view: a full feed narrows to the floor, a floor is itself.
FreeFloorView(scope) == "FreeFloor"

Init ==
  /\ entitled \in BOOLEAN
  /\ clock = 1
  /\ slot = Empty
  /\ generation = 0
  /\ inFlight = FALSE
  /\ refreshAgain = FALSE
  /\ passStarted = NoInstant
  /\ restoreAttempted = {}
  /\ snapshot \in SUBSET Scopes
  /\ pc = [p \in Procs |-> "idle"]
  /\ loc = [p \in Procs |-> NoLocals]
  /\ woken = [w \in Warmers |-> FALSE]
  /\ answer = [r \in Readers |-> NoAnswer]
  /\ covered = NoInstant /\ passGen = 0
  /\ flips = 0 /\ opens = 0 /\ restarts = 0

-----------------------------------------------------------------------------
(* Reading the feed: current_tier_feed *)

\* Entitlement is read per call, before anything else.
Open(r) ==
  /\ pc[r] = "idle" /\ opens < MaxOpens
  /\ opens' = opens + 1
  /\ loc' = [loc EXCEPT ![r] = [NoLocals EXCEPT !.scope = ScopeFor(entitled)]]
  /\ Goto(r, "generation")
  /\ UNCHANGED <<cacheVars, diskVars, woken, answer, histVars, entitled, clock,
                 flips, restarts>>

ReadGeneration(r) ==
  /\ pc[r] = "generation"
  /\ loc' = [loc EXCEPT ![r].gen = generation]
  /\ Goto(r, "serve")
  /\ UNCHANGED <<cacheVars, diskVars, woken, answer, worldVars>>

\* entry_servable
Servable ==
  /\ slot.origin # "None"
  /\ ~slot.expired
  /\ slot.generation = generation \/ inFlight

\* Mutant: a restored feed is treated like any other.
FitsAnyOrigin(scope) == scope = "Full" => slot.scope = "Full"

\* Which cached entries may answer a caller of this scope, in what form.
Fits(scope) ==
  /\ slot.origin = "Restored" => slot.scope = scope
  /\ scope = "Full" => slot.scope = "Full"

View(scope) ==
  IF scope = "FreeFloor" THEN FreeFloorView(slot.scope) ELSE slot.scope

\* FeedCache::serve, under the slot lock.
Serve(r) ==
  LET scope == loc[r].scope IN
  /\ pc[r] = "serve"
  /\ \/ /\ Servable /\ Fits(scope)
        /\ answer' = [answer EXCEPT ![r] =
             [origin |-> slot.origin, asked |-> scope, feed |-> slot.scope,
              view |-> View(scope)]]
        /\ loc' = [loc EXCEPT ![r] = NoLocals]
        /\ Goto(r, "answered")
     \/ /\ ~(Servable /\ Fits(scope))
        /\ Goto(r, "restore")
        /\ UNCHANGED <<loc, answer>>
  /\ UNCHANGED <<cacheVars, diskVars, woken, worldVars>>

\* The miss path from here on computes: started = Instant::now().
StartMiss(r) ==
  /\ loc' = [loc EXCEPT ![r].started = clock, ![r].seen = generation]
  /\ Goto(r, "computeMiss")

\* restore_snapshot: at most one attempt per process and scope, which the latch
\* records unless the database could not even be opened.  A file that is there
\* may still be refused (version stamp, age, unreadable).
RestoreSnapshot(r) ==
  LET scope == loc[r].scope IN
  /\ pc[r] = "restore"
  /\ \/ /\ scope \in snapshot \ restoreAttempted
        /\ restoreAttempted' = restoreAttempted \cup {scope}
        /\ Goto(r, "seed")
        /\ UNCHANGED loc
     \/ /\ restoreAttempted' \in {restoreAttempted, restoreAttempted \cup {scope}}
        /\ StartMiss(r)
  /\ UNCHANGED <<cacheVars, snapshot, woken, answer, worldVars>>

\* serve_restored: only an empty slot is seeded, one generation behind.
Seed(r) ==
  /\ pc[r] = "seed"
  /\ \/ /\ slot.origin = "None"
        /\ slot' = Entry("Restored", loc[r].scope, Prev(generation), clock, 0)
        /\ Goto(r, "ride")
        /\ UNCHANGED loc
     \/ /\ slot.origin # "None"
        /\ StartMiss(r)
        /\ UNCHANGED slot
  /\ UNCHANGED <<generation, inFlight, refreshAgain, passStarted, diskVars,
                 woken, answer, worldVars>>

RestoredAnswer(scope) ==
  [origin |-> "Restored", asked |-> scope, feed |-> scope, view |-> scope]

\* ... and it answers if a refresh is running, or else starts one ("rebuild").
Ride(r) ==
  /\ pc[r] = "ride"
  /\ \/ /\ inFlight
        /\ answer' = [answer EXCEPT ![r] = RestoredAnswer(loc[r].scope)]
        /\ loc' = [loc EXCEPT ![r] = NoLocals]
        /\ Goto(r, "answered")
     \/ /\ ~inFlight
        /\ Goto(r, "rebuild")
        /\ UNCHANGED <<loc, answer>>
  /\ UNCHANGED <<cacheVars, diskVars, woken, worldVars>>

\* The cold compute on the request path fails: nothing is stored.
MissFails(r) ==
  /\ pc[r] = "computeMiss"
  /\ loc' = [loc EXCEPT ![r] = NoLocals]
  /\ Goto(r, "idle")
  /\ UNCHANGED <<cacheVars, diskVars, woken, answer, worldVars>>

\* It succeeds: an entitled caller stores the fast feed and starts the refresh
\* that replaces it; a free caller stores the floor and persists it.
MissStores(r) ==
  LET l == loc[r]
      origin == IF l.scope = "Full" THEN "Provisional" ELSE "Computed" IN
  /\ pc[r] = "computeMiss"
  /\ slot' = Entry(origin, l.scope, l.gen, l.started, l.seen)
  /\ answer' = [answer EXCEPT ![r] =
       [origin |-> origin, asked |-> l.scope, feed |-> l.scope,
        view |-> l.scope]]
  /\ loc' = [loc EXCEPT ![r] = NoLocals]
  /\ covered' = IF origin = "Computed" THEN Later(covered, l.started)
                                       ELSE covered
  /\ Goto(r, IF l.scope = "Full" THEN "kick" ELSE "persist")
  /\ UNCHANGED <<generation, inFlight, refreshAgain, passStarted, diskVars,
                 woken, passGen, envVars>>

\* persist is best-effort: the write may fail.
PersistFloor(r) ==
  /\ pc[r] = "persist"
  /\ snapshot' \in {snapshot, snapshot \cup {answer[r].feed}}
  /\ Goto(r, "answered")
  /\ UNCHANGED <<cacheVars, restoreAttempted, loc, woken, answer, worldVars>>

\* The caller has its feed.
Return(r) ==
  /\ pc[r] = "answered"
  /\ answer' = [answer EXCEPT ![r] = NoAnswer]
  /\ Goto(r, "idle")
  /\ UNCHANGED <<cacheVars, diskVars, loc, woken, worldVars>>

-----------------------------------------------------------------------------
(* Requesting a refresh: refresh_in_background, the engine-cycle hook *)

\* refresh_preemption_cache_after_cycle: invalidate, then request.
Invalidate(c) ==
  /\ pc[c] = "idle" /\ generation < MaxCycles
  /\ generation' = generation + 1
  /\ Goto(c, "kick")
  /\ UNCHANGED <<slot, inFlight, refreshAgain, passStarted, diskVars, loc,
                 woken, answer, worldVars>>

AfterKick(p) == IF p \in Readers THEN "answered" ELSE "idle"

\* The swap of refresh_in_flight: whoever finds it clear spawns the run.
Kick(p) ==
  /\ pc[p] \in {"kick", "rebuild"}
  /\ inFlight' = TRUE
  /\ \/ /\ inFlight
        /\ Goto(p, "queue")
     \/ /\ ~inFlight
        /\ \E t \in Tasks :
             /\ pc[t] = "idle"
             /\ pc' = [pc EXCEPT ![t] = "begin", ![p] = AfterKick(p)]
  /\ answer' = IF pc[p] = "rebuild"
               THEN [answer EXCEPT ![p] = RestoredAnswer(loc[p].scope)]
               ELSE answer
  /\ loc' = [loc EXCEPT ![p] = NoLocals]
  /\ UNCHANGED <<slot, generation, refreshAgain, passStarted, diskVars, woken,
                 worldVars>>

\* Whoever finds it set asks the running refresh for one more pass: a store
\* of its own, after the swap.
QueuePass(p) ==
  /\ pc[p] = "queue"
  /\ refreshAgain' = TRUE
  /\ Goto(p, AfterKick(p))
  /\ UNCHANGED <<slot, generation, inFlight, passStarted, diskVars, loc, woken,
                 answer, worldVars>>

-----------------------------------------------------------------------------
(* The refresh run: run_refresh, in a spawned task or inside warm *)

BeginPass(x) ==
  /\ pc[x] = "begin"
  /\ loc' = [loc EXCEPT ![x].gen = generation]
  /\ passGen' = generation
  /\ Goto(x, "stamp")
  /\ UNCHANGED <<cacheVars, diskVars, woken, answer, covered, envVars>>

StampPass(x) ==
  /\ pc[x] = "stamp"
  /\ loc' = [loc EXCEPT ![x].started = clock]
  /\ Goto(x, "publish")
  /\ UNCHANGED <<cacheVars, diskVars, woken, answer, worldVars>>

PublishPass(x) ==
  /\ pc[x] = "publish"
  /\ passStarted' = loc[x].started
  /\ Goto(x, "compute")
  /\ UNCHANGED <<slot, generation, inFlight, refreshAgain, diskVars, loc,
                 woken, answer, worldVars>>

\* compute_feed_for_cache reads the entitlement of this moment.
StartCompute(x) ==
  /\ pc[x] = "compute"
  /\ loc' = [loc EXCEPT ![x].scope = ScopeFor(entitled),
                        ![x].seen = generation]
  /\ Goto(x, "computing")
  /\ UNCHANGED <<cacheVars, diskVars, woken, answer, worldVars>>

\* Ok: the feed was persisted, best-effort, under its own scope.
ComputeOk(x) ==
  /\ pc[x] = "computing"
  /\ snapshot' \in {snapshot, snapshot \cup {loc[x].scope}}
  /\ Goto(x, "store")
  /\ UNCHANGED <<cacheVars, restoreAttempted, loc, woken, answer, worldVars>>

\* A pass is over: its locals go out of scope.
EndPass(x, step) ==
  /\ loc' = [loc EXCEPT ![x] = [NoLocals EXCEPT !.ready = loc[x].ready]]
  /\ Goto(x, step)

\* Err: logged; the loop goes on to the refresh_again test.
ComputeErr(x) ==
  /\ pc[x] = "computing"
  /\ covered' = Later(covered, loc[x].started)
  /\ EndPass(x, "swap")
  /\ UNCHANGED <<cacheVars, diskVars, woken, answer, passGen, envVars>>

\* Mutant: without the guard, a panic leaves the flag set.
ComputePanicsUnguarded(x) ==
  /\ Panics
  /\ pc[x] = "computing"
  /\ covered' = Later(covered, loc[x].started)
  /\ EndPass(x, IF x \in Warmers THEN "returned" ELSE "idle")
  /\ UNCHANGED <<cacheVars, diskVars, woken, answer, passGen, envVars>>

\* A panic or a cancellation leaves the loop; InFlightGuard still drops.
ComputePanics(x) ==
  /\ Panics
  /\ pc[x] = "computing"
  /\ covered' = Later(covered, loc[x].started)
  /\ EndPass(x, "drop")
  /\ UNCHANGED <<cacheVars, diskVars, woken, answer, passGen, envVars>>

\* Mutant: the entry takes the generation of the moment it is stored.
StoreCurrent(x) ==
  LET l == loc[x] IN
  /\ pc[x] = "store"
  /\ slot' = Entry("Computed", l.scope, generation, l.started, l.seen)
  /\ covered' = Later(covered, l.started)
  /\ EndPass(x, "swap")
  /\ UNCHANGED <<generation, inFlight, refreshAgain, passStarted, diskVars,
                 woken, answer, passGen, envVars>>

StoreComputed(x) ==
  LET l == loc[x] IN
  /\ pc[x] = "store"
  /\ slot' = Entry("Computed", l.scope, l.gen, l.started, l.seen)
  /\ covered' = Later(covered, l.started)
  /\ EndPass(x, "swap")
  /\ UNCHANGED <<generation, inFlight, refreshAgain, passStarted, diskVars,
                 woken, answer, passGen, envVars>>

\* refresh_again.swap(false)
SwapAgain(x) ==
  /\ pc[x] = "swap"
  /\ refreshAgain' = FALSE
  /\ Goto(x, IF refreshAgain THEN "begin" ELSE "drop")
  /\ UNCHANGED <<slot, generation, inFlight, passStarted, diskVars, loc, woken,
                 answer, worldVars>>

\* InFlightGuard::drop, in its three stores.
ClearPass(x) ==
  /\ pc[x] = "drop"
  /\ passStarted' = NoInstant
  /\ Goto(x, "release")
  /\ UNCHANGED <<slot, generation, inFlight, refreshAgain, diskVars, loc,
                 woken, answer, worldVars>>

\* Mutant: the run ends without telling the warms that joined it.
ReleaseSilently(x) ==
  /\ pc[x] = "release"
  /\ inFlight' = FALSE
  /\ Goto(x, IF x \in Warmers THEN "returned" ELSE "idle")
  /\ UNCHANGED <<slot, generation, refreshAgain, passStarted, diskVars, loc,
                 woken, answer, worldVars>>

ReleaseFlag(x) ==
  /\ pc[x] = "release"
  /\ inFlight' = FALSE
  /\ Goto(x, "notify")
  /\ UNCHANGED <<slot, generation, refreshAgain, passStarted, diskVars, loc,
                 woken, answer, worldVars>>

\* A Notified that exists when the run ends is woken; a run inside warm is
\* also where that warm returns.
NotifyWaiters(x) ==
  /\ pc[x] = "notify"
  /\ woken' = [w \in Warmers |-> woken[w] \/ pc[w] \in {"test", "asleep"}]
  /\ Goto(x, IF x \in Warmers THEN "returned" ELSE "idle")
  /\ UNCHANGED <<cacheVars, diskVars, loc, answer, worldVars>>

-----------------------------------------------------------------------------
(* Warming: warm_preemption_cache_since *)

\* A data sync ends; the warm for it is called now or later.
SyncFinished(w) ==
  /\ pc[w] \in {"idle", "returned"} /\ clock < MaxClock
  /\ clock' = clock + 1
  /\ loc' = [loc EXCEPT ![w] = [NoLocals EXCEPT !.ready = clock + 1]]
  /\ Goto(w, "scope")
  /\ UNCHANGED <<cacheVars, diskVars, woken, answer, histVars, entitled, flips,
                 opens, restarts>>

ReadWarmScope(w) ==
  /\ pc[w] = "scope"
  /\ loc' = [loc EXCEPT ![w].scope = ScopeFor(entitled)]
  /\ Goto(w, "check")
  /\ UNCHANGED <<cacheVars, diskVars, woken, answer, worldVars>>

HoldsComputedSince(scope, since) ==
  /\ slot.origin = "Computed"
  /\ slot.generation = generation
  /\ slot.scope = scope
  /\ slot.started >= since
  /\ ~slot.expired

CheckHeld(w) ==
  /\ pc[w] = "check"
  /\ Goto(w, IF HoldsComputedSince(loc[w].scope, loc[w].ready)
             THEN "returned" ELSE "claim")
  /\ UNCHANGED <<cacheVars, diskVars, loc, woken, answer, worldVars>>

\* warm's own swap of refresh_in_flight: it runs the refresh itself, or joins.
Claim(w) ==
  /\ pc[w] = "claim"
  /\ inFlight' = TRUE
  /\ Goto(w, IF inFlight THEN "peek" ELSE "begin")
  /\ UNCHANGED <<slot, generation, refreshAgain, passStarted, diskVars, loc,
                 woken, answer, worldVars>>

\* A pass that started before the data was in place cannot reflect it.
StalePass(since) == passStarted # NoInstant /\ passStarted < since

Peek(w) ==
  /\ pc[w] = "peek"
  /\ Goto(w, IF StalePass(loc[w].ready) THEN "queuePass" ELSE "register")
  /\ UNCHANGED <<cacheVars, diskVars, loc, woken, answer, worldVars>>

QueueWarmPass(w) ==
  /\ pc[w] = "queuePass"
  /\ refreshAgain' = TRUE
  /\ Goto(w, "register")
  /\ UNCHANGED <<slot, generation, inFlight, passStarted, diskVars, loc, woken,
                 answer, worldVars>>

\* wait_for_refresh: the Notified is created before the flag is tested.
Register(w) ==
  /\ pc[w] = "register"
  /\ woken' = [woken EXCEPT ![w] = FALSE]
  /\ Goto(w, "test")
  /\ UNCHANGED <<cacheVars, diskVars, loc, answer, worldVars>>

TestFlag(w) ==
  LET tried == loc[w].tries + 1 IN
  /\ pc[w] = "test"
  /\ \/ /\ inFlight
        /\ Goto(w, "asleep")
        /\ UNCHANGED loc
     \/ /\ ~inFlight
        /\ loc' = [loc EXCEPT ![w].tries = tried]
        /\ Goto(w, IF tried = WarmTries THEN "returned" ELSE "check")
  /\ UNCHANGED <<cacheVars, diskVars, woken, answer, worldVars>>

WakeUp(w) ==
  /\ pc[w] = "asleep" /\ woken[w]
  /\ Goto(w, "register")
  /\ UNCHANGED <<cacheVars, diskVars, loc, woken, answer, worldVars>>

-----------------------------------------------------------------------------
(* What the code does not control *)

FlipEntitlement ==
  /\ flips < MaxFlips
  /\ flips' = flips + 1
  /\ entitled' = ~entitled
  /\ UNCHANGED <<cacheVars, diskVars, procVars, histVars, clock, opens, restarts>>

\* The cached entry reaches MAX_AGE.
Expire ==
  /\ slot.origin # "None" /\ ~slot.expired
  /\ slot' = [slot EXCEPT !.expired = TRUE]
  /\ UNCHANGED <<generation, inFlight, refreshAgain, passStarted, diskVars,
                 procVars, worldVars>>

\* The process dies at any point; the next one has only the files.
Restart ==
  /\ restarts < MaxRestarts
  /\ restarts' = restarts + 1
  /\ slot' = Empty /\ generation' = 0
  /\ inFlight' = FALSE /\ refreshAgain' = FALSE /\ passStarted' = NoInstant
  /\ restoreAttempted' = {}
  /\ pc' = [p \in Procs |-> "idle"]
  /\ loc' = [p \in Procs |-> NoLocals]
  /\ woken' = [w \in Warmers |-> FALSE]
  /\ answer' = [r \in Readers |-> NoAnswer]
  /\ covered' = NoInstant /\ passGen' = 0
  /\ UNCHANGED <<snapshot, entitled, clock, flips, opens>>

-----------------------------------------------------------------------------
ReaderStep(r) ==
  \/ ReadGeneration(r) \/ Serve(r) \/ RestoreSnapshot(r) \/ Seed(r) \/ Ride(r)
  \/ MissFails(r) \/ MissStores(r) \/ PersistFloor(r) \/ Return(r)

RequestStep(p) == Kick(p) \/ QueuePass(p)

RunStep(x) ==
  \/ BeginPass(x) \/ StampPass(x) \/ PublishPass(x) \/ StartCompute(x)
  \/ ComputeOk(x) \/ ComputeErr(x) \/ ComputePanics(x) \/ StoreComputed(x)
  \/ SwapAgain(x) \/ ClearPass(x) \/ ReleaseFlag(x) \/ NotifyWaiters(x)

WarmStep(w) ==
  \/ ReadWarmScope(w) \/ CheckHeld(w) \/ Claim(w) \/ Peek(w)
  \/ QueueWarmPass(w) \/ Register(w) \/ TestFlag(w) \/ WakeUp(w)

Environment ==
  \/ \E r \in Readers : Open(r)
  \/ \E c \in Cyclers : Invalidate(c)
  \/ \E w \in Warmers : SyncFinished(w)
  \/ FlipEntitlement \/ Expire \/ Restart

Next ==
  \/ \E r \in Readers : ReaderStep(r)
  \/ \E p \in Readers \cup Cyclers : RequestStep(p)
  \/ \E x \in Runners : RunStep(x)
  \/ \E w \in Warmers : WarmStep(w)
  \/ Environment

Spec == Init /\ [][Next]_vars

\* The executors run every thread and task that can take a step; nothing makes
\* tabs open, cycles run, syncs finish, entries age or the process restart.
Fairness ==
  /\ \A r \in Readers : WF_vars(ReaderStep(r))
  /\ \A p \in Readers \cup Cyclers : WF_vars(RequestStep(p))
  /\ \A x \in Runners : WF_vars(RunStep(x))
  /\ \A w \in Warmers : WF_vars(WarmStep(w))

FairSpec == Spec /\ Fairness

-----------------------------------------------------------------------------
Answer == [origin : Origins \cup {"None"}, asked : Scopes, feed : Scopes,
           view : Scopes]
Slot == [origin : Origins \cup {"None"}, scope : Scopes, generation : Nat,
         started : Nat, seen : Nat, expired : BOOLEAN]
Locals == [scope : Scopes, gen : Nat, started : Nat, seen : Nat, ready : Nat,
           tries : Nat]

\* Every variable holds a value of the shape the code gives it.
TypeOK ==
  /\ entitled \in BOOLEAN
  /\ clock \in Nat
  /\ slot \in Slot
  /\ generation \in 0..MaxCycles
  /\ inFlight \in BOOLEAN /\ refreshAgain \in BOOLEAN
  /\ passStarted \in Nat
  /\ restoreAttempted \in SUBSET Scopes
  /\ snapshot \in SUBSET Scopes
  /\ pc \in [Procs -> Steps]
  /\ loc \in [Procs -> Locals]
  /\ woken \in [Warmers -> BOOLEAN]
  /\ answer \in [Readers -> Answer]
  /\ covered \in Nat /\ passGen \in Nat
  /\ flips \in Nat /\ opens \in Nat /\ restarts \in Nat

Running(x) == pc[x] \in RunSteps

\* Single flight: the startup warm, the post-cycle refresh, the restart rebuild
\* and the entitled miss never compute at once, and the flag is set exactly
\* while some run is there to clear it (InFlightGuard).
SingleFlight ==
  /\ \A x, y \in Runners : Running(x) /\ Running(y) => x = y
  /\ inFlight <=> \E x \in Runners : Running(x)

\* Tier safety: whatever entitlement changes and refreshes come in between, a
\* caller is answered in the scope it was entitled to when it asked, and a
\* restored feed answers only the scope it was materialized for.
TierSafe ==
  \A r \in Readers : answer[r].origin # "None" =>
    /\ answer[r].view = answer[r].asked
    /\ answer[r].view = "Full" => answer[r].feed = "Full"
    /\ answer[r].origin = "Restored" => answer[r].feed = answer[r].asked

\* An entry the cache calls current was computed from the data of the current
\* engine cycle: its generation was captured before the data was read.
FreshMeansCurrent ==
  slot.origin # "None" /\ slot.generation = generation => slot.seen = generation

\* A warm returns only after a computation that began once its data was in
\* place has ended, whoever ran it: no join, queued pass or lost request lets
\* it return on older data.
WarmCovered ==
  \A w \in Warmers : pc[w] = "returned" => covered >= loc[w].ready

\* The previous run's feed is only ever given out with its replacement in
\* flight.
RestoredWhileRebuilding ==
  [][\A r \in Readers :
       answer'[r] # answer[r] /\ answer'[r].origin = "Restored" => inFlight'
    ]_vars

\* "Each recorded cycle ... pre-warms the next feed in the background", "a
\* request is never silently dropped": once the cycle hooks have returned and
\* no run is in flight, a pass has begun for the current generation.
EveryCycleGetsAPass ==
  ~inFlight /\ (\A c \in Cyclers : pc[c] = "idle") => passGen = generation

\* No refresh run, panicking or asked to go on, pins the flag for ever.
RefreshEnds == inFlight ~> ~inFlight

\* Every warm returns: no notification is lost between its test of the flag and
\* its sleep.
WarmReturns == \A w \in Warmers : pc[w] = "scope" ~> pc[w] \in {"returned", "idle"}
=============================================================================
