--------------------------- MODULE FeedCacheProofs ---------------------------
(***************************************************************************)
(* Proofs about FeedCache, for any sets of readers, hooks, warms and tasks *)
(* and any bounds.                                                         *)
(***************************************************************************)
EXTENDS FeedCache, TLAPS

\* Every step of every process and of the environment, one disjunct each.
LEMMA NextCases ==
  ASSUME Next
  PROVE  \/ \E r \in Readers : Open(r) \/ ReaderStep(r)
         \/ \E c \in Cyclers : Invalidate(c)
         \/ \E p \in Readers \cup Cyclers : Kick(p) \/ QueuePass(p)
         \/ \E x \in Runners : RunStep(x)
         \/ \E w \in Warmers : SyncFinished(w) \/ WarmStep(w)
         \/ FlipEntitlement \/ Expire \/ Restart
  BY DEF Next, Environment, RequestStep

-----------------------------------------------------------------------------
(* Types *)

LEMMA RecordTypes ==
  /\ Empty \in Slot /\ NoLocals \in Locals /\ NoAnswer \in Answer
  /\ \A s \in Scopes : RestoredAnswer(s) \in Answer
  /\ \A o \in Origins, s \in Scopes, g, t, d \in Nat : Entry(o, s, g, t, d) \in Slot
  BY DEF Empty, NoLocals, NoAnswer, RestoredAnswer, Entry, Slot, Locals, Answer,
         Origins, Scopes, NoInstant

LEMMA PrevNat == \A g \in Nat : Prev(g) \in Nat
  BY BoundsAssumption DEF Prev

LEMMA InitType == Init => TypeOK
<1> SUFFICES ASSUME Init PROVE TypeOK
  OBVIOUS
<1>1. /\ clock \in Nat /\ generation \in 0..MaxCycles /\ passStarted \in Nat
      /\ covered \in Nat /\ passGen \in Nat
      /\ flips \in Nat /\ opens \in Nat /\ restarts \in Nat
  BY BoundsAssumption DEF Init, NoInstant
<1>6. /\ entitled \in BOOLEAN /\ inFlight \in BOOLEAN /\ refreshAgain \in BOOLEAN
      /\ restoreAttempted \in SUBSET Scopes /\ snapshot \in SUBSET Scopes
  BY Zenon DEF Init
<1>2. slot \in Slot /\ loc \in [Procs -> Locals] /\ answer \in [Readers -> Answer]
  BY RecordTypes DEF Init
<1>3. "idle" \in Steps
  BY DEF Steps
<1>4. pc \in [Procs -> Steps]
  BY <1>3 DEF Init
<1>5. woken \in [Warmers -> BOOLEAN]
  BY DEF Init
<1> QED
  BY <1>1, <1>2, <1>4, <1>5, <1>6 DEF TypeOK

LEMMA ReaderType ==
  ASSUME TypeOK, NEW r \in Readers, Open(r) \/ ReaderStep(r)
  PROVE  TypeOK'
<1> r \in Procs
  BY DEF Procs
<1> /\ loc[r] \in Locals /\ loc[r].scope \in Scopes /\ loc[r].gen \in Nat
    /\ loc[r].started \in Nat /\ loc[r].seen \in Nat
    /\ slot \in Slot /\ pc \in [Procs -> Steps] /\ generation \in Nat
    /\ slot.scope \in Scopes /\ slot.origin \in Origins \cup {"None"}
  BY BoundsAssumption DEF TypeOK, Locals, Slot
<1> USE DEF vars, cacheVars, diskVars, procVars, worldVars, histVars, envVars,
            Goto
<1>1. CASE Open(r)
  <2>1. [NoLocals EXCEPT !.scope = ScopeFor(entitled)] \in Locals
    BY DEF NoLocals, Locals, ScopeFor, Scopes, NoInstant
  <2> QED
    BY <1>1, <2>1 DEF Open, TypeOK, Steps
<1>2. CASE ReadGeneration(r)
  BY <1>2, BoundsAssumption DEF ReadGeneration, TypeOK, Locals, Steps
<1>3. CASE Serve(r)
  <2>1. slot.origin # "None" /\ Fits(loc[r].scope) =>
          [origin |-> slot.origin, asked |-> loc[r].scope, feed |-> slot.scope,
           view |-> View(loc[r].scope)] \in Answer
    BY DEF Answer, View, FreeFloorView, Scopes, Origins
  <2>2. answer' \in [Readers -> Answer]
    BY <1>3, <2>1 DEF Serve, Servable, TypeOK
  <2>3. loc' \in [Procs -> Locals] /\ pc' \in [Procs -> Steps]
    BY <1>3, RecordTypes DEF Serve, TypeOK, Steps
  <2> QED
    BY <1>3, <2>2, <2>3 DEF Serve, TypeOK
<1>4. CASE RestoreSnapshot(r)
  <2>1. loc' \in [Procs -> Locals] /\ pc' \in [Procs -> Steps]
    BY <1>4, BoundsAssumption
    DEF RestoreSnapshot, StartMiss, TypeOK, Locals, Steps
  <2>2. restoreAttempted' \in SUBSET Scopes
    BY <1>4 DEF RestoreSnapshot, TypeOK
  <2> QED
    BY <1>4, <2>1, <2>2 DEF RestoreSnapshot, TypeOK
<1>5. CASE Seed(r)
  <2>1. loc' \in [Procs -> Locals] /\ pc' \in [Procs -> Steps]
    BY <1>5, BoundsAssumption DEF Seed, StartMiss, TypeOK, Locals, Steps
  <2>2. Entry("Restored", loc[r].scope, Prev(generation), clock, 0) \in Slot
    BY RecordTypes, PrevNat DEF TypeOK, Origins
  <2>3. slot' \in Slot
    BY <1>5, <2>2 DEF Seed
  <2> QED
    BY <1>5, <2>1, <2>3 DEF Seed, TypeOK
<1>6. CASE Ride(r)
  <2>1. loc' \in [Procs -> Locals] /\ pc' \in [Procs -> Steps]
    BY <1>6, RecordTypes DEF Ride, TypeOK, Steps
  <2>2. answer' \in [Readers -> Answer]
    BY <1>6, RecordTypes DEF Ride, TypeOK
  <2> QED
    BY <1>6, <2>1, <2>2 DEF Ride, TypeOK
<1>7. CASE MissFails(r)
  BY <1>7, RecordTypes DEF MissFails, TypeOK, Steps
<1>8. CASE MissStores(r)
  <2> DEFINE o == IF loc[r].scope = "Full" THEN "Provisional" ELSE "Computed"
  <2>1. o \in Origins
    BY DEF Origins
  <2>2. slot' \in Slot
    BY <1>8, <2>1, RecordTypes DEF MissStores
  <2>3. [origin |-> o, asked |-> loc[r].scope, feed |-> loc[r].scope,
         view |-> loc[r].scope] \in Answer
    BY <2>1 DEF Answer
  <2>4. answer' \in [Readers -> Answer]
    BY <1>8, <2>3 DEF MissStores, TypeOK
  <2>5. loc' \in [Procs -> Locals] /\ pc' \in [Procs -> Steps]
    BY <1>8, RecordTypes DEF MissStores, TypeOK, Steps
  <2>6. covered' \in Nat
    BY <1>8 DEF MissStores, TypeOK, Later
  <2> QED
    BY <1>8, <2>2, <2>4, <2>5, <2>6 DEF MissStores, TypeOK
<1>9. CASE PersistFloor(r)
  <2>1. answer[r].feed \in Scopes
    BY DEF TypeOK, Answer
  <2> QED
    BY <1>9, <2>1 DEF PersistFloor, TypeOK, Steps
<1>10. CASE Return(r)
  BY <1>10, RecordTypes DEF Return, TypeOK, Steps
<1> QED
  BY <1>1, <1>2, <1>3, <1>4, <1>5, <1>6, <1>7, <1>8, <1>9, <1>10 DEF ReaderStep

LEMMA RequestType ==
  ASSUME TypeOK, NEW p \in Readers \cup Cyclers, Kick(p) \/ QueuePass(p)
  PROVE  TypeOK'
<1> p \in Procs /\ Tasks \subseteq Procs
  BY DEF Procs, Runners
<1> USE DEF vars, cacheVars, diskVars, procVars, worldVars, histVars, envVars,
            Goto
<1>1. CASE Kick(p)
  <2>1. pc' \in [Procs -> Steps]
    <3>1. AfterKick(p) \in Steps /\ "queue" \in Steps /\ "begin" \in Steps
      BY DEF AfterKick, Steps, RunSteps
    <3> QED
      BY <1>1, <3>1 DEF Kick, TypeOK
  <2>2. loc' \in [Procs -> Locals] /\ RestoredAnswer(loc[p].scope) \in Answer
    BY <1>1, RecordTypes DEF Kick, TypeOK, Locals
  <2>3. answer' \in [Readers -> Answer]
    BY <1>1, <2>2 DEF Kick, TypeOK
  <2> QED
    BY <1>1, <2>1, <2>2, <2>3 DEF Kick, TypeOK
<1>2. CASE QueuePass(p)
  BY <1>2 DEF QueuePass, AfterKick, TypeOK, Steps
<1> QED
  BY <1>1, <1>2

LEMMA RunType ==
  ASSUME TypeOK, NEW x \in Runners, RunStep(x)
  PROVE  TypeOK'
<1> x \in Procs
  BY DEF Procs
<1> /\ loc[x] \in Locals /\ loc[x].scope \in Scopes /\ loc[x].gen \in Nat
    /\ loc[x].started \in Nat /\ loc[x].seen \in Nat /\ loc[x].ready \in Nat
    /\ pc \in [Procs -> Steps] /\ generation \in Nat
  BY BoundsAssumption DEF TypeOK, Locals
<1> [NoLocals EXCEPT !.ready = loc[x].ready] \in Locals
  BY DEF NoLocals, Locals, Scopes, NoInstant
<1> USE DEF vars, cacheVars, diskVars, procVars, worldVars, histVars, envVars,
            Goto
<1>1. CASE BeginPass(x)
  BY <1>1 DEF BeginPass, TypeOK, Locals, Steps, RunSteps
<1>2. CASE StampPass(x)
  BY <1>2 DEF StampPass, TypeOK, Locals, Steps, RunSteps
<1>3. CASE PublishPass(x)
  BY <1>3 DEF PublishPass, TypeOK, Steps, RunSteps
<1>4. CASE StartCompute(x)
  BY <1>4 DEF StartCompute, TypeOK, Locals, Steps, RunSteps, ScopeFor, Scopes
<1>5. CASE ComputeOk(x)
  BY <1>5 DEF ComputeOk, TypeOK, Steps, RunSteps
<1>6. CASE ComputeErr(x)
  BY <1>6 DEF ComputeErr, EndPass, TypeOK, Steps, RunSteps, Later
<1>7. CASE ComputePanics(x)
  BY <1>7 DEF ComputePanics, EndPass, TypeOK, Steps, RunSteps, Later
<1>8. CASE StoreComputed(x)
  <2>1. slot' \in Slot
    BY <1>8, RecordTypes DEF StoreComputed, Origins
  <2> QED
    BY <1>8, <2>1 DEF StoreComputed, EndPass, TypeOK, Steps, RunSteps, Later
<1>9. CASE SwapAgain(x)
  BY <1>9 DEF SwapAgain, TypeOK, Steps, RunSteps
<1>10. CASE ClearPass(x)
  BY <1>10 DEF ClearPass, TypeOK, Steps, RunSteps, NoInstant
<1>11. CASE ReleaseFlag(x)
  BY <1>11 DEF ReleaseFlag, TypeOK, Steps
<1>12. CASE NotifyWaiters(x)
  <2>1. woken' \in [Warmers -> BOOLEAN]
    BY <1>12 DEF NotifyWaiters, TypeOK
  <2>2. pc' \in [Procs -> Steps]
    BY <1>12 DEF NotifyWaiters, TypeOK, Steps
  <2> QED
    BY <1>12, <2>1, <2>2 DEF NotifyWaiters, TypeOK
<1> QED
  BY <1>1, <1>2, <1>3, <1>4, <1>5, <1>6, <1>7, <1>8, <1>9, <1>10, <1>11, <1>12
  DEF RunStep

LEMMA WarmType ==
  ASSUME TypeOK, NEW w \in Warmers, SyncFinished(w) \/ WarmStep(w)
  PROVE  TypeOK'
<1> w \in Procs
  BY DEF Procs, Runners
<1> /\ loc[w] \in Locals /\ loc[w].tries \in Nat /\ pc \in [Procs -> Steps]
    /\ clock \in Nat
  BY DEF TypeOK, Locals
<1> USE DEF vars, cacheVars, diskVars, procVars, worldVars, histVars, envVars,
            Goto
<1>1. CASE SyncFinished(w)
  <2>1. [NoLocals EXCEPT !.ready = clock + 1] \in Locals
    BY DEF NoLocals, Locals, Scopes, NoInstant
  <2> QED
    BY <1>1, <2>1 DEF SyncFinished, TypeOK, Steps
<1>2. CASE ReadWarmScope(w)
  BY <1>2 DEF ReadWarmScope, TypeOK, Steps, Locals, ScopeFor, Scopes
<1>3. CASE CheckHeld(w)
  BY <1>3 DEF CheckHeld, TypeOK, Steps
<1>4. CASE Claim(w)
  BY <1>4 DEF Claim, TypeOK, Steps, RunSteps
<1>5. CASE Peek(w)
  BY <1>5 DEF Peek, TypeOK, Steps
<1>6. CASE QueueWarmPass(w)
  BY <1>6 DEF QueueWarmPass, TypeOK, Steps
<1>7. CASE Register(w)
  BY <1>7 DEF Register, TypeOK, Steps
<1>8. CASE TestFlag(w)
  BY <1>8 DEF TestFlag, TypeOK, Steps, Locals
<1>9. CASE WakeUp(w)
  BY <1>9 DEF WakeUp, TypeOK, Steps
<1> QED
  BY <1>1, <1>2, <1>3, <1>4, <1>5, <1>6, <1>7, <1>8, <1>9 DEF WarmStep

LEMMA WorldType ==
  ASSUME TypeOK,
         (\E c \in Cyclers : Invalidate(c)) \/ FlipEntitlement \/ Expire \/ Restart
  PROVE  TypeOK'
<1> USE DEF vars, cacheVars, diskVars, procVars, worldVars, histVars, envVars,
            Goto
<1>1. CASE \E c \in Cyclers : Invalidate(c)
  BY <1>1, BoundsAssumption DEF Invalidate, TypeOK, Steps, Procs
<1>2. CASE FlipEntitlement
  BY <1>2 DEF FlipEntitlement, TypeOK
<1>3. CASE Expire
  BY <1>3 DEF Expire, TypeOK, Slot
<1>4. CASE Restart
  <2>1. "idle" \in Steps
    BY DEF Steps
  <2>2. pc' \in [Procs -> Steps] /\ loc' \in [Procs -> Locals]
    BY <1>4, <2>1, RecordTypes DEF Restart
  <2>3. woken' \in [Warmers -> BOOLEAN] /\ answer' \in [Readers -> Answer]
    BY <1>4, RecordTypes DEF Restart
  <2>4. /\ generation' \in 0..MaxCycles /\ passStarted' \in Nat
        /\ covered' \in Nat /\ passGen' \in Nat /\ restarts' \in Nat
    BY <1>4, BoundsAssumption DEF Restart, TypeOK, NoInstant
  <2>5. /\ inFlight' \in BOOLEAN /\ refreshAgain' \in BOOLEAN
        /\ restoreAttempted' \in SUBSET Scopes /\ slot' \in Slot
    BY <1>4, RecordTypes, Zenon DEF Restart
  <2> QED
    BY <1>4, <2>2, <2>3, <2>4, <2>5 DEF Restart, TypeOK
<1> QED
  BY <1>1, <1>2, <1>3, <1>4

\* Type correctness of the whole cache.
THEOREM TypeCorrect == Spec => []TypeOK
<1>1. TypeOK /\ [Next]_vars => TypeOK'
  <2> SUFFICES ASSUME TypeOK, [Next]_vars PROVE TypeOK'
    OBVIOUS
  <2>1. CASE Next
    BY <2>1, NextCases, ReaderType, RequestType, RunType, WarmType, WorldType
  <2>2. CASE UNCHANGED vars
    BY <2>2 DEF vars, cacheVars, diskVars, procVars, worldVars, histVars,
                envVars, TypeOK
  <2> QED
    BY <2>1, <2>2
<1> QED
  BY <1>1, InitType, PTL DEF Spec

-----------------------------------------------------------------------------
(* Single flight *)

\* Steps that move no runner into or out of a run keep single flight.
LEMMA FlightFrame ==
  ASSUME SingleFlight, inFlight' = inFlight,
         \A x \in Runners : Running(x)' <=> Running(x)
  PROVE  SingleFlight'
  BY DEF SingleFlight

LEMMA ReaderFlight ==
  ASSUME TypeOK, SingleFlight, NEW r \in Readers, Open(r) \/ ReaderStep(r)
  PROVE  SingleFlight'
<1>1. \A x \in Runners : pc'[x] = pc[x]
  BY DisjointProcs
  DEF Open, ReaderStep, ReadGeneration, Serve, RestoreSnapshot, StartMiss, Seed,
      Ride, MissFails, MissStores, PersistFloor, Return, Goto, TypeOK, Procs
<1>2. inFlight' = inFlight
  BY DEF Open, ReaderStep, ReadGeneration, Serve, RestoreSnapshot, StartMiss,
         Seed, Ride, MissFails, MissStores, PersistFloor, Return, cacheVars
<1> QED
  BY <1>1, <1>2, FlightFrame DEF Running

LEMMA RequestFlight ==
  ASSUME TypeOK, SingleFlight, NEW p \in Readers \cup Cyclers,
         Kick(p) \/ QueuePass(p)
  PROVE  SingleFlight'
<1> p \in Procs /\ p \notin Runners /\ Runners \subseteq Procs
  BY DisjointProcs DEF Procs
<1>1. CASE inFlight /\ Kick(p)
  BY <1>1, FlightFrame DEF Kick, Goto, TypeOK, Running
<1>2. CASE ~inFlight /\ Kick(p)
  <2>1. PICK t \in Tasks : pc' = [pc EXCEPT ![t] = "begin", ![p] = AfterKick(p)]
    BY <1>2 DEF Kick
  <2>2. t \in Runners
    BY DEF Runners
  <2>3. pc'[t] = "begin" /\ \A x \in Runners : x # t => pc'[x] = pc[x]
    BY <2>1, <2>2 DEF TypeOK
  <2>4. \A x \in Runners : ~Running(x)
    BY <1>2 DEF SingleFlight
  <2>5. Running(t)' /\ \A x \in Runners : Running(x)' => x = t
    BY <2>3, <2>4 DEF Running, RunSteps
  <2> QED
    BY <1>2, <2>2, <2>5 DEF Kick, SingleFlight
<1>3. CASE QueuePass(p)
  BY <1>3, FlightFrame DEF QueuePass, Goto, TypeOK, Running
<1> QED
  BY <1>1, <1>2, <1>3

LEMMA RunFlight ==
  ASSUME TypeOK, SingleFlight, NEW x \in Runners, RunStep(x)
  PROVE  SingleFlight'
<1> x \in Procs /\ Runners \subseteq Procs
  BY DEF Procs
<1> USE DEF vars, cacheVars, diskVars, procVars, worldVars, histVars, envVars,
            Goto, EndPass
<1>1. CASE ReleaseFlag(x)
  <2>1. \A y \in Runners : Running(y) => y = x
    BY <1>1 DEF ReleaseFlag, SingleFlight, Running, RunSteps
  <2>2. \A y \in Runners : ~Running(y)'
    BY <1>1, <2>1 DEF ReleaseFlag, TypeOK, Running, RunSteps
  <2> QED
    BY <1>1, <2>2 DEF ReleaseFlag, SingleFlight
<1>2. CASE NotifyWaiters(x)
  BY <1>2, FlightFrame DEF NotifyWaiters, TypeOK, Running, RunSteps
<1>3. CASE ~ReleaseFlag(x) /\ ~NotifyWaiters(x)
  <2>1. /\ pc[x] \in RunSteps /\ pc'[x] \in RunSteps
        /\ \A y \in Runners : y # x => pc'[y] = pc[y]
    BY <1>3 DEF RunStep, BeginPass, StampPass, PublishPass, StartCompute,
                ComputeOk, ComputeErr, ComputePanics, StoreComputed, SwapAgain,
                ClearPass, TypeOK, RunSteps
  <2>2. inFlight' = inFlight
    BY <1>3 DEF RunStep, BeginPass, StampPass, PublishPass, StartCompute,
                ComputeOk, ComputeErr, ComputePanics, StoreComputed, SwapAgain,
                ClearPass
  <2> QED
    BY <2>1, <2>2, FlightFrame DEF Running
<1> QED
  BY <1>1, <1>2, <1>3

LEMMA WarmFlight ==
  ASSUME TypeOK, SingleFlight, NEW w \in Warmers, SyncFinished(w) \/ WarmStep(w)
  PROVE  SingleFlight'
<1> w \in Procs /\ w \in Runners /\ Runners \subseteq Procs
  BY DEF Procs, Runners
<1> USE DEF vars, cacheVars, diskVars, procVars, worldVars, histVars, envVars,
            Goto
<1>1. CASE Claim(w) /\ ~inFlight
  <2>1. \A x \in Runners : ~Running(x)
    BY <1>1 DEF SingleFlight
  <2>2. Running(w)' /\ \A x \in Runners : Running(x)' => x = w
    BY <1>1, <2>1 DEF Claim, TypeOK, Running, RunSteps
  <2> QED
    BY <1>1, <2>2 DEF Claim, SingleFlight
<1>2. CASE ~(Claim(w) /\ ~inFlight)
  <2>1. /\ pc[w] \notin RunSteps /\ pc'[w] \notin RunSteps
        /\ \A x \in Runners : x # w => pc'[x] = pc[x]
    BY <1>2 DEF WarmStep, SyncFinished, ReadWarmScope, CheckHeld, Claim, Peek,
                QueueWarmPass, Register, TestFlag, WakeUp, TypeOK, RunSteps
  <2>2. inFlight' = inFlight
    BY <1>2 DEF WarmStep, SyncFinished, ReadWarmScope, CheckHeld, Claim, Peek,
                QueueWarmPass, Register, TestFlag, WakeUp, TypeOK
  <2> QED
    BY <2>1, <2>2, FlightFrame DEF Running
<1> QED
  BY <1>1, <1>2

LEMMA WorldFlight ==
  ASSUME TypeOK, SingleFlight,
         (\E c \in Cyclers : Invalidate(c)) \/ FlipEntitlement \/ Expire \/ Restart
  PROVE  SingleFlight'
<1> Runners \subseteq Procs
  BY DEF Procs
<1>1. CASE \E c \in Cyclers : Invalidate(c)
  <2>1. \A x \in Runners : pc'[x] = pc[x]
    BY <1>1, DisjointProcs DEF Invalidate, Goto, TypeOK
  <2> QED
    BY <1>1, <2>1, FlightFrame DEF Invalidate, Running
<1>2. CASE FlipEntitlement \/ Expire
  BY <1>2, FlightFrame
  DEF FlipEntitlement, Expire, Running, cacheVars, procVars
<1>3. CASE Restart
  BY <1>3 DEF Restart, SingleFlight, Running, RunSteps
<1> QED
  BY <1>1, <1>2, <1>3

\* At most one refresh run at a time, and the flag is set exactly while there
\* is one: no path leaves it set behind a dead run or clear beside a live one.
THEOREM SingleFlightHolds == Spec => []SingleFlight
<1>1. Init => SingleFlight
  BY DEF Init, SingleFlight, Running, RunSteps, Procs
<1>2. TypeOK /\ SingleFlight /\ [Next]_vars => SingleFlight'
  <2> SUFFICES ASSUME TypeOK, SingleFlight, [Next]_vars PROVE SingleFlight'
    OBVIOUS
  <2>1. CASE Next
    BY <2>1, NextCases, ReaderFlight, RequestFlight, RunFlight, WarmFlight,
       WorldFlight
  <2>2. CASE UNCHANGED vars
    BY <2>2, FlightFrame DEF vars, cacheVars, procVars, Running
  <2> QED
    BY <2>1, <2>2
<1> QED
  BY <1>1, <1>2, TypeCorrect, PTL DEF Spec

-----------------------------------------------------------------------------
(* Freshness *)

\* The steps at which a process holds both the generation it captured and the
\* cycles its computation read.
Computing == {"computing", "store", "computeMiss"}

\* What makes FreshMeansCurrent inductive: a captured generation is never
\* newer than the data read after it, and a restored seed is of no generation
\* this process reaches again.
FreshInv ==
  /\ slot.origin \in {"Computed", "Provisional"} =>
       slot.generation <= slot.seen /\ slot.seen <= generation
  /\ slot.origin = "Restored" =>
       slot.generation < generation \/ slot.generation = MaxU64
  /\ \A p \in Procs :
       /\ loc[p].gen <= generation /\ loc[p].seen <= generation
       /\ pc[p] \in Computing => loc[p].gen <= loc[p].seen

LEMMA FreshNext ==
  ASSUME TypeOK, FreshInv, Next
  PROVE  FreshInv'
<1> USE DEF vars, cacheVars, diskVars, procVars, worldVars, histVars, envVars,
            Goto, EndPass
<1> /\ slot \in Slot /\ generation \in Nat /\ pc \in [Procs -> Steps]
    /\ loc \in [Procs -> Locals]
    /\ \A p \in Procs : loc[p].gen \in Nat /\ loc[p].seen \in Nat
  BY BoundsAssumption DEF TypeOK, Locals
<1> /\ Readers \subseteq Procs /\ Cyclers \subseteq Procs
    /\ Runners \subseteq Procs /\ Warmers \subseteq Procs /\ Tasks \subseteq Procs
  BY DEF Procs, Runners
<1> NoLocals.gen = 0 /\ NoLocals.seen = 0
  BY DEF NoLocals
<1>1. ASSUME NEW r \in Readers, Open(r) \/ ReaderStep(r)
      PROVE  FreshInv'
  <2>1. CASE Seed(r)
    <3>1. slot'.origin = "Restored" /\ slot' # slot =>
            slot'.generation = Prev(generation)
      BY <2>1 DEF Seed, Entry
    <3>2. Prev(generation) < generation \/ Prev(generation) = MaxU64
      BY DEF Prev
    <3>3. slot'.origin \in {"Computed", "Provisional"} => slot' = slot
      BY <2>1 DEF Seed, Entry
    <3>4. \A p \in Procs :
            /\ loc'[p].gen <= generation /\ loc'[p].seen <= generation
            /\ pc'[p] \in Computing => loc'[p].gen <= loc'[p].seen
      BY <2>1 DEF Seed, StartMiss, FreshInv, Computing, Locals
    <3> QED
      BY <2>1, <3>1, <3>2, <3>3, <3>4 DEF Seed, FreshInv
  <2>2. CASE MissStores(r)
    <3>1. /\ slot'.generation = loc[r].gen /\ slot'.seen = loc[r].seen
          /\ slot'.origin \in {"Computed", "Provisional"}
      BY <2>2 DEF MissStores, Entry
    <3>2. loc[r].gen <= loc[r].seen /\ loc[r].seen <= generation
      BY <2>2 DEF MissStores, FreshInv, Computing
    <3>3. \A p \in Procs :
            /\ loc'[p].gen <= generation /\ loc'[p].seen <= generation
            /\ pc'[p] \in Computing => loc'[p].gen <= loc'[p].seen
      BY <2>2 DEF MissStores, FreshInv, Computing
    <3> QED
      BY <2>2, <3>1, <3>2, <3>3 DEF MissStores, FreshInv
  <2>3. CASE ~Seed(r) /\ ~MissStores(r)
    <3>1. slot' = slot /\ generation' = generation
      BY <1>1, <2>3
      DEF Open, ReaderStep, ReadGeneration, Serve, RestoreSnapshot, Ride,
          MissFails, PersistFloor, Return
    <3>2. \A p \in Procs : p # r => loc'[p] = loc[p] /\ pc'[p] = pc[p]
      BY <1>1, <2>3
      DEF Open, ReaderStep, ReadGeneration, Serve, RestoreSnapshot, StartMiss,
          Ride, MissFails, PersistFloor, Return
    <3>3. /\ loc'[r].gen <= generation /\ loc'[r].seen <= generation
          /\ pc'[r] \in Computing => loc'[r].gen <= loc'[r].seen
      <4>1. CASE Open(r)
        BY <4>1 DEF Open, NoLocals, Computing
      <4>2. CASE ReadGeneration(r)
        BY <4>2 DEF ReadGeneration, FreshInv, Computing, Locals
      <4>3. CASE RestoreSnapshot(r)
        BY <4>3 DEF RestoreSnapshot, StartMiss, FreshInv, Computing, Locals
      <4>4. CASE Serve(r) \/ Ride(r) \/ MissFails(r)
        BY <4>4 DEF Serve, Ride, MissFails, FreshInv, Computing
      <4>5. CASE PersistFloor(r) \/ Return(r)
        BY <4>5 DEF PersistFloor, Return, FreshInv, Computing
      <4> QED
        BY <1>1, <2>3, <4>1, <4>2, <4>3, <4>4, <4>5 DEF ReaderStep
    <3>4. \A p \in Procs :
            /\ loc'[p].gen <= generation /\ loc'[p].seen <= generation
            /\ pc'[p] \in Computing => loc'[p].gen <= loc'[p].seen
      BY <3>2, <3>3 DEF FreshInv
    <3> QED
      BY <3>1, <3>4 DEF FreshInv
  <2> QED
    BY <2>1, <2>2, <2>3
<1>2. ASSUME NEW p \in Readers \cup Cyclers, Kick(p) \/ QueuePass(p)
      PROVE  FreshInv'
  BY <1>2 DEF Kick, AfterKick, QueuePass, FreshInv, Computing
<1>3. ASSUME NEW x \in Runners, RunStep(x)
      PROVE  FreshInv'
  <2>1. generation' = generation
    BY <1>3
    DEF RunStep, BeginPass, StampPass, PublishPass, StartCompute, ComputeOk,
        ComputeErr, ComputePanics, StoreComputed, SwapAgain, ClearPass,
        ReleaseFlag, NotifyWaiters
  <2>2. slot' = slot \/
        /\ slot'.origin = "Computed"
        /\ slot'.generation <= slot'.seen /\ slot'.seen <= generation
    BY <1>3
    DEF RunStep, BeginPass, StampPass, PublishPass, StartCompute, ComputeOk,
        ComputeErr, ComputePanics, StoreComputed, SwapAgain, ClearPass,
        ReleaseFlag, NotifyWaiters, FreshInv, Computing, Entry
  <2>3. \A p \in Procs : p # x => loc'[p] = loc[p] /\ pc'[p] = pc[p]
    BY <1>3
    DEF RunStep, BeginPass, StampPass, PublishPass, StartCompute, ComputeOk,
        ComputeErr, ComputePanics, StoreComputed, SwapAgain, ClearPass,
        ReleaseFlag, NotifyWaiters
  <2>4. /\ loc'[x].gen <= generation /\ loc'[x].seen <= generation
        /\ pc'[x] \in Computing => loc'[x].gen <= loc'[x].seen
    <3>1. CASE BeginPass(x)
      BY <3>1 DEF BeginPass, FreshInv, Computing, Locals
    <3>2. CASE StampPass(x)
      BY <3>2 DEF StampPass, FreshInv, Computing, Locals
    <3>3. CASE StartCompute(x)
      BY <3>3 DEF StartCompute, FreshInv, Computing, Locals
    <3>4. CASE ComputeErr(x) \/ ComputePanics(x) \/ StoreComputed(x)
      BY <3>4 DEF ComputeErr, ComputePanics, StoreComputed, NoLocals, Computing
    <3>5. CASE ComputeOk(x)
      BY <3>5 DEF ComputeOk, FreshInv, Computing
    <3>6. CASE \/ PublishPass(x) \/ SwapAgain(x) \/ ClearPass(x)
               \/ ReleaseFlag(x) \/ NotifyWaiters(x)
      BY <3>6 DEF PublishPass, SwapAgain, ClearPass, ReleaseFlag, NotifyWaiters,
                  FreshInv, Computing
    <3> QED
      BY <1>3, <3>1, <3>2, <3>3, <3>4, <3>5, <3>6 DEF RunStep
  <2>5. \A p \in Procs :
          /\ loc'[p].gen <= generation /\ loc'[p].seen <= generation
          /\ pc'[p] \in Computing => loc'[p].gen <= loc'[p].seen
    BY <2>3, <2>4 DEF FreshInv
  <2> QED
    BY <2>1, <2>2, <2>5 DEF FreshInv
<1>4. ASSUME NEW w \in Warmers, SyncFinished(w) \/ WarmStep(w)
      PROVE  FreshInv'
  <2>1. slot' = slot /\ generation' = generation
    BY <1>4
    DEF WarmStep, SyncFinished, ReadWarmScope, CheckHeld, Claim, Peek,
        QueueWarmPass, Register, TestFlag, WakeUp
  <2>2. \A p \in Procs : p # w => loc'[p] = loc[p] /\ pc'[p] = pc[p]
    BY <1>4
    DEF WarmStep, SyncFinished, ReadWarmScope, CheckHeld, Claim, Peek,
        QueueWarmPass, Register, TestFlag, WakeUp
  <2>3. loc'[w].gen <= generation /\ loc'[w].seen <= generation
    <3>1. CASE SyncFinished(w)
      BY <3>1 DEF SyncFinished, NoLocals
    <3>2. CASE ReadWarmScope(w)
      BY <3>2 DEF ReadWarmScope, FreshInv, Locals
    <3>3. CASE TestFlag(w)
      BY <3>3 DEF TestFlag, FreshInv, Locals
    <3>4. CASE \/ CheckHeld(w) \/ Claim(w) \/ Peek(w) \/ QueueWarmPass(w)
               \/ Register(w) \/ WakeUp(w)
      BY <3>4 DEF CheckHeld, Claim, Peek, QueueWarmPass, Register, WakeUp,
                  FreshInv
    <3> QED
      BY <1>4, <3>1, <3>2, <3>3, <3>4 DEF WarmStep
  <2>4. pc'[w] \notin Computing
    BY <1>4
    DEF WarmStep, SyncFinished, ReadWarmScope, CheckHeld, Claim, Peek,
        QueueWarmPass, Register, TestFlag, WakeUp, Computing
  <2>5. \A p \in Procs :
          /\ loc'[p].gen <= generation /\ loc'[p].seen <= generation
          /\ pc'[p] \in Computing => loc'[p].gen <= loc'[p].seen
    BY <2>2, <2>3, <2>4 DEF FreshInv
  <2> QED
    BY <2>1, <2>5 DEF FreshInv
<1>5. ASSUME NEW c \in Cyclers, Invalidate(c)
      PROVE  FreshInv'
  BY <1>5 DEF Invalidate, FreshInv, Computing, Slot
<1>6. CASE FlipEntitlement \/ Expire
  BY <1>6 DEF FlipEntitlement, Expire, FreshInv, Slot
<1>7. CASE Restart
  BY <1>7 DEF Restart, FreshInv, Empty, Computing
<1> QED
  BY NextCases, <1>1, <1>2, <1>3, <1>4, <1>5, <1>6, <1>7

LEMMA FreshInvariant == Spec => []FreshInv
<1>1. Init => FreshInv
  BY DEF Init, FreshInv, Empty, NoLocals, Computing
<1>2. TypeOK /\ FreshInv /\ [Next]_vars => FreshInv'
  <2> SUFFICES ASSUME TypeOK, FreshInv, [Next]_vars PROVE FreshInv'
    OBVIOUS
  <2>1. CASE UNCHANGED vars
    BY <2>1 DEF vars, cacheVars, procVars, FreshInv
  <2> QED
    BY <2>1, FreshNext
<1> QED
  BY <1>1, <1>2, TypeCorrect, PTL DEF Spec

\* An entry that passes for current was computed from the current cycle's data.
THEOREM FreshMeansCurrentHolds == Spec => []FreshMeansCurrent
<1>1. TypeOK /\ FreshInv => FreshMeansCurrent
  BY BoundsAssumption DEF TypeOK, FreshInv, FreshMeansCurrent, Slot, Origins
<1> QED
  BY <1>1, TypeCorrect, FreshInvariant, PTL

-----------------------------------------------------------------------------
(* Tier safety *)

\* Only a reader's own steps change an answer, and each leaves none or one
\* that is right for the scope it asked in.
Right(a) ==
  a.origin # "None" =>
    /\ a.view = a.asked
    /\ a.view = "Full" => a.feed = "Full"
    /\ a.origin = "Restored" => a.feed = a.asked

LEMMA RightAnswers ==
  /\ Right(NoAnswer)
  /\ \A s \in Scopes : Right(RestoredAnswer(s))
  BY DEF Right, NoAnswer, RestoredAnswer, Scopes

LEMMA TierNext ==
  ASSUME TypeOK, TierSafe, Next
  PROVE  TierSafe'
<1> USE DEF vars, cacheVars, diskVars, procVars, worldVars, histVars, envVars
<1> \A r \in Readers : Right(answer[r])
  BY DEF TierSafe, Right
<1> /\ answer \in [Readers -> Answer] /\ Readers \subseteq Procs
    /\ \A p \in Procs : loc[p].scope \in Scopes
  BY DEF TypeOK, Procs, Locals
<1> SUFFICES \A q \in Readers : Right(answer'[q])
  BY DEF TierSafe, Right
<1>1. ASSUME NEW r \in Readers, Open(r) \/ ReaderStep(r)
      PROVE  \A q \in Readers : Right(answer'[q])
  <2>1. CASE Serve(r)
    <3>1. Fits(loc[r].scope) =>
            Right([origin |-> slot.origin, asked |-> loc[r].scope,
                   feed |-> slot.scope, view |-> View(loc[r].scope)])
      BY DEF Right, Fits, View, FreeFloorView, Scopes
    <3> QED
      BY <2>1, <3>1 DEF Serve
  <2>2. CASE MissStores(r)
    <3>1. \A o \in Origins \ {"Restored"}, s \in Scopes :
            Right([origin |-> o, asked |-> s, feed |-> s, view |-> s])
      BY DEF Right, Scopes
    <3> QED
      BY <2>2, <3>1 DEF MissStores, Origins
  <2>3. CASE Ride(r) \/ Return(r)
    BY <2>3, RightAnswers DEF Ride, Return
  <2>4. CASE \/ Open(r) \/ ReadGeneration(r) \/ RestoreSnapshot(r) \/ Seed(r)
             \/ MissFails(r) \/ PersistFloor(r)
    BY <2>4 DEF Open, ReadGeneration, RestoreSnapshot, Seed, MissFails,
                PersistFloor
  <2> QED
    BY <1>1, <2>1, <2>2, <2>3, <2>4 DEF ReaderStep
<1>2. ASSUME NEW p \in Readers \cup Cyclers, Kick(p) \/ QueuePass(p)
      PROVE  \A q \in Readers : Right(answer'[q])
  <2> p \in Procs
    BY DEF Procs
  <2> QED
    BY <1>2, RightAnswers DEF Kick, QueuePass
<1>3. ASSUME NEW x \in Runners, RunStep(x)
      PROVE  answer' = answer
  BY <1>3 DEF RunStep, BeginPass, StampPass, PublishPass, StartCompute, ComputeOk,
        ComputeErr, ComputePanics, StoreComputed, SwapAgain, ClearPass,
        ReleaseFlag, NotifyWaiters
<1>4. ASSUME NEW w \in Warmers, SyncFinished(w) \/ WarmStep(w)
      PROVE  answer' = answer
  BY <1>4 DEF WarmStep, SyncFinished, ReadWarmScope, CheckHeld, Claim, Peek,
        QueueWarmPass, Register, TestFlag, WakeUp
<1>5. ASSUME (\E c \in Cyclers : Invalidate(c)) \/ FlipEntitlement \/ Expire
      PROVE  answer' = answer
  BY <1>5 DEF Invalidate, FlipEntitlement, Expire
<1>6. CASE Restart
  BY <1>6, RightAnswers DEF Restart
<1> QED
  BY NextCases, <1>1, <1>2, <1>3, <1>4, <1>5, <1>6

\* Tier safety for any number of readers, whatever entitlement changes and
\* refreshes come between a read of the entitlement and the answer.
THEOREM TierSafeHolds == Spec => []TierSafe
<1>1. Init => TierSafe
  BY DEF Init, TierSafe, NoAnswer
<1>2. TypeOK /\ TierSafe /\ [Next]_vars => TierSafe'
  <2> SUFFICES ASSUME TypeOK, TierSafe, [Next]_vars PROVE TierSafe'
    OBVIOUS
  <2>1. CASE UNCHANGED vars
    BY <2>1 DEF vars, procVars, TierSafe
  <2> QED
    BY <2>1, TierNext
<1> QED
  BY <1>1, <1>2, TypeCorrect, PTL DEF Spec

LEMMA RestoredStep ==
  ASSUME TypeOK, FreshInv, Next, NEW r \in Readers,
         answer'[r] # answer[r], answer'[r].origin = "Restored"
  PROVE  inFlight'
<1> USE DEF vars, cacheVars, diskVars, procVars, worldVars, histVars, envVars
<1> /\ answer \in [Readers -> Answer] /\ slot \in Slot
    /\ generation \in Nat /\ generation < MaxU64
  BY BoundsAssumption DEF TypeOK
<1>1. ASSUME NEW q \in Readers, Open(q) \/ ReaderStep(q)
      PROVE  inFlight'
  <2>1. CASE Serve(q)
    <3>1. Servable /\ slot.origin = "Restored" /\ inFlight' = inFlight
      BY <2>1 DEF Serve
    <3>2. slot.generation # generation
      BY <3>1 DEF FreshInv, Slot
    <3> QED
      BY <3>1, <3>2 DEF Servable
  <2>2. CASE Ride(q)
    BY <2>2 DEF Ride
  <2>3. CASE MissStores(q)
    BY <2>3 DEF MissStores
  <2>4. CASE Return(q)
    BY <2>4 DEF Return, NoAnswer
  <2>5. CASE \/ Open(q) \/ ReadGeneration(q) \/ RestoreSnapshot(q) \/ Seed(q)
             \/ MissFails(q) \/ PersistFloor(q)
    BY <2>5 DEF Open, ReadGeneration, RestoreSnapshot, Seed, MissFails,
                PersistFloor
  <2> QED
    BY <1>1, <2>1, <2>2, <2>3, <2>4, <2>5 DEF ReaderStep
<1>2. ASSUME NEW p \in Readers \cup Cyclers, Kick(p) \/ QueuePass(p)
      PROVE  inFlight'
  BY <1>2 DEF Kick, QueuePass
<1>3. ASSUME NEW x \in Runners, RunStep(x)
      PROVE  FALSE
  BY <1>3 DEF RunStep, BeginPass, StampPass, PublishPass, StartCompute, ComputeOk,
        ComputeErr, ComputePanics, StoreComputed, SwapAgain, ClearPass,
        ReleaseFlag, NotifyWaiters
<1>4. ASSUME NEW w \in Warmers, SyncFinished(w) \/ WarmStep(w)
      PROVE  FALSE
  BY <1>4 DEF WarmStep, SyncFinished, ReadWarmScope, CheckHeld, Claim, Peek,
        QueueWarmPass, Register, TestFlag, WakeUp
<1>5. ASSUME (\E c \in Cyclers : Invalidate(c)) \/ FlipEntitlement \/ Expire
      PROVE  FALSE
  BY <1>5 DEF Invalidate, FlipEntitlement, Expire
<1>6. CASE Restart
  BY <1>6 DEF Restart, NoAnswer
<1> QED
  BY NextCases, <1>1, <1>2, <1>3, <1>4, <1>5, <1>6

\* The previous run's feed is only ever given out with its replacement in
\* flight: a restored seed is never of the current generation.
THEOREM RestoredWhileRebuildingHolds == Spec => RestoredWhileRebuilding
<1>1. TypeOK /\ FreshInv /\ [Next]_vars =>
        [\A r \in Readers :
           answer'[r] # answer[r] /\ answer'[r].origin = "Restored" => inFlight'
        ]_vars
  BY RestoredStep
<1> QED
  BY <1>1, TypeCorrect, FreshInvariant, PTL DEF Spec, RestoredWhileRebuilding

-----------------------------------------------------------------------------
(* A warm returns only on data as new as its own *)

\* A pass whose start is stamped; the tail of a run, its last pass over.
Stamped == {"publish", "compute", "computing", "store"}
PassOver == {"swap", "drop", "release"}
Joining == {"peek", "queuePass", "register", "test", "asleep"}

\* Whoever joins a refresh a second time joins one that began after its data:
\* the first wait ended with nothing in flight.  So every pass stamped since is
\* new enough, a run whose last pass is over has covered the warm, and the
\* second wait ends covered.
WarmInv ==
  /\ slot.origin = "Computed" => slot.started <= covered
  /\ \A w \in Warmers :
       /\ loc[w].ready <= clock
       /\ pc[w] \in Stamped => loc[w].started >= loc[w].ready
       /\ pc[w] \in PassOver \cup {"notify", "returned"} => covered >= loc[w].ready
       /\ loc[w].tries >= 2 => covered >= loc[w].ready
       /\ loc[w].tries >= 1 /\ pc[w] \in Joining =>
            covered >= loc[w].ready \/ inFlight
       /\ loc[w].tries >= 1 =>
            \A x \in Runners :
              /\ pc[x] \in Stamped => loc[x].started >= loc[w].ready
              /\ pc[x] \in PassOver => covered >= loc[w].ready

\* A step that does not touch what WarmInv reads of a process.
SameLocals(p) ==
  /\ loc'[p].ready = loc[p].ready /\ loc'[p].tries = loc[p].tries
  /\ loc'[p].started = loc[p].started

LEMMA WarmFrame ==
  ASSUME TypeOK, TypeOK', WarmInv, clock' = clock, covered' >= covered,
         inFlight => inFlight',
         slot'.origin = "Computed" => slot'.started <= covered',
         \A p \in Runners : pc'[p] = pc[p] /\ SameLocals(p)
  PROVE  WarmInv'
<1> Warmers \subseteq Runners /\ Runners \subseteq Procs
  BY DEF Runners, Procs
<1> /\ covered \in Nat /\ covered' \in Nat
    /\ \A p \in Procs : loc[p].ready \in Nat
  BY DEF TypeOK, Locals
<1> QED
  BY DEF WarmInv, SameLocals

LEMMA ReaderWarm ==
  ASSUME TypeOK, TypeOK', WarmInv, NEW r \in Readers, Open(r) \/ ReaderStep(r)
  PROVE  WarmInv'
<1> USE DEF vars, cacheVars, diskVars, procVars, worldVars, histVars, envVars,
            Goto
<1> /\ covered \in Nat /\ loc[r].started \in Nat
    /\ loc \in [Procs -> Locals] /\ pc \in [Procs -> Steps]
  BY DEF TypeOK, Locals, Procs
<1>1. \A p \in Runners : p # r /\ p \in Procs
  BY DisjointProcs DEF Procs
<1>2. \A p \in Runners : pc'[p] = pc[p] /\ loc'[p] = loc[p]
  BY <1>1
  DEF Open, ReaderStep, ReadGeneration, Serve, RestoreSnapshot, StartMiss, Seed,
      Ride, MissFails, MissStores, PersistFloor, Return
<1>3. clock' = clock /\ inFlight' = inFlight
  BY DEF Open, ReaderStep, ReadGeneration, Serve, RestoreSnapshot, StartMiss,
         Seed, Ride, MissFails, MissStores, PersistFloor, Return
<1>4. covered' >= covered /\ (slot'.origin = "Computed" => slot'.started <= covered')
  <2>1. CASE MissStores(r)
    BY <2>1 DEF MissStores, Entry, Later
  <2>2. CASE Seed(r)
    BY <2>2 DEF Seed, Entry, WarmInv
  <2>3. CASE \/ Open(r) \/ ReadGeneration(r) \/ Serve(r) \/ RestoreSnapshot(r)
             \/ Ride(r) \/ MissFails(r) \/ PersistFloor(r) \/ Return(r)
    BY <2>3 DEF Open, ReadGeneration, Serve, RestoreSnapshot, Ride, MissFails,
                PersistFloor, Return, WarmInv
  <2> QED
    BY <2>1, <2>2, <2>3 DEF ReaderStep
<1> QED
  BY <1>2, <1>3, <1>4, WarmFrame DEF SameLocals

LEMMA RequestWarm ==
  ASSUME TypeOK, TypeOK', WarmInv, NEW p \in Readers \cup Cyclers,
         Kick(p) \/ QueuePass(p)
  PROVE  WarmInv'
<1> USE DEF vars, cacheVars, diskVars, procVars, worldVars, histVars, envVars,
            Goto
<1> /\ p \in Procs /\ p \notin Runners /\ Warmers \subseteq Runners
    /\ Runners \subseteq Procs /\ Tasks \subseteq Runners
    /\ Tasks \cap Warmers = {}
  BY DisjointProcs DEF Procs, Runners
<1> /\ covered \in Nat /\ loc \in [Procs -> Locals] /\ pc \in [Procs -> Steps]
    /\ \A q \in Procs : loc[q].ready \in Nat
  BY DEF TypeOK, Locals
<1>1. CASE Kick(p)
  <2>1. \A q \in Runners : loc'[q] = loc[q]
    BY <1>1 DEF Kick
  <2>2. /\ slot' = slot /\ covered' = covered /\ clock' = clock
        /\ inFlight' = TRUE
    BY <1>1 DEF Kick
  <2>3. \A q \in Runners : pc'[q] = pc[q] \/ (q \in Tasks /\ pc'[q] = "begin")
    BY <1>1 DEF Kick
  <2> QED
    BY <2>1, <2>2, <2>3 DEF WarmInv, Stamped, PassOver, Joining
<1>2. CASE QueuePass(p)
  BY <1>2, WarmFrame DEF QueuePass, SameLocals, WarmInv
<1> QED
  BY <1>1, <1>2

LEMMA RunWarm ==
  ASSUME TypeOK, TypeOK', WarmInv, NEW x \in Runners, RunStep(x)
  PROVE  WarmInv'
<1> USE DEF vars, cacheVars, diskVars, procVars, worldVars, histVars, envVars,
            Goto
<1> /\ x \in Procs /\ Warmers \subseteq Runners /\ Runners \subseteq Procs
  BY DEF Procs, Runners
<1> /\ covered \in Nat /\ clock \in Nat
    /\ loc \in [Procs -> Locals] /\ pc \in [Procs -> Steps]
    /\ \A q \in Procs : loc[q].ready \in Nat /\ loc[q].started \in Nat
  BY DEF TypeOK, Locals
<1>1. CASE BeginPass(x)
  BY <1>1 DEF BeginPass, WarmInv, Stamped, PassOver, Joining, Locals
<1>2. CASE StampPass(x)
  <2>1. /\ loc'[x].started = clock /\ loc'[x].ready = loc[x].ready
        /\ loc'[x].tries = loc[x].tries /\ pc'[x] = "publish"
    BY <1>2 DEF StampPass, Locals
  <2>2. \A q \in Runners : q # x => loc'[q] = loc[q] /\ pc'[q] = pc[q]
    BY <1>2 DEF StampPass
  <2>3. UNCHANGED <<slot, covered, clock, inFlight>>
    BY <1>2 DEF StampPass
  <2> QED
    BY <2>1, <2>2, <2>3 DEF WarmInv, Stamped, PassOver, Joining
<1>3. CASE PublishPass(x)
  BY <1>3 DEF PublishPass, WarmInv, Stamped, PassOver, Joining
<1>4. CASE StartCompute(x)
  <2>1. \A q \in Runners : SameLocals(q)
    BY <1>4 DEF StartCompute, Locals, SameLocals
  <2>2. pc'[x] = "computing" /\ \A q \in Runners : q # x => pc'[q] = pc[q]
    BY <1>4 DEF StartCompute
  <2>3. UNCHANGED <<slot, covered, clock, inFlight>> /\ pc[x] = "compute"
    BY <1>4 DEF StartCompute
  <2> QED
    BY <2>1, <2>2, <2>3 DEF WarmInv, Stamped, PassOver, Joining, SameLocals
<1>5. CASE ComputeOk(x)
  BY <1>5 DEF ComputeOk, WarmInv, Stamped, PassOver, Joining
<1>6. CASE ComputeErr(x) \/ ComputePanics(x) \/ StoreComputed(x)
  <2>1. /\ loc'[x].ready = loc[x].ready /\ loc'[x].tries = 0
        /\ pc[x] \in Stamped /\ pc'[x] \in PassOver
        /\ covered' >= loc[x].started /\ covered' >= covered /\ covered' \in Nat
    BY <1>6 DEF ComputeErr, ComputePanics, StoreComputed, EndPass, NoLocals,
                Later, Stamped, PassOver
  <2>2. \A q \in Runners : q # x => loc'[q] = loc[q] /\ pc'[q] = pc[q]
    BY <1>6 DEF ComputeErr, ComputePanics, StoreComputed, EndPass
  <2>3. UNCHANGED <<clock, inFlight>>
    BY <1>6 DEF ComputeErr, ComputePanics, StoreComputed, EndPass
  <2>4. slot' = slot \/ slot'.started = loc[x].started
    BY <1>6 DEF ComputeErr, ComputePanics, StoreComputed, EndPass, Entry
  <2>5. slot'.origin = "Computed" => slot'.started <= covered'
    <3>1. slot.started \in Nat
      BY DEF TypeOK, Slot
    <3> QED
      BY <2>1, <2>4, <3>1 DEF WarmInv
  <2>6. PassOver \cap (Stamped \cup Joining) = {}
    BY DEF PassOver, Stamped, Joining
  <2> QED
    BY <2>1, <2>2, <2>3, <2>5, <2>6 DEF WarmInv
<1>7. CASE SwapAgain(x) \/ ClearPass(x)
  BY <1>7 DEF SwapAgain, ClearPass, WarmInv, Stamped, PassOver, Joining
<1>8. CASE ReleaseFlag(x)
  BY <1>8 DEF ReleaseFlag, WarmInv, Stamped, PassOver, Joining
<1>9. CASE NotifyWaiters(x)
  BY <1>9 DEF NotifyWaiters, WarmInv, Stamped, PassOver, Joining
<1> QED
  BY <1>1, <1>2, <1>3, <1>4, <1>5, <1>6, <1>7, <1>8, <1>9 DEF RunStep

LEMMA WarmWarm ==
  ASSUME TypeOK, TypeOK', SingleFlight, WarmInv, NEW w \in Warmers,
         SyncFinished(w) \/ WarmStep(w)
  PROVE  WarmInv'
<1> USE DEF vars, cacheVars, diskVars, procVars, worldVars, histVars, envVars,
            Goto
<1> /\ w \in Procs /\ w \in Runners /\ Warmers \subseteq Runners
    /\ Runners \subseteq Procs
  BY DEF Procs, Runners
<1> /\ covered \in Nat /\ clock \in Nat
    /\ loc \in [Procs -> Locals] /\ pc \in [Procs -> Steps]
    /\ \A q \in Procs : /\ loc[q].ready \in Nat /\ loc[q].started \in Nat
                        /\ loc[q].tries \in Nat
  BY DEF TypeOK, Locals
<1>1. CASE SyncFinished(w)
  <2>1. /\ loc'[w].ready = clock' /\ loc'[w].tries = 0 /\ pc'[w] = "scope"
        /\ clock' = clock + 1
    BY <1>1 DEF SyncFinished, NoLocals
  <2>2. \A q \in Runners : q # w => loc'[q] = loc[q] /\ pc'[q] = pc[q]
    BY <1>1 DEF SyncFinished
  <2>3. UNCHANGED <<slot, covered, inFlight>>
    BY <1>1 DEF SyncFinished
  <2> QED
    BY <2>1, <2>2, <2>3 DEF WarmInv, Stamped, PassOver, Joining
<1>2. CASE ReadWarmScope(w)
  <2>1. \A q \in Runners : SameLocals(q)
    BY <1>2 DEF ReadWarmScope, Locals, SameLocals
  <2>2. pc'[w] = "check" /\ \A q \in Runners : q # w => pc'[q] = pc[q]
    BY <1>2 DEF ReadWarmScope
  <2>3. UNCHANGED <<slot, covered, clock, inFlight>>
    BY <1>2 DEF ReadWarmScope
  <2> QED
    BY <2>1, <2>2, <2>3 DEF WarmInv, Stamped, PassOver, Joining, SameLocals
<1>3. CASE CheckHeld(w)
  <2>1. HoldsComputedSince(loc[w].scope, loc[w].ready) => covered >= loc[w].ready
    BY DEF HoldsComputedSince, WarmInv, TypeOK, Slot
  <2> QED
    BY <1>3, <2>1 DEF CheckHeld, WarmInv, Stamped, PassOver, Joining
<1>4. CASE Claim(w)
  BY <1>4 DEF Claim, WarmInv, Stamped, PassOver, Joining
<1>5. CASE Peek(w) \/ QueueWarmPass(w) \/ Register(w) \/ WakeUp(w)
  BY <1>5 DEF Peek, QueueWarmPass, Register, WakeUp, WarmInv, Stamped, PassOver,
              Joining
<1>6. CASE TestFlag(w) /\ inFlight
  BY <1>6 DEF TestFlag, WarmInv, Stamped, PassOver, Joining
<1>7. CASE TestFlag(w) /\ ~inFlight
  <2>1. /\ loc'[w].tries = loc[w].tries + 1 /\ loc'[w].ready = loc[w].ready
        /\ loc'[w].started = loc[w].started
        /\ pc'[w] = IF loc[w].tries + 1 = WarmTries THEN "returned" ELSE "check"
        /\ pc[w] = "test"
    BY <1>7 DEF TestFlag, Locals
  <2>2. \A q \in Runners : q # w => loc'[q] = loc[q] /\ pc'[q] = pc[q]
    BY <1>7 DEF TestFlag
  <2>3. UNCHANGED <<slot, covered, clock, inFlight>>
    BY <1>7 DEF TestFlag
  <2>4. loc[w].tries >= 1 => covered >= loc[w].ready
    BY <1>7, <2>1 DEF WarmInv, Joining
  <2>5. \A x \in Runners : pc[x] \notin Stamped \cup PassOver
    BY <1>7 DEF SingleFlight, Running, RunSteps, Stamped, PassOver
  <2>6. \A x \in Runners : pc'[x] \notin Stamped \cup PassOver
    BY <2>1, <2>2, <2>5 DEF Stamped, PassOver
  <2>7. loc'[w].tries >= 2 => covered >= loc[w].ready
    BY <2>1, <2>4
  <2>8. pc'[w] \in PassOver \cup {"notify", "returned"} => covered >= loc[w].ready
    BY <2>1, <2>4 DEF PassOver, WarmTries
  <2>9. pc'[w] \notin Joining
    BY <2>1 DEF Joining
  <2> QED
    BY <2>1, <2>2, <2>3, <2>6, <2>7, <2>8, <2>9 DEF WarmInv
<1> QED
  BY <1>1, <1>2, <1>3, <1>4, <1>5, <1>6, <1>7 DEF WarmStep

LEMMA WorldWarm ==
  ASSUME TypeOK, TypeOK', WarmInv,
         (\E c \in Cyclers : Invalidate(c)) \/ FlipEntitlement \/ Expire \/ Restart
  PROVE  WarmInv'
<1> USE DEF vars, cacheVars, diskVars, procVars, worldVars, histVars, envVars,
            Goto
<1> covered \in Nat /\ Runners \subseteq Procs /\ Warmers \subseteq Runners
  BY DEF TypeOK, Procs, Runners
<1>1. CASE \E c \in Cyclers : Invalidate(c)
  <2>1. \A p \in Runners : pc'[p] = pc[p]
    BY <1>1, DisjointProcs DEF Invalidate, TypeOK
  <2> QED
    BY <1>1, <2>1, WarmFrame DEF Invalidate, SameLocals, WarmInv
<1>2. CASE FlipEntitlement
  BY <1>2, WarmFrame DEF FlipEntitlement, SameLocals, WarmInv
<1>3. CASE Expire
  <2>1. slot'.origin = slot.origin /\ slot'.started = slot.started
    BY <1>3 DEF Expire, TypeOK, Slot
  <2> QED
    BY <1>3, <2>1, WarmFrame DEF Expire, SameLocals, WarmInv
<1>4. CASE Restart
  BY <1>4 DEF Restart, WarmInv, Empty, NoLocals, NoInstant, Stamped, PassOver,
              Joining, TypeOK
<1> QED
  BY <1>1, <1>2, <1>3, <1>4

\* No warm returns before a computation that started on data as new as its own
\* has ended, however often it joined runs it did not start.
THEOREM WarmCoveredHolds == Spec => []WarmCovered
<1>1. Init => WarmInv
  BY DEF Init, WarmInv, Empty, NoLocals, NoInstant, Stamped, PassOver, Joining,
         Procs, Runners
<1>2. TypeOK /\ TypeOK' /\ SingleFlight /\ WarmInv /\ [Next]_vars => WarmInv'
  <2> SUFFICES ASSUME TypeOK, TypeOK', SingleFlight, WarmInv, [Next]_vars
               PROVE  WarmInv'
    OBVIOUS
  <2>1. CASE UNCHANGED vars
    BY <2>1
    DEF vars, cacheVars, procVars, worldVars, histVars, envVars, WarmInv
  <2> QED
    BY <2>1, NextCases, ReaderWarm, RequestWarm, RunWarm, WarmWarm, WorldWarm
<1>3. WarmInv => WarmCovered
  BY DEF WarmInv, WarmCovered
<1> QED
  BY <1>1, <1>2, <1>3, TypeCorrect, SingleFlightHolds, PTL DEF Spec

-----------------------------------------------------------------------------
(* No engine cycle's request is lost *)

\* A cycle whose hook has not made its request yet.
HookDue == \E c \in Cyclers : pc[c] \in {"kick", "queue"}

\* "A request is never silently dropped", as far as it is true: until a pass has
\* begun for the current generation its hook is about to ask, a run stands at the
\* start of a pass, or refresh_again holds the request for the run that is there or
\* the next one to come.  (EveryCycleGetsAPass, which fails, asks that it be the
\* run that is there.)
RequestsAreKept ==
  generation # passGen => \/ refreshAgain \/ HookDue
                          \/ \E x \in Runners : pc[x] = "begin"

\* Whoever moves, no one but a hook leaves "kick" or "queue" and no one but a run
\* leaves "begin".
LEMMA RequestFrame ==
  ASSUME RequestsAreKept, UNCHANGED <<generation, passGen, refreshAgain>>,
         \A c \in Cyclers : pc[c] \in {"kick", "queue"} => pc'[c] \in {"kick", "queue"},
         \A x \in Runners : pc[x] = "begin" => pc'[x] = "begin"
  PROVE  RequestsAreKept'
  BY DEF RequestsAreKept, HookDue

LEMMA RequestsNext ==
  ASSUME TypeOK, RequestsAreKept, Next
  PROVE  RequestsAreKept'
<1> USE DEF vars, cacheVars, diskVars, procVars, worldVars, histVars, envVars,
            Goto, EndPass
<1> /\ Readers \subseteq Procs /\ Cyclers \subseteq Procs
    /\ Runners \subseteq Procs /\ Warmers \subseteq Runners /\ Tasks \subseteq Runners
    /\ pc \in [Procs -> Steps]
    /\ Readers \cap (Cyclers \cup Runners) = {} /\ Cyclers \cap Runners = {}
  BY DisjointProcs DEF Procs, Runners, TypeOK
<1>1. ASSUME NEW r \in Readers, Open(r) \/ ReaderStep(r)
      PROVE  RequestsAreKept'
  <2>1. \A p \in Cyclers \cup Runners : pc'[p] = pc[p]
    BY <1>1
    DEF Open, ReaderStep, ReadGeneration, Serve, RestoreSnapshot, StartMiss, Seed,
        Ride, MissFails, MissStores, PersistFloor, Return
  <2>2. UNCHANGED <<generation, passGen, refreshAgain>>
    BY <1>1
    DEF Open, ReaderStep, ReadGeneration, Serve, RestoreSnapshot, StartMiss, Seed,
        Ride, MissFails, MissStores, PersistFloor, Return
  <2> QED
    BY <2>1, <2>2, RequestFrame
<1>2. ASSUME NEW p \in Readers \cup Cyclers, Kick(p)
      PROVE  RequestsAreKept'
  <2>1. CASE inFlight
    <3>1. pc'[p] = "queue" /\ \A q \in Procs : q # p => pc'[q] = pc[q]
      BY <1>2, <2>1 DEF Kick
    <3> QED
      BY <1>2, <3>1, RequestFrame DEF Kick
  <2>2. CASE ~inFlight
    <3>1. PICK t \in Tasks : pc' = [pc EXCEPT ![t] = "begin", ![p] = AfterKick(p)]
      BY <1>2, <2>2 DEF Kick
    <3>2. pc'[t] = "begin"
      BY <3>1
    <3> QED
      BY <3>2 DEF RequestsAreKept
  <2> QED
    BY <2>1, <2>2
<1>3. ASSUME NEW p \in Readers \cup Cyclers, QueuePass(p)
      PROVE  RequestsAreKept'
  BY <1>3 DEF QueuePass, RequestsAreKept
<1>4. ASSUME NEW x \in Runners, RunStep(x)
      PROVE  RequestsAreKept'
  <2>1. CASE BeginPass(x)
    BY <2>1 DEF BeginPass, RequestsAreKept
  <2>2. CASE SwapAgain(x)
    <3>1. CASE refreshAgain
      BY <2>2, <3>1 DEF SwapAgain, RequestsAreKept
    <3>2. CASE ~refreshAgain
      <4>1. pc[x] = "swap" /\ \A q \in Procs : q # x => pc'[q] = pc[q]
        BY <2>2 DEF SwapAgain
      <4>2. refreshAgain' = refreshAgain
        BY <2>2, <3>2 DEF SwapAgain, TypeOK
      <4> QED
        BY <2>2, <4>1, <4>2, RequestFrame DEF SwapAgain
    <3> QED
      BY <3>1, <3>2
  <2>3. CASE ~BeginPass(x) /\ ~SwapAgain(x)
    <3>1. pc[x] # "begin" /\ \A q \in Procs : q # x => pc'[q] = pc[q]
      BY <1>4, <2>3
      DEF RunStep, StampPass, PublishPass, StartCompute, ComputeOk, ComputeErr,
          ComputePanics, StoreComputed, ClearPass, ReleaseFlag, NotifyWaiters
    <3>2. UNCHANGED <<generation, passGen, refreshAgain>>
      BY <1>4, <2>3
      DEF RunStep, StampPass, PublishPass, StartCompute, ComputeOk, ComputeErr,
          ComputePanics, StoreComputed, ClearPass, ReleaseFlag, NotifyWaiters
    <3> QED
      BY <3>1, <3>2, RequestFrame
  <2> QED
    BY <2>1, <2>2, <2>3
<1>5. ASSUME NEW w \in Warmers, SyncFinished(w) \/ WarmStep(w)
      PROVE  RequestsAreKept'
  <2>1. CASE QueueWarmPass(w)
    BY <2>1 DEF QueueWarmPass, RequestsAreKept
  <2>2. CASE ~QueueWarmPass(w)
    <3>1. pc[w] # "begin" /\ \A q \in Procs : q # w => pc'[q] = pc[q]
      BY <1>5, <2>2
      DEF SyncFinished, WarmStep, ReadWarmScope, CheckHeld, Claim, Peek, Register,
          TestFlag, WakeUp
    <3>2. UNCHANGED <<generation, passGen, refreshAgain>>
      BY <1>5, <2>2
      DEF SyncFinished, WarmStep, ReadWarmScope, CheckHeld, Claim, Peek, Register,
          TestFlag, WakeUp
    <3> QED
      BY <3>1, <3>2, RequestFrame
  <2> QED
    BY <2>1, <2>2
<1>6. ASSUME NEW c \in Cyclers, Invalidate(c)
      PROVE  RequestsAreKept'
  BY <1>6 DEF Invalidate, RequestsAreKept, HookDue
<1>7. CASE FlipEntitlement \/ Expire
  BY <1>7 DEF FlipEntitlement, Expire, RequestsAreKept, HookDue
<1>8. CASE Restart
  BY <1>8 DEF Restart, RequestsAreKept
<1> QED
  BY NextCases, <1>1, <1>2, <1>3, <1>4, <1>5, <1>6, <1>7, <1>8

\* A cycle's request may wait for the next run, but it is never forgotten: whatever
\* runs, panics and joins cross it, only a pass that reads its data discharges it.
THEOREM RequestsAreKeptHolds == Spec => []RequestsAreKept
<1>1. Init => RequestsAreKept
  BY DEF Init, RequestsAreKept
<1>2. TypeOK /\ RequestsAreKept /\ [Next]_vars => RequestsAreKept'
  <2> SUFFICES ASSUME TypeOK, RequestsAreKept, [Next]_vars PROVE RequestsAreKept'
    OBVIOUS
  <2>1. CASE UNCHANGED vars
    BY <2>1
    DEF vars, cacheVars, procVars, worldVars, histVars, RequestsAreKept, HookDue
  <2> QED
    BY <2>1, RequestsNext
<1> QED
  BY <1>1, <1>2, TypeCorrect, PTL DEF Spec

-----------------------------------------------------------------------------
(* What keeps the waiting and the running going: WarmReturns and RefreshEnds rest *)
(* on these, whatever the fairness.                                             *)

\* A run that is still to notify.
WillNotify(x) == Running(x) \/ pc[x] = "notify"

\* No notification is lost: a warm that sleeps unwoken has a run before its notify,
\* although the run may end, and others come and go, between the warm's test of the
\* flag and its sleep (wait_for_refresh, InFlightGuard::drop).
SleepersAreWoken ==
  \A w \in Warmers : pc[w] = "asleep" /\ woken[w] = FALSE => \E x \in Runners : WillNotify(x)

\* Nobody falls asleep, and whoever was to notify still is.
LEMMA SleepFrame ==
  ASSUME SleepersAreWoken,
         \A w \in Warmers : pc'[w] = "asleep" => pc[w] = "asleep" /\ woken'[w] = woken[w],
         \A x \in Runners : WillNotify(x) => WillNotify(x)'
  PROVE  SleepersAreWoken'
  BY DEF SleepersAreWoken

LEMMA SleepNext ==
  ASSUME TypeOK, SingleFlight, SleepersAreWoken, Next
  PROVE  SleepersAreWoken'
<1> USE DEF vars, cacheVars, diskVars, procVars, worldVars, histVars, envVars,
            Goto, EndPass
<1> /\ Readers \subseteq Procs /\ Cyclers \subseteq Procs
    /\ Runners \subseteq Procs /\ Warmers \subseteq Runners /\ Tasks \subseteq Runners
    /\ pc \in [Procs -> Steps] /\ woken \in [Warmers -> BOOLEAN]
    /\ Readers \cap (Cyclers \cup Runners) = {} /\ Cyclers \cap Runners = {}
  BY DisjointProcs DEF Procs, Runners, TypeOK
<1>1. ASSUME NEW r \in Readers, Open(r) \/ ReaderStep(r)
      PROVE  SleepersAreWoken'
  <2>1. (\A p \in Runners : pc'[p] = pc[p]) /\ woken' = woken
    BY <1>1
    DEF Open, ReaderStep, ReadGeneration, Serve, RestoreSnapshot, StartMiss, Seed,
        Ride, MissFails, MissStores, PersistFloor, Return
  <2> QED
    BY <2>1, SleepFrame DEF WillNotify, Running
<1>2. ASSUME NEW p \in Readers \cup Cyclers, Kick(p) \/ QueuePass(p)
      PROVE  SleepersAreWoken'
  <2>1. \A x \in Runners : pc'[x] = pc[x] \/ (pc[x] = "idle" /\ pc'[x] = "begin")
    BY <1>2 DEF Kick, QueuePass
  <2>2. woken' = woken
    BY <1>2 DEF Kick, QueuePass
  <2> QED
    BY <2>1, <2>2, SleepFrame DEF WillNotify, Running, RunSteps
<1>3. ASSUME NEW x \in Runners, RunStep(x)
      PROVE  SleepersAreWoken'
  <2>1. CASE NotifyWaiters(x)
    <3>1. \A w \in Warmers : pc'[w] = "asleep" => pc[w] = "asleep"
      BY <2>1 DEF NotifyWaiters
    <3>2. \A w \in Warmers : pc[w] = "asleep" => woken'[w] = TRUE
      BY <2>1 DEF NotifyWaiters
    <3> QED
      BY <3>1, <3>2 DEF SleepersAreWoken
  <2>2. CASE ~NotifyWaiters(x)
    <3>1. /\ pc'[x] \in RunSteps \cup {"notify"}
          /\ \A q \in Procs : q # x => pc'[q] = pc[q]
      BY <1>3, <2>2
      DEF RunStep, BeginPass, StampPass, PublishPass, StartCompute, ComputeOk, ComputeErr,
          ComputePanics, StoreComputed, SwapAgain, ClearPass, ReleaseFlag, RunSteps
    <3>2. woken' = woken
      BY <1>3, <2>2
      DEF RunStep, BeginPass, StampPass, PublishPass, StartCompute, ComputeOk, ComputeErr,
          ComputePanics, StoreComputed, SwapAgain, ClearPass, ReleaseFlag
    <3> QED
      BY <3>1, <3>2, SleepFrame DEF WillNotify, Running, RunSteps
  <2> QED
    BY <2>1, <2>2
<1>4. ASSUME NEW w \in Warmers, SyncFinished(w) \/ WarmStep(w)
      PROVE  SleepersAreWoken'
  <2>1. pc[w] \notin RunSteps \cup {"notify"} /\ \A q \in Procs : q # w => pc'[q] = pc[q]
    BY <1>4
    DEF SyncFinished, WarmStep, ReadWarmScope, CheckHeld, Claim, Peek, QueueWarmPass,
        Register, TestFlag, WakeUp, RunSteps
  <2>2. \A x \in Runners : WillNotify(x) => WillNotify(x)'
    BY <2>1 DEF WillNotify, Running
  <2>3. CASE TestFlag(w) /\ inFlight
    <3>1. PICK x \in Runners : WillNotify(x)
      BY <2>3 DEF SingleFlight, WillNotify
    <3>2. WillNotify(x)'
      BY <2>2, <3>1
    <3> QED
      BY <3>2 DEF SleepersAreWoken
  <2>4. CASE ~(TestFlag(w) /\ inFlight)
    <3>1. pc'[w] # "asleep" /\ \A v \in Warmers \ {w} : woken'[v] = woken[v]
      BY <1>4, <2>4
      DEF SyncFinished, WarmStep, ReadWarmScope, CheckHeld, Claim, Peek, QueueWarmPass,
          Register, TestFlag, WakeUp
    <3> QED
      BY <2>1, <2>2, <3>1, SleepFrame
  <2> QED
    BY <2>3, <2>4
<1>5. ASSUME NEW c \in Cyclers, Invalidate(c)
      PROVE  SleepersAreWoken'
  BY <1>5, SleepFrame DEF Invalidate, WillNotify, Running
<1>6. CASE FlipEntitlement \/ Expire
  BY <1>6, SleepFrame DEF FlipEntitlement, Expire, WillNotify, Running
<1>7. CASE Restart
  BY <1>7 DEF Restart, SleepersAreWoken
<1> QED
  BY NextCases, <1>1, <1>2, <1>3, <1>4, <1>5, <1>6, <1>7

\* A warm never sleeps through the last notification there will be.
THEOREM NoNotificationIsLost == Spec => []SleepersAreWoken
<1>1. Init => SleepersAreWoken
  BY DEF Init, SleepersAreWoken, Procs, Runners
<1>2. TypeOK /\ SingleFlight /\ SleepersAreWoken /\ [Next]_vars => SleepersAreWoken'
  <2> SUFFICES ASSUME TypeOK, SingleFlight, SleepersAreWoken, [Next]_vars
               PROVE  SleepersAreWoken'
    OBVIOUS
  <2>1. CASE UNCHANGED vars
    BY <2>1 DEF vars, procVars, SleepersAreWoken, WillNotify, Running
  <2> QED
    BY <2>1, SleepNext
<1> QED
  BY <1>1, <1>2, TypeCorrect, SingleFlightHolds, PTL DEF Spec

\* How far a run is from having notified.
StepsLeft(step) ==
  CASE step = "begin" -> 10
    [] step = "stamp" -> 9
    [] step = "publish" -> 8
    [] step = "compute" -> 7
    [] step = "computing" -> 6
    [] step = "store" -> 5
    [] step = "swap" -> 4
    [] step = "drop" -> 3
    [] step = "release" -> 2
    [] step = "notify" -> 1
    [] OTHER -> 0

\* What a step of anybody may do to a run: bring it nearer its end or leave it; it
\* goes up only by being started, which takes the flag, or by one more pass, which
\* uses up the request in refresh_again.
RunGoesOn(x) ==
  \/ StepsLeft(pc'[x]) <= StepsLeft(pc[x])
  \/ inFlight = FALSE /\ inFlight' = TRUE
  \/ refreshAgain = TRUE /\ refreshAgain' = FALSE

\* No run goes round for nothing: its own steps bring it nearer its end, or use up a
\* request, and nobody else's ever prolongs it.
RunsAdvance ==
  [][\A x \in Runners :
       /\ RunGoesOn(x)
       /\ RunStep(x) => \/ StepsLeft(pc'[x]) < StepsLeft(pc[x])
                        \/ refreshAgain = TRUE /\ refreshAgain' = FALSE]_vars

\* Who is in no run and enters none has no steps left.
LEMMA OutsideRuns ==
  ASSUME NEW step, step \notin RunSteps \cup {"notify"}
  PROVE  StepsLeft(step) = 0
  BY DEF StepsLeft, RunSteps

LEMMA StepsLeftNat == \A step : StepsLeft(step) \in Nat
  BY DEF StepsLeft

LEMMA OwnSteps ==
  ASSUME TypeOK, NEW x \in Runners, RunStep(x)
  PROVE  \/ StepsLeft(pc'[x]) < StepsLeft(pc[x])
         \/ refreshAgain = TRUE /\ refreshAgain' = FALSE
<1> USE DEF Goto, EndPass
<1> x \in Procs /\ pc \in [Procs -> Steps] /\ refreshAgain \in BOOLEAN
  BY DEF Procs, TypeOK
<1>1. CASE BeginPass(x) \/ StampPass(x) \/ PublishPass(x) \/ StartCompute(x)
  BY <1>1 DEF BeginPass, StampPass, PublishPass, StartCompute, StepsLeft
<1>2. CASE ComputeOk(x) \/ ComputeErr(x) \/ ComputePanics(x) \/ StoreComputed(x)
  BY <1>2 DEF ComputeOk, ComputeErr, ComputePanics, StoreComputed, StepsLeft
<1>3. CASE SwapAgain(x)
  BY <1>3 DEF SwapAgain, StepsLeft
<1>4. CASE ClearPass(x) \/ ReleaseFlag(x) \/ NotifyWaiters(x)
  BY <1>4 DEF ClearPass, ReleaseFlag, NotifyWaiters, StepsLeft
<1> QED
  BY <1>1, <1>2, <1>3, <1>4 DEF RunStep

LEMMA RunsGoOn ==
  ASSUME TypeOK, Next, NEW x \in Runners
  PROVE  RunGoesOn(x)
<1> USE DEF vars, cacheVars, diskVars, procVars, worldVars, histVars, envVars,
            Goto, EndPass
<1> /\ Readers \subseteq Procs /\ Cyclers \subseteq Procs
    /\ Runners \subseteq Procs /\ Warmers \subseteq Runners /\ Tasks \subseteq Runners
    /\ pc \in [Procs -> Steps] /\ inFlight \in BOOLEAN
    /\ Readers \cap (Cyclers \cup Runners) = {} /\ Cyclers \cap Runners = {}
  BY DisjointProcs DEF Procs, Runners, TypeOK
<1>1. ASSUME pc'[x] = pc[x]
      PROVE  RunGoesOn(x)
  BY <1>1, StepsLeftNat DEF RunGoesOn
<1>2. ASSUME NEW r \in Readers, Open(r) \/ ReaderStep(r)
      PROVE  RunGoesOn(x)
  <2>1. pc'[x] = pc[x]
    BY <1>2
    DEF Open, ReaderStep, ReadGeneration, Serve, RestoreSnapshot, StartMiss, Seed,
        Ride, MissFails, MissStores, PersistFloor, Return
  <2> QED
    BY <1>1, <2>1
<1>3. ASSUME NEW p \in Readers \cup Cyclers, Kick(p) \/ QueuePass(p)
      PROVE  RunGoesOn(x)
  <2>1. pc'[x] = pc[x] \/ (inFlight = FALSE /\ inFlight' = TRUE)
    BY <1>3 DEF Kick, QueuePass
  <2> QED
    BY <1>1, <2>1 DEF RunGoesOn
<1>4. ASSUME NEW y \in Runners, RunStep(y)
      PROVE  RunGoesOn(x)
  <2>1. CASE y = x
    <3>1. \/ StepsLeft(pc'[x]) < StepsLeft(pc[x])
          \/ refreshAgain = TRUE /\ refreshAgain' = FALSE
      BY <1>4, <2>1, OwnSteps
    <3>2. StepsLeft(pc'[x]) \in Nat /\ StepsLeft(pc[x]) \in Nat
      BY StepsLeftNat
    <3> QED
      BY <3>1, <3>2 DEF RunGoesOn
  <2>2. CASE y # x
    <3>1. pc'[x] = pc[x]
      BY <1>4, <2>2
      DEF RunStep, BeginPass, StampPass, PublishPass, StartCompute, ComputeOk, ComputeErr,
          ComputePanics, StoreComputed, SwapAgain, ClearPass, ReleaseFlag, NotifyWaiters
    <3> QED
      BY <1>1, <3>1
  <2> QED
    BY <2>1, <2>2
<1>5. ASSUME NEW w \in Warmers, SyncFinished(w) \/ WarmStep(w)
      PROVE  RunGoesOn(x)
  <2>1. CASE w # x
    <3>1. pc'[x] = pc[x]
      BY <1>5, <2>1
      DEF SyncFinished, WarmStep, ReadWarmScope, CheckHeld, Claim, Peek, QueueWarmPass,
          Register, TestFlag, WakeUp
    <3> QED
      BY <1>1, <3>1
  <2>2. CASE w = x /\ Claim(w)
    BY <2>2, StepsLeftNat DEF Claim, RunGoesOn, StepsLeft
  <2>3. CASE w = x /\ ~Claim(w)
    <3>1. pc'[x] \notin RunSteps \cup {"notify"}
      BY <1>5, <2>3
      DEF SyncFinished, WarmStep, ReadWarmScope, CheckHeld, Peek, QueueWarmPass,
          Register, TestFlag, WakeUp, RunSteps
    <3> QED
      BY <3>1, OutsideRuns, StepsLeftNat DEF RunGoesOn
  <2> QED
    BY <2>1, <2>2, <2>3
<1>6. ASSUME NEW c \in Cyclers, Invalidate(c)
      PROVE  RunGoesOn(x)
  BY <1>1, <1>6 DEF Invalidate
<1>7. CASE FlipEntitlement \/ Expire
  BY <1>1, <1>7 DEF FlipEntitlement, Expire
<1>8. CASE Restart
  <2>1. pc'[x] \notin RunSteps \cup {"notify"}
    BY <1>8 DEF Restart, RunSteps
  <2> QED
    BY <2>1, OutsideRuns, StepsLeftNat DEF RunGoesOn
<1> QED
  BY NextCases, <1>2, <1>3, <1>4, <1>5, <1>6, <1>7, <1>8

\* Without new requests every run comes to its end, whoever else moves.
THEOREM RunsComeToAnEnd == Spec => RunsAdvance
<1>1. TypeOK /\ [Next]_vars =>
        [\A x \in Runners :
           /\ RunGoesOn(x)
           /\ RunStep(x) => \/ StepsLeft(pc'[x]) < StepsLeft(pc[x])
                            \/ refreshAgain = TRUE /\ refreshAgain' = FALSE]_vars
  <2> SUFFICES ASSUME TypeOK, Next, NEW x \in Runners
               PROVE  /\ RunGoesOn(x)
                      /\ RunStep(x) => \/ StepsLeft(pc'[x]) < StepsLeft(pc[x])
                                       \/ refreshAgain = TRUE /\ refreshAgain' = FALSE
    OBVIOUS
  <2> QED
    BY RunsGoOn, OwnSteps
<1> QED
  BY <1>1, TypeCorrect, PTL DEF Spec, RunsAdvance
=============================================================================
