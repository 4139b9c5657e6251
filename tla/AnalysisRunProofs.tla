-------------------------- MODULE AnalysisRunProofs --------------------------
(***************************************************************************)
(* Proofs about AnalysisRun, for any sets of runs, cancels and interest    *)
(* sources.                                                                *)
(*                                                                         *)
(* First the type invariant, then what a step of one run leaves of the     *)
(* others (OthersStay, RunsStay), and from these two the status, the       *)
(* shared feed and the gate, one section each.                             *)
(***************************************************************************)
EXTENDS AnalysisRun, TLAPS

USE DEF status, gate, Claim, Release

\* Every step of every run and of the environment, one disjunct each.
LEMMA NextCases ==
  ASSUME Next
  PROVE  \/ \E r \in Runs : Begin(r) \/ Score(r) \/ Rank(r)
         \/ \E f \in Foreground :
              \/ StartRun(f) \/ Publish(f) \/ Republish(f) \/ HooksPanic(f)
              \/ RunFails(f) \/ FillStarts(f) \/ FillEnds(f) \/ FillPanics(f)
         \/ \E c \in Cycles :
              \/ Tick(c) \/ StaleData(c) \/ Listen(c) \/ Defer(c) \/ DeferPanics(c) \/ FetchEnds(c)
              \/ Judge(c) \/ Store(c) \/ Complete(c) \/ CycleFails(c)
         \/ \E k \in Cancels : CancelRequest(k) \/ CancelForce(k)
         \/ \E s \in Interests : TurnOff(s) \/ TurnOn(s)
         \/ DuplicateRequest \/ Watchdog \/ BriefingEmitFails
<1>1. CASE \E f \in Foreground : ForegroundStep(f)
  BY <1>1 DEF ForegroundStep, RunStep, Runs
<1>2. CASE \E c \in Cycles : CycleStep(c)
  BY <1>2 DEF CycleStep, RunStep, Runs
<1> QED
  BY <1>1, <1>2 DEF Next, CancelStep

-----------------------------------------------------------------------------
(* Types *)

\* TypeOK in the groups the steps disturb together.
FlagsOK == /\ running \in BOOLEAN /\ completed \in BOOLEAN /\ judged \in BOOLEAN
           /\ abort \in BOOLEAN /\ checking \in BOOLEAN /\ latched \in BOOLEAN
ErrorOK == error \in {"none", "failed", "cancelled", "timeout"}
FeedOK  == results \in Feeds \cup {NoFeed} /\ off \subseteq Interests
TasksOK == task \in [Runs -> Tasks]
StepsOK == fill \in [Foreground -> FillStages] /\ cancel \in [Cancels -> {"idle", "waiting", "done"}]
ForegroundOK == \A f \in Foreground :
                  /\ task[f].stage \notin {"emitted", "deferring", "filling", "ranked"}
                  /\ ~task[f].passed /\ ~task[f].judged

LEMMA TypeParts ==
  TypeOK <=> FlagsOK /\ ErrorOK /\ FeedOK /\ TasksOK /\ StepsOK /\ ForegroundOK
  BY Zenon DEF TypeOK, FlagsOK, ErrorOK, FeedOK, TasksOK, StepsOK, ForegroundOK

LEMMA InitType == Init => TypeOK
<1> SUFFICES ASSUME Init PROVE TypeOK
  OBVIOUS
<1>1. Fresh \in Tasks
  BY DEF Fresh, Tasks, Stages
<1>2. FlagsOK
  BY DEF Init, FlagsOK
<1>3. ErrorOK
  BY DEF Init, ErrorOK
<1>4. FeedOK
  BY DEF Init, FeedOK
<1>5. TasksOK
  BY <1>1 DEF Init, TasksOK
<1>6. StepsOK
  BY DEF Init, StepsOK, FillStages
<1>7. ForegroundOK
  BY DEF Init, ForegroundOK, Fresh, Runs
<1> QED
  BY <1>2, <1>3, <1>4, <1>5, <1>6, <1>7, TypeParts

\* What the end of a run leaves of it.
LEMMA EndedTask ==
  ASSUME TasksOK, NEW r \in Runs, NEW to \in {"done", "failed", "cancelled"}
  PROVE  /\ Ended(r, to) \in [Runs -> Tasks]
         /\ \A q \in Runs \ {r} : Ended(r, to)[q] = task[q]
         /\ Ended(r, to)[r].stage = to
         /\ Ended(r, to)[r].full = task[r].full
         /\ Ended(r, to)[r].judged = task[r].judged
         /\ ~Ended(r, to)[r].passed
<1> DEFINE t == [task[r] EXCEPT !.stage = to, !.rows = {}, !.deep = FALSE,
                                !.passed = FALSE, !.asked = FALSE]
<1>1. task \in [Runs -> Tasks] /\ task[r] \in Tasks
  BY DEF TasksOK
<1>2. t \in Tasks
  BY <1>1 DEF Tasks, Stages
<1>3. /\ t.stage = to /\ t.full = task[r].full /\ t.judged = task[r].judged
      /\ ~t.passed
  BY <1>1 DEF Tasks
<1>4. Ended(r, to) = [task EXCEPT ![r] = t]
  BY DEF Ended
<1> HIDE DEF t
<1>5. /\ Ended(r, to) \in [Runs -> Tasks]
      /\ \A q \in Runs \ {r} : Ended(r, to)[q] = task[q]
      /\ Ended(r, to)[r] = t
  BY <1>1, <1>2, <1>4
<1>6. PICK e : e = Ended(r, to)
  OBVIOUS
<1>7. e[r] = t /\ e \in [Runs -> Tasks] /\ \A q \in Runs \ {r} : e[q] = task[q]
  BY <1>5, <1>6
<1>8. /\ e[r].stage = to /\ e[r].full = task[r].full
      /\ e[r].judged = task[r].judged /\ ~e[r].passed
  BY <1>3, <1>7
<1> QED
  BY <1>6, <1>7, <1>8

LEMMA EndedType ==
  ASSUME TypeOK, NEW r \in Runs, NEW to \in {"done", "failed", "cancelled"},
         task' = Ended(r, to)
  PROVE  TasksOK' /\ ForegroundOK'
<1>1. TasksOK /\ ForegroundOK
  BY TypeParts
<1>2. TasksOK'
  BY <1>1, EndedTask DEF TasksOK
<1>3. ForegroundOK'
  BY <1>1, EndedTask DEF ForegroundOK, Runs
<1> QED
  BY <1>2, <1>3

\* A step of a run's program counter alone.
LEMMA MovedTask ==
  ASSUME TasksOK, NEW r \in Runs, NEW to \in Stages,
         task' = [task EXCEPT ![r].stage = to]
  PROVE  /\ task' \in [Runs -> Tasks]
         /\ \A q \in Runs \ {r} : task'[q] = task[q]
         /\ task'[r].stage = to
         /\ task'[r].full = task[r].full
         /\ task'[r].judged = task[r].judged
         /\ task'[r].passed = task[r].passed
         /\ task'[r].asked = task[r].asked
<1> DEFINE t == [task[r] EXCEPT !.stage = to]
<1>1. task \in [Runs -> Tasks] /\ task[r] \in Tasks
  BY DEF TasksOK
<1>2. t \in Tasks
  BY <1>1 DEF Tasks
<1>3. /\ t.stage = to /\ t.full = task[r].full /\ t.judged = task[r].judged
      /\ t.passed = task[r].passed /\ t.asked = task[r].asked
  BY <1>1 DEF Tasks
<1>4. task' = [task EXCEPT ![r] = t]
  OBVIOUS
<1> HIDE DEF t
<1>5. /\ task' \in [Runs -> Tasks]
      /\ \A q \in Runs \ {r} : task'[q] = task[q]
      /\ task'[r] = t
  BY <1>1, <1>2, <1>4
<1> QED
  BY <1>3, <1>5

LEMMA MovedType ==
  ASSUME TypeOK, NEW r \in Runs, NEW to \in Stages,
         r \in Cycles \/ to \notin {"emitted", "deferring", "filling", "ranked"},
         task' = [task EXCEPT ![r].stage = to]
  PROVE  TasksOK' /\ ForegroundOK'
<1>1. TasksOK /\ ForegroundOK
  BY TypeParts
<1>2. TasksOK'
  BY <1>1, MovedTask DEF TasksOK
<1>3. ForegroundOK'
  BY <1>1, MovedTask, DisjointRuns DEF ForegroundOK, Runs
<1> QED
  BY <1>2, <1>3

\* What the beginning of a run chooses, and what it leaves alone.
LEMMA BegunTask ==
  ASSUME TasksOK, FeedOK, NEW r \in Runs, Begin(r)
  PROVE  /\ task' \in [Runs -> Tasks]
         /\ \A q \in Runs \ {r} : task'[q] = task[q]
         /\ task'[r].stage = "scoring"
         /\ r \notin Cycles => task'[r].full
         /\ task'[r].passed = task[r].passed
         /\ task'[r].judged = task[r].judged /\ task'[r].asked = task[r].asked
<1>1. PICK differential \in BOOLEAN, deep \in BOOLEAN :
        /\ differential => MayBeDifferential(r)
        /\ LET taken == IF differential /\ results # NoFeed THEN results.rows ELSE {}
           IN \E rows \in SUBSET (taken \cup (Interests \ off)) :
                task' = [task EXCEPT ![r] =
                  [@ EXCEPT !.stage = "scoring", !.rows = rows, !.deep = deep,
                            !.full = differential => results # NoFeed]]
  BY DEF Begin
<1>2. PICK rows \in SUBSET Interests :
        task' = [task EXCEPT ![r] =
          [@ EXCEPT !.stage = "scoring", !.rows = rows, !.deep = deep,
                    !.full = differential => results # NoFeed]]
  BY <1>1 DEF FeedOK, Feeds
<1> DEFINE full == differential => results # NoFeed
           t == [task[r] EXCEPT !.stage = "scoring", !.rows = rows, !.deep = deep,
                                !.full = full]
<1>3. task \in [Runs -> Tasks] /\ task[r] \in Tasks
  BY DEF TasksOK
<1>4. full \in BOOLEAN /\ (r \notin Cycles => full)
  BY <1>1 DEF MayBeDifferential
<1>5. task' = [task EXCEPT ![r] = t]
  BY <1>2
<1> HIDE DEF full
<1>6. /\ t \in Tasks /\ t.stage = "scoring" /\ t.passed = task[r].passed
      /\ t.judged = task[r].judged /\ t.asked = task[r].asked
  BY <1>3, <1>4 DEF Tasks, Stages, Live
<1>7. t.full = full
  BY <1>3 DEF Tasks
<1> HIDE DEF t
<1>8. task' \in [Runs -> Tasks] /\ task'[r] = t /\ \A q \in Runs \ {r} : task'[q] = task[q]
  BY <1>3, <1>5, <1>6
<1> QED
  BY <1>4, <1>6, <1>7, <1>8

\* The verdict is on the cycle's own task only.
LEMMA JudgedTask ==
  ASSUME TasksOK, NEW c \in Cycles, Judge(c)
  PROVE  /\ task' \in [Runs -> Tasks]
         /\ \A q \in Runs \ {c} : task'[q] = task[q]
         /\ task'[c].stage = "judged" /\ task'[c].full = task[c].full
<1> DEFINE t == [task[c] EXCEPT !.stage = "judged", !.judged = task[c].passed,
                                !.passed = FALSE]
<1>1. c \in Runs /\ task[c] \in Tasks
  BY DEF TasksOK, Runs
<1>2. t \in Tasks /\ t.stage = "judged" /\ t.full = task[c].full
  BY <1>1 DEF Tasks, Stages, Live
<1>3. task' = [task EXCEPT ![c] = t]
  BY DEF Judge
<1> HIDE DEF t
<1> QED
  BY <1>1, <1>2, <1>3 DEF TasksOK

\* A rerank moves its own run and lets the cycles under way see its pass.
LEMMA RankedTask ==
  ASSUME TasksOK, NEW r \in Runs, Rank(r)
  PROVE  /\ task' \in [Runs -> Tasks]
         /\ \A q \in Runs : /\ task'[q].full = task[q].full
                            /\ task'[q].judged = task[q].judged
                            /\ task'[q].asked = task[q].asked
                            /\ q \notin Cycles => task'[q].passed = task[q].passed
         /\ \A q \in Runs \ {r} : task'[q].stage = task[q].stage
         /\ task'[r].stage = IF r \in Cycles THEN "ranked" ELSE "judged"
<1>1. PICK applied \in BOOLEAN : task' = [q \in Runs |->
        [task[q] EXCEPT
          !.stage  = IF q # r THEN @ ELSE IF q \in Cycles THEN "ranked" ELSE "judged",
          !.deep   = @ /\ q # r,
          !.passed = @ \/ (applied /\ q \in Cycles
                            /\ task[q].stage \in {"scoring", "scored", "ranked"})]]
  BY DEF Rank
<1>2. \A q \in Runs : task[q] \in Tasks
  BY DEF TasksOK
<1>3. ASSUME NEW q \in Runs
      PROVE  /\ task'[q] \in Tasks
             /\ task'[q].full = task[q].full /\ task'[q].judged = task[q].judged
             /\ task'[q].asked = task[q].asked
             /\ q \notin Cycles => task'[q].passed = task[q].passed
             /\ task'[q].stage = IF q # r THEN task[q].stage
                                ELSE IF q \in Cycles THEN "ranked" ELSE "judged"
  <2> DEFINE stage  == IF q # r THEN task[q].stage
                       ELSE IF q \in Cycles THEN "ranked" ELSE "judged"
             deep   == task[q].deep /\ q # r
             passed == task[q].passed
                         \/ (applied /\ q \in Cycles
                              /\ task[q].stage \in {"scoring", "scored", "ranked"})
  <2>1. task'[q] = [task[q] EXCEPT !.stage = stage, !.deep = deep, !.passed = passed]
    BY <1>1
  <2>2. stage \in Stages
    BY <1>2 DEF Tasks, Stages, Live
  <2>3. deep \in BOOLEAN /\ passed \in BOOLEAN
    OBVIOUS
  <2>4. q \notin Cycles => passed = task[q].passed
    BY <1>2 DEF Tasks
  <2>5. stage = IF q # r THEN task[q].stage
                ELSE IF q \in Cycles THEN "ranked" ELSE "judged"
    OBVIOUS
  <2> HIDE DEF stage, deep, passed
  <2>6. task'[q] \in Tasks
    BY <1>2, <2>1, <2>2, <2>3 DEF Tasks
  <2>7. /\ task'[q].full = task[q].full /\ task'[q].judged = task[q].judged
        /\ task'[q].asked = task[q].asked
    BY <1>2, <2>1 DEF Tasks
  <2>8. task'[q].stage = stage /\ task'[q].passed = passed
    BY <1>2, <2>1 DEF Tasks
  <2> QED
    BY <2>4, <2>5, <2>6, <2>7, <2>8
<1>4. task' \in [Runs -> Tasks]
  BY <1>1, <1>3
<1> QED
  BY <1>3, <1>4

\* A cancel request marks the runs under way and nothing else.
LEMMA AskedTask ==
  ASSUME TasksOK, NEW k \in Cancels, CancelRequest(k)
  PROVE  /\ task' \in [Runs -> Tasks]
         /\ \A r \in Runs :
              /\ task'[r].stage = task[r].stage /\ task'[r].full = task[r].full
              /\ task'[r].passed = task[r].passed /\ task'[r].judged = task[r].judged
              /\ task[r].stage \in Live => task'[r].asked
<1>1. \A r \in Runs : task[r] \in Tasks
  BY DEF TasksOK
<1>2. task' = [r \in Runs |->
        [task[r] EXCEPT
           !.asked = @ \/ task[r].stage \in Live \cup {"emitted"}]]
  BY DEF CancelRequest
<1>3. \A r \in Runs :
        /\ task'[r] \in Tasks
        /\ task'[r].stage = task[r].stage /\ task'[r].full = task[r].full
        /\ task'[r].passed = task[r].passed /\ task'[r].judged = task[r].judged
  BY <1>1, <1>2 DEF Tasks
<1>4. \A r \in Runs : task[r].stage \in Live => task'[r].asked
  BY <1>1, <1>2 DEF Tasks
<1> QED
  BY <1>2, <1>3, <1>4

LEMMA TypePartsNext ==
  TypeOK' <=> FlagsOK' /\ ErrorOK' /\ FeedOK' /\ TasksOK' /\ StepsOK' /\ ForegroundOK'
  BY TypeParts, PTL

LEMMA ForegroundStepType ==
  ASSUME TypeOK, NEW f \in Foreground,
         StartRun(f) \/ Publish(f) \/ Republish(f) \/ HooksPanic(f) \/ RunFails(f) \/ 
         FillStarts(f) \/ FillEnds(f) \/ FillPanics(f)
  PROVE  TypeOK'
<1>0. FlagsOK /\ ErrorOK /\ FeedOK /\ TasksOK /\ StepsOK /\ ForegroundOK
  BY TypeParts
<1>1. CASE StartRun(f)
  <2>1. TasksOK' /\ ForegroundOK'
    BY <1>1, MovedType DEF StartRun, Move, Runs, Stages, Live
  <2>2. FlagsOK' /\ ErrorOK' /\ FeedOK' /\ StepsOK'
    BY <1>0, <1>1 DEF FlagsOK, ErrorOK, FeedOK, StepsOK, FillStages, StartRun
  <2> QED
    BY <2>1, <2>2, TypePartsNext
<1>2. CASE Publish(f)
  <2>1. TasksOK' /\ ForegroundOK'
    BY <1>2, MovedType DEF Publish, Move, Runs, Stages, Live
  <2>2. FlagsOK' /\ ErrorOK' /\ FeedOK' /\ StepsOK'
    BY <1>0, <1>2 DEF FlagsOK, ErrorOK, FeedOK, StepsOK, FillStages, FeedOf, Feeds, Tasks, TasksOK, Runs, Publish
  <2> QED
    BY <2>1, <2>2, TypePartsNext
<1>3. CASE Republish(f)
  <2>1. TasksOK' /\ ForegroundOK'
    BY <1>3, EndedType DEF Republish, EndCycle, Runs
  <2>2. FlagsOK' /\ ErrorOK' /\ FeedOK' /\ StepsOK'
    BY <1>0, <1>3 DEF FlagsOK, ErrorOK, FeedOK, StepsOK, FillStages, FeedOf, Feeds, Tasks, TasksOK, Runs, Republish
  <2> QED
    BY <2>1, <2>2, TypePartsNext
<1>4. CASE HooksPanic(f)
  <2>1. TasksOK' /\ ForegroundOK'
    BY <1>4, EndedType DEF HooksPanic, EndCycle, Runs
  <2>2. FlagsOK' /\ ErrorOK' /\ FeedOK' /\ StepsOK'
    BY <1>0, <1>4 DEF FlagsOK, ErrorOK, FeedOK, StepsOK, FillStages, HooksPanic
  <2> QED
    BY <2>1, <2>2, TypePartsNext
<1>5. CASE RunFails(f)
  <2>1. TasksOK' /\ ForegroundOK'
    BY <1>5, EndedType DEF RunFails, EndCycle, Runs
  <2>2. FlagsOK' /\ ErrorOK' /\ FeedOK' /\ StepsOK'
    BY <1>0, <1>5 DEF FlagsOK, ErrorOK, FeedOK, StepsOK, FillStages, RunFails
  <2> QED
    BY <2>1, <2>2, TypePartsNext
<1>6. CASE FillStarts(f)
  <2>1. TasksOK' /\ ForegroundOK'
    BY <1>0, <1>6 DEF TasksOK, ForegroundOK, FillStarts
  <2>2. FlagsOK' /\ ErrorOK' /\ FeedOK' /\ StepsOK'
    BY <1>0, <1>6 DEF FlagsOK, ErrorOK, FeedOK, StepsOK, FillStages, FillStarts
  <2> QED
    BY <2>1, <2>2, TypePartsNext
<1>7. CASE FillEnds(f)
  <2>1. TasksOK' /\ ForegroundOK'
    BY <1>0, <1>7 DEF TasksOK, ForegroundOK, FillEnds
  <2>2. FlagsOK' /\ ErrorOK' /\ FeedOK' /\ StepsOK'
    BY <1>0, <1>7 DEF FlagsOK, ErrorOK, FeedOK, StepsOK, FillStages, FillEnds
  <2> QED
    BY <2>1, <2>2, TypePartsNext
<1>8. CASE FillPanics(f)
  <2>1. TasksOK' /\ ForegroundOK'
    BY <1>0, <1>8 DEF TasksOK, ForegroundOK, FillPanics
  <2>2. FlagsOK' /\ ErrorOK' /\ FeedOK' /\ StepsOK'
    BY <1>0, <1>8 DEF FlagsOK, ErrorOK, FeedOK, StepsOK, FillStages, FillPanics
  <2> QED
    BY <2>1, <2>2, TypePartsNext
<1> QED
  BY <1>1, <1>2, <1>3, <1>4, <1>5, <1>6, <1>7, <1>8

LEMMA CycleEndType ==
  ASSUME TypeOK, NEW c \in Cycles,
         Defer(c) \/ DeferPanics(c) \/ Complete(c) \/ CycleFails(c)
  PROVE  TypeOK'
<1>0. FlagsOK /\ ErrorOK /\ FeedOK /\ TasksOK /\ StepsOK /\ ForegroundOK
  BY TypeParts
<1>1. CASE Defer(c)
  <2>1. TasksOK' /\ ForegroundOK'
    <3>1. CASE task' = Ended(c, "done")
      BY <3>1, EndedType DEF Runs
    <3>2. CASE Move(c, "deferring", "filling")
      BY <3>2, MovedType DEF Move, Runs, Stages, Live
    <3> QED
      BY <1>1, <3>1, <3>2 DEF Defer, EndCycle
  <2>2. FlagsOK' /\ ErrorOK' /\ FeedOK' /\ StepsOK'
    BY <1>0, <1>1 DEF FlagsOK, ErrorOK, FeedOK, StepsOK, FillStages, EndCycle, Defer
  <2> QED
    BY <2>1, <2>2, TypePartsNext
<1>2. CASE Complete(c)
  <2>1. TasksOK' /\ ForegroundOK'
    BY <1>2, EndedType DEF Complete, EndCycle, Runs
  <2>2. FlagsOK' /\ ErrorOK' /\ FeedOK' /\ StepsOK'
    BY <1>0, <1>2 DEF FlagsOK, ErrorOK, FeedOK, StepsOK, FillStages, EndCycle, Complete
  <2> QED
    BY <2>1, <2>2, TypePartsNext
<1>3. CASE CycleFails(c)
  <2>1. TasksOK' /\ ForegroundOK'
    BY <1>3, EndedType DEF CycleFails, EndCycle, Runs
  <2>2. FlagsOK' /\ ErrorOK' /\ FeedOK' /\ StepsOK'
    BY <1>0, <1>3 DEF FlagsOK, ErrorOK, FeedOK, StepsOK, FillStages, EndCycle, CycleFails
  <2> QED
    BY <2>1, <2>2, TypePartsNext
<1>4. CASE DeferPanics(c)
  <2>1. TasksOK' /\ ForegroundOK'
    BY <1>4, EndedType DEF DeferPanics, Runs
  <2>2. FlagsOK' /\ ErrorOK' /\ FeedOK' /\ StepsOK'
    BY <1>0, <1>4 DEF FlagsOK, ErrorOK, FeedOK, StepsOK, FillStages, DeferPanics
  <2> QED
    BY <2>1, <2>2, TypePartsNext
<1> QED
  BY <1>1, <1>2, <1>3, <1>4

LEMMA CycleStepType ==
  ASSUME TypeOK, NEW c \in Cycles,
         Tick(c) \/ StaleData(c) \/ Listen(c) \/ FetchEnds(c) \/ Judge(c) \/ Store(c)
  PROVE  TypeOK'
<1>0. FlagsOK /\ ErrorOK /\ FeedOK /\ TasksOK /\ StepsOK /\ ForegroundOK
  BY TypeParts
<1>1. CASE Tick(c)
  <2>1. TasksOK' /\ ForegroundOK'
    BY <1>1, MovedType DEF Tick, Move, Runs, Stages, Live
  <2>2. FlagsOK' /\ ErrorOK' /\ FeedOK' /\ StepsOK'
    BY <1>0, <1>1 DEF FlagsOK, ErrorOK, FeedOK, StepsOK, FillStages, Tick
  <2> QED
    BY <2>1, <2>2, TypePartsNext
<1>2. CASE StaleData(c)
  <2>1. TasksOK' /\ ForegroundOK'
    BY <1>2, MovedType DEF StaleData, Move, Runs, Stages, Live
  <2>2. FlagsOK' /\ ErrorOK' /\ FeedOK' /\ StepsOK'
    BY <1>0, <1>2 DEF FlagsOK, ErrorOK, FeedOK, StepsOK, FillStages, StaleData
  <2> QED
    BY <2>1, <2>2, TypePartsNext
<1>3. CASE Listen(c)
  <2>1. TasksOK' /\ ForegroundOK'
    <3>1. CASE task' = Ended(c, "done")
      BY <3>1, EndedType DEF Runs
    <3>2. CASE Move(c, "emitted", "deferring")
      BY <3>2, MovedType DEF Move, Runs, Stages, Live
    <3> QED
      BY <1>3, <3>1, <3>2 DEF Listen, EndCycle
  <2>2. FlagsOK' /\ ErrorOK' /\ FeedOK' /\ StepsOK'
    BY <1>0, <1>3 DEF FlagsOK, ErrorOK, FeedOK, StepsOK, FillStages, Listen, EndCycle
  <2> QED
    BY <2>1, <2>2, TypePartsNext
<1>4. CASE FetchEnds(c)
  <2>1. TasksOK' /\ ForegroundOK'
    <3>1. CASE task' = Ended(c, "done")
      BY <3>1, EndedType DEF Runs
    <3>2. CASE Move(c, "filling", "ready")
      BY <3>2, MovedType DEF Move, Runs, Stages, Live
    <3> QED
      BY <1>4, <3>1, <3>2 DEF FetchEnds, EndCycle
  <2>2. FlagsOK' /\ ErrorOK' /\ FeedOK' /\ StepsOK'
    BY <1>0, <1>4 DEF FlagsOK, ErrorOK, FeedOK, StepsOK, FillStages, FetchEnds, EndCycle
  <2> QED
    BY <2>1, <2>2, TypePartsNext
<1>5. CASE Judge(c)
  <2>1. TasksOK' /\ ForegroundOK'
    BY <1>0, <1>5, JudgedTask, DisjointRuns DEF TasksOK, ForegroundOK, Runs
  <2>2. FlagsOK' /\ ErrorOK' /\ FeedOK' /\ StepsOK'
    BY <1>0, <1>5 DEF FlagsOK, ErrorOK, FeedOK, StepsOK, FillStages, Judge
  <2> QED
    BY <2>1, <2>2, TypePartsNext
<1>6. CASE Store(c)
  <2>1. TasksOK' /\ ForegroundOK'
    BY <1>6, MovedType DEF Store, Move, Runs, Stages
  <2>2. FlagsOK' /\ ErrorOK' /\ StepsOK'
    BY <1>0, <1>6 DEF FlagsOK, ErrorOK, FeedOK, StepsOK, FillStages, FeedOf, Feeds, Tasks, TasksOK, Runs, Store
  <2>3. FeedOK'
    BY <1>0, <1>6 DEF FlagsOK, ErrorOK, FeedOK, StepsOK, FillStages, FeedOf, Feeds, Tasks, TasksOK, Runs, Store
  <2> QED
    BY <2>1, <2>2, <2>3, TypePartsNext
<1> QED
  BY <1>1, <1>2, <1>3, <1>4, <1>5, <1>6

LEMMA RunStepType ==
  ASSUME TypeOK, NEW r \in Runs, Begin(r) \/ Score(r) \/ Rank(r)
  PROVE  TypeOK'
<1>0. FlagsOK /\ ErrorOK /\ FeedOK /\ TasksOK /\ StepsOK /\ ForegroundOK
  BY TypeParts
<1>1. CASE Begin(r)
  <2>6. TasksOK' /\ ForegroundOK'
    BY <1>0, <1>1, BegunTask DEF TasksOK, ForegroundOK, Runs
  <2>8. FlagsOK' /\ ErrorOK' /\ FeedOK' /\ StepsOK'
    BY <1>0, <1>1 DEF FlagsOK, ErrorOK, FeedOK, StepsOK, FillStages, Begin
  <2> QED
    BY <2>6, <2>8, TypePartsNext
<1>2. CASE Score(r)
  <2>1. TasksOK' /\ ForegroundOK'
    <3>1. CASE task' = [task EXCEPT ![r].stage = "scored"]
      BY <3>1, MovedType DEF Stages, Live
    <3>2. CASE task' = [task EXCEPT ![r].stage = "judged"]
      BY <3>2, MovedType DEF Stages, Live
    <3> QED
      BY <1>2, <3>1, <3>2 DEF Score
  <2>2. FlagsOK' /\ ErrorOK' /\ FeedOK' /\ StepsOK'
    BY <1>0, <1>2 DEF FlagsOK, ErrorOK, FeedOK, StepsOK, FillStages, Score
  <2> QED
    BY <2>1, <2>2, TypePartsNext
<1>3. CASE Rank(r)
  <2>4. TasksOK'
    BY <1>0, <1>3, RankedTask DEF TasksOK
  <2>6. ForegroundOK'
    BY <1>0, <1>3, RankedTask, DisjointRuns DEF ForegroundOK, Runs
  <2>7. FlagsOK' /\ ErrorOK' /\ FeedOK' /\ StepsOK'
    BY <1>0, <1>3 DEF FlagsOK, ErrorOK, FeedOK, StepsOK, FillStages, Rank
  <2> QED
    BY <2>4, <2>6, <2>7, TypePartsNext
<1> QED
  BY <1>1, <1>2, <1>3

LEMMA EnvironmentType ==
  ASSUME TypeOK, \/ \E k \in Cancels : CancelRequest(k) \/ CancelForce(k)
                 \/ \E s \in Interests : TurnOff(s) \/ TurnOn(s)
                 \/ DuplicateRequest \/ Watchdog \/ BriefingEmitFails
  PROVE  TypeOK'
<1>0. FlagsOK /\ ErrorOK /\ FeedOK /\ TasksOK /\ StepsOK /\ ForegroundOK
  BY TypeParts
<1>1. ASSUME NEW k \in Cancels, CancelRequest(k) PROVE TypeOK'
  <2>1. TasksOK' /\ ForegroundOK'
    BY <1>0, <1>1, AskedTask, DisjointRuns DEF TasksOK, ForegroundOK, Runs
  <2>2. FlagsOK' /\ ErrorOK' /\ FeedOK' /\ StepsOK'
    BY <1>0, <1>1 DEF FlagsOK, ErrorOK, FeedOK, StepsOK, FillStages, CancelRequest
  <2> QED
    BY <2>1, <2>2, TypePartsNext
<1>2. ASSUME NEW k \in Cancels, CancelForce(k) PROVE TypeOK'
  <2>1. TasksOK' /\ ForegroundOK'
    BY <1>0, <1>2 DEF TasksOK, ForegroundOK, CancelForce
  <2>2. FlagsOK' /\ ErrorOK' /\ FeedOK' /\ StepsOK'
    BY <1>0, <1>2 DEF FlagsOK, ErrorOK, FeedOK, StepsOK, FillStages, CancelForce
  <2> QED
    BY <2>1, <2>2, TypePartsNext
<1>3. ASSUME NEW s \in Interests, TurnOff(s) PROVE TypeOK'
  <2>1. TasksOK' /\ ForegroundOK'
    BY <1>0, <1>3 DEF TasksOK, ForegroundOK, TurnOff
  <2>2. FlagsOK' /\ ErrorOK' /\ FeedOK' /\ StepsOK'
    BY <1>0, <1>3 DEF FlagsOK, ErrorOK, FeedOK, StepsOK, FillStages, TurnOff, Feeds
  <2> QED
    BY <2>1, <2>2, TypePartsNext
<1>4. ASSUME NEW s \in Interests, TurnOn(s) PROVE TypeOK'
  <2>1. TasksOK' /\ ForegroundOK'
    BY <1>0, <1>4 DEF TasksOK, ForegroundOK, TurnOn
  <2>2. FlagsOK' /\ ErrorOK' /\ FeedOK' /\ StepsOK'
    BY <1>0, <1>4 DEF FlagsOK, ErrorOK, FeedOK, StepsOK, FillStages, TurnOn
  <2> QED
    BY <2>1, <2>2, TypePartsNext
<1>5. ASSUME DuplicateRequest PROVE TypeOK'
  <2>1. TasksOK' /\ ForegroundOK'
    BY <1>0, <1>5 DEF TasksOK, ForegroundOK, DuplicateRequest
  <2>2. FlagsOK' /\ ErrorOK' /\ FeedOK' /\ StepsOK'
    BY <1>0, <1>5 DEF FlagsOK, ErrorOK, FeedOK, StepsOK, FillStages, DuplicateRequest
  <2> QED
    BY <2>1, <2>2, TypePartsNext
<1>6. ASSUME Watchdog PROVE TypeOK'
  <2>1. TasksOK' /\ ForegroundOK'
    BY <1>0, <1>6 DEF TasksOK, ForegroundOK, Watchdog
  <2>2. FlagsOK' /\ ErrorOK' /\ FeedOK' /\ StepsOK'
    BY <1>0, <1>6 DEF FlagsOK, ErrorOK, FeedOK, StepsOK, FillStages, Watchdog
  <2> QED
    BY <2>1, <2>2, TypePartsNext
<1>7. ASSUME BriefingEmitFails PROVE TypeOK'
  <2>1. TasksOK' /\ ForegroundOK'
    BY <1>0, <1>7 DEF TasksOK, ForegroundOK, BriefingEmitFails
  <2>2. FlagsOK' /\ ErrorOK' /\ FeedOK' /\ StepsOK'
    BY <1>0, <1>7 DEF FlagsOK, ErrorOK, FeedOK, StepsOK, FillStages, BriefingEmitFails
  <2> QED
    BY <2>1, <2>2, TypePartsNext
<1> QED
  BY <1>1, <1>2, <1>3, <1>4, <1>5, <1>6, <1>7

LEMMA NextType == TypeOK /\ [Next]_vars => TypeOK'
<1> SUFFICES ASSUME TypeOK, [Next]_vars PROVE TypeOK'
  OBVIOUS
<1>1. CASE Next
  BY <1>1, NextCases, RunStepType, ForegroundStepType, CycleStepType, CycleEndType,
     EnvironmentType
<1>2. CASE UNCHANGED vars
  BY <1>2 DEF vars, TypeOK
<1> QED
  BY <1>1, <1>2

\* Every variable keeps its type, and a foreground run never enters a stage,
\* or earns a verdict, that only a scheduled cycle has.
THEOREM TypeCorrect == Spec => []TypeOK
  BY InitType, NextType, PTL DEF Spec

-----------------------------------------------------------------------------
(* What a step leaves alone *)

\* What the invariants read of a run.
Same(q) == /\ task'[q].stage = task[q].stage /\ task'[q].full = task[q].full
           /\ task'[q].judged = task[q].judged

OwnStep(r) ==
  \/ RunStep(r)
  \/ r \in Foreground /\ (StartRun(r) \/ Publish(r) \/ Republish(r) \/ HooksPanic(r)
                           \/ RunFails(r))
  \/ r \in Cycles /\ (Tick(r) \/ StaleData(r) \/ Listen(r) \/ Defer(r) \/ DeferPanics(r)
                       \/ FetchEnds(r)
                       \/ Judge(r) \/ Store(r) \/ Complete(r) \/ CycleFails(r))

\* A step of one run leaves every other run as it is, ...
LEMMA OthersStay ==
  ASSUME TypeOK, NEW r \in Runs, OwnStep(r)
  PROVE  \A q \in Runs \ {r} : Same(q) /\ task'[q].asked = task[q].asked
<1>0. TasksOK /\ FeedOK
  BY TypeParts
<1>1. CASE RunStep(r)
  <2>1. CASE Begin(r)
    BY <1>0, <2>1, BegunTask DEF Same
  <2>2. CASE Score(r)
    <3>1. PICK to \in {"scored", "judged"} : task' = [task EXCEPT ![r].stage = to]
      BY <2>2 DEF Score
    <3> QED
      BY <1>0, <3>1, MovedTask DEF Same, Stages, Live
  <2>3. CASE Rank(r)
    BY <1>0, <2>3, RankedTask DEF Same
  <2> QED
    BY <1>1, <2>1, <2>2, <2>3 DEF RunStep
<1>2. ASSUME NEW to \in Stages, task' = [task EXCEPT ![r].stage = to]
      PROVE  \A q \in Runs \ {r} : Same(q) /\ task'[q].asked = task[q].asked
  BY <1>0, <1>2, MovedTask DEF Same
<1>3. ASSUME NEW to \in {"done", "failed", "cancelled"}, task' = Ended(r, to)
      PROVE  \A q \in Runs \ {r} : Same(q) /\ task'[q].asked = task[q].asked
  BY <1>0, <1>3, EndedTask DEF Same
<1>4. CASE r \in Foreground /\ (StartRun(r) \/ Publish(r) \/ Republish(r) \/ HooksPanic(r)
                                \/ RunFails(r))
  BY <1>2, <1>3, <1>4
     DEF StartRun, Publish, Republish, HooksPanic, RunFails, Move, Stages, Live
<1>5. CASE r \in Cycles /\ (Tick(r) \/ StaleData(r) \/ Listen(r) \/ Defer(r) \/ DeferPanics(r)
                            \/ FetchEnds(r)
                            \/ Store(r) \/ Complete(r) \/ CycleFails(r))
  BY <1>2, <1>3, <1>5
     DEF Tick, StaleData, Listen, Defer, DeferPanics, FetchEnds, Store, Complete, CycleFails,
         EndCycle,
         Move, Stages, Live
<1>6. CASE r \in Cycles /\ Judge(r)
  BY <1>0, <1>6, JudgedTask DEF Same
<1> QED
  BY <1>1, <1>4, <1>5, <1>6 DEF OwnStep

OutsideStep ==
  \/ \E f \in Foreground : FillStarts(f) \/ FillEnds(f) \/ FillPanics(f)
  \/ \E k \in Cancels : CancelRequest(k) \/ CancelForce(k)
  \/ \E s \in Interests : TurnOff(s) \/ TurnOn(s)
  \/ DuplicateRequest \/ Watchdog \/ BriefingEmitFails
  \/ UNCHANGED vars

\* ... and a step of anything else leaves all of them.
LEMMA RunsStay ==
  ASSUME TypeOK, OutsideStep
  PROVE  \A q \in Runs : Same(q)
<1>0. TasksOK
  BY TypeParts
<1>1. CASE \E k \in Cancels : CancelRequest(k)
  BY <1>0, <1>1, AskedTask DEF Same
<1>2. CASE UNCHANGED task
  BY <1>2 DEF Same
<1> QED
  BY <1>1, <1>2 DEF OutsideStep, FillStarts, FillEnds, FillPanics, CancelForce, TurnOff,
     TurnOn, DuplicateRequest, Watchdog, BriefingEmitFails, vars

LEMMA StepCases ==
  ASSUME [Next]_vars
  PROVE  OutsideStep \/ \E r \in Runs : OwnStep(r)
<1>1. CASE Next
  BY <1>1, NextCases DEF OutsideStep, OwnStep, RunStep, Runs
<1> QED
  BY <1>1 DEF OutsideStep

-----------------------------------------------------------------------------
(* The status *)

\* RunningHasTask flag by flag.
RunHasTask == running => \E f \in Foreground : Alive(f)
Asked(f) == task[f].asked = TRUE
AbortIsMeant == abort => \A f \in Foreground : Alive(f) => Asked(f)

LEMMA RunningParts ==
  ASSUME TypeOK
  PROVE  RunningHasTask <=> RunHasTask /\ AbortIsMeant
<1>1. \A f \in Foreground : task[f].asked \in BOOLEAN
  BY TypeParts DEF TasksOK, Tasks, Runs
<1> QED
  BY <1>1 DEF RunningHasTask, RunHasTask, AbortIsMeant, Asked

LEMMA RunningPartsNext ==
  TypeOK' => (RunningHasTask' <=> RunHasTask' /\ AbortIsMeant')
  BY RunningParts, PTL

\* The running flag comes down in the same step in which a foreground run
\* stops being alive.
LEMMA RunningNext == TypeOK /\ RunHasTask /\ [Next]_vars => RunHasTask'
<1> SUFFICES ASSUME TypeOK, RunHasTask, [Next]_vars, running'
             PROVE  \E f \in Foreground : Alive(f)'
  BY DEF RunHasTask
<1>0. TasksOK
  BY TypeParts
<1>1. CASE OutsideStep
  <2>1. running
    BY <1>1 DEF OutsideStep, FillStarts, FillEnds, FillPanics, CancelRequest, CancelForce,
       TurnOff, TurnOn, DuplicateRequest, Watchdog, BriefingEmitFails, vars
  <2> QED
    BY <1>1, <2>1, RunsStay DEF RunHasTask, Alive, Same, Runs
<1>2. ASSUME NEW r \in Runs, OwnStep(r)
      PROVE  \E f \in Foreground : Alive(f)'
  <2>1. CASE r \in Foreground /\ StartRun(r)
    BY <1>0, <2>1, MovedTask DEF StartRun, Move, Alive, Live, Stages, Runs
  <2>2. CASE RunStep(r)
    <3>1. running
      BY <2>2 DEF RunStep, Begin, Score, Rank
    <3>2. task'[r].stage \in Live
      <4>1. CASE Begin(r)
        BY <1>0, <4>1, BegunTask, TypeParts DEF Live
      <4>2. CASE Score(r)
        <5>1. PICK to \in {"scored", "judged"} : task' = [task EXCEPT ![r].stage = to]
          BY <4>2 DEF Score
        <5> QED
          BY <1>0, <5>1, MovedTask DEF Stages, Live
      <4>3. CASE Rank(r)
        BY <1>0, <4>3, RankedTask DEF Live
      <4> QED
        BY <2>2, <4>1, <4>2, <4>3 DEF RunStep
    <3>3. \A f \in Foreground : Alive(f) => Alive(f)'
      BY <1>2, <3>2, OthersStay DEF Alive, Same, Runs
    <3> QED
      BY <3>1, <3>3 DEF RunHasTask
  <2>3. CASE r \in Foreground /\ (Republish(r) \/ HooksPanic(r))
    <3>1. running /\ ~Alive(r)
      BY <2>3 DEF Republish, HooksPanic, Alive, Live
    <3> QED
      BY <1>2, <3>1, OthersStay DEF RunHasTask, Alive, Same, Runs
  <2>4. CASE r \in Foreground /\ (Publish(r) \/ RunFails(r))
    BY <2>4 DEF Publish, RunFails
  <2>5. CASE r \in Cycles /\ (Tick(r) \/ StaleData(r) \/ Listen(r) \/ Defer(r) \/ DeferPanics(r)
                              \/ FetchEnds(r)
                              \/ Judge(r) \/ Store(r) \/ Complete(r) \/ CycleFails(r))
    <3>1. running
      BY <2>5 DEF Tick, StaleData, Listen, Defer, DeferPanics, FetchEnds, Judge, Store,
       Complete,
         CycleFails, EndCycle
    <3>2. \A f \in Foreground : Same(f)
      BY <1>2, <2>5, OthersStay, DisjointRuns DEF Runs
    <3> QED
      BY <3>1, <3>2 DEF RunHasTask, Alive, Same
  <2> QED
    BY <1>2, <2>1, <2>2, <2>3, <2>4, <2>5 DEF OwnStep
<1> QED
  BY <1>1, <1>2, StepCases

\* A foreground run starts with the flag down, and a cancel that raises it is
\* asked for during every run it could stop.
LEMMA AbortNext == TypeOK /\ AbortIsMeant /\ [Next]_vars => AbortIsMeant'
<1> SUFFICES ASSUME TypeOK, AbortIsMeant, [Next]_vars, abort',
                    NEW f \in Foreground, Alive(f)'
             PROVE  Asked(f)'
  BY DEF AbortIsMeant
<1>0. TasksOK /\ ForegroundOK /\ f \in Runs
  BY TypeParts DEF Runs
<1>1. ASSUME NEW k \in Cancels, CancelRequest(k) PROVE Asked(f)'
  <2>1. task'[f].stage = task[f].stage /\ task'[f].asked \in BOOLEAN
    BY <1>0, <1>1, AskedTask DEF Tasks
  <2>2. Alive(f)
    BY <2>1 DEF Alive
  <2> QED
    BY <1>0, <1>1, <2>1, <2>2, AskedTask DEF Alive, Asked
<1>2. ASSUME UNCHANGED <<abort, task>> PROVE Asked(f)'
  BY <1>2 DEF AbortIsMeant, Alive, Asked
<1>3. CASE OutsideStep
  BY <1>1, <1>2, <1>3 DEF OutsideStep, FillStarts, FillEnds, FillPanics, CancelForce, TurnOff,
     TurnOn, DuplicateRequest, Watchdog, BriefingEmitFails, vars
<1>4. ASSUME NEW r \in Runs, OwnStep(r) PROVE Asked(f)'
  <2>1. ~\E g \in Foreground : StartRun(g)
    BY DEF StartRun
  <2>2. abort
    BY <1>4, <2>1 DEF OwnStep, RunStep, Begin, Score, Rank, Publish, Republish, HooksPanic,
       RunFails, Tick, StaleData, Listen, Defer, DeferPanics, FetchEnds, Judge, Store, Complete,
       CycleFails,
       EndCycle
  <2>3. CASE r # f
    BY <1>0, <1>4, <2>2, <2>3, OthersStay DEF AbortIsMeant, Alive, Asked, Same
  <2>4. CASE r = f /\ RunStep(f)
    <3>1. Alive(f)
      BY <2>4 DEF RunStep, Begin, Score, Rank, Alive, Live
    <3>2. task'[f].asked = task[f].asked
      <4>1. CASE Begin(f)
        BY <1>0, <4>1, BegunTask, TypeParts
      <4>2. CASE Score(f)
        <5>1. PICK to \in {"scored", "judged"} : task' = [task EXCEPT ![f].stage = to]
          BY <4>2 DEF Score
        <5> QED
          BY <1>0, <5>1, MovedTask DEF Stages, Live
      <4>3. CASE Rank(f)
        BY <1>0, <4>3, RankedTask
      <4> QED
        BY <2>4, <4>1, <4>2, <4>3 DEF RunStep
    <3> QED
      BY <2>2, <3>1, <3>2 DEF AbortIsMeant, Asked
  <2>5. CASE r = f /\ ~RunStep(f)
    <3>1. Publish(f) \/ Republish(f) \/ HooksPanic(f) \/ RunFails(f)
      BY <1>4, <2>1, <2>5, DisjointRuns DEF OwnStep
    <3>2. task'[f].stage \in {"published", "done", "failed", "cancelled"}
      <4>1. CASE Publish(f)
        BY <1>0, <4>1, MovedTask DEF Publish, Move, Stages, Live
      <4>2. CASE ~Publish(f)
        <5>1. PICK to \in {"done", "failed", "cancelled"} : task' = Ended(f, to)
          BY <3>1, <4>2 DEF Republish, HooksPanic, RunFails
        <5> QED
          BY <1>0, <5>1, EndedTask
      <4> QED
        BY <4>1, <4>2
    <3> QED
      BY <3>2 DEF Alive, Live
  <2> QED
    BY <2>3, <2>4, <2>5
<1> QED
  BY <1>3, <1>4, StepCases

\* While the status says an analysis runs, a foreground task is on its way to
\* clear it; while the abort flag is up, no foreground run is under way that no
\* cancel was asked for in.
THEOREM RunningCorrect == Spec => []RunningHasTask
<1>1. Init => RunningHasTask
  BY DEF Init, RunningHasTask
<1>2. TypeOK /\ RunningHasTask /\ TypeOK' /\ [Next]_vars => RunningHasTask'
  <2>1. ASSUME TypeOK' PROVE RunningHasTask' <=> RunHasTask' /\ AbortIsMeant'
    BY <2>1, RunningPartsNext
  <2> QED
    BY <2>1, RunningParts, RunningNext, AbortNext
<1> QED
  BY <1>1, <1>2, TypeCorrect, PTL DEF Spec

\* What the user takes back is what ends: a foreground run ends as cancelled only if
\* a cancel was asked for while it was under way, however long the flag stays up, and
\* however many runs, cancels and forced cleanups went before.
CancelHitsForeground ==
  [][\A f \in Foreground : task[f].stage # "cancelled" /\ task'[f].stage = "cancelled"
        => task[f].asked]_vars

\* A cancel never ends a later foreground run, though it may end a later cycle.
THEOREM CancelIsForTheRun == Spec => CancelHitsForeground
<1>1. TypeOK /\ RunningHasTask /\ [Next]_vars =>
        \A f \in Foreground : task[f].stage # "cancelled" /\ task'[f].stage = "cancelled"
          => task[f].asked
  <2> SUFFICES ASSUME TypeOK, RunningHasTask, [Next]_vars, NEW f \in Foreground,
                      task[f].stage # "cancelled", task'[f].stage = "cancelled"
               PROVE  task[f].asked
    OBVIOUS
  <2>0. TasksOK /\ FeedOK /\ f \in Runs
    BY TypeParts DEF Runs
  <2>1. ~OutsideStep
    BY <2>0, RunsStay DEF Same
  <2>2. PICK r \in Runs : OwnStep(r)
    BY <2>1, StepCases
  <2>3. r = f
    BY <2>0, <2>2, OthersStay DEF Same
  <2>4. ~RunStep(f)
    <3>1. CASE Begin(f)
      BY <2>0, <3>1, BegunTask
    <3>2. CASE Score(f)
      <4>1. PICK to \in {"scored", "judged"} : task' = [task EXCEPT ![f].stage = to]
        BY <3>2 DEF Score
      <4> QED
        BY <2>0, <4>1, MovedTask DEF Stages, Live
    <3>3. CASE Rank(f)
      BY <2>0, <3>3, RankedTask
    <3> QED
      BY <3>1, <3>2, <3>3 DEF RunStep
  <2>5. RunFails(f)
    <3>1. StartRun(f) \/ Publish(f) \/ Republish(f) \/ HooksPanic(f) \/ RunFails(f)
      BY <2>2, <2>3, <2>4, DisjointRuns DEF OwnStep
    <3> QED
      BY <2>0, <3>1, MovedTask, EndedTask
         DEF StartRun, Publish, Republish, HooksPanic, Move, Stages, Live
  <2>6. IsCancelled(f)
    BY <2>0, <2>5, EndedTask DEF RunFails
  <2> QED
    BY <2>6 DEF IsCancelled, RunningHasTask, Alive, Live
<1> QED
  BY <1>1, TypeCorrect, RunningCorrect, PTL DEF Spec, CancelHitsForeground

\* No step takes a run back to "idle", and only StartRun takes a foreground
\* run out of it.
LEMMA StaysIdle ==
  ASSUME TypeOK, [Next]_vars, NEW f \in Foreground,
         task[f].stage = "idle", task'[f].stage # "idle"
  PROVE  StartRun(f)
<1>1. ~OutsideStep
  BY RunsStay DEF Same, Runs
<1>2. PICK r \in Runs : OwnStep(r)
  BY <1>1, StepCases
<1>3. r = f
  BY <1>2, OthersStay DEF Same, Runs
<1> QED
  BY <1>2, <1>3, DisjointRuns
     DEF OwnStep, RunStep, Begin, Score, Rank, Publish, Republish, HooksPanic, RunFails,
         CanFail, IsCancelled, Alive, Live, Move, Runs

LEMMA StatusNext == TypeOK /\ StatusTold /\ [Next]_vars => StatusTold'
<1> SUFFICES ASSUME TypeOK, StatusTold, [Next]_vars PROVE StatusTold'
  OBVIOUS
<1>1. CASE \E f \in Foreground : StartRun(f)
  BY <1>1 DEF StartRun, StatusTold
<1>2. CASE \E f \in Foreground : Publish(f)
  BY <1>2 DEF Publish, StatusTold
<1>3. CASE \E f \in Foreground : RunFails(f)
  BY <1>3 DEF RunFails, StatusTold
<1>4. CASE Watchdog
  BY <1>4 DEF Watchdog, StatusTold
<1>5. ASSUME ~\E f \in Foreground : StartRun(f)
      PROVE  (\E f \in Foreground : task'[f].stage # "idle")
               => \E f \in Foreground : task[f].stage # "idle"
  BY <1>5, StaysIdle
<1>6. CASE \E k \in Cancels : CancelForce(k)
  <2>1. ~\E f \in Foreground : StartRun(f)
    BY <1>6 DEF CancelForce, StartRun
  <2> QED
    BY <1>5, <1>6, <2>1 DEF CancelForce, StatusTold
<1>7. CASE UNCHANGED status /\ ~\E f \in Foreground : StartRun(f)
  BY <1>5, <1>7 DEF StatusTold
<1>8. ASSUME ~\E f \in Foreground : StartRun(f) \/ Publish(f) \/ RunFails(f),
             ~Watchdog, ~\E k \in Cancels : CancelForce(k)
      PROVE  UNCHANGED status
  <2>1. CASE OutsideStep
    BY <1>8, <2>1 DEF OutsideStep, FillStarts, FillEnds, FillPanics, CancelRequest,
       TurnOff, TurnOn, DuplicateRequest, BriefingEmitFails, vars
  <2>2. CASE \E r \in Runs : OwnStep(r)
    BY <1>8, <2>2 DEF OwnStep, RunStep, Begin, Score, Rank, Republish, HooksPanic, Tick,
       StaleData, Listen, Defer, DeferPanics, FetchEnds, Judge, Store,
       Complete, CycleFails, EndCycle
  <2> QED
    BY <2>1, <2>2, StepCases
<1> QED
  BY <1>1, <1>2, <1>3, <1>4, <1>6, <1>7, <1>8

\* A run shown as running is neither finished nor in error, and a run that
\* was started and is not running left an outcome.
THEOREM StatusCorrect == Spec => []StatusTold
<1>1. Init => StatusTold
  BY DEF Init, StatusTold, Fresh, Runs
<1> QED
  BY <1>1, StatusNext, TypeCorrect, PTL DEF Spec

-----------------------------------------------------------------------------
(* The shared feed *)

\* Steps that write neither the shared feed nor its flag (a source being
\* turned off takes rows out of the feed and changes nothing else of it).
LEMMA FeedWriters ==
  ASSUME TypeOK, [Next]_vars, results' # NoFeed
  PROVE  \/ /\ results # NoFeed /\ results'.by = results.by
            /\ UNCHANGED judged
            /\ ~\E r \in Runs : Begin(r)
         \/ \E f \in Foreground : Publish(f) \/ Republish(f)
         \/ \E c \in Cycles : Store(c) /\ task[c].full
                              /\ results' = FeedOf(c) /\ judged' = task[c].judged
<1>0. ~\E r \in Runs : Begin(r)
  BY DEF Begin
<1>1. CASE UNCHANGED <<results, judged>>
  BY <1>0, <1>1
<1>2. CASE \E s \in Interests : TurnOff(s)
  <2>1. results # NoFeed /\ results \in Feeds
    BY <1>2, TypeParts DEF TurnOff, FeedOK
  <2>2. results'.by = results.by
    BY <1>2, <2>1 DEF TurnOff, Feeds
  <2> QED
    BY <1>0, <1>2, <2>1, <2>2 DEF TurnOff
<1>4. ASSUME NEW c \in Cycles, Store(c)
      PROVE  \/ UNCHANGED <<results, judged>>
             \/ /\ Store(c) /\ task[c].full
                /\ results' = FeedOf(c) /\ judged' = task[c].judged
  BY <1>4 DEF Store
<1>5. CASE \E f \in Foreground : Publish(f) \/ Republish(f)
  BY <1>5
<1>6. ASSUME ~\E s \in Interests : TurnOff(s),
             ~\E c \in Cycles : Store(c), ~\E f \in Foreground : Publish(f) \/ Republish(f)
      PROVE  UNCHANGED <<results, judged>>
  <2>1. CASE OutsideStep
    BY <1>6, <2>1 DEF OutsideStep, FillStarts, FillEnds, FillPanics, CancelRequest,
       CancelForce, TurnOn, DuplicateRequest, Watchdog, BriefingEmitFails, vars
  <2>2. CASE \E r \in Runs : OwnStep(r)
    BY <1>0, <1>6, <2>2 DEF OwnStep, RunStep, Score, Rank, StartRun, HooksPanic, RunFails, Tick,
       StaleData, Listen, Defer, DeferPanics, FetchEnds, Judge, Complete, CycleFails, EndCycle
  <2> QED
    BY <2>1, <2>2, StepCases
<1> QED
  BY <1>1, <1>2, <1>4, <1>5, <1>6

\* A run whose feed is shared has ended its analysis: its own steps leave the
\* verdict and the completeness of the feed alone.
LEMMA ShownStays ==
  ASSUME TypeOK, [Next]_vars, NEW q \in Runs, task[q].stage \in {"published", "done"}
  PROVE  /\ task'[q].stage \in {"published", "done"}
         /\ task'[q].full = task[q].full /\ task'[q].judged = task[q].judged
<1>0. TasksOK
  BY TypeParts
<1>1. CASE OutsideStep
  BY <1>1, RunsStay DEF Same
<1>2. ASSUME NEW r \in Runs, OwnStep(r), r # q
      PROVE  Same(q)
  BY <1>2, OthersStay
<1>3. CASE OwnStep(q)
  <2>1. task' = Ended(q, "done")
    BY <1>3 DEF OwnStep, RunStep, Begin, Score, Rank, StartRun, Publish, Republish,
       HooksPanic, RunFails, CanFail, IsCancelled, Alive, Live, Tick, StaleData, Listen,
       Defer, DeferPanics, FetchEnds, Judge, Store, Complete, CycleFails, EndCycle, Move
  <2> QED
    BY <1>0, <2>1, EndedTask
<1> QED
  BY <1>1, <1>2, <1>3, StepCases DEF Same

\* The run that writes the feed.
LEMMA WriterStage ==
  ASSUME TypeOK, NEW r \in Runs,
         \/ r \in Foreground /\ (Publish(r) \/ Republish(r))
         \/ r \in Cycles /\ Store(r)
  PROVE  /\ task'[r].stage \in {"published", "done"}
         /\ task'[r].full = task[r].full /\ task'[r].judged = task[r].judged
<1>0. TasksOK
  BY TypeParts
<1>1. CASE task' = [task EXCEPT ![r].stage = "published"]
  BY <1>0, <1>1, MovedTask DEF Stages
<1>2. CASE task' = Ended(r, "done")
  BY <1>0, <1>2, EndedTask
<1> QED
  BY <1>1, <1>2 DEF Publish, Republish, Store, Move

LEMMA FlagNext == TypeOK /\ FlagMatchesFeed /\ [Next]_vars => FlagMatchesFeed'
<1> SUFFICES ASSUME TypeOK, FlagMatchesFeed, [Next]_vars, results' # NoFeed
             PROVE  /\ judged' = task'[results'.by].judged
                    /\ judged' => results'.by \in Cycles
                    /\ task'[results'.by].stage \in {"published", "done"}
  BY DEF FlagMatchesFeed
<1>1. CASE results # NoFeed /\ results'.by = results.by /\ UNCHANGED judged
  <2>1. results.by \in Runs
    BY <1>1, TypeParts DEF FeedOK, Feeds
  <2> QED
    BY <1>1, <2>1, ShownStays DEF FlagMatchesFeed
<1>2. ASSUME NEW f \in Foreground, Publish(f) \/ Republish(f)
      PROVE  /\ judged' = task'[results'.by].judged
             /\ judged' => results'.by \in Cycles
             /\ task'[results'.by].stage \in {"published", "done"}
  <2>1. results'.by = f /\ judged' = task[f].judged
    BY <1>2 DEF Publish, Republish, FeedOf
  <2>2. ~task[f].judged
    BY TypeParts DEF ForegroundOK
  <2> QED
    BY <1>2, <2>1, <2>2, WriterStage DEF Runs
<1>3. ASSUME NEW c \in Cycles, Store(c), results' = FeedOf(c), judged' = task[c].judged
      PROVE  /\ judged' = task'[results'.by].judged
             /\ judged' => results'.by \in Cycles
             /\ task'[results'.by].stage \in {"published", "done"}
  <2>1. results'.by = c
    BY <1>3 DEF FeedOf
  <2> QED
    BY <1>3, <2>1, WriterStage DEF Runs
<1> QED
  BY <1>1, <1>2, <1>3, FeedWriters

\* The judged flag is the one of the run whose feed is shown.
THEOREM FlagCorrect == Spec => []FlagMatchesFeed
<1>1. Init => FlagMatchesFeed
  BY DEF Init, FlagMatchesFeed
<1> QED
  BY <1>1, FlagNext, TypeCorrect, PTL DEF Spec

\* FeedIsComplete is not inductive: a foreground run publishes without
\* looking at what its feed is, so the feed it is about to publish must be
\* complete since the run began.
AboutToShow == {"scoring", "scored", "judged", "published"}
ForegroundIsFull == \A f \in Foreground : task[f].stage \in AboutToShow => task[f].full

LEMMA FullNext == TypeOK /\ ForegroundIsFull /\ [Next]_vars => ForegroundIsFull'
<1> SUFFICES ASSUME TypeOK, ForegroundIsFull, [Next]_vars, NEW f \in Foreground,
                    task'[f].stage \in AboutToShow
             PROVE  task'[f].full
  BY DEF ForegroundIsFull
<1>0. TasksOK /\ FeedOK /\ f \in Runs /\ f \notin Cycles
  BY TypeParts, DisjointRuns DEF Runs
<1>1. CASE Same(f)
  BY <1>1 DEF Same, ForegroundIsFull
<1>2. CASE Begin(f)
  BY <1>0, <1>2, BegunTask
<1>3. CASE Score(f)
  <2>1. PICK to \in {"scored", "judged"} : task' = [task EXCEPT ![f].stage = to]
    BY <1>3 DEF Score
  <2>2. task'[f].full = task[f].full
    BY <1>0, <2>1, MovedTask DEF Stages, Live
  <2> QED
    BY <1>3, <2>2 DEF Score, ForegroundIsFull, AboutToShow
<1>4. CASE Rank(f)
  BY <1>0, <1>4, RankedTask DEF Rank, ForegroundIsFull, AboutToShow
<1>5. CASE Publish(f)
  BY <1>0, <1>5, WriterStage DEF Publish, Move, ForegroundIsFull, AboutToShow
<1>6. CASE StartRun(f)
  <2>1. task'[f].stage = "ready"
    BY <1>0, <1>6, MovedTask DEF StartRun, Move, Stages, Live
  <2> QED
    BY <2>1 DEF AboutToShow
<1>7. CASE Republish(f) \/ HooksPanic(f) \/ RunFails(f)
  <2>1. PICK to \in {"done", "failed", "cancelled"} : task' = Ended(f, to)
    BY <1>7 DEF Republish, HooksPanic, RunFails
  <2>2. task'[f].stage = to
    BY <1>0, <2>1, EndedTask
  <2> QED
    BY <2>2 DEF AboutToShow
<1>8. ASSUME ~Same(f)
      PROVE  OwnStep(f)
  BY <1>0, <1>8, StepCases, RunsStay, OthersStay
<1> QED
  BY <1>0, <1>1, <1>2, <1>3, <1>4, <1>5, <1>6, <1>7, <1>8 DEF OwnStep, RunStep

LEMMA CompleteNext ==
  TypeOK /\ FlagMatchesFeed /\ ForegroundIsFull /\ FeedIsComplete /\ [Next]_vars
    => FeedIsComplete'
<1> SUFFICES ASSUME TypeOK, FlagMatchesFeed, ForegroundIsFull, FeedIsComplete, [Next]_vars,
                    results' # NoFeed
             PROVE  task'[results'.by].full
  BY DEF FeedIsComplete
<1>1. CASE results # NoFeed /\ results'.by = results.by
  <2>1. results.by \in Runs
    BY <1>1, TypeParts DEF FeedOK, Feeds
  <2> QED
    BY <1>1, <2>1, ShownStays DEF FlagMatchesFeed, FeedIsComplete
<1>2. ASSUME NEW f \in Foreground, Publish(f) \/ Republish(f)
      PROVE  task'[results'.by].full
  <2>1. results'.by = f /\ task[f].stage \in AboutToShow
    BY <1>2 DEF Publish, Republish, FeedOf, Move, AboutToShow
  <2> QED
    BY <1>2, <2>1, WriterStage DEF ForegroundIsFull, Runs
<1>3. ASSUME NEW c \in Cycles, Store(c), task[c].full, results' = FeedOf(c)
      PROVE  task'[results'.by].full
  <2>1. results'.by = c
    BY <1>3 DEF FeedOf
  <2> QED
    BY <1>3, <2>1, WriterStage DEF Runs
<1> QED
  BY <1>1, <1>2, <1>3, FeedWriters

\* A partial differential set never becomes the shared feed.
THEOREM CompleteCorrect == Spec => []FeedIsComplete
<1>1. Init => FeedIsComplete
  BY DEF Init, FeedIsComplete
<1>2. Init => ForegroundIsFull
  BY DEF Init, ForegroundIsFull, AboutToShow, Fresh, Runs
<1>3. Spec => []ForegroundIsFull
  BY <1>2, FullNext, TypeCorrect, PTL DEF Spec
<1> QED
  BY <1>1, <1>3, CompleteNext, FlagCorrect, TypeCorrect, PTL DEF Spec

-----------------------------------------------------------------------------
(* The gate *)

Holding == Live \cup {"emitted", "published"}

\* A scheduled cycle that neither releases the gate nor loses it goes on holding it.
LEMMA HoldersStay ==
  ASSUME TypeOK, [Next]_vars, checking', ~latched', NEW c \in Cycles, task[c].stage \in Holding
  PROVE  task'[c].stage \in Holding
<1>0. TasksOK /\ FeedOK /\ c \in Runs /\ c \notin Foreground
  BY TypeParts, DisjointRuns DEF Runs
<1>1. CASE Same(c)
  BY <1>1 DEF Same
<1>2. CASE RunStep(c)
  <2>1. CASE Begin(c)
    BY <1>0, <2>1, BegunTask DEF Holding, Live
  <2>2. CASE Score(c)
    <3>1. task' = [task EXCEPT ![c].stage = "scored"]
      BY <2>2 DEF Score
    <3> QED
      BY <1>0, <3>1, MovedTask DEF Holding, Live, Stages
  <2>3. CASE Rank(c)
    BY <1>0, <2>3, RankedTask DEF Holding, Live
  <2> QED
    BY <1>2, <2>1, <2>2, <2>3 DEF RunStep
<1>3. CASE Judge(c)
  BY <1>0, <1>3, JudgedTask DEF Holding, Live
<1>4. ASSUME NEW to \in Holding, task' = [task EXCEPT ![c].stage = to]
      PROVE  task'[c].stage \in Holding
  BY <1>0, <1>4, MovedTask DEF Holding, Stages
<1>5. ~(DeferPanics(c) \/ Complete(c) \/ CycleFails(c))
  <2>1. ASSUME DeferPanics(c)
        PROVE  FALSE
    <3>1. checking \in BOOLEAN
      BY TypeParts DEF FlagsOK
    <3>2. checking' = checking /\ latched' = checking
      BY <2>1 DEF DeferPanics
    <3>3. checking = TRUE
      BY <3>1, <3>2, Zenon
    <3> QED
      BY <3>2, <3>3, Zenon
  <2> QED
    BY <2>1 DEF Complete, CycleFails, EndCycle
<1>6. CASE Tick(c) \/ StaleData(c) \/ Listen(c) \/ Defer(c) \/ FetchEnds(c) \/ Store(c)
  BY <1>4, <1>6 DEF Tick, StaleData, Listen, Defer, FetchEnds, Store, Move, EndCycle, Holding, Live
<1>7. ASSUME ~Same(c)
      PROVE  OwnStep(c)
  BY <1>0, <1>7, StepCases, RunsStay, OthersStay
<1> QED
  BY <1>0, <1>1, <1>2, <1>3, <1>5, <1>6, <1>7 DEF OwnStep

\* GateHeldByWork is not inductive: publishing spawns a refresh, and must not
\* do so over one that holds the gate.
FillAfterRun ==
  \A f \in Foreground : fill[f] # "none" => task[f].stage \in {"published", "done"}

LEMMA FillAfterRunNext == TypeOK /\ FillAfterRun /\ [Next]_vars => FillAfterRun'
<1> SUFFICES ASSUME TypeOK, FillAfterRun, [Next]_vars, NEW f \in Foreground, fill'[f] # "none"
             PROVE  task'[f].stage \in {"published", "done"}
  BY DEF FillAfterRun
<1>0. StepsOK /\ f \in Runs
  BY TypeParts DEF Runs
<1>1. CASE fill[f] # "none"
  BY <1>0, <1>1, ShownStays DEF FillAfterRun
<1>2. CASE Publish(f)
  BY <1>0, <1>2, WriterStage
<1>3. ASSUME ~Publish(f)
      PROVE  fill'[f] = fill[f] \/ fill[f] # "none"
  <2>1. CASE OutsideStep
    BY <1>0, <2>1 DEF OutsideStep, FillStarts, FillEnds, FillPanics, StepsOK,
       CancelRequest, CancelForce, TurnOff, TurnOn, DuplicateRequest, Watchdog,
       BriefingEmitFails, vars
  <2>2. ASSUME NEW r \in Foreground, Publish(r)
        PROVE  fill'[f] = fill[f]
    BY <1>0, <1>3, <2>2 DEF Publish, StepsOK
  <2>3. ASSUME NEW r \in Runs, OwnStep(r), ~\E g \in Foreground : Publish(g)
        PROVE  UNCHANGED fill
    BY <2>3 DEF OwnStep, RunStep, Begin, Score, Rank, StartRun, Republish, HooksPanic,
       RunFails, Tick, StaleData, Listen, Defer, DeferPanics, FetchEnds, Judge, Store, Complete,
       CycleFails, EndCycle
  <2> QED
    BY <2>1, <2>2, <2>3, StepCases
<1> QED
  BY <1>1, <1>2, <1>3

LEMMA GateNext == TypeOK /\ FillAfterRun /\ GateHeldByWork /\ [Next]_vars => GateHeldByWork'
<1> SUFFICES ASSUME TypeOK, FillAfterRun, GateHeldByWork, [Next]_vars, checking', ~latched'
             PROVE  \/ \E c \in Cycles : task'[c].stage \in Holding
                    \/ \E f \in Foreground : fill'[f] = "filling"
  BY DEF GateHeldByWork, Holding
<1>0. TasksOK /\ StepsOK
  BY TypeParts
<1>1. ASSUME NEW c \in Cycles, Tick(c)
      PROVE  task'[c].stage \in Holding
  BY <1>0, <1>1, MovedTask DEF Tick, Move, Holding, Stages, Runs
<1>2. ASSUME NEW f \in Foreground, FillStarts(f), ~checking
      PROVE  fill'[f] = "filling"
  BY <1>0, <1>2 DEF FillStarts, StepsOK
<1>3. CASE checking /\ \E c \in Cycles : task[c].stage \in Holding
  BY <1>3, HoldersStay
<1>4. ASSUME checking, NEW f \in Foreground, fill[f] = "filling"
      PROVE  fill'[f] = "filling"
  <2>1. CASE OutsideStep
    BY <1>0, <1>4, <2>1 DEF OutsideStep, FillStarts, FillEnds, FillPanics, StepsOK,
       CancelRequest, CancelForce, TurnOff, TurnOn, DuplicateRequest, Watchdog,
       BriefingEmitFails, vars
  <2>2. ASSUME NEW r \in Runs, OwnStep(r), ~\E g \in Foreground : Publish(g)
        PROVE  UNCHANGED fill
    BY <2>2 DEF OwnStep, RunStep, Begin, Score, Rank, StartRun, Republish, HooksPanic,
       RunFails, Tick, StaleData, Listen, Defer, DeferPanics, FetchEnds, Judge, Store, Complete,
       CycleFails, EndCycle
  <2>3. ASSUME NEW g \in Foreground, Publish(g)
        PROVE  fill'[f] = fill[f]
    BY <1>0, <1>4, <2>3 DEF Publish, Move, StepsOK, FillAfterRun
  <2> QED
    BY <1>4, <2>1, <2>2, <2>3, StepCases
<1>5. ASSUME ~checking
      PROVE  \/ \E c \in Cycles : Tick(c)
             \/ \E f \in Foreground : FillStarts(f)
  <2>1. CASE OutsideStep
    BY <1>5, <2>1 DEF OutsideStep, FillEnds, FillPanics, CancelRequest, CancelForce,
       TurnOff, TurnOn, DuplicateRequest, Watchdog, BriefingEmitFails, vars
  <2>2. CASE \E r \in Runs : OwnStep(r)
    BY <1>5, <2>2 DEF OwnStep, RunStep, Begin, Score, Rank, StartRun, Publish, Republish,
       HooksPanic, RunFails, StaleData, Listen, Defer, DeferPanics, FetchEnds, Judge, Store,
       Complete,
       CycleFails, EndCycle
  <2> QED
    BY <2>1, <2>2, StepCases
<1>6. ASSUME checking
      PROVE  ~latched
  <2>1. CASE OutsideStep
    BY <1>6, <2>1 DEF OutsideStep, FillStarts, FillEnds, FillPanics, CancelRequest,
       CancelForce, TurnOff, TurnOn, DuplicateRequest, Watchdog, BriefingEmitFails, vars
  <2>2. CASE \E r \in Runs : OwnStep(r)
    BY <1>6, <2>2 DEF OwnStep, RunStep, Begin, Score, Rank, StartRun, Publish, Republish,
       HooksPanic, RunFails, Tick, StaleData, Listen, Defer, DeferPanics, FetchEnds, Judge,
       Store, Complete, CycleFails, EndCycle
  <2> QED
    BY <2>1, <2>2, StepCases
<1> QED
  BY <1>1, <1>2, <1>3, <1>4, <1>5, <1>6 DEF GateHeldByWork, Holding

\* A claimed gate has work behind it that will release it, or it is one of those
\* the code loses: a refresh or a deferral that panicked, a briefing's failed emit.
THEOREM GateCorrect == Spec => []GateHeldByWork
<1>1. Init => GateHeldByWork
  BY DEF Init, GateHeldByWork
<1>2. Init => FillAfterRun
  BY DEF Init, FillAfterRun
<1>3. Spec => []FillAfterRun
  BY <1>2, FillAfterRunNext, TypeCorrect, PTL DEF Spec
<1> QED
  BY <1>1, <1>3, GateNext, TypeCorrect, PTL DEF Spec

=============================================================================
