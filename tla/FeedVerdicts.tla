---------------------------- MODULE FeedVerdicts ----------------------------
(***************************************************************************)
(* The durable feed verdict of every row of source_items and the lanes     *)
(* that write it.  All of them share one table and none of them holds it   *)
(* for longer than a statement or a transaction:                           *)
(*                                                                         *)
(*   cycle   an analysis run: scores a batch, looks for twins, persists    *)
(*           (analysis_cycle.rs, persist_cycle_results)                    *)
(*   sweep   the reconciliation that follows every run and every           *)
(*           re-examination (analysis_verdicts.rs), one step per statement *)
(*   drain   the judge task spawned after a scheduled run: the ingest      *)
(*           judge, its demotions, then the pending-verdict drain          *)
(*           (llm_judgments.rs, llm_judge_drain.rs), which reads its       *)
(*           backlog before it awaits the model and applies it after       *)
(*                                                                         *)
(* What a lane reads in one step and writes in a later one it keeps in its *)
(* own variable; between the two every other lane may run, the user may    *)
(* switch the judge or a source, and the process may stop.                 *)
(***************************************************************************)
EXTENDS Naturals, FiniteSets

CONSTANTS
    Items,          \* ids of the rows, in the order of ingest
    Corpora,        \* the fixed columns the rows may have
    Pasts,          \* the verdicts an older version may have left
    MaxAttempts,    \* MAX_DRAIN_ATTEMPTS
    DrainSlice,     \* DRAIN_SLICE
    MaxBatch,       \* bound: rows one analysis run judges
    MaxEvents       \* bound: runs, ingest judgments, switches, exits and failed writes

Kinds == {"plain", "gated", "release", "cut", "archive"}

Sides   == {"no", "yes"}
Sources == {"none", "score", "serendipity", "fallback_exhausted"}
Reasons == {"none", "score_sunk_in_version", "stale_version", "llm_reject",
            "pending_retries_exhausted", "duplicate_curated", "superseded_release",
            "awaiting_judge", "stale_news", "source_not_in_feed"}
Versions == {"none", "old", "cur"}        \* NULL or 0, superseded, PIPELINE_VERSION
Bands    == {"low", "band", "high"}       \* below threshold - epsilon, between, at or above
Readings == {"reject", "shrug", "relevant"}

\* kind, and which rows tell the same story / announce a newer release of the line.
Corpus == [kind : [Items -> Kinds], twins : SUBSET (Items \X Items),
           newer : SUBSET (Items \X Items)]

ASSUME ItemsAssumption == Items \subseteq Nat /\ IsFiniteSet(Items)
ASSUME CorporaAssumption == Corpora \subseteq Corpus
ASSUME PastsAssumption == Pasts \subseteq [Items -> Sides \cup {"none"}]
ASSUME BoundsAssumption == /\ MaxAttempts \in Nat \ {0}
                           /\ DrainSlice \in Nat \ {0}
                           /\ MaxBatch \in Nat
                           /\ MaxEvents \in Nat

VARIABLES
    corpus,     \* immutable columns: source_type, content_type, url, title
    row,        \* the feed_verdict_* columns
    score,      \* relevance_score against the threshold, scored_pipeline_version
    card,       \* llm_judgments: the ingest and the drain reading, the latest of them, and,
                \* for gated rows, whether it came after the last score
    judgeOn,    \* a judge is configured (judge_gate::active, drain_provider)
    off,        \* rows of sources the user turned off
    cycle, sweep, drain,    \* where each lane stands and what it has read
    events                  \* counter for the bound

vars == <<corpus, row, score, card, judgeOn, off, cycle, sweep, drain, events>>
world == <<corpus, judgeOn, off>>

-----------------------------------------------------------------------------
(* Rows *)

Marker == [to : Sides \cup {"none"}, tries : 0..MaxAttempts, aged : BOOLEAN]
NoMark == [to |-> "none", tries |-> 0, aged |-> FALSE]
FirstMark(to) == [to |-> to, tries |-> 1, aged |-> FALSE]

Row == [rel : Sides \cup {"none"}, src : Sources, why : Reasons, ver : Versions,
        aged : BOOLEAN, mark : Marker]

Unjudged == [rel |-> "none", src |-> "none", why |-> "none", ver |-> "none",
             aged |-> FALSE, mark |-> NoMark]

Judged(to, src, why) == [rel |-> to, src |-> src, why |-> why, ver |-> "cur",
                         aged |-> FALSE, mark |-> NoMark]

\* Mutant: the pending marker is left behind.
DemotedPending(r, why) == [r EXCEPT !.rel = "no", !.why = why]

\* A sweep's demotion: the provenance stays, the reason says why it was pulled.
Demoted(r, why) == [r EXCEPT !.rel = "no", !.why = why, !.mark = NoMark]

\* What a lane asks the boundary to write: a reason goes with "no"; an anti-bubble pick
\* is asked for, or was turned down by the rerank.
Verdict == {v \in [to : Sides, src : Sources \ {"none"}, why : Reasons] :
              /\ v.why # "none" => v.to = "no"
              /\ v.src = "fallback_exhausted" => v.why = "pending_retries_exhausted"}
Puts == UNION {[S -> Verdict] : S \in SUBSET Items}
Nothing == [i \in {} |-> [to |-> "no", src |-> "score", why |-> "none"]]

Reject(why) == [to |-> "no", src |-> "score", why |-> why]
Promotion   == [to |-> "yes", src |-> "score", why |-> "none"]
Pick(to)    == [to |-> to, src |-> "serendipity", why |-> "none"]
Exhausted   == [to |-> "no", src |-> "fallback_exhausted", why |-> "pending_retries_exhausted"]

Curated(i) == row[i].rel = "yes"
Kind(i) == corpus.kind[i]

\* find_curated_twin: only an earlier copy can hold the slot.
TwinCurated(i) == \E j \in Items : j < i /\ <<i, j>> \in corpus.twins /\ Curated(j)

NewerCurated(i) == \E j \in Items : <<j, i>> \in corpus.newer /\ Curated(j)

TwinChecked(i) == IF TwinCurated(i) THEN Reject("duplicate_curated") ELSE Promotion

\* card_judgment: the latest reading of either lane.
Latest(i) == IF card[i].last = "drain" THEN card[i].drain ELSE card[i].ingest

\* The judgment one lane's reading leaves behind.
IngestRead(i, said) == [ingest |-> said, drain |-> card[i].drain, last |-> "ingest", late |-> Kind(i) = "gated"]
DrainRead(i, said)  == [ingest |-> card[i].ingest, drain |-> said, last |-> "drain", late |-> Kind(i) = "gated"]

-----------------------------------------------------------------------------
(* The persist boundary: persist_feed_verdicts_with_reasons *)

\* judge_gate::decide.
GateReason(i) ==
    IF Latest(i) = "relevant" THEN "none"
    ELSE IF Latest(i) # "none" THEN "llm_reject"
    ELSE IF Curated(i) THEN "none" ELSE "awaiting_judge"

\* Mutant: an archive page comes in as a pick.
RulingButPicks(i, v) ==
    CASE v.to = "yes" /\ Kind(i) = "cut" -> "source_not_in_feed"
      [] v.to = "yes" /\ v.src # "serendipity" /\ Kind(i) = "archive" -> "stale_news"
      [] v.to = "yes" /\ v.src # "serendipity" /\ Kind(i) = "gated" /\ judgeOn -> GateReason(i)
      [] OTHER -> v.why

\* The reason in force: a fact about the row, the judge's gate, or the writer's own.
Ruling(i, v) ==
    CASE v.to = "yes" /\ Kind(i) = "cut"     -> "source_not_in_feed"
      [] v.to = "yes" /\ Kind(i) = "archive" -> "stale_news"
      [] v.to = "yes" /\ Kind(i) = "gated" /\ judgeOn /\ v.src # "serendipity" -> GateReason(i)
      [] OTHER -> v.why

\* Mutant: the gate's reason is written, its rejection is not.
PersistedReasonOnly(i, v) ==
    LET why == Ruling(i, v)
        flips == row[i].rel \notin {"none", v.to}
    IN  IF i \in off THEN row[i]
        ELSE IF why # "none" \/ v.src = "serendipity" \/ ~flips \/ row[i].mark.to = v.to
        THEN Judged(v.to, v.src, why)
        ELSE [row[i] EXCEPT !.mark = FirstMark(v.to)]

\* Mutant: a superseded version's verdict is flipped at once.
PersistedByVersion(i, v) ==
    LET why == Ruling(i, v)
        to  == IF why = "none" THEN v.to ELSE "no"
        flips == row[i].rel \notin {"none", to} /\ row[i].ver = "cur"
    IN  IF i \in off THEN row[i]
        ELSE IF why # "none" \/ v.src = "serendipity" \/ ~flips \/ row[i].mark.to = to
        THEN Judged(to, v.src, why)
        ELSE [row[i] EXCEPT !.mark = FirstMark(to)]

Persisted(i, v) ==
    LET why == Ruling(i, v)
        to  == IF why = "none" THEN v.to ELSE "no"
        flips == row[i].rel \notin {"none", to}
        immediate == why # "none" \/ v.src = "serendipity" \/ ~flips
    IN  IF i \in off THEN row[i]
        ELSE IF immediate \/ row[i].mark.to = to THEN Judged(to, v.src, why)
        ELSE [row[i] EXCEPT !.mark = FirstMark(to)]

\* One transaction of the boundary.
Persist(put) == row' = [i \in Items |-> IF i \in DOMAIN put THEN Persisted(i, put[i]) ELSE row[i]]

\* One UPDATE: the rows of S are demoted, or lose their verdict altogether.
Demote(S, why) == row' = [i \in Items |-> IF i \in S THEN Demoted(row[i], why) ELSE row[i]]
Withdraw(S)    == row' = [i \in Items |-> IF i \in S THEN Unjudged ELSE row[i]]

-----------------------------------------------------------------------------
(* The analysis run: persist_cycle_results *)

CycleIdle == [at |-> "idle", batch |-> Nothing]

\* A scored item, a rejected one, or an anti-bubble pick.  Picks are injected before the
\* LLM rerank, which may turn any result down and leaves it a pick.
Opinions == {Promotion, Reject("none"), Pick("yes"), Pick("no")}

\* The batch is deduplicated: it never keeps two rows of one story.  Neither does it
\* hold rows of a source that was off when it was selected.
Batches == {b \in UNION {[S -> Opinions] : S \in SUBSET Items} :
              /\ DOMAIN b # {} /\ DOMAIN b \cap off = {} /\ Cardinality(DOMAIN b) <= MaxBatch
              /\ \A i, j \in DOMAIN b : <<i, j>> \notin corpus.twins}

\* persist_analysis_scores and mark_items_scored_version: every judged row gets
\* the current version and a score; a concept-graph pick was never scored.  The rerank
\* turns no scored release of a dependency down.
CycleScore ==
    /\ cycle.at = "idle" /\ events < MaxEvents
    /\ \E b \in Batches :
         \E S \in {T \in SUBSET DOMAIN b :
                      /\ \A i \in DOMAIN b \ T : b[i].src = "serendipity"
                      /\ \A i \in T : Kind(i) = "release" => b[i] # Pick("no")} :
         \E band \in [S -> Bands] :
           /\ cycle' = [at |-> "scored", batch |-> b]
           /\ score' = [i \in Items |-> IF i \in S THEN [band |-> band[i], ver |-> "cur"] ELSE score[i]]
           /\ card' = [i \in Items |-> IF i \in S THEN [card[i] EXCEPT !.late = FALSE] ELSE card[i]]
    /\ events' = events + 1
    /\ UNCHANGED <<world, row, sweep, drain>>

\* Twin checks on the reader, before the transaction; picks are exempt.
CycleTwins ==
    /\ cycle.at = "scored"
    /\ cycle' = [at |-> "checked",
                 batch |-> [i \in DOMAIN cycle.batch |->
                              IF cycle.batch[i] = Promotion THEN TwinChecked(i) ELSE cycle.batch[i]]]
    /\ UNCHANGED <<world, row, score, card, sweep, drain, events>>

CyclePersist ==
    /\ cycle.at = "checked"
    /\ Persist(cycle.batch) \/ UNCHANGED row      \* a failed write is logged
    /\ cycle' = CycleIdle
    /\ UNCHANGED <<world, score, card, sweep, drain, events>>

CycleStep == CycleTwins \/ CyclePersist

-----------------------------------------------------------------------------
(* The reconciliation sweep: sweep_verdicts, then rejudge_stale_verdicts *)

SweepPoints == {"idle", "cut", "news", "twins", "twinsPut", "orphans", "orphansPut", "releases",
                "gate", "gatePut", "gateFree", "gateOpen", "rescue", "train", "trainPut", "trainFree",
                "risen", "risenNext", "risenPut", "stale", "rejudge"}

SweepIdle == [at |-> "idle", put |-> Nothing, ids |-> {}]
SweepAt(p) == [SweepIdle EXCEPT !.at = p]

SweepKeeps == UNCHANGED <<world, card, cycle, drain, events>>

\* demote_sunk_verdicts: a current verdict whose current score sank.
SweepSunk ==
    /\ sweep.at = "idle"
    /\ Demote({i \in Items : /\ Curated(i) /\ row[i].src = "score" /\ row[i].ver = "cur"
                             /\ score[i] = [band |-> "low", ver |-> "cur"]}, "score_sunk_in_version")
    /\ sweep' = SweepAt("cut")
    /\ SweepKeeps /\ UNCHANGED score

\* demote_feed_excluded_sources.
SweepCut ==
    /\ sweep.at = "cut"
    /\ Demote({i \in Items : /\ Kind(i) = "cut"
                             /\ \/ Curated(i)
                                \/ row[i].why = "awaiting_judge"
                                \/ row[i].mark # NoMark}, "source_not_in_feed")
    /\ sweep' = SweepAt("news")
    /\ SweepKeeps /\ UNCHANGED score

\* demote_stale_news_verdicts.
SweepNews ==
    /\ sweep.at = "news"
    /\ Demote({i \in Items : Kind(i) = "archive" /\ Curated(i)}, "stale_news")
    /\ sweep' = SweepAt("twins")
    /\ SweepKeeps /\ UNCHANGED score

\* demote_curated_twins reads the whole curated set, then writes.
SweepTwins ==
    /\ sweep.at = "twins"
    /\ LET later == {i \in Items : Curated(i) /\ TwinCurated(i)}
       IN  sweep' = IF later = {} THEN SweepAt("orphans")
                    ELSE [SweepAt("twinsPut") EXCEPT !.put = [i \in later |-> Reject("duplicate_curated")]]
    /\ SweepKeeps /\ UNCHANGED <<row, score>>

SweepRetireTwins ==
    /\ sweep.at = "twinsPut"
    /\ Persist(sweep.put)
    /\ sweep' = SweepAt("orphans")
    /\ SweepKeeps /\ UNCHANGED score

\* Mutant: every duplicate is judged again, the standing ones too.
SweepAllDuplicates ==
    /\ sweep.at = "orphans"
    /\ LET orphaned == {i \in Items : row[i].why = "duplicate_curated"}
       IN  sweep' = IF orphaned = {} THEN SweepAt("releases")
                    ELSE [SweepAt("orphansPut") EXCEPT !.ids = orphaned]
    /\ SweepKeeps /\ UNCHANGED <<row, score>>

\* Mutant: only a superseded version's duplicates are looked at again.
SweepOldOrphans ==
    /\ sweep.at = "orphans"
    /\ LET orphaned == {i \in Items : row[i].why = "duplicate_curated" /\ ~TwinCurated(i) /\ row[i].ver # "cur"}
       IN  sweep' = IF orphaned = {} THEN SweepAt("releases")
                    ELSE [SweepAt("orphansPut") EXCEPT !.ids = orphaned]
    /\ SweepKeeps /\ UNCHANGED <<row, score>>

\* withdraw_orphaned_duplicate_verdicts.
SweepOrphans ==
    /\ sweep.at = "orphans"
    /\ LET orphaned == {i \in Items : row[i].why = "duplicate_curated" /\ ~TwinCurated(i)}
       IN  sweep' = IF orphaned = {} THEN SweepAt("releases")
                    ELSE [SweepAt("orphansPut") EXCEPT !.ids = orphaned]
    /\ SweepKeeps /\ UNCHANGED <<row, score>>

SweepWithdrawOrphans ==
    /\ sweep.at = "orphansPut"
    /\ Withdraw({i \in sweep.ids : row[i].why = "duplicate_curated"})
    /\ sweep' = SweepAt("releases")
    /\ SweepKeeps /\ UNCHANGED score

\* withdraw_llm_rejects_on_dependency_releases.
SweepReleases ==
    /\ sweep.at = "releases"
    /\ Withdraw({i \in Items : Kind(i) = "release" /\ row[i].why = "llm_reject"})
    /\ sweep' = SweepAt("gate")
    /\ SweepKeeps /\ UNCHANGED score

\* Mutant: a waiting row is released by a judgment only.
SweepGateJudged ==
    /\ sweep.at = "gate"
    /\ sweep' = [at |-> IF judgeOn THEN "gatePut" ELSE "gateOpen", put |-> Nothing,
                 ids |-> {i \in Items : row[i].why = "awaiting_judge" /\ Latest(i) = "relevant"}]
    /\ SweepKeeps /\ UNCHANGED <<row, score>>

\* reconcile_judge_gate: what it reads, ...
SweepGate ==
    /\ sweep.at = "gate"
    /\ LET waiting == {i \in Items : Kind(i) = "gated" /\ row[i].why = "awaiting_judge"}
           held == {i \in Items : Kind(i) = "gated" /\ Curated(i) /\ row[i].src = "score"}
           below == {i \in held \cup waiting : judgeOn /\ Latest(i) \in {"reject", "shrug"}}
           freed == {i \in waiting : judgeOn => Latest(i) = "relevant"}
       IN  sweep' = [at |-> IF judgeOn THEN "gatePut" ELSE "gateOpen",
                     put |-> [i \in below |-> Reject("llm_reject")], ids |-> freed]
    /\ SweepKeeps /\ UNCHANGED <<row, score>>

\* ... the rejections, ...
SweepGateReject ==
    /\ sweep.at = "gatePut"
    /\ Persist(sweep.put)
    /\ sweep' = [sweep EXCEPT !.at = "gateFree", !.put = Nothing]
    /\ SweepKeeps /\ UNCHANGED score

\* ... the releases; a judge that cannot run holds nothing back.
SweepGateFree ==
    /\ sweep.at \in {"gateFree", "gateOpen"}
    /\ Withdraw({i \in sweep.ids : row[i].why = "awaiting_judge"})
    /\ sweep' = SweepAt(IF sweep.at = "gateFree" THEN "rescue" ELSE "train")
    /\ SweepKeeps /\ UNCHANGED score

\* rescue_judge_cleared: a judgment newer than the score clears the row for one re-score.
SweepRescue ==
    /\ sweep.at = "rescue"
    /\ LET S == {i \in Items : /\ Kind(i) = "gated" /\ ~Curated(i)
                               /\ row[i].src \in {"none", "score"}
                               /\ row[i].why \in {"none", "stale_version", "score_sunk_in_version", "llm_reject"}
                               /\ score[i].ver # "none"
                               /\ Latest(i) = "relevant" /\ card[i].late}
       IN  /\ Withdraw(S)
           /\ score' = [i \in Items |-> IF i \in S THEN [score[i] EXCEPT !.ver = "none"] ELSE score[i]]
    /\ sweep' = SweepAt("train")
    /\ SweepKeeps

\* reconcile_release_train: the newest release of a line holds the slot.
SweepTrain ==
    /\ sweep.at = "train"
    /\ LET older == {i \in Items : Curated(i) /\ NewerCurated(i)}
           back  == {i \in Items : row[i].why = "superseded_release" /\ ~NewerCurated(i)}
       IN  sweep' = IF older \cup back = {} THEN SweepAt("risen")
                    ELSE [at |-> "trainPut", put |-> [i \in older |-> Reject("superseded_release")], ids |-> back]
    /\ SweepKeeps /\ UNCHANGED <<row, score>>

SweepTrainDemote ==
    /\ sweep.at = "trainPut"
    /\ Persist(sweep.put)
    /\ sweep' = [sweep EXCEPT !.at = "trainFree", !.put = Nothing]
    /\ SweepKeeps /\ UNCHANGED score

SweepTrainWithdraw ==
    /\ sweep.at = "trainFree"
    /\ Withdraw({i \in sweep.ids : row[i].why = "superseded_release"})
    /\ sweep' = SweepAt("risen")
    /\ SweepKeeps /\ UNCHANGED score

\* get_risen_verdict_candidates.
Risen == {i \in Items :
            /\ score[i] = [band |-> "high", ver |-> "cur"] /\ row[i].mark = NoMark
            /\ \/ row[i].rel = "none"
               \/ /\ row[i].rel = "no" /\ row[i].src \in {"none", "score"}
                  /\ row[i].why \in {"none", "stale_version", "score_sunk_in_version"}
                  /\ row[i].ver # "cur"}

SweepRisen ==
    /\ sweep.at = "risen"
    /\ sweep' = IF Risen = {} THEN SweepAt("stale") ELSE [SweepAt("risenNext") EXCEPT !.ids = Risen]
    /\ SweepKeeps /\ UNCHANGED <<row, score>>

\* promote_risen_verdicts: in id order, a twin check and a transaction for each.
SweepRisenTwin ==
    /\ sweep.at = "risenNext"
    /\ \E i \in sweep.ids :
         /\ \A j \in sweep.ids : i <= j
         /\ sweep' = [at |-> "risenPut", put |-> [k \in {i} |-> TwinChecked(k)], ids |-> sweep.ids \ {i}]
    /\ SweepKeeps /\ UNCHANGED <<row, score>>

SweepPromote ==
    /\ sweep.at = "risenPut"
    /\ Persist(sweep.put)
    /\ sweep' = [sweep EXCEPT !.at = IF sweep.ids = {} THEN "stale" ELSE "risenNext", !.put = Nothing]
    /\ SweepKeeps /\ UNCHANGED score

\* STALE_VERDICT_WHERE: a superseded version's verdict, or a pick past its 14 days.
SweepStale ==
    /\ sweep.at = "stale"
    /\ LET S == {i \in Items \ off : /\ Curated(i)
                                     /\ \/ row[i].ver # "cur" /\ row[i].src \in {"none", "score"}
                                        \/ row[i].src = "serendipity" /\ row[i].aged}
       IN  sweep' = IF S = {} THEN SweepIdle ELSE [SweepAt("rejudge") EXCEPT !.ids = S]
    /\ SweepKeeps /\ UNCHANGED <<row, score>>

\* The scoring context is awaited; then reconcile_feed_verdicts writes what the
\* scorer said of the rows loaded before, where they are still curated.
SweepRejudge ==
    /\ sweep.at = "rejudge"
    /\ \E rejected \in SUBSET sweep.ids :
         row' = [i \in Items |->
                   IF i \in sweep.ids /\ Curated(i)
                   THEN [row[i] EXCEPT !.rel = IF i \in rejected THEN "no" ELSE row[i].rel,
                                       !.why = IF i \in rejected THEN "stale_version" ELSE "none",
                                       !.src = "score", !.ver = "cur", !.mark = NoMark]
                   ELSE row[i]]
    /\ sweep' = SweepIdle
    /\ SweepKeeps /\ UNCHANGED score

SweepStep ==
    \/ SweepSunk \/ SweepCut \/ SweepNews
    \/ SweepTwins \/ SweepRetireTwins \/ SweepOrphans \/ SweepWithdrawOrphans
    \/ SweepReleases
    \/ SweepGate \/ SweepGateReject \/ SweepGateFree \/ SweepRescue
    \/ SweepTrain \/ SweepTrainDemote \/ SweepTrainWithdraw
    \/ SweepRisen \/ SweepRisenTwin \/ SweepPromote
    \/ SweepStale \/ SweepRejudge

-----------------------------------------------------------------------------
(* The judge task: run_post_cycle_with, then run_drain_with *)

DrainPoints == {"idle", "rejects", "rejectsPut", "free", "freePut", "backlog", "exhaust", "slice",
                "call", "decide", "write"}
DrainActions == {"none", "demote", "promote", "clear", "escalate"}

NoReading == [i \in Items |-> "none"]
NothingSeen == [i \in Items |-> NoMark]
DrainIdle == [at |-> "idle", asks |-> FALSE, seen |-> NothingSeen, reads |-> NoReading,
              todo |-> NoReading, put |-> Nothing]
DrainAt(p) == [DrainIdle EXCEPT !.at = p]

DrainKeeps == UNCHANGED <<world, score, cycle, sweep>>

\* evaluate_with_provider: the ingest lane judges rows no lane has judged yet.
JudgeIngest ==
    /\ drain.at = "idle" /\ judgeOn
    /\ \E S \in SUBSET {i \in Items \ off : card[i].last = "none" /\ Kind(i) # "cut"} :
         /\ events + Cardinality(S) <= MaxEvents
         /\ events' = events + Cardinality(S)
         /\ \E said \in [S -> Readings] :
              card' = [i \in Items |-> IF i \in S THEN IngestRead(i, said[i]) ELSE card[i]]
    /\ drain' = DrainAt("rejects")
    /\ DrainKeeps /\ UNCHANGED row

\* apply_judgment_demotions: the judge's confidence, the window and the cap
\* leave some of the rejected rows; a dependency release is never one of them.
JudgeRejects ==
    /\ drain.at = "rejects"
    /\ \E S \in SUBSET {i \in Items \ off : /\ Curated(i) /\ row[i].src = "score"
                                            /\ card[i].ingest = "reject" /\ Kind(i) # "release"} :
         drain' = IF S = {} THEN DrainAt("free")
                  ELSE [DrainAt("rejectsPut") EXCEPT !.put = [i \in S |-> Reject("llm_reject")]]
    /\ DrainKeeps /\ UNCHANGED <<row, card, events>>

JudgeDemotes ==
    /\ drain.at = "rejectsPut"
    /\ Persist(drain.put) \/ UNCHANGED row        \* likewise
    /\ drain' = DrainAt("free")
    /\ DrainKeeps /\ UNCHANGED <<card, events>>

\* drain_provider, then phase 0, promote_pending_dependency_releases: no judge is asked.
DrainReleases ==
    /\ drain.at = "free" \/ (drain.at = "idle" /\ ~judgeOn)
    /\ LET S == {i \in Items : /\ row[i].mark.to = "yes" /\ score[i].band = "high"
                               /\ Kind(i) = "release"}
       IN  drain' = [DrainIdle EXCEPT !.at = IF S = {} THEN "backlog" ELSE "freePut",
                                      !.asks = judgeOn,
                                      !.put = [i \in S |-> TwinChecked(i)]]
    /\ DrainKeeps /\ UNCHANGED <<row, card, events>>

DrainPromoteReleases ==
    /\ drain.at = "freePut"
    /\ Persist(drain.put)
    /\ drain' = [drain EXCEPT !.at = "backlog", !.put = Nothing]
    /\ DrainKeeps /\ UNCHANGED <<card, events>>

\* Mutant: one visit more.
SpentLater(m) == m.tries > MaxAttempts

Spent(m) == m.tries = MaxAttempts
Exhaustible == {i \in Items : Spent(drain.seen[i]) /\ drain.seen[i].aged}

\* get_pending_verdict_backlog: every decision below is taken on this copy.
DrainBacklog ==
    /\ drain.at = "backlog"
    /\ LET seen == [i \in Items |-> IF i \in off THEN NoMark ELSE row[i].mark]
       IN  drain' = IF seen = NothingSeen THEN DrainIdle
                    ELSE [drain EXCEPT !.at = "exhaust", !.seen = seen]
    /\ DrainKeeps /\ UNCHANGED <<row, card, events>>

\* Phase A: markers out of attempts and older than MIN_EXHAUST_AGE_DAYS.
DrainExhaust ==
    /\ drain.at = "exhaust"
    /\ Persist([i \in Exhaustible |-> Exhausted])
    /\ drain' = [drain EXCEPT !.at = "slice"]
    /\ DrainKeeps /\ UNCHANGED <<card, events>>

\* The oldest DrainSlice rows that have attempts left.
Workable == {i \in Items : drain.seen[i] # NoMark /\ ~Spent(drain.seen[i])}
Slice == {i \in Workable : Cardinality({j \in Workable : j < i}) < DrainSlice}

\* resolve_action and guard_dependency_release, on the marker as it was read.
Action(i, reading) ==
    LET to == drain.seen[i].to
    IN  CASE reading = "none" -> "none"
          [] reading = "reject" -> IF Kind(i) = "release" /\ to = "yes" THEN "promote" ELSE "demote"
          [] reading = "relevant" -> IF to = "yes" THEN "promote" ELSE "clear"
          [] OTHER -> "escalate"

Resolving(reads) == IF reads = NoReading THEN DrainIdle
                    ELSE [DrainAt("decide") EXCEPT !.todo = [i \in Items |-> Action(i, reads[i])]]

\* B1 and the gates of B2.  An ingest reading is reused when it is newer than
\* the marker, the model is asked for the rest unless the day's budget is spent.
DrainReuse ==
    /\ drain.at = "slice"
    /\ \E reused \in SUBSET {i \in Slice : card[i].last = "ingest"}, paid \in BOOLEAN :
         LET reads == [i \in Items |-> IF i \in reused THEN card[i].ingest ELSE "none"]
         IN  /\ paid => drain.asks /\ Slice \ reused # {}
             /\ drain' = IF paid THEN [drain EXCEPT !.at = "call", !.asks = FALSE, !.reads = reads]
                         ELSE Resolving(reads)
    /\ DrainKeeps /\ UNCHANGED <<row, card, events>>

\* B2: the answer may leave rows out, and a failed call leaves them all out.
DrainAnswer ==
    /\ drain.at = "call"
    /\ \E S \in SUBSET {i \in Slice : drain.reads[i] = "none"} : \E said \in [S -> Readings] :
         /\ card' = [i \in Items |-> IF i \in S THEN DrainRead(i, said[i]) ELSE card[i]]
         /\ drain' = Resolving([i \in Items |-> IF i \in S THEN said[i] ELSE drain.reads[i]])
    /\ DrainKeeps /\ UNCHANGED <<row, events>>

\* B3: the twin checks, then up to four writes of their own, in this order; one
\* with nothing to write returns at once.
Todo(a) == {i \in Items : drain.todo[i] = a}

DrainDecide ==
    /\ drain.at = "decide"
    /\ drain' = [drain EXCEPT !.at = "write", !.put = [i \in Todo("promote") |-> TwinChecked(i)]]
    /\ DrainKeeps /\ UNCHANGED <<row, card, events>>

\* The write for a is due.
Due(a) == /\ drain.at = "write"
          /\ Todo(a) # {}
          /\ a # "demote" => Todo("demote") = {}
          /\ a \in {"clear", "escalate"} => Todo("promote") = {}
          /\ a = "escalate" => Todo("clear") = {}

\* It is over, whether it was made or it failed.
Past(a) == LET left == [i \in Items |-> IF drain.todo[i] = a THEN "none" ELSE drain.todo[i]]
           IN  IF left = NoReading THEN DrainIdle
               ELSE [drain EXCEPT !.todo = left, !.put = IF a = "demote" THEN drain.put ELSE Nothing]

DrainDemote ==
    /\ Due("demote")
    /\ Persist([i \in Todo("demote") |-> Reject("llm_reject")])
    /\ drain' = Past("demote")
    /\ DrainKeeps /\ UNCHANGED <<card, events>>

DrainPromote ==
    /\ Due("promote")
    /\ Persist(drain.put)
    /\ drain' = Past("promote")
    /\ DrainKeeps /\ UNCHANGED <<card, events>>

\* clear_pending_markers.
DrainClear ==
    /\ Due("clear")
    /\ row' = [i \in Items |-> IF i \in Todo("clear") THEN [row[i] EXCEPT !.mark = NoMark] ELSE row[i]]
    /\ drain' = Past("clear")
    /\ DrainKeeps /\ UNCHANGED <<card, events>>

\* Mutant: the visit is not counted.
EscalatedNever(m) == m

\* escalate_pending_attempts; past MaxAttempts a count tells nothing more.
Escalated(m) == IF m = NoMark \/ Spent(m) THEN m ELSE [m EXCEPT !.tries = m.tries + 1]

DrainEscalate ==
    /\ Due("escalate")
    /\ row' = [i \in Items |-> IF i \in Todo("escalate")
                               THEN [row[i] EXCEPT !.mark = Escalated(row[i].mark)] ELSE row[i]]
    /\ drain' = Past("escalate")
    /\ DrainKeeps /\ UNCHANGED <<card, events>>

DrainStep ==
    \/ JudgeIngest \/ JudgeRejects \/ JudgeDemotes
    \/ DrainReleases \/ DrainPromoteReleases \/ DrainBacklog \/ DrainExhaust
    \/ DrainReuse \/ DrainAnswer \/ DrainDecide
    \/ DrainDemote \/ DrainPromote \/ DrainClear \/ DrainEscalate

-----------------------------------------------------------------------------
(* Time, the score drain, re-examination, the user, the process *)

\* drain_stale_version_cycle: a row whose score is not current gets one.
Rescore(i) ==
    /\ score[i].ver # "cur" /\ i \notin off
    /\ \E b \in Bands : score' = [score EXCEPT ![i] = [band |-> b, ver |-> "cur"]]
    /\ card' = [card EXCEPT ![i] = [card[i] EXCEPT !.late = FALSE]]
    /\ UNCHANGED <<world, row, cycle, sweep, drain, events>>

\* A marker turns seven days old (nothing asks before its attempts are spent), a
\* pick fourteen.
Age(i) ==
    /\ \/ /\ row[i].mark # NoMark /\ Spent(row[i].mark) /\ ~row[i].mark.aged
          /\ row' = [row EXCEPT ![i] = [row[i] EXCEPT !.mark = [row[i].mark EXCEPT !.aged = TRUE]]]
       \/ /\ row[i].src = "serendipity" /\ Curated(i) /\ ~row[i].aged
          /\ row' = [row EXCEPT ![i] = [row[i] EXCEPT !.aged = TRUE]]
    /\ UNCHANGED <<world, score, card, cycle, sweep, drain, events>>

\* requeue_and_clear_score_verdicts: the pins changed.
Requeue(i) ==
    /\ events < MaxEvents /\ Kind(i) = "release"
    /\ score' = [score EXCEPT ![i] = [score[i] EXCEPT !.ver = "none"]]
    /\ Withdraw({j \in {i} : /\ row[j].rel # "none" /\ row[j].src \in {"none", "score"}
                             /\ row[j].why \in {"none", "stale_version", "score_sunk_in_version"}})
    /\ events' = events + 1
    /\ UNCHANGED <<world, card, cycle, sweep, drain>>

SwitchJudge ==
    /\ events < MaxEvents
    /\ judgeOn' = ~judgeOn
    /\ events' = events + 1
    /\ UNCHANGED <<corpus, off, row, score, card, cycle, sweep, drain>>

SwitchSource(i) ==
    /\ events < MaxEvents /\ Kind(i) # "release"     \* a registry is always on
    /\ off' = IF i \in off THEN off \ {i} ELSE off \cup {i}
    /\ events' = events + 1
    /\ UNCHANGED <<corpus, judgeOn, row, score, card, cycle, sweep, drain>>

\* The process stops, perhaps to come back with a newer PIPELINE_VERSION.
Outdated(v) == IF v = "cur" THEN "old" ELSE v

Restart ==
    /\ events < MaxEvents
    /\ events' = events + 1
    /\ \/ UNCHANGED <<row, score>>
       \/ /\ row' = [i \in Items |-> [row[i] EXCEPT !.ver = Outdated(row[i].ver)]]
          /\ score' = [i \in Items |-> [score[i] EXCEPT !.ver = Outdated(score[i].ver)]]
    /\ cycle' = CycleIdle /\ sweep' = SweepIdle /\ drain' = DrainIdle
    /\ UNCHANGED <<world, card>>

\* A write fails: the sweep returns, the drain goes on.
WriteFails ==
    /\ events < MaxEvents
    /\ events' = events + 1
    /\ \/ sweep.at # "idle" /\ sweep' = SweepIdle /\ UNCHANGED drain
       \/ /\ \/ drain.at = "freePut" /\ drain' = [drain EXCEPT !.at = "backlog", !.put = Nothing]
             \/ drain.at = "exhaust" /\ drain' = [drain EXCEPT !.at = "slice"]
             \/ \E a \in DrainActions \ {"none"} : Due(a) /\ drain' = Past(a)
          /\ UNCHANGED sweep
    /\ UNCHANGED <<world, row, score, card, cycle>>

-----------------------------------------------------------------------------

\* Rows as ingest leaves them, or as an older version judged them.
Init ==
    /\ corpus \in Corpora
    /\ \E past \in Pasts :
         /\ row = [i \in Items |-> IF past[i] = "none" THEN Unjudged
                                  ELSE [Judged(past[i], "score", "none") EXCEPT !.ver = "old"]]
         /\ score = [i \in Items |-> IF past[i] = "none" THEN [band |-> "low", ver |-> "none"]
                                    ELSE [band |-> IF past[i] = "yes" THEN "high" ELSE "low", ver |-> "old"]]
    /\ card = [i \in Items |-> [ingest |-> "none", drain |-> "none", last |-> "none", late |-> FALSE]]
    /\ judgeOn \in BOOLEAN
    /\ off = {}
    /\ cycle = CycleIdle /\ sweep = SweepIdle /\ drain = DrainIdle
    /\ events = 0

Next ==
    \/ CycleScore \/ CycleStep \/ SweepStep \/ DrainStep
    \/ \E i \in Items : Rescore(i) \/ Age(i) \/ Requeue(i) \/ SwitchSource(i)
    \/ SwitchJudge \/ Restart \/ WriteFails

Spec == Init /\ [][Next]_vars

-----------------------------------------------------------------------------
(* Fairness: runs and judge tasks are scheduled for as long as the process     *)
(* lives, the score drain takes every row below the current version, time      *)
(* passes, and a provider that is asked again and again is within its budget   *)
(* and answers for the whole slice again and again.                            *)

DrainAsks   == DrainReuse /\ drain'.at = "call"
DrainIsTold == DrainAnswer /\ \A i \in Slice : drain'.todo[i] # "none"

FairSpec ==
    /\ Spec
    /\ WF_vars(CycleStep) /\ WF_vars(SweepStep) /\ WF_vars(DrainStep)
    /\ \A i \in Items : WF_vars(Rescore(i)) /\ WF_vars(Age(i))
    /\ SF_vars(DrainAsks) /\ SF_vars(DrainIsTold)

-----------------------------------------------------------------------------
(* Properties *)

Card == [ingest : Readings \cup {"none"}, drain : Readings \cup {"none"},
         last : {"none", "ingest", "drain"}, late : BOOLEAN]

LanesOK ==
    /\ cycle \in [at : {"idle", "scored", "checked"}, batch : Puts]
    /\ sweep \in [at : SweepPoints, put : Puts, ids : SUBSET Items]
    /\ drain \in [at : DrainPoints, asks : BOOLEAN, seen : [Items -> Marker],
                   reads : [Items -> Readings \cup {"none"}],
                   todo : [Items -> DrainActions], put : Puts]

\* The columns, the judgments and what every lane holds keep their types.
TypeOK ==
    /\ corpus \in Corpora
    /\ row \in [Items -> Row]
    /\ score \in [Items -> [band : Bands, ver : Versions]]
    /\ card \in [Items -> Card]
    /\ judgeOn \in BOOLEAN /\ off \subseteq Items
    /\ LanesOK
    /\ events \in Nat

\* A pending marker asks for the side that does not stand: whichever lane wrote
\* the verdict last also settled the marker, so no later confirmation, drain
\* decision or exhaustion can act on a flip that has already happened; and a row
\* that may never come in never waits to (feed_verdict_pending against
\* feed_relevant).
MarkerOpposes ==
    \A i \in Items : row[i].mark.to # "none" =>
        /\ row[i].rel \in Sides \ {row[i].mark.to}
        /\ Kind(i) \in {"cut", "archive"} => row[i].mark.to = "no"

\* What a standing reason says of its row.
Holds(i, why) ==
    CASE why = "duplicate_curated"    -> \E j \in Items : j < i /\ <<i, j>> \in corpus.twins
      [] why = "superseded_release"   -> \E j \in Items : <<j, i>> \in corpus.newer
      [] why = "awaiting_judge"       -> Kind(i) = "gated"
      [] why = "source_not_in_feed"   -> Kind(i) = "cut"
      [] why = "stale_news"           -> Kind(i) = "archive"
      [] why = "llm_reject"           -> card[i].last # "none"
      [] why \in {"score_sunk_in_version", "stale_version"} -> row[i].src = "score"
      [] why = "pending_retries_exhausted" -> row[i].src = "fallback_exhausted"
      [] OTHER -> TRUE

\* A reason is only ever the reason of a rejection, and a true one, however long
\* ago the lane that writes it read the row: a duplicate has an earlier copy, an
\* llm_reject was preceded by a judgment, nothing but a gated row waits for the
\* judge.  What the drain gave up on has one (feed_verdict_reason, VerdictReason;
\* VerdictSource::FallbackExhausted: "a terminal resolution NEVER promotes").
ReasonsExplain ==
    \A i \in Items : /\ row[i].why # "none" => row[i].rel = "no" /\ Holds(i, row[i].why)
                     /\ row[i].src = "fallback_exhausted" => row[i].why = "pending_retries_exhausted"

\* Whichever of the seven promoting writes brings a row into the feed, and
\* however old the decision it carries: a row of a cut source, an archive page or
\* a row of a source that is off never comes in, and a row of a gated source comes
\* in as a pick, with no judge to ask, or cleared by the latest judgment at that
\* moment.
AdmissionHolds ==
    [][\A i \in Items : ~Curated(i) /\ Curated(i)' =>
          /\ Kind(i) \notin {"cut", "archive"} /\ i \notin off
          /\ Kind(i) = "gated" => \/ ~judgeOn \/ Latest(i) = "relevant"
                                 \/ row'[i].src = "serendipity"]_vars

\* The rows as the damped feed sees them.
FeedBar == [i \in Items |->
              [shown |-> row[i].rel, intent |-> row[i].mark.to,
               cause |-> IF row[i].src = "serendipity" /\ row[i].why = "none"
                         THEN "pick" ELSE row[i].why]]

Damped == INSTANCE DampedFeed WITH feed <- FeedBar

\* Refinement: every step of every lane moves every row as the damped feed may,
\* so an unreasoned change of side takes two runs, unless it is an anti-bubble pick's.
FeedIsDamped == Damped!Spec

\* A row held as a duplicate is judged again once its earlier copy has left the
\* feed: a story never disappears because each copy waits for the other
\* (withdraw_orphaned_duplicate_verdicts).
Orphaned(i) == row[i].why = "duplicate_curated" /\ ~TwinCurated(i)
OrphansReturn == \A i \in Items : []<>~Orphaned(i)

\* No marker starves: while a judge can be asked and the source is on, the drain
\* resolves every deferred flip, whatever runs, restarts and judgments cross it
\* (run_drain, the 2026-08-31 backlog).
MarkersResolve ==
    \A i \in Items : <>[](judgeOn /\ i \notin off) => []<>(row[i].mark.to = "none")

\* A missing judge strands nothing: with no judge left to ask, a row that waits
\* for one is released (reconcile_judge_gate).
NothingWaitsForNobody ==
    \A i \in Items : <>[]~judgeOn => []<>(row[i].why # "awaiting_judge")

\* The lanes do not fight: once runs, switches and failures are over the feed comes
\* to rest; no demotion and promotion undo each other for ever.
FeedSettles == <>[][\A i \in Items : row'[i].rel = row[i].rel]_vars

\* "A source the user turned off is not judged at all: its standing verdict is
\* left exactly as it was" (db/verdicts.rs).
TurnedOffIsKept ==
    [][\A i \in off \cap off' : row'[i].rel = row[i].rel]_vars
=============================================================================
