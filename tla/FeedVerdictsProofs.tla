------------------------- MODULE FeedVerdictsProofs -------------------------
(***************************************************************************)
(* Safety of FeedVerdicts, and that it implements DampedFeed.              *)
(*                                                                         *)
(* What a lane holds between reading and writing stays sound whatever the  *)
(* other lanes do meanwhile (LanesSound).  So every write of every lane is *)
(* one of a few edits of a row (Edited), and which lane makes it and when  *)
(* it read what it decides on does not matter: each fact about the rows is *)
(* proved once per edit and then lifted to every step.                     *)
(***************************************************************************)
EXTENDS FeedVerdicts, FiniteSetTheorems, TLAPS

RowsOK  == row \in [Items -> Row]
CycleOK == cycle \in [at : {"idle", "scored", "checked"}, batch : Puts]
SweepOK == sweep \in [at : SweepPoints, put : Puts, ids : SUBSET Items]
DrainOK == drain \in [at : DrainPoints, asks : BOOLEAN, seen : [Items -> Marker],
                      reads : [Items -> Readings \cup {"none"}],
                      todo : [Items -> DrainActions], put : Puts]
ScoreOK == score \in [Items -> [band : Bands, ver : Versions]]
CardOK  == card \in [Items -> Card]
WorldOK == corpus \in Corpora /\ judgeOn \in BOOLEAN /\ off \subseteq Items /\ events \in Nat

LEMMA TypeParts ==
    TypeOK <=> RowsOK /\ CycleOK /\ SweepOK /\ DrainOK /\ ScoreOK /\ CardOK /\ WorldOK
BY Zenon DEF TypeOK, LanesOK, RowsOK, CycleOK, SweepOK, DrainOK, ScoreOK, CardOK, WorldOK

-----------------------------------------------------------------------------
(* Rows and verdicts *)

LEMMA MarkTypes ==
    /\ NoMark \in Marker
    /\ \A to \in Sides : FirstMark(to) \in Marker
BY BoundsAssumption DEF NoMark, FirstMark, Marker, Sides

LEMMA UnjudgedType == Unjudged \in Row
BY MarkTypes DEF Unjudged, Row, Sources, Reasons, Versions

LEMMA JudgedType ==
    ASSUME NEW to \in Sides, NEW src \in Sources, NEW why \in Reasons
    PROVE  Judged(to, src, why) \in Row
BY MarkTypes DEF Judged, Row, Versions

LEMMA DemotedType ==
    ASSUME NEW r \in Row, NEW why \in Reasons
    PROVE  Demoted(r, why) \in Row
BY MarkTypes DEF Demoted, Row, Sides

LEMMA RejectType ==
    ASSUME NEW why \in Reasons
    PROVE  Reject(why) \in Verdict
BY DEF Reject, Verdict, Sides, Sources

LEMMA OtherVerdicts == Promotion \in Verdict /\ Exhausted \in Verdict /\ Opinions \subseteq Verdict
BY DEF Promotion, Exhausted, Opinions, Reject, Pick, Verdict, Sides, Sources, Reasons

LEMMA TwinCheckedType == \A i : TwinChecked(i) \in Verdict
BY RejectType, OtherVerdicts DEF TwinChecked, Reasons

LEMMA PutsType ==
    ASSUME NEW S \in SUBSET Items, NEW f \in [S -> Verdict]
    PROVE  f \in Puts
BY DEF Puts

LEMMA NothingType == Nothing \in Puts
<1>1. Nothing \in [{} -> Verdict]
  BY DEF Nothing
<1> QED BY <1>1 DEF Puts

LEMMA PutsElim ==
    ASSUME NEW put \in Puts
    PROVE  /\ DOMAIN put \subseteq Items
           /\ \A i \in DOMAIN put : put[i] \in Verdict
BY DEF Puts

-----------------------------------------------------------------------------
(* The persist boundary *)

\* The reason in force is a reason, and one that forces "no" when it is set;
\* the writer's own reason never goes with "yes".
LEMMA RulingType ==
    ASSUME NEW i \in Items, NEW v \in Verdict
    PROVE  Ruling(i, v) \in Reasons
BY DEF Ruling, GateReason, Verdict, Reasons

LEMMA PersistedType ==
    ASSUME RowsOK, NEW i \in Items, NEW v \in Verdict
    PROVE  Persisted(i, v) \in Row
<1> DEFINE why == Ruling(i, v)
           to  == IF why = "none" THEN v.to ELSE "no"
<1>1. why \in Reasons
  BY RulingType
<1>2. to \in Sides /\ v.src \in Sources
  BY DEF Verdict, Sides, Sources
<1>3. Judged(to, v.src, why) \in Row
  BY <1>1, <1>2, JudgedType
<1>4. row[i] \in Row
  BY DEF RowsOK
<1>5. [row[i] EXCEPT !.mark = FirstMark(to)] \in Row
  BY <1>2, <1>4, MarkTypes DEF Row
<1> QED
  BY <1>3, <1>4, <1>5 DEF Persisted

\* What the boundary makes of a row, without its bookkeeping: it leaves it, it
\* writes the verdict in force, or it records that another side was asked for.
LEMMA PersistedCases ==
    ASSUME RowsOK, NEW i \in Items, NEW v \in Verdict
    PROVE  LET why == Ruling(i, v)
               to  == IF why = "none" THEN v.to ELSE "no"
           IN  \/ Persisted(i, v) = row[i]
               \/ /\ Persisted(i, v) = Judged(to, v.src, why)
                  /\ \/ why # "none" \/ v.src = "serendipity"
                     \/ row[i].rel \in {"none", to} \/ row[i].mark.to = to
               \/ /\ Persisted(i, v) = [row[i] EXCEPT !.mark = FirstMark(to)]
                  /\ why = "none" /\ row[i].rel \notin {"none", to} /\ row[i].mark.to # to
BY DEF Persisted

-----------------------------------------------------------------------------
(* What the lanes hold *)

\* Some lane has judged the row; no later step takes that back.
Read(i) == card[i].last # "none"

\* A verdict a lane may still ask for, however long ago it read the row: its
\* reason is one only a writer gives, and is true of the row for good.
Sound(i, v) ==
    /\ v.why \in {"none", "duplicate_curated", "superseded_release", "llm_reject",
                  "pending_retries_exhausted"}
    /\ v.why = "duplicate_curated" => \E j \in Items : j < i /\ <<i, j>> \in corpus.twins
    /\ v.why = "superseded_release" => \E j \in Items : <<j, i>> \in corpus.newer
    /\ v.why = "llm_reject" => Read(i)
    /\ v.why = "pending_retries_exhausted" => v.src = "fallback_exhausted"

SoundPut(put) == \A i \in DOMAIN put : Sound(i, put[i])

\* No judgment without a lane that gave it.
CardSound == \A i \in Items : ~Read(i) => card[i].ingest = "none" /\ card[i].drain = "none"

\* What the drain has read or means to do, it was told of.
ToldOf(d) == \A i \in Items : d.reads[i] # "none" \/ d.todo[i] # "none" => Read(i)

LanesSound ==
    /\ SoundPut(cycle.batch) /\ SoundPut(sweep.put) /\ SoundPut(drain.put)
    /\ CardSound /\ ToldOf(drain)

\* The columns are immutable and judgments are never withdrawn.
Lasting == corpus' = corpus /\ \A i \in Items : Read(i) => Read(i)'

LEMMA SoundLasts ==
    ASSUME Lasting, NEW i \in Items, NEW v, Sound(i, v)
    PROVE  Sound(i, v)'
BY DEF Lasting, Sound

LEMMA NothingSound == DOMAIN Nothing = {} /\ SoundPut(Nothing)
BY DEF SoundPut, Nothing

LEMMA TwinCheckedSound ==
    ASSUME NEW i \in Items
    PROVE  Sound(i, TwinChecked(i))
BY DEF TwinChecked, TwinCurated, Promotion, Reject, Sound

LEMMA RejectsSound ==
    ASSUME NEW S \in SUBSET Items, \A i \in S : Read(i)
    PROVE  SoundPut([i \in S |-> Reject("llm_reject")])
BY DEF SoundPut, Sound, Reject

LEMMA TwinChecksSound ==
    ASSUME NEW S \in SUBSET Items
    PROVE  SoundPut([i \in S |-> TwinChecked(i)])
BY TwinCheckedSound DEF SoundPut

\* A row some judgment is known of has been read.
LEMMA JudgedRead ==
    ASSUME CardSound, NEW i \in Items, Latest(i) # "none" \/ card[i].ingest # "none"
    PROVE  Read(i)
BY DEF CardSound, Read, Latest

-----------------------------------------------------------------------------
(* The edits *)

\* A marker that goes on counting.
Older(m, n) == m.to = n.to /\ m.tries >= n.tries /\ (n.aged => m.aged)

\* What the one-statement demotions of the sweep go by.
Grounds(i, why) ==
    \/ why = "score_sunk_in_version" /\ Curated(i) /\ row[i].src = "score"
    \/ /\ why = "source_not_in_feed" /\ Kind(i) = "cut"
       /\ Curated(i) \/ row[i].why = "awaiting_judge" \/ row[i].mark # NoMark
    \/ why = "stale_news" /\ Curated(i) /\ Kind(i) = "archive"

Rejudged(r, why) == [r EXCEPT !.rel = IF why = "none" THEN r.rel ELSE "no", !.why = why,
                              !.src = "score", !.ver = "cur", !.mark = NoMark]

Edited(i) ==
    \/ row'[i] = row[i]
    \/ \E v \in Verdict : Sound(i, v) /\ row'[i] = Persisted(i, v)
    \/ \E why \in Reasons \ {"none"} : Grounds(i, why) /\ row'[i] = Demoted(row[i], why)
    \/ row'[i] = Unjudged
    \/ Curated(i) /\ \E why \in {"none", "stale_version"} : row'[i] = Rejudged(row[i], why)
    \/ row'[i] = [row[i] EXCEPT !.mark = NoMark]
    \/ /\ row[i].mark # NoMark
       /\ \E m \in Marker : Older(m, row[i].mark) /\ row'[i] = [row[i] EXCEPT !.mark = m]
    \/ row'[i] = [row[i] EXCEPT !.aged = TRUE]
    \/ row'[i] = [row[i] EXCEPT !.ver = Outdated(row[i].ver)]

AllEdited == row' \in [Items -> Row] /\ \A i \in Items : Edited(i)

LEMMA EditedType ==
    ASSUME RowsOK, NEW i \in Items, Edited(i)
    PROVE  row'[i] \in Row
<1>0. row[i] \in Row
  BY DEF RowsOK
<1>1. CASE row'[i] = row[i]
  BY <1>0, <1>1
<1>2. CASE \E v \in Verdict : row'[i] = Persisted(i, v)
  BY <1>2, PersistedType
<1>3. CASE \E why \in Reasons \ {"none"} : row'[i] = Demoted(row[i], why)
  BY <1>0, <1>3, DemotedType
<1>4. CASE row'[i] = Unjudged
  BY <1>4, UnjudgedType
<1>5. CASE Curated(i) /\ \E why \in {"none", "stale_version"} : row'[i] = Rejudged(row[i], why)
  <2>1. PICK why \in {"none", "stale_version"} : row'[i] = Rejudged(row[i], why)
    BY <1>5
  <2>2. NoMark \in Marker
    BY MarkTypes
  <2>3. CASE why = "none"
    BY <1>0, <2>1, <2>2, <2>3 DEF Rejudged, Row, Sources, Reasons, Versions
  <2>4. CASE why = "stale_version"
    BY <1>0, <2>1, <2>2, <2>4 DEF Rejudged, Row, Sides, Sources, Reasons, Versions
  <2> QED BY <2>3, <2>4
<1>6. CASE \E m \in Marker : row'[i] = [row[i] EXCEPT !.mark = m]
  BY <1>0, <1>6 DEF Row
<1>7. CASE row'[i] = [row[i] EXCEPT !.aged = TRUE]
  BY <1>0, <1>7 DEF Row
<1>8. CASE row'[i] = [row[i] EXCEPT !.ver = Outdated(row[i].ver)]
  BY <1>0, <1>8 DEF Row, Outdated, Versions
<1> QED
  BY <1>1, <1>2, <1>3, <1>4, <1>5, <1>6, <1>7, <1>8, MarkTypes DEF Edited

LEMMA PersistEdits ==
    ASSUME RowsOK, NEW put \in Puts, SoundPut(put), Persist(put)
    PROVE  AllEdited
<1>1. \A i \in Items : row'[i] = IF i \in DOMAIN put THEN Persisted(i, put[i]) ELSE row[i]
  BY DEF Persist
<1>2. \A i \in Items : Edited(i)
  BY <1>1, PutsElim DEF Edited, SoundPut
<1>3. \A i \in Items : row'[i] \in Row
  BY <1>2, EditedType
<1> QED
  BY <1>2, <1>3 DEF AllEdited, Persist

LEMMA DemoteEdits ==
    ASSUME RowsOK, NEW S, NEW why \in Reasons \ {"none"},
           \A i \in Items : i \in S => Grounds(i, why), Demote(S, why)
    PROVE  AllEdited
<1>1. \A i \in Items : row'[i] = IF i \in S THEN Demoted(row[i], why) ELSE row[i]
  BY DEF Demote
<1>2. \A i \in Items : Edited(i)
  BY <1>1 DEF Edited
<1>3. \A i \in Items : row'[i] \in Row
  BY <1>2, EditedType
<1> QED
  BY <1>2, <1>3 DEF AllEdited, Demote

LEMMA WithdrawEdits ==
    ASSUME RowsOK, NEW S, Withdraw(S)
    PROVE  AllEdited
<1>1. \A i \in Items : row'[i] = IF i \in S THEN Unjudged ELSE row[i]
  BY DEF Withdraw
<1>2. \A i \in Items : Edited(i)
  BY <1>1 DEF Edited
<1>3. \A i \in Items : row'[i] \in Row
  BY <1>2, EditedType
<1> QED
  BY <1>2, <1>3 DEF AllEdited, Withdraw

LEMMA SameEdits ==
    ASSUME RowsOK, row' = row
    PROVE  AllEdited
BY DEF AllEdited, Edited, RowsOK

-----------------------------------------------------------------------------
(* The sweep *)

SweepType == [at : SweepPoints, put : Puts, ids : SUBSET Items]

LEMMA SweepAtType == \A p \in SweepPoints : SweepAt(p) \in SweepType
BY NothingType DEF SweepAt, SweepIdle, SweepType, SweepPoints

\* A point of the sweep with the rows it has read.
LEMMA SweepIdsType ==
    ASSUME NEW p \in SweepPoints, NEW S \in SUBSET Items
    PROVE  [SweepAt(p) EXCEPT !.ids = S] \in SweepType
BY SweepAtType DEF SweepType

\* A list of rejections for one reason.
LEMMA RejectsType ==
    ASSUME NEW S \in SUBSET Items, NEW why \in Reasons
    PROVE  [i \in S |-> Reject(why)] \in Puts
BY RejectType, PutsType

LEMMA TwinChecksType ==
    ASSUME NEW S \in SUBSET Items
    PROVE  [i \in S |-> TwinChecked(i)] \in Puts
BY TwinCheckedType, PutsType

\* Every step of the sweep edits the rows and leaves the sweep well typed.
LEMMA SweepStepEdits ==
    ASSUME RowsOK, SweepOK, SoundPut(sweep.put), SweepStep
    PROVE  AllEdited /\ SweepOK'
<1> USE DEF SweepOK
<1>0. sweep \in SweepType
  BY DEF SweepType
<1>T. \A p \in SweepPoints : SweepAt(p) \in SweepType /\ SweepIdle \in SweepType
  BY SweepAtType, NothingType DEF SweepIdle, SweepType, SweepPoints
<1> USE <1>0, <1>T DEF SweepType
<1>1. CASE SweepSunk
  <2> DEFINE S == {i \in Items : /\ Curated(i) /\ row[i].src = "score" /\ row[i].ver = "cur"
                                /\ score[i] = [band |-> "low", ver |-> "cur"]}
  <2>1. Demote(S, "score_sunk_in_version") /\ \A i \in Items : i \in S => Grounds(i, "score_sunk_in_version")
    BY <1>1 DEF SweepSunk, Grounds
  <2>2. AllEdited
    BY <2>1, DemoteEdits DEF Reasons
  <2> QED BY <1>1, <2>2 DEF SweepSunk, SweepPoints
<1>2. CASE SweepCut
  <2> DEFINE S == {i \in Items : /\ Kind(i) = "cut"
                                /\ \/ Curated(i)
                                   \/ row[i].why = "awaiting_judge"
                                   \/ row[i].mark # NoMark}
  <2>1. Demote(S, "source_not_in_feed") /\ \A i \in Items : i \in S => Grounds(i, "source_not_in_feed")
    BY <1>2 DEF SweepCut, Grounds
  <2>2. AllEdited
    BY <2>1, DemoteEdits DEF Reasons
  <2> QED BY <1>2, <2>2 DEF SweepCut, SweepPoints
<1>3. CASE SweepNews
  <2> DEFINE S == {i \in Items : Kind(i) = "archive" /\ Curated(i)}
  <2>1. Demote(S, "stale_news") /\ \A i \in Items : i \in S => Grounds(i, "stale_news")
    BY <1>3 DEF SweepNews, Grounds
  <2>2. AllEdited
    BY <2>1, DemoteEdits DEF Reasons
  <2> QED BY <1>3, <2>2 DEF SweepNews, SweepPoints
<1>4. CASE SweepTwins
  <2> DEFINE later == {i \in Items : Curated(i) /\ TwinCurated(i)}
             put == [i \in later |-> Reject("duplicate_curated")]
  <2>1. put \in Puts
    BY RejectsType DEF Reasons
  <2>2. [SweepAt("twinsPut") EXCEPT !.put = put] \in SweepType
    BY <2>1, SweepAtType DEF SweepPoints
  <2>3. sweep' = SweepAt("orphans") \/ sweep' = [SweepAt("twinsPut") EXCEPT !.put = put]
    BY <1>4 DEF SweepTwins
  <2>4. SweepAt("orphans") \in SweepType
    BY DEF SweepPoints
  <2>5. SweepOK'
    BY <2>2, <2>3, <2>4
  <2> QED BY <1>4, <2>5, SameEdits DEF SweepTwins
<1>5. CASE SweepRetireTwins
  BY <1>5, PersistEdits DEF SweepRetireTwins, SweepPoints
<1>6. CASE SweepOrphans
  <2> DEFINE orphaned == {i \in Items : row[i].why = "duplicate_curated" /\ ~TwinCurated(i)}
  <2>1. sweep' = SweepAt("releases") \/ sweep' = [SweepAt("orphansPut") EXCEPT !.ids = orphaned]
    BY <1>6 DEF SweepOrphans
  <2>2. [SweepAt("orphansPut") EXCEPT !.ids = orphaned] \in SweepType
    BY SweepIdsType DEF SweepPoints
  <2>3. SweepAt("releases") \in SweepType
    BY DEF SweepPoints
  <2>4. SweepOK'
    BY <2>1, <2>2, <2>3
  <2> QED BY <1>6, <2>4, SameEdits DEF SweepOrphans
<1>7. CASE SweepWithdrawOrphans
  BY <1>7, WithdrawEdits DEF SweepWithdrawOrphans, SweepPoints
<1>8. CASE SweepReleases
  BY <1>8, WithdrawEdits DEF SweepReleases, SweepPoints
<1>9. CASE SweepGate
  BY <1>9, SameEdits, RejectsType DEF SweepGate, SweepPoints, Reasons
<1>10. CASE SweepGateReject
  BY <1>10, PersistEdits, NothingType DEF SweepGateReject, SweepPoints
<1>11. CASE SweepGateFree
  BY <1>11, WithdrawEdits DEF SweepGateFree, SweepPoints
<1>12. CASE SweepRescue
  BY <1>12, WithdrawEdits DEF SweepRescue, SweepPoints
<1>13. CASE SweepTrain
  BY <1>13, SameEdits, RejectsType DEF SweepTrain, SweepPoints, Reasons
<1>14. CASE SweepTrainDemote
  BY <1>14, PersistEdits, NothingType DEF SweepTrainDemote, SweepPoints
<1>15. CASE SweepTrainWithdraw
  BY <1>15, WithdrawEdits DEF SweepTrainWithdraw, SweepPoints
<1>16. CASE SweepRisen
  <2>1. sweep' = SweepAt("stale") \/ sweep' = [SweepAt("risenNext") EXCEPT !.ids = Risen]
    BY <1>16 DEF SweepRisen
  <2>2. Risen \in SUBSET Items
    BY DEF Risen
  <2>3. [SweepAt("risenNext") EXCEPT !.ids = Risen] \in SweepType
    BY <2>2, SweepIdsType DEF SweepPoints
  <2>4. SweepAt("stale") \in SweepType
    BY DEF SweepPoints
  <2>5. SweepOK'
    BY <2>1, <2>3, <2>4
  <2> QED BY <1>16, <2>5, SameEdits DEF SweepRisen
<1>17. CASE SweepRisenTwin
  BY <1>17, SameEdits, TwinChecksType DEF SweepRisenTwin, SweepPoints
<1>18. CASE SweepPromote
  BY <1>18, PersistEdits, NothingType DEF SweepPromote, SweepPoints
<1>19. CASE SweepStale
  <2>1. PICK S \in SUBSET Items : sweep' = SweepIdle \/ sweep' = [SweepAt("rejudge") EXCEPT !.ids = S]
    BY <1>19 DEF SweepStale
  <2>2. [SweepAt("rejudge") EXCEPT !.ids = S] \in SweepType
    BY SweepIdsType DEF SweepPoints
  <2>3. SweepOK'
    BY <2>1, <2>2, SweepAtType DEF SweepPoints
  <2> QED BY <1>19, <2>3, SameEdits DEF SweepStale
<1>20. CASE SweepRejudge
  <2>1. SweepOK'
    BY <1>20 DEF SweepRejudge
  <2>2. PICK rejected \in SUBSET sweep.ids :
          row' = [i \in Items |->
                    IF i \in sweep.ids /\ Curated(i)
                    THEN [row[i] EXCEPT !.rel = IF i \in rejected THEN "no" ELSE row[i].rel,
                                        !.why = IF i \in rejected THEN "stale_version" ELSE "none",
                                        !.src = "score", !.ver = "cur", !.mark = NoMark]
                    ELSE row[i]]
    BY <1>20 DEF SweepRejudge
  <2>3. \A i \in Items : Edited(i)
    <3> SUFFICES ASSUME NEW i \in Items PROVE Edited(i)
      OBVIOUS
    <3>1. CASE ~(i \in sweep.ids /\ Curated(i))
      BY <2>2, <3>1 DEF Edited
    <3>2. CASE Curated(i) /\ i \in sweep.ids
      <4>1. CASE i \in rejected
        <5>1. row'[i] = Rejudged(row[i], "stale_version")
          BY <2>2, <3>2, <4>1 DEF Rejudged
        <5> QED BY <3>2, <5>1 DEF Edited
      <4>2. CASE i \notin rejected
        <5>1. row'[i] = Rejudged(row[i], "none")
          BY <2>2, <3>2, <4>2 DEF Rejudged
        <5> QED BY <3>2, <5>1 DEF Edited
      <4> QED BY <4>1, <4>2
    <3> QED BY <3>1, <3>2
  <2>4. \A i \in Items : row'[i] \in Row
    BY <2>3, EditedType
  <2> QED BY <2>1, <2>2, <2>3, <2>4 DEF AllEdited
<1> QED
  BY <1>1, <1>2, <1>3, <1>4, <1>5, <1>6, <1>7, <1>8, <1>9, <1>10, <1>11, <1>12,
     <1>13, <1>14, <1>15, <1>16, <1>17, <1>18, <1>19, <1>20 DEF SweepStep

\* What it carries from one statement to the next is sound.
LEMMA SweepStepSound ==
    ASSUME SweepOK, CardSound, SoundPut(sweep.put), SweepStep
    PROVE  SoundPut(sweep'.put)
<1>0. SweepIdle.put = Nothing /\ \A p \in SweepPoints : SweepAt(p).put = Nothing
  BY DEF SweepIdle, SweepAt
<1>1. CASE sweep'.put = Nothing
  BY <1>1, NothingSound
<1>2. CASE SweepTwins
  <2> DEFINE later == {i \in Items : Curated(i) /\ TwinCurated(i)}
             put == [i \in later |-> Reject("duplicate_curated")]
  <2>1. SoundPut(put)
    BY DEF SoundPut, Sound, Reject, TwinCurated
  <2>2. sweep'.put = Nothing \/ sweep' = [SweepAt("twinsPut") EXCEPT !.put = put]
    BY <1>0, <1>2 DEF SweepTwins, SweepPoints
  <2> HIDE DEF put
  <2>3. sweep'.put = Nothing \/ sweep'.put = put
    BY <2>2 DEF SweepAt, SweepIdle
  <2> QED BY <1>1, <2>1, <2>3
<1>3. CASE SweepGate
  <2>1. PICK below \in SUBSET Items :
          /\ \A i \in below : Latest(i) \in {"reject", "shrug"}
          /\ sweep'.put = [i \in below |-> Reject("llm_reject")]
    BY <1>3 DEF SweepGate
  <2>2. \A i \in below : Read(i)
    BY <2>1, JudgedRead
  <2> QED BY <2>1, <2>2, RejectsSound
<1>4. CASE SweepTrain
  <2> DEFINE older == {i \in Items : Curated(i) /\ NewerCurated(i)}
             put == [i \in older |-> Reject("superseded_release")]
  <2>1. SoundPut(put)
    BY DEF SoundPut, Sound, Reject, NewerCurated
  <2>2. sweep'.put = Nothing \/ sweep'.put = put
    BY <1>0, <1>4 DEF SweepTrain, SweepPoints
  <2> HIDE DEF put
  <2> QED BY <1>1, <2>1, <2>2
<1>5. CASE SweepRisenTwin
  <2>1. PICK i \in Items : sweep'.put = [k \in {i} |-> TwinChecked(k)]
    BY <1>5 DEF SweepRisenTwin, SweepOK
  <2> QED BY <2>1, TwinChecksSound
<1>6. SweepTwins \/ SweepGate \/ SweepTrain \/ SweepRisenTwin \/ sweep'.put = Nothing
  <2>1. CASE SweepGateReject \/ SweepTrainDemote \/ SweepPromote
    BY <2>1 DEF SweepOK, SweepGateReject, SweepTrainDemote, SweepPromote
  <2>2. CASE SweepOrphans \/ SweepRisen \/ SweepStale
    BY <1>0, <2>2 DEF SweepOrphans, SweepRisen, SweepStale, SweepAt, SweepIdle
  <2>3. CASE SweepSunk \/ SweepCut \/ SweepNews \/ SweepRetireTwins \/ SweepWithdrawOrphans
    BY <1>0, <2>3 DEF SweepSunk, SweepCut, SweepNews, SweepRetireTwins, SweepWithdrawOrphans, SweepPoints
  <2>4. CASE SweepReleases \/ SweepTrainWithdraw \/ SweepRejudge
    BY <1>0, <2>4 DEF SweepReleases, SweepTrainWithdraw, SweepRejudge, SweepPoints
  <2>5. CASE SweepGateFree
    <3>1. PICK p \in {"rescue", "train"} : sweep' = SweepAt(p)
      BY <2>5 DEF SweepGateFree
    <3> QED BY <1>0, <3>1 DEF SweepPoints
  <2>6. CASE SweepRescue
    BY <1>0, <2>6 DEF SweepRescue, SweepPoints
  <2> QED BY <2>1, <2>2, <2>3, <2>4, <2>5, <2>6 DEF SweepStep
<1> QED BY <1>1, <1>2, <1>3, <1>4, <1>5, <1>6

-----------------------------------------------------------------------------
(* The judge task *)

DrainType == [at : DrainPoints, asks : BOOLEAN, seen : [Items -> Marker],
              reads : [Items -> Readings \cup {"none"}],
              todo : [Items -> DrainActions], put : Puts]

LEMMA DrainIdleType == DrainIdle \in DrainType /\ \A p \in DrainPoints : DrainAt(p) \in DrainType
<1>1. NothingSeen \in [Items -> Marker]
  BY MarkTypes DEF NothingSeen
<1>2. NoReading \in [Items -> Readings \cup {"none"}] /\ NoReading \in [Items -> DrainActions]
  BY DEF NoReading, DrainActions
<1>3. DrainIdle \in DrainType
  BY <1>1, <1>2, NothingType DEF DrainIdle, DrainType, DrainPoints
<1> QED
  BY <1>3 DEF DrainAt, DrainType

LEMMA ResolvingType ==
    ASSUME NEW reads
    PROVE  Resolving(reads) \in DrainType
<1>1. [i \in Items |-> Action(i, reads[i])] \in [Items -> DrainActions]
  BY DEF Action, DrainActions
<1>2. DrainAt("decide") \in DrainType
  BY DrainIdleType DEF DrainPoints
<1>3. [DrainAt("decide") EXCEPT !.todo = [i \in Items |-> Action(i, reads[i])]] \in DrainType
  BY <1>1, <1>2 DEF DrainType
<1> QED
  BY <1>3, DrainIdleType DEF Resolving

LEMMA PastType ==
    ASSUME drain \in DrainType, NEW a
    PROVE  Past(a) \in DrainType
<1> DEFINE left == [i \in Items |-> IF drain.todo[i] = a THEN "none" ELSE drain.todo[i]]
<1>1. left \in [Items -> DrainActions]
  BY DEF DrainType, DrainActions
<1>2. (IF a = "demote" THEN drain.put ELSE Nothing) \in Puts
  BY NothingType DEF DrainType
<1>3. [drain EXCEPT !.todo = left, !.put = IF a = "demote" THEN drain.put ELSE Nothing] \in DrainType
  BY <1>1, <1>2 DEF DrainType
<1> QED
  BY <1>3, DrainIdleType DEF Past

\* Only the ingest judge and the drain's answers write judgments.
LEMMA CardEdits ==
    ASSUME CardOK, NEW i \in Items, NEW said \in Readings
    PROVE  IngestRead(i, said) \in Card /\ DrainRead(i, said) \in Card
<1>1. card[i] \in Card
  BY DEF CardOK
<1>2. (Kind(i) = "gated") \in BOOLEAN
  OBVIOUS
<1> QED
  BY <1>1, <1>2 DEF IngestRead, DrainRead, Card

\* Every step of the judge task edits the rows and leaves the task well typed.
LEMMA DrainStepEdits ==
    ASSUME RowsOK, DrainOK, CardOK, WorldOK, SoundPut(drain.put), ToldOf(drain), DrainStep
    PROVE  AllEdited /\ DrainOK' /\ CardOK' /\ events' \in Nat
<1>0. drain \in DrainType /\ events \in Nat /\ judgeOn \in BOOLEAN
  BY DEF DrainOK, DrainType, WorldOK
<1>T. DrainIdle \in DrainType /\ \A p \in DrainPoints : DrainAt(p) \in DrainType
  BY DrainIdleType
<1>K. SUFFICES AllEdited /\ drain' \in DrainType /\ CardOK' /\ events' \in Nat
  BY DEF DrainOK, DrainType
<1>C. card' = card => CardOK'
  BY DEF CardOK
<1> USE <1>0, <1>T
<1>1. CASE JudgeIngest
  <2>1. PICK S \in SUBSET {i \in Items \ off : card[i].last = "none" /\ Kind(i) # "cut"} :
          /\ events' = events + Cardinality(S)
          /\ events + Cardinality(S) <= MaxEvents
          /\ \E said \in [S -> Readings] :
               card' = [i \in Items |-> IF i \in S THEN IngestRead(i, said[i]) ELSE card[i]]
    BY <1>1 DEF JudgeIngest
  <2>2. Cardinality(S) \in Nat
    BY ItemsAssumption, FS_Subset, FS_CardinalityType
  <2>3. PICK said \in [S -> Readings] :
          card' = [i \in Items |-> IF i \in S THEN IngestRead(i, said[i]) ELSE card[i]]
    BY <2>1
  <2>4. \A i \in Items : i \in S => IngestRead(i, said[i]) \in Card
    BY CardEdits
  <2>5. CardOK'
    BY <2>3, <2>4 DEF CardOK
  <2>6. row' = row /\ drain' \in DrainType
    BY <1>1 DEF JudgeIngest, DrainPoints
  <2>7. PICK n \in Nat : n = Cardinality(S)
    BY <2>2
  <2>8. events' = events + n
    BY <2>1, <2>7
  <2>9. events' \in Nat
    BY ONLY <2>7, <2>8, events \in Nat
  <2> QED BY <2>5, <2>6, <2>9, SameEdits
<1>2. CASE JudgeRejects
  <2>1. PICK S \in SUBSET Items :
          drain' = IF S = {} THEN DrainAt("free")
                   ELSE [DrainAt("rejectsPut") EXCEPT !.put = [i \in S |-> Reject("llm_reject")]]
    BY <1>2 DEF JudgeRejects
  <2>2. [i \in S |-> Reject("llm_reject")] \in Puts
    BY RejectsType DEF Reasons
  <2>3. [DrainAt("rejectsPut") EXCEPT !.put = [i \in S |-> Reject("llm_reject")]] \in DrainType
    BY <2>2 DEF DrainType, DrainPoints
  <2> QED BY <1>2, <1>C, <2>1, <2>3, SameEdits DEF JudgeRejects, DrainPoints
<1>3. CASE JudgeDemotes
  <2>1. drain.put \in Puts
    BY DEF DrainType
  <2> QED BY <1>3, <1>C, <2>1, PersistEdits, SameEdits DEF JudgeDemotes, DrainPoints
<1>4. CASE DrainReleases
  <2> DEFINE S == {i \in Items : /\ row[i].mark.to = "yes" /\ score[i].band = "high"
                                /\ Kind(i) = "release"}
             put == [i \in S |-> TwinChecked(i)]
             at  == IF S = {} THEN "backlog" ELSE "freePut"
  <2>1. put \in Puts
    BY TwinChecksType
  <2>2. drain' = [DrainIdle EXCEPT !.at = at, !.asks = judgeOn, !.put = put]
    BY <1>4 DEF DrainReleases
  <2>3. at \in DrainPoints
    BY DEF DrainPoints
  <2> HIDE DEF put, at
  <2>4. drain' \in DrainType
    BY <2>1, <2>2, <2>3 DEF DrainType
  <2> QED BY <1>4, <1>C, <2>4, SameEdits DEF DrainReleases
<1>5. CASE DrainPromoteReleases
  <2>1. drain.put \in Puts /\ drain' \in DrainType
    BY <1>5, NothingType DEF DrainPromoteReleases, DrainType, DrainPoints
  <2> QED BY <1>5, <1>C, <2>1, PersistEdits DEF DrainPromoteReleases
<1>6. CASE DrainBacklog
  <2> DEFINE seen == [i \in Items |-> IF i \in off THEN NoMark ELSE row[i].mark]
  <2>1. seen \in [Items -> Marker]
    BY MarkTypes DEF RowsOK, Row
  <2>2. [drain EXCEPT !.at = "exhaust", !.seen = seen] \in DrainType
    BY <2>1 DEF DrainType, DrainPoints
  <2> QED BY <1>6, <1>C, <2>2, SameEdits DEF DrainBacklog
<1>7. CASE DrainExhaust
  <2>1. [i \in Exhaustible |-> Exhausted] \in Puts /\ SoundPut([i \in Exhaustible |-> Exhausted])
    BY OtherVerdicts, PutsType DEF Exhaustible, SoundPut, Sound, Exhausted
  <2>2. drain' \in DrainType
    BY <1>7 DEF DrainExhaust, DrainType, DrainPoints
  <2> QED BY <1>7, <1>C, <2>1, <2>2, PersistEdits DEF DrainExhaust
<1>8. CASE DrainReuse
  <2>1. PICK reused \in SUBSET {i \in Slice : card[i].last = "ingest"}, paid \in BOOLEAN :
          LET reads == [i \in Items |-> IF i \in reused THEN card[i].ingest ELSE "none"]
          IN  drain' = IF paid THEN [drain EXCEPT !.at = "call", !.asks = FALSE, !.reads = reads]
                       ELSE Resolving(reads)
    BY <1>8 DEF DrainReuse
  <2> DEFINE reads == [i \in Items |-> IF i \in reused THEN card[i].ingest ELSE "none"]
  <2>2. reads \in [Items -> Readings \cup {"none"}]
    BY DEF CardOK, Card
  <2>3. [drain EXCEPT !.at = "call", !.asks = FALSE, !.reads = reads] \in DrainType
    BY <2>2 DEF DrainType, DrainPoints
  <2>4. drain' \in DrainType
    BY <2>1, <2>3, ResolvingType
  <2> QED BY <1>8, <1>C, <2>4, SameEdits DEF DrainReuse
<1>9. CASE DrainAnswer
  <2>1. PICK S \in SUBSET {i \in Slice : drain.reads[i] = "none"} : \E said \in [S -> Readings] :
          /\ card' = [i \in Items |-> IF i \in S THEN DrainRead(i, said[i]) ELSE card[i]]
          /\ drain' = Resolving([i \in Items |-> IF i \in S THEN said[i] ELSE drain.reads[i]])
    BY <1>9 DEF DrainAnswer
  <2>2. PICK said \in [S -> Readings] :
          /\ card' = [i \in Items |-> IF i \in S THEN DrainRead(i, said[i]) ELSE card[i]]
          /\ drain' = Resolving([i \in Items |-> IF i \in S THEN said[i] ELSE drain.reads[i]])
    BY <2>1
  <2>3. \A i \in Items : i \in S => DrainRead(i, said[i]) \in Card
    BY CardEdits
  <2>4. CardOK'
    BY <2>2, <2>3 DEF CardOK
  <2>5. drain' \in DrainType
    BY <2>2, ResolvingType
  <2>6. row' = row /\ events' = events
    BY <1>9 DEF DrainAnswer
  <2> QED BY <2>4, <2>5, <2>6, SameEdits
<1>10. CASE DrainDecide
  <2>1. [i \in Todo("promote") |-> TwinChecked(i)] \in Puts
    BY TwinChecksType DEF Todo
  <2>2. drain' \in DrainType
    BY <1>10, <2>1 DEF DrainDecide, DrainType, DrainPoints
  <2> QED BY <1>10, <1>C, <2>2, SameEdits DEF DrainDecide
<1>11. CASE DrainDemote
  <2>1. [i \in Todo("demote") |-> Reject("llm_reject")] \in Puts
    BY RejectsType DEF Todo, Reasons
  <2>2. SoundPut([i \in Todo("demote") |-> Reject("llm_reject")])
    BY RejectsSound DEF Todo, ToldOf
  <2> QED BY <1>11, <1>C, <2>1, <2>2, PersistEdits, PastType DEF DrainDemote
<1>12. CASE DrainPromote
  <2>1. drain.put \in Puts
    BY DEF DrainType
  <2> QED BY <1>12, <1>C, <2>1, PersistEdits, PastType DEF DrainPromote
<1>13. CASE DrainClear
  <2>1. \A i \in Items : row'[i] = row[i] \/ row'[i] = [row[i] EXCEPT !.mark = NoMark]
    BY <1>13 DEF DrainClear
  <2>2. \A i \in Items : Edited(i)
    BY <2>1, MarkTypes DEF Edited, NoMark
  <2>3. \A i \in Items : row'[i] \in Row
    BY <2>2, EditedType
  <2> QED BY <1>13, <1>C, <2>2, <2>3, PastType DEF DrainClear, AllEdited
<1>14. CASE DrainEscalate
  <2>1. \A i \in Items : row'[i] = row[i] \/ row'[i] = [row[i] EXCEPT !.mark = Escalated(row[i].mark)]
    BY <1>14 DEF DrainEscalate
  <2>2. /\ Escalated(NoMark) = NoMark
        /\ \A m \in Marker : Escalated(m) \in Marker /\ Older(Escalated(m), m)
    BY BoundsAssumption DEF Escalated, Spent, Marker, Older
  <2>3. \A i \in Items : row[i].mark \in Marker
    BY DEF RowsOK, Row
  <2>4. \A i \in Items : Edited(i)
    BY <2>1, <2>2, <2>3 DEF Edited
  <2>5. \A i \in Items : row'[i] \in Row
    BY <2>4, EditedType
  <2> QED BY <1>14, <1>C, <2>4, <2>5, PastType DEF DrainEscalate, AllEdited
<1> QED
  BY <1>1, <1>2, <1>3, <1>4, <1>5, <1>6, <1>7, <1>8, <1>9, <1>10, <1>11, <1>12, <1>13, <1>14
     DEF DrainStep

\* A resolution acts on the rows that were read, and holds no verdict yet.
LEMMA ResolvingTold ==
    ASSUME NEW reads
    PROVE  /\ Resolving(reads).put = Nothing
           /\ \A i \in Items : /\ Resolving(reads).reads[i] = "none"
                               /\ Resolving(reads).todo[i] # "none" => reads[i] # "none"
<1>1. CASE reads = NoReading
  BY <1>1 DEF Resolving, DrainIdle, NoReading
<1>2. CASE reads # NoReading
  <2>1. Resolving(reads) = [DrainAt("decide") EXCEPT !.todo = [i \in Items |-> Action(i, reads[i])]]
    BY <1>2 DEF Resolving
  <2>2. /\ Resolving(reads).put = Nothing /\ Resolving(reads).reads = NoReading
        /\ Resolving(reads).todo = [i \in Items |-> Action(i, reads[i])]
    BY <2>1 DEF DrainAt, DrainIdle
  <2>3. \A i \in Items : reads[i] = "none" => Action(i, reads[i]) = "none"
    BY DEF Action
  <2> QED BY <2>2, <2>3 DEF NoReading
<1> QED BY <1>1, <1>2

\* A write that is over leaves no more to do than there was.
LEMMA PastTold ==
    ASSUME DrainOK, NEW a
    PROVE  /\ Past(a).put \in {drain.put, Nothing}
           /\ \A i \in Items : /\ Past(a).reads[i] \in {"none", drain.reads[i]}
                               /\ Past(a).todo[i] \in {"none", drain.todo[i]}
<1> DEFINE left == [i \in Items |-> IF drain.todo[i] = a THEN "none" ELSE drain.todo[i]]
<1>1. CASE left = NoReading
  BY <1>1 DEF Past, DrainIdle, NoReading
<1>2. CASE left # NoReading
  <2>1. Past(a) = [drain EXCEPT !.todo = left, !.put = IF a = "demote" THEN drain.put ELSE Nothing]
    BY <1>2 DEF Past
  <2>2. /\ Past(a).put = (IF a = "demote" THEN drain.put ELSE Nothing)
        /\ Past(a).reads = drain.reads /\ Past(a).todo = left
    BY <2>1 DEF DrainOK
  <2> QED BY <2>2
<1> QED BY <1>1, <1>2

\* The writes of a resolution carry nothing new.
LEMMA PastSound ==
    ASSUME DrainOK, SoundPut(drain.put), ToldOf(drain), NEW a, drain' = Past(a), card' = card
    PROVE  SoundPut(drain'.put) /\ ToldOf(drain)'
BY PastTold, NothingSound DEF ToldOf, Read

\* Judgments are added, never withdrawn; what the judge task carries on is sound,
\* and it was told of every row it will act on.
LEMMA DrainStepSound ==
    ASSUME DrainOK, CardSound, SoundPut(drain.put), ToldOf(drain), DrainStep
    PROVE  /\ CardSound' /\ \A i \in Items : Read(i) => Read(i)'
           /\ SoundPut(drain'.put) /\ ToldOf(drain)'
<1>C. card' = card => CardSound' /\ \A i \in Items : Read(i) => Read(i)'
  BY DEF CardSound, Read
<1>I. /\ DrainIdle.put = Nothing /\ DrainIdle.reads = NoReading /\ DrainIdle.todo = NoReading
      /\ \A p : /\ DrainAt(p).put = Nothing
                /\ DrainAt(p).reads = NoReading /\ DrainAt(p).todo = NoReading
  BY DEF DrainIdle, DrainAt
<1>Q. ASSUME drain'.reads = NoReading, drain'.todo = NoReading
      PROVE  ToldOf(drain)'
  BY <1>Q DEF ToldOf, NoReading
<1>1. CASE JudgeIngest
  <2>1. PICK S \in SUBSET Items : \E said \in [S -> Readings] :
          card' = [i \in Items |-> IF i \in S THEN IngestRead(i, said[i]) ELSE card[i]]
    BY <1>1 DEF JudgeIngest
  <2>2. PICK said \in [S -> Readings] :
          card' = [i \in Items |-> IF i \in S THEN IngestRead(i, said[i]) ELSE card[i]]
    BY <2>1
  <2>3. CardSound' /\ \A i \in Items : Read(i) => Read(i)'
    BY <2>2 DEF CardSound, Read, IngestRead
  <2>4. drain' = DrainAt("rejects")
    BY <1>1 DEF JudgeIngest
  <2> QED BY <1>I, <1>Q, <2>3, <2>4, NothingSound
<1>2. CASE JudgeRejects
  <2>1. PICK S \in SUBSET {i \in Items : card[i].ingest = "reject"} :
          drain' = IF S = {} THEN DrainAt("free")
                   ELSE [DrainAt("rejectsPut") EXCEPT !.put = [i \in S |-> Reject("llm_reject")]]
    BY <1>2 DEF JudgeRejects
  <2>2. SoundPut([i \in S |-> Reject("llm_reject")])
    BY JudgedRead, RejectsSound
  <2>3. /\ drain'.reads = NoReading /\ drain'.todo = NoReading
        /\ drain'.put \in {Nothing, [i \in S |-> Reject("llm_reject")]}
    BY <2>1 DEF DrainIdle, DrainAt
  <2> QED BY <1>2, <1>C, <1>Q, <2>2, <2>3, NothingSound DEF JudgeRejects
<1>3. CASE JudgeDemotes
  BY <1>3, <1>C, <1>I, <1>Q, NothingSound DEF JudgeDemotes
<1>4. CASE DrainReleases
  <2>1. PICK S \in SUBSET Items, at \in DrainPoints :
          drain' = [DrainIdle EXCEPT !.at = at, !.asks = judgeOn, !.put = [i \in S |-> TwinChecked(i)]]
    <3> DEFINE S == {i \in Items : /\ row[i].mark.to = "yes" /\ score[i].band = "high"
                                  /\ Kind(i) = "release"}
               at == IF S = {} THEN "backlog" ELSE "freePut"
    <3>1. drain' = [DrainIdle EXCEPT !.at = at, !.asks = judgeOn, !.put = [i \in S |-> TwinChecked(i)]]
      BY <1>4 DEF DrainReleases
    <3>2. S \in SUBSET Items /\ at \in DrainPoints
      BY DEF DrainPoints
    <3> QED BY <3>1, <3>2
  <2>2. /\ drain'.reads = NoReading /\ drain'.todo = NoReading
        /\ drain'.put = [i \in S |-> TwinChecked(i)]
    BY <2>1 DEF DrainIdle
  <2> QED BY <1>4, <1>C, <1>Q, <2>2, TwinChecksSound DEF DrainReleases
<1>5. CASE DrainPromoteReleases \/ DrainBacklog \/ DrainExhaust
  <2>1. /\ drain'.put \in {drain.put, Nothing}
        /\ \A i \in Items : /\ drain'.reads[i] \in {"none", drain.reads[i]}
                            /\ drain'.todo[i] \in {"none", drain.todo[i]}
    <3>1. CASE drain' = DrainIdle
      BY <1>I, <3>1 DEF NoReading
    <3>2. CASE DrainPromoteReleases \/ DrainExhaust
      BY <3>2 DEF DrainPromoteReleases, DrainExhaust, DrainOK
    <3>3. CASE DrainBacklog /\ drain' # DrainIdle
      <4>1. PICK seen : drain' = [drain EXCEPT !.at = "exhaust", !.seen = seen]
        BY <3>3 DEF DrainBacklog
      <4> QED BY <4>1 DEF DrainOK
    <3> QED BY <1>5, <3>1, <3>2, <3>3
  <2>2. card' = card
    BY <1>5 DEF DrainPromoteReleases, DrainBacklog, DrainExhaust
  <2> QED BY <1>C, <2>1, <2>2, NothingSound DEF ToldOf, Read
<1>6. CASE DrainReuse
  <2>1. PICK reused \in SUBSET {i \in Slice : card[i].last = "ingest"}, paid \in BOOLEAN :
          LET reads == [i \in Items |-> IF i \in reused THEN card[i].ingest ELSE "none"]
          IN  drain' = IF paid THEN [drain EXCEPT !.at = "call", !.asks = FALSE, !.reads = reads]
                       ELSE Resolving(reads)
    BY <1>6 DEF DrainReuse
  <2> DEFINE reads == [i \in Items |-> IF i \in reused THEN card[i].ingest ELSE "none"]
  <2>2. \A i \in Items : reads[i] # "none" => Read(i)
    BY DEF Read
  <2>3. card' = card
    BY <1>6 DEF DrainReuse
  <2> HIDE DEF reads
  <2>4. CASE drain' = [drain EXCEPT !.at = "call", !.asks = FALSE, !.reads = reads]
    <3>1. drain'.put = drain.put /\ drain'.reads = reads /\ drain'.todo = drain.todo
      BY <2>4 DEF DrainOK
    <3> QED BY <1>C, <2>2, <2>3, <3>1 DEF ToldOf, Read
  <2>5. CASE drain' = Resolving(reads)
    BY <1>C, <2>2, <2>3, <2>5, ResolvingTold, NothingSound DEF ToldOf, Read
  <2> QED BY <2>1, <2>4, <2>5 DEF reads
<1>7. CASE DrainAnswer
  <2>1. PICK S \in SUBSET Items : \E said \in [S -> Readings] :
          /\ card' = [i \in Items |-> IF i \in S THEN DrainRead(i, said[i]) ELSE card[i]]
          /\ drain' = Resolving([i \in Items |-> IF i \in S THEN said[i] ELSE drain.reads[i]])
    BY <1>7 DEF DrainAnswer, Slice, Workable
  <2>2. PICK said \in [S -> Readings] :
          /\ card' = [i \in Items |-> IF i \in S THEN DrainRead(i, said[i]) ELSE card[i]]
          /\ drain' = Resolving([i \in Items |-> IF i \in S THEN said[i] ELSE drain.reads[i]])
    BY <2>1
  <2> DEFINE reads == [i \in Items |-> IF i \in S THEN said[i] ELSE drain.reads[i]]
  <2>3. CardSound' /\ \A i \in Items : Read(i) => Read(i)'
    BY <2>2 DEF CardSound, Read, DrainRead
  <2>4. \A i \in Items : reads[i] # "none" => Read(i)'
    BY <2>2, <2>3 DEF ToldOf, Read, DrainRead
  <2>5. drain' = Resolving(reads)
    BY <2>2
  <2> HIDE DEF reads
  <2> QED BY <2>3, <2>4, <2>5, ResolvingTold, NothingSound DEF ToldOf
<1>8. CASE DrainDecide
  <2>1. /\ drain'.put = [i \in Todo("promote") |-> TwinChecked(i)]
        /\ drain'.reads = drain.reads /\ drain'.todo = drain.todo
    BY <1>8 DEF DrainDecide, DrainOK
  <2>2. SoundPut([i \in Todo("promote") |-> TwinChecked(i)])
    BY TwinChecksSound DEF Todo
  <2> QED BY <1>8, <1>C, <2>1, <2>2 DEF DrainDecide, ToldOf, Read
<1>9. CASE DrainDemote \/ DrainPromote \/ DrainClear \/ DrainEscalate
  <2>1. card' = card /\ \E a : drain' = Past(a)
    BY <1>9 DEF DrainDemote, DrainPromote, DrainClear, DrainEscalate
  <2> QED BY <1>C, <2>1, PastSound
<1> QED
  BY <1>1, <1>2, <1>3, <1>4, <1>5, <1>6, <1>7, <1>8, <1>9 DEF DrainStep

-----------------------------------------------------------------------------
(* The analysis run *)

CycleType == [at : {"idle", "scored", "checked"}, batch : Puts]

\* Every step of a run edits the rows and leaves the run well typed.
LEMMA CycleStepEdits ==
    ASSUME RowsOK, CycleOK, SoundPut(cycle.batch), CycleStep
    PROVE  AllEdited /\ CycleOK'
<1>0. cycle \in CycleType /\ cycle.batch \in Puts
  BY DEF CycleOK, CycleType
<1>1. CASE CycleTwins
  <2> DEFINE batch == [i \in DOMAIN cycle.batch |->
                         IF cycle.batch[i] = Promotion THEN TwinChecked(i) ELSE cycle.batch[i]]
  <2>1. DOMAIN cycle.batch \in SUBSET Items /\ \A i \in DOMAIN cycle.batch : cycle.batch[i] \in Verdict
    BY <1>0, PutsElim
  <2>2. batch \in [DOMAIN cycle.batch -> Verdict]
    BY <2>1, TwinCheckedType
  <2>3. batch \in Puts
    BY <2>1, <2>2, PutsType
  <2>4. cycle' = [at |-> "checked", batch |-> batch]
    BY <1>1 DEF CycleTwins
  <2> HIDE DEF batch
  <2>5. CycleOK'
    BY <2>3, <2>4 DEF CycleOK
  <2>6. row' = row
    BY <1>1 DEF CycleTwins
  <2> QED BY <2>5, <2>6, SameEdits
<1>2. CASE CyclePersist
  <2>1. AllEdited
    BY <1>0, <1>2, PersistEdits, SameEdits DEF CyclePersist
  <2>2. CycleOK'
    BY <1>2, NothingType DEF CyclePersist, CycleIdle, CycleOK
  <2> QED BY <2>1, <2>2
<1> QED
  BY <1>1, <1>2 DEF CycleStep

\* A scoring step leaves the rows alone and scores the batch it chose.
LEMMA CycleScoreTypes ==
    ASSUME RowsOK, ScoreOK, CardOK, WorldOK, CycleScore
    PROVE  AllEdited /\ CycleOK' /\ ScoreOK' /\ CardOK' /\ events' \in Nat
<1>1. PICK b \in Batches :
        \E S \in {T \in SUBSET DOMAIN b :
                     /\ \A i \in DOMAIN b \ T : b[i].src = "serendipity"
                     /\ \A i \in T : Kind(i) = "release" => b[i] # Pick("no")} :
        \E band \in [S -> Bands] :
           /\ cycle' = [at |-> "scored", batch |-> b]
           /\ score' = [i \in Items |-> IF i \in S THEN [band |-> band[i], ver |-> "cur"] ELSE score[i]]
           /\ card' = [i \in Items |-> IF i \in S THEN [card[i] EXCEPT !.late = FALSE] ELSE card[i]]
  BY DEF CycleScore
<1>2. PICK S \in SUBSET DOMAIN b : \E band \in [S -> Bands] :
           /\ cycle' = [at |-> "scored", batch |-> b]
           /\ score' = [i \in Items |-> IF i \in S THEN [band |-> band[i], ver |-> "cur"] ELSE score[i]]
           /\ card' = [i \in Items |-> IF i \in S THEN [card[i] EXCEPT !.late = FALSE] ELSE card[i]]
  BY <1>1
<1>3. PICK band \in [S -> Bands] :
           /\ cycle' = [at |-> "scored", batch |-> b]
           /\ score' = [i \in Items |-> IF i \in S THEN [band |-> band[i], ver |-> "cur"] ELSE score[i]]
           /\ card' = [i \in Items |-> IF i \in S THEN [card[i] EXCEPT !.late = FALSE] ELSE card[i]]
  BY <1>2
<1>4. CycleOK'
  <2>1. PICK T \in SUBSET Items : b \in [T -> Opinions]
    BY DEF Batches
  <2>2. b \in [T -> Verdict]
    BY <2>1, OtherVerdicts
  <2>3. b \in Puts
    BY <2>2, PutsType
  <2> QED BY <1>3, <2>3 DEF CycleOK
<1>5. ScoreOK'
  BY <1>3 DEF ScoreOK, Versions
<1>6. CardOK'
  <2>1. \A i \in Items : card[i] \in Card /\ [card[i] EXCEPT !.late = FALSE] \in Card
    BY DEF CardOK, Card
  <2> QED BY <1>3, <2>1 DEF CardOK
<1>7. events' \in Nat
  BY DEF CycleScore, WorldOK
<1>8. AllEdited
  BY SameEdits DEF CycleScore
<1> QED
  BY <1>4, <1>5, <1>6, <1>7, <1>8

\* The batch of a run stays sound through its twin checks.
LEMMA CycleStepSound ==
    ASSUME CycleOK, SoundPut(cycle.batch), CycleStep
    PROVE  SoundPut(cycle'.batch)
<1>1. CASE CycleTwins
  <2> DEFINE batch == [i \in DOMAIN cycle.batch |->
                         IF cycle.batch[i] = Promotion THEN TwinChecked(i) ELSE cycle.batch[i]]
  <2>1. DOMAIN cycle.batch \subseteq Items
    BY PutsElim DEF CycleOK
  <2>2. SoundPut(batch)
    BY <2>1, TwinCheckedSound DEF SoundPut
  <2> QED BY <1>1, <2>2 DEF CycleTwins
<1>2. CASE CyclePersist
  BY <1>2, NothingSound DEF CyclePersist, CycleIdle
<1> QED BY <1>1, <1>2 DEF CycleStep

\* A scored batch gives no reasons yet.
LEMMA CycleScoreSound ==
    ASSUME CardSound, CycleScore
    PROVE  SoundPut(cycle'.batch) /\ CardSound' /\ \A i \in Items : Read(i) => Read(i)'
<1>1. PICK b \in Batches, S \in SUBSET Items :
        /\ cycle' = [at |-> "scored", batch |-> b]
        /\ card' = [i \in Items |-> IF i \in S THEN [card[i] EXCEPT !.late = FALSE] ELSE card[i]]
  <2>1. PICK b \in Batches :
          \E S \in {T \in SUBSET DOMAIN b :
                       /\ \A i \in DOMAIN b \ T : b[i].src = "serendipity"
                       /\ \A i \in T : Kind(i) = "release" => b[i] # Pick("no")} :
          \E band \in [S -> Bands] :
           /\ cycle' = [at |-> "scored", batch |-> b]
           /\ card' = [i \in Items |-> IF i \in S THEN [card[i] EXCEPT !.late = FALSE] ELSE card[i]]
    BY DEF CycleScore
  <2>2. DOMAIN b \subseteq Items
    BY DEF Batches
  <2> QED BY <2>1, <2>2
<1>2. \A i \in DOMAIN b : b[i] \in Opinions
  BY DEF Batches
<1>3. SoundPut(b)
  BY <1>2 DEF SoundPut, Sound, Opinions, Promotion, Reject, Pick
<1>4. CardSound' /\ \A i \in Items : Read(i) => Read(i)'
  BY <1>1 DEF CardSound, Read
<1> QED BY <1>1, <1>3, <1>4

-----------------------------------------------------------------------------
(* Time, the user, the process *)

LEMMA RescoreTypes ==
    ASSUME RowsOK, ScoreOK, CardOK, NEW i \in Items, Rescore(i)
    PROVE  AllEdited /\ ScoreOK' /\ CardOK'
<1>1. PICK b \in Bands : score' = [score EXCEPT ![i] = [band |-> b, ver |-> "cur"]]
  BY DEF Rescore
<1>2. ScoreOK'
  BY <1>1 DEF ScoreOK, Versions
<1>3. [card[i] EXCEPT !.late = FALSE] \in Card
  BY DEF CardOK, Card
<1>4. CardOK'
  BY <1>3 DEF Rescore, CardOK
<1>5. AllEdited
  BY SameEdits DEF Rescore
<1> QED
  BY <1>2, <1>4, <1>5

LEMMA AgeEdits ==
    ASSUME RowsOK, NEW i \in Items, Age(i)
    PROVE  AllEdited
<1>0. row[i] \in Row /\ row[i].mark \in Marker
  BY DEF RowsOK, Row
<1>1. CASE /\ row[i].mark # NoMark
           /\ row' = [row EXCEPT ![i] = [row[i] EXCEPT !.mark = [row[i].mark EXCEPT !.aged = TRUE]]]
  <2> DEFINE m == [row[i].mark EXCEPT !.aged = TRUE]
  <2>1. m \in Marker /\ Older(m, row[i].mark)
    <3>1. m \in Marker /\ m.aged /\ m.to = row[i].mark.to /\ m.tries = row[i].mark.tries
      BY <1>0 DEF Marker
    <3>2. row[i].mark.tries >= row[i].mark.tries
      BY <1>0, BoundsAssumption DEF Marker
    <3> HIDE DEF m
    <3> QED BY <3>1, <3>2, Zenon DEF Older
  <2>2. row'[i] = [row[i] EXCEPT !.mark = m] /\ \A j \in Items \ {i} : row'[j] = row[j]
    BY <1>1 DEF RowsOK
  <2> HIDE DEF m
  <2>3. \A j \in Items : Edited(j)
    BY <1>1, <2>1, <2>2 DEF Edited
  <2>4. \A j \in Items : row'[j] \in Row
    BY <2>3, EditedType
  <2>5. row' = [j \in Items |-> row'[j]]
    BY <1>1 DEF RowsOK
  <2> QED BY <2>3, <2>4, <2>5 DEF AllEdited
<1>2. CASE row' = [row EXCEPT ![i] = [row[i] EXCEPT !.aged = TRUE]]
  <2>1. \A j \in Items : Edited(j)
    BY <1>2 DEF Edited, RowsOK
  <2>2. \A j \in Items : row'[j] \in Row
    BY <2>1, EditedType
  <2>3. row' = [j \in Items |-> row'[j]]
    BY <1>2 DEF RowsOK
  <2> QED BY <2>1, <2>2, <2>3 DEF AllEdited
<1>3. \/ /\ row[i].mark # NoMark
         /\ row' = [row EXCEPT ![i] = [row[i] EXCEPT !.mark = [row[i].mark EXCEPT !.aged = TRUE]]]
      \/ row' = [row EXCEPT ![i] = [row[i] EXCEPT !.aged = TRUE]]
  BY Zenon DEF Age
<1> QED
  BY <1>1, <1>2, <1>3

LEMMA RequeueTypes ==
    ASSUME RowsOK, ScoreOK, WorldOK, NEW i \in Items, Requeue(i)
    PROVE  AllEdited /\ ScoreOK' /\ events' \in Nat
<1>1. AllEdited
  BY WithdrawEdits DEF Requeue
<1>2. [score[i] EXCEPT !.ver = "none"] \in [band : Bands, ver : Versions]
  BY DEF ScoreOK, Versions
<1>3. ScoreOK'
  BY <1>2 DEF Requeue, ScoreOK
<1>4. events \in Nat /\ events' = events + 1
  BY DEF Requeue, WorldOK
<1>5. events' \in Nat
  BY <1>4
<1> QED
  BY <1>1, <1>3, <1>5

LEMMA RestartTypes ==
    ASSUME RowsOK, ScoreOK, WorldOK, Restart
    PROVE  AllEdited /\ ScoreOK' /\ CycleOK' /\ SweepOK' /\ DrainOK' /\ events' \in Nat
<1>1. ASSUME UNCHANGED <<row, score>>
      PROVE  AllEdited /\ ScoreOK'
  BY <1>1, SameEdits DEF ScoreOK
<1>2. ASSUME row' = [i \in Items |-> [row[i] EXCEPT !.ver = Outdated(row[i].ver)]],
             score' = [i \in Items |-> [score[i] EXCEPT !.ver = Outdated(score[i].ver)]]
      PROVE  AllEdited /\ ScoreOK'
  <2>1. \A i \in Items : Edited(i)
    BY <1>2 DEF Edited
  <2>2. \A i \in Items : row'[i] \in Row
    BY <2>1, EditedType
  <2>3. AllEdited
    BY <1>2, <2>1, <2>2 DEF AllEdited
  <2>4. \A i \in Items : [score[i] EXCEPT !.ver = Outdated(score[i].ver)] \in [band : Bands, ver : Versions]
    BY DEF ScoreOK, Outdated, Versions
  <2>5. ScoreOK'
    BY <1>2, <2>4 DEF ScoreOK
  <2> QED BY <2>3, <2>5
<1>3. AllEdited /\ ScoreOK'
  BY <1>1, <1>2 DEF Restart
<1>4. CycleOK'
  BY NothingType DEF Restart, CycleIdle, CycleOK
<1>5. SweepOK'
  BY NothingType DEF Restart, SweepIdle, SweepOK, SweepPoints
<1>6. DrainOK'
  BY DrainIdleType DEF Restart, DrainOK, DrainType
<1> QED
  BY <1>3, <1>4, <1>5, <1>6 DEF Restart, WorldOK

LEMMA WriteFailsTypes ==
    ASSUME RowsOK, SweepOK, DrainOK, WorldOK, WriteFails
    PROVE  AllEdited /\ SweepOK' /\ DrainOK' /\ events' \in Nat
<1>0. drain \in DrainType
  BY DEF DrainOK, DrainType
<1>1. AllEdited
  BY SameEdits DEF WriteFails
<1>2. SweepOK'
  BY NothingType DEF WriteFails, SweepIdle, SweepOK, SweepPoints
<1>3. drain' \in DrainType
  <2>1. CASE drain' = drain
    BY <1>0, <2>1
  <2>2. CASE drain' = [drain EXCEPT !.at = "backlog", !.put = Nothing]
    BY <1>0, <2>2, NothingType DEF DrainType, DrainPoints
  <2>3. CASE drain' = [drain EXCEPT !.at = "slice"]
    BY <1>0, <2>3 DEF DrainType, DrainPoints
  <2>4. CASE \E a \in DrainActions \ {"none"} : Due(a) /\ drain' = Past(a)
    BY <1>0, <2>4, PastType
  <2> QED BY <2>1, <2>2, <2>3, <2>4 DEF WriteFails
<1>4. DrainOK'
  BY <1>3 DEF DrainOK, DrainType
<1> QED
  BY <1>1, <1>2, <1>4 DEF WriteFails, WorldOK

-----------------------------------------------------------------------------
(* Type correctness *)

LEMMA InitType ==
    ASSUME Init
    PROVE  TypeOK
<1>1. PICK past \in Pasts :
        /\ row = [i \in Items |-> IF past[i] = "none" THEN Unjudged
                                  ELSE [Judged(past[i], "score", "none") EXCEPT !.ver = "old"]]
        /\ score = [i \in Items |-> IF past[i] = "none" THEN [band |-> "low", ver |-> "none"]
                                    ELSE [band |-> IF past[i] = "yes" THEN "high" ELSE "low", ver |-> "old"]]
  BY DEF Init
<1>2. \A i \in Items : past[i] \in Sides \cup {"none"}
  BY PastsAssumption
<1>3. \A i \in Items : past[i] # "none" =>
        [Judged(past[i], "score", "none") EXCEPT !.ver = "old"] \in Row
  <2> SUFFICES ASSUME NEW i \in Items, past[i] # "none"
               PROVE  [Judged(past[i], "score", "none") EXCEPT !.ver = "old"] \in Row
    OBVIOUS
  <2>1. Judged(past[i], "score", "none") \in Row
    BY <1>2, JudgedType DEF Sources, Reasons
  <2> QED BY <2>1 DEF Row, Versions
<1>4. RowsOK
  BY <1>1, <1>3, UnjudgedType DEF RowsOK
<1>5. ScoreOK
  BY <1>1 DEF ScoreOK, Bands, Versions
<1>6. CardOK
  BY DEF Init, CardOK, Card
<1>7. CycleOK /\ SweepOK
  BY NothingType DEF Init, CycleIdle, CycleOK, SweepIdle, SweepOK, SweepPoints
<1>8. DrainOK
  BY DrainIdleType DEF Init, DrainOK, DrainType
<1>9. WorldOK
  BY DEF Init, WorldOK
<1> QED
  BY <1>4, <1>5, <1>6, <1>7, <1>8, <1>9, TypeParts

\* Every step keeps the types, and edits the rows.
LEMMA StepEdits ==
    ASSUME TypeOK, LanesSound, [Next]_vars
    PROVE  AllEdited /\ TypeOK'
<1>0. /\ RowsOK /\ CycleOK /\ SweepOK /\ DrainOK /\ ScoreOK /\ CardOK /\ WorldOK
      /\ SoundPut(cycle.batch) /\ SoundPut(sweep.put) /\ SoundPut(drain.put) /\ ToldOf(drain)
  BY TypeParts DEF LanesSound
<1>R. AllEdited => RowsOK'
  BY DEF AllEdited, RowsOK
<1>S. /\ cycle' = cycle => CycleOK'
      /\ sweep' = sweep => SweepOK'
      /\ drain' = drain => DrainOK'
      /\ score' = score => ScoreOK'
      /\ card' = card => CardOK'
  BY <1>0 DEF CycleOK, SweepOK, DrainOK, ScoreOK, CardOK
<1>W. UNCHANGED world /\ events' \in Nat => WorldOK'
  BY <1>0 DEF world, WorldOK
<1>N. events \in Nat
  BY <1>0 DEF WorldOK
<1>K. SUFFICES /\ AllEdited
               /\ CycleOK' /\ SweepOK' /\ DrainOK' /\ ScoreOK' /\ CardOK' /\ WorldOK'
  <2>1. RowsOK' /\ CycleOK' /\ SweepOK' /\ DrainOK' /\ ScoreOK' /\ CardOK' /\ WorldOK' => TypeOK'
    BY Zenon DEF TypeOK, LanesOK, RowsOK, CycleOK, SweepOK, DrainOK, ScoreOK, CardOK, WorldOK
  <2> QED BY <1>R, <2>1
<1>1. CASE CycleScore
  <2>1. UNCHANGED world /\ sweep' = sweep /\ drain' = drain
    BY <1>1 DEF CycleScore
  <2> QED BY <1>0, <1>1, <1>S, <1>W, <2>1, CycleScoreTypes
<1>2. CASE CycleStep
  <2>1. UNCHANGED <<world, sweep, drain, score, card, events>>
    BY <1>2 DEF CycleStep, CycleTwins, CyclePersist
  <2> QED BY <1>0, <1>2, <1>N, <1>S, <1>W, <2>1, CycleStepEdits
<1>3. CASE SweepStep
  <2>1. UNCHANGED <<world, card, cycle, drain, events>>
    BY <1>3 DEF SweepStep, SweepKeeps, SweepSunk, SweepCut, SweepNews, SweepTwins, SweepRetireTwins,
       SweepOrphans, SweepWithdrawOrphans, SweepReleases, SweepGate, SweepGateReject, SweepGateFree,
       SweepRescue, SweepTrain, SweepTrainDemote, SweepTrainWithdraw, SweepRisen, SweepRisenTwin,
       SweepPromote, SweepStale, SweepRejudge
  <2>2. ScoreOK'
    <3>1. CASE SweepRescue
      <4>1. \A i \in Items : [score[i] EXCEPT !.ver = "none"] \in [band : Bands, ver : Versions]
        BY <1>0 DEF ScoreOK, Versions
      <4>2. PICK S \in SUBSET Items :
              score' = [i \in Items |-> IF i \in S THEN [score[i] EXCEPT !.ver = "none"] ELSE score[i]]
        BY <3>1 DEF SweepRescue
      <4> QED BY <1>0, <4>1, <4>2 DEF ScoreOK
    <3>2. CASE score' = score
      BY <1>S, <3>2
    <3>3. SweepRescue \/ score' = score
      BY <1>3 DEF SweepStep, SweepSunk, SweepCut, SweepNews, SweepTwins, SweepRetireTwins,
         SweepOrphans, SweepWithdrawOrphans, SweepReleases, SweepGate, SweepGateReject, SweepGateFree,
         SweepTrain, SweepTrainDemote, SweepTrainWithdraw, SweepRisen, SweepRisenTwin,
         SweepPromote, SweepStale, SweepRejudge
    <3> QED BY <3>1, <3>2, <3>3
  <2> QED BY <1>0, <1>3, <1>N, <1>S, <1>W, <2>1, <2>2, SweepStepEdits
<1>4. CASE DrainStep
  <2>1. UNCHANGED <<world, score, cycle, sweep>>
    BY <1>4 DEF DrainStep, DrainKeeps, JudgeIngest, JudgeRejects, JudgeDemotes, DrainReleases,
       DrainPromoteReleases, DrainBacklog, DrainExhaust, DrainReuse, DrainAnswer, DrainDecide,
       DrainDemote, DrainPromote, DrainClear, DrainEscalate
  <2> QED BY <1>0, <1>4, <1>S, <1>W, <2>1, DrainStepEdits
<1>5. CASE \E i \in Items : Rescore(i)
  <2>1. UNCHANGED <<world, cycle, sweep, drain, events>>
    BY <1>5 DEF Rescore
  <2> QED BY <1>0, <1>5, <1>N, <1>S, <1>W, <2>1, RescoreTypes
<1>6. CASE \E i \in Items : Age(i)
  <2>1. UNCHANGED <<world, score, card, cycle, sweep, drain, events>>
    BY <1>6 DEF Age
  <2> QED BY <1>0, <1>6, <1>N, <1>S, <1>W, <2>1, AgeEdits
<1>7. CASE \E i \in Items : Requeue(i)
  <2>1. UNCHANGED <<world, card, cycle, sweep, drain>>
    BY <1>7 DEF Requeue
  <2> QED BY <1>0, <1>7, <1>S, <1>W, <2>1, RequeueTypes
<1>8. CASE \E i \in Items : SwitchSource(i)
  <2>1. UNCHANGED <<corpus, judgeOn, row, score, card, cycle, sweep, drain>> /\ events' = events + 1
    BY <1>8 DEF SwitchSource
  <2>2. off' \subseteq Items
    BY <1>0, <1>8 DEF SwitchSource, WorldOK
  <2>3. WorldOK'
    BY <1>0, <1>N, <2>1, <2>2 DEF WorldOK
  <2> QED BY <1>0, <1>S, <2>1, <2>3, SameEdits
<1>9. CASE SwitchJudge
  <2>1. UNCHANGED <<corpus, off, row, score, card, cycle, sweep, drain>> /\ events' = events + 1
    BY <1>9 DEF SwitchJudge
  <2>2. judgeOn' \in BOOLEAN
    BY <1>0, <1>9 DEF SwitchJudge, WorldOK
  <2>3. WorldOK'
    BY <1>0, <1>N, <2>1, <2>2 DEF WorldOK
  <2> QED BY <1>0, <1>S, <2>1, <2>3, SameEdits
<1>10. CASE Restart
  <2>1. UNCHANGED <<world, card>>
    BY <1>10 DEF Restart
  <2> QED BY <1>0, <1>10, <1>S, <1>W, <2>1, RestartTypes
<1>11. CASE WriteFails
  <2>1. UNCHANGED <<world, score, card, cycle>>
    BY <1>11 DEF WriteFails
  <2> QED BY <1>0, <1>11, <1>S, <1>W, <2>1, WriteFailsTypes
<1>12. CASE UNCHANGED vars
  <2>1. UNCHANGED <<world, row, score, card, cycle, sweep, drain, events>>
    BY <1>12 DEF vars, world
  <2> QED BY <1>0, <1>N, <1>S, <1>W, <2>1, SameEdits
<1> QED
  BY <1>1, <1>2, <1>3, <1>4, <1>5, <1>6, <1>7, <1>8, <1>9, <1>10, <1>11, <1>12 DEF Next

\* No step takes a judgment back, and what every lane carries on is sound.
LEMMA StepLasts ==
    ASSUME TypeOK, LanesSound, [Next]_vars
    PROVE  /\ Lasting /\ CardSound' /\ ToldOf(drain)'
           /\ SoundPut(cycle'.batch) /\ SoundPut(sweep'.put) /\ SoundPut(drain'.put)
<1>0. /\ CycleOK /\ SweepOK /\ DrainOK
      /\ SoundPut(cycle.batch) /\ SoundPut(sweep.put) /\ SoundPut(drain.put)
      /\ CardSound /\ ToldOf(drain)
  BY TypeParts DEF LanesSound
<1>C. card' = card => CardSound' /\ \A i \in Items : Read(i) => Read(i)'
  BY <1>0 DEF CardSound, Read
<1>T. drain' = drain /\ (\A i \in Items : Read(i) => Read(i)') => ToldOf(drain)'
  BY <1>0 DEF ToldOf
<1>1. CASE CycleScore
  <2>1. corpus' = corpus /\ sweep' = sweep /\ drain' = drain
    BY <1>1 DEF CycleScore, world
  <2> QED BY <1>0, <1>1, <1>T, <2>1, CycleScoreSound DEF Lasting
<1>2. CASE CycleStep
  <2>1. corpus' = corpus /\ card' = card /\ sweep' = sweep /\ drain' = drain
    BY <1>2 DEF CycleStep, CycleTwins, CyclePersist, world
  <2> QED BY <1>0, <1>2, <1>C, <1>T, <2>1, CycleStepSound DEF Lasting
<1>3. CASE SweepStep
  <2>1. corpus' = corpus /\ card' = card /\ cycle' = cycle /\ drain' = drain
    BY <1>3 DEF SweepStep, SweepKeeps, world, SweepSunk, SweepCut, SweepNews, SweepTwins, SweepRetireTwins,
       SweepOrphans, SweepWithdrawOrphans, SweepReleases, SweepGate, SweepGateReject, SweepGateFree,
       SweepRescue, SweepTrain, SweepTrainDemote, SweepTrainWithdraw, SweepRisen, SweepRisenTwin,
       SweepPromote, SweepStale, SweepRejudge
  <2> QED BY <1>0, <1>3, <1>C, <1>T, <2>1, SweepStepSound DEF Lasting
<1>4. CASE DrainStep
  <2>1. corpus' = corpus /\ cycle' = cycle /\ sweep' = sweep
    BY <1>4 DEF DrainStep, DrainKeeps, world, JudgeIngest, JudgeRejects, JudgeDemotes, DrainReleases,
       DrainPromoteReleases, DrainBacklog, DrainExhaust, DrainReuse, DrainAnswer, DrainDecide,
       DrainDemote, DrainPromote, DrainClear, DrainEscalate
  <2> QED BY <1>0, <1>4, <2>1, DrainStepSound DEF Lasting
<1>5. CASE \E i \in Items : Rescore(i)
  <2>1. PICK i \in Items : card' = [card EXCEPT ![i] = [card[i] EXCEPT !.late = FALSE]]
    BY <1>5 DEF Rescore
  <2>2. \A j \in Items : /\ card'[j].last = card[j].last
                         /\ card'[j].ingest = card[j].ingest /\ card'[j].drain = card[j].drain
    BY <2>1, TypeParts DEF CardOK, Card
  <2>3. CardSound' /\ \A j \in Items : Read(j) => Read(j)'
    BY <1>0, <2>2 DEF CardSound, Read
  <2>4. corpus' = corpus /\ cycle' = cycle /\ sweep' = sweep /\ drain' = drain
    BY <1>5 DEF Rescore, world
  <2> QED BY <1>0, <1>T, <2>3, <2>4 DEF Lasting
<1>6. CASE \E i \in Items : Age(i) \/ Requeue(i) \/ SwitchSource(i)
  <2>1. corpus' = corpus /\ card' = card /\ cycle' = cycle /\ sweep' = sweep /\ drain' = drain
    BY <1>6 DEF Age, Requeue, SwitchSource, world
  <2> QED BY <1>0, <1>C, <1>T, <2>1 DEF Lasting
<1>7. CASE SwitchJudge \/ UNCHANGED vars
  <2>1. corpus' = corpus /\ card' = card /\ cycle' = cycle /\ sweep' = sweep /\ drain' = drain
    BY <1>7 DEF SwitchJudge, vars
  <2> QED BY <1>0, <1>C, <1>T, <2>1 DEF Lasting
<1>8. CASE Restart
  <2>1. /\ corpus' = corpus /\ card' = card
        /\ cycle' = CycleIdle /\ sweep' = SweepIdle /\ drain' = DrainIdle
    BY <1>8 DEF Restart, world
  <2> QED BY <1>C, <2>1, NothingSound DEF Lasting, ToldOf, CycleIdle, SweepIdle, DrainIdle, NoReading
<1>9. CASE WriteFails
  <2>1. corpus' = corpus /\ card' = card /\ cycle' = cycle
    BY <1>9 DEF WriteFails, world
  <2>2. sweep' = sweep \/ sweep' = SweepIdle
    BY <1>9 DEF WriteFails
  <2>3. SoundPut(sweep'.put)
    BY <1>0, <2>2, NothingSound DEF SweepIdle
  <2>4. \/ drain' = drain
        \/ drain' = [drain EXCEPT !.at = "backlog", !.put = Nothing]
        \/ drain' = [drain EXCEPT !.at = "slice"]
        \/ \E a : drain' = Past(a)
    BY <1>9 DEF WriteFails
  <2>5. CASE \E a : drain' = Past(a)
    BY <1>0, <1>C, <2>1, <2>3, <2>5, PastSound DEF Lasting
  <2>6. CASE \/ drain' = drain
             \/ drain' = [drain EXCEPT !.at = "backlog", !.put = Nothing]
             \/ drain' = [drain EXCEPT !.at = "slice"]
    <3>1. drain'.put \in {drain.put, Nothing} /\ drain'.reads = drain.reads /\ drain'.todo = drain.todo
      <4>1. CASE drain' = [drain EXCEPT !.at = "backlog", !.put = Nothing]
        BY <1>0, <4>1 DEF DrainOK
      <4>2. CASE drain' = [drain EXCEPT !.at = "slice"]
        BY <1>0, <4>2 DEF DrainOK
      <4> QED BY <2>6, <4>1, <4>2
    <3>2. SoundPut(drain'.put) /\ ToldOf(drain)'
      BY <1>0, <1>C, <2>1, <3>1, NothingSound DEF ToldOf
    <3> QED BY <1>0, <1>C, <2>1, <2>3, <3>2 DEF Lasting
  <2> QED BY <2>4, <2>5, <2>6
<1> QED
  BY <1>1, <1>2, <1>3, <1>4, <1>5, <1>6, <1>7, <1>8, <1>9 DEF Next

\* What a lane holds stays sound whatever the others do.
LEMMA StepSound ==
    ASSUME TypeOK, LanesSound, [Next]_vars
    PROVE  LanesSound'
<1>1. CycleOK' /\ SweepOK' /\ DrainOK'
  <2>1. TypeOK'
    BY StepEdits
  <2> QED BY <2>1 DEF TypeOK, LanesOK, CycleOK, SweepOK, DrainOK
<1>2. /\ DOMAIN cycle'.batch \subseteq Items /\ DOMAIN sweep'.put \subseteq Items
      /\ DOMAIN drain'.put \subseteq Items
  BY <1>1, PutsElim DEF CycleOK, SweepOK, DrainOK
<1>3. \A put : SoundPut(put) /\ DOMAIN put \subseteq Items => \A i \in DOMAIN put : Sound(i, put[i])'
  BY StepLasts, SoundLasts DEF SoundPut
<1>4. SoundPut(cycle.batch)' /\ SoundPut(sweep.put)' /\ SoundPut(drain.put)'
  BY <1>2, <1>3, StepLasts DEF SoundPut
<1> QED BY <1>4, StepLasts DEF LanesSound

\* The inductive invariant: the types, and what the lanes hold.
IInv == TypeOK /\ LanesSound

LEMMA InitHolds ==
    ASSUME Init
    PROVE  IInv
<1>1. /\ cycle.batch = Nothing /\ sweep.put = Nothing /\ drain.put = Nothing
      /\ CardSound /\ ToldOf(drain)
  BY DEF Init, CycleIdle, SweepIdle, DrainIdle, CardSound, ToldOf, NoReading
<1> QED BY <1>1, InitType, NothingSound DEF IInv, LanesSound

LEMMA NextHolds ==
    ASSUME IInv, [Next]_vars
    PROVE  IInv'
BY StepEdits, StepSound DEF IInv

\* Whatever the lanes do to each other and however long ago they read, the columns,
\* the judgments and what every lane holds keep their types, and every verdict a
\* lane still means to write has a reason that is true of its row.
THEOREM LanesStaySound == Spec => []IInv
<1>1. Init => IInv
  BY InitHolds
<1>2. IInv /\ [Next]_vars => IInv'
  BY NextHolds
<1> QED
  BY <1>1, <1>2, PTL DEF Spec

\* The columns, the judgments and what every lane holds keep their types.
THEOREM TypeCorrect == Spec => []TypeOK
<1>1. IInv => TypeOK
  BY DEF IInv
<1> QED
  BY <1>1, LanesStaySound, PTL

-----------------------------------------------------------------------------
(* Markers and reasons *)

\* A marker that asks for nothing is no marker.
MarkShape == \A i \in Items : row[i].mark.to = "none" => row[i].mark = NoMark

\* The fields the edits produce, for the case splits below.
LEMMA EditFields ==
    ASSUME RowsOK, NEW i \in Items, Edited(i)
    PROVE  LET r == row[i]
               s == row'[i]
           IN  \/ s = r
               \/ \E v \in Verdict : Sound(i, v) /\ s = Persisted(i, v)
               \/ \E why \in Reasons \ {"none"} :
                    /\ Grounds(i, why) /\ s.rel = "no" /\ s.why = why
                    /\ s.src = r.src /\ s.mark = NoMark
               \/ s = Unjudged
               \/ /\ Curated(i) /\ s.src = "score" /\ s.mark = NoMark
                  /\ \/ s.rel = "yes" /\ s.why = "none"
                     \/ s.rel = "no" /\ s.why = "stale_version"
               \/ /\ s.rel = r.rel /\ s.why = r.why /\ s.src = r.src
                  /\ s.mark \in {NoMark, r.mark} \/ (r.mark # NoMark /\ Older(s.mark, r.mark))
<1>0. row[i] \in Row
  BY DEF RowsOK
<1>1. CASE \E why \in Reasons \ {"none"} : Grounds(i, why) /\ row'[i] = Demoted(row[i], why)
  <2>1. PICK why \in Reasons \ {"none"} : Grounds(i, why) /\ row'[i] = Demoted(row[i], why)
    BY <1>1
  <2>2. row'[i].rel = "no" /\ row'[i].why = why /\ row'[i].src = row[i].src /\ row'[i].mark = NoMark
    BY <1>0, <2>1 DEF Demoted, Row
  <2> QED BY <2>1, <2>2
<1>2. CASE Curated(i) /\ \E why \in {"none", "stale_version"} : row'[i] = Rejudged(row[i], why)
  <2>1. PICK why \in {"none", "stale_version"} : row'[i] = Rejudged(row[i], why)
    BY <1>2
  <2>2. /\ row'[i].src = "score" /\ row'[i].mark = NoMark /\ row'[i].why = why
        /\ row'[i].rel = IF why = "none" THEN row[i].rel ELSE "no"
    BY <1>0, <2>1 DEF Rejudged, Row
  <2> QED BY <1>2, <2>2 DEF Curated
<1>3. CASE row'[i] = [row[i] EXCEPT !.mark = NoMark]
  BY <1>0, <1>3 DEF Row
<1>4. CASE /\ row[i].mark # NoMark
           /\ \E m \in Marker : Older(m, row[i].mark) /\ row'[i] = [row[i] EXCEPT !.mark = m]
  <2>1. PICK m \in Marker : Older(m, row[i].mark) /\ row'[i] = [row[i] EXCEPT !.mark = m]
    BY <1>4
  <2>2. /\ row'[i].mark = m /\ row'[i].rel = row[i].rel
        /\ row'[i].why = row[i].why /\ row'[i].src = row[i].src
    BY <1>0, <2>1 DEF Row
  <2> QED BY <1>4, <2>1, <2>2
<1>5. CASE row'[i] = [row[i] EXCEPT !.aged = TRUE] \/ row'[i] = [row[i] EXCEPT !.ver = Outdated(row[i].ver)]
  BY <1>0, <1>5 DEF Row
<1> QED
  BY <1>1, <1>2, <1>3, <1>4, <1>5 DEF Edited

\* What the boundary writes, field by field.
LEMMA PersistedFields ==
    ASSUME RowsOK, NEW i \in Items, NEW v \in Verdict
    PROVE  LET r == Persisted(i, v)
               why == Ruling(i, v)
               to  == IF why = "none" THEN v.to ELSE "no"
           IN  \/ r = row[i]
               \/ /\ r.rel = to /\ r.src = v.src /\ r.why = why /\ r.mark = NoMark
                  /\ \/ why # "none" \/ v.src = "serendipity"
                     \/ row[i].rel \in {"none", to} \/ row[i].mark.to = to
               \/ /\ r.rel = row[i].rel /\ r.src = row[i].src /\ r.why = row[i].why
                  /\ r.mark = FirstMark(to) /\ r.mark.to = to
                  /\ why = "none" /\ row[i].rel \notin {"none", to} /\ row[i].mark.to # to
<1>0. row[i] \in Row
  BY DEF RowsOK
<1> DEFINE why == Ruling(i, v)
           to  == IF why = "none" THEN v.to ELSE "no"
<1>1. CASE Persisted(i, v) = row[i]
  BY <1>1
<1>2. CASE /\ Persisted(i, v) = Judged(to, v.src, why)
           /\ \/ why # "none" \/ v.src = "serendipity"
              \/ row[i].rel \in {"none", to} \/ row[i].mark.to = to
  BY <1>2 DEF Judged
<1>3. CASE /\ Persisted(i, v) = [row[i] EXCEPT !.mark = FirstMark(to)]
           /\ why = "none" /\ row[i].rel \notin {"none", to} /\ row[i].mark.to # to
  BY <1>0, <1>3 DEF Row, FirstMark
<1> QED
  BY <1>1, <1>2, <1>3, PersistedCases

\* The boundary never lets a row of a cut source or an archive page wait to come in.
LEMMA RulingBars ==
    ASSUME NEW i \in Items, NEW v \in Verdict, Kind(i) \in {"cut", "archive"}, Ruling(i, v) = "none"
    PROVE  v.to = "no"
BY DEF Ruling, Verdict, Sides

LEMMA ShapeStep ==
    ASSUME RowsOK, AllEdited, MarkShape
    PROVE  MarkShape'
<1> SUFFICES ASSUME NEW i \in Items, row'[i].mark.to = "none"
             PROVE  row'[i].mark = NoMark
  BY DEF MarkShape
<1>1. Edited(i) /\ (row[i].mark.to = "none" => row[i].mark = NoMark)
  BY DEF AllEdited, MarkShape
<1>2. CASE \E v \in Verdict : row'[i] = Persisted(i, v)
  <2>1. PICK v \in Verdict : row'[i] = Persisted(i, v)
    BY <1>2
  <2>2. Ruling(i, v) = "none" => v.to # "none"
    BY DEF Verdict, Sides
  <2> QED BY <1>1, <2>1, <2>2, PersistedFields
<1> QED BY <1>1, <1>2, EditFields DEF Unjudged, Older

\* Whoever writes, a marker asks for the other side.
LEMMA OpposesStep ==
    ASSUME RowsOK, AllEdited, Lasting, MarkerOpposes
    PROVE  MarkerOpposes'
<1> SUFFICES ASSUME NEW i \in Items, row'[i].mark.to # "none"
             PROVE  /\ row'[i].rel \in Sides \ {row'[i].mark.to}
                    /\ Kind(i) \in {"cut", "archive"} => row'[i].mark.to = "no"
  BY DEF MarkerOpposes, Lasting, Kind
<1>1. row[i] \in Row /\ row'[i] \in Row /\ Edited(i)
  BY DEF RowsOK, AllEdited
<1>2. row[i].mark.to # "none" => /\ row[i].rel \in Sides \ {row[i].mark.to}
                                 /\ Kind(i) \in {"cut", "archive"} => row[i].mark.to = "no"
  BY DEF MarkerOpposes
<1>3. row'[i].mark # NoMark /\ row'[i] # Unjudged
  BY DEF NoMark, Unjudged
<1>4. CASE row'[i] = row[i]
  BY <1>2, <1>4
<1>5. CASE \E v \in Verdict : row'[i] = Persisted(i, v)
  <2>1. PICK v \in Verdict : row'[i] = Persisted(i, v)
    BY <1>5
  <2>2. CASE row'[i] = row[i]
    BY <1>2, <2>2
  <2>3. CASE /\ row'[i].rel = row[i].rel /\ row'[i].mark.to = v.to
             /\ Ruling(i, v) = "none" /\ row[i].rel \notin {"none", v.to}
    <3>1. row'[i].rel \in Sides \ {row'[i].mark.to}
      BY <1>1, <2>3 DEF Row
    <3> QED BY <2>3, <3>1, RulingBars
  <2> QED BY <1>3, <2>1, <2>2, <2>3, PersistedFields
<1>6. CASE /\ row'[i].mark.to = row[i].mark.to
           /\ row'[i].rel = row[i].rel
  BY <1>2, <1>6
<1> QED
  BY <1>1, <1>3, <1>4, <1>5, <1>6, EditFields DEF Older

-----------------------------------------------------------------------------

\* A true reason stays true for as long as the verdict stands.
LEMMA HoldsLasts ==
    ASSUME Lasting, NEW i \in Items, NEW why, Holds(i, why), row'[i].src = row[i].src
    PROVE  Holds(i, why)'
BY DEF Lasting, Read, Holds, Kind

\* The reason in force is true of the row.
LEMMA RulingHolds ==
    ASSUME Lasting, CardSound, NEW i \in Items, NEW v \in Verdict, Sound(i, v), row'[i].src = v.src,
           NEW why, why = Ruling(i, v)
    PROVE  Holds(i, why)'
<1>0. Kind(i)' = Kind(i)
  BY DEF Kind, Lasting
<1>1. CASE why = "source_not_in_feed" /\ Kind(i) = "cut"
  BY <1>0, <1>1 DEF Holds
<1>2. CASE why = "stale_news" /\ Kind(i) = "archive"
  BY <1>0, <1>2 DEF Holds
<1>3. CASE why = GateReason(i) /\ Kind(i) = "gated"
  <2>1. CASE why = "llm_reject"
    <3>1. Latest(i) # "none"
      BY <1>3, <2>1 DEF GateReason
    <3>2. Read(i)'
      BY <3>1, JudgedRead DEF Lasting
    <3> QED BY <2>1, <3>2 DEF Holds, Read
  <2>2. CASE why \in {"none", "awaiting_judge"}
    BY <1>0, <1>3, <2>2 DEF Holds
  <2> QED BY <1>3, <2>1, <2>2 DEF GateReason
<1>4. CASE why = v.why
  <2>1. Sound(i, v)'
    BY SoundLasts
  <2>2. CASE why = "llm_reject"
    BY <1>4, <2>1, <2>2 DEF Sound, Read, Holds
  <2>3. CASE why # "llm_reject"
    BY <1>4, <2>1, <2>3 DEF Sound, Holds
  <2> QED BY <2>2, <2>3
<1>5. \/ why = "source_not_in_feed" /\ Kind(i) = "cut"
      \/ why = "stale_news" /\ Kind(i) = "archive"
      \/ why = GateReason(i) /\ Kind(i) = "gated"
      \/ why = v.why
  BY DEF Ruling
<1> QED BY <1>1, <1>2, <1>3, <1>4, <1>5

\* What the drain gave up on is never ruled otherwise.
LEMMA RulingExhausts ==
    ASSUME NEW i \in Items, NEW v \in Verdict, v.src = "fallback_exhausted"
    PROVE  Ruling(i, v) = "pending_retries_exhausted"
BY DEF Ruling, Verdict

\* The demotions of the sweep never touch what the drain gave up on.
LEMMA GroundsSpare ==
    ASSUME MarkShape, MarkerOpposes, ReasonsExplain, NEW i \in Items, NEW why, Grounds(i, why)
    PROVE  row[i].src # "fallback_exhausted"
<1>1. SUFFICES ASSUME row[i].why = "pending_retries_exhausted"
               PROVE  row[i].src # "fallback_exhausted"
  BY DEF ReasonsExplain
<1>2. row[i].rel = "no"
  BY <1>1 DEF ReasonsExplain
<1>3. ~Curated(i)
  BY <1>2 DEF Curated
<1>4. Kind(i) = "cut" => row[i].mark = NoMark
  BY <1>2, MarkShape, MarkerOpposes DEF MarkShape, MarkerOpposes
<1> QED BY <1>1, <1>3, <1>4 DEF Grounds

LEMMA ReasonsStep ==
    ASSUME RowsOK, AllEdited, Lasting, CardSound, MarkShape, MarkerOpposes, ReasonsExplain
    PROVE  ReasonsExplain'
<1> SUFFICES ASSUME NEW i \in Items, NEW why, row'[i].why = why
             PROVE  /\ why # "none" => row'[i].rel = "no" /\ Holds(i, why)'
                    /\ row'[i].src = "fallback_exhausted" => why = "pending_retries_exhausted"
  BY DEF ReasonsExplain, Holds, Kind
<1>1. Edited(i)
  BY DEF AllEdited
<1>2. /\ row[i].why = why /\ why # "none" => row[i].rel = "no" /\ Holds(i, why)
      /\ row[i].src = "fallback_exhausted" => row[i].why = "pending_retries_exhausted"
  BY DEF ReasonsExplain, Holds, Kind
<1>3. CASE row'[i].rel = row[i].rel /\ row[i].why = why /\ row'[i].src = row[i].src
  BY <1>2, <1>3, HoldsLasts
<1>4. CASE \E v \in Verdict : Sound(i, v) /\ row'[i] = Persisted(i, v)
  <2>1. PICK v \in Verdict : Sound(i, v) /\ row'[i] = Persisted(i, v)
    BY <1>4
  <2>2. CASE /\ row'[i].rel = (IF why = "none" THEN v.to ELSE "no")
             /\ row'[i].src = v.src /\ Ruling(i, v) = why
    <3>1. why # "none" => row'[i].rel = "no" /\ Holds(i, why)'
      BY <2>1, <2>2, RulingHolds
    <3>2. v.src = "fallback_exhausted" => why = "pending_retries_exhausted"
      BY <2>2, RulingExhausts
    <3> QED BY <2>2, <3>1, <3>2
  <2>3. \/ row'[i].rel = row[i].rel /\ row[i].why = row'[i].why /\ row'[i].src = row[i].src
        \/ /\ row'[i].rel = (IF row'[i].why = "none" THEN v.to ELSE "no")
           /\ row'[i].src = v.src /\ Ruling(i, v) = row'[i].why
    BY <2>1, PersistedFields
  <2> QED BY <1>3, <2>2, <2>3
<1>5. CASE why \in Reasons \ {"none"} /\ Grounds(i, why) /\ row'[i].rel = "no" /\ row'[i].src = row[i].src
  <2>1. Holds(i, why)
    BY <1>5 DEF Grounds, Holds
  <2> QED BY <1>5, <2>1, HoldsLasts, GroundsSpare
<1>6. CASE row'[i] = Unjudged
  BY <1>6 DEF Unjudged
<1>7. CASE /\ row'[i].src = "score"
           /\ \/ row'[i].rel = "yes" /\ why = "none"
              \/ row'[i].rel = "no" /\ why = "stale_version"
  BY <1>7 DEF Holds
<1> QED
  BY <1>1, <1>3, <1>4, <1>5, <1>6, <1>7, EditFields

-----------------------------------------------------------------------------

\* With what the lanes hold, these three are inductive together.
RowsInv == MarkShape /\ MarkerOpposes /\ ReasonsExplain

LEMMA RowsInvHolds == Spec => []RowsInv
<1>1. Init => RowsInv
  <2> SUFFICES ASSUME Init, NEW i \in Items
               PROVE  /\ row[i].mark = NoMark /\ row[i].why = "none"
                      /\ row[i].src # "fallback_exhausted"
    BY DEF RowsInv, MarkShape, MarkerOpposes, ReasonsExplain, NoMark
  <2> QED BY DEF Init, Unjudged, Judged
<1>2. IInv /\ RowsInv /\ [Next]_vars => RowsInv'
  <2> SUFFICES ASSUME IInv, RowsInv, [Next]_vars PROVE RowsInv'
    OBVIOUS
  <2>1. RowsOK /\ AllEdited /\ Lasting /\ CardSound
    BY StepEdits, StepLasts, TypeParts DEF IInv, LanesSound
  <2> QED BY <2>1, ShapeStep, OpposesStep, ReasonsStep DEF RowsInv
<1> QED
  BY <1>1, <1>2, LanesStaySound, PTL DEF Spec

\* A pending marker always asks for the side that does not stand, and no row that
\* may never come in waits to.
THEOREM MarkersOppose == Spec => []MarkerOpposes
<1>1. RowsInv => MarkerOpposes
  BY DEF RowsInv
<1> QED
  BY <1>1, RowsInvHolds, PTL

\* A reason is only ever the reason of a rejection and a true one, and what the
\* drain gave up on is explained and stays out.
THEOREM ReasonsExplained == Spec => []ReasonsExplain
<1>1. RowsInv => ReasonsExplain
  BY DEF RowsInv
<1> QED
  BY <1>1, RowsInvHolds, PTL

\* While the same flip stays pending, its attempts are never forgotten and its age
\* never starts over: no lane re-records a marker that stands, so what the drain
\* counts towards exhaustion is the flip's whole life (feed_verdict_pending_attempts,
\* feed_verdict_pending_since).
MarkersCount ==
    [][\A i \in Items : row[i].mark.to # "none" /\ row'[i].mark.to = row[i].mark.to =>
          row'[i].mark.tries >= row[i].mark.tries /\ (row[i].mark.aged => row'[i].mark.aged)]_vars

\* Nothing any lane does lets a pending flip start its count again.
THEOREM MarkersNeverRestart == Spec => MarkersCount
<1>1. TypeOK /\ LanesSound /\ [Next]_vars =>
        [\A i \in Items : row[i].mark.to # "none" /\ row'[i].mark.to = row[i].mark.to =>
           row'[i].mark.tries >= row[i].mark.tries /\ (row[i].mark.aged => row'[i].mark.aged)]_vars
  <2> SUFFICES ASSUME TypeOK, LanesSound, [Next]_vars, NEW i \in Items,
                      row[i].mark.to # "none", row'[i].mark.to = row[i].mark.to
               PROVE  row'[i].mark.tries >= row[i].mark.tries /\ (row[i].mark.aged => row'[i].mark.aged)
    OBVIOUS
  <2>1. RowsOK /\ AllEdited
    BY StepEdits, TypeParts
  <2>2. Edited(i) /\ row[i].mark \in Marker /\ row'[i].mark # NoMark /\ row'[i] # Unjudged
    BY <2>1 DEF AllEdited, RowsOK, Row, NoMark, Unjudged
  <2>3. CASE row'[i].mark = row[i].mark
    BY <2>2, <2>3, BoundsAssumption DEF Marker
  <2>4. CASE Older(row'[i].mark, row[i].mark)
    BY <2>4 DEF Older
  <2>5. CASE \E v \in Verdict : row'[i] = Persisted(i, v)
    <3>1. PICK v \in Verdict : row'[i] = Persisted(i, v)
      BY <2>5
    <3> QED BY <2>1, <2>2, <2>3, <3>1, PersistedFields
  <2> QED BY <2>1, <2>2, <2>3, <2>4, <2>5, EditFields
<1>2. IInv => TypeOK /\ LanesSound
  BY DEF IInv
<1> QED
  BY <1>1, <1>2, LanesStaySound, PTL DEF Spec, MarkersCount

-----------------------------------------------------------------------------
(* Admission *)

\* Only the boundary brings a row in, and it asks the judgment of that moment.
LEMMA AdmissionStep ==
    ASSUME TypeOK, LanesSound, [Next]_vars
    PROVE  \A i \in Items : ~Curated(i) /\ Curated(i)' =>
              /\ Kind(i) \notin {"cut", "archive"} /\ i \notin off
              /\ Kind(i) = "gated" => \/ ~judgeOn \/ Latest(i) = "relevant"
                                     \/ row'[i].src = "serendipity"
<1>0. RowsOK /\ AllEdited
  BY StepEdits, TypeParts
<1> SUFFICES ASSUME NEW i \in Items, ~Curated(i), Curated(i)'
             PROVE  /\ Kind(i) \notin {"cut", "archive"} /\ i \notin off
                    /\ Kind(i) = "gated" => \/ ~judgeOn \/ Latest(i) = "relevant"
                                           \/ row'[i].src = "serendipity"
  OBVIOUS
<1>1. row[i].rel # "yes" /\ row'[i].rel = "yes" /\ Edited(i)
  BY <1>0 DEF Curated, AllEdited
<1>2. PICK v \in Verdict : row'[i] = Persisted(i, v)
  BY <1>0, <1>1, EditFields DEF Unjudged, Curated
<1>3. Ruling(i, v) = "none" /\ v.to = "yes" /\ row'[i].src = v.src
  BY <1>0, <1>1, <1>2, PersistedFields
<1>4. Kind(i) \notin {"cut", "archive"}
  BY <1>3 DEF Ruling
<1>5. i \notin off
  BY <1>1, <1>2 DEF Persisted
<1>6. Kind(i) = "gated" /\ judgeOn /\ v.src # "serendipity" => GateReason(i) = "none"
  BY <1>3 DEF Ruling
<1>7. GateReason(i) = "none" => Latest(i) = "relevant"
  BY <1>1 DEF GateReason, Curated
<1> QED
  BY <1>3, <1>4, <1>5, <1>6, <1>7

\* However old the decision, nothing of a cut or switched-off source, no archive page
\* and nothing the judge has not cleared comes into the feed while there is a judge
\* to ask.
THEOREM AdmissionAlwaysHolds == Spec => AdmissionHolds
<1>1. TypeOK /\ LanesSound /\ [Next]_vars =>
        [\A i \in Items : ~Curated(i) /\ Curated(i)' =>
              /\ Kind(i) \notin {"cut", "archive"} /\ i \notin off
              /\ Kind(i) = "gated" => \/ ~judgeOn \/ Latest(i) = "relevant"
                                     \/ row'[i].src = "serendipity"]_vars
  BY AdmissionStep
<1>2. IInv => TypeOK /\ LanesSound
  BY DEF IInv
<1> QED
  BY <1>1, <1>2, LanesStaySound, PTL DEF Spec, AdmissionHolds

\* A row keeps its verdict, is withdrawn, or goes out for a recorded reason.
OnlyLeaves(i) ==
    /\ \/ row'[i].rel = row[i].rel
       \/ row'[i] = Unjudged
       \/ row'[i].rel = "no" /\ row'[i].why # "none"
    /\ row'[i].mark.to \in {row[i].mark.to, "none"}

\* What may still happen to a row whose source is off (the rest of "its standing
\* verdict is left exactly as it was", db/verdicts.rs, which the sweeps do not keep):
\* it is withdrawn, or it goes out for a reason that is written down; it never comes
\* in, and no flip is begun on it that it did not wait for already.
TurnedOffOnlyLeaves == [][\A i \in off : OnlyLeaves(i)]_vars

\* Once a source is off its rows can only leave, whatever the lanes had read of them.
THEOREM TurnedOffRowsOnlyLeave == Spec => TurnedOffOnlyLeaves
<1>1. TypeOK /\ LanesSound /\ [Next]_vars => [\A i \in off : OnlyLeaves(i)]_vars
  <2> SUFFICES ASSUME TypeOK, LanesSound, [Next]_vars, NEW i \in off
               PROVE  OnlyLeaves(i)
    OBVIOUS
  <2>1. RowsOK /\ AllEdited /\ off \subseteq Items
    BY StepEdits, TypeParts DEF WorldOK
  <2>2. i \in Items /\ Edited(i) /\ NoMark.to = "none" /\ Unjudged.mark = NoMark
    BY <2>1 DEF AllEdited, NoMark, Unjudged
  <2>3. \A v \in Verdict : Persisted(i, v) = row[i]
    BY DEF Persisted
  <2> QED BY <2>1, <2>2, <2>3, EditFields DEF OnlyLeaves, Curated, Older
<1>2. IInv => TypeOK /\ LanesSound
  BY DEF IInv
<1> QED
  BY <1>1, <1>2, LanesStaySound, PTL DEF Spec, TurnedOffOnlyLeaves

-----------------------------------------------------------------------------
(* The refinement *)

LEMMA StandingType ==
    ASSUME RowsOK
    PROVE  FeedBar \in [Items -> Damped!Standing]
BY DEF RowsOK, Row, Marker, Sides, Reasons, FeedBar, Damped!Standing, Damped!Sides, Damped!Causes

\* A row's standing before and after.
Seen(r) == [shown |-> r.rel, intent |-> r.mark.to,
            cause |-> IF r.src = "serendipity" /\ r.why = "none" THEN "pick" ELSE r.why]

LEMMA EditMoves ==
    ASSUME RowsOK, NEW i \in Items, Edited(i)
    PROVE  Seen(row'[i]) = Seen(row[i]) \/ Damped!Move(Seen(row[i]), Seen(row'[i]))
<1> DEFINE a == Seen(row[i])
           b == Seen(row'[i])
<1>0. row[i] \in Row
  BY DEF RowsOK
<1>A. a.shown = row[i].rel /\ a.intent = row[i].mark.to
  BY DEF Seen
<1>B. /\ b.shown = row'[i].rel /\ b.intent = row'[i].mark.to
      /\ b.cause = IF row'[i].src = "serendipity" /\ row'[i].why = "none" THEN "pick" ELSE row'[i].why
  BY DEF Seen
<1>M. NoMark.to = "none"
  BY DEF NoMark
<1>1. CASE row'[i] = row[i]
  BY <1>1
<1>2. CASE \E v \in Verdict : row'[i] = Persisted(i, v)
  <2>1. PICK v \in Verdict : row'[i] = Persisted(i, v)
    BY <1>2
  <2> DEFINE why == Ruling(i, v)
             to  == IF why = "none" THEN v.to ELSE "no"
  <2>2. to \in Sides /\ why \in Reasons
    BY RulingType DEF Verdict, Sides
  <2>3. CASE /\ row'[i].rel = to /\ row'[i].src = v.src /\ row'[i].why = why /\ row'[i].mark = NoMark
             /\ \/ why # "none" \/ v.src = "serendipity"
                \/ row[i].rel \in {"none", to} \/ row[i].mark.to = to
    <3>1. b.shown = to /\ b.intent = "none"
      BY <1>B, <1>M, <2>3
    <3>2. CASE why # "none"
      <4>1. to = "no" /\ b.cause = why /\ why # "pick"
        BY <1>B, <2>2, <2>3, <3>2 DEF Reasons
      <4>2. Damped!Reject(a, b)
        BY <3>1, <3>2, <4>1 DEF Damped!Reject
      <4> QED BY <4>2 DEF Damped!Move
    <3>3. CASE why = "none" /\ v.src = "serendipity"
      <4>1. b.cause = "pick"
        BY <1>B, <2>3, <3>3
      <4>2. Damped!Pick(a, b)
        BY <2>2, <3>1, <4>1 DEF Damped!Pick, Damped!Sides, Sides
      <4> QED BY <4>2 DEF Damped!Move
    <3>4. CASE row[i].rel = "none"
      <4>1. Damped!First(a, b)
        BY <1>A, <2>2, <3>1, <3>4 DEF Damped!First, Damped!Sides, Sides
      <4> QED BY <4>1 DEF Damped!Move
    <3>5. CASE row[i].rel = to
      <4>1. Damped!Stand(a, b)
        BY <1>A, <3>1, <3>5 DEF Damped!Stand
      <4> QED BY <4>1 DEF Damped!Move
    <3>6. CASE row[i].mark.to = to
      <4>1. Damped!Agree(a, b)
        BY <1>A, <2>2, <3>1, <3>6 DEF Damped!Agree, Damped!Sides, Sides
      <4> QED BY <4>1 DEF Damped!Move
    <3> QED BY <2>3, <3>2, <3>3, <3>4, <3>5, <3>6
  <2>4. CASE /\ row'[i].rel = row[i].rel /\ row'[i].src = row[i].src /\ row'[i].why = row[i].why
             /\ row'[i].mark.to = to /\ row[i].rel \notin {"none", to}
    <3>1. b.cause = a.cause
      BY <2>4 DEF Seen
    <3>2. a.shown \in Sides
      BY <1>0, <1>A, <2>4 DEF Row
    <3>3. Damped!Ask(a, b)
      BY <1>A, <1>B, <2>2, <2>4, <3>1, <3>2 DEF Damped!Ask, Damped!Sides, Sides
    <3> QED BY <3>3 DEF Damped!Move
  <2>5. CASE row'[i] = row[i]
    BY <2>5
  <2> HIDE DEF a, b
  <2> QED BY <2>1, <2>3, <2>4, <2>5, PersistedFields
<1>3. CASE row'[i].rel = "no" /\ row'[i].why \in Reasons \ {"none"} /\ row'[i].mark = NoMark
  <2>1. Damped!Reject(a, b)
    BY <1>3, <1>B, <1>M DEF Damped!Reject, Reasons
  <2> QED BY <2>1 DEF Damped!Move
<1>4. CASE row'[i] = Unjudged
  <2>1. Damped!Withdraw(a, b)
    BY <1>4 DEF Damped!Withdraw, Damped!Unjudged, Seen, Unjudged, NoMark
  <2> QED BY <2>1 DEF Damped!Move
<1>5. CASE Curated(i) /\ row'[i].rel = "yes" /\ row'[i].mark = NoMark
  <2>1. Damped!Stand(a, b)
    BY <1>5, <1>A, <1>B, <1>M DEF Damped!Stand, Curated
  <2> QED BY <2>1 DEF Damped!Move
<1>6. CASE /\ row'[i].mark.to \in {"none", row[i].mark.to}
           /\ row'[i].rel = row[i].rel /\ row'[i].why = row[i].why /\ row'[i].src = row[i].src
  <2>1. CASE row'[i].mark.to = row[i].mark.to
    BY <1>6, <2>1 DEF Seen
  <2>2. CASE row'[i].mark.to = "none"
    <3>1. Damped!Stand(a, b)
      BY <1>6, <1>A, <1>B, <2>2 DEF Damped!Stand
    <3> QED BY <3>1 DEF Damped!Move
  <2> QED BY <1>6, <2>1, <2>2
<1> HIDE DEF a, b
<1> QED
  BY <1>M, <1>1, <1>2, <1>3, <1>4, <1>5, <1>6, EditFields DEF Older, Reasons

\* However many lanes write it, the feed moves as the damped feed does: an item
\* enters or leaves on a second run's word, for a reason, or as an anti-bubble pick that
\* one run brings in or turns down.
THEOREM Refinement == Spec => FeedIsDamped
<1>1. Init => Damped!Init
  <2> SUFFICES ASSUME Init PROVE Damped!Init
    OBVIOUS
  <2>1. RowsOK
    BY InitType, TypeParts
  <2> QED BY <2>1, StandingType DEF Damped!Init
<1>2. IInv /\ [Next]_vars => [Damped!Next]_FeedBar
  <2> SUFFICES ASSUME TypeOK, LanesSound, [Next]_vars PROVE Damped!Next
    BY DEF IInv
  <2>1. RowsOK /\ AllEdited /\ TypeOK'
    BY StepEdits, TypeParts
  <2>2. RowsOK'
    BY <2>1 DEF AllEdited, RowsOK
  <2>3. FeedBar' \in [Items -> Damped!Standing]
    BY <2>2 DEF RowsOK, Row, Marker, Sides, Reasons, FeedBar, Damped!Standing, Damped!Sides, Damped!Causes
  <2>4. \A i \in Items : FeedBar[i] = Seen(row[i]) /\ FeedBar'[i] = Seen(row'[i])
    BY DEF FeedBar, Seen
  <2>5. \A i \in Items : FeedBar'[i] = FeedBar[i] \/ Damped!Move(FeedBar[i], FeedBar'[i])
    BY <2>1, <2>4, EditMoves DEF AllEdited
  <2> QED BY <2>3, <2>5 DEF Damped!Next
<1> QED
  BY <1>1, <1>2, LanesStaySound, PTL DEF Spec, Damped!Spec, FeedIsDamped

=============================================================================
